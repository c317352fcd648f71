--------------------------------- MODULE Fmdn ---------------------------------
(***************************************************************************)
(* Location reports of trackers: the ephemeral identifier a tracker        *)
(* advertises (crypto/eid.go), the curve it is a point of                  *)
(* (crypto/secp160r1.go), and the report encrypted to it by whoever hears  *)
(* it (crypto/foreigntracker.go), over the ciphers of Eax.                 *)
(*                                                                         *)
(* The curve is y^2 = x^3 - 3x + B over the integers modulo P, for any     *)
(* prime P with P % 4 = 3 and a group of prime order N; a coordinate is a  *)
(* number, and the bytes of one are taken where the code cuts them.        *)
(***************************************************************************)
EXTENDS Eax, SequencesExt

CONSTANTS
    P, B, N, G,          \* the curve and its base point
    EIDK,                \* the bits masked off a timestamp, 10
    TsLen,               \* the bytes kept of it, 4
    HKDF(_)              \* hkdfSHA256, from a coordinate to a key

ASSUME CurveAssumption ==
    /\ P % 4 = 3 /\ N \in Nat /\ EIDK \in Bytes
    /\ TsLen \in 1..(BlockLen - 1)

Bits(s) == FoldLeft(LAMBDA sum, b : sum * ByteSize + b, 0, s)

\* The n low bytes of a number, the highest first.
LowBytes(v, n) == [i \in 1..n |-> (v \div ByteSize^(n - i)) % ByteSize]

-----------------------------------------------------------------------------
(* The curve.  A point is [x, y]; Infinity is the neutral element. *)

Infinity == [x |-> P, y |-> P]

Power(v, n) ==
    LET f[k \in 0..n] == IF k = 0 THEN 1 ELSE (f[k - 1] * v) % P IN f[n]

Inverted(v) == Power(v % P, P - 2)

\* External: crypto/elliptic adds points
PointAdd(a, b) ==
    LET slope == IF a = b THEN ((3 * a.x * a.x - 3) * Inverted(2 * a.y)) % P
                          ELSE ((b.y - a.y) * Inverted(b.x - a.x)) % P
        x == (slope * slope - a.x - b.x) % P
    IN  IF a = Infinity THEN b
        ELSE IF b = Infinity THEN a
        ELSE IF a.x = b.x /\ (a.y + b.y) % P = 0 THEN Infinity
        ELSE [x |-> x, y |-> (slope * (a.x - x) - a.y) % P]

\* pointMul, scalarBaseMult and pointMulScalarBase
PointMul(k, a) ==
    LET f[n \in 0..k] == IF n = 0 THEN Infinity ELSE PointAdd(f[n - 1], a) IN f[k]

YSquared(x) == (x * x * x - 3 * x + B) % P

\* Mutated form: the root is not checked.
AnyRoot(x) ==
    LET y == Power(YSquared(x), (P + 1) \div 4)
    IN  IF x >= P THEN Infinity ELSE [x |-> x, y |-> IF y % 2 = 1 THEN P - y ELSE y]

\* PointFromX: the point with an even y, or none.
PointFromX(x) ==
    LET y == Power(YSquared(x), (P + 1) \div 4)
    IN  IF x >= P \/ (y * y) % P # YSquared(x) THEN Infinity
        ELSE [x |-> x, y |-> IF y % 2 = 1 THEN P - y ELSE y]

-----------------------------------------------------------------------------
(* Ephemeral identifiers *)

\* Mutated form: the low bits are kept.
UnmaskedTimestamp(ts) == LowBytes(ts, TsLen)

\* getMaskedTimestamp
MaskedTimestamp(ts) == LowBytes(ts - (ts % 2^EIDK), TsLen)

\* calculateR: two blocks, each with the mask's width and the timestamp at its
\* end, the first filled with ones and the second with zeros.
CalculateR(key, ts) ==
    LET half(fill) == [i \in 1..(BlockLen - TsLen - 1) |-> fill] \o <<EIDK>> \o MaskedTimestamp(ts)
    IN  Bits(AESECBEncrypt(key, half(ByteSize - 1) \o half(0)).value) % N

GenerateEID(key, ts) ==
    IF key \notin Keys THEN Refused("key")
    ELSE IF CalculateR(key, ts) = 0 THEN Refused("zero")
    ELSE Ok(PointMul(CalculateR(key, ts), G).x)

-----------------------------------------------------------------------------
(* Reports *)

\* The key and the nonce that both sides derive from their shared point, from
\* the tracker's point and from the sender's.
Nonce(rx, sx) == LowBytes(rx, BlockLen \div 2) \o LowBytes(sx, BlockLen \div 2)

\* EncryptForeignTracker: the report and the x coordinate of the sender's point
EncryptForeignTracker(message, random, eid) ==
    LET s == random % N
        S == PointMul(s, G)
        R == PointFromX(eid)
        shared == PointMul(s, R)
        report == EncryptEAX(HKDF(shared.x), Nonce(eid, S.x), <<>>, message)
    IN  IF s = 0 THEN Refused("zero")
        ELSE IF R = Infinity THEN Refused("EID")
        ELSE Ok([report |-> report.value, sx |-> S.x])

\* DecryptForeignTracker, which DecryptForeignReport is
DecryptForeignTracker(key, both, sx, ts) ==
    LET r == CalculateR(key, ts)
        S == PointFromX(sx)
    IN  IF Len(both) < BlockLen THEN Refused("short")
        ELSE IF key \notin Keys THEN Refused("key")
        ELSE IF r = 0 THEN Refused("zero")
        ELSE IF S = Infinity THEN Refused("EID")
        ELSE DecryptEAX(HKDF(PointMul(r, S).x), Nonce(PointMul(r, G).x, S.x), <<>>, both)

-----------------------------------------------------------------------------
(* Properties *)

\* The timestamps that share a rotation period, which wraps around with the
\* bytes that are kept of them.
SamePeriod(ts, other) ==
    ((ts \div 2^EIDK) - (other \div 2^EIDK)) % (ByteSize^TsLen \div 2^EIDK) = 0

\* A report that anyone encrypts to the identifier of a tracker opens with its
\* identity key for every beacon time of the same rotation period, although
\* both points are rebuilt from their x alone, and maybe with the wrong sign
\* (EncryptForeignTracker, DecryptForeignTracker, GenerateEID).
ReportOpens(key, ts, other, random, message) ==
    LET eid  == GenerateEID(key, ts)
        sent == EncryptForeignTracker(message, random, eid.value)
    IN  eid.err = "none" /\ sent.err = "none" /\ SamePeriod(ts, other) =>
            DecryptForeignTracker(key, sent.value.report, sent.value.sx, other) = Ok(message)

\* Every identifier is the x of a point, so that nobody's report is refused for
\* it; of the numbers, PointFromX takes exactly the x of the curve's points,
\* each with an even y.
IdentifiersAreOnCurve(key, ts, x) ==
    /\ LET eid == GenerateEID(key, ts)
       IN  eid.err = "none" => PointFromX(eid.value) # Infinity
    /\ LET roots == {y \in 0..(P - 1) : x < P /\ (y * y) % P = YSquared(x)}
       IN  IF roots = {} THEN PointFromX(x) = Infinity
           ELSE PointFromX(x).x = x /\ PointFromX(x).y \in {y \in roots : y % 2 = 0}

\* Only the tracker's scalar and its negative share the key of a report:
\* another tracker, or another period, derives another point.
OnlyTheTracker(s, r, other) ==
    PointMul(other, PointFromX(PointMul(s, G).x)).x = PointMul(s, PointFromX(PointMul(r, G).x)).x
        <=> other \in {r, N - r}

=============================================================================
