------------------------------- MODULE Framing -------------------------------
(***************************************************************************)
(* The framing of bytes on the wire: varints and messages of the push      *)
(* connection (fcm/push.go), and the frames of the Spot API                *)
(* (grpc/grpc.go).                                                         *)
(*                                                                         *)
(* Varints and push messages are over bytes of GroupBits + 1 bits and      *)
(* words of WordBits (7 and 32 in the code); gRPC frames have their real   *)
(* widths.  A reader is a function of the bytes that will arrive before    *)
(* the end of the stream; it yields what it read, or an error, and the     *)
(* bytes left.  A failure is the name of its error; success is "none".     *)
(***************************************************************************)
EXTENDS Integers, Sequences, FiniteSetsExt

CONSTANTS
    GroupBits, WordBits,
    MaxMCSMessageSize,
    MaxFrameSize,                 \* 16 MiB in the code
    MCSVersion, LegacyVersion,    \* 41 and 38
    Tags,                         \* the keys of newMessageByTag
    Parses(_, _)                  \* does proto.Unmarshal take a payload for a tag

Group == 2^GroupBits
Word  == 2^WordBits

\* The bytes of the longest varint, and what a bit of the (i+1)-th counts at
\* least: "<< shift" in the code.
MostBytes == (WordBits + GroupBits - 1) \div GroupBits

Scale[i \in 0..MostBytes] == IF i = 0 THEN 1 ELSE Group * Scale[i - 1]

\* The last line says of powers of two what holds for all widths.
ASSUME WidthAssumption ==
    /\ GroupBits \in Nat \ {0} /\ WordBits \in Nat \ {0}
    /\ MaxMCSMessageSize \in 0..(Word - 1) /\ MaxFrameSize \in Nat
    /\ Group \in Nat \ {0, 1} /\ Word \in Nat \ {0} /\ Word <= Scale[MostBytes]

From(s, i) == SubSeq(s, i, Len(s))

Fails(err) == [err |-> err, value |-> <<>>, rest |-> <<>>]

-----------------------------------------------------------------------------
(* Varints *)

\* Mutated form: the least value of two bytes is still written as one.
FitsShort(x) == x <= Group

Fits(x) == x < Group

\* What is left of x after i turns of the loop.
Left(x) ==
    LET left[i \in 0..MostBytes] == IF i = 0 THEN x ELSE left[i - 1] \div Group
    IN  left

EncodeVarint32(x) ==
    LET left == Left(x)
        last == Min({i \in 0..MostBytes : Fits(left[i])})
    IN  [i \in 1..(last + 1) |->
            IF i <= last THEN (left[i - 1] % Group) + Group ELSE left[last]]

\* What the first n bytes add up to.
Sum(s, n) ==
    LET sum[i \in 0..n] ==
            IF i = 0 THEN 0 ELSE sum[i - 1] + (s[i] % Group) * Scale[i - 1]
    IN  sum[n]

\* A byte whose shift has reached WordBits is an overflow, but only once it
\* has been read; what its predecessor has above the word is shifted out.
DecodeVarint32(s) ==
    LET ends == {i \in DOMAIN s : s[i] < Group}
        n    == Min(ends)
    IN  IF ends # {} /\ n <= MostBytes
          THEN [err |-> "none", rest |-> From(s, n + 1), value |-> Sum(s, n) % Word]
          ELSE Fails(IF Len(s) > MostBytes THEN "overflow" ELSE "eof")

-----------------------------------------------------------------------------
(* Messages of the push connection *)

\* The bytes sendMsg writes for a message.
Frame(isFirst, m) ==
    (IF isFirst THEN <<MCSVersion, m.tag>> ELSE <<m.tag>>)
        \o EncodeVarint32(Len(m.payload)) \o m.payload

\* readMsg.  Nothing is read of a payload above the limit; the tag is looked
\* up only once the payload is there.
ReadMsg(isFirst, s) ==
    LET header  == IF isFirst THEN 2 ELSE 1
        size    == DecodeVarint32(From(s, header + 1))
        payload == SubSeq(size.rest, 1, size.value)
        err     == IF Len(s) < header THEN "eof"
                   ELSE IF isFirst /\ s[1] < MCSVersion /\ s[1] # LegacyVersion THEN "version"
                   ELSE IF size.err # "none" THEN size.err
                   ELSE IF size.value > MaxMCSMessageSize THEN "limit"
                   ELSE IF Len(size.rest) < size.value THEN "eof"
                   ELSE IF s[header] \notin Tags THEN "tag"
                   ELSE IF ~Parses(s[header], payload) THEN "unmarshal" ELSE "none"
    IN  IF err # "none" THEN Fails(err)
        ELSE [err |-> err, value |-> [tag |-> s[header], payload |-> payload],
              rest |-> From(size.rest, size.value + 1)]

-----------------------------------------------------------------------------
(* gRPC frames *)

\* What the length of a frame can say.  Wrap panics above it.
Below4GiB(n) == n \div 16777216 < 256

BigEndian(n) == <<n \div 16777216, (n \div 65536) % 256, (n \div 256) % 256, n % 256>>
Value(b, i)  == b[i] * 16777216 + b[i + 1] * 65536 + b[i + 2] * 256 + b[i + 3]

Wrap(payload) == <<0>> \o BigEndian(Len(payload)) \o payload

\* Mutated form: a payload of just the size that is allowed is refused.
TooLargeAtLimit(n) == n >= MaxFrameSize

TooLarge(n) == n > MaxFrameSize

\* The error of a frame, which Unwrap has in full and ReadFrame reads: the
\* five bytes of the header, then the payload.
FrameError(s) ==
    IF Len(s) < 5 THEN "short"
    ELSE IF s[1] # 0 THEN "compressed"
    ELSE IF TooLarge(Value(s, 2)) THEN "limit"
    ELSE IF Len(s) - 5 < Value(s, 2) THEN "short" ELSE "none"

\* Mutated form: the bytes that follow the frame are taken as well.
UnwrapAll(s) ==
    IF FrameError(s) # "none" THEN Fails(FrameError(s))
    ELSE [err |-> "none", value |-> From(s, 6), rest |-> <<>>]

\* What follows the frame is dropped.
Unwrap(s) ==
    IF FrameError(s) # "none" THEN Fails(FrameError(s))
    ELSE [err |-> "none", value |-> SubSeq(s, 6, 5 + Value(s, 2)), rest |-> <<>>]

ReadFrame(s) ==
    IF FrameError(s) # "none" THEN Fails(FrameError(s))
    ELSE [err |-> "none", value |-> SubSeq(s, 6, 5 + Value(s, 2)), rest |-> From(s, 6 + Value(s, 2))]

-----------------------------------------------------------------------------
(* Properties *)

\* What sendMsg writes, readMsg reads back, whatever follows it on the
\* connection; of a message cut short it reads nothing; and a message above
\* the limit it refuses before it reads the payload (push.go).
ReadsBack(isFirst, m, more) ==
    LET bytes == Frame(isFirst, m)
        sized == Len(bytes) - Len(m.payload)
        read  == ReadMsg(isFirst, bytes \o more)
    IN  IF Len(m.payload) > MaxMCSMessageSize
          THEN \A n \in sized..Len(bytes) : ReadMsg(isFirst, SubSeq(bytes, 1, n)).err = "limit"
          ELSE /\ m.tag \in Tags /\ Parses(m.tag, m.payload) =>
                    read.err = "none" /\ read.value = m /\ read.rest = more
               /\ \A n \in 0..(Len(bytes) - 1) : ReadMsg(isFirst, SubSeq(bytes, 1, n)).err = "eof"

\* Any bytes are read as a number below 2^WordBits or refused, and never more
\* of them than a word has groups; a number of the right size is the one that
\* is encoded by the shortest form of those bytes (decodeVarint32).
VarintExact(s) ==
    LET read == DecodeVarint32(s)
        used == Len(s) - Len(read.rest)
    IN  read.err = "none" =>
          /\ read.value \in 0..(Word - 1)
          /\ (used - 1) * GroupBits < WordBits
          /\ LET short == EncodeVarint32(read.value)
             IN  /\ Len(short) <= used
                 /\ DecodeVarint32(short \o read.rest) = read

\* Every frame that is taken is one that Wrap builds, with its payload and
\* nothing of what follows it (grpc.go).
FramesAgree(s) ==
    Unwrap(s).err = "none" =>
        /\ s = Wrap(Unwrap(s).value) \o ReadFrame(s).rest
        /\ ReadFrame(s).value = Unwrap(s).value

\* What Wrap builds Unwrap and ReadFrame take, whatever follows it: the payload
\* comes out, and ReadFrame leaves what follows.  Of a frame cut short nothing is
\* taken, and one above the limit is refused by its header (grpc.go).
Unwraps(payload, more) ==
    LET frame == Wrap(payload)
        bytes == frame \o more
    IN  IF Len(payload) > MaxFrameSize
          THEN \A n \in 5..Len(frame) :
                  LET cut == SubSeq(frame, 1, n)
                  IN  Unwrap(cut).err = "limit" /\ ReadFrame(cut).err = "limit"
          ELSE /\ Unwrap(bytes).err = "none" /\ Unwrap(bytes).value = payload
               /\ ReadFrame(bytes) = [err |-> "none", value |-> payload, rest |-> more]
               /\ \A n \in 0..(Len(frame) - 1) :
                     LET cut == SubSeq(frame, 1, n)
                     IN  Unwrap(cut).err = "short" /\ ReadFrame(cut).err = "short"

=============================================================================
