--------------------------------- MODULE Eax ---------------------------------
(***************************************************************************)
(* The ciphers of crypto/eax.go: CMAC, EAX on top of it and of counter     *)
(* mode, ECB, and GCM with its IV in front.                                *)
(*                                                                         *)
(* Bytes are 0 .. 2*Top-1 and a block is BlockLen of them (Top is 128 and  *)
(* BlockLen 16 in the code), so that small instances have every case of    *)
(* padding and doubling.  The block cipher, exclusive or and GCM are those *)
(* of the Go library: AES, Xor and GCMOpen are parameters.                 *)
(***************************************************************************)
EXTENDS Integers, Sequences, FiniteSetsExt

CONSTANTS
    Top, BlockLen,
    Rb,                  \* the last byte of rb128, 135 (0x87)
    IVLen,               \* the bytes of a GCM IV, 12
    Keys,                \* the keys of a length that aes.NewCipher takes
    Xor(_, _),
    AES(_, _),           \* block.Encrypt: key, block
    GCMOpen(_, _, _, _)  \* gcm.Open: key, IV, ciphertext, associated data

ByteSize == 2 * Top

Bytes  == 0..(ByteSize - 1)
Blocks == [1..BlockLen -> Bytes]

\* The flags 0, 1 and 2 of the three MACs of EAX are bytes.
ASSUME CipherAssumption ==
    /\ Top \in Nat \ {0, 1} /\ BlockLen \in Nat \ {0} /\ Rb \in Bytes
    /\ \A a, b \in Bytes : Xor(a, b) \in Bytes /\ Xor(Xor(a, b), b) = a
    /\ \A k \in Keys, b \in Blocks : AES(k, b) \in Blocks

Ok(v)      == [err |-> "none", value |-> v]
Refused(e) == [err |-> e, value |-> <<>>]

ZeroBlock == [i \in 1..BlockLen |-> 0]
LastByte(b) == [ZeroBlock EXCEPT ![BlockLen] = b]

\* xorBytes, on blocks
XorBlocks(a, b) == [i \in 1..BlockLen |-> Xor(a[i], b[i])]

-----------------------------------------------------------------------------
(* Blocks as numbers, the highest byte first *)

\* What a byte counts that has i more behind it.
Place[i \in 0..BlockLen] == IF i = 0 THEN 1 ELSE ByteSize * Place[i - 1]

Number(b) ==
    LET sum[i \in 0..BlockLen] == IF i = 0 THEN 0 ELSE ByteSize * sum[i - 1] + b[i]
    IN  sum[BlockLen]

\* The block of a number, modulo what a block can count.
Block(n) == [i \in 1..BlockLen |-> (n \div Place[BlockLen - i]) % ByteSize]

-----------------------------------------------------------------------------
(* CMAC *)

\* Mutated form: the carry of the first byte goes round to the last.
RotateLeft(b) ==
    [i \in 1..BlockLen |-> ((2 * b[i]) % ByteSize) + b[(i % BlockLen) + 1] \div Top]

\* shiftLeft: the carry of a byte is the top bit of the next.
ShiftLeft(b) ==
    [i \in 1..BlockLen |->
        ((2 * b[i]) % ByteSize) + IF i < BlockLen THEN b[i + 1] \div Top ELSE 0]

\* The subkey that follows from b.
Subkey(b) ==
    IF b[1] >= Top THEN XorBlocks(ShiftLeft(b), LastByte(Rb)) ELSE ShiftLeft(b)

\* cmac.  The last block, when it is full, takes K1; a short one, or none, is
\* padded and takes K2.
CMAC(key, data) ==
    LET K1   == Subkey(AES(key, ZeroBlock))
        K2   == Subkey(K1)
        full == data # <<>> /\ Len(data) % BlockLen = 0
        regular == IF full THEN (Len(data) \div BlockLen) - 1 ELSE Len(data) \div BlockLen
        at(n, i) == data[BlockLen * n + i]
        x[n \in 0..regular] ==
            IF n = 0 THEN ZeroBlock
            ELSE AES(key, XorBlocks(x[n - 1], [i \in 1..BlockLen |-> at(n - 1, i)]))
        rem  == Len(data) - BlockLen * regular
        last == [i \in 1..BlockLen |->
                    IF i <= rem THEN at(regular, i) ELSE IF i = rem + 1 THEN Top ELSE 0]
    IN  AES(key, XorBlocks(x[regular], XorBlocks(last, IF full THEN K1 ELSE K2)))

-----------------------------------------------------------------------------
(* EAX *)

EaxOMAC(key, flag, data) == CMAC(key, LastByte(flag) \o data)

\* External: the counter block is a big-endian number that wraps around.
Counter(iv, n) == Block(Number(iv) + n)

\* External: cipher.NewCTR and XORKeyStream, which is its own inverse.
CTR(key, iv, s) ==
    [i \in 1..Len(s) |->
        Xor(s[i], AES(key, Counter(iv, (i - 1) \div BlockLen))[((i - 1) % BlockLen) + 1])]

EaxTag(key, nonce, header, ciphertext) ==
    XorBlocks(XorBlocks(EaxOMAC(key, 0, nonce), EaxOMAC(key, 1, header)),
              EaxOMAC(key, 2, ciphertext))

EncryptEAX(key, nonce, header, plaintext) ==
    LET ciphertext == CTR(key, EaxOMAC(key, 0, nonce), plaintext)
    IN  IF key \notin Keys THEN Refused("key")
        ELSE Ok(ciphertext \o EaxTag(key, nonce, header, ciphertext))

\* Mutated form: the plaintext is authenticated instead of the ciphertext.
DecryptThenTag(key, nonce, header, both) ==
    LET n          == Len(both) - BlockLen
        ciphertext == SubSeq(both, 1, n)
        plaintext  == CTR(key, EaxOMAC(key, 0, nonce), ciphertext)
    IN  IF n < 0 THEN Refused("short")
        ELSE IF key \notin Keys THEN Refused("key")
        ELSE IF EaxTag(key, nonce, header, plaintext) # SubSeq(both, n + 1, Len(both))
               THEN Refused("tag")
        ELSE Ok(plaintext)

DecryptEAX(key, nonce, header, both) ==
    LET n          == Len(both) - BlockLen
        ciphertext == SubSeq(both, 1, n)
    IN  IF n < 0 THEN Refused("short")
        ELSE IF key \notin Keys THEN Refused("key")
        ELSE IF EaxTag(key, nonce, header, ciphertext) # SubSeq(both, n + 1, Len(both))
               THEN Refused("tag")
        ELSE Ok(CTR(key, EaxOMAC(key, 0, nonce), ciphertext))

-----------------------------------------------------------------------------
(* ECB and GCM *)

\* aesECBEncrypt
AESECBEncrypt(key, data) ==
    IF key \notin Keys THEN Refused("key")
    ELSE IF Len(data) % BlockLen # 0 THEN Refused("unaligned")
    ELSE Ok([i \in 1..Len(data) |->
               AES(key, [j \in 1..BlockLen |-> data[BlockLen * ((i - 1) \div BlockLen) + j]])
                  [((i - 1) % BlockLen) + 1]])

\* gcmDecryptAD; gcmDecrypt has no associated data.
GCMDecryptAD(key, s, ad) ==
    IF Len(s) < IVLen THEN Refused("short")
    ELSE IF key \notin Keys THEN Refused("key")
    ELSE GCMOpen(key, SubSeq(s, 1, IVLen), SubSeq(s, IVLen + 1, Len(s)), ad)

-----------------------------------------------------------------------------
(* Properties *)

\* Doubling in the field whose elements are the blocks, as NIST SP 800-38B has
\* it: a carry out of the block is taken back as Rb.
Double(b) ==
    LET n == 2 * Number(b)
        d == Block(n % Place[BlockLen])
    IN  IF n < Place[BlockLen] THEN d ELSE XorBlocks(d, Block(Rb))

\* The standard's CMAC: the message is cut into max(1, ceil(Len/BlockLen))
\* blocks, of which the last is completed, if need be, by a one and zeros.
ReferenceCMAC(key, data) ==
    LET K1    == Double(AES(key, Block(0)))
        count == Max({1, (Len(data) + BlockLen - 1) \div BlockLen})
        whole == count * BlockLen = Len(data)
        bits  == IF whole THEN data ELSE data \o <<Top>> \o ZeroBlock
        piece(n)  == SubSeq(bits, (n - 1) * BlockLen + 1, n * BlockLen)
        masked(n) == IF n < count THEN piece(n)
                     ELSE XorBlocks(piece(n), IF whole THEN K1 ELSE Double(K1))
        c[n \in 0..count] ==
            IF n = 0 THEN Block(0) ELSE AES(key, XorBlocks(c[n - 1], masked(n)))
    IN  c[count]

\* cmac computes the standard's CMAC at every length, and so for every length
\* of data behind the prefix block of eaxOMAC.
CMACExact(key, data) == CMAC(key, data) = ReferenceCMAC(key, data)

\* What EncryptEAX returns, DecryptEAX opens to the plaintext; with any other
\* tag, or with bytes missing, it opens nothing.
EaxInverts(key, nonce, header, plaintext) ==
    LET both == EncryptEAX(key, nonce, header, plaintext).value
    IN  /\ DecryptEAX(key, nonce, header, both) = Ok(plaintext)
        /\ \A i \in (Len(plaintext) + 1)..Len(both) : \A b \in Bytes \ {both[i]} :
              DecryptEAX(key, nonce, header, [both EXCEPT ![i] = b]).err = "tag"
        /\ \A n \in 0..(BlockLen - 1) :
              DecryptEAX(key, nonce, header, SubSeq(both, 1, n)).err = "short"

=============================================================================
