------------------------------- MODULE Ciphers -------------------------------
(***************************************************************************)
(* Eax on given data and plaintexts.                                       *)
(***************************************************************************)
EXTENDS Eax, Inputs

CONSTANTS
    MACInputs,   \* keys, and data that is authenticated with them
    EAXInputs    \* keys, and what is encrypted with them

ASSUME CiphersAssumption ==
    /\ MACInputs \subseteq [key : Keys, data : Seq(Bytes)]
    /\ EAXInputs \subseteq [key : Keys, nonce : Seq(Bytes), header : Seq(Bytes), plaintext : Seq(Bytes)]

PickData == Picks("cmac") /\ input' \in MACInputs

PickPlaintext == Picks("eax") /\ input' \in EAXInputs

PickCipher == PickData \/ PickPlaintext

CiphersSpec == NothingPicked /\ [][PickCipher]_<<subject, input>>

-----------------------------------------------------------------------------
(* Properties *)

\* The ciphers of crypto/eax.go are the standard's, and decryption undoes
\* encryption.
EaxExact ==
    /\ subject = "cmac" => CMACExact(input.key, input.data)
    /\ subject = "eax" => EaxInverts(input.key, input.nonce, input.header, input.plaintext)

=============================================================================
