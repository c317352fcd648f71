------------------------------ MODULE PushCrypto ------------------------------
(***************************************************************************)
(* The decryption of a push message (newPushCrypto, decrypt and            *)
(* handleDataMessage of fcm/push.go), with the keys that GenerateKeys of   *)
(* fcm/register.go made.                                                   *)
(*                                                                         *)
(* Cryptography is ideal: an AES key stands for the private key, the two   *)
(* public keys, the secret and the salt it was derived from, and what is   *)
(* sealed opens with the same five.  Text is what its decoding yields: a   *)
(* value [form, of] with the base64url form it is in, and its content.     *)
(***************************************************************************)
EXTENDS Integers, Sequences, FiniteSetsExt

CONSTANTS
    None,          \* an absent field, an empty value or ID
    NotAKey        \* bytes that are no key or point

Ok(v)      == [err |-> "none", len |-> v]
Refused(e) == [err |-> e, len |-> 0]

Forms == {"padded", "raw", "not base64url"}

\* Mutated form: only the padded form is decoded.
PaddedOnly(text) == text # None /\ text.form = "padded"

\* decodeBase64URL takes padded and unpadded values.
Decodes(text) == text # None /\ text.form # "not base64url"

-----------------------------------------------------------------------------
(* Credentials *)

Padded(v) == [form |-> "padded", of |-> v]

\* GenerateKeys, for a key pair that is known by one name
GenerateKeys(pair, secret) ==
    [private |-> Padded(pair), public |-> Padded(pair), secret |-> Padded(secret)]

\* newPushCrypto
CryptoError(creds) ==
    IF creds = None \/ creds.keys = None THEN "keys"
    ELSE IF ~Decodes(creds.keys.private) \/ creds.keys.private.of = NotAKey THEN "private key"
    ELSE IF ~Decodes(creds.keys.secret) THEN "secret"
    ELSE "none"

-----------------------------------------------------------------------------
(* Messages *)

\* Mutated form: the first header of a name counts.
FirstHeader(headers, name) ==
    LET at == {i \in DOMAIN headers : headers[i].key = name}
    IN  IF at = {} THEN None ELSE headers[Min(at)].value

\* The value of a header that comes twice is the last one's, without the
\* prefix, "dh=" or "salt=", it may have.
Header(headers, name) ==
    LET at == {i \in DOMAIN headers : headers[i].key = name}
    IN  IF at = {} THEN None ELSE headers[Max(at)].value

\* The key of a message under a pair of keys, an auth secret and a salt.
MessageKey(client, server, secret, salt) ==
    [pair |-> {client, server}, receiver |-> client, secret |-> secret, salt |-> salt]

\* Mutated form: the padding's length is not held against the text's.
TrustPadding(plain) == Ok(plain.len - 2 - plain.pad)

\* The text behind its two bytes of length and its padding; slicing those two
\* off a shorter one would panic.
Unpad(plain) ==
    IF plain.len < 2 THEN Refused("panic")
    ELSE IF 2 + plain.pad > plain.len THEN Refused("padding") ELSE Ok(plain.len - 2 - plain.pad)

\* decrypt
Decrypt(creds, msg) ==
    LET dh   == Header(msg.headers, "crypto-key")
        salt == Header(msg.headers, "encryption")
        key  == MessageKey(creds.keys.private.of, dh.of, creds.keys.secret.of, salt.of)
    IN  IF dh = None \/ salt = None THEN Refused("headers")
        ELSE IF ~Decodes(dh) \/ ~Decodes(salt) THEN Refused("base64")
        ELSE IF dh.of = NotAKey THEN Refused("public key")
        ELSE IF msg.plain.len + 16 - msg.cut < 18 THEN Refused("short")
        ELSE IF msg.cut > 0 \/ msg.sealed # key THEN Refused("authentication")
        ELSE Unpad(msg.plain)

\* handleDataMessage: the message is acknowledged in any case; the handler is
\* called with a text that was decrypted, if the message has an ID.
HandleDataMessage(creds, msg) ==
    [ack |-> msg.id,
     handled |-> CryptoError(creds) = "none" /\ Decrypt(creds, msg).err = "none" /\ msg.id # None]

-----------------------------------------------------------------------------
(* Properties *)

\* External: how a sender seals a text of a length behind some padding, with
\* the receiver's public key and secret and a key pair and salt of its own.
Push(to, from, salt, len, pad, id) ==
    [sealed |-> MessageKey(to.public.of, from, to.secret.of, salt),
     plain |-> [len |-> 2 + pad + len, pad |-> pad], cut |-> 0, id |-> id,
     headers |-> <<[key |-> "crypto-key", value |-> Padded(from)],
                   [key |-> "encryption", value |-> Padded(salt)]>>]

\* A push for the keys that registration made is decrypted to its text, in
\* either form of base64 and whatever other headers come before; it is never
\* taken for one from other keys, and bytes cut off are refused, as is padding
\* beyond the end (decrypt).
PushRead(creds, msg, len, intact) ==
    LET read == Decrypt(creds, msg)
    IN  /\ read.err # "panic"
        /\ intact => read = Ok(len)
        /\ read.err = "none" => read.len \in 0..(msg.plain.len - 2) /\ msg.cut = 0
        /\ read.err = "none" => /\ msg.sealed.receiver = creds.keys.private.of
                                /\ msg.sealed.secret = creds.keys.secret.of
        /\ HandleDataMessage(creds, msg).ack = msg.id
        /\ HandleDataMessage(creds, msg).handled => read.err = "none" /\ msg.id # None

=============================================================================
