------------------------------ MODULE Unwrapping ------------------------------
(***************************************************************************)
(* What keys are taken out of, or open: the backups and the vault of       *)
(* KeyBackup, the pushes of PushCrypto, on all inputs made of some names,  *)
(* lengths and headers.  A behaviour picks an input, and stops.            *)
(***************************************************************************)
EXTENDS Integers, Sequences, FiniteSetsExt, Inputs

CONSTANTS
    NoEpoch, None, NotAKey,
    KeyNames,         \* whom keys belong to
    Lengths,          \* to which a backup is cut
    Epochs, MaxEntries,
    TextLengths, Paddings, Cuts, MessageIDs,
    EarlierHeaders    \* what may come before a push's own headers

K == INSTANCE KeyBackup
W == INSTANCE PushCrypto

ASSUME InputAssumption ==
    /\ Lengths \subseteq Nat /\ Epochs \subseteq Int /\ NoEpoch \notin Epochs
    /\ MaxEntries \in Nat
    /\ TextLengths \subseteq Nat /\ Paddings \subseteq Nat /\ Cuts \subseteq Nat
    /\ \A before \in EarlierHeaders : before \in Seq({before[i] : i \in DOMAIN before})
    /\ NotAKey \notin KeyNames
    /\ None \notin [form : W!Forms, of : KeyNames \cup {NotAKey, "salt"}]

\* A backup, and what may be made of it: it is cut short, and has another
\* version or public key in front.
PickBackup ==
    /\ Picks("backup")
    /\ \E p, purpose \in K!Purposes, k, key \in {K!Key(n) : n \in KeyNames}, alg \in {"gcm", "cbc"},
          len \in Lengths, version \in {"none", "2.0"},
          public \in {K!Key("sender"), [of |-> {}, for |-> "itself"]} :
          LET box == K!Backup(p, k, K!Key("plain"), K!Key("sender"), alg)
          IN  input' = [made |-> [purpose |-> p, key |-> k, plain |-> K!Key("plain"), box |-> box],
                        purpose |-> purpose, key |-> key,
                        d |-> [box EXCEPT !.len = Min({len, @}), !.version = version,
                                          !.public = IF @ = K!Key("none") THEN @ ELSE public]]

PickVault ==
    /\ Picks("vault")
    /\ input' \in [levels : 0..2,
                   entries : UNION {[1..n -> [epoch : Epochs \cup {NoEpoch}, bytes : {"all", "some"},
                                              key : KeyNames]] : n \in 0..MaxEntries}]

\* A push for one receiver, read with the keys of any: cut short, with padding
\* that is as long as it says or not, and with its key in any form.
PickPush ==
    /\ Picks("push")
    /\ \E len \in TextLengths, pad \in Paddings, truthful \in BOOLEAN, cut \in Cuts,
          id \in MessageIDs \cup {None}, form \in W!Forms, receiver, to \in KeyNames,
          from \in KeyNames \cup {NotAKey}, before \in EarlierHeaders :
          LET sent == W!Push(W!GenerateKeys(receiver, "secret"), from, "salt", len, pad, id)
          IN  input' =
                [creds |-> [keys |-> W!GenerateKeys(to, "secret")], len |-> len,
                 msg |-> [sent EXCEPT !.cut = cut,
                                      !.headers = before \o [@ EXCEPT ![1].value.form = form],
                                      !.plain.len = IF truthful THEN @ ELSE len],
                 intact |-> /\ cut = 0 /\ truthful /\ to = receiver /\ from # NotAKey
                            /\ form # "not base64url"]

PickSealed == PickBackup \/ PickVault \/ PickPush

UnwrapSpec == NothingPicked /\ [][PickSealed]_<<subject, input>>

-----------------------------------------------------------------------------
(* Properties *)

\* A key comes out of what it was wrapped in for its purpose, and a push out of
\* what was sealed for these credentials; nothing else does (crypto/keybackup.go,
\* extractSharedKey, MCSClient.decrypt).
KeysUnwrap ==
    /\ subject = "backup" =>
          /\ K!OpensForItsPurpose(input.purpose, input.key, input.d, input.made)
          /\ K!KeysApart(input.made.key, input.key)
    /\ subject = "vault" => K!NewestKeyTaken(input.levels, input.entries)
    /\ subject = "push" => W!PushRead(input.creds, input.msg, input.len, input.intact)

=============================================================================
