------------------------------ MODULE KeyBackup ------------------------------
(***************************************************************************)
(* The keys that are unwrapped with other keys: crypto/keybackup.go, the   *)
(* owner's reports of crypto/location.go, and the shared key in the vault  *)
(* that the sign-in page hands over (extractSharedKey of browser/oauth.go).*)
(*                                                                         *)
(* Ciphers and derivations are ideal.  A key is the secrets it depends on  *)
(* and the purpose it was derived for; a ciphertext is what was sealed and *)
(* how, and its length, which is the real one: what is cut short is still  *)
(* sliced at the code's offsets, and a slice out of bounds is a panic.     *)
(***************************************************************************)
EXTENDS Integers, Sequences, FiniteSetsExt

Key(name)          == [of |-> {name}, for |-> "itself"]
Derived(key, info) == [of |-> key.of, for |-> info]        \* HKDF, or a hash
ECDH(a, b)         == [of |-> a.of \cup b.of, for |-> "shared secret"]

\* A ciphertext: version is what its first bytes say, at is the offset of the
\* IV, and public is the key that stands between the two.
Sealed(alg, key, ad, plain, size, at, public, version) ==
    LET len == at + size + IF alg = "gcm" THEN 12 + 16 ELSE 16
    IN  [alg |-> alg, key |-> key, ad |-> ad, plain |-> plain, at |-> at,
         public |-> public, version |-> version, len |-> len, full |-> len]

Ok(key)    == [err |-> "none", key |-> key]
Refused(e) == [err |-> e, key |-> Key("none")]

\* Is the slice from an offset the box that was sealed, with nothing missing.
Whole(d, at, alg) == d.at = at /\ d.alg = alg /\ d.len = d.full

-----------------------------------------------------------------------------
(* Opening *)

\* gcmDecryptAD of d[at:]
GCM(key, d, at, ad) ==
    IF at > d.len THEN Refused("panic")
    ELSE IF d.len - at < 12 THEN Refused("short")
    ELSE IF Whole(d, at, "gcm") /\ d.key = key /\ d.ad = ad THEN Ok(d.plain)
    ELSE Refused("authentication")

\* aesCBCNoPaddingDecrypt: nothing tells a wrong key, or another ciphertext.
CBC(key, d) ==
    IF d.len < 16 THEN Refused("short")
    ELSE IF (d.len - 16) % 16 # 0 THEN Refused("panic")
    ELSE IF Whole(d, 0, "cbc") /\ d.key = key THEN Ok(d.plain)
    ELSE Ok([of |-> {"garbage"}, for |-> "itself"])

DecryptOwnerKey(sharedKey, d)           == GCM(sharedKey, d, 0, "")
DecryptSecurityDomainKey(application, d) == GCM(application, d, 0, "")
DecryptOwnReport(identity, d)           == GCM(Derived(identity, "SHA-256"), d, 0, "")

\* The account key has 16 bytes where the EIK has 32.
DecryptSized(key, d, cbc, gcm) ==
    IF d.len = cbc THEN CBC(key, d)
    ELSE IF d.len = gcm THEN GCM(key, d, 0, "")
    ELSE Refused("length")

DecryptEIK(ownerKey, d)        == DecryptSized(ownerKey, d, 48, 60)
DecryptAccountKey(ownerKey, d) == DecryptSized(ownerKey, d, 32, 44)

\* Mutated form: the length is held against the shortest form only.
TooShort(d, at) == d.len < 2 + 12

\* Is there less than version, public key and IV.
Truncated(d, at) == d.len < at + 12

\* decryptWithDerivedKey
DecryptWithDerivedKey(d, private, info, ad, withPublic) ==
    LET at  == IF withPublic THEN 2 + 65 ELSE 2
        key == Derived(IF withPublic THEN ECDH(private, d.public) ELSE private, info)
    IN  IF d.len < 2 \/ d.version # "2.0" THEN Refused("version")
        ELSE IF Truncated(d, at) THEN Refused("short")
        ELSE IF withPublic /\ d.public.of = {} THEN Refused("public key")
        ELSE GCM(key, d, at, ad)

P256Info   == "P256 HKDF-SHA-256 AES-128-GCM"
SharedInfo == "SHARED HKDF-SHA-256 AES-128-GCM"

DecryptSharedKey(domain, d) ==
    DecryptWithDerivedKey(d, domain, P256Info, "V1 shared_key", TRUE)
DecryptApplicationKey(recovery, d) ==
    DecryptWithDerivedKey(d, recovery, SharedInfo, "V1 encrypted_application_key", FALSE)
DecryptRecoveryKey(lskfHash, d) ==
    DecryptWithDerivedKey(d, lskfHash, SharedInfo, "V1 locally_encrypted_recovery_key", FALSE)

-----------------------------------------------------------------------------
(* The vault.  An entry of finder_hw has an epoch, NoEpoch if it is not a    *)
(* number, and a key, which may lack bytes or be none at all.                *)

CONSTANT NoEpoch

\* TruncatedSHA256 of an identity key with the byte of an operation behind it
TruncatedSHA256(identity, operation) == Derived(identity, operation)

\* GenerateFMDNKeys
FMDNKeys(identity) ==
    [recovery |-> TruncatedSHA256(identity, "1"), ringing |-> TruncatedSHA256(identity, "2"),
     tracking |-> TruncatedSHA256(identity, "3")]

\* Mutated form: the newest entry is the last.
LastEntry(entries) == entries[Len(entries)]

\* The first of the entries with the highest epoch, or the first of all.
NewestEntry(entries) ==
    LET dated == {i \in DOMAIN entries : entries[i].epoch # NoEpoch}
        newest == {i \in dated : \A j \in dated : entries[j].epoch <= entries[i].epoch}
    IN  entries[IF dated = {} THEN 1 ELSE Min(newest)]

\* extractSharedKey, of the payload's finder_hw entries behind levels of
\* string encoding: one level is taken off, as the page hands it over.
ExtractSharedKey(levels, entries) ==
    IF levels > 1 THEN Refused("parse")
    ELSE IF entries = <<>> THEN Refused("no entry")
    ELSE IF NewestEntry(entries).bytes # "all" THEN Refused("bytes")
    ELSE Ok(NewestEntry(entries).key)

-----------------------------------------------------------------------------
(* Properties *)

Purposes ==
    {"recovery", "application", "domain", "shared", "owner", "identity", "account",
     "report"}

Open(purpose, key, d) ==
    CASE purpose = "recovery"    -> DecryptRecoveryKey(key, d)
      [] purpose = "application" -> DecryptApplicationKey(key, d)
      [] purpose = "domain"      -> DecryptSecurityDomainKey(key, d)
      [] purpose = "shared"      -> DecryptSharedKey(key, d)
      [] purpose = "owner"       -> DecryptOwnerKey(key, d)
      [] purpose = "identity"    -> DecryptEIK(key, d)
      [] purpose = "account"     -> DecryptAccountKey(key, d)
      [] purpose = "report"      -> DecryptOwnReport(key, d)

\* Sealed with the key itself, without a version.
Direct == {"domain", "owner", "identity", "account"}

\* How a key backup seals a key for a purpose under another key.
Backup(purpose, key, plain, sender, alg) ==
    LET size == IF purpose = "account" THEN 16 ELSE 32
        direct == Sealed(alg, key, "", plain, size, 0, Key("none"), "none")
        derived(ad) == Sealed("gcm", Derived(key, SharedInfo), ad, plain, 32, 2, Key("none"), "2.0")
    IN  CASE purpose \in Direct -> direct
          [] purpose = "report" -> [direct EXCEPT !.key = Derived(key, "SHA-256")]
          [] purpose = "application" -> derived("V1 encrypted_application_key")
          [] purpose = "recovery" -> derived("V1 locally_encrypted_recovery_key")
          [] purpose = "shared" ->
               Sealed("gcm", Derived(ECDH(key, sender), P256Info), "V1 shared_key", plain, 32,
                      67, sender, "2.0")

\* A backup opens with its key for its purpose.  Cut to any length it opens
\* for nobody and nothing panics; a backup for another purpose or key is
\* refused, unless both are sealed directly with one key or the identity or the
\* account key has the form that nothing authenticates (every Decrypt of keybackup.go).
OpensForItsPurpose(purpose, key, d, made) ==
    LET read == Open(purpose, key, d)
        unauthenticated == \/ purpose = "identity" /\ d.len = 48
                           \/ purpose = "account" /\ d.len = 32
    IN  /\ read.err # "panic"
        /\ \/ read.err # "none"
           \/ unauthenticated
           \/ /\ read.key = made.plain /\ d.len = made.box.len /\ key = made.key
              /\ purpose = made.purpose \/ {purpose, made.purpose} \subseteq Direct
        /\ (/\ purpose = made.purpose /\ key = made.key /\ d = made.box
            /\ made.box.alg = "gcm" \/ purpose \in {"identity", "account"})
              => read = Ok(made.plain)

\* The keys for the operations on a tracker come from its identity key alone,
\* and none of them is another one or opens its reports (GenerateFMDNKeys).
KeysApart(identity, other) ==
    LET keys(key) == {FMDNKeys(key).recovery, FMDNKeys(key).ringing, FMDNKeys(key).tracking,
                      Derived(key, "SHA-256")}
    IN  Cardinality(keys(identity)) = 4 /\ (identity # other => keys(identity) \cap keys(other) = {})

\* From a vault with several generations comes the key of the newest, even if
\* it is not the last; a newest that lacks bytes is an error, and not replaced
\* by an older one, which could not open what is sealed now (extractSharedKey).
NewestKeyTaken(levels, entries) ==
    LET read == ExtractSharedKey(levels, entries)
    IN  read.err = "none" =>
          \E i \in DOMAIN entries :
             /\ entries[i].key = read.key /\ entries[i].bytes = "all"
             /\ \A j \in DOMAIN entries :
                   entries[j].epoch # NoEpoch =>
                      entries[i].epoch # NoEpoch /\ entries[i].epoch >= entries[j].epoch

=============================================================================
