------------------------------ MODULE OwnerKey ------------------------------
(***************************************************************************)
(* GetOwnerKey of spot/ownerkey.go: load the secrets, return the cached    *)
(* owner key if there is one, otherwise get a scope token, ask the Spot    *)
(* API for the encrypted owner key, decrypt it with the shared key and     *)
(* store it.  Several calls run at the same time, on one auth.Store, with  *)
(* what else writes to it: sign-ins, the shared key, FCM credentials, Maps *)
(* cookies and Clear.                                                      *)
(*                                                                         *)
(* Load, Update, Save and Clear are one step each (SecretsStore.tla shows  *)
(* what a single Store makes of them).  A key is the account it belongs    *)
(* to, so that keys of one account fit together and no others do.          *)
(***************************************************************************)
EXTENDS Naturals

CONSTANTS
    Callers, Accounts,
    None,        \* a field that is not set
    Absent       \* there is no secrets.json

ASSUME ValuesAssumption ==
    /\ None \notin Accounts
    /\ Absent \notin [account : Accounts \cup {None},
                      SharedKey : Accounts \cup {None},
                      OwnerKey : Accounts \cup {None},
                      FCMCredentials : BOOLEAN, MapsCookies : BOOLEAN]

VARIABLES
    stored,      \* secrets.json
    pc,
    secrets,     \* per caller, what it has loaded
    ownerKey,    \* per caller, what it has decrypted, then what it returns
    \* what happened: Maps cookies were stored since the last sign-in or
    \* Clear; that one came during a call of GetOwnerKey
    mapsStored, overlapped

history == <<mapsStored, overlapped>>
vars == <<stored, pc, secrets, ownerKey, history>>

Optional == Accounts \cup {None}

\* Username and AASToken are the account; they are stored together.
Secrets == [account : Optional, SharedKey : Optional, OwnerKey : Optional,
            FCMCredentials : BOOLEAN, MapsCookies : BOOLEAN]

EmptySecrets == [account |-> None, SharedKey |-> None, OwnerKey |-> None,
                 FCMCredentials |-> FALSE, MapsCookies |-> FALSE]

TypeOK ==
    /\ stored \in Secrets \cup {Absent}
    /\ pc \in [Callers -> {"idle", "token", "eid", "decrypt", "cache",
                           "returned", "failed"}]
    /\ secrets \in [Callers -> Secrets]
    /\ ownerKey \in [Callers -> Optional]
    /\ mapsStored \in BOOLEAN /\ overlapped \in BOOLEAN
    /\ \A c \in Callers :
        /\ pc[c] \in {"cache", "returned"} => ownerKey[c] # None
        /\ pc[c] \in {"token", "eid", "decrypt"} =>
                secrets[c].SharedKey # None /\ secrets[c].FCMCredentials

Init ==
    /\ stored = Absent /\ mapsStored = FALSE /\ overlapped = FALSE
    /\ pc = [c \in Callers |-> "idle"]
    /\ secrets = [c \in Callers |-> EmptySecrets]
    /\ ownerKey = [c \in Callers |-> None]

-----------------------------------------------------------------------------
(* The store *)

\* What Update hands to its function.
Found == IF stored = Absent THEN EmptySecrets ELSE stored

Goto(c, l) == pc' = [pc EXCEPT ![c] = l]

\* Every error return.  The model starts the next call from "idle".
Fail(c) ==
    /\ Goto(c, "failed")
    /\ ownerKey' = [ownerKey EXCEPT ![c] = None]
    /\ secrets' = [secrets EXCEPT ![c] = EmptySecrets]
    /\ UNCHANGED <<stored, history>>

-----------------------------------------------------------------------------
(* GetOwnerKey *)

\* Mutated form: the presence of FCM credentials is not tested.
UsableUnchecked(s) == s.SharedKey # None

\* The shared key is there, and androidIDFromSecrets finds an android id.
Usable(s) == s.SharedKey # None /\ s.FCMCredentials

\* Mutated form: secrets loaded by an earlier call are used again.
LoadOnce(c) ==
    /\ pc[c] = "idle" /\ stored # Absent /\ stored.OwnerKey = None
    /\ LET s == IF Usable(secrets[c]) THEN secrets[c] ELSE stored
       IN  /\ Usable(s)
           /\ secrets' = [secrets EXCEPT ![c] = s]
    /\ Goto(c, "token")
    /\ UNCHANGED <<stored, ownerKey, history>>

Load(c) ==
    /\ pc[c] = "idle" /\ stored # Absent /\ stored.OwnerKey = None
    /\ Usable(stored)
    /\ secrets' = [secrets EXCEPT ![c] = stored]
    /\ Goto(c, "token")
    /\ UNCHANGED <<stored, ownerKey, history>>

Cached(c) ==
    /\ pc[c] = "idle" /\ stored # Absent /\ stored.OwnerKey # None
    /\ ownerKey' = [ownerKey EXCEPT ![c] = stored.OwnerKey]
    /\ secrets' = [secrets EXCEPT ![c] = stored]
    /\ Goto(c, "returned")
    /\ UNCHANGED <<stored, history>>

\* The file cannot be read, is not there, or lacks something.
LoadFails(c) == pc[c] = "idle" /\ Fail(c)

\* auth.RequestScopeToken, GetEidInfoForE2eeDevices: any request may fail.
Request(c, from, to) ==
    /\ pc[c] = from
    /\ \/ Goto(c, to) /\ UNCHANGED <<stored, secrets, ownerKey, history>>
       \/ Fail(c)

Token(c) == Request(c, "token", "eid")

\* The server answers for the account of the token.
EidInfo(c) == Request(c, "eid", "decrypt")

\* AES-GCM: a shared key of another account decrypts nothing.
Decrypt(c) ==
    /\ pc[c] = "decrypt"
    /\ \/ /\ secrets[c].SharedKey = secrets[c].account
          /\ ownerKey' = [ownerKey EXCEPT ![c] = secrets[c].account]
          /\ Goto(c, "cache")
          /\ UNCHANGED <<stored, secrets, history>>
       \/ secrets[c].SharedKey # secrets[c].account /\ Fail(c)

\* Mutated form: what was loaded is saved again, with the key.
CacheSaves(c) ==
    /\ pc[c] = "cache"
    /\ stored' = [secrets[c] EXCEPT !.OwnerKey = ownerKey[c]]
    /\ Goto(c, "returned")
    /\ UNCHANGED <<secrets, ownerKey, history>>

Cache(c) ==
    /\ pc[c] = "cache"
    /\ \/ /\ stored' = [Found EXCEPT !.OwnerKey = ownerKey[c]]
          /\ Goto(c, "returned")
          /\ UNCHANGED <<secrets, ownerKey, history>>
       \/ Fail(c)

\* The caller has its answer and may call again.
Again(c) ==
    /\ pc[c] \in {"returned", "failed"}
    /\ Goto(c, "idle")
    /\ ownerKey' = [ownerKey EXCEPT ![c] = None]
    /\ UNCHANGED <<stored, secrets, history>>

GetOwnerKey(c) ==
    \/ Load(c) \/ Cached(c) \/ LoadFails(c)
    \/ Token(c) \/ EidInfo(c) \/ Decrypt(c) \/ Cache(c)
    \/ Again(c)

-----------------------------------------------------------------------------
(* Others that write to the store *)

UnderWay(c) == pc[c] \in {"token", "eid", "decrypt", "cache"}

Replace ==
    /\ mapsStored' = FALSE
    /\ overlapped' = (\E c \in Callers : UnderWay(c))
    /\ UNCHANGED <<pc, secrets, ownerKey>>

\* A program signs an account in and saves secrets with nothing else in them.
SignIn ==
    /\ \E a \in Accounts : stored' = [EmptySecrets EXCEPT !.account = a]
    /\ Replace

Clear ==
    /\ stored' = Absent
    /\ Replace

\* What browser.RequestSharedKey returned for the account is stored.
StoreSharedKey ==
    /\ stored # Absent
    /\ stored' = [stored EXCEPT !.SharedKey = stored.account]
    /\ UNCHANGED <<pc, secrets, ownerKey, history>>

\* What fcm.Register returned is stored.
StoreFCM ==
    /\ stored' = [Found EXCEPT !.FCMCredentials = TRUE]
    /\ UNCHANGED <<pc, secrets, ownerKey, history>>

\* The Update at the end of AuthenticateMaps.
StoreMapsCookies ==
    /\ stored' = [Found EXCEPT !.MapsCookies = TRUE]
    /\ mapsStored' = TRUE
    /\ UNCHANGED <<pc, secrets, ownerKey, overlapped>>

Next ==
    \/ \E c \in Callers : GetOwnerKey(c)
    \/ SignIn \/ Clear
    \/ StoreSharedKey \/ StoreFCM \/ StoreMapsCookies

Spec == Init /\ [][Next]_vars

-----------------------------------------------------------------------------
(* Properties *)

\* Caching the key loses nothing that was stored while the call was under way
\* (GetOwnerKey loads, asks the network and updates in separate steps).
MapsCookiesKept == mapsStored => stored # Absent /\ stored.MapsCookies

\* The comment on GetOwnerKey: it decrypts the owner key with the shared key and
\* caches the result.  So the cached key and the shared key are of one account,
\* whatever calls, errors and other writers mix, unless the sign-in or Clear
\* that made the secrets came during a call.
CachedKeyFits ==
    (~overlapped /\ stored # Absent
        /\ stored.OwnerKey # None /\ stored.SharedKey # None)
    => stored.OwnerKey = stored.SharedKey

-----------------------------------------------------------------------------
(* Strengthening *)

StoreFits ==
    stored # Absent => /\ stored.SharedKey \in {None, stored.account}
                       /\ stored.OwnerKey \in {None, stored.account}

\* What a call works on, and what it caches, is of the account in the store.
CallFits(c) ==
    /\ UnderWay(c) => stored # Absent /\ secrets[c].account = stored.account
    /\ pc[c] = "cache" => ownerKey[c] = secrets[c].account

\* Inductive invariant of calls that no sign-in or Clear comes between.
AloneInv ==
    /\ TypeOK
    /\ ~overlapped => StoreFits /\ \A c \in Callers : CallFits(c)
=============================================================================
