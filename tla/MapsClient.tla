------------------------------ MODULE MapsClient ------------------------------
(***************************************************************************)
(* Concurrent calls of GetState on one Client of maps/maps.go.  A call     *)
(* asks the API with one account index after the other, the preferred one  *)
(* first, until one is accepted, and remembers that one for later calls.   *)
(* The preferred index is read in one critical section of mu and written   *)
(* in another; the requests run in between, without the lock.              *)
(*                                                                         *)
(* An answer is reduced to whether tryAuthUser takes it for authenticated. *)
(* Which indices are, Google decides, and it may change at any time.  What *)
(* parseContacts makes of an accepted answer is in MapsContacts.           *)
(***************************************************************************)
EXTENDS Naturals, Sequences, Functions

CONSTANTS
    Callers,     \* goroutines that call GetState
    None,        \* no index
    Expired      \* the error ErrCookiesExpired

AuthUsers == {0, 1, 2}

ASSUME IndexAssumption == None \notin AuthUsers /\ Expired \notin AuthUsers \cup {None}

VARIABLES
    pc,
    order,       \* the indices of callAPI's loop that are still to be tried
    asked,       \* authuser of that loop
    result,      \* the index GetState's contacts came from, or Expired
    preferred,   \* preferredAuthUser; None while hasPreferredAuthUser is false
    accepted,    \* the indices the API accepts with these cookies
    \* what happened, of a call that did not succeed: the indices accepted ever
    \* since it began, and whether one of its requests failed; the index accepted
    \* last, and whether another call had yet to remember its own then
    steady, failed, newest, raced

call   == <<pc, order, asked, result>>
client == preferred
api    == accepted
ghosts == <<steady, failed, newest, raced>>
vars   == <<call, client, api, ghosts>>

PCs == {"idle", "order", "try", "http", "remember"}

TypeOK ==
    /\ pc \in [Callers -> PCs]
    /\ order \in [Callers -> Seq(AuthUsers)]
    /\ asked \in [Callers -> AuthUsers \cup {None}]
    /\ result \in [Callers -> AuthUsers \cup {None, Expired}]
    /\ preferred \in AuthUsers \cup {None}
    /\ accepted \in SUBSET AuthUsers
    /\ steady \in [Callers -> SUBSET AuthUsers]
    /\ failed \in [Callers -> BOOLEAN]
    /\ newest \in AuthUsers \cup {None}
    /\ raced \in BOOLEAN

Init ==
    /\ pc = [c \in Callers |-> "idle"]
    /\ order = [c \in Callers |-> <<>>]
    /\ asked = [c \in Callers |-> None]
    /\ result = [c \in Callers |-> None]
    /\ preferred = None
    /\ accepted \in SUBSET AuthUsers
    /\ steady = [c \in Callers |-> {}]
    /\ failed = [c \in Callers |-> FALSE]
    /\ newest = None /\ raced = FALSE

-----------------------------------------------------------------------------
(* GetState *)

Begin(c) ==
    /\ pc[c] = "idle"
    /\ pc' = [pc EXCEPT ![c] = "order"]
    /\ result' = [result EXCEPT ![c] = None]
    /\ steady' = [steady EXCEPT ![c] = accepted]
    /\ failed' = [failed EXCEPT ![c] = FALSE]
    /\ UNCHANGED <<order, asked, client, api, newest, raced>>

\* Mutated form: the others are only those after the preferred index.
LaterIndices(p) ==
    IF p = None THEN <<0, 1, 2>>
                ELSE <<p>> \o SelectSeq(<<0, 1, 2>>, LAMBDA a : a > p)

\* authUserOrder, of the preferred index: then the others in their order
AuthUserOrder(p) ==
    IF p = None THEN <<0, 1, 2>>
                ELSE [i \in 1..3 |-> IF i = 1 THEN p ELSE IF i - 2 < p THEN i - 2 ELSE i - 1]

\* The first critical section.
Order(c) ==
    /\ pc[c] = "order"
    /\ order' = [order EXCEPT ![c] = AuthUserOrder(preferred)]
    /\ pc' = [pc EXCEPT ![c] = "try"]
    /\ UNCHANGED <<asked, result, client, api, ghosts>>

\* tryAuthUser sends its request.
Try(c) ==
    /\ pc[c] = "try"
    /\ asked' = [asked EXCEPT ![c] = Head(order[c])]
    /\ order' = [order EXCEPT ![c] = Tail(@)]
    /\ pc' = [pc EXCEPT ![c] = "http"]
    /\ UNCHANGED <<result, client, api, ghosts>>

\* Mutated form: an index that gives no result is asked again.
AskAgain(c) ==
    /\ pc' = [pc EXCEPT ![c] = "try"]
    /\ order' = [order EXCEPT ![c] = <<asked[c]>> \o @]
    /\ asked' = [asked EXCEPT ![c] = None]
    /\ UNCHANGED result

\* No result from this index: the next one, or ErrCookiesExpired.
NoResult(c) ==
    /\ IF order[c] = <<>>
         THEN /\ pc' = [pc EXCEPT ![c] = "idle"]
              /\ result' = [result EXCEPT ![c] = Expired]
         ELSE /\ pc' = [pc EXCEPT ![c] = "try"]
              /\ UNCHANGED result
    /\ asked' = [asked EXCEPT ![c] = None]
    /\ UNCHANGED order

\* The answer is an array whose sentinel says signed in.
Accepted(c) ==
    /\ pc[c] = "http" /\ asked[c] \in accepted
    /\ pc' = [pc EXCEPT ![c] = "remember"]
    /\ newest' = asked[c]
    /\ raced' = (\E d \in Callers \ {c} : pc[d] = "remember")
    /\ UNCHANGED <<order, asked, result, client, api, steady, failed>>

\* The sentinel says signed out, or the array is too short.
Rejected(c) ==
    /\ pc[c] = "http" /\ asked[c] \notin accepted
    /\ NoResult(c)
    /\ UNCHANGED <<client, api, ghosts>>

\* The request fails, its time is up, the context of the call has ended, or
\* the body is not the JSON expected.
RequestFails(c) ==
    /\ pc[c] = "http"
    /\ NoResult(c)
    /\ failed' = [failed EXCEPT ![c] = TRUE]
    /\ UNCHANGED <<client, api, steady, newest, raced>>

\* Mutated form: the first index that works is kept for good.
RememberOnce(c) ==
    /\ pc[c] = "remember"
    /\ preferred' = IF preferred = None THEN asked[c] ELSE preferred
    /\ result' = [result EXCEPT ![c] = asked[c]]
    /\ pc' = [pc EXCEPT ![c] = "idle"]
    /\ order' = [order EXCEPT ![c] = <<>>]
    /\ asked' = [asked EXCEPT ![c] = None]
    /\ steady' = [steady EXCEPT ![c] = {}]
    /\ failed' = [failed EXCEPT ![c] = FALSE]
    /\ UNCHANGED <<api, newest, raced>>

\* rememberAuthUser, the second critical section, and the return.
Remember(c) ==
    /\ pc[c] = "remember"
    /\ preferred' = asked[c]
    /\ result' = [result EXCEPT ![c] = asked[c]]
    /\ pc' = [pc EXCEPT ![c] = "idle"]
    /\ order' = [order EXCEPT ![c] = <<>>]
    /\ asked' = [asked EXCEPT ![c] = None]
    /\ steady' = [steady EXCEPT ![c] = {}]
    /\ failed' = [failed EXCEPT ![c] = FALSE]
    /\ UNCHANGED <<api, newest, raced>>

\* External: a session of the cookies' accounts ends, or comes back.
SessionsChange ==
    /\ \E a \in AuthUsers :
         /\ accepted' = IF a \in accepted THEN accepted \ {a} ELSE accepted \cup {a}
         /\ steady' = [c \in Callers |-> steady[c] \ {a}]
    /\ UNCHANGED <<call, client, failed, newest, raced>>

GetState(c) ==
    Order(c) \/ Try(c) \/ Accepted(c) \/ Rejected(c) \/ RequestFails(c) \/ Remember(c)

Next ==
    \/ \E c \in Callers : Begin(c) \/ GetState(c)
    \/ SessionsChange

\* The goroutine runs and gets the lock, and every request ends: the client's
\* timeout, 30 s in httpclient.Default, sees to it.
Fairness == \A c \in Callers : WF_vars(GetState(c))

Spec == Init /\ [][Next]_vars /\ Fairness

-----------------------------------------------------------------------------
(* What the proofs rest on *)

\* While a call runs, an index that was accepted all along is still to be
\* tried, or being asked, unless a request failed; there is always one to try.
CallGoesOn(c) ==
    /\ steady[c] \subseteq accepted
    /\ pc[c] = "try" => order[c] # <<>> /\ (failed[c] \/ steady[c] \subseteq Range(order[c]))
    /\ pc[c] \in {"http", "remember"} => asked[c] \in AuthUsers
    /\ pc[c] = "http" =>
          failed[c] \/ steady[c] \subseteq Range(order[c]) \cup {asked[c]}

StillToCome == \A c \in Callers : CallGoesOn(c)

\* Without a race, the index accepted last is the preferred one or that of the
\* only call on its way to remember one.
NewestKnown ==
    \/ raced
    \/ preferred = newest /\ \A c \in Callers : pc[c] # "remember"
    \/ \E c \in Callers :
          /\ pc[c] = "remember" /\ asked[c] = newest
          /\ \A d \in Callers \ {c} : pc[d] # "remember"

-----------------------------------------------------------------------------
(* Properties *)

\* A call whose requests were all answered reports ErrCookiesExpired only if no
\* index was accepted all the while, whatever other calls do to the preference
\* meanwhile (callAPI: "tries each authuser index").
SteadyIndexFound ==
    \A c \in Callers :
        pc[c] = "idle" /\ result[c] = Expired => failed[c] \/ steady[c] = {}

\* Once every call has remembered what it found, the index that was accepted
\* last is the preferred one (the comment on callAPI), unless two calls were on
\* their way to remember different ones.
LastSuccessPreferred ==
    (\A c \in Callers : pc[c] # "remember") => raced \/ preferred = newest

\* No call hangs: a client with a timeout ends each of its requests, and there
\* are finitely many (the comment on DefaultTimeout in httpclient).
CallsEnd == \A c \in Callers : pc[c] # "idle" ~> pc[c] = "idle"

=============================================================================
