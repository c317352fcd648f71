----------------------------- MODULE Registration -----------------------------
(***************************************************************************)
(* Registering a device for pushes (fcm/register.go): check-in, GCM        *)
(* registration, FCM installation and FCM registration, one after the      *)
(* other, each an HTTP request that retryWith repeats on a transient       *)
(* error.  Register goes through all four, Checkin through the first.      *)
(*                                                                         *)
(* A request travels on its own: it may be served while the client waits,  *)
(* after the client gave up on it, or never, and an answer may be lost, so *)
(* that a retry repeats what a server has already done.  Requests carry    *)
(* the number of their attempt; what the client or a server draws at       *)
(* random for a request (application id, device, tokens, another fid) is   *)
(* that number.  The delays of the backoff and the configuration are not   *)
(* modelled.                                                               *)
(***************************************************************************)
EXTENDS Naturals, FiniteSets

CONSTANTS
    Attempts,       \* retryConfig.attempts of fcmRetry; 8 in the code
    MaxCalls        \* bound: calls of Register and Checkin

ASSUME AttemptsAssumption == Attempts \in Nat \ {0}
ASSUME CallsAssumption == MaxCalls \in Nat

Ops == {"checkin", "gcm", "install", "fcm"}

\* register's steps in order.
Rank == [checkin |-> 1, gcm |-> 2, install |-> 3, fcm |-> 4]

\* What the client holds, and what a request is made of: the device of the
\* check-in, gcmAppID and GCM token, keys, fid, FIS auth token and registration token.
\* 0 is "not yet".
Parts == {"device", "appID", "token", "keys", "fid", "auth", "registration"}
NoCreds == [p \in Parts |-> 0]

\* What the answer to a request yields, and what the request says.
Result == [checkin |-> "device", gcm |-> "token", install |-> "auth",
           fcm |-> "registration"]
Says == [checkin |-> {}, gcm |-> {"device", "appID"}, install |-> {},
         fcm |-> {"auth", "token", "keys"}]

VARIABLES
    pc,        \* where the calling goroutine is
    kind,      \* Register or Checkin
    timed,     \* has the call's http.Client a Timeout (the default one has)
    op,        \* the step of register
    attempt,   \* retryWith's counter
    creds,     \* results and random values so far
    lastErr,   \* retryWith's
    ctxDone,   \* the caller's context
    calls,     \* calls so far
    sent,      \* requests so far
    net,       \* requests on their way
    served,    \* requests the servers have carried out
    installed  \* the fid of the installation that a request has made

args    == <<kind, timed>>
control == <<args, op, attempt>>
wire    == <<sent, net, served, installed>>
vars    == <<pc, control, creds, lastErr, ctxDone, calls, wire>>

Running == {"attempt", "await", "wait"}
PCs     == Running \cup {"idle", "returned", "failed"}

\* How an attempt can fail: a status of 429 or 5xx; a network error; GCM's
\* text "Error"; another status, or an answer that cannot be used or breaks
\* off; http.Client's own timeout; the caller's context.
Errors == {"busy", "network", "text", "unusable", "timeout", "context"}

\* net/http's and net's timeout errors match context.DeadlineExceeded, so
\* errors.Is finds a context error where the caller's context is alive.
isTransient(e) == e \in {"busy", "network", "text"}

\* Mutated form: the http.Client has no Timeout.
PossibleUntimed(e) ==
    /\ e = "text" => op = "gcm"
    /\ e # "timeout"
    /\ e = "context" => ctxDone

\* Mutated form: the requests are made without the caller's context.
PossibleDetached(e) ==
    /\ e = "text" => op = "gcm"
    /\ e = "timeout" => timed
    /\ e # "context"

\* When an attempt can fail that way.
Possible(e) ==
    /\ e = "text" => op = "gcm"
    /\ e = "timeout" => timed
    /\ e = "context" => ctxDone

Request == [n : Nat, call : Nat, op : Ops, form : [Parts -> Nat]]
Installed == [n : Nat, fid : Nat]

TypeOK ==
    /\ pc \in PCs
    /\ kind \in {"register", "checkin"} /\ timed \in BOOLEAN
    /\ op \in Ops
    /\ attempt \in 1..Attempts
    /\ creds \in [Parts -> Nat]
    /\ lastErr \in Errors \cup {"none"}
    /\ ctxDone \in BOOLEAN
    /\ calls \in 0..MaxCalls /\ sent \in Nat
    /\ net \in SUBSET Request /\ served \in SUBSET Request
    /\ installed \in SUBSET Installed

Init ==
    /\ pc = "idle" /\ kind = "register" /\ timed = TRUE
    /\ op = "checkin" /\ attempt = 1
    /\ creds = NoCreds /\ lastErr = "none" /\ ctxDone = FALSE
    /\ calls = 0 /\ sent = 0 /\ net = {} /\ served = {} /\ installed = {}

-----------------------------------------------------------------------------
(* The caller *)

Begin(k, t) ==
    /\ pc \notin Running /\ calls < MaxCalls
    /\ calls' = calls + 1
    /\ pc' = "attempt" /\ kind' = k /\ timed' = t
    /\ op' = "checkin" /\ attempt' = 1
    /\ creds' = NoCreds /\ lastErr' = "none" /\ ctxDone' = FALSE
    /\ UNCHANGED wire

Cancel ==
    /\ pc \in Running /\ ~ctxDone
    /\ ctxDone' = TRUE
    /\ UNCHANGED <<pc, control, creds, lastErr, calls, wire>>

-----------------------------------------------------------------------------
(* retryWith and the function it calls *)

Fail(e) ==
    /\ pc' = "failed" /\ lastErr' = e
    /\ UNCHANGED <<control, creds, ctxDone, calls, wire>>

\* Mutated form: doFCMInstall draws the fid, so that a retry has another one.
FormDrawsFid == [creds EXCEPT !.appID = IF op = "gcm" THEN sent + 1 ELSE @,
                              !.fid = IF op = "install" THEN sent + 1 ELSE @]

\* gcmRegister draws a new application id each time it is called.
Form == [creds EXCEPT !.appID = IF op = "gcm" THEN sent + 1 ELSE @]

Attempt ==
    /\ pc = "attempt" /\ ~ctxDone
    /\ pc' = "await"
    /\ sent' = sent + 1
    /\ creds' = Form
    /\ net' = net \cup {[n |-> sent + 1, call |-> calls, op |-> op, form |-> Form]}
    /\ UNCHANGED <<control, lastErr, ctxDone, calls, served, installed>>

\* Mutated form: the loop has no bound.
GivesUpNever(e) == ~isTransient(e)

\* Mutated form: the last attempt is never made.
GivesUpEarly(e) == ~isTransient(e) \/ attempt + 1 >= Attempts

\* retryWith leaves its loop.
GivesUp(e) == ~isTransient(e) \/ attempt = Attempts

AttemptFails(e) ==
    /\ pc = "await" /\ Possible(e) /\ GivesUp(e)
    /\ Fail(e)

AttemptRetried(e) ==
    /\ pc = "await" /\ Possible(e) /\ ~GivesUp(e)
    /\ pc' = "wait" /\ lastErr' = e
    /\ UNCHANGED <<control, creds, ctxDone, calls, wire>>

Timer ==
    /\ pc = "wait"
    /\ pc' = "attempt" /\ attempt' = attempt + 1
    /\ UNCHANGED <<args, op, creds, lastErr, ctxDone, calls, wire>>

\* At the top of the loop, or in the wait.
CtxEnds ==
    /\ pc \in {"attempt", "wait"} /\ ctxDone
    /\ Fail("context")

Answered == pc = "await" /\ \E r \in served : r.n = sent

\* The fid in the answer: an installation has the one its server chose, which
\* is the one that was asked for when the answer names none.
AnsweredFIDs ==
    IF op = "install" THEN {i.fid : i \in {j \in installed : j.n = sent}} ELSE {creds.fid}

\* Mutated form: GCMCredentials is filled with a fresh application id.
GainedNewAppID(fid) ==
    [creds EXCEPT ![Result[op]] = sent,
                  !.appID = IF op = "gcm" THEN sent + 1 ELSE @,
                  !.keys = IF op = "gcm" THEN sent ELSE @,
                  !.fid = IF op = "gcm" THEN sent ELSE fid]

\* Mutated form: the fid that was asked for is kept, whatever the server says.
GainedAskedFID(fid) ==
    [creds EXCEPT ![Result[op]] = sent,
                  !.keys = IF op = "gcm" THEN sent ELSE @,
                  !.fid = IF op = "gcm" THEN sent ELSE @]

\* The answer's part, with an installation's fid; after the GCM registration
\* GenerateKeys and fcmInstall draw the keys and the fid to ask for.
Gained(fid) ==
    [creds EXCEPT ![Result[op]] = sent,
                  !.keys = IF op = "gcm" THEN sent ELSE @,
                  !.fid = IF op = "gcm" THEN sent ELSE fid]

Last == op = "fcm" \/ kind = "checkin"

NextStep(o) ==
    /\ Answered /\ ~Last /\ Rank[o] = Rank[op] + 1
    /\ pc' = "attempt" /\ op' = o /\ attempt' = 1
    /\ lastErr' = "none" /\ \E fid \in AnsweredFIDs : creds' = Gained(fid)
    /\ UNCHANGED <<args, ctxDone, calls, wire>>

Return ==
    /\ Answered /\ Last
    /\ pc' = "returned" /\ lastErr' = "none"
    /\ \E fid \in AnsweredFIDs : creds' = Gained(fid)
    /\ UNCHANGED <<control, ctxDone, calls, wire>>

-----------------------------------------------------------------------------
(* The servers *)

\* In any order, however late.  An installation gets the fid that is asked for
\* or another one.
Serve(r) ==
    /\ r \in net
    /\ net' = net \ {r}
    /\ served' = served \cup {r}
    /\ IF r.op = "install"
         THEN \E fid \in {r.form.fid, r.n} :
                installed' = installed \cup {[n |-> r.n, fid |-> fid]}
         ELSE UNCHANGED installed
    /\ UNCHANGED <<pc, control, creds, lastErr, ctxDone, calls, sent>>

Caller == Cancel \/ \E k \in {"register", "checkin"}, t \in BOOLEAN : Begin(k, t)

Client ==
    \/ Attempt \/ Timer \/ CtxEnds \/ Return
    \/ \E o \in Ops : NextStep(o)
    \/ \E e \in Errors : AttemptFails(e) \/ AttemptRetried(e)

Next == Caller \/ Client \/ \E r \in net : Serve(r)

\* The client runs; its timer, its Timeout and the end of its context are not
\* kept from it.  The servers owe nothing.
Fairness ==
    /\ WF_vars(Attempt) /\ WF_vars(Timer) /\ WF_vars(CtxEnds)
    /\ WF_vars(AttemptFails("timeout")) /\ WF_vars(AttemptFails("context"))

Spec == Init /\ [][Next]_vars /\ Fairness

-----------------------------------------------------------------------------
(* Properties *)

\* A server did this step, for these credentials.
Known(o, c) ==
    \E r \in served :
        /\ r.op = o /\ r.n = c[Result[o]]
        /\ \A p \in Says[o] : r.form[p] = c[p]
        /\ o = "install" => [n |-> r.n, fid |-> c.fid] \in installed

\* The credentials a call returns fit together: the GCM token was given to
\* their device and application id, the FIS token to the installation with their
\* fid, asked for or not, and the registration token to that endpoint and those
\* keys, whatever attempts went before (register assembles them from the results
\* of four loops).
CredentialsUsable ==
    pc = "returned" =>
        \A o \in Ops : (kind = "checkin" => o = "checkin") => Known(o, creds)

\* What one call asks for again it asks for in the same words: a retried
\* installation is the same installation, a retried registration the same
\* registration, though the first may have been carried out (fcmInstall and
\* fcmRegister build their payload outside of the loop).
RetriesRepeat ==
    \A r, s \in net \cup served :
        r.call = s.call /\ r.op = s.op /\ r.op \in {"install", "fcm"}
            => r.form = s.form

Tries == {r \in net \cup served : r.call = calls /\ r.op = op}

\* A step makes no more requests than its budget, and fails on a transient
\* error only when it has made them all (retryWith).
RetryBudget ==
    /\ Cardinality(Tries) <= Attempts
    /\ pc = "failed" /\ isTransient(lastErr) => Cardinality(Tries) = Attempts

\* The comments on gcmCheckin and gcmRegisterWithRetry: transient failures
\* are retried.  A request that timed out, the caller's context being alive,
\* is one.
TimeoutRetried ==
    pc = "failed" /\ lastErr = "timeout" => Cardinality(Tries) = Attempts

\* With a client that has a timeout, as the default one, every call ends,
\* whatever the servers do.
CallEnds == pc \in Running /\ timed ~> pc \notin Running

\* With any client a call ends after its context does.
CancelEndsCall == ctxDone ~> pc \notin Running

\* For the proofs: what is out belongs to this call or an earlier one, to
\* this step or an earlier one; the latest request is the one awaited.
Numbered ==
    \A r \in net \cup served :
        /\ r.n \in 1..sent /\ r.call \in 1..calls
        /\ r.call = calls => Rank[r.op] <= Rank[op]
        /\ pc = "await" /\ r.n = sent => r.op = op /\ r.form = creds

SameForm ==
    \A r \in net \cup served :
        pc \in Running /\ r.call = calls /\ r.op = op /\ op \in {"install", "fcm"}
            => r.form = creds

StepsDone ==
    \A o \in Ops :
        /\ pc \in Running /\ Rank[o] < Rank[op] => Known(o, creds)
        /\ pc = "returned" /\ Rank[o] <= Rank[op] => Known(o, creds)

Phase ==
    /\ pc # "idle" => calls > 0
    /\ pc = "wait" => attempt < Attempts
    /\ pc = "returned" => Last
    /\ kind = "checkin" => op = "checkin"

IInv ==
    /\ TypeOK /\ CredentialsUsable /\ RetriesRepeat
    /\ Numbered /\ SameForm /\ StepsDone /\ Phase

\* The requests of the step are as many as retryWith has counted.
Counted ==
    /\ IsFiniteSet(Tries)
    /\ pc \in {"idle", "attempt"} => Cardinality(Tries) = attempt - 1
    /\ pc \in {"await", "wait", "returned"} => Cardinality(Tries) = attempt

BudgetInv == Counted /\ RetryBudget
=============================================================================
