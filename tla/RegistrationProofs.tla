-------------------------- MODULE RegistrationProofs --------------------------
(***************************************************************************)
(* Proofs about Registration, for any number of attempts and calls, and    *)
(* with or without a client timeout.                                       *)
(***************************************************************************)
EXTENDS Registration, FiniteSetTheorems, TLAPS

\* A request stays known when it is served: the requests out are the same set.
LEMMA ServeKeepsRequests ==
  ASSUME NEW r \in net, Serve(r)
  PROVE  net' \cup served' = net \cup served
  BY DEF Serve

\* What an attempt and an answer change of what the client holds.
LEMMA FormOnlyAppID ==
  ASSUME creds \in [Parts -> Nat], sent \in Nat
  PROVE  /\ Form \in [Parts -> Nat]
         /\ \A p \in Parts : p # "appID" \/ op # "gcm" => Form[p] = creds[p]
         /\ op # "gcm" => Form = creds
  BY DEF Form, Parts

\* The fids an answer can bring are numbers, and bring no other one but in
\* the answer to an installation.
LEMMA AnsweredFIDsTyped ==
  ASSUME creds \in [Parts -> Nat], installed \in SUBSET Installed, NEW fid \in AnsweredFIDs
  PROVE  /\ fid \in Nat
         /\ op # "install" => fid = creds.fid
         /\ op = "install" => [n |-> sent, fid |-> fid] \in installed
<1>1. CASE op = "install"
  <2>1. PICK i \in installed : i.n = sent /\ fid = i.fid
    BY <1>1 DEF AnsweredFIDs
  <2>2. i \in Installed
    BY <2>1
  <2> QED
    BY <1>1, <2>1, <2>2 DEF Installed
<1>2. CASE op # "install"
  BY <1>2 DEF AnsweredFIDs, Parts
<1> QED
  BY <1>1, <1>2

\* An answer fills in its own part; that of the GCM registration also the keys
\* and the fid to ask for, that of the installation the fid.
LEMMA GainedOnlyItsPart ==
  ASSUME creds \in [Parts -> Nat], sent \in Nat, op \in Ops,
         installed \in SUBSET Installed, NEW fid \in AnsweredFIDs
  PROVE  /\ Gained(fid) \in [Parts -> Nat]
         /\ Gained(fid)[Result[op]] = sent
         /\ op = "install" => Gained(fid).fid = fid
         /\ \A p \in Parts \ {Result[op]} :
               /\ op = "gcm" => p \notin {"keys", "fid"}
               /\ op = "install" => p # "fid"
               => Gained(fid)[p] = creds[p]
<1> USE AnsweredFIDsTyped DEF Gained, Parts, Result
<1>1. CASE op = "checkin"
  BY <1>1
<1>2. CASE op = "gcm"
  BY <1>2
<1>3. CASE op = "install"
  BY <1>3
<1>4. CASE op = "fcm"
  BY <1>4
<1> QED
  BY <1>1, <1>2, <1>3, <1>4 DEF Ops

\* Empty credentials are credentials.
LEMMA NoCredsTyped == NoCreds \in [Parts -> Nat]
  BY DEF NoCreds

\* The initial state satisfies the invariant.
LEMMA InitIInv == Init => IInv
<1> USE DEF Init
<1>1. Init => TypeOK
  <2> SUFFICES ASSUME Init PROVE TypeOK
    OBVIOUS
  <2>1. 1 \in 1..Attempts /\ 0 \in 0..MaxCalls
    BY AttemptsAssumption, CallsAssumption
  <2> QED
    BY <2>1, NoCredsTyped DEF TypeOK, PCs, Running, Ops, Errors
<1>2. Init => CredentialsUsable /\ RetriesRepeat /\ Phase
  BY DEF CredentialsUsable, RetriesRepeat, Phase
<1>3. Init => Numbered /\ SameForm /\ StepsDone
  BY DEF Numbered, SameForm, StepsDone, Running
<1> QED
  BY <1>1, <1>2, <1>3 DEF IInv

\* A new call has no requests of its own yet.
LEMMA BeginKeepsIInv ==
  ASSUME IInv, NEW k \in {"register", "checkin"}, NEW t \in BOOLEAN,
         Begin(k, t)
  PROVE  IInv'
<1> USE AttemptsAssumption, CallsAssumption, NoCredsTyped
    DEF IInv, Begin, wire
<1>1. TypeOK'
  <2>1. 1 \in 1..Attempts /\ calls + 1 \in 0..MaxCalls
    BY DEF TypeOK
  <2> QED
    BY <2>1 DEF TypeOK, PCs, Running, Ops
<1>2. CredentialsUsable' /\ RetriesRepeat' /\ Phase'
  BY DEF CredentialsUsable, RetriesRepeat, Phase, TypeOK
<1>3. Numbered' /\ SameForm'
  BY DEF Numbered, SameForm, TypeOK, Running
<1>4. StepsDone'
  BY DEF StepsDone, Rank, Ops
<1> QED
  BY <1>1, <1>2, <1>3, <1>4

\* A request says what the client holds, as those of the step before it do.
LEMMA AttemptKeepsIInv ==
  ASSUME IInv, Attempt
  PROVE  IInv'
<1> USE DEF IInv, Attempt, control, args
<1> DEFINE new == [n |-> sent + 1, call |-> calls, op |-> op, form |-> Form]
<1>1. /\ net' \cup served' = net \cup served \cup {new}
      /\ creds' = Form /\ pc' = "await" /\ sent' = sent + 1
  OBVIOUS
<1>2. TypeOK'
  BY FormOnlyAppID, CallsAssumption DEF TypeOK, PCs, Running, Request
<1>3. pc' \in Running /\ pc \in Running
  BY DEF Running
<1>4. RetriesRepeat'
  BY <1>1, <1>3, FormOnlyAppID DEF RetriesRepeat, SameForm, TypeOK
<1>5. Numbered'
  <2>1. ASSUME NEW r \in net \cup served
        PROVE  /\ r.n \in 1..(sent + 1) /\ r.n # sent + 1 /\ r.call \in 1..calls
               /\ r.call = calls => Rank[r.op] <= Rank[op]
    BY DEF Numbered, TypeOK
  <2>2. /\ new.n \in 1..(sent + 1) /\ new.call \in 1..calls
        /\ Rank[new.op] <= Rank[op] /\ new.op = op /\ new.form = Form
    BY CallsAssumption DEF TypeOK, Ops, Rank, Phase
  <2> QED
    BY <1>1, <2>1, <2>2 DEF Numbered
<1>6. SameForm'
  BY <1>1, <1>3, FormOnlyAppID DEF SameForm, TypeOK
<1>7. StepsDone'
  <2>1. ASSUME NEW o \in Ops, Rank[o] < Rank[op] PROVE Known(o, creds)'
    <3>1. Known(o, creds)
      BY <1>3, <2>1 DEF StepsDone
    <3>2. PICK r \in served : /\ r.op = o /\ r.n = creds[Result[o]]
                              /\ \A p \in Says[o] : r.form[p] = creds[p]
                              /\ o = "install" => [n |-> r.n, fid |-> creds.fid] \in installed
      BY <3>1 DEF Known
    <3>3. \A p \in Says[o] \cup {Result[o], "fid"} : Form[p] = creds[p]
      BY <2>1, FormOnlyAppID DEF TypeOK, Says, Result, Parts, Ops, Rank
    <3> QED
      BY <1>1, <3>2, <3>3 DEF Known
  <2> QED
    BY <1>1, <2>1 DEF StepsDone
<1>8. CredentialsUsable' /\ Phase'
  BY DEF CredentialsUsable, Phase
<1> QED
  BY <1>2, <1>4, <1>5, <1>6, <1>7, <1>8

\* The answered request makes the step known, with what it brought.
LEMMA AnswerMakesKnown ==
  ASSUME IInv, Answered, NEW fid \in AnsweredFIDs, NEW o \in Ops, Rank[o] <= Rank[op]
  PROVE  Known(o, Gained(fid))
<1> USE DEF IInv, TypeOK
<1>1. pc = "await" /\ pc \in Running
  BY DEF Answered, Running
<1>2. CASE o = op
  <2>1. PICK r \in served : r.n = sent
    BY DEF Answered
  <2>2. r.op = op /\ r.form = creds
    BY <1>1, <2>1 DEF Numbered
  <2>3. \A p \in Says[op] : Gained(fid)[p] = creds[p]
    BY GainedOnlyItsPart DEF Says, Result, Parts, Ops
  <2>4. Gained(fid)[Result[op]] = sent
    BY GainedOnlyItsPart
  <2>5. op = "install" => [n |-> sent, fid |-> Gained(fid).fid] \in installed
    BY AnsweredFIDsTyped, GainedOnlyItsPart
  <2> QED
    BY <1>2, <2>1, <2>2, <2>3, <2>4, <2>5 DEF Known
<1>3. CASE o # op
  <2>1. Rank[o] < Rank[op]
    BY <1>3 DEF Rank, Ops
  <2>2. PICK r \in served : /\ r.op = o /\ r.n = creds[Result[o]]
                            /\ \A p \in Says[o] : r.form[p] = creds[p]
                            /\ o = "install" => [n |-> r.n, fid |-> creds.fid] \in installed
    BY <1>1, <2>1 DEF StepsDone, Known
  <2>3. \A p \in Says[o] \cup {Result[o]} : Gained(fid)[p] = creds[p]
    BY <2>1, GainedOnlyItsPart DEF Says, Result, Parts, Ops, Rank
  <2>4. o = "install" => Gained(fid)["fid"] = creds["fid"]
    BY <2>1, GainedOnlyItsPart DEF Result, Parts, Ops, Rank
  <2> QED
    BY <2>2, <2>3, <2>4 DEF Known
<1> QED
  BY <1>2, <1>3

\* The next step finds the ones before it known to a server.
LEMMA NextStepKeepsIInv ==
  ASSUME IInv, NEW o \in Ops, NextStep(o)
  PROVE  IInv'
<1> USE DEF IInv, NextStep, wire, args
<1>1. TypeOK'
  <2>1. PICK fid \in AnsweredFIDs : creds' = Gained(fid)
    OBVIOUS
  <2> QED
    BY <2>1, AttemptsAssumption, GainedOnlyItsPart DEF TypeOK, PCs, Running
<1>2. CredentialsUsable' /\ RetriesRepeat' /\ Phase'
  BY DEF CredentialsUsable, RetriesRepeat, Phase, Last, Answered
<1>3. Numbered' /\ SameForm'
  <2>1. \A r \in net \cup served : r.call = calls => r.op # o
    BY DEF Numbered, TypeOK, Rank, Ops, Request
  <2> QED
    BY <2>1 DEF Numbered, SameForm, TypeOK, Rank, Ops, Request
<1>4. StepsDone'
  <2>1. ASSUME NEW q \in Ops, Rank[q] < Rank[o] PROVE Known(q, creds)'
    <3>1. Rank[q] <= Rank[op]
      BY <2>1 DEF Rank, Ops, TypeOK
    <3>2. PICK fid \in AnsweredFIDs : creds' = Gained(fid)
      OBVIOUS
    <3>3. Known(q, Gained(fid))
      BY <3>1, AnswerMakesKnown
    <3> QED
      BY <3>2, <3>3 DEF Known
  <2> QED
    BY <2>1 DEF StepsDone
<1> QED
  BY <1>1, <1>2, <1>3, <1>4

\* The last answer completes the credentials.
LEMMA ReturnKeepsIInv ==
  ASSUME IInv, Return
  PROVE  IInv'
<1> USE DEF IInv, Return, wire, control, args
<1>0. PICK fid \in AnsweredFIDs : creds' = Gained(fid)
  OBVIOUS
<1>1. TypeOK'
  BY <1>0, GainedOnlyItsPart DEF TypeOK, PCs, Running
<1>2. RetriesRepeat' /\ Phase' /\ Numbered' /\ SameForm'
  BY DEF RetriesRepeat, Phase, Last, Numbered, SameForm, Running, Answered
<1>3. \A o \in Ops : Rank[o] <= Rank[op] => Known(o, creds)'
  BY <1>0, AnswerMakesKnown DEF Known
<1>4. StepsDone'
  BY <1>3 DEF StepsDone, Running
<1>5. CredentialsUsable'
  BY <1>3 DEF CredentialsUsable, Last, Rank, Ops, Phase, TypeOK
<1> QED
  BY <1>1, <1>2, <1>4, <1>5

\* What is known stays so when a server answers, however late.
LEMMA ServeKeepsIInv ==
  ASSUME IInv, NEW r \in net, Serve(r)
  PROVE  IInv'
<1> USE DEF IInv, Serve, control, args
<1>1. net' \cup served' = net \cup served /\ UNCHANGED <<pc, control, creds, lastErr, ctxDone, calls, sent>>
  BY ServeKeepsRequests
<1>2. r \in Request
  BY DEF TypeOK
<1>3. installed' \in SUBSET Installed /\ installed \subseteq installed'
  <2>1. CASE r.op = "install"
    <3>1. PICK fid \in {r.form.fid, r.n} : installed' = installed \cup {[n |-> r.n, fid |-> fid]}
      BY <2>1
    <3>2. fid \in Nat /\ r.n \in Nat
      BY <1>2 DEF Request, Parts
    <3> QED
      BY <3>1, <3>2 DEF TypeOK, Installed
  <2>2. CASE r.op # "install"
    BY <2>2 DEF TypeOK
  <2> QED
    BY <2>1, <2>2
<1>4. TypeOK'
  BY <1>1, <1>2, <1>3 DEF TypeOK
<1>5. \A o \in Ops : Known(o, creds) => Known(o, creds)'
  BY <1>1, <1>3 DEF Known
<1>6. CredentialsUsable' /\ StepsDone'
  BY <1>1, <1>5 DEF CredentialsUsable, StepsDone
<1>7. RetriesRepeat' /\ Numbered' /\ SameForm' /\ Phase'
  BY <1>1 DEF RetriesRepeat, Numbered, SameForm, Phase, Last
<1> QED
  BY <1>4, <1>6, <1>7

\* The invariant is inductive.
LEMMA NextKeepsIInv == IInv /\ [Next]_vars => IInv'
<1> SUFFICES ASSUME IInv, [Next]_vars PROVE IInv'
  OBVIOUS
<1> USE AttemptsAssumption, CallsAssumption
    DEF IInv, TypeOK, CredentialsUsable, RetriesRepeat, Numbered, SameForm,
        StepsDone, Phase, PCs, Running, Errors, control, args, wire, Known
<1>1. CASE Cancel
  BY <1>1 DEF Cancel, Last
<1>2. ASSUME NEW e \in Errors, AttemptFails(e) PROVE IInv'
  BY <1>2 DEF AttemptFails, Fail, Last
<1>3. ASSUME NEW e \in Errors, AttemptRetried(e) PROVE IInv'
  BY <1>3 DEF AttemptRetried, GivesUp, Last
<1>4. CASE Timer
  BY <1>4 DEF Timer, Last
<1>5. CASE CtxEnds
  BY <1>5 DEF CtxEnds, Fail, Last
<1>6. ASSUME NEW r \in net, Serve(r) PROVE IInv'
  BY <1>6, ServeKeepsIInv
<1>7. CASE UNCHANGED vars
  BY <1>7 DEF vars, Last
<1> QED
  BY <1>1, <1>2, <1>3, <1>4, <1>5, <1>6, <1>7, BeginKeepsIInv,
     AttemptKeepsIInv, NextStepKeepsIInv, ReturnKeepsIInv
  DEF Next, Caller, Client

\* The inductive invariant holds in every reachable state.
THEOREM RegistrationInvariance == Spec => []IInv
  BY InitIInv, NextKeepsIInv, PTL DEF Spec

\* The credentials a call returns fit together, whatever attempts went before.
THEOREM ReturnedCredentialsUsable == Spec => []CredentialsUsable
<1>1. IInv => CredentialsUsable
  BY DEF IInv
<1> QED
  BY <1>1, RegistrationInvariance, PTL

\* A retried installation or registration repeats the first one.
THEOREM RetriesAreRepetitions == Spec => []RetriesRepeat
<1>1. IInv => RetriesRepeat
  BY DEF IInv
<1> QED
  BY <1>1, RegistrationInvariance, PTL

-----------------------------------------------------------------------------
(* The budget *)

\* A step that has just begun has no requests: those of the call so far are of
\* the steps before, and those of earlier calls bear their numbers.
LEMMA FreshStepHasNoTries ==
  ASSUME IInv, UNCHANGED wire,
         \/ calls' = calls + 1
         \/ calls' = calls /\ op \in Ops /\ op' \in Ops /\ Rank[op'] = Rank[op] + 1
  PROVE  Tries' = {}
<1>1. /\ net' = net /\ served' = served
      /\ calls \in Nat
      /\ \A r \in net \cup served : r.call \in 1..calls
      /\ \A r \in net \cup served : r.call = calls => Rank[r.op] <= Rank[op]
  BY CallsAssumption DEF wire, IInv, TypeOK, Numbered
<1>2. CASE calls' = calls + 1
  BY <1>1, <1>2 DEF Tries
<1>3. CASE calls' = calls /\ op \in Ops /\ op' \in Ops /\ Rank[op'] = Rank[op] + 1
  BY <1>1, <1>3 DEF Tries, Rank, Ops
<1> QED
  BY <1>2, <1>3

\* A step that neither starts a call or a step nor sends leaves the tries as
\* they are.
LEMMA SameTries ==
  ASSUME UNCHANGED <<op, calls>>, net' \cup served' = net \cup served
  PROVE  Tries' = Tries
BY DEF Tries

\* An attempt adds one request to those of its step.
LEMMA AttemptAddsOne ==
  ASSUME IInv, Attempt, IsFiniteSet(Tries)
  PROVE  IsFiniteSet(Tries') /\ Cardinality(Tries') = Cardinality(Tries) + 1
<1> DEFINE new == [n |-> sent + 1, call |-> calls, op |-> op, form |-> Form]
<1>1. net' \cup served' = (net \cup served) \cup {new} /\ op' = op /\ calls' = calls
  BY DEF Attempt, control
<1>2. new.n = sent + 1 /\ new.call = calls /\ new.op = op
  OBVIOUS
<1>3. new \notin Tries
  BY <1>2 DEF Tries, IInv, TypeOK, Numbered
<1> HIDE DEF new
<1>4. Tries' = Tries \cup {new}
  BY <1>1, <1>2 DEF Tries
<1> QED
  BY <1>3, <1>4, FS_AddElement

\* The tries are counted, and within the budget, at the start.
LEMMA InitBudget == Init => BudgetInv
<1> SUFFICES ASSUME Init PROVE BudgetInv
  OBVIOUS
<1>1. Tries = {}
  BY DEF Init, Tries
<1>2. IsFiniteSet(Tries) /\ Cardinality(Tries) = 0
  BY <1>1, FS_EmptySet
<1> QED
  BY <1>2, AttemptsAssumption DEF Init, BudgetInv, Counted, RetryBudget

\* The invariant of the budget is inductive, given that of the requests.
LEMMA NextKeepsBudget == IInv /\ BudgetInv /\ [Next]_vars => BudgetInv'
<1> SUFFICES ASSUME IInv, BudgetInv, [Next]_vars PROVE BudgetInv'
  OBVIOUS
<1> USE AttemptsAssumption DEF BudgetInv, Counted, RetryBudget
<1>1. /\ attempt \in 1..Attempts /\ op \in Ops /\ pc \in PCs
      /\ pc = "wait" => attempt < Attempts
  BY DEF IInv, TypeOK, Phase
<1>2. IsFiniteSet(Tries) /\ Cardinality(Tries) \in Nat
  BY FS_CardinalityType
<1>3. IsFiniteSet({}) /\ Cardinality({}) = 0
  BY FS_EmptySet
<1>4. ASSUME NEW k \in {"register", "checkin"}, NEW t \in BOOLEAN, Begin(k, t)
      PROVE  BudgetInv'
  <2>1. Tries' = {}
    BY <1>4, FreshStepHasNoTries DEF Begin
  <2> QED
    BY <1>3, <1>4, <2>1 DEF Begin
<1>5. CASE Attempt
  <2>1. IsFiniteSet(Tries') /\ Cardinality(Tries') = Cardinality(Tries) + 1
    BY <1>2, <1>5, AttemptAddsOne
  <2>2. /\ pc = "attempt" /\ pc' = "await" /\ attempt' = attempt
    BY <1>5 DEF Attempt, control
  <2> QED
    BY <1>1, <1>2, <2>1, <2>2
<1>6. ASSUME NEW o \in Ops, NextStep(o) PROVE BudgetInv'
  <2>1. Tries' = {}
    BY <1>1, <1>6, FreshStepHasNoTries DEF NextStep
  <2> QED
    BY <1>3, <1>6, <2>1 DEF NextStep
<1>7. ASSUME NEW e \in Errors, AttemptFails(e) PROVE BudgetInv'
  <2>1. /\ Tries' = Tries /\ pc = "await" /\ pc' = "failed"
        /\ lastErr' = e /\ (isTransient(e) => attempt = Attempts)
    BY <1>7, SameTries DEF AttemptFails, Fail, GivesUp, control, wire
  <2> QED
    BY <1>1, <1>2, <2>1
<1>8. ASSUME NEW e \in Errors, AttemptRetried(e) PROVE BudgetInv'
  <2>1. /\ Tries' = Tries /\ pc = "await" /\ pc' = "wait" /\ attempt' = attempt
    BY <1>8, SameTries DEF AttemptRetried, control, wire
  <2> QED
    BY <1>1, <1>2, <2>1
<1>9. CASE Timer
  <2>1. /\ Tries' = Tries /\ pc = "wait" /\ pc' = "attempt"
        /\ attempt' = attempt + 1
    BY <1>9, SameTries DEF Timer, wire
  <2> QED
    BY <1>1, <1>2, <2>1
<1>10. CASE CtxEnds
  <2>1. /\ Tries' = Tries /\ pc \in {"attempt", "wait"} /\ pc' = "failed"
        /\ ~isTransient(lastErr')
    BY <1>10, SameTries DEF CtxEnds, Fail, control, wire, isTransient
  <2> QED
    BY <1>1, <1>2, <2>1 DEF isTransient
<1>11. CASE Return
  <2>1. /\ Tries' = Tries /\ pc = "await" /\ pc' = "returned"
        /\ attempt' = attempt
    BY <1>11, SameTries DEF Return, Answered, control, wire
  <2> QED
    BY <1>1, <1>2, <2>1
<1>12. CASE Cancel \/ (\E r \in net : Serve(r)) \/ UNCHANGED vars
  <2>1. UNCHANGED <<pc, op, attempt, lastErr, calls>>
    BY <1>12 DEF Cancel, Serve, vars, control
  <2>2. net' \cup served' = net \cup served
    BY <1>12, ServeKeepsRequests DEF Cancel, vars, wire
  <2> QED
    BY <2>1, <2>2, SameTries DEF isTransient
<1> QED
  BY <1>4, <1>5, <1>6, <1>7, <1>8, <1>9, <1>10, <1>11, <1>12
  DEF Next, Caller, Client

\* No step of a call makes more requests than its budget, and none fails on a
\* transient error before it has made them all, for any budget.
THEOREM RetriesWithinBudget == Spec => []RetryBudget
<1>1. Init => IInv /\ BudgetInv
  BY InitIInv, InitBudget
<1>2. IInv /\ BudgetInv /\ [Next]_vars => IInv' /\ BudgetInv'
  BY NextKeepsIInv, NextKeepsBudget
<1>3. BudgetInv => RetryBudget
  BY DEF BudgetInv
<1> QED
  BY <1>1, <1>2, <1>3, PTL DEF Spec
=============================================================================
