------------------------- MODULE SecretsStoreProofs -------------------------
(***************************************************************************)
(* Proofs about SecretsStore when all threads work with the same Store,    *)
(* for every set of threads and files.                                     *)
(***************************************************************************)
EXTENDS SecretsStore, TLAPS

OneStore == \A t, u \in Threads : StoreOf[t] = StoreOf[u]

\* The initial state satisfies the invariant.
LEMMA InitStoreInv == Init => StoreInv
  BY SecretsAssumption
  DEF Init, StoreInv, TypeOK, NeverTorn, Busy, Prepared, PCs

\* With one Store, two threads that are busy are the same thread.
LEMMA Exclusion ==
  ASSUME OneStore, StoreInv, NEW t \in Threads, NEW u \in Threads,
         pc[t] # "idle", lock[StoreOf[u]] = None \/ pc[u] # "idle"
  PROVE  t = u
  BY SecretsAssumption DEF OneStore, StoreInv, Busy, TypeOK

\* Every system call of the one thread that holds the lock keeps it.
LEMMA OperationKeepsStoreInv ==
  ASSUME OneStore, StoreInv, NEW t \in Threads, Operation(t)
  PROVE  StoreInv'
<1>0. \A u \in Threads :
         u # t => pc[u] = "idle" \/ (pc[t] = "idle" /\ lock[StoreOf[t]] # None)
  BY Exclusion
<1> USE SecretsAssumption, <1>0
    DEF StoreInv, TypeOK, NeverTorn, Busy, Prepared, PCs, OneStore, Goto,
        Return, threads, files
<1>1. CASE BeginUpdate(t)
  BY <1>1 DEF BeginUpdate
<1>2. CASE BeginSave(t)
  BY <1>2 DEF BeginSave
<1>3. CASE Clear(t)
  BY <1>3 DEF Clear
<1>4. CASE Load(t)
  <2> DEFINE new == (IF path = None THEN {} ELSE data[path]) \cup {t}
  <2>1. new \in SUBSET Threads /\ val' = [val EXCEPT ![t] = new]
    BY <1>4 DEF Load, Content
  <2>2. op[t] = "update"
    BY <1>4 DEF Load
  <2>3. Prepared'
    BY <1>4, <2>1, <2>2 DEF Load
  <2> QED BY <1>4, <2>1, <2>3 DEF Load
<1>5. CASE LoadFail(t)
  BY <1>5 DEF LoadFail
<1>6. CASE OpenTmp(t)
  BY <1>6 DEF OpenTmp
<1>7. CASE OpenFail(t)
  BY <1>7 DEF OpenFail
<1>8. CASE Write(t)
  BY <1>8 DEF Write
<1>9. CASE Sync(t)
  BY <1>9 DEF Sync
<1>10. CASE Close(t)
  BY <1>10 DEF Close
<1>11. CASE Rename(t)
  BY <1>11 DEF Rename
<1>12. CASE Fail(t)
  BY <1>12 DEF Fail
<1>13. CASE RemoveTmp(t)
  BY <1>13 DEF RemoveTmp
<1>14. CASE DirSync(t)
  BY <1>14 DEF DirSync
<1> QED
  BY <1>1, <1>2, <1>3, <1>4, <1>5, <1>6, <1>7, <1>8, <1>9, <1>10, <1>11,
     <1>12, <1>13, <1>14 DEF Operation

\* A crash leaves nothing torn: what it may bring back was synced.
LEMMA CrashKeepsStoreInv == StoreInv /\ Crash => StoreInv'
  BY SecretsAssumption
  DEF Crash, StoreInv, TypeOK, NeverTorn, Busy, Prepared, PCs

\* The invariant is inductive.
LEMMA NextKeepsStoreInv == OneStore /\ StoreInv /\ [Next]_vars => StoreInv'
<1>1. StoreInv /\ UNCHANGED vars => StoreInv'
  BY DEF vars, threads, files, StoreInv, TypeOK, NeverTorn, Busy, Prepared
<1> QED
  BY <1>1, OperationKeepsStoreInv, CrashKeepsStoreInv DEF Next

\* The inductive invariant holds in every reachable state.
THEOREM StoreInvariance == OneStore => (Spec => []StoreInv)
<1> SUFFICES ASSUME OneStore PROVE Spec => []StoreInv
  OBVIOUS
<1>1. StoreInv /\ [Next]_vars => StoreInv'
  BY NextKeepsStoreInv
<1> QED BY <1>1, InitStoreInv, PTL DEF Spec

\* With one Store no reader and no crash ever comes across part of a write
\* (saveLocked).
THEOREM SecretsNeverTorn == OneStore => (Spec => []NeverTorn)
<1> SUFFICES ASSUME OneStore PROVE Spec => []NeverTorn
  OBVIOUS
<1>1. StoreInv => NeverTorn
  BY DEF StoreInv
<1>2. Spec => []StoreInv
  BY StoreInvariance
<1> QED BY <1>1, <1>2, PTL

-----------------------------------------------------------------------------
\* What was returned stays in every version a crash may bring back: an Update
\* starts from it, and after a Save or Clear nothing counts as returned.
LEMMA OperationKeepsReturned ==
  ASSUME StoreInv, ReturnedSurvivesCrash, NEW t \in Threads, Operation(t)
  PROVE  ReturnedSurvivesCrash'
<1> USE SecretsAssumption
    DEF ReturnedSurvivesCrash, StoreInv, TypeOK, Busy, threads, files
<1>1. CASE Rename(t)
  BY <1>1 DEF Rename, Prepared
<1>2. CASE DirSync(t)
  BY <1>2 DEF DirSync, Prepared
<1>3. CASE Clear(t)
  BY <1>3 DEF Clear
<1>4. CASE OpenTmp(t)
  BY <1>4 DEF OpenTmp
<1>5. CASE Write(t)
  BY <1>5 DEF Write
<1>6. CASE \/ BeginUpdate(t) \/ BeginSave(t) \/ Load(t) \/ LoadFail(t)
           \/ OpenFail(t) \/ Sync(t) \/ Close(t) \/ Fail(t) \/ RemoveTmp(t)
  BY <1>6 DEF BeginUpdate, BeginSave, Load, LoadFail, OpenFail, Sync, Close,
              Fail, RemoveTmp
<1> QED BY <1>1, <1>2, <1>3, <1>4, <1>5, <1>6 DEF Operation

\* A crash picks one of those versions.
LEMMA CrashKeepsReturned ==
  StoreInv /\ ReturnedSurvivesCrash /\ Crash => ReturnedSurvivesCrash'
  BY DEF ReturnedSurvivesCrash, Crash, StoreInv, NeverTorn, TypeOK

\* With one Store, what an Update or Save that returned nil stored, once its
\* directory is synced, outlives any crash (saveLocked).
THEOREM ReturnedIsDurable == OneStore => (Spec => []ReturnedSurvivesCrash)
<1> SUFFICES ASSUME OneStore PROVE Spec => []ReturnedSurvivesCrash
  OBVIOUS
<1>1. Init => ReturnedSurvivesCrash
  BY DEF Init, ReturnedSurvivesCrash
<1>2. StoreInv /\ ReturnedSurvivesCrash /\ [Next]_vars => ReturnedSurvivesCrash'
  <2>1. ReturnedSurvivesCrash /\ UNCHANGED vars => ReturnedSurvivesCrash'
    BY DEF vars, files, ReturnedSurvivesCrash
  <2> QED
    BY <2>1, OperationKeepsReturned, CrashKeepsReturned DEF Next
<1>3. Spec => []StoreInv
  BY StoreInvariance
<1> QED BY <1>1, <1>2, <1>3, PTL DEF Spec

-----------------------------------------------------------------------------
\* Every step is a step of the register or leaves it alone.
LEMMA OperationRefines ==
  ASSUME OneStore, StoreInv, NEW t \in Threads, Operation(t)
  PROVE  [Register!Next]_(Register!vars)
<1> DEFINE Value    == Content(path)
           Fallback == {Content(i) : i \in maybe}
<1> USE SecretsAssumption
    DEF StoreInv, TypeOK, Busy, NeverTorn, threads, files, Content
<1>1. ASSUME \A i \in maybe : i # None => data'[i] = data[i], path' = path,
             maybe' = maybe
      PROVE  UNCHANGED Register!vars
  BY <1>1 DEF Register!vars
<1>2. CASE Rename(t)
  <2>1. Value' = val[t] /\ Fallback' = Fallback \cup {val[t]}
    BY <1>2 DEF Rename, Prepared
  <2>2. val[t] = {t} \/ val[t] = Register!Fields(Value) \cup {t}
    BY <1>2 DEF Rename, Prepared, Register!Fields
  <2> QED
    BY <2>1, <2>2 DEF Register!Next, Register!Set
<1>3. CASE DirSync(t)
  BY <1>3, <1>1 DEF DirSync, Register!Next, Register!Settle, Register!vars
<1>4. CASE Clear(t)
  BY <1>4 DEF Clear, Register!Next, Register!Set
<1>5. CASE OpenTmp(t)
  BY <1>5, <1>1 DEF OpenTmp
<1>6. CASE Write(t)
  BY <1>6, <1>1 DEF Write
<1>7. CASE \/ BeginUpdate(t) \/ BeginSave(t) \/ Load(t) \/ LoadFail(t)
           \/ OpenFail(t) \/ Sync(t) \/ Close(t) \/ Fail(t) \/ RemoveTmp(t)
  BY <1>7, <1>1 DEF BeginUpdate, BeginSave, Load, LoadFail, OpenFail, Sync,
                    Close, Fail, RemoveTmp
<1> QED BY <1>2, <1>3, <1>4, <1>5, <1>6, <1>7 DEF Operation

\* A crash of the machine is a crash of the register.
LEMMA CrashRefines ==
  ASSUME StoreInv, Crash
  PROVE  Register!Crash
<1>1. \A i \in maybe : Content(i)' = Content(i)
  BY DEF Crash, StoreInv, NeverTorn, TypeOK, Content
<1>2. Content(path)' \in {Content(i) : i \in maybe}
  BY <1>1 DEF Crash, Content
<1> QED BY <1>1, <1>2 DEF Crash, Register!Crash, Content

\* With one Store, the steps of saveLocked, errors and crashes included, amount
\* to the atomic register of AtomicSecrets: no Update is lost and none is half
\* applied (Update, Save, Clear).
THEOREM StoreImplementsRegister == OneStore => (Spec => StoreIsRegister)
<1> SUFFICES ASSUME OneStore PROVE Spec => StoreIsRegister
  OBVIOUS
<1>1. Init => Register!Init
  BY DEF Init, Register!Init, Content
<1>2. StoreInv /\ [Next]_vars => [Register!Next]_(Register!vars)
  <2>1. UNCHANGED vars => UNCHANGED Register!vars
    BY DEF vars, files, Register!vars, Content
  <2>2. StoreInv /\ Crash => Register!Next
    BY CrashRefines DEF Register!Next
  <2> QED
    BY <2>1, <2>2, OperationRefines DEF Next
<1>3. Spec => []StoreInv
  BY StoreInvariance
<1> QED
  BY <1>1, <1>2, <1>3, PTL DEF Spec, StoreIsRegister, Register!Spec

=============================================================================
