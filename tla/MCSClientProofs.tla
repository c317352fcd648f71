-------------------------- MODULE MCSClientProofs --------------------------
(***************************************************************************)
(* Proofs about MCSClient, for every number of attempts, every number of   *)
(* calls of Close and with or without stalling peers.                      *)
(***************************************************************************)
EXTENDS MCSClient, TLAPS

\* The initial state satisfies the invariant.
LEMMA InitIInv == Init => IInv
<1> SUFFICES ASSUME Init PROVE IInv
  OBVIOUS
<1> USE BoundsAssumption DEF Init, Attempts, None
<1>1. TypeOK
  <2>1. res \in Results
    BY DEF Results, Received
  <2>2. isFirst \in BOOLEAN /\ firstMessage \in BOOLEAN /\ rootDone \in BOOLEAN
    OBVIOUS
  <2>3. closes \in 0..MaxCloses
    OBVIOUS
  <2>4. sock \in [Attempts -> {"none", "open", "closed"}]
    OBVIOUS
  <2>5. watcher \in [Attempts -> {"none", "select", "closing", "done"}]
    OBVIOUS
  <2> QED BY <2>1, <2>2, <2>3, <2>4, <2>5 DEF TypeOK, PCs
<1>2. NoSocketLeak
  BY DEF NoSocketLeak
<1>3. Numbering /\ Locking /\ Phases
  BY DEF Numbering, Locking, Phases
<1>4. Framing
  BY DEF Framing
<1> QED BY <1>1, <1>2, <1>3, <1>4 DEF IInv

\* Every step of the goroutine in Run keeps it.
LEMMA RunnerKeepsIInv == IInv /\ Runner => IInv'
<1> SUFFICES ASSUME IInv, Runner PROVE IInv'
  OBVIOUS
<1> USE BoundsAssumption
    DEF IInv, TypeOK, NoSocketLeak, Numbering, Locking, Phases, Framing,
        PCs, Idle, Attempts, None, fields, locals, watchers, contexts, wire
<1>1. CASE ConnectBegin
  BY <1>1 DEF ConnectBegin, NextAttempt
<1>2. CASE DialOk
  BY <1>2 DEF DialOk
<1>3. CASE DialFail
  BY <1>3 DEF DialFail
<1>4. CASE Install
  BY <1>4 DEF Install
<1>5. CASE LoginDeadline
  BY <1>5 DEF LoginDeadline
<1>6. CASE LoginResult
  BY <1>6 DEF LoginResult, Messages
<1>7. CASE ConnectClose
  BY <1>7 DEF ConnectClose, CloseConn
<1>8. CASE SendLock
  BY <1>8 DEF SendLock, Failed
<1>9. CASE WriteOk
  BY <1>9 DEF WriteOk
<1>10. CASE WriteFail
  BY <1>10 DEF WriteFail, Failed
<1>11. CASE ReadConn
  BY <1>11 DEF ReadConn, Failed
<1>12. CASE ReadFirst
  BY <1>12 DEF ReadFirst
<1>13. CASE ReadOk
  BY <1>13 DEF ReadOk, Results, Received, Messages
<1>14. CASE ReadFail
  BY <1>14 DEF ReadFail, Results, ReadError, Messages, Errors
<1>15. CASE ListenBegin
  BY <1>15 DEF ListenBegin
<1>16. CASE LoopTop
  BY <1>16 DEF LoopTop
<1>17. CASE ListenConn
  BY <1>17 DEF ListenConn
<1>18. CASE ListenError
  BY <1>18 DEF ListenError, IsNetTimeout
<1>19. CASE ListenMessage
  BY <1>19 DEF ListenMessage
<1>20. CASE StopWatch
  BY <1>20 DEF StopWatch
<1>21. CASE ListenClose
  BY <1>21 DEF ListenClose, CloseConn
<1>22. CASE ConnectError
  BY <1>22 DEF ConnectError
<1>23. CASE RunReturn
  BY <1>23 DEF RunReturn
<1>24. CASE Retry
  BY <1>24 DEF Retry
<1> QED
  BY <1>1, <1>2, <1>3, <1>4, <1>5, <1>6, <1>7, <1>8, <1>9, <1>10, <1>11,
     <1>12, <1>13, <1>14, <1>15, <1>16, <1>17, <1>18, <1>19, <1>20, <1>21,
     <1>22, <1>23, <1>24 DEF Runner

\* The steps of everyone else: watchers, callers of Close, the owner of Run's
\* context, and the peer.
LEMMA OthersKeepIInv ==
  ASSUME IInv,
         \/ \E k \in Attempts : WatchDone(k) \/ WatchStop(k) \/ WatchClose(k)
         \/ UserClose
         \/ CancelRoot
         \/ \E k \in Attempts : PeerStalls(k) \/ PeerResumes(k)
         \/ UNCHANGED vars
  PROVE  IInv'
<1> USE BoundsAssumption
    DEF IInv, TypeOK, NoSocketLeak, Numbering, Locking, Phases, Framing,
        PCs, Idle, Attempts, None, fields, locals, watchers, contexts, wire
<1>1. ASSUME NEW k \in Attempts, WatchDone(k) PROVE IInv'
  BY <1>1 DEF WatchDone
<1>2. ASSUME NEW k \in Attempts, WatchStop(k) PROVE IInv'
  BY <1>2 DEF WatchStop
<1>3. ASSUME NEW k \in Attempts, WatchClose(k) PROVE IInv'
  BY <1>3 DEF WatchClose, CloseConn
<1>4. CASE UserClose
  BY <1>4 DEF UserClose, CloseConn
<1>5. CASE CancelRoot
  BY <1>5 DEF CancelRoot
<1>6. ASSUME NEW k \in Attempts, PeerStalls(k) PROVE IInv'
  BY <1>6 DEF PeerStalls
<1>7. ASSUME NEW k \in Attempts, PeerResumes(k) PROVE IInv'
  BY <1>7 DEF PeerResumes
<1>8. CASE UNCHANGED vars
  BY <1>8 DEF vars
<1> QED BY <1>1, <1>2, <1>3, <1>4, <1>5, <1>6, <1>7, <1>8

\* The invariant is inductive.
LEMMA NextKeepsIInv == IInv /\ [Next]_vars => IInv'
  BY RunnerKeepsIInv, OthersKeepIInv DEF Next, Terminated

\* The inductive invariant holds in every reachable state.
THEOREM Invariance == Spec => []IInv
<1>1. Init => IInv
  BY InitIInv
<1>2. IInv /\ [Next]_vars => IInv'
  BY NextKeepsIInv
<1> QED BY <1>1, <1>2, PTL DEF Spec

\* Type correctness: every field, local and control point keeps its type.
THEOREM TypeCorrectness == Spec => []TypeOK
<1>1. IInv => TypeOK
  BY DEF IInv
<1> QED BY <1>1, Invariance, PTL

\* No interleaving of Connect, Listen, the watchers and any number of calls of
\* Close leaves a socket open that c.conn does not name (Connect, Listen, Close).
THEOREM SocketsNeverLeak == Spec => []NoSocketLeak
<1>1. IInv => NoSocketLeak
  BY DEF IInv
<1> QED BY <1>1, Invariance, PTL

\* The version byte crosses each connection once in each direction, with the
\* first frame (sendMsg, readMsg, the reset in Connect).
THEOREM VersionByteSentOnce == Spec => []VersionByteOnce
<1>1. IInv => VersionByteOnce
  BY BoundsAssumption
  DEF IInv, TypeOK, Numbering, Locking, Framing, Phases, VersionByteOnce, None,
      Attempts
<1> QED BY <1>1, Invariance, PTL

=============================================================================
