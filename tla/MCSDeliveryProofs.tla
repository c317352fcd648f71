-------------------------- MODULE MCSDeliveryProofs --------------------------
(***************************************************************************)
(* Proofs about MCSDelivery, for every set of messages and any number of   *)
(* lost connections and restarts.                                          *)
(***************************************************************************)
EXTENDS MCSDelivery, TLAPS

\* The initial state satisfies the invariant.
LEMMA InitDeliveryInv == Init => DeliveryInv
  BY BoundsAssumption
  DEF Init, DeliveryInv, TypeOK, OncePerProcess, HandledFirst, RecordedOnce,
      PCs

\* Every step of client, server and network keeps it.
LEMMA NextKeepsDeliveryInv ==
  DeliveryInv /\ [Next]_vars => DeliveryInv'
<1> SUFFICES ASSUME DeliveryInv, [Next]_vars PROVE DeliveryInv'
  OBVIOUS
<1> USE MessagesAssumption, BoundsAssumption
    DEF DeliveryInv, TypeOK, OncePerProcess, HandledFirst, RecordedOnce, PCs,
        Tracked, Deliverable, server, client, bounds
<1>1. ASSUME NEW m \in Messages, Publish(m) PROVE DeliveryInv'
  BY <1>1 DEF Publish
<1>2. ASSUME NEW m \in Messages, ServerSend(m) PROVE DeliveryInv'
  BY <1>2 DEF ServerSend
<1>3. ASSUME NEW m \in Messages, ServerAck(m) PROVE DeliveryInv'
  BY <1>3 DEF ServerAck
<1>4. CASE ServerLogin
  BY <1>4 DEF ServerLogin
<1>5. CASE Connect
  BY <1>5 DEF Connect
<1>6. CASE Connected
  BY <1>6 DEF Connected
<1>7. CASE Read
  BY <1>7 DEF Read
<1>8. CASE Handle
  BY <1>8 DEF Handle, HandlerRuns
<1>9. CASE Remember
  BY <1>9 DEF Remember
<1>10. CASE Ack
  BY <1>10 DEF Ack
<1>11. CASE Lost
  BY <1>11 DEF Lost
<1>12. ASSUME NEW m \in Messages, AckLost(m) PROVE DeliveryInv'
  BY <1>12 DEF AckLost
<1>13. CASE Break
  BY <1>13 DEF Break
<1>14. CASE Crash
  BY <1>14 DEF Crash
<1>15. CASE UNCHANGED vars
  BY <1>15 DEF vars
<1> QED
  BY <1>1, <1>2, <1>3, <1>4, <1>5, <1>6, <1>7, <1>8, <1>9, <1>10, <1>11,
     <1>12, <1>13, <1>14, <1>15
  DEF Next, Server, Client

\* The inductive invariant holds in every reachable state.
THEOREM DeliveryInvariance == Spec => []DeliveryInv
  BY InitDeliveryInv, NextKeepsDeliveryInv, PTL DEF Spec

\* The handler runs at most once for a message in one life of the process,
\* whatever connections and acks are lost (rememberPersistentID, Connect).
THEOREM HandledOncePerProcess == Spec => []OncePerProcess
<1>1. DeliveryInv => OncePerProcess
  BY DEF DeliveryInv
<1> QED BY <1>1, DeliveryInvariance, PTL

\* Every step of the client and the server is a step of the promise or leaves
\* what it speaks about alone.
LEMMA StepRefines ==
  ASSUME DeliveryInv, DeliveryInv', [Next]_vars
  PROVE  [Abs!Next]_(Abs!vars)
<1> USE MessagesAssumption DEF Abs!Next, Abs!Deliver, Abs!Forget, Abs!vars
<1>1. ASSUME NEW S \in SUBSET Messages, handled' = handled,
             dropped' = dropped \cup S
      PROVE  [Abs!Next]_(Abs!vars)
  <2>1. S \cap Deliverable \subseteq handled
    BY <1>1 DEF DeliveryInv, HandledFirst
  <2> QED BY <1>1, <2>1
<1>2. ASSUME NEW m \in Messages, ServerAck(m) PROVE [Abs!Next]_(Abs!vars)
  BY <1>1, <1>2 DEF ServerAck
<1>3. CASE ServerLogin
  BY <1>1, <1>3 DEF ServerLogin, DeliveryInv, TypeOK
<1>4. CASE Handle
  BY <1>4 DEF Handle, HandlerRuns, server, DeliveryInv, HandledFirst, TypeOK,
              Deliverable, Tracked
<1>5. ASSUME UNCHANGED <<handled, dropped>> PROVE [Abs!Next]_(Abs!vars)
  BY <1>5
<1>6. ASSUME NEW m \in Messages,
             Publish(m) \/ ServerSend(m) \/ AckLost(m)
      PROVE  UNCHANGED <<handled, dropped>>
  BY <1>6 DEF Publish, ServerSend, AckLost, server
<1>7. ASSUME \/ Connect \/ Connected \/ Read \/ Remember \/ Ack \/ Lost
             \/ Break \/ Crash \/ UNCHANGED vars
      PROVE  UNCHANGED <<handled, dropped>>
  BY <1>7 DEF Connect, Connected, Read, Remember, Ack, Lost, Break, Crash, vars,
              server
<1> QED
  BY <1>2, <1>3, <1>4, <1>5, <1>6, <1>7 DEF Next, Server, Client

\* The client keeps the promise of PushDelivery: the server drops no message
\* that the handler should have seen and did not.
THEOREM DeliveryImplementsPromise == Spec => NoPushLost
<1>1. Init => Abs!Init
  BY DEF Init, Abs!Init
<1>2. DeliveryInv /\ DeliveryInv' /\ [Next]_vars => [Abs!Next]_(Abs!vars)
  BY StepRefines
<1> QED
  BY <1>1, <1>2, DeliveryInvariance, PTL DEF Spec, NoPushLost, Abs!Spec

=============================================================================
