---------------------------- MODULE PushDelivery ----------------------------
(***************************************************************************)
(* What the push client promises about data messages, without connections: *)
(* a message is gone from the server's redelivery queue only after the     *)
(* handler has run for it, unless no handler call could ever come of it    *)
(* (the comments on receivedPersistentIDs, sendSelectiveAck and            *)
(* handleDataMessage).  Delivery may repeat; it is not lost.               *)
(***************************************************************************)
EXTENDS Naturals

CONSTANTS
    Messages,     \* data messages
    Deliverable   \* those that decrypt and carry a persistent id

VARIABLES
    delivered,   \* the handler has run for these
    forgotten    \* the server will not send these again

vars == <<delivered, forgotten>>

Init == delivered = {} /\ forgotten = {}

Deliver(m) ==
    /\ m \in Deliverable
    /\ delivered' = delivered \cup {m}
    /\ UNCHANGED forgotten

Forget(S) ==
    /\ S \cap Deliverable \subseteq delivered
    /\ forgotten' = forgotten \cup S
    /\ UNCHANGED delivered

Next ==
    \/ \E m \in Messages : Deliver(m)
    \/ \E S \in SUBSET Messages : Forget(S)

Spec == Init /\ [][Next]_vars

=============================================================================
