----------------------------- MODULE MCSDelivery -----------------------------
(***************************************************************************)
(* How a data message gets from the server's redelivery queue to the       *)
(* handler and out of the queue again (fcm/push.go): Listen reads it,      *)
(* handleDataMessage decrypts it and calls the handler, Listen remembers   *)
(* its persistent id and sends the selective ack; after a lost connection  *)
(* Connect reports the remembered ids in its login.  The ids are kept in   *)
(* memory only, so a restarted process reports none.                       *)
(*                                                                         *)
(* MCSClient has the steps of connecting and closing; here a connection is *)
(* up, or broken without the client having noticed, or gone.               *)
(* The server is external, modelled from what the client's comments and    *)
(* calls rely on.                                                          *)
(***************************************************************************)
EXTENDS Naturals

CONSTANTS
    Messages,    \* data messages
    NoMsg,       \* none of them
    Anonymous,   \* those without a persistent id
    Broken,      \* those that do not decrypt with the client's key
    MaxLosses,   \* bound: connections lost
    MaxCrashes   \* bound: restarts of the process

ASSUME MessagesAssumption ==
    /\ Anonymous \subseteq Messages /\ Broken \subseteq Messages
    /\ NoMsg \notin Messages
ASSUME BoundsAssumption == MaxLosses \in Nat /\ MaxCrashes \in Nat

Tracked == Messages \ Anonymous

\* Mutated form: the test for a persistent id is the wrong way round.
HandlerRunsInverted(m) == m \notin Broken /\ m \notin Tracked

\* The conditions handleDataMessage puts on the handler call; the client was
\* given a handler.
HandlerRuns(m) == m \notin Broken /\ m \in Tracked

VARIABLES
    \* the server: its queue, the messages it was ever given, those it dropped
    \* on an ack or a login, and those it sent on the current connection
    queue, published, dropped, sentHere,
    \* the connection: none, working, or broken unnoticed; messages under way
    \* to the client, acks under way to the server
    link, transit, acks,
    \* the client: control, the message in hand, receivedPersistentIDs, the
    \* ids in its latest login
    pc, msg, received, loginIDs,
    \* handler calls: ever, and how many since the process started
    handled, calls,
    \* bounds
    losses, crashes

server == <<queue, published, dropped, sentHere>>
client == <<pc, msg, received, loginIDs>>
bounds == <<losses, crashes>>
vars   == <<server, link, transit, acks, client, handled, calls, bounds>>

PCs == {"down", "login", "read", "handle", "remember", "ack"}

TypeOK ==
    /\ queue \in SUBSET Messages /\ published \in SUBSET Messages
    /\ dropped \in SUBSET Tracked
    /\ sentHere \in SUBSET Messages
    /\ link \in {"none", "up", "broken"}
    /\ transit \in SUBSET Messages /\ acks \in SUBSET Tracked
    /\ pc \in PCs
    /\ msg \in Messages \cup {NoMsg}
    /\ received \in SUBSET Tracked /\ loginIDs \in SUBSET Tracked
    /\ handled \in SUBSET Messages
    /\ calls \in [Messages -> Nat]
    /\ losses \in 0..MaxLosses /\ crashes \in 0..MaxCrashes

Init ==
    /\ queue = {} /\ published = {} /\ dropped = {} /\ sentHere = {}
    /\ link = "none" /\ transit = {} /\ acks = {}
    /\ pc = "down" /\ msg = NoMsg /\ received = {} /\ loginIDs = {}
    /\ handled = {} /\ calls = [m \in Messages |-> 0]
    /\ losses = 0 /\ crashes = 0

-----------------------------------------------------------------------------
(* The server *)

Publish(m) ==
    /\ m \notin published
    /\ published' = published \cup {m}
    /\ queue' = queue \cup {m}
    /\ UNCHANGED <<dropped, sentHere, link, transit, acks, client, handled,
                   calls, bounds>>

\* The server drops what the login says was received, and answers.
ServerLogin ==
    /\ pc = "login" /\ link = "none"
    /\ link' = "up"
    /\ dropped' = dropped \cup (queue \cap loginIDs)
    /\ queue' = queue \ loginIDs
    /\ sentHere' = {}
    /\ transit' = {}
    /\ UNCHANGED <<published, acks, client, handled, calls, bounds>>

\* Once per connection; what has no id cannot be redelivered.
ServerSend(m) ==
    /\ link = "up" /\ m \in queue /\ m \notin sentHere
    /\ sentHere' = sentHere \cup {m}
    /\ transit' = transit \cup {m}
    /\ queue' = IF m \in Anonymous THEN queue \ {m} ELSE queue
    /\ UNCHANGED <<published, dropped, link, acks, client, handled, calls,
                   bounds>>

\* An ack may still arrive after its connection is gone.
ServerAck(m) ==
    /\ m \in acks
    /\ acks' = acks \ {m}
    /\ queue' = queue \ {m}
    /\ dropped' = dropped \cup {m}
    /\ UNCHANGED <<published, sentHere, link, transit, client, handled, calls,
                   bounds>>

AckLost(m) ==
    /\ m \in acks /\ link # "up"
    /\ acks' = acks \ {m}
    /\ UNCHANGED <<server, link, transit, client, handled, calls, bounds>>

\* The connection breaks; the client will find out at its next read or write.
Break ==
    /\ link = "up" /\ losses < MaxLosses
    /\ link' = "broken"
    /\ losses' = losses + 1
    /\ UNCHANGED <<server, transit, acks, client, handled, calls, crashes>>

-----------------------------------------------------------------------------
(* The client *)

\* Mutated form: the ids are collected and never reported.
ConnectReportsNone ==
    /\ pc = "down"
    /\ pc' = "login"
    /\ loginIDs' = {}
    /\ UNCHANGED <<server, link, transit, acks, msg, received, handled, calls,
                   bounds>>

Connect ==
    /\ pc = "down"
    /\ pc' = "login"
    /\ loginIDs' = received
    /\ UNCHANGED <<server, link, transit, acks, msg, received, handled, calls,
                   bounds>>

Connected ==
    /\ pc = "login" /\ link # "none"
    /\ pc' = "read"
    /\ UNCHANGED <<server, link, transit, acks, msg, received, loginIDs,
                   handled, calls, bounds>>

\* What was on its way when the connection broke may still be read.
Read ==
    /\ pc = "read"
    /\ \E m \in transit : msg' = m /\ transit' = transit \ {m}
    /\ pc' = "handle"
    /\ UNCHANGED <<server, link, acks, received, loginIDs, handled, calls,
                   bounds>>

\* Mutated form: a message that does not decrypt is skipped altogether.
HandleSkipsBroken ==
    /\ pc = "handle"
    /\ IF HandlerRuns(msg)
       THEN /\ handled' = handled \cup {msg}
            /\ calls' = [calls EXCEPT ![msg] = @ + 1]
       ELSE UNCHANGED <<handled, calls>>
    /\ pc' = IF HandlerRuns(msg) THEN "remember" ELSE "read"
    /\ UNCHANGED <<server, link, transit, acks, msg, received, loginIDs, bounds>>

\* Mutated form: no test for a missing id in front of the ack.
HandleTracksAll ==
    /\ pc = "handle"
    /\ IF HandlerRuns(msg)
       THEN /\ handled' = handled \cup {msg}
            /\ calls' = [calls EXCEPT ![msg] = @ + 1]
       ELSE UNCHANGED <<handled, calls>>
    /\ pc' = "remember"
    /\ UNCHANGED <<server, link, transit, acks, msg, received, loginIDs, bounds>>

\* A message without id is neither remembered nor acknowledged; one that does
\* not decrypt is both, though the handler never sees it.
Handle ==
    /\ pc = "handle"
    /\ IF HandlerRuns(msg)
       THEN /\ handled' = handled \cup {msg}
            /\ calls' = [calls EXCEPT ![msg] = @ + 1]
       ELSE UNCHANGED <<handled, calls>>
    /\ pc' = IF msg \in Tracked THEN "remember" ELSE "read"
    /\ UNCHANGED <<server, link, transit, acks, msg, received, loginIDs, bounds>>

Remember ==
    /\ pc = "remember"
    /\ received' = received \cup {msg}
    /\ pc' = "ack"
    /\ UNCHANGED <<server, link, transit, acks, msg, loginIDs, handled, calls,
                   bounds>>

\* On a broken connection the write may still succeed; AckLost then follows.
Ack ==
    /\ pc = "ack"
    /\ acks' = acks \cup {msg}
    /\ pc' = "read"
    /\ UNCHANGED <<server, link, transit, msg, received, loginIDs, handled,
                   calls, bounds>>

\* A read or a write fails on a broken connection, or the client gives up on a
\* working one: Close, a cancelled context, the read deadline, a Close or a
\* stream error from the server.
Lost ==
    /\ pc \in {"login", "read", "ack"}
    /\ \/ link = "broken" /\ losses' = losses
       \/ link # "broken" /\ losses < MaxLosses /\ losses' = losses + 1
    /\ link' = "none"
    /\ transit' = {}
    /\ pc' = "down"
    /\ UNCHANGED <<server, acks, msg, received, loginIDs, handled, calls,
                   crashes>>

\* The process ends and starts again.
Crash ==
    /\ crashes < MaxCrashes
    /\ crashes' = crashes + 1
    /\ link' = "none" /\ transit' = {}
    /\ pc' = "down" /\ msg' = NoMsg
    /\ received' = {} /\ loginIDs' = {}
    /\ calls' = [m \in Messages |-> 0]
    /\ UNCHANGED <<server, acks, handled, losses>>

-----------------------------------------------------------------------------
Server == \/ \E m \in Messages : Publish(m) \/ ServerSend(m) \/ ServerAck(m)
          \/ ServerLogin

Client == Connect \/ Connected \/ Read \/ Handle \/ Remember \/ Ack \/ Lost

Next ==
    \/ Server
    \/ Client
    \/ \E m \in Messages : AckLost(m)
    \/ Break
    \/ Crash

\* Run goes on connecting and Listen goes on reading; the server answers
\* logins and sends what it has queued.  Losses and crashes are not owed.
Fairness ==
    /\ WF_vars(Connect \/ Connected \/ Read \/ Handle \/ Remember \/ Ack)
    /\ WF_vars(Lost /\ link = "broken")
    /\ WF_vars(ServerLogin)
    /\ \A m \in Messages : WF_vars(ServerSend(m)) /\ WF_vars(ServerAck(m))

Spec == Init /\ [][Next]_vars /\ Fairness

-----------------------------------------------------------------------------
(* Properties *)

Deliverable == Tracked \ Broken

Abs == INSTANCE PushDelivery WITH
          delivered <- handled, forgotten <- dropped

\* The client keeps PushDelivery's promise: whatever connections are lost and
\* wherever the process restarts, the server drops no message the handler should
\* have seen and did not (Listen, handleDataMessage, sendSelectiveAck, the login
\* in Connect).
NoPushLost == Abs!Spec

\* Within one life of the process the handler runs at most once for a message,
\* although acks are lost and connections replaced before they arrive: the ids
\* reported at login keep the server from sending it again (rememberPersistentID,
\* persistentIDs in Connect).
OncePerProcess == \A m \in Messages : calls[m] <= 1

\* Everything on its way out of the queue has been through the handler, if the
\* handler was ever to see it.
HandledFirst ==
    /\ (received \cup acks \cup dropped) \cap Deliverable \subseteq handled
    /\ loginIDs \subseteq received
    /\ pc = "login" => loginIDs = received
    /\ pc = "handle" => msg \in Messages
    /\ pc \in {"remember", "ack"} =>
          msg \in Tracked /\ (msg \in Deliverable => msg \in handled)

\* What the handler ran for is recorded, or about to be; what is recorded is
\* not under way, and the server will not send it on this connection.
RecordedOnce ==
    /\ \A m \in Messages :
          calls[m] > 0 => m \in received \/ (pc = "remember" /\ msg = m)
    /\ queue \cup transit \cup received \subseteq published
    /\ transit \cap received = {}
    /\ pc \in {"handle", "remember"} =>
          msg \in published /\ msg \notin transit /\ msg \notin received
    /\ link = "up" =>
          /\ transit \cup (received \cap queue) \subseteq sentHere
          /\ pc \in {"handle", "remember"} => msg \in sentHere

\* What every step keeps: the invariant the proofs use.
DeliveryInv == TypeOK /\ OncePerProcess /\ HandledFirst /\ RecordedOnce

\* Every message that decrypts and has an id reaches the handler in the end.
EveryPushHandled ==
    \A m \in Deliverable : (m \in published) ~> (m \in handled)

\* Every message with an id leaves the server's queue in the end, those included
\* that the client cannot decrypt ("must be acknowledged even when decryption or
\* handling fails").
QueueDrains ==
    \A m \in Tracked : (m \in published) ~> (m \notin queue)

=============================================================================
