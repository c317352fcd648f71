------------------------------ MODULE MCSClient ------------------------------
(***************************************************************************)
(* The push client's connection life cycle (fcm/push.go): the goroutine    *)
(* that executes Run, hence Connect, Listen, sendMsg and readMsg; the      *)
(* watcher goroutine each Listen starts; callers of Close; and the owner   *)
(* of the context Run was given.  They share the fields mu guards.         *)
(*                                                                         *)
(* A step is one critical section of mu, one blocking call (dial, Read,    *)
(* Write) or one test of a context.  mu is a variable because sendMsg      *)
(* keeps it over a blocking Write; every other critical section is         *)
(* instantaneous and only asks that mu be free.                            *)
(*                                                                         *)
(* Connection attempts are numbered.  An attempt names the context Connect *)
(* derived for it and the socket it dialed; an attempt whose dial failed   *)
(* left neither a socket nor a watcher, so the next one takes its number.  *)
(***************************************************************************)
EXTENDS Naturals

CONSTANTS
    MaxConns,   \* bound: successful dials
    MaxCloses,  \* bound: calls of Close by the program
    PeerReads   \* whether a peer that stopped reading reads again some day

ASSUME BoundsAssumption ==
    MaxConns \in Nat \ {0} /\ MaxCloses \in Nat /\ PeerReads \in BOOLEAN

None     == 0
Attempts == 1..(MaxConns + 1)

\* What readMsg can hand back.  "Other" stands for the messages Listen only
\* logs, "Close" for the two that end the stream, "NoID" for a data message
\* without persistent id.
Messages == {"LoginResponse", "HeartbeatPing", "DataMessage", "NoID",
             "Close", "Other"}
Errors   == {"timeout", "broken"}
Results  == [tag: Messages \cup Errors \cup {"none"}, wrapped: BOOLEAN]

Received(m)  == [tag |-> m, wrapped |-> FALSE]
\* Every error return of readMsg after the first is an fmt.Errorf("...: %w").
ReadError(e) == [tag |-> e, wrapped |-> TRUE]

\* err.(net.Error) with Timeout(): a type assertion, which does not look
\* inside a wrapped error.
IsNetTimeout(r) == r.tag = "timeout" /\ ~r.wrapped

VARIABLES
    \* fields of MCSClient
    mu, conn, ctx, cancel, firstMessage,
    \* the goroutine in Run: control, Connect or Listen, locals of readMsg
    pc, phase, rconn, isFirst, res,
    \* watcher goroutines and the stopWatch channels that were closed
    watcher, stopped,
    \* contexts: Run's argument, and the attempts whose cancel was called
    rootDone, cancelled,
    \* sockets; those whose peer does not read; those a frame crossed
    sock, stalled, sentOn, recvOn,
    \* calls of Close by the program
    closes

fields   == <<mu, conn, ctx, cancel, firstMessage>>
locals   == <<phase, rconn, isFirst, res>>
watchers == <<watcher, stopped>>
contexts == <<rootDone, cancelled>>
wire     == <<stalled, sentOn, recvOn>>
vars     == <<fields, pc, locals, watchers, contexts, sock, wire, closes>>

PCs == {"connect", "dial", "install", "deadline", "sendLock", "writing",
        "readConn", "readFirst", "reading", "result", "connClose",
        "connectErr", "listen", "loop", "listenConn", "stopWatch",
        "listenClose", "backoff", "returned"}

TypeOK ==
    /\ mu \in {"free", "runner"}
    /\ conn \in Attempts \cup {None}
    /\ ctx \in Attempts \cup {None}
    /\ cancel \in Attempts \cup {None}
    /\ firstMessage \in BOOLEAN
    /\ pc \in PCs
    /\ phase \in {"connect", "listen"}
    /\ rconn \in Attempts \cup {None}
    /\ isFirst \in BOOLEAN
    /\ res \in Results
    /\ watcher \in [Attempts -> {"none", "select", "closing", "done"}]
    /\ stopped \in SUBSET Attempts
    /\ rootDone \in BOOLEAN
    /\ cancelled \in SUBSET Attempts
    /\ sock \in [Attempts -> {"none", "open", "closed"}]
    /\ stalled \in SUBSET Attempts
    /\ sentOn \in SUBSET Attempts
    /\ recvOn \in SUBSET Attempts
    /\ closes \in 0..MaxCloses

Init ==
    /\ mu = "free" /\ conn = None /\ ctx = None /\ cancel = None
    /\ firstMessage = FALSE
    /\ pc = "connect" /\ phase = "connect"
    /\ rconn = None /\ isFirst = FALSE /\ res = Received("none")
    /\ watcher = [k \in Attempts |-> "none"] /\ stopped = {}
    /\ rootDone = FALSE /\ cancelled = {}
    /\ sock = [k \in Attempts |-> "none"]
    /\ stalled = {} /\ sentOn = {} /\ recvOn = {}
    /\ closes = 0

CtxDone(k) == rootDone \/ k \in cancelled

\* Mutated form: the early return for "no connection" forgets to unlock mu.
CloseConnKeepsLock ==
    /\ mu = "free"
    /\ mu' = IF conn = None THEN "runner" ELSE "free"
    /\ cancelled' = cancelled \cup ({cancel} \ {None})
    /\ cancel' = None
    /\ sock' = [k \in Attempts |-> IF k = conn THEN "closed" ELSE sock[k]]
    /\ conn' = None
    /\ UNCHANGED <<ctx, firstMessage, rootDone>>

\* What Close does once it has mu.
CloseConn ==
    /\ mu = "free"
    /\ cancelled' = cancelled \cup ({cancel} \ {None})
    /\ cancel' = None
    /\ sock' = [k \in Attempts |-> IF k = conn THEN "closed" ELSE sock[k]]
    /\ conn' = None
    /\ UNCHANGED <<mu, ctx, firstMessage, rootDone>>

-----------------------------------------------------------------------------
(* Connect *)

NextAttempt == IF ctx # None /\ sock[ctx] = "none" THEN ctx ELSE ctx + 1

\* The derived context replaces the one before, whether or not its cancel
\* was ever called.
ConnectBegin ==
    /\ pc = "connect" /\ mu = "free"
    /\ ctx' = NextAttempt
    /\ cancel' = NextAttempt
    /\ cancelled' = cancelled \ {NextAttempt}
    /\ firstMessage' = TRUE
    /\ phase' = "connect"
    /\ pc' = "dial"
    /\ UNCHANGED <<mu, conn, rconn, isFirst, res, watchers, rootDone, sock,
                   wire, closes>>

\* Dial and TLS handshake, both under the context given to Run.
DialOk ==
    /\ pc = "dial" /\ ~rootDone
    /\ ctx <= MaxConns
    /\ sock' = [sock EXCEPT ![ctx] = "open"]
    /\ pc' = "install"
    /\ UNCHANGED <<fields, locals, watchers, contexts, wire, closes>>

\* Connect returns without Close: c.cancel stays behind.
DialFail ==
    /\ pc = "dial"
    /\ pc' = "connectErr"
    /\ UNCHANGED <<fields, locals, watchers, contexts, sock, wire, closes>>

Install ==
    /\ pc = "install" /\ mu = "free"
    /\ conn' = ctx
    /\ pc' = "deadline"
    /\ UNCHANGED <<mu, ctx, cancel, firstMessage, locals, watchers, contexts,
                   sock, wire, closes>>

\* SetReadDeadline fails only on a socket somebody closed.
LoginDeadline ==
    /\ pc = "deadline"
    /\ pc' = IF sock[ctx] = "open" THEN "sendLock" ELSE "connClose"
    /\ UNCHANGED <<fields, locals, watchers, contexts, sock, wire, closes>>

LoginResult ==
    /\ pc = "result" /\ phase = "connect"
    /\ pc' = IF res.tag = "LoginResponse" THEN "listen" ELSE "connClose"
    /\ UNCHANGED <<fields, locals, watchers, contexts, sock, wire, closes>>

ConnectClose ==
    /\ pc = "connClose"
    /\ CloseConn
    /\ pc' = "connectErr"
    /\ UNCHANGED <<locals, watchers, wire, closes>>

-----------------------------------------------------------------------------
(* sendMsg and readMsg, called by Connect for the login and by Listen *)

\* Mutated form: Connect's error returns without c.Close().
FailedWithoutClose == IF phase = "connect" THEN "connectErr" ELSE "stopWatch"

\* Where the caller goes when a call fails: c.Close() in Connect, the
\* deferred calls in Listen.
Failed == IF phase = "connect" THEN "connClose" ELSE "stopWatch"

\* Mutated form: no test for a connection closed in the meantime.
SendLockUnchecked ==
    /\ pc = "sendLock" /\ mu = "free"
    /\ mu' = "runner" /\ pc' = "writing"
    /\ UNCHANGED <<conn, ctx, cancel, firstMessage, locals, watchers,
                   contexts, sock, wire, closes>>

SendLock ==
    /\ pc = "sendLock" /\ mu = "free"
    /\ IF conn = None
       THEN mu' = mu /\ pc' = Failed
       ELSE mu' = "runner" /\ pc' = "writing"
    /\ UNCHANGED <<conn, ctx, cancel, firstMessage, locals, watchers,
                   contexts, sock, wire, closes>>

\* Write returns, with the frame sent or with an error; not while the peer
\* is stalled, for the connection has no write deadline.
WriteOk ==
    /\ pc = "writing" /\ conn \notin stalled
    /\ sentOn' = sentOn \cup {conn}
    /\ mu' = "free"
    /\ pc' = IF phase = "connect" THEN "readConn" ELSE "loop"
    /\ UNCHANGED <<conn, ctx, cancel, firstMessage, locals, watchers,
                   contexts, sock, stalled, recvOn, closes>>

\* Mutated form: the error return does not unlock mu.
WriteFailKeepsLock ==
    /\ pc = "writing" /\ conn \notin stalled
    /\ pc' = Failed
    /\ UNCHANGED <<fields, locals, watchers, contexts, sock, wire, closes>>

WriteFail ==
    /\ pc = "writing" /\ conn \notin stalled
    /\ mu' = "free"
    /\ pc' = Failed
    /\ UNCHANGED <<conn, ctx, cancel, firstMessage, locals, watchers,
                   contexts, sock, wire, closes>>

ReadConn ==
    /\ pc = "readConn" /\ mu = "free"
    /\ rconn' = conn
    /\ pc' = IF conn = None THEN Failed ELSE "readFirst"
    /\ UNCHANGED <<fields, phase, isFirst, res, watchers, contexts, sock,
                   wire, closes>>

\* Mutated form: the flag is read and not cleared.
ReadFirstKeepsFlag ==
    /\ pc = "readFirst" /\ mu = "free"
    /\ isFirst' = firstMessage
    /\ pc' = "reading"
    /\ UNCHANGED <<fields, phase, rconn, res, watchers, contexts, sock, wire,
                   closes>>

ReadFirst ==
    /\ pc = "readFirst" /\ mu = "free"
    /\ isFirst' = firstMessage
    /\ firstMessage' = FALSE
    /\ pc' = "reading"
    /\ UNCHANGED <<mu, conn, ctx, cancel, phase, rconn, res, watchers,
                   contexts, sock, wire, closes>>

\* Read on the local copy of conn.  Data the TLS layer has already decrypted
\* is still returned after a concurrent Close.
ReadOk ==
    /\ pc = "reading"
    /\ \E m \in Messages : res' = Received(m)
    /\ recvOn' = recvOn \cup {rconn}
    /\ pc' = "result"
    /\ UNCHANGED <<fields, phase, rconn, isFirst, watchers, contexts, sock,
                   stalled, sentOn, closes>>

\* The read deadline expired, the connection broke, or the bytes are not a
\* message of the protocol.
ReadFail ==
    /\ pc = "reading"
    /\ \E e \in Errors : res' = ReadError(e)
    /\ pc' = "result"
    /\ UNCHANGED <<fields, phase, rconn, isFirst, watchers, contexts, sock,
                   wire, closes>>

-----------------------------------------------------------------------------
(* Listen and Run *)

ListenBegin ==
    /\ pc = "listen" /\ mu = "free"
    /\ phase' = "listen"
    /\ IF conn = None
       THEN pc' = "listenClose" /\ watcher' = watcher
       ELSE pc' = "loop" /\ watcher' = [watcher EXCEPT ![ctx] = "select"]
    /\ UNCHANGED <<fields, rconn, isFirst, res, stopped, contexts, sock, wire,
                   closes>>

LoopTop ==
    /\ pc = "loop"
    /\ pc' = IF CtxDone(ctx) THEN "stopWatch" ELSE "listenConn"
    /\ UNCHANGED <<fields, locals, watchers, contexts, sock, wire, closes>>

\* A SetReadDeadline that fails because the socket was closed right after
\* currentConn ends as ReadConn does when it finds no connection.
ListenConn ==
    /\ pc = "listenConn" /\ mu = "free"
    /\ pc' = IF conn = None THEN "stopWatch" ELSE "readConn"
    /\ UNCHANGED <<fields, locals, watchers, contexts, sock, wire, closes>>

\* The error branch after readMsg: a ping on a timeout, otherwise the end.
ListenError ==
    /\ pc = "result" /\ phase = "listen" /\ res.tag \in Errors
    /\ pc' = IF IsNetTimeout(res) THEN "sendLock" ELSE "stopWatch"
    /\ UNCHANGED <<fields, locals, watchers, contexts, sock, wire, closes>>

\* The message switch: a ping and a data message are answered with a frame.
ListenMessage ==
    /\ pc = "result" /\ phase = "listen" /\ res.tag \in Messages
    /\ pc' = CASE res.tag \in {"HeartbeatPing", "DataMessage"} -> "sendLock"
               [] res.tag = "Close" -> "stopWatch"
               [] OTHER -> "loop"
    /\ UNCHANGED <<fields, locals, watchers, contexts, sock, wire, closes>>

\* The deferred calls run in reverse order: close(stopWatch), then Close.
StopWatch ==
    /\ pc = "stopWatch"
    /\ stopped' = stopped \cup {ctx}
    /\ pc' = "listenClose"
    /\ UNCHANGED <<fields, locals, watcher, contexts, sock, wire, closes>>

ListenClose ==
    /\ pc = "listenClose"
    /\ CloseConn
    /\ pc' = "backoff"
    /\ UNCHANGED <<locals, watchers, wire, closes>>

ConnectError ==
    /\ pc = "connectErr"
    /\ pc' = IF rootDone THEN "returned" ELSE "backoff"
    /\ UNCHANGED <<fields, locals, watchers, contexts, sock, wire, closes>>

\* select on the context and the backoff timer: either may be taken when both
\* are ready.
RunReturn ==
    /\ pc = "backoff" /\ rootDone
    /\ pc' = "returned"
    /\ UNCHANGED <<fields, locals, watchers, contexts, sock, wire, closes>>

Retry ==
    /\ pc = "backoff"
    /\ pc' = "connect"
    /\ UNCHANGED <<fields, locals, watchers, contexts, sock, wire, closes>>

-----------------------------------------------------------------------------
(* The watcher goroutine of attempt k, other callers, and the peer *)

WatchDone(k) ==
    /\ watcher[k] = "select" /\ CtxDone(k)
    /\ watcher' = [watcher EXCEPT ![k] = "closing"]
    /\ UNCHANGED <<fields, pc, locals, stopped, contexts, sock, wire, closes>>

WatchStop(k) ==
    /\ watcher[k] = "select" /\ k \in stopped
    /\ watcher' = [watcher EXCEPT ![k] = "done"]
    /\ UNCHANGED <<fields, pc, locals, stopped, contexts, sock, wire, closes>>

WatchClose(k) ==
    /\ watcher[k] = "closing"
    /\ CloseConn
    /\ watcher' = [watcher EXCEPT ![k] = "done"]
    /\ UNCHANGED <<pc, locals, stopped, wire, closes>>

UserClose ==
    /\ closes < MaxCloses
    /\ CloseConn
    /\ closes' = closes + 1
    /\ UNCHANGED <<pc, locals, watchers, wire>>

CancelRoot ==
    /\ ~rootDone
    /\ rootDone' = TRUE
    /\ UNCHANGED <<fields, pc, locals, watchers, cancelled, sock, wire, closes>>

\* The kernel's send buffer takes the login frame whatever the peer does.
PeerStalls(k) ==
    /\ sock[k] = "open" /\ k \in sentOn /\ k \notin stalled
    /\ stalled' = stalled \cup {k}
    /\ UNCHANGED <<fields, pc, locals, watchers, contexts, sock, sentOn,
                   recvOn, closes>>

PeerResumes(k) ==
    /\ k \in stalled
    /\ stalled' = stalled \ {k}
    /\ UNCHANGED <<fields, pc, locals, watchers, contexts, sock, sentOn,
                   recvOn, closes>>

-----------------------------------------------------------------------------
\* Nothing happens any more: Run returned and the program is done with it.
Terminated ==
    /\ pc = "returned"
    /\ UNCHANGED vars

Runner ==
    \/ ConnectBegin \/ DialOk \/ DialFail \/ Install \/ LoginDeadline
    \/ LoginResult \/ ConnectClose
    \/ SendLock \/ WriteOk \/ WriteFail
    \/ ReadConn \/ ReadFirst \/ ReadOk \/ ReadFail
    \/ ListenBegin \/ LoopTop \/ ListenConn \/ ListenError \/ ListenMessage
    \/ StopWatch \/ ListenClose \/ ConnectError \/ RunReturn \/ Retry

Next ==
    \/ Runner
    \/ \E k \in Attempts : WatchDone(k) \/ WatchStop(k) \/ WatchClose(k)
    \/ UserClose
    \/ CancelRoot
    \/ \E k \in Attempts : PeerStalls(k) \/ PeerResumes(k)
    \/ Terminated

\* A goroutine that can go on does.  Reads have a deadline, backoff a timer.
\* The dial has one too, but the TLS handshake only ends for certain when
\* Run's context does.  sync.Mutex hands itself to a waiter that starves, so
\* a watcher's Close is strongly fair, and so is a Write whose peer reads now
\* and then.  The peer owes nothing, except to read again if PeerReads.
Fairness ==
    /\ WF_vars(Runner /\ pc # "dial")
    /\ SF_vars(WriteOk \/ WriteFail)
    /\ \A k \in IF PeerReads THEN Attempts ELSE {} : WF_vars(PeerResumes(k))
    /\ WF_vars(DialFail /\ rootDone)
    /\ \A k \in Attempts : /\ WF_vars(WatchDone(k) \/ WatchStop(k))
                           /\ SF_vars(WatchClose(k))

Spec == Init /\ [][Next]_vars /\ Fairness

-----------------------------------------------------------------------------
(* Properties *)

\* Outside a session, from the first step of Connect until it installs the
\* socket and again once Connect failed or Listen returned, no connection is
\* left in c.conn.
Idle == {"connect", "dial", "install", "connectErr", "backoff", "returned"}

\* Every socket the client has open is either c.conn, which Close reaches, or
\* the one Connect has dialed and is about to store there; c.conn is never a
\* closed socket; and between sessions nothing is open.  Each failing path of
\* Connect and Listen, and each Close that races them, has to keep this, or
\* the socket can never be closed again (Connect, Listen, Close).
NoSocketLeak ==
    /\ conn # None => sock[conn] = "open"
    /\ \A k \in Attempts :
          sock[k] = "open" => k = conn \/ (k = ctx /\ pc = "install")
    /\ pc \in Idle => conn = None

\* On every connection the version byte goes out with the first frame and no
\* other, and is expected in front of the first message and no other, although
\* one flag, reset by Connect and cleared by the first read, decides both
\* (sendMsg, readMsg), and Close may strike at any point in between.
VersionByteOnce ==
    /\ pc = "writing" => (firstMessage <=> conn \notin sentOn)
    /\ pc = "reading" => (isFirst <=> rconn \notin recvOn)

\* The inductive strengthening of NoSocketLeak and VersionByteOnce.
\* Attempts are numbered in order, and the current one is ctx.
Numbering ==
    /\ pc # "connect" => ctx # None
    /\ pc = "dial" => sock[ctx] = "none"
    /\ pc \notin {"connect", "dial", "connectErr", "backoff", "returned"} =>
          sock[ctx] # "none"
    /\ \A k \in Attempts : sock[k] # "none" => k <= ctx /\ k <= MaxConns
    /\ conn # None => conn = ctx
    /\ pc = "install" => sock[ctx] = "open"

\* Only the goroutine in Run keeps mu over a step, and only while it writes.
Locking ==
    /\ mu = "runner" <=> pc = "writing"
    /\ pc = "writing" => conn # None

Phases ==
    /\ pc \in {"dial", "install", "deadline", "connClose", "connectErr",
               "listen"} => phase = "connect"
    /\ pc \in {"loop", "listenConn", "stopWatch", "listenClose"} =>
          phase = "listen"

\* How far the exchange of first frames of the current attempt has come.
Framing ==
    /\ \A k \in Attempts : sock[k] = "none" => k \notin sentOn /\ k \notin recvOn
    /\ phase = "connect" /\ pc \in {"dial", "install", "deadline", "sendLock",
                                    "writing"} =>
          firstMessage /\ ctx \notin sentOn
    /\ phase = "connect" /\ pc \in {"dial", "install", "deadline", "sendLock",
                                    "writing", "readConn", "readFirst"} =>
          firstMessage /\ ctx \notin recvOn
    /\ phase = "connect" /\ pc \in {"readConn", "readFirst", "reading",
                                    "result", "listen"} =>
          ctx \in sentOn
    /\ phase = "connect" /\ pc = "reading" => isFirst /\ ctx \notin recvOn
    /\ phase = "connect" /\ pc \in {"reading", "result", "listen"} =>
          ~firstMessage
    /\ phase = "connect" /\ pc = "result" =>
          (res.tag \in Messages => ctx \in recvOn)
    /\ pc = "listen" => ctx \in recvOn
    /\ phase = "listen" => ~firstMessage /\ ctx \in sentOn /\ ctx \in recvOn
    /\ phase = "listen" /\ pc = "reading" => ~isFirst
    /\ pc \in {"readFirst", "reading"} => rconn = ctx

\* What every step keeps: the invariant the proofs use.
IInv == TypeOK /\ NoSocketLeak /\ Numbering /\ Locking /\ Phases /\ Framing

\* Once the context given to Run is cancelled, Run returns, wherever the
\* cancellation finds it (Run, Connect, Listen).
CancelEndsRun == rootDone ~> (pc = "returned")

\* A session ends when its connection does, whoever closed it: the goroutine in
\* Run is out of Connect and Listen or already at a later attempt (Listen's
\* comment; TestListenCloseConcurrent).
CloseEndsSession ==
    \A k \in Attempts : (sock[k] = "closed") ~> (ctx # k \/ pc \in Idle)

\* The watcher goroutine of a connection does not outlive it for ever: none is
\* left waiting on a stopWatch nobody closes (Listen's watcher).
NoWatcherLeak ==
    \A k \in Attempts :
       (sock[k] = "closed") ~> [](watcher[k] \notin {"select", "closing"})

\* A connection whose context was cancelled does not stay open: a Close that
\* came before Connect stored the socket still takes effect, through the loop's
\* test of the context and the watcher (Close, Connect, Listen).
CancelledConnCloses ==
    \A k \in Attempts :
       (k \in cancelled /\ sock[k] = "open") ~> (sock[k] = "closed")

\* The watcher closes the connection of the Listen that started it, never one
\* of a later session (comment in Listen: "close the connection when the context
\* is done to unblock it").
WatcherClosesOwnConn ==
    [][\A k \in Attempts :
          watcher[k] = "closing" /\ watcher'[k] = "done" => conn \in {None, k}]_vars

\* While listening, a read that times out on an idle connection is answered with
\* a heartbeat and does not end the session (the branch after readMsg in Listen;
\* "manages a persistent MCS connection").
IdleTimeoutPings ==
    [][pc = "result" /\ phase = "listen" /\ res.tag = "timeout" /\ pc' # pc
          => pc' = "sendLock"]_vars

=============================================================================
