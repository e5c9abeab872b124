----------------------------- MODULE NTSession ------------------------------
(***************************************************************************)
(* The life of a connection: WsServer accepts it and lists it, WebSocket   *)
(* runs its closing handshake, and NetworkTableInstance keeps a ClientData *)
(* for it from one clientConnected to one clientDisconnected, under        *)
(* stateMutex.  Every connection has a FreeRTOS task, which is in          *)
(* WsServer::handleRawConnection until the connection is over; pc[c] is    *)
(* where that task stands.  The server's application is one more task.     *)
(*                                                                         *)
(* A handler that needs stateMutex takes it in one step and ends in        *)
(* another, so that other tasks run, wait and give up in between.  close() *)
(* takes no mutex: it sends a close frame in one step and remembers in the *)
(* next that it did, so that the peer's answer may come in between.        *)
(***************************************************************************)
EXTENDS Naturals, FiniteSets

CONSTANTS
  Conn,          \* TCP connections, each used once
  MayRtt,        \* those that may ask for the RTT protocol only
  Capacity,      \* WS_SERVER_MAX_CLIENT_COUNT
  PeerOpens,     \* close frames with which each peer may open the closing handshake
  PeerAnswers,   \* and those with which it may answer the server's
  AppCloses,     \* how often the application may call disconnectClient for each
  MayTimeOut,    \* TRUE iff a wait for stateMutex may reach MUTEX_TIMEOUT
  App,           \* the application's task
  Free           \* no task holds stateMutex

CloseFrame == {"status", "empty"}  \* with a status code, or without payload

ASSUME NTSessionAssumption ==
  /\ IsFiniteSet(Conn) /\ MayRtt \subseteq Conn
  /\ Capacity \in Nat /\ AppCloses \in [Conn -> Nat]
  /\ PeerOpens \in [Conn -> SUBSET CloseFrame]
  /\ PeerAnswers \in [Conn -> SUBSET CloseFrame]
  /\ MayTimeOut \in BOOLEAN
  /\ App \notin Conn /\ Free \notin Conn \cup {App}

VARIABLES
  pc,            \* where the task of each connection stands
  app,           \* what the application's task does: "idle", "work", or the
                 \* connection it closes and the stage it has reached
  wsClients,     \* WsServer::clients
  tcpUp,         \* connections whose TcpClient is connected
  asked,         \* those whose peer was sent a close frame
  sentClose,     \* those whose closeFrameSent is set
  graceful,      \* those whose gracefullyClosed is set
  arriving,      \* what each peer has sent last that was not read yet
  peerClosed,    \* peers that sent their close frame
  appClosed,     \* how often the application closed each connection
  ntClients,     \* NetworkTableInstance::clients, but for the server itself
  mutex,         \* the task that holds stateMutex, or Free
  rtt,           \* connections whose serverProtocol is the RTT protocol
  told,          \* how often clientDisconnected has run for each connection
  gaveUp,        \* history: connections a handler of which gave up on stateMutex
  overtaken      \* history: connections whose task handled a close frame while the
                 \* application's close() had sent one and not set closeFrameSent yet

socket == <<tcpUp, asked, sentClose, graceful, arriving, peerClosed, appClosed>>
history == <<told, gaveUp, overtaken>>
vars == <<pc, app, wsClients, socket, ntClients, mutex, rtt, history>>

Init ==
  /\ pc = [c \in Conn |-> "idle"]
  /\ app = <<"idle">>
  /\ wsClients = {} /\ tcpUp = {} /\ asked = {} /\ sentClose = {} /\ graceful = {}
  /\ arriving = [c \in Conn |-> "nothing"]
  /\ peerClosed = {}
  /\ appClosed = [c \in Conn |-> 0]
  /\ ntClients = {}
  /\ mutex = Free
  /\ rtt = {}
  /\ told = [c \in Conn |-> 0] /\ gaveUp = {} /\ overtaken = {}

Goto(c, from, to) == pc[c] = from /\ pc' = [pc EXCEPT ![c] = to]

-----------------------------------------------------------------------------
(* The peer, and the network between it and the server.                    *)

\* A peer sends one close frame at most, of its own accord or as an answer.
PeerSendsClose(c) ==
  /\ c \in wsClients \cap tcpUp /\ arriving[c] = "nothing" /\ c \notin peerClosed
  /\ \E f \in IF c \in asked THEN PeerAnswers[c] ELSE PeerOpens[c] :
       arriving' = [arriving EXCEPT ![c] = f]
  /\ peerClosed' = peerClosed \cup {c}
  /\ UNCHANGED <<pc, app, wsClients, tcpUp, asked, sentClose, graceful, appClosed,
                 ntClients, mutex, rtt, history>>

\* The connection is interrupted: the next read of the server fails.
PeerDrops(c) ==
  /\ c \in tcpUp /\ arriving[c] = "nothing"
  /\ arriving' = [arriving EXCEPT ![c] = "end"]
  /\ UNCHANGED <<pc, app, wsClients, tcpUp, asked, sentClose, graceful, peerClosed, appClosed,
                 ntClients, mutex, rtt, history>>

-----------------------------------------------------------------------------
(* WsServer::handleRawConnection up to the message loop.                   *)

AcceptConnection(c) ==
  /\ Goto(c, "idle", "handshake")
  /\ tcpUp' = tcpUp \cup {c}
  /\ UNCHANGED <<app, wsClients, asked, sentClose, graceful, arriving, peerClosed,
                 appClosed, ntClients, mutex, rtt, history>>

AtCapacity == Cardinality(wsClients) = Capacity

\* The request is no upgrade, or the server is full: answered and disconnected.
RejectConnection(c) ==
  /\ Goto(c, "handshake", "rejected")
  /\ tcpUp' = tcpUp \ {c}
  /\ UNCHANGED <<app, wsClients, asked, sentClose, graceful, arriving, peerClosed,
                 appClosed, ntClients, mutex, rtt, history>>

AcceptHandshake(c) ==
  /\ ~AtCapacity
  /\ Goto(c, "handshake", "accepted")
  /\ UNCHANGED <<app, wsClients, socket, ntClients, mutex, rtt, history>>

\* clients.push_back, once the protocol is chosen and the response written; the
\* clientConnected handler returns at once for an RTT connection.
ListClient(c) ==
  /\ wsClients' = wsClients \cup {c}
  /\ \/ Goto(c, "accepted", "connecting") /\ UNCHANGED rtt
     \/ c \in MayRtt /\ Goto(c, "accepted", "open") /\ rtt' = rtt \cup {c}
  /\ UNCHANGED <<app, socket, ntClients, mutex, history>>

-----------------------------------------------------------------------------
(* stateMutex.                                                             *)

FaultTakeRegardless(c, from, to) ==
  /\ mutex' = c
  /\ Goto(c, from, to)
  /\ UNCHANGED <<app, wsClients, socket, ntClients, rtt, history>>

Take(c, from, to) ==
  /\ mutex = Free /\ mutex' = c
  /\ Goto(c, from, to)
  /\ UNCHANGED <<app, wsClients, socket, ntClients, rtt, history>>

GiveUp(c, from, to) ==
  /\ MayTimeOut /\ mutex # Free
  /\ Goto(c, from, to)
  /\ gaveUp' = gaveUp \cup {c}
  /\ UNCHANGED <<app, wsClients, socket, ntClients, mutex, rtt, told, overtaken>>

\* The clientConnected handler of NetworkTableInstance.
ConnectedTake(c) == Take(c, "connecting", "registering")
ConnectedGiveUp(c) == GiveUp(c, "connecting", "open")
FaultConnectedKeepsMutex(c) ==
  /\ Goto(c, "registering", "open")
  /\ ntClients' = ntClients \cup {c}
  /\ UNCHANGED <<app, wsClients, socket, mutex, rtt, history>>

Connected(c) ==
  /\ Goto(c, "registering", "open")
  /\ ntClients' = ntClients \cup {c}
  /\ mutex' = Free
  /\ UNCHANGED <<app, wsClients, socket, rtt, history>>

-----------------------------------------------------------------------------
(* WebSocket::enterPollLoop.                                               *)

\* A frame for which a handler asks for the mutex.  A text frame of a connection
\* without ClientData is ignored before that, a value frame of one is not; what an
\* RTT connection sends are the time requests (id -1), answered without the mutex.
ReceiveData(c) ==
  /\ Goto(c, "open", "message")
  /\ c \in tcpUp /\ arriving[c] = "nothing" /\ c \notin rtt
  /\ UNCHANGED <<app, wsClients, socket, ntClients, mutex, rtt, history>>

MessageTake(c) == Take(c, "message", "inMessage")
MessageGiveUp(c) == GiveUp(c, "message", "open")

\* _handleFrame breaks out of a value frame with stateMutex taken when the
\* client is not found.
MessageDone(c) ==
  /\ Goto(c, "inMessage", "open")
  /\ mutex' = IF c \in ntClients THEN Free ELSE mutex
  /\ UNCHANGED <<app, wsClients, socket, ntClients, rtt, history>>

Overtaking(c) == IF app = <<"closing", c>> THEN {c} ELSE {}

\* A close frame while closeFrameSent is not set: close() sends one...
ReceiveFirstClose(c) ==
  /\ Goto(c, "open", "closing")
  /\ c \in tcpUp /\ arriving[c] \in CloseFrame /\ c \notin sentClose
  /\ graceful' = IF arriving[c] = "status" THEN graceful \cup {c} ELSE graceful
  /\ asked' = asked \cup {c}
  /\ arriving' = [arriving EXCEPT ![c] = "nothing"]
  /\ overtaken' = overtaken \cup Overtaking(c)
  /\ UNCHANGED <<app, wsClients, tcpUp, sentClose, peerClosed, appClosed, ntClients,
                 mutex, rtt, told, gaveUp>>

\* ... and sets it.  A frame with a status code also disconnects; without one that
\* is left to the peer.
FirstCloseSent(c) ==
  /\ Goto(c, "closing", IF c \in graceful THEN "disconnecting" ELSE "open")
  /\ sentClose' = sentClose \cup {c}
  /\ UNCHANGED <<app, wsClients, tcpUp, asked, graceful, arriving, peerClosed, appClosed,
                 ntClients, mutex, rtt, history>>
Disconnect(c) ==
  /\ Goto(c, "disconnecting", "open")
  /\ tcpUp' = tcpUp \ {c}
  /\ UNCHANGED <<app, wsClients, asked, sentClose, graceful, arriving, peerClosed,
                 appClosed, ntClients, mutex, rtt, history>>

FaultAnswerNotGraceful(c) ==
  /\ Goto(c, "open", "closeCallback")
  /\ c \in tcpUp /\ arriving[c] \in CloseFrame /\ c \in sentClose
  /\ arriving' = [arriving EXCEPT ![c] = "nothing"]
  /\ told' = [told EXCEPT ![c] = @ + 1]
  /\ UNCHANGED <<app, wsClients, tcpUp, asked, sentClose, graceful, peerClosed, appClosed,
                 ntClients, mutex, rtt, gaveUp, overtaken>>

\* A close frame when closeFrameSent is set: closeCallback, which runs the
\* clientDisconnected handlers, and disconnect().
ReceiveCloseAnswer(c) ==
  /\ Goto(c, "open", "closeCallback")
  /\ c \in tcpUp /\ arriving[c] \in CloseFrame /\ c \in sentClose
  /\ graceful' = IF arriving[c] = "status" THEN graceful \cup {c} ELSE graceful
  /\ arriving' = [arriving EXCEPT ![c] = "nothing"]
  /\ told' = [told EXCEPT ![c] = @ + 1]
  /\ UNCHANGED <<app, wsClients, tcpUp, asked, sentClose, peerClosed, appClosed, ntClients,
                 mutex, rtt, gaveUp, overtaken>>

FaultReadKeepsSocket(c) ==
  /\ pc[c] = "open" /\ c \in tcpUp /\ arriving[c] = "end"
  /\ UNCHANGED vars

\* recv fails.
ReadFails(c) ==
  /\ pc[c] = "open" /\ c \in tcpUp /\ arriving[c] = "end"
  /\ tcpUp' = tcpUp \ {c}
  /\ UNCHANGED <<pc, app, wsClients, asked, sentClose, graceful, arriving, peerClosed,
                 appClosed, ntClients, mutex, rtt, history>>

FaultLeaveSilently(c) ==
  /\ c \notin tcpUp
  /\ Goto(c, "open", "erase")
  /\ UNCHANGED <<app, wsClients, socket, ntClients, mutex, rtt, history>>

\* The loop ends: unless gracefullyClosed, the clientDisconnected handlers run.
LeaveLoop(c) ==
  /\ c \notin tcpUp
  /\ IF c \in graceful
       THEN Goto(c, "open", "erase") /\ UNCHANGED told
       ELSE Goto(c, "open", "loopExit") /\ told' = [told EXCEPT ![c] = @ + 1]
  /\ UNCHANGED <<app, wsClients, socket, ntClients, mutex, rtt, gaveUp, overtaken>>

FaultStaysListed(c) ==
  /\ Goto(c, "erase", "done")
  /\ UNCHANGED <<app, wsClients, socket, ntClients, mutex, rtt, history>>

EraseClient(c) ==
  /\ Goto(c, "erase", "done")
  /\ wsClients' = wsClients \ {c}
  /\ UNCHANGED <<app, socket, ntClients, mutex, rtt, history>>

-----------------------------------------------------------------------------
(* The clientDisconnected handler of NetworkTableInstance, which knows     *)
(* nothing of RTT, and what follows it in close() and after the loop.      *)

FaultClientKept(c) ==
  /\ mutex' = IF c \in ntClients THEN Free ELSE mutex
  /\ UNCHANGED ntClients

\* The client is forgotten and the mutex given; a guid that clients does not
\* hold makes the handler return with the mutex taken.
Forget(c) ==
  /\ ntClients' = ntClients \ {c}
  /\ mutex' = IF c \in ntClients THEN Free ELSE mutex

CallbackTake(c) == Take(c, "closeCallback", "inCloseCallback")
CallbackGiveUp(c) ==
  /\ MayTimeOut /\ mutex # Free
  /\ Goto(c, "closeCallback", "open")
  /\ tcpUp' = tcpUp \ {c} /\ gaveUp' = gaveUp \cup {c}
  /\ UNCHANGED <<app, wsClients, asked, sentClose, graceful, arriving, peerClosed,
                 appClosed, ntClients, mutex, rtt, told, overtaken>>
CallbackDone(c) ==
  /\ Goto(c, "inCloseCallback", "open")
  /\ Forget(c)
  /\ tcpUp' = tcpUp \ {c}
  /\ UNCHANGED <<app, wsClients, asked, sentClose, graceful, arriving, peerClosed, appClosed,
                 rtt, history>>

LoopExitTake(c) == Take(c, "loopExit", "inLoopExit")
LoopExitGiveUp(c) == GiveUp(c, "loopExit", "erase")
LoopExitDone(c) ==
  /\ Goto(c, "inLoopExit", "erase")
  /\ Forget(c)
  /\ UNCHANGED <<app, wsClients, socket, rtt, history>>

-----------------------------------------------------------------------------
(* The application.                                                        *)

\* Any of the hybrid functions (subscribe, publish, updateTopic, flush...).
AppTake ==
  /\ app = <<"idle">> /\ app' = <<"work">>
  /\ mutex = Free /\ mutex' = App
  /\ UNCHANGED <<pc, wsClients, socket, ntClients, rtt, history>>
AppGive ==
  /\ app = <<"work">> /\ app' = <<"idle">>
  /\ mutex' = Free
  /\ UNCHANGED <<pc, wsClients, socket, ntClients, rtt, history>>

\* disconnectClient: a close() that finds closeFrameSent unset sends a close frame
\* and then sets it...
AppCloseFirst(c) ==
  /\ app = <<"idle">> /\ app' = <<"closing", c>>
  /\ c \in wsClients \cap tcpUp /\ c \notin sentClose
  /\ appClosed[c] < AppCloses[c] /\ appClosed' = [appClosed EXCEPT ![c] = @ + 1]
  /\ asked' = asked \cup {c}
  /\ UNCHANGED <<pc, wsClients, tcpUp, sentClose, graceful, arriving, peerClosed, ntClients,
                 mutex, rtt, history>>
AppCloseSent(c) ==
  /\ app = <<"closing", c>> /\ app' = <<"idle">>
  /\ sentClose' = sentClose \cup {c}
  /\ UNCHANGED <<pc, wsClients, tcpUp, asked, graceful, arriving, peerClosed, appClosed,
                 ntClients, mutex, rtt, history>>

\* ... one that finds it set runs the handlers in the application's task and disconnects.
AppCloseAgain(c) ==
  /\ app = <<"idle">> /\ c \in wsClients \cap tcpUp /\ c \in sentClose
  /\ appClosed[c] < AppCloses[c] /\ appClosed' = [appClosed EXCEPT ![c] = @ + 1]
  /\ app' = <<"callback", c>>
  /\ told' = [told EXCEPT ![c] = @ + 1]
  /\ UNCHANGED <<pc, wsClients, tcpUp, asked, sentClose, graceful, arriving, peerClosed,
                 ntClients, mutex, rtt, gaveUp, overtaken>>
AppCallbackTake(c) ==
  /\ app = <<"callback", c>> /\ app' = <<"inCallback", c>>
  /\ mutex = Free /\ mutex' = App
  /\ UNCHANGED <<pc, wsClients, socket, ntClients, rtt, history>>
AppCallbackGiveUp(c) ==
  /\ MayTimeOut /\ mutex # Free
  /\ app = <<"callback", c>> /\ app' = <<"idle">>
  /\ tcpUp' = tcpUp \ {c} /\ gaveUp' = gaveUp \cup {c}
  /\ UNCHANGED <<pc, wsClients, asked, sentClose, graceful, arriving, peerClosed,
                 appClosed, ntClients, mutex, rtt, told, overtaken>>
AppCallbackDone(c) ==
  /\ app = <<"inCallback", c>> /\ app' = <<"idle">>
  /\ Forget(c)
  /\ tcpUp' = tcpUp \ {c}
  /\ UNCHANGED <<pc, wsClients, asked, sentClose, graceful, arriving, peerClosed, appClosed,
                 rtt, history>>

-----------------------------------------------------------------------------
PeerStep(c) == PeerSendsClose(c) \/ PeerDrops(c)

TaskStep(c) ==
  \/ RejectConnection(c) \/ AcceptHandshake(c) \/ ListClient(c)
  \/ ConnectedTake(c) \/ ConnectedGiveUp(c) \/ Connected(c)
  \/ MessageTake(c) \/ MessageGiveUp(c) \/ MessageDone(c)
  \/ ReceiveFirstClose(c) \/ FirstCloseSent(c) \/ Disconnect(c)
  \/ ReceiveCloseAnswer(c) \/ ReadFails(c)
  \/ LeaveLoop(c) \/ EraseClient(c)
  \/ CallbackTake(c) \/ CallbackGiveUp(c) \/ CallbackDone(c)
  \/ LoopExitTake(c) \/ LoopExitGiveUp(c) \/ LoopExitDone(c)

AppStep(c) ==
  \/ AppCloseFirst(c) \/ AppCloseSent(c) \/ AppCloseAgain(c)
  \/ AppCallbackTake(c) \/ AppCallbackGiveUp(c) \/ AppCallbackDone(c)

Next ==
  \/ \E c \in Conn : \/ AcceptConnection(c) \/ ReceiveData(c)
                     \/ PeerStep(c) \/ TaskStep(c) \/ AppStep(c)
  \/ AppTake \/ AppGive

Spec == Init /\ [][Next]_vars

\* The scheduler runs every task that is ready: a connection's task goes on, and
\* so does the application inside stateMutex and inside close().  Peers and the
\* application's calls owe nothing.
Fairness ==
  /\ \A c \in Conn : WF_vars(TaskStep(c))
  /\ WF_vars(AppGive)
  /\ \A c \in Conn : WF_vars(AppCallbackDone(c)) /\ WF_vars(AppCloseSent(c))

FairSpec == Spec /\ Fairness

-----------------------------------------------------------------------------
(* Properties.                                                             *)

Inside == {"registering", "inMessage", "inCloseCallback", "inLoopExit"}
Listed == Inside \cup {"connecting", "open", "message", "closing", "disconnecting",
                  "closeCallback", "loopExit", "erase"}
Stage == Listed \cup {"idle", "handshake", "accepted", "rejected", "done"}

TypeOK ==
  /\ pc \in [Conn -> Stage]
  /\ app \in {<<"idle">>, <<"work">>} \cup ({"closing", "callback", "inCallback"} \X Conn)
  /\ wsClients \subseteq Conn /\ tcpUp \subseteq Conn /\ sentClose \subseteq Conn
  /\ graceful \subseteq Conn /\ peerClosed \subseteq Conn /\ ntClients \subseteq Conn
  /\ rtt \subseteq Conn /\ asked \subseteq Conn
  /\ gaveUp \subseteq Conn /\ overtaken \subseteq Conn
  /\ arriving \in [Conn -> CloseFrame \cup {"nothing", "end"}]
  /\ appClosed \in [Conn -> Nat] /\ told \in [Conn -> Nat]
  /\ mutex \in Conn \cup {App, Free}

\* Task t is between taking stateMutex and the end of its handler.
InSection(t) ==
  \/ t \in Conn /\ pc[t] \in Inside
  \/ t = App /\ app[1] \in {"work", "inCallback"}

\* A connection that does what the code expects of one: it speaks the NT
\* protocol, leaves the closing handshake to the server, answers it with a status
\* code, and the application closes it once at most.
WellBehaved(c) ==
  /\ c \notin MayRtt
  /\ PeerOpens[c] = {} /\ PeerAnswers[c] \subseteq {"status"}
  /\ AppCloses[c] <= 1

\* ntinstance.h:161, the mutex "to prevent multithreaded internal state access":
\* whoever is in a handler holds it, so no two tasks are, also while others wait,
\* give up and leave it taken behind them.
HandlersExclusive == \A t \in Conn \cup {App} : InSection(t) => mutex = t

\* WsServer::clients lists a connection from push_back to the end of its task.
ListedExactly == wsClients = {c \in Conn : pc[c] \in Listed}

\* A connection that ends without having been closed gracefully is reported.
AbnormalEndReported ==
  \A c \in Conn : pc[c] = "done" => told[c] > 0 \/ c \in graceful

\* However a well-behaved connection ends (its peer drops it at any point, the
\* server closes it, or both at once) clientDisconnected runs for it exactly once,
\* whatever the other connections do; but not at all when the peer's answer
\* overtakes the application's task between its close frame and closeFrameSent.
ToldOnce ==
  \A c \in Conn : WellBehaved(c) =>
    /\ told[c] <= 1
    /\ pc[c] = "done" => told[c] = (IF c \in overtaken THEN 0 ELSE 1)

\* Once its task is over nothing is left of a well-behaved connection that was not
\* overtaken and none of whose handlers gave up on the mutex.
NoGhostClient ==
  \A c \in Conn : WellBehaved(c) /\ c \notin gaveUp \cup overtaken /\ pc[c] = "done" =>
    c \notin ntClients

\* A well-behaved connection never leaves a handler with the mutex taken, unless one
\* gave up on it: being overtaken does no harm here.
MutexGivenBack ==
  \A c \in Conn : WellBehaved(c) /\ c \notin gaveUp /\ mutex = c => pc[c] \in Inside

\* A connection its peer dropped comes to its end, whatever became of the mutex:
\* every wait for it is bounded.
DroppedConnectionEnds ==
  \A c \in Conn : arriving[c] = "end" ~> pc[c] \in {"done", "rejected"}

\* wsserver.h:124, clientDisconnected is "called whenever a close frame is received
\* or connection is interrupted": of any connection, at its end, once at least.
EveryEndReported == \A c \in Conn : pc[c] = "done" => told[c] > 0

\* stateMutex is held by a task that is in a handler, or by none.
MutexNeverLeaks == mutex # Free => InSection(mutex)

=============================================================================
