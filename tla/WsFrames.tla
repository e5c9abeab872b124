------------------------------ MODULE WsFrames ------------------------------
(***************************************************************************)
(* Data over a WebSocket (src/src/websocket.cpp) whose two ends are both   *)
(* of this library: send() cuts a message into frames that fit a packet,   *)
(* and handleFrame puts them together again in currentFrame.               *)
(*                                                                         *)
(* Several tasks send over one socket.  sendMutex is held for one frame at *)
(* a time, so the frames of other tasks may come between those of a        *)
(* message.  The tasks that flush a client's caches hold stateMutex for    *)
(* whole messages; the answer to a timestamp (ntinstance.cpp:1011), the    *)
(* dispatch queue and other callers of WsServer::send hold nothing.        *)
(*                                                                         *)
(* The close frames are in NTSession.                                      *)
(***************************************************************************)
EXTENDS Naturals, FiniteSets, SequencesExt

CONSTANTS
  Sender,        \* the tasks that send
  Program,       \* the messages each of them sends, in order
  Size,          \* the bytes of each message
  Room,          \* the bytes of payload that fit WEBSOCKET_MAX_PACKET_SIZE
  Locked,        \* those of them that hold stateMutex for a whole message
  MayTimeOut,    \* TRUE iff the wait for sendMutex may be too long
  MayTear,       \* TRUE iff recv may return a part of what it is asked for
  MaxPings,      \* bound: pings sent
  Garbled        \* stands for bytes that are no message

MessagesOf(s) == ToSet(Program[s])
Message == UNION {MessagesOf(s) : s \in Sender}

ASSUME WsFramesAssumption ==
  /\ Room \in Nat \ {0} /\ MaxPings \in Nat
  /\ \A s \in Sender : Program[s] \in Seq(Message) /\ IsInjective(Program[s])
  /\ \A s, t \in Sender : s # t => MessagesOf(s) \cap MessagesOf(t) = {}
  /\ \A m \in Message : Size[m] \in Nat \ {0}
  /\ Garbled \notin Message
  /\ Locked \subseteq Sender /\ {MayTimeOut, MayTear} \subseteq BOOLEAN

VARIABLES
  cursor,        \* the message each sender is at
  left,          \* bytesLeft of the message it is in the middle of, or 0
  mixed,         \* history: a message was begun between the frames of another's
  wire,          \* frames written and not yet read
  up,            \* the receiving end has not disconnected
  pings,         \* pings sent
  inStep,        \* the next read of a header starts where a frame does
  held,          \* currentFrame.payload
  freed,         \* TRUE iff that memory was freed
  undefined,     \* TRUE iff handleFrame has read it all the same
  delivered,     \* the payloads given to receivedCallback as whole messages
  failed         \* history: the messages whose send returned false

sending == <<cursor, left, mixed, failed>>
receiving == <<inStep, held, freed, undefined, delivered>>
vars == <<sending, wire, up, pings, receiving>>

Init ==
  /\ cursor = [s \in Sender |-> 1] /\ left = [s \in Sender |-> 0] /\ failed = {}
  /\ mixed = FALSE /\ inStep = TRUE
  /\ wire = <<>> /\ up = TRUE /\ pings = 0
  /\ held = <<>> /\ freed = FALSE /\ undefined = FALSE /\ delivered = <<>>

-----------------------------------------------------------------------------
(* WebSocket::send.                                                        *)

Data(m) == [i \in 1..Size[m] |-> <<m, i>>]

Sending(s) == cursor[s] \in DOMAIN Program[s]
Current(s) == Program[s][cursor[s]]
Beginning(s) == SubSeq(Data(Current(s)), 1, Room)
Remaining(s) == SubSeq(Data(Current(s)), Size[Current(s)] - left[s] + 1, Size[Current(s)])
MayBegin(s) ==
  Sending(s) /\ left[s] = 0 /\ (s \in Locked => \A t \in Locked : left[t] = 0)
Mix(s) == mixed' = (mixed \/ \E t \in Sender \ {s} : left[t] > 0)

\* sendFrame: the frame is written as a whole under sendMutex.  TCP may take it
\* and lose it when the other end is gone.
Write(fin, op, payload) ==
  /\ wire' = IF up THEN Append(wire, [fin |-> fin, op |-> op, payload |-> payload]) ELSE wire
  /\ UNCHANGED <<up, receiving>>

\* send() returns.
Return(s) == cursor' = [cursor EXCEPT ![s] = @ + 1] /\ left' = [left EXCEPT ![s] = 0]

\* It fits a single packet.
WholeMessage(s) ==
  /\ MayBegin(s) /\ Size[Current(s)] <= Room
  /\ Write(TRUE, "data", Data(Current(s)))
  /\ Return(s) /\ Mix(s)
  /\ UNCHANGED <<pings, failed>>

FaultFirstContinues(s) ==
  /\ MayBegin(s) /\ Size[Current(s)] > Room
  /\ Write(FALSE, "cont", Beginning(s))
  /\ left' = [left EXCEPT ![s] = Size[Current(s)] - Room] /\ Mix(s)
  /\ UNCHANGED <<cursor, pings, failed>>

FirstFragment(s) ==
  /\ MayBegin(s) /\ Size[Current(s)] > Room
  /\ Write(FALSE, "data", Beginning(s))
  /\ left' = [left EXCEPT ![s] = Size[Current(s)] - Room] /\ Mix(s)
  /\ UNCHANGED <<cursor, pings, failed>>

\* The payload is taken from the start of the data.
MiddleFragment(s) ==
  /\ left[s] > Room
  /\ Write(FALSE, "cont", Beginning(s))
  /\ left' = [left EXCEPT ![s] = @ - Room]
  /\ UNCHANGED <<cursor, mixed, pings, failed>>

FaultNeverFinal(s) ==
  /\ left[s] \in 1..Room
  /\ Write(FALSE, "cont", Remaining(s))
  /\ Return(s)
  /\ UNCHANGED <<mixed, pings, failed>>

\* The final fragment or the bytes left over.
LastFragment(s) ==
  /\ left[s] \in 1..Room
  /\ Write(TRUE, "cont", Remaining(s))
  /\ Return(s)
  /\ UNCHANGED <<mixed, pings, failed>>

\* sendMutex is not free in time or the connection is gone, at any of the frames.
SendFails(s) ==
  /\ MayBegin(s) \/ left[s] > 0
  /\ MayTimeOut \/ ~up
  /\ Return(s)
  /\ failed' = failed \cup {Current(s)}
  /\ UNCHANGED <<mixed, wire, up, pings, receiving>>

\* ping(), from any task: a control frame may come between two fragments.
Ping ==
  /\ pings < MaxPings /\ pings' = pings + 1
  /\ Write(TRUE, "ping", <<>>)
  /\ UNCHANGED sending

-----------------------------------------------------------------------------
(* WebSocket::enterPollLoop, parseFrameHeader and handleFrame at the other *)
(* end.                                                                    *)

Arriving == up /\ ~undefined /\ wire # <<>>

Read(fin, op) ==
  /\ Arriving /\ inStep
  /\ Head(wire).fin = fin /\ Head(wire).op = op
  /\ wire' = Tail(wire)
  /\ UNCHANGED <<up, pings, sending, inStep>>

Payload == Head(wire).payload

\* The first fragment in series: what currentFrame held before is lost.
Begin(payload) ==
  held' = payload /\ freed' = FALSE /\ UNCHANGED <<undefined, delivered>>

Continue(payload) ==
  /\ held' = held \o payload /\ freed' = FALSE /\ undefined' = freed
  /\ UNCHANGED delivered

FaultEndAlone(payload) ==
  /\ held' = held \o payload /\ freed' = TRUE /\ undefined' = freed
  /\ delivered' = Append(delivered, payload)

\* The last fragment: the message is handed on and its memory freed.
End(payload) ==
  /\ held' = held \o payload /\ freed' = TRUE /\ undefined' = freed
  /\ delivered' = Append(delivered, held \o payload)

\* A message in one frame: parseFrameHeader frees the payload afterwards.
Whole(payload) ==
  /\ held' = payload /\ freed' = TRUE
  /\ delivered' = Append(delivered, payload)
  /\ UNCHANGED undefined

ReceiveFirst == Read(FALSE, "data") /\ Begin(Payload)
ReceiveMiddle == Read(FALSE, "cont") /\ Continue(Payload)
ReceiveLast == Read(TRUE, "cont") /\ End(Payload)
ReceiveWhole == Read(TRUE, "data") /\ Whole(Payload)

\* Answered with a pong, which travels the other way.
ReceivePing == Read(TRUE, "ping") /\ UNCHANGED receiving

\* recv returns a part of the payload: parseFrameHeader disconnects.
ReceiveShort ==
  /\ MayTear /\ Arriving /\ Payload # <<>>
  /\ up' = FALSE /\ wire' = <<>>
  /\ UNCHANGED <<sending, pings, receiving>>

\* recv returns one byte of a header: it is dropped, and the loop goes on.
TearHeader ==
  /\ MayTear /\ Arriving /\ inStep
  /\ inStep' = FALSE
  /\ UNCHANGED <<sending, wire, up, pings, held, freed, undefined, delivered>>

\* From then on a header, its length and its payload are whatever bytes come: a
\* frame of any kind, or none and the end of the connection.
Noise == << <<Garbled, 1>> >>
Misread ==
  \/ Begin(Noise) \/ Continue(Noise) \/ End(Noise) \/ Whole(Noise)
  \/ UNCHANGED <<held, freed, undefined, delivered>>
ReceiveAdrift ==
  /\ Arriving /\ ~inStep
  /\ \/ wire' = Tail(wire) /\ UNCHANGED up /\ Misread
     \/ up' = FALSE /\ wire' = <<>> /\ UNCHANGED <<held, freed, undefined, delivered>>
  /\ UNCHANGED <<sending, pings, inStep>>

-----------------------------------------------------------------------------
Send(s) ==
  WholeMessage(s) \/ FirstFragment(s) \/ MiddleFragment(s) \/ LastFragment(s) \/ SendFails(s)

Receive ==
  \/ ReceiveFirst \/ ReceiveMiddle \/ ReceiveLast \/ ReceiveWhole \/ ReceivePing
  \/ ReceiveShort \/ TearHeader \/ ReceiveAdrift

Next == (\E s \in Sender : Send(s)) \/ Ping \/ Receive

\* The sending tasks and the task of the receiving end run; nobody has to ping.
Fairness == WF_vars(Receive) /\ \A s \in Sender : WF_vars(Send(s))

Spec == Init /\ [][Next]_vars
FairSpec == Spec /\ Fairness

-----------------------------------------------------------------------------
(* Properties.                                                             *)

\* The bytes of a message: all of them, as they were if it takes two frames at most.
Carries(payload, m) ==
  IF Size[m] <= 2 * Room
    THEN payload = Data(m)
    ELSE Len(payload) = Size[m] /\ \A i \in DOMAIN payload : payload[i][1] = m

MessageOf(payload) ==
  IF \E m \in Message : Carries(payload, m)
    THEN CHOOSE m \in Message : Carries(payload, m) ELSE Garbled
Received == [i \in DOMAIN delivered |-> MessageOf(delivered[i])]
Settled(m) == m \in failed \cup ToSet(Received)

\* No message was begun between the frames of another's, and no byte was dropped.
Intact == ~mixed /\ inStep

WsMessagesOf ==
  INSTANCE WsMessages WITH
    pending  <- [s \in Sender |-> {m \in MessagesOf(s) : ~Settled(m)}],
    received <- Received,
    intact   <- Intact

\* What send() promises (websocket.h:148-163) and receivedCallback is given: each
\* message once, of all its bytes, in its sender's order, or a send that returned
\* false; until messages are mixed or a byte is dropped, and not after.
SentAsMessages == WsMessagesOf!Spec

\* "This contains both the previous fragments and this one" (websocket.h:82): a
\* payload handed on as a whole message holds the bytes that were sent.
DeliveredAsSent ==
  \A i \in DOMAIN delivered : \E m \in Message : delivered[i] = Data(m)

\* handleFrame never reads or frees a payload that it has freed, as long as a
\* continuation comes only after the first fragment of its message and its header is
\* read whole.
NoUseAfterFree == Intact => ~undefined

\* While the connection stays up and intact, every message arrives or its send fails.
EveryMessageSettled ==
  \A m \in Message : <>(Settled(m) \/ ~up \/ ~Intact)

=============================================================================
