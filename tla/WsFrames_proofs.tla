-------------------------- MODULE WsFrames_proofs --------------------------
(***************************************************************************)
(* Proofs about WsFrames, for any tasks, locked or not, and any messages,  *)
(* packet size, timeouts and short reads:                                  *)
(*                                                                         *)
(*   - while no message was begun between the frames of another's and no   *)
(*     byte was dropped (Intact), the receiving end never touches a        *)
(*     payload that it has freed.  A continuation on the wire has the      *)
(*     first fragment of its message before it, or that message is held    *)
(*     already (Inv);                                                      *)
(*   - tasks that are all locked and whole headers keep it so;             *)
(*   - WsFrames implements WsMessages.  There is a story h of what the     *)
(*     other end holds before and after each frame on the wire, which      *)
(*     starts with what it holds now and ends with what the sender is in   *)
(*     the middle of (Story); and the frames that end a message are in the *)
(*     order of the programs (Order).  A frame that ends a message, read   *)
(*     or given up, is a step of WsMessages, and so is the step that ends  *)
(*     Intact (MeetsAsTold); every other step is none.                     *)
(***************************************************************************)
EXTENDS WsFrames, SequenceTheorems, TLAPS

-----------------------------------------------------------------------------
(* Frames, and what reading them does to currentFrame.payload.             *)

Byte == Message \X Nat
Frame == [fin : BOOLEAN, op : {"data", "cont", "ping"}, payload : Seq(Byte)]

Begins(f) == ~f.fin /\ f.op = "data"
Ends(f) == f.fin /\ f.op # "ping"

\* When the first k frames of w have been read, a payload is held; gone says that
\* none was before.
Open(w, gone, k) ==
  \/ \E j \in 1..k : Begins(w[j]) /\ \A h \in (j + 1)..k : ~Ends(w[h])
  \/ ~gone /\ \A h \in 1..k : ~Ends(w[h])

\* The inductive invariant.
Types ==
  /\ cursor \in [Sender -> Nat \ {0}] /\ left \in [Sender -> Nat]
  /\ wire \in Seq(Frame) /\ up \in BOOLEAN /\ freed \in BOOLEAN
InMessage == \A s \in Sender : left[s] > 0 => Sending(s) /\ left[s] + Room <= Size[Current(s)]
OneInMessage == \A s, t \in Sender : left[s] > 0 /\ left[t] > 0 => s = t
ContinuationsOpen ==
  up => \A i \in 1..Len(wire) : wire[i].op = "cont" => Open(wire, freed, i - 1)
MessageOpen == up => \A s \in Sender : left[s] > 0 => Open(wire, freed, Len(wire))

Inv ==
  /\ Types /\ InMessage /\ OneInMessage
  /\ ContinuationsOpen /\ MessageOpen /\ ~undefined

LEMMA Constants ==
  /\ Room \in Nat \ {0}
  /\ \A s \in Sender : Program[s] \in Seq(Message)
  /\ \A m \in Message : Size[m] \in Nat \ {0}
BY WsFramesAssumption DEF WsFramesAssumption

LEMMA InitIntact == Init => Intact
BY DEF Init, Intact

\* Nothing makes a connection intact again, and only a message that is begun in the
\* middle of another or a torn header makes an end of it.
Mixes(s) ==
  (WholeMessage(s) \/ FirstFragment(s)) /\ \E t \in Sender \ {s} : left[t] > 0

LEMMA IntactEnds ==
  ASSUME [Next]_vars
  PROVE  /\ Intact' => Intact
         /\ Intact /\ ~Intact' => TearHeader \/ \E s \in Sender : Mixes(s)
<1>1. ASSUME NEW s \in Sender, WholeMessage(s) \/ FirstFragment(s)
      PROVE  (Intact' => Intact) /\ (Intact /\ ~Intact' => Mixes(s))
  <2>1. inStep' = inStep /\ Mix(s)
    BY <1>1 DEF WholeMessage, FirstFragment, Write, receiving
  <2>2. QED
    BY <1>1, <2>1 DEF Mix, Mixes, Intact
<1>2. ASSUME NEW s \in Sender, MiddleFragment(s) \/ LastFragment(s) \/ SendFails(s)
      PROVE  mixed' = mixed /\ inStep' = inStep
  BY <1>2 DEF MiddleFragment, LastFragment, SendFails, Write, receiving
<1>3. CASE Ping
  BY <1>3 DEF Ping, Write, sending, receiving, Intact
<1>4. CASE Receive
  <2>1. mixed' = mixed
    BY <1>4 DEF Receive, ReceiveFirst, ReceiveMiddle, ReceiveLast, ReceiveWhole,
       ReceivePing, ReceiveShort, TearHeader, ReceiveAdrift, Read, sending
  <2>2. TearHeader \/ inStep' = inStep
    BY <1>4 DEF Receive, ReceiveFirst, ReceiveMiddle, ReceiveLast, ReceiveWhole,
       ReceivePing, ReceiveShort, ReceiveAdrift, Read, receiving
  <2>3. TearHeader => ~inStep'
    BY DEF TearHeader
  <2>4. TearHeader => inStep
    BY DEF TearHeader
  <2>5. QED
    BY <2>1, <2>2, <2>3, <2>4 DEF Intact
<1>5. CASE UNCHANGED vars
  BY <1>5 DEF vars, sending, receiving, Intact
<1>6. QED
  BY <1>1, <1>2, <1>3, <1>4, <1>5 DEF Next, Send, Intact

LEMMA InitInv == Init => Inv
<1>. SUFFICES ASSUME Init PROVE Inv
  OBVIOUS
<1>1. /\ cursor = [s \in Sender |-> 1] /\ left = [s \in Sender |-> 0]
      /\ wire = <<>> /\ up = TRUE /\ freed = FALSE /\ undefined = FALSE
  BY DEF Init
<1>2. Types
  <2>1. wire \in Seq(Frame)
    BY <1>1, EmptySeq
  <2>2. cursor \in [Sender -> Nat \ {0}]
    BY <1>1
  <2>3. left \in [Sender -> Nat]
    BY <1>1
  <2>4. QED
    BY <1>1, <2>1, <2>2, <2>3 DEF Types
<1>3. InMessage /\ OneInMessage /\ ContinuationsOpen /\ MessageOpen
  BY <1>1 DEF InMessage, OneInMessage, ContinuationsOpen, MessageOpen
<1>4. QED
  BY <1>1, <1>2, <1>3 DEF Inv

-----------------------------------------------------------------------------
(* Writing a frame.                                                        *)

\* The payloads of a message's frames.
LEMMA PayloadTypes ==
  ASSUME Inv, NEW s \in Sender, Sending(s)
  PROVE  /\ Current(s) \in Message /\ Size[Current(s)] \in Nat \ {0}
         /\ Data(Current(s)) \in Seq(Byte)
         /\ Size[Current(s)] > Room => Beginning(s) \in Seq(Byte)
         /\ left[s] > 0 => Remaining(s) \in Seq(Byte)
<1>. DEFINE m == Current(s)
            d == Data(m)
<1>1. m \in Message /\ Size[m] \in Nat \ {0}
  BY Constants, ElementOfSeq DEF Sending, Current
<1>2. d \in Seq(Byte) /\ Len(d) = Size[m]
  <2>1. \A i \in 1..Size[m] : <<m, i>> \in Byte
    BY <1>1 DEF Byte
  <2>2. QED
    BY <1>1, <2>1 DEF Data
<1>3. Size[m] > Room => SubSeq(d, 1, Room) \in Seq(Byte)
  BY <1>1, <1>2, Constants, SubSeqProperties
<1>4. left[s] > 0 => SubSeq(d, Size[m] - left[s] + 1, Size[m]) \in Seq(Byte)
  <2>. SUFFICES ASSUME left[s] > 0
                PROVE  SubSeq(d, Size[m] - left[s] + 1, Size[m]) \in Seq(Byte)
    OBVIOUS
  <2>1. left[s] \in Nat /\ left[s] <= Size[m]
    BY <1>1, Constants DEF Inv, Types, InMessage
  <2>2. Size[m] - left[s] + 1 \in 1..(Len(d) + 1) /\ Size[m] \in 0..Len(d)
    BY <1>1, <1>2, <2>1
  <2>3. QED
    BY <1>2, <2>2, SubSeqProperties
<1>5. QED
  BY <1>1, <1>2, <1>3, <1>4 DEF Beginning, Remaining

\* A frame at the end: what is before it stays as it was, and after it a payload is
\* held if it begins a message, or if one was and it ends none.
LEMMA AppendOpen ==
  ASSUME NEW w \in Seq(Frame), NEW f \in Frame, NEW gone \in BOOLEAN
  PROVE  /\ \A k \in 0..Len(w) : Open(w, gone, k) => Open(Append(w, f), gone, k)
         /\ Begins(f) => Open(Append(w, f), gone, Len(w) + 1)
         /\ Open(w, gone, Len(w)) /\ ~Ends(f) => Open(Append(w, f), gone, Len(w) + 1)
<1>. DEFINE n == Len(w)
            v == Append(w, f)
<1>1. n \in Nat /\ v[n + 1] = f /\ \A i \in 1..n : v[i] = w[i]
  OBVIOUS
<1>. HIDE DEF n, v
<1>2. ASSUME NEW k \in 0..n, Open(w, gone, k) PROVE Open(v, gone, k)
  <2>1. \A i \in 1..k : v[i] = w[i]
    BY <1>1
  <2>2. QED
    BY <1>2, <2>1 DEF Open
<1>3. ASSUME Begins(f) PROVE Open(v, gone, n + 1)
  BY <1>1, <1>3 DEF Open
<1>4. ASSUME Open(w, gone, n), ~Ends(f) PROVE Open(v, gone, n + 1)
  <2>1. CASE ~gone /\ \A h \in 1..n : ~Ends(w[h])
    <3>1. \A h \in 1..(n + 1) : ~Ends(v[h])
      BY <1>1, <1>4, <2>1
    <3>2. QED
      BY <2>1, <3>1 DEF Open
  <2>2. CASE \E j \in 1..n : Begins(w[j]) /\ \A h \in (j + 1)..n : ~Ends(w[h])
    <3>1. PICK j \in 1..n : Begins(w[j]) /\ \A h \in (j + 1)..n : ~Ends(w[h])
      BY <2>2
    <3>2. /\ j \in 1..(n + 1) /\ Begins(v[j])
          /\ \A h \in (j + 1)..(n + 1) : ~Ends(v[h])
      BY <1>1, <1>4, <3>1
    <3>3. QED
      BY <3>2 DEF Open
  <2>3. QED
    BY <1>4, <2>1, <2>2 DEF Open
<1>5. QED
  BY <1>2, <1>3, <1>4 DEF n, v

\* A step that writes f, or nothing to a connection that is down, keeps the
\* invariant if f may stand where it does and every message begun is open after it.
LEMMA WriteInv ==
  ASSUME Inv, NEW f \in Frame,
         wire' = IF up THEN Append(wire, f) ELSE wire,
         UNCHANGED <<up, receiving>>,
         up /\ f.op = "cont" => Open(wire, freed, Len(wire)),
         up => \A s \in Sender : left'[s] > 0 =>
                 Begins(f) \/ (Open(wire, freed, Len(wire)) /\ ~Ends(f)),
         cursor' \in [Sender -> Nat \ {0}], left' \in [Sender -> Nat],
         InMessage', OneInMessage'
  PROVE  Inv'
<1>1. up' = up /\ freed' = freed /\ undefined' = undefined
  BY DEF receiving
<1>2. CASE ~up
  BY <1>1, <1>2 DEF Inv, Types, ContinuationsOpen, MessageOpen
<1>3. CASE up
  <2>. DEFINE n == Len(wire)
  <2>1. wire \in Seq(Frame) /\ freed \in BOOLEAN
    BY DEF Inv, Types
  <2>2. wire' = Append(wire, f) /\ n \in Nat /\ Len(wire') = n + 1
    BY <1>3, <2>1
  <2>3. wire' \in Seq(Frame) /\ wire'[n + 1] = f /\ \A i \in 1..n : wire'[i] = wire[i]
    BY <2>1, <2>2
  <2>4. /\ \A k \in 0..n : Open(wire, freed, k) => Open(wire', freed, k)
        /\ Begins(f) => Open(wire', freed, n + 1)
        /\ Open(wire, freed, n) /\ ~Ends(f) => Open(wire', freed, n + 1)
    BY <2>1, <2>2, AppendOpen
  <2>. HIDE DEF n
  <2>5. Types' /\ ~undefined'
    BY <1>1, <2>3 DEF Inv, Types
  <2>6. ContinuationsOpen'
    <3>. SUFFICES ASSUME NEW i \in 1..(n + 1), wire'[i].op = "cont"
                  PROVE  Open(wire', freed, i - 1)
      BY <1>1, <2>2 DEF ContinuationsOpen
    <3>1. i - 1 \in 0..n
      BY <2>2
    <3>2. CASE i = n + 1
      <4>1. Open(wire, freed, i - 1)
        BY <1>3, <2>2, <2>3, <3>2 DEF n
      <4>2. QED
        BY <2>4, <3>1, <4>1
    <3>3. CASE i \in 1..n
      <4>1. Open(wire, freed, i - 1)
        BY <1>3, <2>3, <3>3 DEF Inv, ContinuationsOpen, n
      <4>2. QED
        BY <2>4, <3>1, <4>1
    <3>4. QED
      BY <2>2, <3>2, <3>3
  <2>7. MessageOpen'
    <3>1. ASSUME NEW s \in Sender, left'[s] > 0 PROVE Open(wire', freed, n + 1)
      BY <1>3, <2>4, <3>1 DEF n
    <3>2. QED
      BY <1>1, <2>2, <3>1 DEF MessageOpen
  <2>8. QED
    BY <2>5, <2>6, <2>7 DEF Inv
<1>4. QED
  BY <1>2, <1>3 DEF Inv, Types

\* send() returns: its message is over, and the others are where they were.
LEMMA ReturnInv ==
  ASSUME Inv, NEW s \in Sender, Return(s)
  PROVE  /\ cursor' \in [Sender -> Nat \ {0}] /\ left' \in [Sender -> Nat]
         /\ left'[s] = 0 /\ \A t \in Sender : t # s => left'[t] = left[t]
         /\ InMessage' /\ OneInMessage'
<1>1. cursor \in [Sender -> Nat \ {0}] /\ left \in [Sender -> Nat]
  BY DEF Inv, Types
<1>2. cursor' \in [Sender -> Nat \ {0}] /\ left' \in [Sender -> Nat]
  BY <1>1 DEF Return
<1>3. /\ left'[s] = 0
      /\ \A t \in Sender : t # s => left'[t] = left[t] /\ cursor'[t] = cursor[t]
  BY <1>1 DEF Return
<1>4. InMessage'
  BY <1>3 DEF Inv, InMessage, Sending, Current
<1>5. OneInMessage'
  BY <1>3 DEF Inv, OneInMessage
<1>6. QED
  BY <1>2, <1>3, <1>4, <1>5

\* A message that does not mix begins when every other is over.
LEMMA BegunAlone ==
  ASSUME Intact', Inv, NEW s \in Sender, MayBegin(s), Mix(s)
  PROVE  \A t \in Sender : left[t] = 0
<1>1. \A t \in Sender \ {s} : ~(left[t] > 0)
  BY DEF Mix, Intact
<1>2. left \in [Sender -> Nat] /\ left[s] = 0
  BY DEF Inv, Types, MayBegin
<1>3. ASSUME NEW t \in Sender PROVE left[t] = 0
  <2>1. left[t] \in Nat
    BY <1>2
  <2>2. QED
    BY <1>1, <1>2, <2>1
<1>4. QED
  BY <1>3

LEMMA WholeMessageInv ==
  ASSUME Intact', Inv, NEW s \in Sender, WholeMessage(s)
  PROVE  Inv'
<1>. DEFINE f == [fin |-> TRUE, op |-> "data", payload |-> Data(Current(s))]
<1>1. f \in Frame
  BY PayloadTypes DEF WholeMessage, MayBegin, Frame
<1>2. /\ wire' = IF up THEN Append(wire, f) ELSE wire
      /\ UNCHANGED <<up, receiving>>
  BY DEF WholeMessage, Write
<1>3. /\ cursor' \in [Sender -> Nat \ {0}] /\ left' \in [Sender -> Nat]
      /\ left'[s] = 0 /\ \A t \in Sender : t # s => left'[t] = left[t]
      /\ InMessage' /\ OneInMessage'
  BY ReturnInv DEF WholeMessage
<1>4. \A t \in Sender : left'[t] = 0
  BY <1>3, BegunAlone DEF WholeMessage
<1>5. f.op # "cont"
  OBVIOUS
<1>. HIDE DEF f
<1>6. QED
  BY <1>1, <1>2, <1>3, <1>4, <1>5, WriteInv

LEMMA FirstFragmentInv ==
  ASSUME Intact', Inv, NEW s \in Sender, FirstFragment(s)
  PROVE  Inv'
<1>. DEFINE m == Current(s)
            f == [fin |-> FALSE, op |-> "data", payload |-> Beginning(s)]
<1>1. m \in Message /\ Size[m] \in Nat \ {0} /\ f \in Frame
  BY PayloadTypes DEF FirstFragment, MayBegin, Frame
<1>2. /\ wire' = IF up THEN Append(wire, f) ELSE wire
      /\ UNCHANGED <<up, receiving>>
  BY DEF FirstFragment, Write
<1>3. f.op # "cont" /\ Begins(f)
  BY DEF Begins
<1>. HIDE DEF f
<1>4. /\ cursor \in [Sender -> Nat \ {0}] /\ left \in [Sender -> Nat]
      /\ cursor' = cursor /\ left' = [left EXCEPT ![s] = Size[m] - Room]
      /\ Size[m] > Room /\ Sending(s) /\ \A t \in Sender : left[t] = 0
  BY BegunAlone DEF FirstFragment, MayBegin, Inv, Types
<1>5. Size[m] - Room \in Nat
  BY <1>1, <1>4, Constants
<1>6. /\ left' \in [Sender -> Nat] /\ left'[s] = Size[m] - Room
      /\ \A t \in Sender : t # s => left'[t] = 0
  BY <1>4, <1>5
<1>7. InMessage'
  <2>. SUFFICES ASSUME NEW t \in Sender, left'[t] > 0
                PROVE  Sending(t)' /\ left'[t] + Room <= Size[Current(t)']
    BY DEF InMessage
  <2>1. t = s
    BY <1>6
  <2>2. Sending(s)' /\ Current(s)' = m
    BY <1>4 DEF Sending, Current
  <2>3. QED
    BY <1>1, <1>6, <2>1, <2>2, Constants
<1>8. OneInMessage'
  BY <1>6 DEF OneInMessage
<1>9. QED
  BY <1>1, <1>2, <1>3, <1>4, <1>6, <1>7, <1>8, WriteInv

LEMMA MiddleFragmentInv ==
  ASSUME Inv, NEW s \in Sender, MiddleFragment(s)
  PROVE  Inv'
<1>. DEFINE f == [fin |-> FALSE, op |-> "cont", payload |-> Beginning(s)]
<1>1. /\ cursor \in [Sender -> Nat \ {0}] /\ left \in [Sender -> Nat]
      /\ cursor' = cursor /\ left' = [left EXCEPT ![s] = @ - Room] /\ left[s] > Room
      /\ Room \in Nat \ {0}
  BY Constants DEF MiddleFragment, Inv, Types
<1>2. /\ left' \in [Sender -> Nat] /\ left'[s] = left[s] - Room
      /\ \A t \in Sender : t # s => left'[t] = left[t]
  <2>1. left[s] - Room \in Nat
    BY <1>1
  <2>2. QED
    BY <1>1, <2>1
<1>3. /\ Sending(s) /\ left[s] + Room <= Size[Current(s)] /\ left[s] > 0
      /\ \A t \in Sender : t # s => left[t] = 0
  BY <1>1 DEF Inv, InMessage, OneInMessage
<1>4. Current(s) \in Message /\ Size[Current(s)] \in Nat \ {0} /\ f \in Frame
  <2>1. Size[Current(s)] \in Nat \ {0} /\ Current(s) \in Message
    BY <1>3, PayloadTypes
  <2>2. Beginning(s) \in Seq(Byte)
    BY <1>1, <1>3, <2>1, PayloadTypes
  <2>3. QED
    BY <2>1, <2>2 DEF Frame
<1>5. /\ wire' = IF up THEN Append(wire, f) ELSE wire
      /\ UNCHANGED <<up, receiving>>
  BY DEF MiddleFragment, Write
<1>6. ~Ends(f) /\ f.op = "cont"
  BY DEF Ends
<1>. HIDE DEF f
<1>7. up => Open(wire, freed, Len(wire))
  BY <1>3 DEF Inv, MessageOpen
<1>8. InMessage'
  <2>. SUFFICES ASSUME NEW t \in Sender, left'[t] > 0
                PROVE  Sending(t)' /\ left'[t] + Room <= Size[Current(t)']
    BY DEF InMessage
  <2>1. t = s
    BY <1>2, <1>3
  <2>2. Sending(s)' /\ Current(s)' = Current(s)
    BY <1>1, <1>3 DEF Sending, Current
  <2>3. QED
    BY <1>1, <1>2, <1>3, <1>4, <2>1, <2>2
<1>9. OneInMessage'
  BY <1>2, <1>3 DEF OneInMessage
<1>10. QED
  BY <1>1, <1>2, <1>4, <1>5, <1>6, <1>7, <1>8, <1>9, WriteInv

LEMMA LastFragmentInv ==
  ASSUME Inv, NEW s \in Sender, LastFragment(s)
  PROVE  Inv'
<1>. DEFINE f == [fin |-> TRUE, op |-> "cont", payload |-> Remaining(s)]
<1>1. left \in [Sender -> Nat] /\ left[s] > 0
  BY Constants DEF LastFragment, Inv, Types
<1>2. Sending(s) /\ \A t \in Sender : t # s => left[t] = 0
  BY <1>1 DEF Inv, InMessage, OneInMessage
<1>3. f \in Frame
  BY <1>1, <1>2, PayloadTypes DEF Frame
<1>4. /\ wire' = IF up THEN Append(wire, f) ELSE wire
      /\ UNCHANGED <<up, receiving>>
  BY DEF LastFragment, Write
<1>. HIDE DEF f
<1>5. /\ cursor' \in [Sender -> Nat \ {0}] /\ left' \in [Sender -> Nat]
      /\ left'[s] = 0 /\ \A t \in Sender : t # s => left'[t] = left[t]
      /\ InMessage' /\ OneInMessage'
  BY ReturnInv DEF LastFragment
<1>6. up => Open(wire, freed, Len(wire))
  BY <1>1 DEF Inv, MessageOpen
<1>7. \A t \in Sender : left'[t] = 0
  BY <1>2, <1>5
<1>8. QED
  BY <1>3, <1>4, <1>5, <1>6, <1>7, WriteInv

LEMMA SendFailsInv ==
  ASSUME Inv, NEW s \in Sender, SendFails(s)
  PROVE  Inv'
<1>1. wire' = wire /\ up' = up /\ freed' = freed /\ undefined' = undefined
  BY DEF SendFails, receiving
<1>2. /\ cursor' \in [Sender -> Nat \ {0}] /\ left' \in [Sender -> Nat]
      /\ left'[s] = 0 /\ \A t \in Sender : t # s => left'[t] = left[t]
      /\ InMessage' /\ OneInMessage'
  BY ReturnInv DEF SendFails
<1>3. \A t \in Sender : left'[t] > 0 => left[t] > 0
  BY <1>2
<1>4. ContinuationsOpen' /\ MessageOpen'
  BY <1>1, <1>3 DEF Inv, ContinuationsOpen, MessageOpen
<1>5. QED
  BY <1>1, <1>2, <1>4 DEF Inv, Types

LEMMA PingInv == ASSUME Inv, Ping PROVE Inv'
<1>. DEFINE f == [fin |-> TRUE, op |-> "ping", payload |-> <<>>]
<1>1. f \in Frame
  BY EmptySeq DEF Frame
<1>2. /\ wire' = IF up THEN Append(wire, f) ELSE wire
      /\ UNCHANGED <<up, receiving>>
  BY DEF Ping, Write
<1>3. f.op # "cont" /\ ~Ends(f)
  BY DEF Ends
<1>. HIDE DEF f
<1>4. cursor' = cursor /\ left' = left
  BY DEF Ping, sending
<1>5. InMessage' /\ OneInMessage'
  BY <1>4 DEF Inv, InMessage, OneInMessage, Sending, Current
<1>6. up => \A s \in Sender : left'[s] > 0 => Open(wire, freed, Len(wire))
  BY <1>4 DEF Inv, MessageOpen
<1>7. cursor' \in [Sender -> Nat \ {0}] /\ left' \in [Sender -> Nat]
  BY <1>4 DEF Inv, Types
<1>8. QED
  BY <1>1, <1>2, <1>3, <1>5, <1>6, <1>7, WriteInv

-----------------------------------------------------------------------------
(* Reading a frame.                                                        *)

\* The first frame read: what is held after the others is what it was, if the frame
\* does to currentFrame.payload what its kind does.
LEMMA TailOpen ==
  ASSUME NEW w \in Seq(Frame), w # <<>>, NEW gone \in BOOLEAN, NEW after \in BOOLEAN,
         Begins(Head(w)) => ~after, ~Ends(Head(w)) /\ ~gone => ~after,
         NEW k \in 1..Len(w), Open(w, gone, k)
  PROVE  Open(Tail(w), after, k - 1)
<1>. DEFINE n == Len(w)
            v == Tail(w)
<1>1. n \in Nat \ {0} /\ Head(w) = w[1] /\ \A i \in 1..(n - 1) : v[i] = w[i + 1]
  BY HeadTailProperties
<1>. HIDE DEF n, v
<1>2. k \in 1..n /\ k - 1 \in 0..(n - 1)
  BY <1>1 DEF n
<1>3. CASE ~gone /\ \A h \in 1..k : ~Ends(w[h])
  <2>1. ~after /\ \A h \in 1..(k - 1) : ~Ends(v[h])
    BY <1>1, <1>2, <1>3
  <2>2. QED
    BY <2>1 DEF Open, v
<1>4. CASE \E j \in 1..k : Begins(w[j]) /\ \A h \in (j + 1)..k : ~Ends(w[h])
  <2>1. PICK j \in 1..k : Begins(w[j]) /\ \A h \in (j + 1)..k : ~Ends(w[h])
    BY <1>4
  <2>2. CASE j = 1
    <3>1. ~after /\ \A h \in 1..(k - 1) : ~Ends(v[h])
      BY <1>1, <1>2, <2>1, <2>2
    <3>2. QED
      BY <3>1 DEF Open, v
  <2>3. CASE j # 1
    <3>1. j - 1 \in 1..(k - 1) /\ Begins(v[j - 1])
      BY <1>1, <1>2, <2>1, <2>3
    <3>2. \A h \in ((j - 1) + 1)..(k - 1) : ~Ends(v[h])
      BY <1>1, <1>2, <2>1, <2>3
    <3>3. QED
      BY <3>1, <3>2 DEF Open, v
  <2>4. QED
    BY <2>2, <2>3
<1>5. QED
  BY <1>3, <1>4 DEF Open

\* A step of handleFrame that does so keeps the invariant.
LEMMA ReadInv ==
  ASSUME Inv, NEW fin \in BOOLEAN, NEW op \in {"data", "cont", "ping"}, Read(fin, op),
         freed' \in BOOLEAN, ~undefined',
         Begins(Head(wire)) => ~freed', ~Ends(Head(wire)) /\ ~freed => ~freed'
  PROVE  Inv'
<1>. DEFINE n == Len(wire)
<1>1. wire \in Seq(Frame) /\ freed \in BOOLEAN
  BY DEF Inv, Types
<1>2. /\ up /\ wire # <<>> /\ wire' = Tail(wire)
      /\ up' = up /\ cursor' = cursor /\ left' = left
  BY DEF Read, Arriving, sending
<1>3. /\ wire' \in Seq(Frame) /\ n \in Nat \ {0} /\ Len(wire') = n - 1
      /\ \A i \in 1..(n - 1) : wire'[i] = wire[i + 1]
  BY <1>1, <1>2, HeadTailProperties
<1>4. \A k \in 1..n : Open(wire, freed, k) => Open(wire', freed', k - 1)
  BY <1>1, <1>2, TailOpen
<1>. HIDE DEF n
<1>5. Types' /\ ~undefined'
  BY <1>2, <1>3 DEF Inv, Types
<1>6. InMessage' /\ OneInMessage'
  BY <1>2 DEF Inv, InMessage, OneInMessage, Sending, Current
<1>7. ContinuationsOpen'
  <2>. SUFFICES ASSUME NEW i \in 1..(n - 1), wire'[i].op = "cont"
                PROVE  Open(wire', freed', i - 1)
    BY <1>3 DEF ContinuationsOpen
  <2>1. i \in 1..n /\ i + 1 \in 1..n /\ (i + 1) - 1 = i
    BY <1>3
  <2>2. Open(wire, freed, (i + 1) - 1)
    BY <1>2, <1>3, <2>1 DEF Inv, ContinuationsOpen, n
  <2>3. Open(wire, freed, i)
    BY <2>1, <2>2
  <2>4. QED
    BY <1>4, <2>1, <2>3
<1>8. MessageOpen'
  <2>1. ASSUME NEW s \in Sender, left'[s] > 0 PROVE Open(wire', freed', n - 1)
    <3>1. Open(wire, freed, n)
      BY <1>2, <2>1 DEF Inv, MessageOpen, n
    <3>2. QED
      BY <1>3, <1>4, <3>1
  <2>2. QED
    BY <1>3, <2>1 DEF MessageOpen
<1>9. QED
  BY <1>5, <1>6, <1>7, <1>8 DEF Inv

\* A continuation that is read finds a payload held.
LEMMA ContinuationHeld ==
  ASSUME Inv, NEW fin \in BOOLEAN, Read(fin, "cont")
  PROVE  ~freed
<1>1. wire \in Seq(Frame) /\ up /\ wire # <<>> /\ Head(wire).op = "cont"
  BY DEF Inv, Types, Read, Arriving
<1>2. 1 \in 1..Len(wire) /\ Head(wire) = wire[1]
  BY <1>1
<1>3. Open(wire, freed, 1 - 1)
  BY <1>1, <1>2 DEF Inv, ContinuationsOpen
<1>4. Open(wire, freed, 0)
  <2>1. 1 - 1 = 0
    OBVIOUS
  <2>2. QED
    BY <1>3, <2>1
<1>5. QED
  BY <1>4 DEF Open

LEMMA ReceiveInv == ASSUME Intact', Inv, Receive PROVE Inv'
<1>1. ~undefined /\ freed \in BOOLEAN
  BY DEF Inv, Types
<1>2. CASE ReceiveFirst
  <2>1. Read(FALSE, "data") /\ ~freed' /\ freed' \in BOOLEAN /\ undefined' = undefined
    BY <1>2 DEF ReceiveFirst, Begin
  <2>2. QED
    BY <1>1, <2>1, ReadInv
<1>3. CASE ReceiveMiddle
  <2>1. Read(FALSE, "cont") /\ ~freed' /\ freed' \in BOOLEAN /\ undefined' = freed
    BY <1>3 DEF ReceiveMiddle, Continue
  <2>2. ~freed
    BY <2>1, ContinuationHeld
  <2>3. QED
    BY <2>1, <2>2, ReadInv
<1>4. CASE ReceiveLast
  <2>1. Read(TRUE, "cont") /\ freed' \in BOOLEAN /\ undefined' = freed
    BY <1>4 DEF ReceiveLast, End
  <2>2. ~freed
    BY <2>1, ContinuationHeld
  <2>3. Ends(Head(wire)) /\ ~Begins(Head(wire))
    BY <2>1 DEF Read, Ends, Begins
  <2>4. QED
    BY <2>1, <2>2, <2>3, ReadInv
<1>5. CASE ReceiveWhole
  <2>1. Read(TRUE, "data") /\ freed' \in BOOLEAN /\ undefined' = undefined
    BY <1>5 DEF ReceiveWhole, Whole
  <2>2. Ends(Head(wire)) /\ ~Begins(Head(wire))
    BY <2>1 DEF Read, Ends, Begins
  <2>3. QED
    BY <1>1, <2>1, <2>2, ReadInv
<1>6. CASE ReceivePing
  <2>1. Read(TRUE, "ping") /\ freed' = freed /\ undefined' = undefined
    BY <1>6 DEF ReceivePing, receiving
  <2>2. ~Begins(Head(wire))
    BY <2>1 DEF Read, Begins
  <2>3. QED
    BY <1>1, <2>1, <2>2, ReadInv
<1>7. CASE ReceiveShort
  <2>1. /\ ~up' /\ up' \in BOOLEAN /\ wire' = <<>>
        /\ cursor' = cursor /\ left' = left /\ freed' = freed /\ undefined' = undefined
    BY <1>7 DEF ReceiveShort, sending, receiving
  <2>2. wire' \in Seq(Frame)
    BY <2>1, EmptySeq
  <2>3. Types' /\ InMessage' /\ OneInMessage' /\ ~undefined'
    BY <2>1, <2>2
    DEF Inv, Types, InMessage, OneInMessage, Sending, Current
  <2>4. ContinuationsOpen' /\ MessageOpen'
    BY <2>1 DEF ContinuationsOpen, MessageOpen
  <2>5. QED
    BY <2>3, <2>4 DEF Inv
<1>8. ~TearHeader /\ ~ReceiveAdrift
  BY DEF TearHeader, ReceiveAdrift, Intact
<1>9. QED
  BY <1>2, <1>3, <1>4, <1>5, <1>6, <1>7, <1>8 DEF Receive

-----------------------------------------------------------------------------
LEMMA Invariance == ASSUME Intact', Inv, [Next]_vars PROVE Inv'
<1>1. ASSUME NEW s \in Sender, Send(s) PROVE Inv'
  BY <1>1, WholeMessageInv, FirstFragmentInv, MiddleFragmentInv, LastFragmentInv, SendFailsInv
  DEF Send
<1>2. CASE Ping
  BY <1>2, PingInv
<1>3. CASE Receive
  BY <1>3, ReceiveInv
<1>4. CASE UNCHANGED vars
  <2>1. /\ cursor' = cursor /\ left' = left /\ wire' = wire /\ up' = up
        /\ freed' = freed /\ undefined' = undefined
    BY <1>4 DEF vars, sending, receiving
  <2>2. Types' /\ InMessage' /\ OneInMessage' /\ ~undefined'
    BY <2>1 DEF Inv, Types, InMessage, OneInMessage, Sending, Current
  <2>3. ContinuationsOpen' /\ MessageOpen'
    BY <2>1 DEF Inv, ContinuationsOpen, MessageOpen
  <2>4. QED
    BY <2>2, <2>3 DEF Inv
<1>5. QED
  BY <1>1, <1>2, <1>3, <1>4 DEF Next

\* NoUseAfterFree: until a message is begun between the frames of another's or a
\* part of a header is dropped, no continuation reaches the other end without a first
\* fragment still held in currentFrame, whoever sends, and whatever is given up, torn
\* or pinged between the fragments.
THEOREM ContinuationsSafe == Spec => []NoUseAfterFree
<1>1. Init => (Intact => Inv)
  BY InitInv
<1>2. (Intact => Inv) /\ [Next]_vars => (Intact => Inv)'
  BY IntactEnds, Invariance
<1>3. (Intact => Inv) => NoUseAfterFree
  BY DEF Inv, NoUseAfterFree
<1>4. QED
  BY <1>1, <1>2, <1>3, PTL DEF Spec

\* Tasks that all hold stateMutex for a whole message, as those that flush the caches
\* do, never mix theirs: with headers read whole the connection stays intact.
THEOREM LockedStaysIntact ==
  ASSUME Locked = Sender, MayTear = FALSE
  PROVE  Spec => []Intact
<1>1. ASSUME Intact, [Next]_vars PROVE Intact'
  <2>1. ~TearHeader
    BY DEF TearHeader
  <2>2. ASSUME NEW s \in Sender, Mixes(s) PROVE FALSE
    <3>1. MayBegin(s)
      BY <2>2 DEF Mixes, WholeMessage, FirstFragment
    <3>2. \A t \in Sender : left[t] = 0
      BY <3>1 DEF MayBegin
    <3>3. QED
      BY <2>2, <3>2 DEF Mixes
  <2>3. QED
    BY <1>1, <2>1, <2>2, IntactEnds
<1>2. QED
  BY <1>1, InitIntact, PTL DEF Spec

-----------------------------------------------------------------------------
(* Every message arrives once, whole and in its sender's order, or its     *)
(* send fails: WsFrames implements WsMessages.                             *)

\* What currentFrame.payload holds: the first n bytes of a message, as far as the
\* other end goes by them, or nothing that it will go on with.
Reading == (Message \cup {Garbled}) \X Nat
Nothing == <<Garbled, 0>>

ReadsWhole(f, y) ==
  /\ f.op = "data" /\ f.fin /\ y = Nothing
  /\ \E m \in Message : Size[m] <= Room /\ f.payload = Data(m)
ReadsFirst(f, y) ==
  /\ f.op = "data" /\ ~f.fin
  /\ \E m \in Message :
       Size[m] > Room /\ f.payload = SubSeq(Data(m), 1, Room) /\ y = <<m, Room>>
ReadsMiddle(x, f, y) ==
  /\ f.op = "cont" /\ ~f.fin
  /\ \E m \in Message : \E n \in Nat :
       /\ x = <<m, n>> /\ y = <<m, n + Room>> /\ n + Room < Size[m]
       /\ f.payload = SubSeq(Data(m), 1, Room)
ReadsLast(x, f, y) ==
  /\ f.op = "cont" /\ f.fin /\ y = Nothing
  /\ \E m \in Message : \E n \in Nat :
       /\ x = <<m, n>> /\ n < Size[m] /\ Size[m] - n <= Room
       /\ f.payload = SubSeq(Data(m), n + 1, Size[m])
ReadsPing(x, f, y) == f.op = "ping" /\ y = x

\* Frame f may come when x is held, and y is held once it has been read.
Reads(x, f, y) ==
  ReadsWhole(f, y) \/ ReadsFirst(f, y) \/ ReadsMiddle(x, f, y) \/ ReadsLast(x, f, y)
    \/ ReadsPing(x, f, y)

\* The payload is what x says; only after more than one fragment may the bytes be
\* others of the same message.
Holds(payload, x) ==
  x[1] \in Message =>
    /\ Len(payload) = x[2] /\ Room <= x[2] /\ x[2] < Size[x[1]]
    /\ \A i \in 1..x[2] : payload[i][1] = x[1]
    /\ x[2] = Room => payload = SubSeq(Data(x[1]), 1, Room)
    /\ x[2] # Room => 2 * Room <= x[2]

\* h says what is held before the first frame of w and after each of them.
Follows(h, w) ==
  /\ h \in [0..Len(w) -> Reading]
  /\ \A i \in 1..Len(w) : Reads(h[i - 1], w[i], h[i])

\* A message in the middle of being sent has x on its way to the other end.
Midway(x) ==
  \A s \in Sender : left[s] > 0 => x = <<Current(s), Size[Current(s)] - left[s]>>

Story ==
  up => \E h \in [0..Len(wire) -> Reading] :
          Follows(h, wire) /\ Holds(held, h[0]) /\ Midway(h[Len(wire)])

\* The message whose last byte a frame brings.
Of(f) == f.payload[1][1]
Brings(f, s, j) == Ends(f) /\ j \in DOMAIN Program[s] /\ Of(f) = Program[s][j]

\* What is on the wire was sent, has not arrived, and is in order; what was sent
\* arrived, failed or is on the wire; what was not sent did not arrive.
WireSent ==
  up => \A i \in 1..Len(wire) : Ends(wire[i]) =>
          \E s \in Sender : \E j \in 1..(cursor[s] - 1) :
            Brings(wire[i], s, j) /\ ~Settled(Program[s][j])
WireInOrder ==
  up => \A i, k \in 1..Len(wire) : \A s \in Sender : \A j, l \in DOMAIN Program[s] :
          i < k /\ Brings(wire[i], s, j) /\ Brings(wire[k], s, l) => j < l
SentKnown ==
  up => \A s \in Sender : \A j \in DOMAIN Program[s] :
          j < cursor[s] /\ ~Settled(Program[s][j])
            => \E i \in 1..Len(wire) : Brings(wire[i], s, j)
UnsentUnsettled ==
  \A s \in Sender : \A j \in DOMAIN Program[s] :
    j >= cursor[s] => ~Settled(Program[s][j])
PayloadsTyped == held \in Seq(Byte) /\ delivered \in Seq(Seq(Byte))

Order == WireSent /\ WireInOrder /\ SentKnown /\ UnsentUnsettled
WholeInv == Inv /\ PayloadsTyped /\ Story /\ Order

\* The bytes of a message and of a part of it.
LEMMA DataFacts ==
  ASSUME NEW m \in Message
  PROVE  /\ Data(m) \in Seq(Byte) /\ Len(Data(m)) = Size[m]
         /\ Size[m] \in Nat \ {0} /\ \A i \in 1..Size[m] : Data(m)[i] = <<m, i>>
<1>1. Size[m] \in Nat \ {0}
  BY Constants
<1>2. \A i \in 1..Size[m] : <<m, i>> \in Byte
  BY <1>1 DEF Byte
<1>3. QED
  BY <1>1, <1>2 DEF Data

LEMMA PartFacts ==
  ASSUME NEW m \in Message, NEW a \in Nat \ {0}, NEW b \in Nat, b <= Size[m], a <= b
  PROVE  /\ SubSeq(Data(m), a, b) \in Seq(Byte)
         /\ Len(SubSeq(Data(m), a, b)) = b - a + 1
         /\ \A i \in 1..(b - a + 1) : SubSeq(Data(m), a, b)[i] = <<m, a + i - 1>>
<1>1. Size[m] \in Nat \ {0} /\ \A i \in 1..Size[m] : Data(m)[i] = <<m, i>>
  BY DataFacts
<1>2. \A i \in a..b : Data(m)[i] \in Byte
  BY <1>1 DEF Byte
<1>3. /\ SubSeq(Data(m), a, b) \in Seq(Byte)
      /\ Len(SubSeq(Data(m), a, b)) = b - a + 1
      /\ \A i \in 1..(b - a + 1) : SubSeq(Data(m), a, b)[i] = Data(m)[a + i - 1]
  BY <1>2, SubSeqProperties
<1>4. \A i \in 1..(b - a + 1) : a + i - 1 \in 1..Size[m]
  BY <1>1
<1>5. QED
  BY <1>1, <1>3, <1>4

LEMMA BeginningFacts ==
  ASSUME NEW m \in Message, Room <= Size[m]
  PROVE  /\ SubSeq(Data(m), 1, Room) \in Seq(Byte) /\ Len(SubSeq(Data(m), 1, Room)) = Room
         /\ \A i \in 1..Room : SubSeq(Data(m), 1, Room)[i] = <<m, i>>
<1>1. Room \in Nat /\ 1 \in Nat \ {0} /\ 1 <= Room
  BY Constants
<1>2. /\ SubSeq(Data(m), 1, Room) \in Seq(Byte)
      /\ Len(SubSeq(Data(m), 1, Room)) = Room - 1 + 1
      /\ \A i \in 1..(Room - 1 + 1) : SubSeq(Data(m), 1, Room)[i] = <<m, 1 + i - 1>>
  BY <1>1, PartFacts
<1>3. Room - 1 + 1 = Room /\ \A i \in 1..Room : 1 + i - 1 = i
  BY <1>1
<1>4. QED
  BY <1>2, <1>3

\* A payload carries one message at most, the one of its first byte.
LEMMA CarriesOne ==
  ASSUME NEW m \in Message, NEW payload \in Seq(Byte), Carries(payload, m)
  PROVE  payload[1][1] = m /\ MessageOf(payload) = m
<1>1. ASSUME NEW o \in Message, Carries(payload, o) PROVE payload[1][1] = o
  <2>1. Size[o] \in Nat \ {0} /\ Len(Data(o)) = Size[o] /\ Data(o)[1] = <<o, 1>>
    BY DataFacts
  <2>2. CASE Size[o] <= 2 * Room
    BY <1>1, <2>1, <2>2 DEF Carries
  <2>3. CASE ~(Size[o] <= 2 * Room)
    <3>1. Len(payload) = Size[o] /\ \A i \in DOMAIN payload : payload[i][1] = o
      BY <1>1, <2>3 DEF Carries
    <3>2. 1 \in DOMAIN payload
      BY <2>1, <3>1
    <3>3. QED
      BY <3>1, <3>2
  <2>4. QED
    BY <2>2, <2>3
<1>2. payload[1][1] = m
  BY <1>1
<1>3. \A o \in Message : Carries(payload, o) <=> o = m
  BY <1>1, <1>2
<1>4. QED
  BY <1>2, <1>3 DEF MessageOf

-----------------------------------------------------------------------------
(* The story of what the other end holds.                                  *)

\* What is held after a frame has been read is a reading.
LEMMA ReadsTyped ==
  ASSUME NEW x \in Reading, NEW f, NEW y, Reads(x, f, y)
  PROVE  y \in Reading
<1>1. Room \in Nat \ {0} /\ Nothing \in Reading
  BY Constants DEF Nothing, Reading
<1>2. CASE ReadsFirst(f, y)
  BY <1>1, <1>2 DEF ReadsFirst, Reading
<1>3. CASE ReadsMiddle(x, f, y)
  BY <1>1, <1>3 DEF ReadsMiddle, Reading
<1>4. QED
  BY <1>1, <1>2, <1>3 DEF Reads, ReadsWhole, ReadsLast, ReadsPing

\* A frame at the end is read last.
LEMMA AppendFollows ==
  ASSUME NEW w \in Seq(Frame), NEW h, Follows(h, w), NEW f \in Frame, NEW y,
         Reads(h[Len(w)], f, y)
  PROVE  \E g \in [0..Len(Append(w, f)) -> Reading] :
           Follows(g, Append(w, f)) /\ g[0] = h[0] /\ g[Len(Append(w, f))] = y
<1>. DEFINE n == Len(w)
            v == Append(w, f)
            g == [i \in 0..(n + 1) |-> IF i = n + 1 THEN y ELSE h[i]]
<1>1. /\ n \in Nat /\ Len(v) = n + 1 /\ v[n + 1] = f
      /\ \A i \in 1..n : v[i] = w[i]
  BY AppendProperties
<1>2. h \in [0..n -> Reading] /\ \A i \in 1..n : Reads(h[i - 1], w[i], h[i])
  BY DEF Follows
<1>3. y \in Reading
  BY <1>1, <1>2, ReadsTyped
<1>4. g \in [0..(n + 1) -> Reading] /\ g[n + 1] = y /\ \A i \in 0..n : g[i] = h[i]
  BY <1>1, <1>2, <1>3
<1>5. Reads(h[n], f, y)
  OBVIOUS
<1>. HIDE DEF n, v, g
<1>6. ASSUME NEW i \in 1..(n + 1) PROVE Reads(g[i - 1], v[i], g[i])
  <2>1. CASE i = n + 1
    <3>1. i - 1 = n /\ n \in 0..n
      BY <1>1, <2>1
    <3>2. g[i - 1] = h[n] /\ v[i] = f /\ g[i] = y
      BY <1>1, <1>4, <2>1, <3>1
    <3>3. QED
      BY <1>5, <3>2
  <2>2. CASE i \in 1..n
    <3>1. i - 1 \in 0..n /\ i \in 0..n
      BY <1>1, <2>2
    <3>2. g[i - 1] = h[i - 1] /\ v[i] = w[i] /\ g[i] = h[i]
      BY <1>1, <1>4, <2>2, <3>1
    <3>3. QED
      BY <1>2, <2>2, <3>2
  <2>3. QED
    BY <1>1, <2>1, <2>2
<1>7. Follows(g, v)
  BY <1>1, <1>4, <1>6 DEF Follows
<1>8. g[0] = h[0] /\ g[Len(v)] = y
  BY <1>1, <1>4
<1>9. QED
  BY <1>1, <1>4, <1>7, <1>8 DEF v

LEMMA WriteStory ==
  ASSUME WholeInv, NEW f \in Frame,
         wire' = IF up THEN Append(wire, f) ELSE wire,
         UNCHANGED <<up, receiving>>,
         \A x \in Reading : Midway(x) => \E y : Reads(x, f, y) /\ Midway(y)'
  PROVE  Story'
<1>1. up' = up /\ held' = held
  BY DEF receiving
<1>. SUFFICES ASSUME up
              PROVE  \E g \in [0..Len(wire') -> Reading] : \E y :
                       /\ Follows(g, wire') /\ Holds(held, g[0])
                       /\ g[Len(wire')] = y /\ Midway(y)'
  BY <1>1 DEF Story, Midway
<1>2. wire \in Seq(Frame) /\ Len(wire) \in Nat /\ wire' = Append(wire, f)
  BY DEF WholeInv, Inv, Types
<1>3. PICK h \in [0..Len(wire) -> Reading] :
        Follows(h, wire) /\ Holds(held, h[0]) /\ Midway(h[Len(wire)])
  BY DEF WholeInv, Story
<1>4. h[Len(wire)] \in Reading
  BY <1>2, <1>3
<1>5. PICK y : Reads(h[Len(wire)], f, y) /\ Midway(y)'
  BY <1>3, <1>4
<1>6. PICK g \in [0..Len(wire') -> Reading] :
        Follows(g, wire') /\ g[0] = h[0] /\ g[Len(wire')] = y
  BY <1>2, <1>3, <1>5, AppendFollows
<1>7. QED
  BY <1>3, <1>5, <1>6

\* A frame at the head is read first.
LEMMA TailFollows ==
  ASSUME NEW w \in Seq(Frame), w # <<>>, NEW h, Follows(h, w)
  PROVE  \E g \in [0..Len(Tail(w)) -> Reading] :
           /\ Follows(g, Tail(w)) /\ g[0] = h[1] /\ g[Len(Tail(w))] = h[Len(w)]
           /\ Reads(h[0], Head(w), h[1]) /\ h[0] \in Reading /\ h[1] \in Reading
<1>. DEFINE n == Len(w)
            v == Tail(w)
            g == [i \in 0..(n - 1) |-> h[i + 1]]
<1>1. /\ n \in Nat \ {0} /\ Head(w) = w[1] /\ v \in Seq(Frame) /\ Len(v) = n - 1
      /\ \A i \in 1..(n - 1) : v[i] = w[i + 1]
  BY HeadTailProperties
<1>2. h \in [0..n -> Reading] /\ \A i \in 1..n : Reads(h[i - 1], w[i], h[i])
  BY DEF Follows
<1>3. \A i \in 0..(n - 1) : i + 1 \in 0..n /\ g[i] = h[i + 1]
  BY <1>1
<1>4. g \in [0..(n - 1) -> Reading]
  BY <1>2, <1>3
<1>. HIDE DEF n, v, g
<1>5. ASSUME NEW i \in 1..(n - 1) PROVE Reads(g[i - 1], v[i], g[i])
  <2>1. /\ i - 1 \in 0..(n - 1) /\ i \in 0..(n - 1) /\ i + 1 \in 1..n
        /\ (i - 1) + 1 = i /\ (i + 1) - 1 = i
    BY <1>1
  <2>2. g[i - 1] = h[i] /\ v[i] = w[i + 1] /\ g[i] = h[i + 1]
    BY <1>1, <1>3, <2>1
  <2>3. Reads(h[(i + 1) - 1], w[i + 1], h[i + 1])
    BY <1>2, <2>1
  <2>4. QED
    BY <2>1, <2>2, <2>3
<1>6. Follows(g, v)
  BY <1>1, <1>4, <1>5 DEF Follows
<1>7. g[0] = h[1] /\ g[n - 1] = h[n]
  <2>1. 0 \in 0..(n - 1) /\ n - 1 \in 0..(n - 1) /\ 0 + 1 = 1 /\ (n - 1) + 1 = n
    BY <1>1
  <2>2. g[0] = h[0 + 1] /\ g[n - 1] = h[(n - 1) + 1]
    BY <1>3, <2>1
  <2>3. QED
    BY <2>1, <2>2
<1>8. Reads(h[0], Head(w), h[1]) /\ h[0] \in Reading /\ h[1] \in Reading
  <2>1. 1 \in 1..n /\ 1 - 1 = 0 /\ 0 \in 0..n /\ 1 \in 0..n
    BY <1>1
  <2>2. Reads(h[1 - 1], w[1], h[1])
    BY <1>2, <2>1
  <2>3. QED
    BY <1>1, <1>2, <2>1, <2>2
<1>9. QED
  BY <1>1, <1>4, <1>6, <1>7, <1>8 DEF v, n

\* What the next frame meets.
LEMMA HeadRead ==
  ASSUME WholeInv, up, wire # <<>>
  PROVE  \E x, y \in Reading :
           /\ Holds(held, x) /\ Reads(x, Head(wire), y)
           /\ \A payload : Holds(payload, y) =>
                \E g \in [0..Len(Tail(wire)) -> Reading] :
                  /\ Follows(g, Tail(wire)) /\ Holds(payload, g[0])
                  /\ Midway(g[Len(Tail(wire))])
<1>1. wire \in Seq(Frame)
  BY DEF WholeInv, Inv, Types
<1>2. PICK h \in [0..Len(wire) -> Reading] :
        Follows(h, wire) /\ Holds(held, h[0]) /\ Midway(h[Len(wire)])
  BY DEF WholeInv, Story
<1>3. PICK g \in [0..Len(Tail(wire)) -> Reading] :
        /\ Follows(g, Tail(wire)) /\ g[0] = h[1] /\ g[Len(Tail(wire))] = h[Len(wire)]
        /\ Reads(h[0], Head(wire), h[1]) /\ h[0] \in Reading /\ h[1] \in Reading
  BY <1>1, <1>2, TailFollows
<1>4. Midway(g[Len(Tail(wire))])
  BY <1>2, <1>3
<1>. WITNESS h[0] \in Reading, h[1] \in Reading
<1>5. QED
  BY <1>2, <1>3, <1>4

\* What each kind of frame makes of what is held.
LEMMA HoldsNothing == ASSUME NEW payload PROVE Holds(payload, Nothing)
<1>1. Garbled \notin Message
  BY WsFramesAssumption DEF WsFramesAssumption
<1>2. QED
  BY <1>1 DEF Holds, Nothing

LEMMA FirstHeld ==
  ASSUME NEW x, NEW f, NEW y, Reads(x, f, y), f.op = "data", ~f.fin
  PROVE  Holds(f.payload, y)
<1>1. PICK m \in Message :
        Size[m] > Room /\ f.payload = SubSeq(Data(m), 1, Room) /\ y = <<m, Room>>
  BY DEF Reads, ReadsWhole, ReadsFirst, ReadsMiddle, ReadsLast, ReadsPing
<1>2. Room \in Nat \ {0} /\ Size[m] \in Nat \ {0}
  BY Constants
<1>3. Len(f.payload) = Room /\ \A i \in 1..Room : f.payload[i] = <<m, i>>
  BY <1>1, <1>2, BeginningFacts
<1>4. \A i \in 1..Room : f.payload[i][1] = m
  BY <1>3
<1>5. QED
  BY <1>1, <1>2, <1>3, <1>4 DEF Holds

LEMMA MiddleHeld ==
  ASSUME NEW x, NEW f, NEW y, Reads(x, f, y), f.op = "cont", ~f.fin,
         held \in Seq(Byte), Holds(held, x)
  PROVE  Holds(held \o f.payload, y)
<1>1. PICK m \in Message, n \in Nat :
        /\ x = <<m, n>> /\ y = <<m, n + Room>> /\ n + Room < Size[m]
        /\ f.payload = SubSeq(Data(m), 1, Room)
  BY DEF Reads, ReadsWhole, ReadsFirst, ReadsMiddle, ReadsLast, ReadsPing
<1>2. Room \in Nat \ {0} /\ Size[m] \in Nat \ {0}
  BY Constants
<1>3. /\ f.payload \in Seq(Byte) /\ Len(f.payload) = Room
      /\ \A i \in 1..Room : f.payload[i] = <<m, i>>
  BY <1>1, <1>2, BeginningFacts
<1>4. Len(f.payload) = Room /\ \A i \in 1..Room : f.payload[i][1] = m
  BY <1>3
<1>5. Len(held) = n /\ Room <= n /\ \A i \in 1..n : held[i][1] = m
  BY <1>1 DEF Holds
<1>6. /\ Len(held \o f.payload) = n + Room
      /\ \A i \in 1..(n + Room) : (held \o f.payload)[i] =
           IF i <= n THEN held[i] ELSE f.payload[i - n]
  <2>1. /\ Len(held \o f.payload) = Len(held) + Len(f.payload)
        /\ \A i \in 1..(Len(held) + Len(f.payload)) : (held \o f.payload)[i] =
             IF i <= Len(held) THEN held[i] ELSE f.payload[i - Len(held)]
    BY <1>3, ConcatProperties
  <2>2. QED
    BY <1>4, <1>5, <2>1
<1>. DEFINE p == held \o f.payload
<1>. HIDE DEF p
<1>7. \A i \in 1..(n + Room) : p[i][1] = m
  <2>. TAKE i \in 1..(n + Room)
  <2>1. CASE i <= n
    BY <1>5, <1>6, <2>1 DEF p
  <2>2. CASE ~(i <= n)
    <3>1. i - n \in 1..Room
      BY <1>2, <2>2
    <3>2. QED
      BY <1>4, <1>6, <2>2, <3>1 DEF p
  <2>3. QED
    BY <2>1, <2>2
<1>8. /\ Len(p) = n + Room /\ Room <= n + Room /\ n + Room # Room
      /\ 2 * Room <= n + Room
  BY <1>2, <1>5, <1>6 DEF p
<1>9. Holds(p, y)
  BY <1>1, <1>7, <1>8 DEF Holds
<1>10. QED
  BY <1>9 DEF p

LEMMA LastHeld ==
  ASSUME NEW x, NEW f, NEW y, Reads(x, f, y), f.op = "cont", f.fin,
         held \in Seq(Byte), Holds(held, x)
  PROVE  /\ y = Nothing /\ Of(f) \in Message
         /\ held \o f.payload \in Seq(Byte) /\ Carries(held \o f.payload, Of(f))
<1>1. PICK m \in Message, n \in Nat :
        /\ x = <<m, n>> /\ n < Size[m] /\ Size[m] - n <= Room
        /\ f.payload = SubSeq(Data(m), n + 1, Size[m]) /\ y = Nothing
  BY DEF Reads, ReadsWhole, ReadsFirst, ReadsMiddle, ReadsLast, ReadsPing
<1>2. /\ Room \in Nat \ {0} /\ Size[m] \in Nat \ {0}
      /\ Data(m) \in Seq(Byte) /\ Len(Data(m)) = Size[m]
      /\ \A i \in 1..Size[m] : Data(m)[i] = <<m, i>>
  BY Constants, DataFacts
<1>. DEFINE r == Size[m] - n
            p == held \o f.payload
<1>3. /\ f.payload \in Seq(Byte) /\ Len(f.payload) = Size[m] - (n + 1) + 1
      /\ \A i \in 1..(Size[m] - (n + 1) + 1) : f.payload[i] = <<m, (n + 1) + i - 1>>
  BY <1>1, <1>2, PartFacts
<1>4. /\ r \in Nat \ {0} /\ r <= Room /\ Len(f.payload) = r
      /\ \A i \in 1..r : f.payload[i] = <<m, n + i>>
  <2>1. /\ Size[m] \in Nat /\ n \in Nat
        /\ n < Size[m] /\ Size[m] - n <= Room
    BY <1>1, <1>2
  <2>2. r \in Nat \ {0} /\ r <= Room /\ Size[m] - (n + 1) + 1 = r
    BY ONLY <2>1
  <2>3. Len(f.payload) = r /\ \A i \in 1..r : f.payload[i] = <<m, (n + 1) + i - 1>>
    <3>. HIDE DEF r
    <3>1. QED
      BY ONLY <1>3, <2>2
  <2>4. \A i \in Nat : (n + 1) + i - 1 = n + i
    BY ONLY <2>1
  <2>5. \A i \in 1..r : f.payload[i] = <<m, n + i>>
    <3>. TAKE i \in 1..r
    <3>1. i \in Nat
      BY ONLY <2>2, i \in 1..r
    <3>2. f.payload[i] = <<m, (n + 1) + i - 1>>
      BY ONLY <2>3, i \in 1..r
    <3>3. (n + 1) + i - 1 = n + i
      BY ONLY <2>4, <3>1
    <3>4. QED
      BY ONLY <3>2, <3>3
  <2>6. QED
    BY ONLY <2>2, <2>3, <2>5
<1>5. Of(f) = m
  BY <1>4 DEF Of
<1>6. /\ Len(held) = n /\ Room <= n /\ \A i \in 1..n : held[i][1] = m
      /\ n = Room => held = SubSeq(Data(m), 1, Room)
      /\ n # Room => 2 * Room <= n
  BY <1>1 DEF Holds
<1>7. /\ p \in Seq(Byte) /\ Len(p) = n + r
      /\ \A i \in 1..(n + r) : p[i] =
           IF i <= n THEN held[i] ELSE f.payload[i - n]
  <2>1. /\ p \in Seq(Byte) /\ Len(p) = Len(held) + Len(f.payload)
        /\ \A i \in 1..(Len(held) + Len(f.payload)) : p[i] =
             IF i <= Len(held) THEN held[i] ELSE f.payload[i - Len(held)]
    BY <1>3, ConcatProperties
  <2>2. Len(held) + Len(f.payload) = n + r
    BY <1>4, <1>6
  <2>. HIDE DEF p, r
  <2>3. QED
    BY <1>6, <2>1, <2>2
<1>. HIDE DEF p
<1>8. \A i \in 1..n : p[i] = held[i]
  <2>. TAKE i \in 1..n
  <2>1. i \in 1..(n + r) /\ i <= n
    BY ONLY n \in Nat, <1>4, i \in 1..n
  <2>2. QED
    BY ONLY <1>7, <2>1
<1>9. \A i \in (n + 1)..Size[m] : p[i] = <<m, i>>
  <2>. TAKE i \in (n + 1)..Size[m]
  <2>1. /\ i \in 1..(n + r) /\ ~(i <= n) /\ i - n \in 1..r /\ n + (i - n) = i
    BY <1>2, <1>4
  <2>2. p[i] = f.payload[i - n]
    BY <1>7, <2>1
  <2>3. f.payload[i - n] = <<m, n + (i - n)>>
    BY <1>4, <2>1
  <2>4. QED
    BY <2>1, <2>2, <2>3
<1>10. Len(p) = Size[m]
  BY <1>2, <1>4, <1>7
<1>11. Carries(p, m)
  <2>1. CASE Size[m] <= 2 * Room
    <3>1. n = Room /\ held = SubSeq(Data(m), 1, Room) /\ Room <= Size[m] /\ 1 <= Room
      BY <1>1, <1>2, <1>6, <2>1
    <3>3. \A i \in 1..n : held[i] = <<m, i>>
      BY <1>2, <3>1, BeginningFacts
    <3>4. \A i \in 1..Size[m] : p[i] = Data(m)[i]
      <4>. TAKE i \in 1..Size[m]
      <4>1. CASE i \in 1..n
        BY <1>2, <1>8, <3>3, <4>1
      <4>2. CASE i \in (n + 1)..Size[m]
        BY <1>2, <1>9, <4>2
      <4>3. QED
        BY <4>1, <4>2
    <3>5. p = Data(m)
      BY <1>2, <1>7, <1>10, <3>4, SeqEqual
    <3>6. QED
      BY <2>1, <3>5 DEF Carries
  <2>2. CASE ~(Size[m] <= 2 * Room)
    <3>1. DOMAIN p = 1..Size[m]
      BY <1>7, <1>10
    <3>2. \A i \in 1..Size[m] : p[i][1] = m
      <4>. TAKE i \in 1..Size[m]
      <4>1. CASE i \in 1..n
        BY <1>6, <1>8, <4>1
      <4>2. CASE i \in (n + 1)..Size[m]
        BY <1>9, <4>2
      <4>3. QED
        BY <4>1, <4>2
    <3>3. QED
      BY <1>10, <2>2, <3>1, <3>2 DEF Carries
  <2>3. QED
    BY <2>1, <2>2
<1>12. QED
  BY <1>1, <1>5, <1>7, <1>11 DEF p

LEMMA WholeHeld ==
  ASSUME NEW x, NEW f, NEW y, Reads(x, f, y), f.op = "data", f.fin
  PROVE  /\ y = Nothing /\ Of(f) \in Message
         /\ f.payload \in Seq(Byte) /\ Carries(f.payload, Of(f))
<1>1. PICK m \in Message : Size[m] <= Room /\ f.payload = Data(m) /\ y = Nothing
  BY DEF Reads, ReadsWhole, ReadsFirst, ReadsMiddle, ReadsLast, ReadsPing
<1>2. /\ Room \in Nat \ {0} /\ Size[m] \in Nat \ {0}
      /\ Data(m) \in Seq(Byte) /\ Data(m)[1] = <<m, 1>>
  BY Constants, DataFacts
<1>3. Of(f) = m
  BY <1>1, <1>2 DEF Of
<1>4. Carries(f.payload, m)
  BY <1>1, <1>2 DEF Carries
<1>5. QED
  BY <1>1, <1>2, <1>3, <1>4

-----------------------------------------------------------------------------
(* The order of what was sent.                                             *)

\* A message has one place in the programs.
LEMMA OnePlace ==
  ASSUME NEW s \in Sender, NEW t \in Sender,
         NEW j \in DOMAIN Program[s], NEW l \in DOMAIN Program[t],
         Program[s][j] = Program[t][l]
  PROVE  s = t /\ j = l
<1>1. Program[s][j] \in MessagesOf(s) /\ Program[t][l] \in MessagesOf(t)
  BY DEF MessagesOf, ToSet
<1>2. s = t
  BY <1>1, WsFramesAssumption DEF WsFramesAssumption
<1>3. IsInjective(Program[s])
  BY WsFramesAssumption DEF WsFramesAssumption
<1>4. QED
  BY <1>2, <1>3 DEF IsInjective

LEMMA BroughtOnce ==
  ASSUME NEW f, NEW s \in Sender, NEW t \in Sender, NEW j, NEW l,
         Brings(f, s, j), Brings(f, t, l)
  PROVE  s = t /\ j = l
<1>1. j \in DOMAIN Program[s] /\ l \in DOMAIN Program[t] /\ Program[s][j] = Program[t][l]
  BY DEF Brings
<1>2. QED
  BY <1>1, OnePlace

\* Which messages are settled after a step.
LEMMA SettledMeans ==
  ASSUME NEW m
  PROVE  Settled(m) <=> m \in failed \/ \E i \in DOMAIN delivered : MessageOf(delivered[i]) = m
BY DEF Settled, Received, ToSet

LEMMA SettledSame ==
  ASSUME UNCHANGED <<failed, delivered>>
  PROVE  Received' = Received /\ \A m : Settled(m)' <=> Settled(m)
<1>1. Received' = Received
  BY DEF Received
<1>2. QED
  BY <1>1 DEF Settled

LEMMA SettledArrived ==
  ASSUME delivered \in Seq(Seq(Byte)), NEW payload \in Seq(Byte), NEW m \in Message,
         MessageOf(payload) = m, delivered' = Append(delivered, payload), failed' = failed
  PROVE  Received' = Append(Received, m) /\ \A o : Settled(o)' <=> Settled(o) \/ o = m
<1>. DEFINE n == Len(delivered)
            R == [i \in 1..n |-> MessageOf(delivered[i])]
            Q == [i \in 1..(n + 1) |-> MessageOf(delivered'[i])]
<1>1. /\ n \in Nat /\ DOMAIN delivered = 1..n /\ DOMAIN delivered' = 1..(n + 1)
      /\ delivered'[n + 1] = payload /\ \A i \in 1..n : delivered'[i] = delivered[i]
  BY AppendProperties
<1>2. Received = R /\ Received' = Q
  BY <1>1 DEF Received
<1>3. \A p : MessageOf(p) \in Message \cup {Garbled}
  BY DEF MessageOf
<1>4. R \in Seq(Message \cup {Garbled}) /\ Len(R) = n
  BY <1>1, <1>3
<1>5. Append(R, m) \in Seq(Message \cup {Garbled}) /\ Len(Append(R, m)) = n + 1
  BY <1>4, AppendProperties
<1>6. Q \in Seq(Message \cup {Garbled}) /\ Len(Q) = n + 1
  BY <1>1, <1>3
<1>7. \A i \in 1..(n + 1) : Q[i] = Append(R, m)[i]
  <2>1. \A i \in 1..n : Append(R, m)[i] = R[i]
    BY <1>4, AppendProperties
  <2>2. Append(R, m)[n + 1] = m
    BY <1>4, AppendProperties
  <2>3. \A i \in 1..n : Q[i] = R[i]
    BY <1>1
  <2>4. Q[n + 1] = m
    BY <1>1
  <2>5. n \in Nat
    BY <1>1
  <2>. DEFINE A == Append(R, m)
  <2>6. (\A i \in 1..n : A[i] = R[i] /\ Q[i] = R[i]) /\ A[n + 1] = m /\ Q[n + 1] = m
    BY <2>1, <2>2, <2>3, <2>4
  <2>. HIDE DEF n, R, Q, A
  <2>7. ASSUME NEW i \in 1..(n + 1) PROVE Q[i] = A[i]
    <3>1. i \in 1..n \/ i = n + 1
      BY <2>5
    <3>2. QED
      BY <2>6, <3>1
  <2>8. QED
    BY <2>7 DEF A
<1>8. Received' = Append(Received, m)
  BY <1>2, <1>5, <1>6, <1>7, SeqEqual
<1>9. ASSUME NEW o PROVE Settled(o)' <=> Settled(o) \/ o = m
  <2>1. /\ Settled(o) <=> o \in failed \/ \E i \in 1..n : MessageOf(delivered[i]) = o
        /\ Settled(o)' <=> o \in failed \/ \E i \in 1..(n + 1) : MessageOf(delivered'[i]) = o
    BY <1>1, <1>2 DEF Settled, ToSet
  <2>. HIDE DEF n
  <2>2. QED
    BY <1>1, <2>1
<1>10. QED
  BY <1>8, <1>9

LEMMA SettledFailed ==
  ASSUME NEW m, failed' = failed \cup {m}, delivered' = delivered
  PROVE  Received' = Received /\ \A o : Settled(o)' <=> Settled(o) \/ o = m
<1>1. Received' = Received
  BY DEF Received
<1>2. QED
  BY <1>1 DEF Settled

-----------------------------------------------------------------------------
\* A frame that ends no message changes nothing in the order.
LEMMA QuietOrder ==
  ASSUME Order, wire \in Seq(Frame), NEW f \in Frame, ~Ends(f),
         wire' = IF up THEN Append(wire, f) ELSE wire,
         UNCHANGED <<up, cursor, failed, delivered>>
  PROVE  Order'
<1>. DEFINE n == Len(wire)
<1>1. \A m : Settled(m)' <=> Settled(m)
  BY SettledSame
<1>2. UnsentUnsettled'
  BY <1>1 DEF Order, UnsentUnsettled
<1>3. CASE ~up
  BY <1>2, <1>3 DEF Order, WireSent, WireInOrder, SentKnown
<1>4. CASE up
  <2>1. /\ n \in Nat /\ Len(wire') = n + 1 /\ wire'[n + 1] = f
        /\ \A i \in 1..n : wire'[i] = wire[i]
    BY <1>4, AppendProperties
  <2>. HIDE DEF n
  <2>2. \A i \in 1..Len(wire') : Ends(wire'[i]) => i \in 1..n /\ wire'[i] = wire[i]
    <3>. SUFFICES ASSUME NEW i \in 1..(n + 1), Ends(wire'[i])
                  PROVE  i \in 1..n /\ wire'[i] = wire[i]
      BY <2>1
    <3>1. i # n + 1
      BY <2>1
    <3>2. QED
      BY <2>1, <3>1
  <2>3. WireSent'
    BY <1>1, <1>4, <2>2 DEF Order, WireSent, n
  <2>4. WireInOrder'
    <3>. SUFFICES ASSUME NEW i \in 1..Len(wire'), NEW k \in 1..Len(wire'), NEW s \in Sender,
                         NEW j \in DOMAIN Program[s], NEW l \in DOMAIN Program[s], i < k,
                         Brings(wire'[i], s, j), Brings(wire'[k], s, l)
                  PROVE  j < l
      BY DEF WireInOrder, Brings, Ends, Of
    <3>1. i \in 1..n /\ wire'[i] = wire[i] /\ k \in 1..n /\ wire'[k] = wire[k]
      BY <2>2 DEF Brings
    <3>2. QED
      BY <1>4, <3>1 DEF Order, WireInOrder, n
  <2>5. SentKnown'
    <3>. SUFFICES ASSUME NEW s \in Sender, NEW j \in DOMAIN Program[s],
                         j < cursor[s], ~Settled(Program[s][j])
                  PROVE  \E i \in 1..Len(wire') : Brings(wire'[i], s, j)
      BY <1>1 DEF SentKnown, Brings, Ends, Of
    <3>1. PICK i \in 1..n : Brings(wire[i], s, j)
      BY <1>4 DEF Order, SentKnown, n
    <3>2. i \in 1..Len(wire') /\ wire'[i] = wire[i]
      BY <2>1
    <3>3. QED
      BY <3>1, <3>2
  <2>6. QED
    BY <1>2, <2>3, <2>4, <2>5 DEF Order
<1>5. QED
  BY <1>3, <1>4

\* send() returns, having written the frame that brings its message.
LEMMA SentOrder ==
  ASSUME Order, Inv, NEW s \in Sender, Sending(s),
         NEW f \in Frame, Ends(f), Of(f) = Current(s), Return(s),
         wire' = IF up THEN Append(wire, f) ELSE wire,
         UNCHANGED <<up, failed, delivered>>
  PROVE  Order'
<1>. DEFINE n == Len(wire)
            c == cursor[s]
<1>1. \A m : Settled(m)' <=> Settled(m)
  BY SettledSame
<1>2. /\ \A t \in Sender : cursor[t] \in Nat \ {0} /\ cursor'[t] \in Nat \ {0}
      /\ cursor'[s] = c + 1 /\ \A t \in Sender : t # s => cursor'[t] = cursor[t]
  BY DEF Return, Inv, Types
<1>3. c \in DOMAIN Program[s] /\ Current(s) = Program[s][c] /\ Brings(f, s, c)
  BY DEF Sending, Current, Brings
<1>4. \A t \in Sender : \A l : Brings(f, t, l) => t = s /\ l = c
  BY <1>3, BroughtOnce
<1>5. \A t \in Sender : cursor[t] <= cursor'[t]
  BY <1>2
<1>6. UnsentUnsettled'
  <2>. SUFFICES ASSUME NEW t \in Sender, NEW j \in DOMAIN Program[t], j >= cursor'[t]
                PROVE  ~Settled(Program[t][j])
    BY <1>1 DEF UnsentUnsettled
  <2>1. Program[t] \in Seq(Message)
    BY Constants
  <2>2. j \in Nat
    BY <2>1
  <2>3. j >= cursor[t]
    BY <1>2, <1>5, <2>2
  <2>4. QED
    BY <2>3 DEF Order, UnsentUnsettled
<1>7. CASE ~up
  BY <1>6, <1>7 DEF Order, WireSent, WireInOrder, SentKnown
<1>8. CASE up
  <2>1. /\ n \in Nat /\ Len(wire') = n + 1 /\ wire'[n + 1] = f
        /\ \A i \in 1..n : wire'[i] = wire[i]
    BY <1>8, AppendProperties DEF Inv, Types
  <2>2. ~Settled(Program[s][c])
    BY <1>2, <1>3 DEF Order, UnsentUnsettled
  <2>. HIDE DEF n, c
  <2>3. \A i \in 1..n : \A t \in Sender : \A j : Brings(wire[i], t, j) =>
          j \in 1..(cursor[t] - 1)
    <3>. SUFFICES ASSUME NEW i \in 1..n, NEW t \in Sender, NEW j, Brings(wire[i], t, j)
                  PROVE  j \in 1..(cursor[t] - 1)
      OBVIOUS
    <3>1. PICK u \in Sender : \E l \in 1..(cursor[u] - 1) : Brings(wire[i], u, l)
      BY <1>8 DEF Order, WireSent, n, Brings
    <3>2. PICK l \in 1..(cursor[u] - 1) : Brings(wire[i], u, l)
      BY <3>1
    <3>3. u = t /\ l = j
      BY <3>2, BroughtOnce
    <3>4. QED
      BY <3>2, <3>3
  <2>4. WireSent'
    <3>. SUFFICES ASSUME NEW i \in 1..(n + 1), Ends(wire'[i])
                  PROVE  \E t \in Sender : \E j \in 1..(cursor'[t] - 1) :
                           Brings(wire'[i], t, j) /\ ~Settled(Program[t][j])
      BY <1>1, <2>1 DEF WireSent, Brings, Ends, Of
    <3>1. CASE i = n + 1
      <4>1. c \in 1..(cursor'[s] - 1)
        BY <1>2, <1>3 DEF c
      <4>2. Brings(wire'[i], s, c)
        BY <1>3, <2>1, <3>1
      <4>3. QED
        BY <2>2, <4>1, <4>2
    <3>2. CASE i \in 1..n
      <4>1. wire'[i] = wire[i]
        BY <2>1, <3>2
      <4>2. PICK t \in Sender : \E j \in 1..(cursor[t] - 1) :
              Brings(wire[i], t, j) /\ ~Settled(Program[t][j])
        BY <1>8, <2>1, <3>2, <4>1 DEF Order, WireSent, n
      <4>3. 1..(cursor[t] - 1) \subseteq 1..(cursor'[t] - 1)
        BY <1>2, <1>5
      <4>4. QED
        BY <4>1, <4>2, <4>3
    <3>3. QED
      BY <2>1, <3>1, <3>2
  <2>5. WireInOrder'
    <3>. SUFFICES ASSUME NEW i \in 1..(n + 1), NEW k \in 1..(n + 1), NEW t \in Sender,
                         NEW j \in DOMAIN Program[t], NEW l \in DOMAIN Program[t], i < k,
                         Brings(wire'[i], t, j), Brings(wire'[k], t, l)
                  PROVE  j < l
      BY <2>1 DEF WireInOrder, Brings, Ends, Of
    <3>1. i \in 1..n /\ wire'[i] = wire[i]
      BY <2>1
    <3>2. CASE k = n + 1
      <4>1. t = s /\ l = c
        BY <1>4, <2>1, <3>2
      <4>2. j \in 1..(cursor[s] - 1)
        BY <2>3, <3>1, <4>1
      <4>3. QED
        BY <1>2, <4>1, <4>2 DEF c
    <3>3. CASE k \in 1..n
      <4>1. wire'[k] = wire[k]
        BY <2>1, <3>3
      <4>2. QED
        BY <1>8, <3>1, <3>3, <4>1 DEF Order, WireInOrder, n
    <3>4. QED
      BY <2>1, <3>2, <3>3
  <2>6. SentKnown'
    <3>. SUFFICES ASSUME NEW t \in Sender, NEW j \in DOMAIN Program[t],
                         j < cursor'[t], ~Settled(Program[t][j])
                  PROVE  \E i \in 1..(n + 1) : Brings(wire'[i], t, j)
      BY <1>1, <2>1 DEF SentKnown, Brings, Ends, Of
    <3>1. CASE t = s /\ j = c
      BY <1>3, <2>1, <3>1
    <3>2. CASE ~(t = s /\ j = c)
      <4>1. Program[t] \in Seq(Message)
        BY Constants
      <4>2. j \in Nat
        BY <4>1
      <4>3. j < cursor[t]
        BY <1>2, <3>2, <4>2 DEF c
      <4>4. PICK i \in 1..n : Brings(wire[i], t, j)
        BY <1>8, <4>3 DEF Order, SentKnown, n
      <4>5. i \in 1..(n + 1) /\ wire'[i] = wire[i]
        BY <2>1
      <4>6. QED
        BY <4>4, <4>5
    <3>3. QED
      BY <3>1, <3>2
  <2>7. QED
    BY <1>6, <2>4, <2>5, <2>6 DEF Order
<1>9. QED
  BY <1>7, <1>8

\* send() returns false.
LEMMA FailedOrder ==
  ASSUME Order, Inv, NEW s \in Sender, Sending(s), Return(s),
         failed' = failed \cup {Current(s)}, UNCHANGED <<up, wire, delivered>>
  PROVE  Order'
<1>. DEFINE c == cursor[s]
<1>1. \A m : Settled(m)' <=> Settled(m) \/ m = Current(s)
  BY SettledFailed
<1>2. /\ \A t \in Sender : cursor[t] \in Nat \ {0} /\ cursor'[t] \in Nat \ {0}
      /\ cursor'[s] = c + 1 /\ \A t \in Sender : t # s => cursor'[t] = cursor[t]
  BY DEF Return, Inv, Types
<1>3. c \in DOMAIN Program[s] /\ Current(s) = Program[s][c]
  BY DEF Sending, Current
<1>4. \A t \in Sender : \A j \in DOMAIN Program[t] : j \in Nat
  BY Constants
<1>5. \A t \in Sender : \A j \in DOMAIN Program[t] :
        Program[t][j] = Current(s) => t = s /\ j = c
  BY <1>3, OnePlace
<1>. HIDE DEF c
<1>6. UnsentUnsettled'
  <2>. SUFFICES ASSUME NEW t \in Sender, NEW j \in DOMAIN Program[t], j >= cursor'[t]
                PROVE  ~Settled(Program[t][j]) /\ Program[t][j] # Current(s)
    BY <1>1 DEF UnsentUnsettled
  <2>1. j >= cursor[t] /\ (t = s => j # c)
    BY <1>2, <1>4 DEF c
  <2>2. QED
    BY <1>5, <2>1 DEF Order, UnsentUnsettled
<1>7. WireSent'
  <2>. SUFFICES ASSUME up, NEW i \in 1..Len(wire), Ends(wire[i])
                PROVE  \E t \in Sender : \E j \in 1..(cursor'[t] - 1) :
                         /\ Brings(wire[i], t, j) /\ ~Settled(Program[t][j])
                         /\ Program[t][j] # Current(s)
    BY <1>1 DEF WireSent, Brings, Ends, Of
  <2>1. PICK t \in Sender : \E j \in 1..(cursor[t] - 1) :
          Brings(wire[i], t, j) /\ ~Settled(Program[t][j])
    BY DEF Order, WireSent
  <2>2. PICK j \in 1..(cursor[t] - 1) : Brings(wire[i], t, j) /\ ~Settled(Program[t][j])
    BY <2>1
  <2>3. j \in 1..(cursor'[t] - 1) /\ (t = s => j # c)
    BY <1>2 DEF c
  <2>4. Program[t][j] # Current(s)
    BY <1>5, <2>2, <2>3 DEF Brings
  <2>5. QED
    BY <2>2, <2>3, <2>4
<1>8. WireInOrder'
  BY DEF Order, WireInOrder, Brings, Ends, Of
<1>9. SentKnown'
  <2>. SUFFICES ASSUME up, NEW t \in Sender, NEW j \in DOMAIN Program[t], j < cursor'[t],
                       ~Settled(Program[t][j]), Program[t][j] # Current(s)
                PROVE  \E i \in 1..Len(wire) : Brings(wire[i], t, j)
    BY <1>1 DEF SentKnown, Brings, Ends, Of
  <2>1. ~(t = s /\ j = c)
    BY <1>3
  <2>2. j < cursor[t]
    BY <1>2, <1>4, <2>1 DEF c
  <2>3. QED
    BY <2>2 DEF Order, SentKnown
<1>10. QED
  BY <1>6, <1>7, <1>8, <1>9 DEF Order

\* The frame at the head is read: it ends no message, or the one it ends arrives.
LEMMA ReadOrder ==
  ASSUME Order, Inv, up, wire # <<>>, wire' = Tail(wire), UNCHANGED <<up, cursor>>,
         NEW arrives, Ends(Head(wire)) => arrives = {Of(Head(wire))},
         ~Ends(Head(wire)) => arrives = {},
         \A m : Settled(m)' <=> Settled(m) \/ m \in arrives
  PROVE  Order'
<1>. DEFINE n == Len(wire)
<1>1. /\ n \in Nat \ {0} /\ Len(wire') = n - 1 /\ Head(wire) = wire[1]
      /\ \A i \in 1..(n - 1) : wire'[i] = wire[i + 1]
  BY HeadTailProperties DEF Inv, Types
<1>2. \A t \in Sender : cursor[t] \in Nat \ {0}
  BY DEF Inv, Types
<1>. HIDE DEF n
<1>3. \A i \in 1..n : \A t \in Sender : \A j : Brings(wire[i], t, j) =>
        j \in 1..(cursor[t] - 1) /\ ~Settled(Program[t][j])
  <2>. SUFFICES ASSUME NEW i \in 1..n, NEW t \in Sender, NEW j, Brings(wire[i], t, j)
                PROVE  j \in 1..(cursor[t] - 1) /\ ~Settled(Program[t][j])
    OBVIOUS
  <2>1. PICK u \in Sender : \E l \in 1..(cursor[u] - 1) :
          Brings(wire[i], u, l) /\ ~Settled(Program[u][l])
    BY DEF Order, WireSent, n, Brings
  <2>2. PICK l \in 1..(cursor[u] - 1) : Brings(wire[i], u, l) /\ ~Settled(Program[u][l])
    BY <2>1
  <2>3. u = t /\ l = j
    BY <2>2, BroughtOnce
  <2>4. QED
    BY <2>2, <2>3
\* The message that arrives is brought by the first frame and by no other.
<1>4. ASSUME NEW t \in Sender, NEW j \in DOMAIN Program[t], Program[t][j] \in arrives
      PROVE  Brings(wire[1], t, j)
  BY <1>1, <1>4 DEF Brings
<1>5. ASSUME NEW i \in 2..n, NEW t \in Sender, NEW j, Brings(wire[i], t, j)
      PROVE  Program[t][j] \notin arrives
  <2>. SUFFICES ASSUME Program[t][j] \in arrives PROVE FALSE
    OBVIOUS
  <2>1. Program[t] \in Seq(Message) /\ j \in DOMAIN Program[t]
    BY <1>5, Constants DEF Brings
  <2>2. j \in Nat
    BY <2>1
  <2>3. Brings(wire[1], t, j) /\ 1 \in 1..n /\ i \in 1..n /\ 1 < i
    BY <1>1, <1>4, <2>1
  <2>4. j < j
    BY <1>5, <2>1, <2>3 DEF Order, WireInOrder, n
  <2>5. QED
    BY <2>2, <2>4
<1>6. UnsentUnsettled'
  <2>. SUFFICES ASSUME NEW t \in Sender, NEW j \in DOMAIN Program[t], j >= cursor[t]
                PROVE  ~Settled(Program[t][j]) /\ Program[t][j] \notin arrives
    BY DEF UnsentUnsettled
  <2>1. ~Settled(Program[t][j])
    BY DEF Order, UnsentUnsettled
  <2>2. ASSUME Program[t][j] \in arrives PROVE FALSE
    <3>1. Brings(wire[1], t, j) /\ 1 \in 1..n
      BY <1>1, <1>4, <2>2
    <3>2. j \in 1..(cursor[t] - 1)
      BY <1>3, <3>1
    <3>3. QED
      BY <1>2, <3>2
  <2>3. QED
    BY <2>1, <2>2
<1>7. \A i \in 1..(n - 1) : wire'[i] = wire[i + 1] /\ i + 1 \in 2..n /\ i + 1 \in 1..n
  BY <1>1
<1>8. WireSent'
  <2>. SUFFICES ASSUME NEW i \in 1..(n - 1), Ends(wire'[i])
                PROVE  \E t \in Sender : \E j \in 1..(cursor[t] - 1) :
                         /\ Brings(wire'[i], t, j) /\ ~Settled(Program[t][j])
                         /\ Program[t][j] \notin arrives
    BY <1>1 DEF WireSent, Brings, Ends, Of
  <2>1. wire'[i] = wire[i + 1] /\ i + 1 \in 2..n /\ i + 1 \in 1..n
    BY <1>7
  <2>2. PICK t \in Sender : \E j \in 1..(cursor[t] - 1) :
          Brings(wire[i + 1], t, j) /\ ~Settled(Program[t][j])
    BY <2>1 DEF Order, WireSent, n
  <2>3. PICK j \in 1..(cursor[t] - 1) :
          Brings(wire[i + 1], t, j) /\ ~Settled(Program[t][j])
    BY <2>2
  <2>4. Program[t][j] \notin arrives
    BY <1>5, <2>1, <2>3
  <2>5. QED
    BY <2>1, <2>3, <2>4
<1>9. WireInOrder'
  <2>. SUFFICES ASSUME NEW i \in 1..(n - 1), NEW k \in 1..(n - 1), NEW t \in Sender,
                       NEW j \in DOMAIN Program[t], NEW l \in DOMAIN Program[t], i < k,
                       Brings(wire'[i], t, j), Brings(wire'[k], t, l)
                PROVE  j < l
    BY <1>1 DEF WireInOrder, Brings, Ends, Of
  <2>1. /\ wire'[i] = wire[i + 1] /\ wire'[k] = wire[k + 1]
        /\ i + 1 \in 1..n /\ k + 1 \in 1..n /\ i + 1 < k + 1
    BY <1>1, <1>7
  <2>2. QED
    BY <2>1 DEF Order, WireInOrder, n
<1>10. ASSUME NEW t \in Sender, NEW j \in DOMAIN Program[t], j < cursor[t],
              ~Settled(Program[t][j]), Program[t][j] \notin arrives
       PROVE  \E i \in 1..(n - 1) : Brings(wire'[i], t, j)
  <2>1. PICK i \in 1..n : Brings(wire[i], t, j)
    BY <1>10 DEF Order, SentKnown, n
  <2>2. i # 1
    BY <1>1, <1>10, <2>1 DEF Brings
  <2>3. i - 1 \in 1..(n - 1) /\ (i - 1) + 1 = i
    BY <1>1, <2>2
  <2>4. wire'[i - 1] = wire[i]
    BY <1>7, <2>3
  <2>5. QED
    BY <2>1, <2>3, <2>4
<1>11. SentKnown'
  <2>1. \A t \in Sender : \A j \in DOMAIN Program[t] :
          j < cursor[t] /\ ~Settled(Program[t][j])' => \E i \in 1..Len(wire') : Brings(wire'[i], t, j)
    BY <1>1, <1>10
  <2>2. QED
    BY <2>1 DEF SentKnown, Brings, Ends, Of
<1>12. QED
  BY <1>6, <1>8, <1>9, <1>11 DEF Order

\* The receiving end disconnects.
LEMMA TornOrder ==
  ASSUME Order, ~up', UNCHANGED <<cursor, failed, delivered>>
  PROVE  Order'
<1>1. \A m : Settled(m)' <=> Settled(m)
  BY SettledSame
<1>2. QED
  BY <1>1 DEF Order, WireSent, WireInOrder, SentKnown, UnsentUnsettled

-----------------------------------------------------------------------------
(* The whole invariant, and the step of WsMessages behind every step.      *)

LEMMA InitWhole == Init => WholeInv
<1>. SUFFICES ASSUME Init PROVE WholeInv
  OBVIOUS
<1>1. /\ cursor = [s \in Sender |-> 1] /\ left = [s \in Sender |-> 0] /\ failed = {}
      /\ wire = <<>> /\ up = TRUE /\ held = <<>> /\ delivered = <<>>
  BY DEF Init
<1>2. PayloadsTyped
  BY <1>1, EmptySeq DEF PayloadsTyped
<1>3. Story
  <2>. DEFINE h == [i \in 0..0 |-> Nothing]
  <2>1. Nothing \in Reading /\ Len(wire) = 0
    BY <1>1 DEF Nothing, Reading
  <2>2. h \in [0..Len(wire) -> Reading] /\ h[0] = Nothing
    BY <2>1
  <2>. HIDE DEF h
  <2>3. Follows(h, wire)
    BY <2>1, <2>2 DEF Follows
  <2>4. Midway(h[Len(wire)])
    BY <1>1 DEF Midway
  <2>5. QED
    BY <2>2, <2>3, <2>4, HoldsNothing DEF Story
<1>4. \A m : ~Settled(m)
  BY <1>1, SettledMeans
<1>5. WireSent /\ WireInOrder
  BY <1>1 DEF WireSent, WireInOrder
<1>6. UnsentUnsettled
  BY <1>4 DEF UnsentUnsettled
<1>7. SentKnown
  <2>. SUFFICES ASSUME NEW s \in Sender, NEW j \in DOMAIN Program[s] PROVE ~(j < cursor[s])
    BY DEF SentKnown
  <2>1. Program[s] \in Seq(Message)
    BY Constants
  <2>2. QED
    BY <1>1, <2>1
<1>8. QED
  BY <1>2, <1>3, <1>5, <1>6, <1>7, InitInv DEF WholeInv, Order

\* Of WsMessages: a step does nothing to pending, received and failed.
Pending == [s \in Sender |-> {m \in MessagesOf(s) : ~Settled(m)}]
Stutters == UNCHANGED <<Pending, Received, failed>>

LEMMA SameStutters ==
  ASSUME UNCHANGED <<failed, delivered>>
  PROVE  Stutters
<1>1. Received' = Received /\ \A m : Settled(m)' <=> Settled(m)
  BY SettledSame
<1>2. QED
  BY <1>1 DEF Stutters, Pending

LEMMA IntactSame == (Intact <=> Intact') => Intact' = Intact
BY DEF Intact

\* A send that fails settles its message.
LEMMA FailsAsPromised ==
  ASSUME Intact, Intact', WholeInv, NEW s \in Sender, SendFails(s), Sending(s)
  PROVE  WsMessagesOf!Next
<1>. DEFINE m == Current(s)
            P(t) == {o \in MessagesOf(t) : ~Settled(o)}
<1>1. failed' = failed \cup {m} /\ delivered' = delivered
  BY DEF SendFails, receiving
<1>2. Received' = Received /\ \A o : Settled(o)' <=> Settled(o) \/ o = m
  BY <1>1, SettledFailed
<1>3. cursor[s] \in DOMAIN Program[s] /\ m = Program[s][cursor[s]] /\ cursor[s] \in Nat
  BY DEF Sending, Current, WholeInv, Inv, Types
<1>4. m \in P(s)
  <2>1. m \in MessagesOf(s)
    BY <1>3 DEF MessagesOf, ToSet
  <2>2. ~Settled(m)
    BY <1>3 DEF WholeInv, Order, UnsentUnsettled
  <2>3. QED
    BY <2>1, <2>2
<1>5. \A t \in Sender : t # s => m \notin MessagesOf(t)
  BY <1>4, WsFramesAssumption DEF WsFramesAssumption
<1>6. [t \in Sender |-> {o \in MessagesOf(t) : ~Settled(o)'}]
        = [[t \in Sender |-> P(t)] EXCEPT ![s] = P(s) \ {m}]
  BY <1>2, <1>4, <1>5
<1>7. WsMessagesOf!Fail(s, m)
  BY <1>1, <1>2, <1>4, <1>6, IntactSame DEF WsMessagesOf!Fail, WsMessagesOf!Settle
<1>8. QED
  BY <1>4, <1>7 DEF WsMessagesOf!Next

\* A message handed on arrives after those that its sender sent before.
LEMMA ArrivesAsPromised ==
  ASSUME Intact, Intact', WholeInv, up, wire # <<>>, Ends(Head(wire)),
         NEW payload \in Seq(Byte), Of(Head(wire)) \in Message, Carries(payload, Of(Head(wire))),
         delivered' = Append(delivered, payload), failed' = failed
  PROVE  WsMessagesOf!Next /\ \A o : Settled(o)' <=> Settled(o) \/ o = Of(Head(wire))
<1>. DEFINE m == Of(Head(wire))
            P(t) == {o \in MessagesOf(t) : ~Settled(o)}
            n == Len(wire)
<1>1. MessageOf(payload) = m
  BY CarriesOne
<1>2. Received' = Append(Received, m) /\ \A o : Settled(o)' <=> Settled(o) \/ o = m
  BY <1>1, SettledArrived DEF WholeInv, PayloadsTyped
<1>3. n \in Nat /\ 1 \in 1..n /\ Head(wire) = wire[1]
  BY DEF WholeInv, Inv, Types
<1>. HIDE DEF n
<1>4. PICK s \in Sender : \E j \in 1..(cursor[s] - 1) :
        Brings(wire[1], s, j) /\ ~Settled(Program[s][j])
  BY <1>3 DEF WholeInv, Order, WireSent, n
<1>5. PICK j \in 1..(cursor[s] - 1) : Brings(wire[1], s, j) /\ ~Settled(Program[s][j])
  BY <1>4
<1>6. j \in DOMAIN Program[s] /\ Program[s][j] = m
  BY <1>3, <1>5 DEF Brings
<1>7. m \in P(s)
  BY <1>5, <1>6 DEF MessagesOf, ToSet
<1>8. \A t \in Sender : t # s => m \notin MessagesOf(t)
  BY <1>7, WsFramesAssumption DEF WsFramesAssumption
<1>9. [t \in Sender |-> {o \in MessagesOf(t) : ~Settled(o)'}]
        = [[t \in Sender |-> P(t)] EXCEPT ![s] = P(s) \ {m}]
  BY <1>2, <1>7, <1>8
<1>10. ASSUME NEW i \in DOMAIN Program[s], NEW l \in DOMAIN Program[s],
              Program[s][i] = m, Program[s][l] \in P(s)
       PROVE  i <= l
  <2>1. i = j
    BY <1>6, <1>10, OnePlace
  <2>2. Program[s] \in Seq(Message) /\ cursor[s] \in Nat
    BY Constants DEF WholeInv, Inv, Types
  <2>3. l \in Nat /\ j \in Nat /\ j < cursor[s]
    BY <2>2
  <2>4. CASE l >= cursor[s]
    BY <2>1, <2>2, <2>3, <2>4
  <2>5. CASE l < cursor[s]
    <3>1. ~Settled(Program[s][l])
      BY <1>10
    <3>2. PICK k \in 1..n : Brings(wire[k], s, l)
      BY <2>5, <3>1 DEF WholeInv, Order, SentKnown, n
    <3>3. CASE k = 1
      <4>1. l = j
        BY <1>5, <3>2, <3>3, BroughtOnce
      <4>2. QED
        BY <2>1, <2>3, <4>1
    <3>4. CASE k # 1
      <4>1. 1 < k
        BY <1>3, <3>4
      <4>2. j < l
        BY <1>3, <1>5, <1>6, <3>2, <4>1 DEF WholeInv, Order, WireInOrder, n
      <4>3. QED
        BY <2>1, <2>3, <4>2
    <3>5. QED
      BY <3>3, <3>4
  <2>6. QED
    BY <2>2, <2>3, <2>4, <2>5
<1>. HIDE DEF m
<1>11. WsMessagesOf!Foremost(s, m)
  BY <1>10 DEF WsMessagesOf!Foremost
<1>12. WsMessagesOf!Arrive(s, m)
  BY <1>2, <1>7, <1>9, <1>11, IntactSame DEF WsMessagesOf!Arrive, WsMessagesOf!Settle
<1>13. WsMessagesOf!Next
  BY <1>7, <1>12 DEF WsMessagesOf!Next
<1>14. QED
  BY <1>2, <1>13 DEF m

-----------------------------------------------------------------------------
(* One lemma per action.                                                   *)

LEMMA WriteTyped ==
  ASSUME WholeInv, NEW fin, NEW op, NEW payload, Write(fin, op, payload)
  PROVE  PayloadsTyped' /\ delivered' = delivered
BY DEF Write, receiving, WholeInv, PayloadsTyped

LEMMA WholeMessageWhole ==
  ASSUME Intact', WholeInv, NEW s \in Sender, WholeMessage(s)
  PROVE  WholeInv' /\ Stutters
<1>. DEFINE m == Current(s)
            f == [fin |-> TRUE, op |-> "data", payload |-> Data(m)]
<1>1. /\ Inv /\ Inv' /\ PayloadsTyped' /\ delivered' = delivered /\ failed' = failed
      /\ Sending(s) /\ Return(s) /\ Size[m] <= Room /\ \A t \in Sender : left[t] = 0
  BY WholeMessageInv, WriteTyped, BegunAlone DEF WholeMessage, MayBegin, WholeInv
<1>2. m \in Message /\ Data(m) \in Seq(Byte) /\ Data(m)[1] = <<m, 1>>
  BY <1>1, PayloadTypes, DataFacts
<1>3. f \in Frame /\ Of(f) = m /\ Ends(f)
  BY <1>2 DEF Frame, Of, Ends
<1>4. wire' = (IF up THEN Append(wire, f) ELSE wire) /\ UNCHANGED <<up, receiving>>
  BY DEF WholeMessage, Write
<1>5. \A x : Reads(x, f, Nothing)
  BY <1>1, <1>2 DEF Reads, ReadsWhole
<1>6. \A t \in Sender : left'[t] = 0
  BY <1>1 DEF Return, WholeInv, Inv, Types
<1>7. Midway(Nothing)'
  BY <1>6 DEF Midway
<1>. HIDE DEF f
<1>8. Story'
  BY <1>3, <1>4, <1>5, <1>7, WriteStory
<1>9. Order'
  BY <1>1, <1>3, <1>4, SentOrder DEF WholeInv
<1>10. QED
  BY <1>1, <1>8, <1>9, SameStutters DEF WholeInv

LEMMA FirstFragmentWhole ==
  ASSUME Intact', WholeInv, NEW s \in Sender, FirstFragment(s)
  PROVE  WholeInv' /\ Stutters
<1>. DEFINE f == [fin |-> FALSE, op |-> "data", payload |-> Beginning(s)]
<1>0. PICK m : m = Current(s)
  OBVIOUS
<1>1. /\ Inv /\ Inv' /\ PayloadsTyped' /\ delivered' = delivered /\ failed' = failed
      /\ Sending(s) /\ Size[m] > Room /\ \A t \in Sender : left[t] = 0
      /\ cursor' = cursor /\ left' = [left EXCEPT ![s] = Size[m] - Room]
  BY <1>0, FirstFragmentInv, WriteTyped, BegunAlone DEF FirstFragment, MayBegin, WholeInv
<1>2. m \in Message /\ Size[m] \in Nat /\ Room \in Nat /\ f \in Frame
  BY <1>0, <1>1, Constants, PayloadTypes DEF Frame
<1>3. ~Ends(f)
  BY DEF Ends
<1>4. wire' = (IF up THEN Append(wire, f) ELSE wire) /\ UNCHANGED <<up, receiving>>
  BY DEF FirstFragment, Write
<1>5. \A x : Reads(x, f, <<m, Room>>)
  BY <1>0, <1>1, <1>2 DEF Reads, ReadsFirst, Beginning
<1>6. /\ \A t \in Sender : t # s => left'[t] = 0
      /\ Size[m] - left'[s] = Room /\ Current(s)' = m
  <2>1. left \in [Sender -> Nat]
    BY DEF WholeInv, Inv, Types
  <2>2. left'[s] = Size[m] - Room /\ \A t \in Sender : t # s => left'[t] = 0
    BY <1>1, <2>1
  <2>3. Current(s)' = m
    BY <1>0, <1>1 DEF Current
  <2>4. QED
    BY <1>2, <2>2, <2>3
<1>. HIDE DEF f
<1>7. Midway(<<m, Room>>)'
  BY <1>6 DEF Midway
<1>8. Story'
  BY <1>2, <1>4, <1>5, <1>7, WriteStory
<1>9. Order'
  BY <1>1, <1>2, <1>3, <1>4, QuietOrder DEF WholeInv, Inv, Types
<1>10. QED
  BY <1>1, <1>8, <1>9, SameStutters DEF WholeInv

LEMMA MiddleFragmentWhole ==
  ASSUME WholeInv, NEW s \in Sender, MiddleFragment(s)
  PROVE  WholeInv' /\ Stutters
<1>. DEFINE f == [fin |-> FALSE, op |-> "cont", payload |-> Beginning(s)]
<1>1. PICK m, n : m = Current(s) /\ n = Size[m] - left[s]
  OBVIOUS
<1>2. /\ Inv /\ Inv' /\ PayloadsTyped' /\ delivered' = delivered /\ failed' = failed
      /\ left[s] > Room /\ cursor' = cursor /\ left' = [left EXCEPT ![s] = @ - Room]
  BY MiddleFragmentInv, WriteTyped DEF MiddleFragment, WholeInv
<1>3. /\ left \in [Sender -> Nat] /\ Room \in Nat \ {0} /\ left[s] > 0
      /\ Sending(s) /\ left[s] + Room <= Size[m]
      /\ \A t \in Sender : t # s => left[t] = 0
  BY <1>1, <1>2, Constants DEF Inv, Types, InMessage, OneInMessage
<1>4. m \in Message /\ Size[m] \in Nat /\ n \in Nat
  BY <1>1, <1>3, PayloadTypes DEF WholeInv
<1>5. Beginning(s) \in Seq(Byte)
  BY <1>1, <1>3, <1>4, PayloadTypes DEF WholeInv
<1>6. f \in Frame /\ ~Ends(f)
  BY <1>5 DEF Frame, Ends
<1>7. wire' = (IF up THEN Append(wire, f) ELSE wire) /\ UNCHANGED <<up, receiving>>
  BY DEF MiddleFragment, Write
<1>8. n + Room < Size[m] /\ f.payload = SubSeq(Data(m), 1, Room)
  BY <1>1, <1>2, <1>3, <1>4 DEF Beginning
<1>9. ReadsMiddle(<<m, n>>, f, <<m, n + Room>>)
  BY <1>4, <1>8 DEF ReadsMiddle
<1>10. \A x : Midway(x) => x = <<m, n>>
  BY <1>1, <1>3 DEF Midway
<1>11. /\ \A t \in Sender : t # s => left'[t] = 0
       /\ Size[m] - left'[s] = n + Room /\ Current(s)' = m
  <2>1. left'[s] = left[s] - Room /\ \A t \in Sender : t # s => left'[t] = 0
    BY <1>2, <1>3
  <2>2. Current(s)' = m
    BY <1>1, <1>2 DEF Current
  <2>3. left[s] \in Nat
    BY <1>3
  <2>4. QED
    BY <1>1, <1>3, <1>4, <2>1, <2>2, <2>3
<1>. HIDE DEF f
<1>12. Midway(<<m, n + Room>>)'
  BY <1>11 DEF Midway
<1>13. \A x \in Reading : Midway(x) => \E y : Reads(x, f, y) /\ Midway(y)'
  BY <1>9, <1>10, <1>12 DEF Reads
<1>14. Story'
  BY <1>6, <1>7, <1>13, WriteStory
<1>15. Order'
  BY <1>2, <1>6, <1>7, QuietOrder DEF WholeInv, Inv, Types
<1>16. QED
  BY <1>2, <1>14, <1>15, SameStutters DEF WholeInv

LEMMA LastFragmentWhole ==
  ASSUME WholeInv, NEW s \in Sender, LastFragment(s)
  PROVE  WholeInv' /\ Stutters
<1>. DEFINE f == [fin |-> TRUE, op |-> "cont", payload |-> Remaining(s)]
<1>1. PICK m, n : m = Current(s) /\ n = Size[m] - left[s]
  OBVIOUS
<1>2. /\ Inv /\ Inv' /\ PayloadsTyped' /\ delivered' = delivered /\ failed' = failed
      /\ left[s] \in 1..Room /\ Return(s)
  BY LastFragmentInv, WriteTyped DEF LastFragment, WholeInv
<1>3. /\ left \in [Sender -> Nat] /\ Room \in Nat \ {0} /\ left[s] > 0 /\ left[s] <= Room
      /\ Sending(s) /\ left[s] + Room <= Size[m]
      /\ \A t \in Sender : t # s => left[t] = 0
  BY <1>1, <1>2, Constants DEF Inv, Types, InMessage, OneInMessage
<1>4. /\ m \in Message /\ Size[m] \in Nat /\ n \in Nat /\ n < Size[m]
      /\ Size[m] - n <= Room
  BY <1>1, <1>3, PayloadTypes DEF WholeInv
<1>5. Remaining(s) = SubSeq(Data(m), n + 1, Size[m]) /\ Remaining(s) \in Seq(Byte)
  BY <1>1, <1>3, PayloadTypes DEF Remaining, WholeInv
<1>6. f \in Frame /\ Ends(f)
  BY <1>5 DEF Frame, Ends
<1>7. Of(f) = m
  <2>1. n + 1 \in Nat \ {0} /\ n + 1 <= Size[m] /\ Size[m] <= Size[m]
    BY <1>4
  <2>2. \A i \in 1..(Size[m] - (n + 1) + 1) :
          SubSeq(Data(m), n + 1, Size[m])[i] = <<m, (n + 1) + i - 1>>
    BY <1>4, <2>1, PartFacts
  <2>3. 1 \in 1..(Size[m] - (n + 1) + 1)
    BY <1>4
  <2>4. QED
    BY <1>5, <2>2, <2>3 DEF Of
<1>8. wire' = (IF up THEN Append(wire, f) ELSE wire) /\ UNCHANGED <<up, receiving>>
  BY DEF LastFragment, Write
<1>9. ReadsLast(<<m, n>>, f, Nothing)
  BY <1>4, <1>5 DEF ReadsLast
<1>10. \A x : Midway(x) => x = <<m, n>>
  BY <1>1, <1>3 DEF Midway
<1>11. \A t \in Sender : left'[t] = 0
  BY <1>2, <1>3 DEF Return
<1>. HIDE DEF f
<1>12. Midway(Nothing)'
  BY <1>11 DEF Midway
<1>13. \A x \in Reading : Midway(x) => \E y : Reads(x, f, y) /\ Midway(y)'
  BY <1>9, <1>10, <1>12 DEF Reads
<1>14. Story'
  BY <1>6, <1>8, <1>13, WriteStory
<1>15. Order'
  BY <1>1, <1>2, <1>3, <1>6, <1>7, <1>8, SentOrder DEF WholeInv
<1>16. QED
  BY <1>2, <1>14, <1>15, SameStutters DEF WholeInv

LEMMA SendFailsWhole ==
  ASSUME Intact, Intact', WholeInv, NEW s \in Sender, SendFails(s)
  PROVE  WholeInv' /\ WsMessagesOf!Next
<1>1. /\ Inv /\ Inv' /\ Return(s) /\ failed' = failed \cup {Current(s)}
      /\ wire' = wire /\ up' = up /\ held' = held /\ delivered' = delivered
  BY SendFailsInv DEF SendFails, receiving, WholeInv
<1>2. Sending(s)
  BY DEF SendFails, MayBegin, WholeInv, Inv, InMessage
<1>3. PayloadsTyped'
  BY <1>1 DEF WholeInv, PayloadsTyped
<1>4. /\ left'[s] = 0
      /\ \A t \in Sender : t # s => left'[t] = left[t] /\ cursor'[t] = cursor[t]
  BY <1>1 DEF Return, Inv, Types
<1>5. ASSUME NEW x, Midway(x) PROVE Midway(x)'
  BY <1>4, <1>5 DEF Midway, Current
<1>6. Story'
  <2>. SUFFICES ASSUME up
                PROVE  \E h \in [0..Len(wire) -> Reading] : \E y :
                         /\ Follows(h, wire) /\ Holds(held, h[0])
                         /\ h[Len(wire)] = y /\ Midway(y)'
    BY <1>1 DEF Story, Midway
  <2>1. PICK h \in [0..Len(wire) -> Reading] :
          Follows(h, wire) /\ Holds(held, h[0]) /\ Midway(h[Len(wire)])
    BY DEF WholeInv, Story
  <2>2. PICK y : y = h[Len(wire)]
    OBVIOUS
  <2>3. Midway(y)'
    BY <1>5, <2>1, <2>2
  <2>4. QED
    BY <2>1, <2>2, <2>3
<1>7. Order'
  BY <1>1, <1>2, FailedOrder DEF WholeInv
<1>8. QED
  BY <1>1, <1>2, <1>3, <1>6, <1>7, FailsAsPromised DEF WholeInv

LEMMA PingWhole == ASSUME WholeInv, Ping PROVE WholeInv' /\ Stutters
<1>. DEFINE f == [fin |-> TRUE, op |-> "ping", payload |-> <<>>]
<1>1. f \in Frame /\ ~Ends(f)
  BY EmptySeq DEF Frame, Ends
<1>2. /\ Inv /\ Inv' /\ PayloadsTyped' /\ delivered' = delivered /\ failed' = failed
      /\ cursor' = cursor /\ left' = left
  BY PingInv, WriteTyped DEF Ping, sending, WholeInv
<1>3. wire' = (IF up THEN Append(wire, f) ELSE wire) /\ UNCHANGED <<up, receiving>>
  BY DEF Ping, Write
<1>4. \A x : Reads(x, f, x)
  BY DEF Reads, ReadsPing
<1>5. ASSUME NEW x, Midway(x) PROVE Midway(x)'
  BY <1>2, <1>5 DEF Midway, Current
<1>. HIDE DEF f
<1>6. Story'
  BY <1>1, <1>3, <1>4, <1>5, WriteStory
<1>7. Order'
  BY <1>1, <1>2, <1>3, QuietOrder DEF WholeInv, Inv, Types
<1>8. QED
  BY <1>2, <1>6, <1>7, SameStutters DEF WholeInv

\* handleFrame at the frame at the head: x is held before, and y after.
LEMMA ReadWhole ==
  ASSUME WholeInv, NEW fin, NEW op, Read(fin, op)
  PROVE  /\ wire # <<>> /\ up /\ Head(wire) \in Frame
         /\ wire' = Tail(wire) /\ UNCHANGED <<up, cursor, left, failed>>
         /\ Head(wire).fin = fin /\ Head(wire).op = op
         /\ \E x, y \in Reading :
              /\ Holds(held, x) /\ Reads(x, Head(wire), y)
              /\ Holds(held', y) => Story'
<1>1. /\ wire # <<>> /\ up /\ wire' = Tail(wire)
      /\ up' = up /\ cursor' = cursor /\ left' = left /\ failed' = failed
      /\ Head(wire).fin = fin /\ Head(wire).op = op
  BY DEF Read, Arriving, sending
<1>2. Head(wire) \in Frame
  BY <1>1, HeadTailProperties DEF WholeInv, Inv, Types
<1>3. PICK x \in Reading, y \in Reading :
        /\ Holds(held, x) /\ Reads(x, Head(wire), y)
        /\ \A payload : Holds(payload, y) =>
             \E g \in [0..Len(Tail(wire)) -> Reading] :
               /\ Follows(g, Tail(wire)) /\ Holds(payload, g[0])
               /\ Midway(g[Len(Tail(wire))])
  BY <1>1, HeadRead
<1>4. ASSUME Holds(held', y) PROVE Story'
  <2>1. PICK g \in [0..Len(wire') -> Reading] :
          Follows(g, wire') /\ Holds(held', g[0]) /\ Midway(g[Len(wire')])
    BY <1>1, <1>3, <1>4
  <2>2. \A z : Midway(z) => Midway(z)'
    BY <1>1 DEF Midway, Current
  <2>3. PICK z : z = g[Len(wire')]
    OBVIOUS
  <2>4. Midway(z)'
    BY <2>1, <2>2, <2>3
  <2>5. QED
    BY <2>1, <2>3, <2>4 DEF Story, Midway
<1>5. QED
  BY <1>1, <1>2, <1>3, <1>4

\* A frame that ends no message.
LEMMA QuietRead ==
  ASSUME WholeInv, Inv', wire # <<>>, up, wire' = Tail(wire), UNCHANGED <<up, cursor, failed>>,
         delivered' = delivered, held' \in Seq(Byte), Story', ~Ends(Head(wire))
  PROVE  WholeInv' /\ Stutters
<1>1. \A m : Settled(m)' <=> Settled(m) \/ m \in {}
  BY SettledSame
<1>2. Order'
  BY <1>1, ReadOrder DEF WholeInv
<1>3. PayloadsTyped'
  BY DEF WholeInv, PayloadsTyped
<1>4. QED
  BY <1>2, <1>3, SameStutters DEF WholeInv

\* A frame that ends one.
LEMMA EndingRead ==
  ASSUME Intact, Intact', WholeInv, Inv', wire # <<>>, up, wire' = Tail(wire), UNCHANGED <<up, cursor, failed>>,
         Ends(Head(wire)), Of(Head(wire)) \in Message,
         NEW payload \in Seq(Byte), Carries(payload, Of(Head(wire))),
         delivered' = Append(delivered, payload), held' \in Seq(Byte), Story'
  PROVE  WholeInv' /\ WsMessagesOf!Next
<1>1. /\ WsMessagesOf!Next
      /\ \A m : Settled(m)' <=> Settled(m) \/ m = Of(Head(wire))
  BY ArrivesAsPromised
<1>2. \A m : Settled(m)' <=> Settled(m) \/ m \in {Of(Head(wire))}
  BY <1>1
<1>3. Order'
  BY <1>2, ReadOrder DEF WholeInv
<1>4. PayloadsTyped'
  BY AppendProperties DEF WholeInv, PayloadsTyped
<1>5. QED
  BY <1>1, <1>3, <1>4 DEF WholeInv

LEMMA ReceiveFirstWhole ==
  ASSUME Intact', WholeInv, ReceiveFirst
  PROVE  WholeInv' /\ Stutters
<1>1. Read(FALSE, "data") /\ held' = Head(wire).payload /\ delivered' = delivered /\ Inv'
  BY ReceiveInv DEF ReceiveFirst, Begin, Payload, Receive, WholeInv
<1>2. /\ wire # <<>> /\ up /\ Head(wire) \in Frame /\ Head(wire).op = "data"
      /\ Head(wire).fin = FALSE /\ wire' = Tail(wire) /\ UNCHANGED <<up, cursor, failed>>
  BY <1>1, ReadWhole
<1>3. PICK x \in Reading, y \in Reading :
        Holds(held, x) /\ Reads(x, Head(wire), y) /\ (Holds(held', y) => Story')
  BY <1>1, ReadWhole
<1>4. Holds(Head(wire).payload, y)
  BY <1>2, <1>3, FirstHeld
<1>5. Story' /\ held' \in Seq(Byte) /\ ~Ends(Head(wire))
  BY <1>1, <1>2, <1>3, <1>4 DEF Frame, Ends
<1>6. QED
  BY <1>1, <1>2, <1>5, QuietRead

LEMMA ReceiveMiddleWhole ==
  ASSUME Intact', WholeInv, ReceiveMiddle
  PROVE  WholeInv' /\ Stutters
<1>1. /\ Read(FALSE, "cont") /\ held' = held \o Head(wire).payload
      /\ delivered' = delivered /\ Inv' /\ held \in Seq(Byte)
  BY ReceiveInv DEF ReceiveMiddle, Continue, Payload, Receive, WholeInv, PayloadsTyped
<1>2. /\ wire # <<>> /\ up /\ Head(wire) \in Frame /\ Head(wire).op = "cont"
      /\ Head(wire).fin = FALSE /\ wire' = Tail(wire) /\ UNCHANGED <<up, cursor, failed>>
  BY <1>1, ReadWhole
<1>3. PICK x \in Reading, y \in Reading :
        Holds(held, x) /\ Reads(x, Head(wire), y) /\ (Holds(held', y) => Story')
  BY <1>1, ReadWhole
<1>4. Holds(held \o Head(wire).payload, y)
  BY <1>1, <1>2, <1>3, MiddleHeld
<1>5. held \o Head(wire).payload \in Seq(Byte)
  BY <1>1, <1>2, ConcatProperties DEF Frame
<1>6. Story' /\ held' \in Seq(Byte) /\ ~Ends(Head(wire))
  BY <1>1, <1>2, <1>3, <1>4, <1>5 DEF Ends
<1>7. QED
  BY <1>1, <1>2, <1>6, QuietRead

LEMMA ReceiveLastWhole ==
  ASSUME Intact, Intact', WholeInv, ReceiveLast
  PROVE  WholeInv' /\ WsMessagesOf!Next
<1>. DEFINE p == held \o Head(wire).payload
<1>1. /\ Read(TRUE, "cont") /\ held' = p /\ delivered' = Append(delivered, p)
      /\ Inv' /\ held \in Seq(Byte)
  BY ReceiveInv DEF ReceiveLast, End, Payload, Receive, WholeInv, PayloadsTyped
<1>2. /\ wire # <<>> /\ up /\ Head(wire) \in Frame /\ Head(wire).op = "cont"
      /\ Head(wire).fin = TRUE /\ wire' = Tail(wire) /\ UNCHANGED <<up, cursor, failed>>
  BY <1>1, ReadWhole
<1>3. PICK x \in Reading, y \in Reading :
        Holds(held, x) /\ Reads(x, Head(wire), y) /\ (Holds(held', y) => Story')
  BY <1>1, ReadWhole
<1>4. /\ y = Nothing /\ Of(Head(wire)) \in Message
      /\ p \in Seq(Byte) /\ Carries(p, Of(Head(wire)))
  BY <1>1, <1>2, <1>3, LastHeld
<1>5. Ends(Head(wire))
  BY <1>2 DEF Ends
<1>. HIDE DEF p
<1>6. Story' /\ held' \in Seq(Byte)
  BY <1>1, <1>3, <1>4, HoldsNothing
<1>7. QED
  BY <1>1, <1>2, <1>4, <1>5, <1>6, EndingRead

LEMMA ReceiveWholeWhole ==
  ASSUME Intact, Intact', WholeInv, ReceiveWhole
  PROVE  WholeInv' /\ WsMessagesOf!Next
<1>. DEFINE p == Head(wire).payload
<1>1. Read(TRUE, "data") /\ held' = p /\ delivered' = Append(delivered, p) /\ Inv'
  BY ReceiveInv DEF ReceiveWhole, Whole, Payload, Receive, WholeInv
<1>2. /\ wire # <<>> /\ up /\ Head(wire) \in Frame /\ Head(wire).op = "data"
      /\ Head(wire).fin = TRUE /\ wire' = Tail(wire) /\ UNCHANGED <<up, cursor, failed>>
  BY <1>1, ReadWhole
<1>3. PICK x \in Reading, y \in Reading :
        Holds(held, x) /\ Reads(x, Head(wire), y) /\ (Holds(held', y) => Story')
  BY <1>1, ReadWhole
<1>4. /\ y = Nothing /\ Of(Head(wire)) \in Message
      /\ p \in Seq(Byte) /\ Carries(p, Of(Head(wire)))
  BY <1>2, <1>3, WholeHeld
<1>5. Ends(Head(wire))
  BY <1>2 DEF Ends
<1>. HIDE DEF p
<1>6. Story' /\ held' \in Seq(Byte)
  BY <1>1, <1>3, <1>4, HoldsNothing
<1>7. QED
  BY <1>1, <1>2, <1>4, <1>5, <1>6, EndingRead

LEMMA ReceivePingWhole ==
  ASSUME Intact', WholeInv, ReceivePing
  PROVE  WholeInv' /\ Stutters
<1>1. Read(TRUE, "ping") /\ held' = held /\ delivered' = delivered /\ Inv'
  BY ReceiveInv DEF ReceivePing, receiving, Receive, WholeInv
<1>2. /\ wire # <<>> /\ up /\ Head(wire).op = "ping" /\ wire' = Tail(wire)
      /\ UNCHANGED <<up, cursor, failed>>
  BY <1>1, ReadWhole
<1>3. PICK x \in Reading, y \in Reading :
        Holds(held, x) /\ Reads(x, Head(wire), y) /\ (Holds(held', y) => Story')
  BY <1>1, ReadWhole
<1>4. y = x /\ ~Ends(Head(wire))
  BY <1>2, <1>3 DEF Reads, ReadsWhole, ReadsFirst, ReadsMiddle, ReadsLast, ReadsPing, Ends
<1>5. Story' /\ held' \in Seq(Byte)
  BY <1>1, <1>3, <1>4 DEF WholeInv, PayloadsTyped
<1>6. QED
  BY <1>1, <1>2, <1>4, <1>5, QuietRead

LEMMA ReceiveShortWhole ==
  ASSUME Intact', WholeInv, ReceiveShort
  PROVE  WholeInv' /\ Stutters
<1>1. /\ ~up' /\ cursor' = cursor /\ failed' = failed
      /\ held' = held /\ delivered' = delivered /\ Inv'
  BY ReceiveInv DEF ReceiveShort, sending, receiving, Receive, WholeInv
<1>2. Story'
  BY <1>1 DEF Story
<1>3. Order'
  BY <1>1, TornOrder DEF WholeInv
<1>4. QED
  BY <1>1, <1>2, <1>3, SameStutters DEF WholeInv, PayloadsTyped

LEMMA WholeStep ==
  ASSUME Intact, Intact', WholeInv, [Next]_vars
  PROVE  WholeInv' /\ (Stutters \/ WsMessagesOf!Next)
<1>1. ASSUME NEW s \in Sender, Send(s)
      PROVE  WholeInv' /\ (Stutters \/ WsMessagesOf!Next)
  BY <1>1, WholeMessageWhole, FirstFragmentWhole, MiddleFragmentWhole, LastFragmentWhole,
     SendFailsWhole DEF Send
<1>2. CASE Ping
  BY <1>2, PingWhole
<1>3. CASE Receive
  <2>1. ~TearHeader /\ ~ReceiveAdrift
    BY DEF TearHeader, ReceiveAdrift, Intact
  <2>2. QED
    BY <1>3, <2>1, ReceiveFirstWhole, ReceiveMiddleWhole, ReceiveLastWhole,
       ReceiveWholeWhole, ReceivePingWhole, ReceiveShortWhole DEF Receive
<1>4. CASE UNCHANGED vars
  <2>1. /\ cursor' = cursor /\ left' = left /\ wire' = wire /\ up' = up
        /\ held' = held /\ delivered' = delivered /\ failed' = failed
    BY <1>4 DEF vars, sending, receiving
  <2>2. Inv' /\ PayloadsTyped'
    BY <1>4, <2>1, Invariance DEF WholeInv, PayloadsTyped
  <2>3. Story'
    BY <2>1 DEF WholeInv, Story, Midway, Current
  <2>4. \A m : Settled(m)' <=> Settled(m)
    BY <2>1, SettledSame
  <2>5. Order'
    BY <2>1, <2>4
    DEF WholeInv, Order, WireSent, WireInOrder, SentKnown, UnsentUnsettled, Brings, Ends, Of
  <2>6. QED
    BY <2>1, <2>2, <2>3, <2>5, SameStutters DEF WholeInv
<1>5. QED
  BY <1>1, <1>2, <1>3, <1>4 DEF Next

\* The step that ends Intact finds two messages pending that nothing keeps apart, or
\* a header that may be torn.
LEMMA MeetsAsTold ==
  ASSUME Intact, ~Intact', WholeInv, [Next]_vars
  PROVE  WsMessagesOf!Break
<1>1. Intact' = FALSE
  BY DEF Intact
<1>2. CASE TearHeader
  <2>1. MayTear /\ UNCHANGED <<failed, delivered>>
    BY <1>2 DEF TearHeader, sending
  <2>2. Stutters
    BY <2>1, SameStutters
  <2>3. QED
    BY <1>1, <2>1, <2>2 DEF WsMessagesOf!Break, Stutters, Pending
<1>3. ASSUME NEW s \in Sender, Mixes(s) PROVE WsMessagesOf!Break
  <2>1. PICK t \in Sender \ {s} : left[t] > 0
    BY <1>3 DEF Mixes
  <2>2. MayBegin(s) /\ UNCHANGED <<failed, delivered>>
    BY <1>3 DEF Mixes, WholeMessage, FirstFragment, Write, receiving
  <2>3. ~({s, t} \subseteq Locked)
    BY <2>1, <2>2 DEF MayBegin
  <2>4. Sending(s) /\ Sending(t)
    BY <2>1, <2>2 DEF MayBegin, WholeInv, Inv, InMessage
  <2>5. ASSUME NEW u \in Sender, Sending(u) PROVE Current(u) \in Pending[u]
    <3>1. Current(u) \in MessagesOf(u)
      BY <2>5 DEF Sending, Current, MessagesOf, ToSet
    <3>2. cursor[u] \in Nat
      BY DEF WholeInv, Inv, Types
    <3>3. ~Settled(Current(u))
      BY <2>5, <3>2 DEF Sending, Current, WholeInv, Order, UnsentUnsettled
    <3>4. QED
      BY <3>1, <3>3 DEF Pending
  <2>6. Pending[s] # {} /\ Pending[t] # {}
    BY <2>1, <2>4, <2>5
  <2>7. WsMessagesOf!Meet(s, t)
    BY <2>1, <2>3, <2>6 DEF WsMessagesOf!Meet, Pending
  <2>8. Stutters
    BY <2>2, SameStutters
  <2>9. QED
    BY <1>1, <2>1, <2>7, <2>8 DEF WsMessagesOf!Break, Stutters, Pending
<1>4. QED
  BY <1>2, <1>3, IntactEnds

LEMMA MessagesStep ==
  ASSUME Intact => WholeInv, [Next]_vars
  PROVE  (Intact => WholeInv)' /\ [WsMessagesOf!Next]_(WsMessagesOf!vars)
<1>1. CASE Intact'
  <2>1. Intact /\ WholeInv
    BY <1>1, IntactEnds
  <2>2. WholeInv' /\ (Stutters \/ WsMessagesOf!Next)
    BY <1>1, <2>1, WholeStep
  <2>3. Stutters => UNCHANGED WsMessagesOf!vars
    BY <1>1, <2>1, IntactSame DEF Stutters, Pending, WsMessagesOf!vars
  <2>4. QED
    BY <2>2, <2>3
<1>2. CASE Intact /\ ~Intact'
  <2>1. WsMessagesOf!Break
    BY <1>2, MeetsAsTold
  <2>2. QED
    BY <1>2, <2>1 DEF WsMessagesOf!Next
<1>3. CASE ~Intact /\ ~Intact'
  <2>1. WsMessagesOf!Broken
    BY <1>3, IntactSame DEF WsMessagesOf!Broken
  <2>2. QED
    BY <1>3, <2>1 DEF WsMessagesOf!Next
<1>4. QED
  BY <1>1, <1>2, <1>3

LEMMA InitMessages == Init => WsMessagesOf!Init
<1>. SUFFICES ASSUME Init PROVE WsMessagesOf!Init
  OBVIOUS
<1>1. delivered = <<>> /\ failed = {}
  BY DEF Init
<1>2. \A m : ~Settled(m)
  BY <1>1, SettledMeans
<1>3. Received = <<>>
  BY <1>1 DEF Received
<1>4. Intact = TRUE
  BY InitIntact DEF Intact
<1>5. QED
  BY <1>1, <1>2, <1>3, <1>4 DEF WsMessagesOf!Init, MessagesOf, ToSet

\* SentAsMessages: each message is given to receivedCallback once, of all its bytes
\* and after those its sender sent before, or its send returns false, whatever the
\* size of messages and packets, the timeouts, the pings between the fragments and
\* the payloads torn; until a message meets another of a task that no mutex keeps
\* apart from its own, or a part of a header is dropped.
THEOREM FramesImplementMessages == Spec => SentAsMessages
<1>1. Init => (Intact => WholeInv) /\ WsMessagesOf!Init
  BY InitWhole, InitMessages
<1>2. (Intact => WholeInv) /\ [Next]_vars
        => (Intact => WholeInv)' /\ [WsMessagesOf!Next]_(WsMessagesOf!vars)
  BY MessagesStep
<1>3. QED
  BY <1>1, <1>2, PTL DEF Spec, SentAsMessages, WsMessagesOf!Spec

=============================================================================
