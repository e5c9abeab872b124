------------------------ MODULE DispatchQueue_proofs ------------------------
(***************************************************************************)
(* Proofs about DispatchQueue, for any calls, tasks and interleaving: when *)
(* the application never starts the queue while it runs, one task is on    *)
(* it, every queued call is made once and in order, and its bytes are kept *)
(* until it has been popped.                                               *)
(***************************************************************************)
EXTENDS DispatchQueue, SequenceTheorems, TLAPS

-----------------------------------------------------------------------------
(* The inductive invariant.  The task between "front" and "pop" has made   *)
(* the call that is still in front, so `made` is one ahead of what has     *)
(* left the queue.                                                         *)

Ahead == IF \E t \in Task : at[t] = "pop" THEN 1 ELSE 0
Gone == Len(called) - Len(dispatchQueue)

RunningWhileServed == \A t \in Task : at[t] # "none" => dispatchQueueRunning
FrontKept == Ahead = 1 => dispatchQueue # <<>>
CalledOnce ==
  /\ \A i, j \in 1..Len(called) : called[i] = called[j] => i = j
  /\ \A i \in 1..Len(called) : called[i] \notin direct
QueueIsSuffix ==
  /\ Gone >= 0
  /\ \A i \in 1..Len(dispatchQueue) : dispatchQueue[i] = called[Gone + i]
MadeIsPrefix ==
  /\ Len(made) = Gone + Ahead
  /\ \A i \in 1..Len(made) : made[i] = called[i]

Inv ==
  /\ TypeOK /\ RunningWhileServed /\ OneTask /\ FrontKept
  /\ CalledOnce /\ QueueIsSuffix /\ MadeIsPrefix /\ PayloadsOfQueued

\* What a step that leaves queue and histories alone must keep.
LEMMA QueueUntouched ==
  ASSUME Inv, TypeOK', RunningWhileServed', OneTask', Ahead' = Ahead,
         UNCHANGED <<dispatchQueue, payloads, histories>>
  PROVE  Inv'
<1>1. UNCHANGED <<dispatchQueue, payloads, called, direct, made>>
  BY DEF histories
<1>2. FrontKept' /\ CalledOnce' /\ QueueIsSuffix' /\ PayloadsOfQueued'
  BY <1>1 DEF Inv, FrontKept, CalledOnce, QueueIsSuffix, Gone, PayloadsOfQueued
<1>3. MadeIsPrefix'
  BY <1>1 DEF Inv, MadeIsPrefix, Gone
<1>4. QED
  BY <1>2, <1>3 DEF Inv

LEMMA InitInv == Init => Inv
<1>. SUFFICES ASSUME Init PROVE Inv
  OBVIOUS
<1>0. \A t \in Task : at[t] = "none"
  BY DEF Init
<1>1. TypeOK /\ RunningWhileServed /\ OneTask /\ Ahead = 0
  <2>1. /\ at \in [Task -> {"none", "loop", "front", "pop", "leave"}]
        /\ listening \in BOOLEAN /\ dispatchQueueRunning \in BOOLEAN
        /\ direct \subseteq Call /\ payloads \subseteq WithPayload
    BY DEF Init
  <2>2. dispatchQueue \in Seq(Call) /\ called \in Seq(Call) /\ made \in Seq(Call)
    BY EmptySeq DEF Init
  <2>3. TypeOK
    BY <2>1, <2>2 DEF TypeOK
  <2>4. RunningWhileServed /\ OneTask /\ Ahead = 0
    BY <1>0 DEF RunningWhileServed, OneTask, Ahead
  <2>5. QED
    BY <2>3, <2>4
<1>2. FrontKept /\ CalledOnce /\ QueueIsSuffix /\ MadeIsPrefix
  BY <1>1 DEF Init, FrontKept, CalledOnce, QueueIsSuffix, MadeIsPrefix, Gone
<1>3. PayloadsOfQueued
  BY DEF Init, PayloadsOfQueued, ToSet
<1>4. QED
  BY <1>1, <1>2, <1>3 DEF Inv

-----------------------------------------------------------------------------
(* The application and the interrupts.                                     *)

LEMMA StartInv ==
  ASSUME Inv, Start \/ Stop
  PROVE  Inv'
<1>1. UNCHANGED <<dispatchQueueRunning, dispatchQueue, at, payloads, histories>> /\ listening' \in BOOLEAN
  BY DEF Start, Stop
<1>2. TypeOK' /\ RunningWhileServed' /\ OneTask' /\ Ahead' = Ahead
  BY <1>1 DEF Inv, TypeOK, RunningWhileServed, OneTask, Ahead, histories
<1>3. QED
  BY <1>1, <1>2, QueueUntouched DEF histories

LEMMA StartDispatchQueueInv ==
  ASSUME ~RestartsEarly, Inv, NEW t \in Task, StartDispatchQueue(t)
  PROVE  Inv'
<1>1. \A s \in Task : at[s] = "none"
  BY DEF StartDispatchQueue, Inv, RunningWhileServed
<1>2. TypeOK' /\ RunningWhileServed' /\ OneTask'
  BY <1>1 DEF StartDispatchQueue, Inv, TypeOK, RunningWhileServed, OneTask, histories
<1>3. Ahead' = Ahead
  BY <1>1 DEF StartDispatchQueue, Inv, TypeOK, Ahead
<1>4. QED
  BY <1>2, <1>3, QueueUntouched DEF StartDispatchQueue, histories

\* The elements of a sequence.
LEMMA ElementsOf ==
  ASSUME NEW S, NEW s \in Seq(S)
  PROVE  /\ ToSet(s) = {s[i] : i \in 1..Len(s)}
         /\ \A i \in 1..Len(s) : s[i] \in ToSet(s)
BY DEF ToSet

LEMMA AppendedTo ==
  ASSUME NEW S, NEW s \in Seq(S), NEW c \in S
  PROVE  ToSet(Append(s, c)) = ToSet(s) \cup {c}
<1>. DEFINE all == Append(s, c)
<1>1. /\ all \in Seq(S) /\ Len(all) = Len(s) + 1 /\ all[Len(s) + 1] = c
      /\ \A i \in 1..Len(s) : all[i] = s[i]
  OBVIOUS
<1>. HIDE DEF all
<1>2. ToSet(all) = {all[i] : i \in 1..Len(all)} /\ ToSet(s) = {s[i] : i \in 1..Len(s)}
  BY <1>1, ElementsOf
<1>3. Len(s) \in Nat /\ 1..Len(all) = 1..Len(s) \cup {Len(s) + 1}
  BY <1>1
<1>4. QED
  BY <1>1, <1>2, <1>3 DEF all

LEMMA QueueCallInv ==
  ASSUME Inv, NEW c \in Call, QueueCall(c)
  PROVE  Inv'
<1>. USE DEF Inv, TypeOK
<1>1. /\ Fresh(c) /\ dispatchQueueRunning /\ dispatchQueue' = Append(dispatchQueue, c)
      /\ payloads' = payloads \cup ({c} \cap WithPayload) /\ called' = Append(called, c)
      /\ UNCHANGED <<listening, dispatchQueueRunning, at, direct, made>>
  BY DEF QueueCall
<1>2. /\ Len(called') = Len(called) + 1 /\ Len(dispatchQueue') = Len(dispatchQueue) + 1
      /\ Gone' = Gone /\ Ahead' = Ahead
  BY <1>1 DEF Gone, Ahead
<1>3. TypeOK' /\ RunningWhileServed' /\ OneTask' /\ FrontKept'
  BY <1>1, <1>2 DEF RunningWhileServed, OneTask, FrontKept
<1>4. c \notin direct /\ \A i \in 1..Len(called) : called[i] # c
  BY <1>1, ElementsOf DEF Fresh
<1>5. CalledOnce'
  BY <1>1, <1>2, <1>4 DEF CalledOnce
<1>6. QueueIsSuffix'
  <2>1. Gone \in Nat /\ Gone + Len(dispatchQueue) = Len(called)
    BY DEF QueueIsSuffix, Gone
  <2>2. ASSUME NEW i \in 1..(Len(dispatchQueue) + 1) PROVE dispatchQueue'[i] = called'[Gone + i]
    <3>1. CASE i <= Len(dispatchQueue)
      <4>1. dispatchQueue'[i] = dispatchQueue[i] /\ dispatchQueue[i] = called[Gone + i]
        BY <1>1, <3>1 DEF QueueIsSuffix
      <4>2. Gone + i \in 1..Len(called)
        BY <2>1, <3>1
      <4>3. QED
        BY <1>1, <4>1, <4>2
    <3>2. CASE i = Len(dispatchQueue) + 1
      BY <1>1, <2>1, <3>2
    <3>3. QED
      BY <3>1, <3>2
  <2>3. QED
    BY <1>2, <2>1, <2>2 DEF QueueIsSuffix
<1>7. Len(made) <= Len(called)
  <2>1. Ahead \in {0, 1} /\ Len(dispatchQueue) \in Nat /\ Len(called) \in Nat
    BY DEF Ahead
  <2>2. Ahead = 1 => Len(dispatchQueue) > 0
    BY DEF FrontKept
  <2>3. Len(made) = Len(called) - Len(dispatchQueue) + Ahead
    BY DEF MadeIsPrefix, Gone
  <2>4. QED
    BY <2>1, <2>2, <2>3
<1>8. MadeIsPrefix'
  BY <1>1, <1>2, <1>7 DEF MadeIsPrefix
<1>9. ToSet(dispatchQueue') = ToSet(dispatchQueue) \cup {c}
  BY <1>1, AppendedTo
<1>10. PayloadsOfQueued'
  BY <1>1, <1>9 DEF PayloadsOfQueued
<1>11. QED
  BY <1>3, <1>5, <1>6, <1>8, <1>10

LEMMA MakeCallInv ==
  ASSUME Inv, NEW c \in Call, MakeCall(c)
  PROVE  Inv'
<1>1. /\ Fresh(c) /\ direct' = direct \cup {c}
      /\ UNCHANGED <<listening, dispatchQueueRunning, dispatchQueue, at, payloads, called, made>>
  BY DEF MakeCall
<1>2. \A i \in 1..Len(called) : called[i] # c
  BY <1>1, ElementsOf DEF Fresh, Inv, TypeOK
<1>3. TypeOK' /\ RunningWhileServed' /\ OneTask' /\ Ahead' = Ahead
  BY <1>1 DEF Inv, TypeOK, RunningWhileServed, OneTask, Ahead
<1>4. CalledOnce'
  BY <1>1, <1>2 DEF Inv, CalledOnce
<1>5. FrontKept' /\ QueueIsSuffix' /\ MadeIsPrefix' /\ PayloadsOfQueued'
  BY <1>1, <1>3 DEF Inv, FrontKept, QueueIsSuffix, MadeIsPrefix, PayloadsOfQueued, Gone
<1>6. QED
  BY <1>3, <1>4, <1>5 DEF Inv

-----------------------------------------------------------------------------
(* joinDispatchQueue.                                                      *)

\* A task that goes on from a place other than "none" is the only one.
LEMMA GoesOn ==
  ASSUME Inv, NEW t \in Task, NEW from, NEW to, Goes(t, from, to), from # "none",
         to \in {"none", "loop", "front", "pop", "leave"}
  PROVE  /\ at' \in [Task -> {"none", "loop", "front", "pop", "leave"}] /\ OneTask'
         /\ dispatchQueueRunning /\ \A s \in Task \ {t} : at[s] = "none" /\ at'[s] = "none"
         /\ at[t] = from /\ at'[t] = to
BY DEF Goes, Inv, TypeOK, OneTask, RunningWhileServed

LEMMA LoopInv ==
  ASSUME Inv, NEW t \in Task, Loop(t) \/ Delay(t) \/ Leave(t)
  PROVE  Inv'
<1>1. PICK from \in {"loop", "front", "leave"}, to \in {"none", "loop", "front", "leave"} :
        Goes(t, from, to)
  BY DEF Loop, Delay, Leave
<1>2. /\ at' \in [Task -> {"none", "loop", "front", "pop", "leave"}] /\ OneTask'
      /\ \A s \in Task \ {t} : at[s] = "none" /\ at'[s] = "none"
      /\ at[t] = from /\ at'[t] = to
  BY <1>1, GoesOn
<1>3. Ahead' = Ahead
  BY <1>2 DEF Ahead
<1>4. UNCHANGED <<listening, dispatchQueue, payloads, histories>>
  BY DEF Loop, Delay, Leave
<1>5. RunningWhileServed' /\ dispatchQueueRunning' \in BOOLEAN
  <2>1. CASE Leave(t)
    BY <1>2, <2>1 DEF Leave, Goes, RunningWhileServed
  <2>2. CASE Loop(t) \/ Delay(t)
    BY <1>1, <1>2, <2>2, GoesOn DEF Loop, Delay, RunningWhileServed, Inv, TypeOK
  <2>3. QED
    BY <2>1, <2>2
<1>6. TypeOK'
  BY <1>2, <1>4, <1>5 DEF Inv, TypeOK, histories
<1>7. QED
  BY <1>2, <1>3, <1>4, <1>5, <1>6, QueueUntouched

LEMMA ServeInv ==
  ASSUME Inv, NEW t \in Task, Serve(t)
  PROVE  Inv'
<1>. USE DEF Inv, TypeOK
<1>1. /\ dispatchQueue # <<>> /\ Goes(t, "front", "pop")
      /\ made' = Append(made, Head(dispatchQueue))
      /\ UNCHANGED <<listening, dispatchQueueRunning, dispatchQueue, payloads, called, direct>>
  BY DEF Serve
<1>2. /\ at' \in [Task -> {"none", "loop", "front", "pop", "leave"}] /\ OneTask'
      /\ dispatchQueueRunning /\ \A s \in Task \ {t} : at[s] = "none" /\ at'[s] = "none"
      /\ at[t] = "front" /\ at'[t] = "pop"
  BY <1>1, GoesOn
<1>3. Ahead = 0 /\ Ahead' = 1 /\ Gone' = Gone
  BY <1>1, <1>2 DEF Ahead, Gone
<1>4. TypeOK' /\ RunningWhileServed' /\ FrontKept'
  BY <1>1, <1>2, <1>3 DEF RunningWhileServed, FrontKept
<1>5. CalledOnce' /\ QueueIsSuffix' /\ PayloadsOfQueued'
  BY <1>1, <1>3 DEF CalledOnce, QueueIsSuffix, PayloadsOfQueued
<1>6. MadeIsPrefix'
  <2>1. Len(made) = Gone /\ Len(made') = Gone + 1 /\ Gone \in Nat
    BY <1>1, <1>3 DEF MadeIsPrefix, Gone, QueueIsSuffix
  <2>2. made'[Gone + 1] = called[Gone + 1]
    BY <1>1, <2>1 DEF QueueIsSuffix
  <2>3. \A i \in 1..Gone : made'[i] = made[i]
    BY <1>1, <2>1
  <2>4. QED
    BY <1>1, <1>3, <2>1, <2>2, <2>3 DEF MadeIsPrefix
<1>7. QED
  BY <1>2, <1>4, <1>5, <1>6

LEMMA PopInv ==
  ASSUME Inv, NEW t \in Task, Pop(t)
  PROVE  Inv'
<1>. USE DEF Inv, TypeOK
<1>. DEFINE head == Head(dispatchQueue)
<1>1. /\ Goes(t, "pop", "front") /\ dispatchQueue' = Tail(dispatchQueue)
      /\ payloads' = payloads \ {head}
      /\ UNCHANGED <<listening, dispatchQueueRunning, called, direct, made>>
  BY DEF Pop, histories
<1>2. /\ at' \in [Task -> {"none", "loop", "front", "pop", "leave"}] /\ OneTask'
      /\ dispatchQueueRunning /\ \A s \in Task \ {t} : at[s] = "none" /\ at'[s] = "none"
      /\ at[t] = "pop" /\ at'[t] = "front"
  BY <1>1, GoesOn
<1>3. Ahead = 1 /\ Ahead' = 0 /\ dispatchQueue # <<>>
  BY <1>2 DEF Ahead, FrontKept
<1>4. /\ dispatchQueue' \in Seq(Call) /\ Len(dispatchQueue') = Len(dispatchQueue) - 1
      /\ \A i \in 1..Len(dispatchQueue') : dispatchQueue'[i] = dispatchQueue[i + 1]
      /\ head = dispatchQueue[1] /\ Len(dispatchQueue) \in Nat \ {0}
  BY <1>1, <1>3
<1>5. Gone' = Gone + 1 /\ Gone \in Nat
  BY <1>1, <1>4 DEF Gone, QueueIsSuffix
<1>6. TypeOK' /\ RunningWhileServed' /\ FrontKept' /\ CalledOnce'
  BY <1>1, <1>2, <1>3, <1>4 DEF RunningWhileServed, FrontKept, CalledOnce
<1>7. QueueIsSuffix' /\ MadeIsPrefix'
  BY <1>1, <1>3, <1>4, <1>5 DEF QueueIsSuffix, MadeIsPrefix
<1>8. ToSet(dispatchQueue') = ToSet(dispatchQueue) \ {head}
  <2>1. ASSUME NEW i \in 2..Len(dispatchQueue) PROVE dispatchQueue[i] # head
    <3>1. /\ head = called[Gone + 1] /\ dispatchQueue[i] = called[Gone + i]
      BY <1>4 DEF QueueIsSuffix
    <3>2. Gone + Len(dispatchQueue) = Len(called) /\ Len(called) \in Nat
      BY <1>4 DEF Gone
    <3>3. Gone + 1 \in 1..Len(called) /\ Gone + i \in 1..Len(called) /\ Gone + 1 # Gone + i
      BY <1>4, <1>5, <3>2
    <3>4. QED
      BY <3>1, <3>3 DEF CalledOnce
  <2>2. ToSet(dispatchQueue) = {dispatchQueue[i] : i \in 1..Len(dispatchQueue)}
    BY ElementsOf
  <2>3. ToSet(dispatchQueue') = {dispatchQueue'[i] : i \in 1..Len(dispatchQueue')}
    BY <1>4, ElementsOf
  <2>4. ToSet(dispatchQueue') \subseteq ToSet(dispatchQueue) \ {head}
    BY <1>4, <2>1, <2>2, <2>3
  <2>5. ASSUME NEW c \in ToSet(dispatchQueue) \ {head} PROVE c \in ToSet(dispatchQueue')
    <3>0. PICK i \in 1..Len(dispatchQueue) : dispatchQueue[i] = c
      BY <2>2
    <3>1. i \in 2..Len(dispatchQueue) /\ dispatchQueue[i] = c
      BY <1>4, <3>0
    <3>2. i - 1 \in 1..Len(dispatchQueue') /\ dispatchQueue'[i - 1] = c
      BY <1>4, <3>1
    <3>3. QED
      BY <2>3, <3>2
  <2>6. QED
    BY <2>4, <2>5
<1>9. PayloadsOfQueued'
  BY <1>1, <1>8 DEF PayloadsOfQueued
<1>10. QED
  BY <1>2, <1>6, <1>7, <1>9

-----------------------------------------------------------------------------
(* Theorems.                                                               *)

\* The invariant follows from the code alone once the queue is never started
\* while it runs.
THEOREM Invariance ==
  ASSUME ~RestartsEarly
  PROVE  Spec => []Inv
<1>1. Init => Inv
  BY InitInv
<1>2. Inv /\ [Next]_vars => Inv'
  <2>. SUFFICES ASSUME Inv, [Next]_vars PROVE Inv'
    OBVIOUS
  <2>1. CASE Start \/ Stop
    BY <2>1, StartInv
  <2>2. ASSUME NEW c \in Call, QueueCall(c) \/ MakeCall(c) PROVE Inv'
    BY <2>2, QueueCallInv, MakeCallInv
  <2>3. ASSUME NEW t \in Task, StartDispatchQueue(t) \/ joinDispatchQueue(t) PROVE Inv'
    BY <2>3, StartDispatchQueueInv, LoopInv, ServeInv, PopInv DEF joinDispatchQueue
  <2>4. CASE UNCHANGED vars
    <3>1. TypeOK' /\ RunningWhileServed' /\ OneTask' /\ Ahead' = Ahead
      BY <2>4 DEF vars, Inv, TypeOK, RunningWhileServed, OneTask, Ahead
    <3>2. QED
      BY <2>4, <3>1, QueueUntouched DEF vars, histories
  <2>5. QED
    BY <2>1, <2>2, <2>3, <2>4 DEF Next
<1>3. QED
  BY <1>1, <1>2, PTL DEF Spec

\* The variables of the dispatch queue keep their types: what is popped was there.
THEOREM TypeCorrect ==
  ASSUME ~RestartsEarly
  PROVE  Spec => []TypeOK
<1>1. Inv => TypeOK
  BY DEF Inv
<1>2. QED
  BY <1>1, Invariance, PTL

\* dispatchQueueRunning is cleared last, so two tasks are never in
\* joinDispatchQueue, whenever the server is stopped and started.
THEOREM OneTaskAtATime ==
  ASSUME ~RestartsEarly
  PROVE  Spec => []OneTask
<1>1. Inv => OneTask
  BY DEF Inv
<1>2. QED
  BY <1>1, Invariance, PTL

\* joinDispatchQueue makes the calls that disconnectClient, ping and send queue
\* once each and in order, across every end of the task and every new start.
THEOREM MadeInOrder ==
  ASSUME ~RestartsEarly
  PROVE  Spec => []MadeOnceInOrder
<1>1. ASSUME Inv PROVE MadeOnceInOrder
  <2>. USE <1>1 DEF Inv, TypeOK
  <2>1. /\ Waiting \in Seq(Call) /\ Len(Waiting) = Len(dispatchQueue) - Ahead
        /\ \A i \in 1..Len(Waiting) : Waiting[i] = dispatchQueue[Ahead + i]
    BY DEF Waiting, Ahead, FrontKept
  <2>2. Len(called) = Len(made) + Len(Waiting) /\ Len(made) = Gone + Ahead /\ Gone \in Nat
    <3>1. Len(called) \in Nat /\ Len(dispatchQueue) \in Nat /\ Ahead \in {0, 1}
      BY DEF Ahead
    <3>2. Len(made) = Gone + Ahead /\ Gone = Len(called) - Len(dispatchQueue) /\ Gone >= 0
      BY DEF MadeIsPrefix, Gone, QueueIsSuffix
    <3>3. QED
      BY <2>1, <3>1, <3>2
  <2>3. \A i \in 1..Len(Waiting) : called[Len(made) + i] = Waiting[i]
    BY <2>1, <2>2 DEF QueueIsSuffix, Ahead
  <2>. DEFINE all == made \o Waiting
  <2>4. /\ all \in Seq(Call) /\ Len(all) = Len(called)
        /\ \A i \in 1..Len(called) :
             all[i] = IF i <= Len(made) THEN made[i] ELSE Waiting[i - Len(made)]
    BY <2>1, <2>2, ConcatProperties
  <2>. HIDE DEF all
  <2>5. ASSUME NEW i \in 1..Len(called) PROVE called[i] = all[i]
    <3>1. CASE i <= Len(made)
      BY <2>2, <2>4, <3>1 DEF MadeIsPrefix
    <3>2. CASE i > Len(made)
      <4>1. i - Len(made) \in 1..Len(Waiting) /\ Len(made) + (i - Len(made)) = i
        BY <2>2, <3>2
      <4>2. all[i] = Waiting[i - Len(made)]
        BY <2>2, <2>4, <3>2
      <4>3. called[i] = Waiting[i - Len(made)]
        BY <2>3, <4>1
      <4>4. QED
        BY <4>2, <4>3
    <3>3. QED
      BY <3>1, <3>2
  <2>6. called = all
    BY <2>4, <2>5, SeqEqual
  <2>7. QED
    BY <2>6 DEF MadeOnceInOrder, all
<1>2. QED
  BY <1>1, Invariance, PTL

\* The bytes PingPayload and SendBytes copy are kept exactly while their call is
\* in the queue, the one being made included.
THEOREM PayloadsKept ==
  ASSUME ~RestartsEarly
  PROVE  Spec => []PayloadsOfQueued
<1>1. Inv => PayloadsOfQueued
  BY DEF Inv
<1>2. QED
  BY <1>1, Invariance, PTL

=============================================================================
