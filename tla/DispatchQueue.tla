--------------------------- MODULE DispatchQueue ---------------------------
(***************************************************************************)
(* The queue through which interrupt handlers use a WsServer               *)
(* (src/src/wsserver.cpp): disconnectClient, ping and send put a call they *)
(* are made from an interrupt in dispatchQueue, and the task of            *)
(* joinDispatchQueue makes it later.  The server may be stopped and        *)
(* started again, and the queue started again after its task has ended.    *)
(*                                                                         *)
(* Each operation on the std::queue is one step; between two steps of the  *)
(* task anything may interrupt it.                                         *)
(***************************************************************************)
EXTENDS Naturals, Sequences, SequencesExt

CONSTANTS
  Call,          \* the calls interrupt handlers make, each once
  WithPayload,   \* those whose bytes are copied: PingPayload and SendBytes
  Task,          \* the tasks that may run joinDispatchQueue at one time
  RestartsEarly  \* TRUE iff the application starts the queue while it runs

ASSUME DispatchQueueAssumption ==
  /\ WithPayload \subseteq Call
  /\ RestartsEarly \in BOOLEAN

VARIABLES
  listening,     \* isListening()
  dispatchQueueRunning,
  dispatchQueue,
  at,            \* where a task is in joinDispatchQueue
  payloads,      \* the calls whose copied bytes are allocated
  called,        \* history: the calls that were queued, in order
  direct,        \* history: the calls that were made in the interrupt itself
  made           \* history: the calls the task made, in order

vars == <<listening, dispatchQueueRunning, dispatchQueue, at, payloads, called, direct, made>>

Init ==
  /\ listening = FALSE
  /\ dispatchQueueRunning = FALSE
  /\ dispatchQueue = <<>>
  /\ at = [t \in Task |-> "none"]
  /\ payloads = {}
  /\ called = <<>> /\ direct = {} /\ made = <<>>

histories == <<called, direct, made>>

-----------------------------------------------------------------------------
(* The application.                                                        *)

Start ==
  /\ ~listening
  /\ listening' = TRUE
  /\ UNCHANGED <<dispatchQueueRunning, dispatchQueue, at, payloads, histories>>

FaultStopEndsQueue ==
  /\ listening
  /\ listening' = FALSE
  /\ dispatchQueueRunning' = FALSE
  /\ UNCHANGED <<dispatchQueue, at, payloads, histories>>

Stop ==
  /\ listening
  /\ listening' = FALSE
  /\ UNCHANGED <<dispatchQueueRunning, dispatchQueue, at, payloads, histories>>

StartDispatchQueue(t) ==
  /\ listening
  /\ RestartsEarly \/ ~dispatchQueueRunning
  /\ at[t] = "none"
  /\ dispatchQueueRunning' = TRUE
  /\ at' = [at EXCEPT ![t] = "loop"]
  /\ UNCHANGED <<listening, dispatchQueue, payloads, histories>>

-----------------------------------------------------------------------------
(* An interrupt handler calls disconnectClient, ping or send.              *)

Fresh(c) == c \notin direct /\ c \notin ToSet(called)

QueueCall(c) ==
  /\ Fresh(c)
  /\ dispatchQueueRunning
  /\ dispatchQueue' = Append(dispatchQueue, c)
  /\ payloads' = payloads \cup ({c} \cap WithPayload)
  /\ called' = Append(called, c)
  /\ UNCHANGED <<listening, dispatchQueueRunning, at, direct, made>>

MakeCall(c) ==
  /\ Fresh(c)
  /\ ~dispatchQueueRunning
  /\ direct' = direct \cup {c}
  /\ UNCHANGED <<listening, dispatchQueueRunning, dispatchQueue, at, payloads, called, made>>

-----------------------------------------------------------------------------
(* joinDispatchQueue.                                                      *)

Goes(t, from, to) == at[t] = from /\ at' = [at EXCEPT ![t] = to]

Loop(t) ==
  /\ Goes(t, "loop", IF listening /\ dispatchQueueRunning THEN "front" ELSE "leave")
  /\ UNCHANGED <<listening, dispatchQueueRunning, dispatchQueue, payloads, histories>>

\* The call at the front is made and stays there meanwhile.
Serve(t) ==
  /\ dispatchQueue # <<>>
  /\ Goes(t, "front", "pop")
  /\ made' = Append(made, Head(dispatchQueue))
  /\ UNCHANGED <<listening, dispatchQueueRunning, dispatchQueue, payloads, called, direct>>

FaultClears(t) ==
  /\ Goes(t, "pop", "front")
  /\ payloads' = payloads \ {Head(dispatchQueue)}
  /\ dispatchQueue' = <<>>
  /\ UNCHANGED <<listening, dispatchQueueRunning, histories>>

\* Its bytes are freed, and it leaves the queue.
Pop(t) ==
  /\ Goes(t, "pop", "front")
  /\ payloads' = payloads \ {Head(dispatchQueue)}
  /\ dispatchQueue' = Tail(dispatchQueue)
  /\ UNCHANGED <<listening, dispatchQueueRunning, histories>>

FaultSleeps(t) ==
  /\ dispatchQueue = <<>>
  /\ Goes(t, "front", "asleep")
  /\ UNCHANGED <<listening, dispatchQueueRunning, dispatchQueue, payloads, histories>>

\* vTaskDelay
Delay(t) ==
  /\ dispatchQueue = <<>>
  /\ Goes(t, "front", "loop")
  /\ UNCHANGED <<listening, dispatchQueueRunning, dispatchQueue, payloads, histories>>

Leave(t) ==
  /\ Goes(t, "leave", "none")
  /\ dispatchQueueRunning' = FALSE
  /\ UNCHANGED <<listening, dispatchQueue, payloads, histories>>

joinDispatchQueue(t) == Loop(t) \/ Serve(t) \/ Pop(t) \/ Delay(t) \/ Leave(t)

Next ==
  \/ Start \/ Stop
  \/ \E c \in Call : QueueCall(c) \/ MakeCall(c)
  \/ \E t \in Task : StartDispatchQueue(t) \/ joinDispatchQueue(t)

Spec == Init /\ [][Next]_vars

\* The scheduler runs every task that is ready.
Fairness == \A t \in Task : WF_vars(joinDispatchQueue(t))
FairSpec == Spec /\ Fairness

-----------------------------------------------------------------------------
(* Properties.                                                             *)

TypeOK ==
  /\ listening \in BOOLEAN /\ dispatchQueueRunning \in BOOLEAN
  /\ dispatchQueue \in Seq(Call) /\ called \in Seq(Call) /\ made \in Seq(Call)
  /\ direct \subseteq Call /\ payloads \subseteq WithPayload
  /\ at \in [Task -> {"none", "loop", "front", "pop", "leave"}]

\* dispatchQueueRunning is cleared by the last step of a task and by nothing else:
\* an application that starts the queue only when it does not run never has two
\* tasks on it, whenever the server is stopped and started.
OneTask == \A s, t \in Task : at[s] # "none" /\ at[t] # "none" => s = t

\* What is still to be made of the calls that were queued.
Waiting == IF \E t \in Task : at[t] = "pop" THEN Tail(dispatchQueue) ELSE dispatchQueue

\* Every call that was queued is made once and in order, though interrupts queue
\* more while the front is made and while it is popped, and calls are left in the
\* queue from one task to the next.
MadeOnceInOrder == called = made \o Waiting

\* No copied payload is freed before its call was made or kept after it was popped.
PayloadsOfQueued == payloads = ToSet(dispatchQueue) \cap WithPayload

\* Once the server stays listening and the queue running, no call waits for ever,
\* not even one left over from before.
EveryCallMade ==
  <>[](listening /\ dispatchQueueRunning) =>
    \A c \in Call : (c \in ToSet(dispatchQueue)) ~> (c \in ToSet(made))

=============================================================================
