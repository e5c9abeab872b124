----------------------------- MODULE WsMessages -----------------------------
(***************************************************************************)
(* What a WebSocket promises those that send over it: a message arrives    *)
(* once and whole, after those its sender sent before, or its send says    *)
(* that it failed.  The promise ends when a message is begun while one of  *)
(* another task is on its way and no mutex keeps the two apart, and when a *)
(* read may drop a part of a header.                                       *)
(***************************************************************************)
EXTENDS Sequences, Naturals

CONSTANTS
  Sender,
  Program,       \* the messages each sender sends, in order
  Locked,        \* the senders kept apart by a mutex
  MayTear        \* TRUE iff a read may drop a part of a header

VARIABLES
  pending,       \* sender -> those of its messages that neither arrived nor failed
  received,      \* the messages that arrived, in order
  failed,        \* the messages whose send returned false
  intact         \* the promise holds

vars == <<pending, received, failed, intact>>

Init ==
  /\ pending = [s \in Sender |-> {Program[s][i] : i \in DOMAIN Program[s]}]
  /\ received = <<>>
  /\ failed = {}
  /\ intact = TRUE

\* The sender sent no other before m that is still pending.
Foremost(s, m) ==
  \A i, j \in DOMAIN Program[s] :
    Program[s][i] = m /\ Program[s][j] \in pending[s] => i <= j

Settle(s, m) ==
  /\ intact /\ UNCHANGED intact
  /\ m \in pending[s] /\ pending' = [pending EXCEPT ![s] = @ \ {m}]

Arrive(s, m) ==
  /\ Settle(s, m) /\ Foremost(s, m)
  /\ received' = Append(received, m)
  /\ UNCHANGED failed

Fail(s, m) ==
  /\ Settle(s, m)
  /\ failed' = failed \cup {m}
  /\ UNCHANGED received

\* Two messages meet that nothing keeps apart.
Meet(s, t) ==
  /\ s # t /\ ~({s, t} \subseteq Locked)
  /\ pending[s] # {} /\ pending[t] # {}

Break ==
  /\ intact /\ intact' = FALSE
  /\ MayTear \/ \E s, t \in Sender : Meet(s, t)
  /\ UNCHANGED <<pending, received, failed>>

\* After that anything may arrive, and anything be lost.
Broken == ~intact /\ UNCHANGED intact

Next ==
  \/ \E s \in Sender : \E m \in pending[s] : Arrive(s, m) \/ Fail(s, m)
  \/ Break
  \/ Broken

Spec == Init /\ [][Next]_vars

=============================================================================
