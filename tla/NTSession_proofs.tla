-------------------------- MODULE NTSession_proofs --------------------------
(***************************************************************************)
(* The safety invariants of NTSession hold for any set of connections, any *)
(* capacity and any peers.                                                 *)
(*                                                                         *)
(* HandlersExclusive and ListedExactly are inductive next to TypeOK.  The  *)
(* others need to know how a connection comes to its end: Reported(c) and, *)
(* for the well-behaved ones, Once(c) and Clean(c) say it stage by stage.  *)
(***************************************************************************)
EXTENDS NTSession, TLAPS

Early == {"idle", "handshake", "accepted", "rejected", "connecting", "registering",
          "message", "inMessage"}
Ending == {"closeCallback", "inCloseCallback", "loopExit", "inLoopExit", "erase", "done"}

\* The task has left the loop: the connection was reported or closed gracefully.
Reported(c) ==
  pc[c] \in {"loopExit", "inLoopExit", "erase", "done"} => told[c] > 0 \/ c \in graceful

\* The closing handshake of a well-behaved connection, stage by stage: a close
\* frame on its way is the answer to the only one the application asked for, and
\* the connection is gracefullyClosed just when that answer was reported, or came
\* before the application's task had set closeFrameSent.
Once(c) ==
  /\ c \in sentClose => c \in asked
  /\ c \in asked => appClosed[c] = AppCloses[c] /\ (c \in sentClose \/ app = <<"closing", c>>)
  /\ app = <<"closing", c>> => c \in asked
  /\ arriving[c] \in CloseFrame => c \in asked /\ arriving[c] = "status"
  /\ app \notin {<<"callback", c>>, <<"inCallback", c>>}
  /\ c \in graceful => told[c] = 1 \/ c \in overtaken
  /\ pc[c] \in Early => told[c] = 0 /\ c \notin overtaken
  /\ pc[c] \in Ending => told[c] = 1 \/ c \in overtaken
  /\ pc[c] \in {"closeCallback", "inCloseCallback"} => c \in graceful /\ c \notin overtaken
  /\ pc[c] \in {"loopExit", "inLoopExit"} => c \notin overtaken
  /\ pc[c] \in {"closing", "disconnecting"} => c \in overtaken
  /\ c \in overtaken => /\ told[c] = 0 /\ c \in graceful /\ c \in asked
                        /\ pc[c] = "open" => c \notin tcpUp
  /\ pc[c] = "open" => \/ told[c] = 0
                       \/ told[c] = 1 /\ c \in graceful /\ c \notin tcpUp

\* When its handlers always got the mutex and it was not overtaken, it has a
\* ClientData from its clientConnected to its clientDisconnected; and it leaves the
\* mutex behind in no handler.
Clean(c) ==
  /\ c \notin overtaken =>
       /\ pc[c] \in {"message", "inMessage", "closeCallback", "inCloseCallback",
                     "loopExit", "inLoopExit"} => c \in ntClients
       /\ pc[c] = "open" => (c \in ntClients <=> told[c] = 0)
       /\ pc[c] \in {"idle", "handshake", "accepted", "rejected", "connecting",
                     "registering", "erase", "done"} => c \notin ntClients
  /\ mutex = c => pc[c] \in Inside

Inv ==
  /\ TypeOK
  /\ HandlersExclusive
  /\ ListedExactly
  /\ \A c \in Conn : Reported(c)
  /\ \A c \in Conn : WellBehaved(c) => Once(c)
  /\ \A c \in Conn : WellBehaved(c) /\ c \notin gaveUp => Clean(c)

-----------------------------------------------------------------------------
\* Types: every handler assigns values of the kind the declarations give.
LEMMA TypeStep ==
  ASSUME TypeOK, [Next]_vars
  PROVE  TypeOK'
<1>. USE NTSessionAssumption DEF TypeOK, Goto, socket, history, Stage, Listed, Inside, CloseFrame
<1>1. ASSUME NEW c \in Conn, AcceptConnection(c) PROVE TypeOK'  BY <1>1 DEF AcceptConnection
<1>2. ASSUME NEW c \in Conn, ReceiveData(c) PROVE TypeOK'  BY <1>2 DEF ReceiveData
<1>3. ASSUME NEW c \in Conn, PeerSendsClose(c) PROVE TypeOK'  BY <1>3 DEF PeerSendsClose
<1>4. ASSUME NEW c \in Conn, PeerDrops(c) PROVE TypeOK'  BY <1>4 DEF PeerDrops
<1>5. ASSUME NEW c \in Conn, RejectConnection(c) PROVE TypeOK'  BY <1>5 DEF RejectConnection
<1>6. ASSUME NEW c \in Conn, AcceptHandshake(c) PROVE TypeOK'  BY <1>6 DEF AcceptHandshake
<1>7. ASSUME NEW c \in Conn, ListClient(c) PROVE TypeOK'  BY <1>7 DEF ListClient
<1>8. ASSUME NEW c \in Conn, ConnectedTake(c) PROVE TypeOK'  BY <1>8 DEF ConnectedTake, Take
<1>9. ASSUME NEW c \in Conn, ConnectedGiveUp(c) PROVE TypeOK'
  BY <1>9 DEF ConnectedGiveUp, GiveUp
<1>10. ASSUME NEW c \in Conn, Connected(c) PROVE TypeOK'  BY <1>10 DEF Connected
<1>11. ASSUME NEW c \in Conn, MessageTake(c) PROVE TypeOK'  BY <1>11 DEF MessageTake, Take
<1>12. ASSUME NEW c \in Conn, MessageGiveUp(c) PROVE TypeOK'  BY <1>12 DEF MessageGiveUp, GiveUp
<1>13. ASSUME NEW c \in Conn, MessageDone(c) PROVE TypeOK'  BY <1>13 DEF MessageDone
<1>14. ASSUME NEW c \in Conn, ReceiveFirstClose(c) PROVE TypeOK'
  BY <1>14 DEF ReceiveFirstClose, Overtaking
<1>15. ASSUME NEW c \in Conn, ReceiveCloseAnswer(c) PROVE TypeOK'
  BY <1>15 DEF ReceiveCloseAnswer
<1>16. ASSUME NEW c \in Conn, ReadFails(c) PROVE TypeOK'  BY <1>16 DEF ReadFails
<1>17. ASSUME NEW c \in Conn, LeaveLoop(c) PROVE TypeOK'  BY <1>17 DEF LeaveLoop
<1>18. ASSUME NEW c \in Conn, EraseClient(c) PROVE TypeOK'  BY <1>18 DEF EraseClient
<1>19. ASSUME NEW c \in Conn, CallbackTake(c) PROVE TypeOK'  BY <1>19 DEF CallbackTake, Take
<1>20. ASSUME NEW c \in Conn, CallbackGiveUp(c) PROVE TypeOK'  BY <1>20 DEF CallbackGiveUp
<1>21. ASSUME NEW c \in Conn, CallbackDone(c) PROVE TypeOK'  BY <1>21 DEF CallbackDone, Forget
<1>22. ASSUME NEW c \in Conn, LoopExitTake(c) PROVE TypeOK'  BY <1>22 DEF LoopExitTake, Take
<1>23. ASSUME NEW c \in Conn, LoopExitGiveUp(c) PROVE TypeOK'
  BY <1>23 DEF LoopExitGiveUp, GiveUp
<1>24. ASSUME NEW c \in Conn, LoopExitDone(c) PROVE TypeOK'  BY <1>24 DEF LoopExitDone, Forget
<1>25. ASSUME NEW c \in Conn, AppCloseFirst(c) PROVE TypeOK'  BY <1>25 DEF AppCloseFirst
<1>26. ASSUME NEW c \in Conn, AppCloseAgain(c) PROVE TypeOK'  BY <1>26 DEF AppCloseAgain
<1>27. ASSUME NEW c \in Conn, AppCallbackTake(c) PROVE TypeOK'  BY <1>27 DEF AppCallbackTake
<1>28. ASSUME NEW c \in Conn, AppCallbackGiveUp(c) PROVE TypeOK'  BY <1>28 DEF AppCallbackGiveUp
<1>29. ASSUME NEW c \in Conn, AppCallbackDone(c) PROVE TypeOK'
  BY <1>29 DEF AppCallbackDone, Forget
<1>30. CASE AppTake  BY <1>30 DEF AppTake
<1>31. CASE AppGive  BY <1>31 DEF AppGive
<1>32. ASSUME NEW c \in Conn, FirstCloseSent(c) PROVE TypeOK'
  BY <1>32 DEF FirstCloseSent
<1>33. ASSUME NEW c \in Conn, Disconnect(c) PROVE TypeOK'
  BY <1>33 DEF Disconnect
<1>34. ASSUME NEW c \in Conn, AppCloseSent(c) PROVE TypeOK'
  BY <1>34 DEF AppCloseSent
<1>35. CASE UNCHANGED vars  BY <1>35 DEF vars
<1>36. QED
  BY <1>1, <1>2, <1>3, <1>4, <1>5, <1>6, <1>7, <1>8, <1>9, <1>10, <1>11, <1>12, <1>13,
  <1>14, <1>15, <1>16, <1>17, <1>18, <1>19, <1>20, <1>21, <1>22, <1>23, <1>24, <1>25,
  <1>26, <1>27, <1>28, <1>29, <1>30, <1>31, <1>32, <1>33, <1>34, <1>35
  DEF Next, PeerStep, TaskStep, AppStep

\* xSemaphoreTake lets one task in and nobody but the holder gives: a handler is
\* entered with the mutex Free, when by the invariant no task is in one.
LEMMA ExclusiveStep ==
  ASSUME TypeOK, HandlersExclusive, [Next]_vars
  PROVE  HandlersExclusive'
<1>. USE NTSessionAssumption DEF HandlersExclusive, InSection, Inside, TypeOK, Goto, socket, history
<1>1. ASSUME NEW c \in Conn, AcceptConnection(c) PROVE HandlersExclusive'
  BY <1>1 DEF AcceptConnection
<1>2. ASSUME NEW c \in Conn, ReceiveData(c) PROVE HandlersExclusive'  BY <1>2 DEF ReceiveData
<1>3. ASSUME NEW c \in Conn, PeerSendsClose(c) PROVE HandlersExclusive'
  BY <1>3 DEF PeerSendsClose
<1>4. ASSUME NEW c \in Conn, PeerDrops(c) PROVE HandlersExclusive'  BY <1>4 DEF PeerDrops
<1>5. ASSUME NEW c \in Conn, RejectConnection(c) PROVE HandlersExclusive'
  BY <1>5 DEF RejectConnection
<1>6. ASSUME NEW c \in Conn, AcceptHandshake(c) PROVE HandlersExclusive'
  BY <1>6 DEF AcceptHandshake
<1>7. ASSUME NEW c \in Conn, ListClient(c) PROVE HandlersExclusive'  BY <1>7 DEF ListClient
<1>8. ASSUME NEW c \in Conn, ConnectedTake(c) PROVE HandlersExclusive'
  BY <1>8 DEF ConnectedTake, Take
<1>9. ASSUME NEW c \in Conn, ConnectedGiveUp(c) PROVE HandlersExclusive'
  BY <1>9 DEF ConnectedGiveUp, GiveUp
<1>10. ASSUME NEW c \in Conn, Connected(c) PROVE HandlersExclusive'  BY <1>10 DEF Connected
<1>11. ASSUME NEW c \in Conn, MessageTake(c) PROVE HandlersExclusive'
  BY <1>11 DEF MessageTake, Take
<1>12. ASSUME NEW c \in Conn, MessageGiveUp(c) PROVE HandlersExclusive'
  BY <1>12 DEF MessageGiveUp, GiveUp
<1>13. ASSUME NEW c \in Conn, MessageDone(c) PROVE HandlersExclusive'  BY <1>13 DEF MessageDone
<1>14. ASSUME NEW c \in Conn, ReceiveFirstClose(c) PROVE HandlersExclusive'
  BY <1>14 DEF ReceiveFirstClose, Overtaking
<1>15. ASSUME NEW c \in Conn, ReceiveCloseAnswer(c) PROVE HandlersExclusive'
  BY <1>15 DEF ReceiveCloseAnswer
<1>16. ASSUME NEW c \in Conn, ReadFails(c) PROVE HandlersExclusive'  BY <1>16 DEF ReadFails
<1>17. ASSUME NEW c \in Conn, LeaveLoop(c) PROVE HandlersExclusive'  BY <1>17 DEF LeaveLoop
<1>18. ASSUME NEW c \in Conn, EraseClient(c) PROVE HandlersExclusive'  BY <1>18 DEF EraseClient
<1>19. ASSUME NEW c \in Conn, CallbackTake(c) PROVE HandlersExclusive'
  BY <1>19 DEF CallbackTake, Take
<1>20. ASSUME NEW c \in Conn, CallbackGiveUp(c) PROVE HandlersExclusive'
  BY <1>20 DEF CallbackGiveUp
<1>21. ASSUME NEW c \in Conn, CallbackDone(c) PROVE HandlersExclusive'
  BY <1>21 DEF CallbackDone, Forget
<1>22. ASSUME NEW c \in Conn, LoopExitTake(c) PROVE HandlersExclusive'
  BY <1>22 DEF LoopExitTake, Take
<1>23. ASSUME NEW c \in Conn, LoopExitGiveUp(c) PROVE HandlersExclusive'
  BY <1>23 DEF LoopExitGiveUp, GiveUp
<1>24. ASSUME NEW c \in Conn, LoopExitDone(c) PROVE HandlersExclusive'
  BY <1>24 DEF LoopExitDone, Forget
<1>25. ASSUME NEW c \in Conn, AppCloseFirst(c) PROVE HandlersExclusive'
  BY <1>25 DEF AppCloseFirst
<1>26. ASSUME NEW c \in Conn, AppCloseAgain(c) PROVE HandlersExclusive'
  BY <1>26 DEF AppCloseAgain
<1>27. ASSUME NEW c \in Conn, AppCallbackTake(c) PROVE HandlersExclusive'
  BY <1>27 DEF AppCallbackTake
<1>28. ASSUME NEW c \in Conn, AppCallbackGiveUp(c) PROVE HandlersExclusive'
  BY <1>28 DEF AppCallbackGiveUp
<1>29. ASSUME NEW c \in Conn, AppCallbackDone(c) PROVE HandlersExclusive'
  BY <1>29 DEF AppCallbackDone, Forget
<1>30. CASE AppTake  BY <1>30 DEF AppTake
<1>31. CASE AppGive  BY <1>31 DEF AppGive
<1>32. ASSUME NEW c \in Conn, FirstCloseSent(c) PROVE HandlersExclusive'
  BY <1>32 DEF FirstCloseSent
<1>33. ASSUME NEW c \in Conn, Disconnect(c) PROVE HandlersExclusive'
  BY <1>33 DEF Disconnect
<1>34. ASSUME NEW c \in Conn, AppCloseSent(c) PROVE HandlersExclusive'
  BY <1>34 DEF AppCloseSent
<1>35. CASE UNCHANGED vars  BY <1>35 DEF vars
<1>36. QED
  BY <1>1, <1>2, <1>3, <1>4, <1>5, <1>6, <1>7, <1>8, <1>9, <1>10, <1>11, <1>12, <1>13,
  <1>14, <1>15, <1>16, <1>17, <1>18, <1>19, <1>20, <1>21, <1>22, <1>23, <1>24, <1>25,
  <1>26, <1>27, <1>28, <1>29, <1>30, <1>31, <1>32, <1>33, <1>34, <1>35
  DEF Next, PeerStep, TaskStep, AppStep

\* push_back and erase are where the task enters and leaves the listed stages.
LEMMA ListedStep ==
  ASSUME TypeOK, ListedExactly, [Next]_vars
  PROVE  ListedExactly'
<1>. USE NTSessionAssumption DEF ListedExactly, Listed, Inside, TypeOK, Goto, socket, history
<1>1. ASSUME NEW c \in Conn, AcceptConnection(c) PROVE ListedExactly'
  BY <1>1 DEF AcceptConnection
<1>2. ASSUME NEW c \in Conn, ReceiveData(c) PROVE ListedExactly'  BY <1>2 DEF ReceiveData
<1>3. ASSUME NEW c \in Conn, PeerSendsClose(c) PROVE ListedExactly'  BY <1>3 DEF PeerSendsClose
<1>4. ASSUME NEW c \in Conn, PeerDrops(c) PROVE ListedExactly'  BY <1>4 DEF PeerDrops
<1>5. ASSUME NEW c \in Conn, RejectConnection(c) PROVE ListedExactly'
  BY <1>5 DEF RejectConnection
<1>6. ASSUME NEW c \in Conn, AcceptHandshake(c) PROVE ListedExactly'  BY <1>6 DEF AcceptHandshake
<1>7. ASSUME NEW c \in Conn, ListClient(c) PROVE ListedExactly'  BY <1>7 DEF ListClient
<1>8. ASSUME NEW c \in Conn, ConnectedTake(c) PROVE ListedExactly'
  BY <1>8 DEF ConnectedTake, Take
<1>9. ASSUME NEW c \in Conn, ConnectedGiveUp(c) PROVE ListedExactly'
  BY <1>9 DEF ConnectedGiveUp, GiveUp
<1>10. ASSUME NEW c \in Conn, Connected(c) PROVE ListedExactly'  BY <1>10 DEF Connected
<1>11. ASSUME NEW c \in Conn, MessageTake(c) PROVE ListedExactly'  BY <1>11 DEF MessageTake, Take
<1>12. ASSUME NEW c \in Conn, MessageGiveUp(c) PROVE ListedExactly'
  BY <1>12 DEF MessageGiveUp, GiveUp
<1>13. ASSUME NEW c \in Conn, MessageDone(c) PROVE ListedExactly'  BY <1>13 DEF MessageDone
<1>14. ASSUME NEW c \in Conn, ReceiveFirstClose(c) PROVE ListedExactly'
  BY <1>14 DEF ReceiveFirstClose, Overtaking
<1>15. ASSUME NEW c \in Conn, ReceiveCloseAnswer(c) PROVE ListedExactly'
  BY <1>15 DEF ReceiveCloseAnswer
<1>16. ASSUME NEW c \in Conn, ReadFails(c) PROVE ListedExactly'  BY <1>16 DEF ReadFails
<1>17. ASSUME NEW c \in Conn, LeaveLoop(c) PROVE ListedExactly'  BY <1>17 DEF LeaveLoop
<1>18. ASSUME NEW c \in Conn, EraseClient(c) PROVE ListedExactly'  BY <1>18 DEF EraseClient
<1>19. ASSUME NEW c \in Conn, CallbackTake(c) PROVE ListedExactly'
  BY <1>19 DEF CallbackTake, Take
<1>20. ASSUME NEW c \in Conn, CallbackGiveUp(c) PROVE ListedExactly'  BY <1>20 DEF CallbackGiveUp
<1>21. ASSUME NEW c \in Conn, CallbackDone(c) PROVE ListedExactly'
  BY <1>21 DEF CallbackDone, Forget
<1>22. ASSUME NEW c \in Conn, LoopExitTake(c) PROVE ListedExactly'
  BY <1>22 DEF LoopExitTake, Take
<1>23. ASSUME NEW c \in Conn, LoopExitGiveUp(c) PROVE ListedExactly'
  BY <1>23 DEF LoopExitGiveUp, GiveUp
<1>24. ASSUME NEW c \in Conn, LoopExitDone(c) PROVE ListedExactly'
  BY <1>24 DEF LoopExitDone, Forget
<1>25. ASSUME NEW c \in Conn, AppCloseFirst(c) PROVE ListedExactly'  BY <1>25 DEF AppCloseFirst
<1>26. ASSUME NEW c \in Conn, AppCloseAgain(c) PROVE ListedExactly'  BY <1>26 DEF AppCloseAgain
<1>27. ASSUME NEW c \in Conn, AppCallbackTake(c) PROVE ListedExactly'
  BY <1>27 DEF AppCallbackTake
<1>28. ASSUME NEW c \in Conn, AppCallbackGiveUp(c) PROVE ListedExactly'
  BY <1>28 DEF AppCallbackGiveUp
<1>29. ASSUME NEW c \in Conn, AppCallbackDone(c) PROVE ListedExactly'
  BY <1>29 DEF AppCallbackDone, Forget
<1>30. CASE AppTake  BY <1>30 DEF AppTake
<1>31. CASE AppGive  BY <1>31 DEF AppGive
<1>32. ASSUME NEW c \in Conn, FirstCloseSent(c) PROVE ListedExactly'
  BY <1>32 DEF FirstCloseSent
<1>33. ASSUME NEW c \in Conn, Disconnect(c) PROVE ListedExactly'
  BY <1>33 DEF Disconnect
<1>34. ASSUME NEW c \in Conn, AppCloseSent(c) PROVE ListedExactly'
  BY <1>34 DEF AppCloseSent
<1>35. CASE UNCHANGED vars  BY <1>35 DEF vars
<1>36. QED
  BY <1>1, <1>2, <1>3, <1>4, <1>5, <1>6, <1>7, <1>8, <1>9, <1>10, <1>11, <1>12, <1>13,
  <1>14, <1>15, <1>16, <1>17, <1>18, <1>19, <1>20, <1>21, <1>22, <1>23, <1>24, <1>25,
  <1>26, <1>27, <1>28, <1>29, <1>30, <1>31, <1>32, <1>33, <1>34, <1>35
  DEF Next, PeerStep, TaskStep, AppStep

\* The loop is left through closeCallback or gracefullyClosed, and neither the
\* count of reports nor gracefullyClosed is ever taken back.
LEMMA ReportedStep ==
  ASSUME TypeOK, NEW d \in Conn, Reported(d), [Next]_vars
  PROVE  Reported(d)'
<1>. USE NTSessionAssumption DEF Reported, TypeOK, Goto, socket, history
<1>1. ASSUME NEW c \in Conn, AcceptConnection(c) PROVE Reported(d)'  BY <1>1 DEF AcceptConnection
<1>2. ASSUME NEW c \in Conn, ReceiveData(c) PROVE Reported(d)'  BY <1>2 DEF ReceiveData
<1>3. ASSUME NEW c \in Conn, PeerSendsClose(c) PROVE Reported(d)'  BY <1>3 DEF PeerSendsClose
<1>4. ASSUME NEW c \in Conn, PeerDrops(c) PROVE Reported(d)'  BY <1>4 DEF PeerDrops
<1>5. ASSUME NEW c \in Conn, RejectConnection(c) PROVE Reported(d)'  BY <1>5 DEF RejectConnection
<1>6. ASSUME NEW c \in Conn, AcceptHandshake(c) PROVE Reported(d)'  BY <1>6 DEF AcceptHandshake
<1>7. ASSUME NEW c \in Conn, ListClient(c) PROVE Reported(d)'  BY <1>7 DEF ListClient
<1>8. ASSUME NEW c \in Conn, ConnectedTake(c) PROVE Reported(d)'  BY <1>8 DEF ConnectedTake, Take
<1>9. ASSUME NEW c \in Conn, ConnectedGiveUp(c) PROVE Reported(d)'
  BY <1>9 DEF ConnectedGiveUp, GiveUp
<1>10. ASSUME NEW c \in Conn, Connected(c) PROVE Reported(d)'  BY <1>10 DEF Connected
<1>11. ASSUME NEW c \in Conn, MessageTake(c) PROVE Reported(d)'  BY <1>11 DEF MessageTake, Take
<1>12. ASSUME NEW c \in Conn, MessageGiveUp(c) PROVE Reported(d)'
  BY <1>12 DEF MessageGiveUp, GiveUp
<1>13. ASSUME NEW c \in Conn, MessageDone(c) PROVE Reported(d)'  BY <1>13 DEF MessageDone
<1>14. ASSUME NEW c \in Conn, ReceiveFirstClose(c) PROVE Reported(d)'
  BY <1>14 DEF ReceiveFirstClose, Overtaking
<1>15. ASSUME NEW c \in Conn, ReceiveCloseAnswer(c) PROVE Reported(d)'
  BY <1>15 DEF ReceiveCloseAnswer
<1>16. ASSUME NEW c \in Conn, ReadFails(c) PROVE Reported(d)'  BY <1>16 DEF ReadFails
<1>17. ASSUME NEW c \in Conn, LeaveLoop(c) PROVE Reported(d)'  BY <1>17 DEF LeaveLoop
<1>18. ASSUME NEW c \in Conn, EraseClient(c) PROVE Reported(d)'  BY <1>18 DEF EraseClient
<1>19. ASSUME NEW c \in Conn, CallbackTake(c) PROVE Reported(d)'  BY <1>19 DEF CallbackTake, Take
<1>20. ASSUME NEW c \in Conn, CallbackGiveUp(c) PROVE Reported(d)'  BY <1>20 DEF CallbackGiveUp
<1>21. ASSUME NEW c \in Conn, CallbackDone(c) PROVE Reported(d)'
  BY <1>21 DEF CallbackDone, Forget
<1>22. ASSUME NEW c \in Conn, LoopExitTake(c) PROVE Reported(d)'  BY <1>22 DEF LoopExitTake, Take
<1>23. ASSUME NEW c \in Conn, LoopExitGiveUp(c) PROVE Reported(d)'
  BY <1>23 DEF LoopExitGiveUp, GiveUp
<1>24. ASSUME NEW c \in Conn, LoopExitDone(c) PROVE Reported(d)'
  BY <1>24 DEF LoopExitDone, Forget
<1>25. ASSUME NEW c \in Conn, AppCloseFirst(c) PROVE Reported(d)'  BY <1>25 DEF AppCloseFirst
<1>26. ASSUME NEW c \in Conn, AppCloseAgain(c) PROVE Reported(d)'  BY <1>26 DEF AppCloseAgain
<1>27. ASSUME NEW c \in Conn, AppCallbackTake(c) PROVE Reported(d)'  BY <1>27 DEF AppCallbackTake
<1>28. ASSUME NEW c \in Conn, AppCallbackGiveUp(c) PROVE Reported(d)'
  BY <1>28 DEF AppCallbackGiveUp
<1>29. ASSUME NEW c \in Conn, AppCallbackDone(c) PROVE Reported(d)'
  BY <1>29 DEF AppCallbackDone, Forget
<1>30. CASE AppTake  BY <1>30 DEF AppTake
<1>31. CASE AppGive  BY <1>31 DEF AppGive
<1>32. ASSUME NEW c \in Conn, FirstCloseSent(c) PROVE Reported(d)'
  BY <1>32 DEF FirstCloseSent
<1>33. ASSUME NEW c \in Conn, Disconnect(c) PROVE Reported(d)'
  BY <1>33 DEF Disconnect
<1>34. ASSUME NEW c \in Conn, AppCloseSent(c) PROVE Reported(d)'
  BY <1>34 DEF AppCloseSent
<1>35. CASE UNCHANGED vars  BY <1>35 DEF vars
<1>36. QED
  BY <1>1, <1>2, <1>3, <1>4, <1>5, <1>6, <1>7, <1>8, <1>9, <1>10, <1>11, <1>12, <1>13,
  <1>14, <1>15, <1>16, <1>17, <1>18, <1>19, <1>20, <1>21, <1>22, <1>23, <1>24, <1>25,
  <1>26, <1>27, <1>28, <1>29, <1>30, <1>31, <1>32, <1>33, <1>34, <1>35
  DEF Next, PeerStep, TaskStep, AppStep

\* A well-behaved connection d: the task that reports it is the one that then
\* leaves the loop, and finds it gracefullyClosed just when it was reported or
\* overtaken.
LEMMA OnceStep ==
  ASSUME TypeOK, NEW d \in Conn, WellBehaved(d), Once(d), [Next]_vars
  PROVE  Once(d)'
<1>. USE NTSessionAssumption
    DEF Once, WellBehaved, Early, Ending, CloseFrame, TypeOK, Goto, socket, history
<1>1. ASSUME NEW c \in Conn, AcceptConnection(c) PROVE Once(d)'  BY <1>1 DEF AcceptConnection
<1>2. ASSUME NEW c \in Conn, ReceiveData(c) PROVE Once(d)'  BY <1>2 DEF ReceiveData
<1>3. ASSUME NEW c \in Conn, PeerSendsClose(c) PROVE Once(d)'  BY <1>3 DEF PeerSendsClose
<1>4. ASSUME NEW c \in Conn, PeerDrops(c) PROVE Once(d)'  BY <1>4 DEF PeerDrops
<1>5. ASSUME NEW c \in Conn, RejectConnection(c) PROVE Once(d)'  BY <1>5 DEF RejectConnection
<1>6. ASSUME NEW c \in Conn, AcceptHandshake(c) PROVE Once(d)'  BY <1>6 DEF AcceptHandshake
<1>7. ASSUME NEW c \in Conn, ListClient(c) PROVE Once(d)'  BY <1>7 DEF ListClient
<1>8. ASSUME NEW c \in Conn, ConnectedTake(c) PROVE Once(d)'  BY <1>8 DEF ConnectedTake, Take
<1>9. ASSUME NEW c \in Conn, ConnectedGiveUp(c) PROVE Once(d)'
  BY <1>9 DEF ConnectedGiveUp, GiveUp
<1>10. ASSUME NEW c \in Conn, Connected(c) PROVE Once(d)'  BY <1>10 DEF Connected
<1>11. ASSUME NEW c \in Conn, MessageTake(c) PROVE Once(d)'  BY <1>11 DEF MessageTake, Take
<1>12. ASSUME NEW c \in Conn, MessageGiveUp(c) PROVE Once(d)'  BY <1>12 DEF MessageGiveUp, GiveUp
<1>13. ASSUME NEW c \in Conn, MessageDone(c) PROVE Once(d)'  BY <1>13 DEF MessageDone
<1>14. ASSUME NEW c \in Conn, ReceiveFirstClose(c) PROVE Once(d)'
  BY <1>14 DEF ReceiveFirstClose, Overtaking
<1>15. ASSUME NEW c \in Conn, ReceiveCloseAnswer(c) PROVE Once(d)'
  BY <1>15 DEF ReceiveCloseAnswer
<1>16. ASSUME NEW c \in Conn, ReadFails(c) PROVE Once(d)'  BY <1>16 DEF ReadFails
<1>17. ASSUME NEW c \in Conn, LeaveLoop(c) PROVE Once(d)'  BY <1>17 DEF LeaveLoop
<1>18. ASSUME NEW c \in Conn, EraseClient(c) PROVE Once(d)'  BY <1>18 DEF EraseClient
<1>19. ASSUME NEW c \in Conn, CallbackTake(c) PROVE Once(d)'  BY <1>19 DEF CallbackTake, Take
<1>20. ASSUME NEW c \in Conn, CallbackGiveUp(c) PROVE Once(d)'  BY <1>20 DEF CallbackGiveUp
<1>21. ASSUME NEW c \in Conn, CallbackDone(c) PROVE Once(d)'  BY <1>21 DEF CallbackDone, Forget
<1>22. ASSUME NEW c \in Conn, LoopExitTake(c) PROVE Once(d)'  BY <1>22 DEF LoopExitTake, Take
<1>23. ASSUME NEW c \in Conn, LoopExitGiveUp(c) PROVE Once(d)'
  BY <1>23 DEF LoopExitGiveUp, GiveUp
<1>24. ASSUME NEW c \in Conn, LoopExitDone(c) PROVE Once(d)'  BY <1>24 DEF LoopExitDone, Forget
<1>25. ASSUME NEW c \in Conn, AppCloseFirst(c) PROVE Once(d)'  BY <1>25 DEF AppCloseFirst
<1>26. ASSUME NEW c \in Conn, AppCloseAgain(c) PROVE Once(d)'  BY <1>26 DEF AppCloseAgain
<1>27. ASSUME NEW c \in Conn, AppCallbackTake(c) PROVE Once(d)'  BY <1>27 DEF AppCallbackTake
<1>28. ASSUME NEW c \in Conn, AppCallbackGiveUp(c) PROVE Once(d)'  BY <1>28 DEF AppCallbackGiveUp
<1>29. ASSUME NEW c \in Conn, AppCallbackDone(c) PROVE Once(d)'
  BY <1>29 DEF AppCallbackDone, Forget
<1>30. CASE AppTake  BY <1>30 DEF AppTake
<1>31. CASE AppGive  BY <1>31 DEF AppGive
<1>32. ASSUME NEW c \in Conn, FirstCloseSent(c) PROVE Once(d)'
  BY <1>32 DEF FirstCloseSent
<1>33. ASSUME NEW c \in Conn, Disconnect(c) PROVE Once(d)'
  BY <1>33 DEF Disconnect
<1>34. ASSUME NEW c \in Conn, AppCloseSent(c) PROVE Once(d)'
  BY <1>34 DEF AppCloseSent
<1>35. CASE UNCHANGED vars  BY <1>35 DEF vars
<1>36. QED
  BY <1>1, <1>2, <1>3, <1>4, <1>5, <1>6, <1>7, <1>8, <1>9, <1>10, <1>11, <1>12, <1>13,
  <1>14, <1>15, <1>16, <1>17, <1>18, <1>19, <1>20, <1>21, <1>22, <1>23, <1>24, <1>25,
  <1>26, <1>27, <1>28, <1>29, <1>30, <1>31, <1>32, <1>33, <1>34, <1>35
  DEF Next, PeerStep, TaskStep, AppStep

\* Every handler d enters finds its ClientData, so it takes the path that gives the
\* mutex back; only an overtaken d leaves the ClientData behind.
CleanIfServed(c) == c \notin gaveUp => Clean(c)

\* The step of CleanIfServed; others' handlers give back only their own mutex.
LEMMA CleanStep ==
  ASSUME TypeOK, HandlersExclusive,
         NEW d \in Conn, WellBehaved(d), Once(d), CleanIfServed(d), [Next]_vars
  PROVE  CleanIfServed(d)'
<1>. USE NTSessionAssumption
    DEF CleanIfServed, Clean, Once, HandlersExclusive, InSection, WellBehaved, Early, Ending,
         Inside, TypeOK, Goto, socket, history
<1>1. ASSUME NEW c \in Conn, AcceptConnection(c) PROVE CleanIfServed(d)'
  BY <1>1 DEF AcceptConnection
<1>2. ASSUME NEW c \in Conn, ReceiveData(c) PROVE CleanIfServed(d)'  BY <1>2 DEF ReceiveData
<1>3. ASSUME NEW c \in Conn, PeerSendsClose(c) PROVE CleanIfServed(d)'
  BY <1>3 DEF PeerSendsClose
<1>4. ASSUME NEW c \in Conn, PeerDrops(c) PROVE CleanIfServed(d)'  BY <1>4 DEF PeerDrops
<1>5. ASSUME NEW c \in Conn, RejectConnection(c) PROVE CleanIfServed(d)'
  BY <1>5 DEF RejectConnection
<1>6. ASSUME NEW c \in Conn, AcceptHandshake(c) PROVE CleanIfServed(d)'
  BY <1>6 DEF AcceptHandshake
<1>7. ASSUME NEW c \in Conn, ListClient(c) PROVE CleanIfServed(d)'  BY <1>7 DEF ListClient
<1>8. ASSUME NEW c \in Conn, ConnectedTake(c) PROVE CleanIfServed(d)'
  BY <1>8 DEF ConnectedTake, Take
<1>9. ASSUME NEW c \in Conn, ConnectedGiveUp(c) PROVE CleanIfServed(d)'
  BY <1>9 DEF ConnectedGiveUp, GiveUp
<1>10. ASSUME NEW c \in Conn, Connected(c) PROVE CleanIfServed(d)'  BY <1>10 DEF Connected
<1>11. ASSUME NEW c \in Conn, MessageTake(c) PROVE CleanIfServed(d)'
  BY <1>11 DEF MessageTake, Take
<1>12. ASSUME NEW c \in Conn, MessageGiveUp(c) PROVE CleanIfServed(d)'
  BY <1>12 DEF MessageGiveUp, GiveUp
<1>13. ASSUME NEW c \in Conn, MessageDone(c) PROVE CleanIfServed(d)'  BY <1>13 DEF MessageDone
<1>14. ASSUME NEW c \in Conn, ReceiveFirstClose(c) PROVE CleanIfServed(d)'
  BY <1>14 DEF ReceiveFirstClose, Overtaking
<1>15. ASSUME NEW c \in Conn, ReceiveCloseAnswer(c) PROVE CleanIfServed(d)'
  BY <1>15 DEF ReceiveCloseAnswer
<1>16. ASSUME NEW c \in Conn, ReadFails(c) PROVE CleanIfServed(d)'  BY <1>16 DEF ReadFails
<1>17. ASSUME NEW c \in Conn, LeaveLoop(c) PROVE CleanIfServed(d)'  BY <1>17 DEF LeaveLoop
<1>18. ASSUME NEW c \in Conn, EraseClient(c) PROVE CleanIfServed(d)'  BY <1>18 DEF EraseClient
<1>19. ASSUME NEW c \in Conn, CallbackTake(c) PROVE CleanIfServed(d)'
  BY <1>19 DEF CallbackTake, Take
<1>20. ASSUME NEW c \in Conn, CallbackGiveUp(c) PROVE CleanIfServed(d)'
  BY <1>20 DEF CallbackGiveUp
<1>21. ASSUME NEW c \in Conn, CallbackDone(c) PROVE CleanIfServed(d)'
  BY <1>21 DEF CallbackDone, Forget
<1>22. ASSUME NEW c \in Conn, LoopExitTake(c) PROVE CleanIfServed(d)'
  BY <1>22 DEF LoopExitTake, Take
<1>23. ASSUME NEW c \in Conn, LoopExitGiveUp(c) PROVE CleanIfServed(d)'
  BY <1>23 DEF LoopExitGiveUp, GiveUp
<1>24. ASSUME NEW c \in Conn, LoopExitDone(c) PROVE CleanIfServed(d)'
  BY <1>24 DEF LoopExitDone, Forget
<1>25. ASSUME NEW c \in Conn, AppCloseFirst(c) PROVE CleanIfServed(d)'
  BY <1>25 DEF AppCloseFirst
<1>26. ASSUME NEW c \in Conn, AppCloseAgain(c) PROVE CleanIfServed(d)'
  BY <1>26 DEF AppCloseAgain
<1>27. ASSUME NEW c \in Conn, AppCallbackTake(c) PROVE CleanIfServed(d)'
  BY <1>27 DEF AppCallbackTake
<1>28. ASSUME NEW c \in Conn, AppCallbackGiveUp(c) PROVE CleanIfServed(d)'
  BY <1>28 DEF AppCallbackGiveUp
<1>29. ASSUME NEW c \in Conn, AppCallbackDone(c) PROVE CleanIfServed(d)'
  BY <1>29 DEF AppCallbackDone, Forget
<1>30. CASE AppTake  BY <1>30 DEF AppTake
<1>31. CASE AppGive  BY <1>31 DEF AppGive
<1>32. ASSUME NEW c \in Conn, FirstCloseSent(c) PROVE CleanIfServed(d)'
  BY <1>32 DEF FirstCloseSent
<1>33. ASSUME NEW c \in Conn, Disconnect(c) PROVE CleanIfServed(d)'
  BY <1>33 DEF Disconnect
<1>34. ASSUME NEW c \in Conn, AppCloseSent(c) PROVE CleanIfServed(d)'
  BY <1>34 DEF AppCloseSent
<1>35. CASE UNCHANGED vars  BY <1>35 DEF vars
<1>36. QED
  BY <1>1, <1>2, <1>3, <1>4, <1>5, <1>6, <1>7, <1>8, <1>9, <1>10, <1>11, <1>12, <1>13,
  <1>14, <1>15, <1>16, <1>17, <1>18, <1>19, <1>20, <1>21, <1>22, <1>23, <1>24, <1>25,
  <1>26, <1>27, <1>28, <1>29, <1>30, <1>31, <1>32, <1>33, <1>34, <1>35
  DEF Next, PeerStep, TaskStep, AppStep

-----------------------------------------------------------------------------
\* The initial state: no connection is past "idle" and the mutex is Free.
LEMMA InitInv == Init => Inv
<1>. SUFFICES ASSUME Init PROVE Inv
  OBVIOUS
<1>. USE NTSessionAssumption DEF Init
<1>1. TypeOK
  BY DEF TypeOK, Stage
<1>2. HandlersExclusive
  BY DEF HandlersExclusive, InSection, Inside
<1>3. ListedExactly
  BY DEF ListedExactly, Listed, Inside
<1>4. ASSUME NEW c \in Conn PROVE Reported(c)
  BY <1>4 DEF Reported
<1>5. ASSUME NEW c \in Conn PROVE Once(c)
  BY <1>5 DEF Once, Early, Ending, CloseFrame
<1>6. ASSUME NEW c \in Conn PROVE Clean(c)
  BY <1>6 DEF Clean
<1>7. QED
  BY <1>1, <1>2, <1>3, <1>4, <1>5, <1>6 DEF Inv

\* Inv is inductive.
LEMMA StepInv == Inv /\ [Next]_vars => Inv'
<1>. SUFFICES ASSUME Inv, [Next]_vars PROVE Inv'
  OBVIOUS
<1>1. TypeOK' /\ HandlersExclusive' /\ ListedExactly'
  BY TypeStep, ExclusiveStep, ListedStep DEF Inv
<1>2. ASSUME NEW d \in Conn PROVE Reported(d)'
  BY ReportedStep DEF Inv
<1>3. ASSUME NEW d \in Conn, WellBehaved(d) PROVE Once(d)'
  BY <1>3, OnceStep DEF Inv
<1>4. ASSUME NEW d \in Conn, WellBehaved(d) PROVE CleanIfServed(d)'
  <2>1. Once(d) /\ CleanIfServed(d) /\ TypeOK /\ HandlersExclusive
    BY <1>4 DEF Inv, CleanIfServed
  <2>2. QED
    BY <1>4, <2>1, CleanStep
<1>5. ASSUME NEW d \in Conn PROVE WellBehaved(d)' <=> WellBehaved(d)
  BY DEF WellBehaved
<1>6. QED
  BY <1>1, <1>2, <1>3, <1>4, <1>5 DEF Inv, CleanIfServed

\* Every reachable state satisfies Inv.
THEOREM Invariance == Spec => []Inv
<1>1. QED
  BY InitInv, StepInv, PTL DEF Spec

\* The variables keep to the types of the members they stand for.
THEOREM TypeCorrect == Spec => []TypeOK
<1>1. Inv => TypeOK
  BY DEF Inv
<1>2. QED
  BY <1>1, Invariance, PTL

\* No two handlers of NetworkTableInstance run at a time, stateMutex being leaked,
\* waited for or given up on as it may.
THEOREM MutualExclusion == Spec => []HandlersExclusive
<1>1. Inv => HandlersExclusive
  BY DEF Inv
<1>2. QED
  BY <1>1, Invariance, PTL

\* WsServer::clients holds a connection exactly from push_back to erase.
THEOREM Listing == Spec => []ListedExactly
<1>1. Inv => ListedExactly
  BY DEF Inv
<1>2. QED
  BY <1>1, Invariance, PTL

\* A connection over and not gracefullyClosed has been reported.
THEOREM EndsReported == Spec => []AbnormalEndReported
<1>1. Inv => AbnormalEndReported
  BY DEF Inv, Reported, AbnormalEndReported
<1>2. QED
  BY <1>1, Invariance, PTL

\* clientDisconnected runs exactly once for a connection that behaves, and never
\* for one whose answer overtook closeFrameSent.
THEOREM ReportedOnce == Spec => []ToldOnce
<1>1. Inv => ToldOnce
  <2>. SUFFICES ASSUME Inv, NEW c \in Conn, WellBehaved(c)
                PROVE  /\ told[c] <= 1
                       /\ pc[c] = "done" => told[c] = (IF c \in overtaken THEN 0 ELSE 1)
    BY DEF ToldOnce
  <2>1. Once(c) /\ pc[c] \in Stage /\ told[c] \in Nat
    BY DEF Inv, TypeOK
  <2>2. told[c] = 0 \/ told[c] = 1
    BY <2>1 DEF Once, Early, Ending, Stage, Listed, Inside
  <2>3. QED
    BY <2>1, <2>2 DEF Once, Ending
<1>2. QED
  BY <1>1, Invariance, PTL

\* Nothing is left of such a connection when its handlers got the mutex and its
\* closing handshake was not overtaken.
THEOREM NoGhost == Spec => []NoGhostClient
<1>1. Inv => NoGhostClient
  BY DEF Inv, Clean, NoGhostClient
<1>2. QED
  BY <1>1, Invariance, PTL

\* And none of its handlers leaves the mutex taken.
THEOREM GivenBack == Spec => []MutexGivenBack
<1>1. Inv => MutexGivenBack
  BY DEF Inv, Clean, MutexGivenBack
<1>2. QED
  BY <1>1, Invariance, PTL

=============================================================================
