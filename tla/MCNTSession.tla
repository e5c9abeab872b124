---------------------------- MODULE MCNTSession -----------------------------
(***************************************************************************)
(* Small instances of NTSession for TLC: a connection that behaves and one *)
(* that does whatever a peer may.                                          *)
(***************************************************************************)
EXTENDS NTSession

CONSTANTS good, other

OtherOpensBothWays  == [c \in Conn |-> IF c = good THEN {} ELSE CloseFrame]
OtherAnswersBothWays == [c \in Conn |-> IF c = good THEN {"status"} ELSE CloseFrame]
OtherClosedTwice == [c \in Conn |-> IF c = good THEN 1 ELSE 2]

NobodyOpens == [c \in Conn |-> {}]
AllAnswerWithStatus == [c \in Conn |-> {"status"}]
AllClosedOnce == [c \in Conn |-> 1]
=============================================================================
