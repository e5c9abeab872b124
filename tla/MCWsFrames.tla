----------------------------- MODULE MCWsFrames -----------------------------
(***************************************************************************)
(* Small instances of WsFrames for TLC, with two bytes to a packet.        *)
(***************************************************************************)
EXTENDS WsFrames

CONSTANTS s1, s2, s3, tiny, small, full, thrice

\* A task sends a message of two packets and a byte, then one of just a packet; the
\* other two send one of a single frame.
Programs ==
  [s \in Sender |->
    CASE s = s1 -> <<thrice, full>> [] s = s2 -> <<tiny>> [] s = s3 -> <<small>>]

OneLong == [s \in Sender |-> <<thrice>>]

MCSize ==
  [m \in Message |-> CASE m = tiny -> 1 [] m \in {small, full} -> 2 [] m = thrice -> 5]
=============================================================================
