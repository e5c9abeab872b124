---------------------------- MODULE MCDhcpServer ----------------------------
(***************************************************************************)
(* Small instances of DhcpServer for TLC.                                  *)
(***************************************************************************)
EXTENDS DhcpServer, TLC

CONSTANTS h1, h2, h3

\* Hosts are interchangeable; no liveness is checked.
Hosts == Permutations(Host)
=============================================================================
