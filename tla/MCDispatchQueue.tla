-------------------------- MODULE MCDispatchQueue --------------------------
(***************************************************************************)
(* A small instance of DispatchQueue for TLC.                              *)
(***************************************************************************)
EXTENDS DispatchQueue

CONSTANTS ping, text, bytes, more, t1, t2
=============================================================================
