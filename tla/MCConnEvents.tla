---------------------------- MODULE MCConnEvents ----------------------------
(* ConnEvents with two connections, of one peer or of two.                 *)
EXTENDS ConnEvents, TLC
=============================================================================
