--------------------------- MODULE MCMirrorSetup ---------------------------
(* MirrorSetup with two stream ids and one announced latency.  The TV may   *)
(* name another id, also one below zero, too large, or no integer.          *)
EXTENDS MirrorSetup

MCNamedIds ==
  {Whole(2), Whole(-8), Whole(8), [kind |-> "real", int |-> 9],
   [kind |-> "other", int |-> 0]}
=============================================================================
