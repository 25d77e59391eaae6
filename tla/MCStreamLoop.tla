---------------------------- MODULE MCStreamLoop ----------------------------
(* StreamLoop with a few frames of two sizes.                              *)
EXTENDS StreamLoop
=============================================================================
