----------------------------- MODULE MCCapture -----------------------------
(* Capture with macroblocks of 2 and pictures of at most 4 by 4.  Both     *)
(* sizes have an odd side and need scaling; one of them misses its width.  *)
EXTENDS Capture

TwoSizes == {<<6, 3>>, <<3, 6>>}
Missed == {<<6, 4>>}
=============================================================================
