--------------------------- MODULE MCFrameChannel ---------------------------
(* FrameChannel on a bounded number of frames.                             *)
EXTENDS FrameChannel
=============================================================================
