--------------------------- MODULE MCMirrorTasks ---------------------------
(* MirrorTasks with a small CSeq space.                                    *)
EXTENDS MirrorTasks
=============================================================================
