---------------------------- MODULE LatestValue ----------------------------
(***************************************************************************)
(* What a single-slot "latest frame wins" queue promises its two ends,     *)
(* whatever its implementation: the consumer is only ever handed the       *)
(* newest published frame, no frame is handed over twice, and the consumer *)
(* is told that the stream is over only when the producer has gone away    *)
(* and nothing is left to hand over.  FrameChannel implements it.          *)
(***************************************************************************)
EXTENDS Integers

CONSTANT MaxFrames      \* frames published in a behaviour (a bound)

VARIABLES
  published,            \* number of frames published so far
  pending,              \* the frame waiting to be taken, 0 when there is none
  last,                 \* the last frame handed to the consumer, 0 at first
  closed,               \* the producer is gone
  mode                  \* "running", "ended" (told so) or "abandoned"

vars == <<published, pending, last, closed, mode>>

Init ==
  /\ published = 0
  /\ pending = 0
  /\ last = 0
  /\ closed = FALSE
  /\ mode = "running"

Publish ==
  /\ ~closed
  /\ published < MaxFrames
  /\ published' = published + 1
  /\ pending' = published + 1
  /\ UNCHANGED <<last, closed, mode>>

Close ==
  /\ ~closed
  /\ closed' = TRUE
  /\ UNCHANGED <<published, pending, last, mode>>

Take ==
  /\ mode = "running"
  /\ pending # 0
  /\ last' = pending
  /\ pending' = 0
  /\ UNCHANGED <<published, closed, mode>>

End ==
  /\ mode = "running"
  /\ closed
  /\ pending = 0
  /\ mode' = "ended"
  /\ UNCHANGED <<published, pending, last, closed>>

Abandon ==
  /\ mode = "running"
  /\ mode' = "abandoned"
  /\ UNCHANGED <<published, pending, last, closed>>

Next == Publish \/ Close \/ Take \/ End \/ Abandon

\* A running consumer takes what is pending, and learns of the end.
Spec == Init /\ [][Next]_vars /\ WF_vars(Take) /\ WF_vars(End)
=============================================================================
