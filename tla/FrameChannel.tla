---------------------------- MODULE FrameChannel ----------------------------
(***************************************************************************)
(* The single-slot frame queue between the capture task and the stream     *)
(* loop (rotten-video/src/stream.rs): LatestFrameSender::send,             *)
(* LatestFrameReceiver::recv, the tokio Notify between them, and the       *)
(* select! of run_stream_loop that polls, cancels and re-creates the recv  *)
(* future.                                                                 *)
(*                                                                         *)
(* main.rs runs everything on one current_thread runtime, so a poll of the *)
(* recv future (take the slot, look at the sender count, register with     *)
(* Notify) is one step, and so is send.  A frame is its position in the    *)
(* sequence of frames sent.                                                *)
(***************************************************************************)
EXTENDS Integers

CONSTANT MaxFrames      \* frames sent in a behaviour (a bound of the model)

ASSUME MaxFramesAssumption == MaxFrames \in Nat \ {0}

NoFrame == 0

VARIABLES
  slot,                 \* LatestFrameInner::slot, NoFrame for None
  permits,              \* notify_one calls stored in Notify, at most one
  waiter,               \* the Notified future of recv: "none", "waiting", "notified"
  senders,              \* Arcs besides the receiver's: the producer's, or none
  consumer,             \* the stream loop: "select", "busy", "done", "failed"
  dropped,              \* the shared counter of overwritten frames
  reported,             \* StreamStats::dropped_frames
  sent,                 \* history: number of frames sent
  taken,                \* history: number of frames recv returned
  last                  \* history: the last frame recv returned

chan == <<slot, permits, waiter, dropped>>
history == <<sent, taken, last>>
vars == <<slot, permits, waiter, senders, consumer, dropped, reported,
          sent, taken, last>>

Init ==
  /\ slot = NoFrame
  /\ permits = 0
  /\ waiter = "none"
  /\ senders = 1
  /\ consumer = "select"
  /\ dropped = 0
  /\ reported = 0
  /\ sent = 0
  /\ taken = 0
  /\ last = NoFrame

(***************************************************************************)
(* The producer.                                                           *)
(***************************************************************************)

\* Mutant: the frame is stored and nobody is notified.
NotifyOneForgotten == UNCHANGED <<permits, waiter>>

\* Notify::notify_one wakes the registered waiter or stores one permit.
NotifyOne ==
  IF waiter = "waiting"
  THEN /\ waiter' = "notified"
       /\ UNCHANGED permits
  ELSE /\ permits' = 1
       /\ UNCHANGED waiter

\* Mutant: the slot is looked at after it was emptied, so no drop is counted.
SendUncounted ==
  /\ senders = 1
  /\ sent < MaxFrames
  /\ sent' = sent + 1
  /\ slot' = sent + 1
  /\ NotifyOne
  /\ UNCHANGED <<senders, consumer, dropped, reported, taken, last>>

Send ==
  /\ senders = 1
  /\ sent < MaxFrames
  /\ sent' = sent + 1
  /\ dropped' = IF slot # NoFrame THEN dropped + 1 ELSE dropped
  /\ slot' = sent + 1
  /\ NotifyOne
  /\ UNCHANGED <<senders, consumer, reported, taken, last>>

\* The producer task ends and its sender is dropped.  There is no Drop
\* implementation: nobody is notified.
DropSender ==
  /\ senders = 1
  /\ senders' = 0
  /\ UNCHANGED <<slot, permits, waiter, consumer, dropped, reported, history>>

(***************************************************************************)
(* The recv branch of select!.  It runs when select! first polls the new   *)
(* future and again when the future's waiter has been notified.            *)
(***************************************************************************)
RecvPolled == consumer = "select" /\ waiter # "waiting"

RecvFrame ==
  /\ RecvPolled
  /\ slot # NoFrame
  /\ slot' = NoFrame
  /\ waiter' = "none"
  /\ taken' = taken + 1
  /\ last' = slot
  /\ consumer' = "busy"
  /\ UNCHANGED <<permits, senders, dropped, reported, sent>>

\* Mutant: recv looks at the sender count before it looks into the slot.
RecvNoneCountFirst ==
  /\ RecvPolled
  /\ senders = 0
  /\ waiter' = "none"
  /\ consumer' = "done"
  /\ UNCHANGED <<slot, permits, senders, dropped, reported, history>>

\* Only the receiver's own Arc is left: recv returns None, the loop breaks.
RecvNone ==
  /\ RecvPolled
  /\ slot = NoFrame
  /\ senders = 0
  /\ waiter' = "none"
  /\ consumer' = "done"
  /\ UNCHANGED <<slot, permits, senders, dropped, reported, history>>

\* notified().await: a stored permit is consumed and the loop looks again;
\* the slot is still empty, so the second notified() registers.
RecvWait ==
  /\ RecvPolled
  /\ slot = NoFrame
  /\ senders = 1
  /\ permits' = 0
  /\ waiter' = "waiting"
  /\ UNCHANGED <<slot, senders, consumer, dropped, reported, history>>

(***************************************************************************)
(* The other branches.  select! drops the recv future when one completes;  *)
(* a Notified that was woken but not polled hands its wake-up on.          *)
(***************************************************************************)
\* Mutant: one recv future is pinned outside the loop and survives ticks.
CancelRecvPinned == UNCHANGED <<permits, waiter>>

CancelRecv ==
  /\ permits' = IF waiter = "notified" THEN 1 ELSE permits
  /\ waiter' = "none"

\* Mutant: the comparison that guards the store is the wrong way round.
WatchdogTickReversed ==
  /\ consumer = "select"
  /\ CancelRecv
  /\ reported' = IF dropped < reported THEN dropped ELSE reported
  /\ UNCHANGED <<slot, senders, consumer, dropped, history>>

WatchdogTick ==
  /\ consumer = "select"
  /\ CancelRecv
  /\ reported' = IF dropped > reported THEN dropped ELSE reported
  /\ UNCHANGED <<slot, senders, consumer, dropped, history>>

\* The data heartbeat fires only after an access unit, so after a frame.
\* Its write is part of the handler: the loop is busy until it completes.
HeartbeatTick ==
  /\ consumer = "select"
  /\ taken > 0
  /\ CancelRecv
  /\ consumer' = "busy"
  /\ UNCHANGED <<slot, senders, dropped, reported, history>>

\* The handler of a branch completes and the loop comes round to select!.
Finish ==
  /\ consumer = "busy"
  /\ consumer' = "select"
  /\ UNCHANGED <<chan, senders, reported, history>>

\* The handler fails (encode error, write error): run_stream_loop returns
\* Err and the receiver is dropped.
Fail ==
  /\ consumer = "busy"
  /\ consumer' = "failed"
  /\ UNCHANGED <<chan, senders, reported, history>>

Next ==
  \/ Send
  \/ DropSender
  \/ RecvFrame
  \/ RecvNone
  \/ RecvWait
  \/ WatchdogTick
  \/ HeartbeatTick
  \/ Finish
  \/ Fail

\* Handlers complete.  The 2 s watchdog interval keeps firing, and select!
\* picks among its ready branches at random, with the tick branches ready at
\* most once a second: neither a ready recv nor a due tick is passed over for
\* ever, although each can be passed over again and again (strong fairness).
\* Nothing is assumed of the producer, nor of the data heartbeat.
Fairness ==
  /\ SF_vars(RecvFrame)
  /\ SF_vars(RecvNone)
  /\ WF_vars(Finish)
  /\ SF_vars(WatchdogTick)

Spec == Init /\ [][Next]_vars /\ Fairness

(***************************************************************************)
(* Properties.                                                             *)
(***************************************************************************)

\* Types of the variables.
TypeOK ==
  /\ slot \in 0..MaxFrames
  /\ permits \in 0..1
  /\ waiter \in {"none", "waiting", "notified"}
  /\ senders \in 0..1
  /\ consumer \in {"select", "busy", "done", "failed"}
  /\ dropped \in Nat
  /\ reported \in Nat
  /\ sent \in 0..MaxFrames
  /\ taken \in Nat
  /\ last \in 0..MaxFrames

Occupied == IF slot # NoFrame THEN 1 ELSE 0

\* Every frame sent was taken, was counted as dropped, or is in the slot:
\* the drop counter behind "droppedFrames" neither misses nor double-counts.
Conservation == sent = taken + dropped + Occupied

\* The receiver never sleeps on a full slot: whenever a frame waits and the
\* loop is in select!, the recv future is fresh or has been woken.
NoLostWakeup == ~(consumer = "select" /\ waiter = "waiting" /\ slot # NoFrame)

\* recv hands over the newest frame sent, each frame at most once, and never
\* an older one after a newer one.
OnlyNewest == [][taken' # taken => last' = sent /\ last' > last]_vars

\* Dropping the sender ends the loop, although it notifies nobody: the
\* watchdog's tick re-creates the recv future, which then sees the count.
EndsAfterSenderDropped == senders = 0 ~> consumer \in {"done", "failed"}

\* Drops reach StreamStats while the loop lives.
DropsReported ==
  \A d \in 1..MaxFrames :
    (dropped >= d) ~> (reported >= d \/ consumer \in {"done", "failed"})

(***************************************************************************)
(* The channel implements the abstract latest-value queue.                 *)
(***************************************************************************)
Mode ==
  CASE consumer \in {"select", "busy"} -> "running"
    [] consumer = "done"               -> "ended"
    [] consumer = "failed"             -> "abandoned"

LV == INSTANCE LatestValue WITH
        published <- sent, pending <- slot, closed <- (senders = 0), mode <- Mode

\* FrameChannel implements LatestValue, its liveness included: a frame in the
\* slot is handed over or replaced, and the end of the stream is noticed.
LatestValueSpec == LV!Spec
=============================================================================
