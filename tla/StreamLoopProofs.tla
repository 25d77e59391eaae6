-------------------------- MODULE StreamLoopProofs --------------------------
(***************************************************************************)
(* Proofs about FrameChannel and about the stream loop that uses it, for   *)
(* every number of frames and every set of picture sizes.                  *)
(***************************************************************************)
EXTENDS StreamLoop, TLAPS

-----------------------------------------------------------------------------
(* The inductive invariant.  Conservation and NoLostWakeup need that the   *)
(* slot only ever holds the newest frame, that what was handed over lies   *)
(* behind it, and that no recv future is left over while a handler runs.   *)
SlotIsNewest == slot # NoFrame => slot = sent /\ last < sent
LastWasSent == last <= sent
NoFutureOutsideSelect == consumer # "select" => waiter = "none"
IInv ==
  /\ TypeOK
  /\ Conservation
  /\ NoLostWakeup
  /\ SlotIsNewest
  /\ LastWasSent
  /\ NoFutureOutsideSelect

\* Nothing has been sent, and nobody waits.
LEMMA InitIInv == Init => IInv
  BY MaxFramesAssumption
     DEF Init, IInv, TypeOK, Conservation, Occupied, NoLostWakeup,
         SlotIsNewest, LastWasSent, NoFutureOutsideSelect, NoFrame

(* Every step of Next keeps the inductive invariant.                       *)
LEMMA NextIInv == IInv /\ [Next]_vars => IInv'
<1> SUFFICES ASSUME IInv, [Next]_vars
             PROVE  IInv'
  OBVIOUS
<1> USE MaxFramesAssumption
    DEF IInv, TypeOK, Conservation, Occupied, NoLostWakeup, SlotIsNewest,
        LastWasSent, NoFutureOutsideSelect, NoFrame
<1>1. CASE Send
  BY <1>1 DEF Send, NotifyOne
<1>2. CASE DropSender
  BY <1>2 DEF DropSender, history
<1>3. CASE RecvFrame
  BY <1>3 DEF RecvFrame
<1>4. CASE RecvNone
  BY <1>4 DEF RecvNone, RecvPolled, history
<1>5. CASE RecvWait
  BY <1>5 DEF RecvWait, RecvPolled, history
<1>6. CASE WatchdogTick
  BY <1>6 DEF WatchdogTick, CancelRecv, history
<1>7. CASE HeartbeatTick
  BY <1>7 DEF HeartbeatTick, CancelRecv, history
<1>8. CASE Finish
  BY <1>8 DEF Finish, chan, history
<1>9. CASE Fail
  BY <1>9 DEF Fail, chan, history
<1>10. CASE UNCHANGED vars
  BY <1>10 DEF vars
<1> QED
  BY <1>1, <1>2, <1>3, <1>4, <1>5, <1>6, <1>7, <1>8, <1>9, <1>10 DEF Next

(* IInv holds in every reachable state.                                    *)
THEOREM Invariance == Spec => []IInv
  BY InitIInv, NextIInv, PTL DEF Spec

(* Frames are neither lost nor counted twice: each one sent was returned   *)
(* by recv, was counted in the drop counter, or is in the slot.            *)
THEOREM FramesConserved == Spec => []Conservation
<1>1. IInv => Conservation
  BY DEF IInv
<1> QED
  BY <1>1, Invariance, PTL

(* The stream loop never sleeps in select! on a recv future that nobody    *)
(* woke while a frame waits in the slot.                                   *)
THEOREM WakeupNotLost == Spec => []NoLostWakeup
<1>1. IInv => NoLostWakeup
  BY DEF IInv
<1> QED
  BY <1>1, Invariance, PTL

(* recv returns the newest frame sent, and never the same frame twice.     *)
THEOREM NewestOnly == Spec => OnlyNewest
<1>1. IInv /\ [Next]_vars => [taken' # taken => last' = sent /\ last' > last]_vars
  <2> SUFFICES ASSUME IInv, [Next]_vars, taken' # taken
               PROVE  last' = sent /\ last' > last
    OBVIOUS
  <2>1. RecvFrame
    BY DEF Next, vars, Send, DropSender, RecvNone, RecvWait, WatchdogTick,
           HeartbeatTick, Finish, Fail, chan, history
  <2> QED
    BY <2>1 DEF RecvFrame, IInv, TypeOK, SlotIsNewest
<1> QED
  BY <1>1, Invariance, PTL DEF Spec, OnlyNewest

-----------------------------------------------------------------------------
(* The channel implements the safety part of LatestValue: its initial      *)
(* state is an initial state of the abstract queue, and each of its steps  *)
(* is a step of the abstract queue or leaves the abstract state alone.     *)
THEOREM ImplementsLatestValue == Spec => LV!Init /\ [][LV!Next]_(LV!vars)
<1>1. Init => LV!Init
  BY DEF Init, LV!Init, Mode, NoFrame
<1>2. IInv /\ [Next]_vars => [LV!Next]_(LV!vars)
  <2> SUFFICES ASSUME IInv, [Next]_vars
               PROVE  [LV!Next]_(LV!vars)
    OBVIOUS
  <2> USE DEF LV!vars, NoFrame, IInv, TypeOK
  <2>1. CASE Send
    <3>1. LV!Publish
      BY <2>1 DEF Send, LV!Publish, Mode
    <3> QED BY <3>1 DEF LV!Next
  <2>2. CASE DropSender
    <3>1. LV!Close
      BY <2>2 DEF DropSender, history, LV!Close, Mode
    <3> QED BY <3>1 DEF LV!Next
  <2>3. CASE RecvFrame
    <3>1. LV!Take
      BY <2>3 DEF RecvFrame, RecvPolled, LV!Take, Mode
    <3> QED BY <3>1 DEF LV!Next
  <2>4. CASE RecvNone
    <3>1. LV!End
      BY <2>4 DEF RecvNone, RecvPolled, history, LV!End, Mode
    <3> QED BY <3>1 DEF LV!Next
  <2>5. CASE RecvWait
    BY <2>5 DEF RecvWait, history, Mode
  <2>6. CASE WatchdogTick
    BY <2>6 DEF WatchdogTick, history, Mode
  <2>7. CASE HeartbeatTick
    BY <2>7 DEF HeartbeatTick, history, Mode
  <2>8. CASE Finish
    BY <2>8 DEF Finish, chan, history, Mode
  <2>9. CASE Fail
    <3>1. LV!Abandon
      BY <2>9 DEF Fail, chan, history, LV!Abandon, Mode
    <3> QED BY <3>1 DEF LV!Next
  <2>10. CASE UNCHANGED vars
    BY <2>10 DEF vars, Mode
  <2> QED
    BY <2>1, <2>2, <2>3, <2>4, <2>5, <2>6, <2>7, <2>8, <2>9, <2>10 DEF Next
<1> QED
  BY <1>1, <1>2, Invariance, PTL DEF Spec

-----------------------------------------------------------------------------
(* The inductive invariant of the stream loop.                             *)

\* Packets of the current access unit are on their way.
Sending == step \in {"codec", "picture"}

\* A handler is in progress exactly while the loop is not in select!.
BusyInHandler == step # "idle" <=> consumer = "busy"

\* Each access unit came from a frame taken; the one being encoded is not
\* counted yet.
UnitsFromFrames == auIndex <= taken /\ (step = "encode" => auIndex < taken)

\* Every picture written, and the one being sent, has an access unit of its
\* own, and the signal has gone out if none was without a picture.
PicturesFromUnits ==
  /\ tv.pictures + (IF Sending THEN 1 ELSE 0) <= auIndex
  /\ /\ consumer \in {"select", "busy"}
     /\ tv.pictures > 0
     /\ tv.pictures + (IF Sending THEN 1 ELSE 0) = auIndex
     => firstTx = "fired"

\* The first-frame sender lives as long as the loop runs.
SignalAlive ==
  /\ consumer \in {"select", "busy"} => firstTx # "dropped"
  /\ firstTx = "fired" => tv.pictures > 0

\* Only the picture being written is sealed and not yet out.
SealedInStep ==
  consumer # "failed" => sealed = tv.pictures + (IF step = "picture" THEN 1 ELSE 0)

\* The TV has the parameter sets that the loop believes it has sent.
CodecAtTv ==
  /\ codecSent => tv.size = streamSize
  /\ step = "picture" => codecSent

\* What is known of the access unit being sent.
UnitBeingSent ==
  /\ Sending => ~forceIdr /\ streamSize = encSize
  /\ step = "codec" => au.key /\ (libIdr \/ au.picture)
  /\ step = "picture" => tv.keyed \/ au.key

\* Between access units: unless an intra request is still open, the TV has
\* the current parameter sets and a keyframe behind them.
KeyedUnlessRequested ==
  ~Sending /\ ~forceIdr /\ ~libIdr /\ consumer # "failed"
    => codecSent /\ streamSize = encSize /\ tv.keyed

LoopIInv ==
  /\ LoopTypeOK
  /\ IInv
  /\ BusyInHandler
  /\ UnitsFromFrames
  /\ PicturesFromUnits
  /\ SignalAlive
  /\ SealedInStep
  /\ CodecAtTv
  /\ UnitBeingSent
  /\ KeyedUnlessRequested

\* The loop starts with an encoder that owes an IDR picture.
LEMMA InitLoopIInv == LoopInit => LoopIInv
<1> SUFFICES ASSUME LoopInit PROVE LoopIInv
  OBVIOUS
<1>1. IInv
  BY InitIInv DEF LoopInit
<1>2. NoUnit \in AccessUnits
  BY DEF NoUnit, Unit, AccessUnits
<1>4. NoPacket \in Packets
  BY DEF NoPacket, Packets
<1>5. tv \in [size : Sizes \cup {NoSize}, keyed : BOOLEAN, pictures : Nat]
  BY DEF LoopInit
<1>6. TypeOK /\ 0 \in 0..MaxFrames
  BY <1>1, MaxFramesAssumption DEF IInv
<1>3. LoopTypeOK
  BY <1>2, <1>4, <1>5, <1>6, SizesAssumption DEF LoopInit, LoopTypeOK
<1> QED
  BY <1>1, <1>3
     DEF LoopIInv, LoopInit, Init, BusyInHandler, UnitsFromFrames, Sending,
         PicturesFromUnits, SignalAlive, SealedInStep, CodecAtTv, UnitBeingSent,
         KeyedUnlessRequested

(* What a write leaves at the TV, for each kind of packet.                 *)
LEMMA WriteCodec ==
  ASSUME Write(CodecPacket)
  PROVE  wire' = CodecPacket /\ tv' = [tv EXCEPT !.size = streamSize, !.keyed = FALSE]
<1>1. CodecPacket.kind = "codec" /\ CodecPacket.size = streamSize
  BY DEF CodecPacket
<1> QED
  BY <1>1, Zenon DEF Write

LEMMA WritePicture ==
  ASSUME Write(PicturePacket)
  PROVE  /\ wire' = PicturePacket
         /\ tv' = [tv EXCEPT !.keyed = tv.keyed \/ au.key, !.pictures = tv.pictures + 1]
<1>1. PicturePacket.kind = "picture" /\ PicturePacket.key = au.key
  BY DEF PicturePacket
<1>2. PicturePacket.kind # "codec"
  BY <1>1
<1> QED
  BY <1>1, <1>2, Zenon DEF Write

LEMMA WriteHeartbeat ==
  ASSUME Write(HeartbeatPacket)
  PROVE  wire' = HeartbeatPacket /\ tv' = tv
<1>1. HeartbeatPacket.kind # "codec" /\ HeartbeatPacket.kind # "picture"
  BY DEF HeartbeatPacket
<1> QED
  BY <1>1, Zenon DEF Write

(* Every step of the loop is a step of the channel or leaves it alone.     *)
LEMMA ChannelStep == [LoopNext]_loopVars => [Next]_vars
<1> SUFFICES ASSUME [LoopNext]_loopVars PROVE [Next]_vars
  OBVIOUS
<1>1. CASE Produce
  BY <1>1 DEF Produce, Next
<1>2. CASE Idle
  BY <1>2 DEF Idle, Next
<1>3. CASE TakeFrame
  BY <1>3 DEF TakeFrame, Next
<1>4. CASE End
  BY <1>4 DEF End, Next
<1>5. CASE EncodeNothing
  BY <1>5 DEF EncodeNothing, Next
<1>6. CASE EncodeUnit
  BY <1>6, Zenon DEF EncodeUnit, SealPicture, Next
<1>7. CASE CodecWritten
  BY <1>7, Zenon DEF CodecWritten, SealPicture, Next
<1>8. CASE PictureWritten
  BY <1>8, Zenon DEF PictureWritten, Next
<1>9. CASE HeartbeatWritten
  BY <1>9, Zenon DEF HeartbeatWritten, Next
<1>10. CASE HeartbeatDue
  BY <1>10 DEF HeartbeatDue, Next
<1>11. CASE Abort
  BY <1>11 DEF Abort, Next
<1>12. CASE UNCHANGED loopVars
  BY <1>12 DEF loopVars, vars
<1> QED
  BY <1>1, <1>2, <1>3, <1>4, <1>5, <1>6, <1>7, <1>8, <1>9, <1>10, <1>11, <1>12
     DEF LoopNext, Handler

\* The fields of an access unit.
LEMMA UnitFields ==
  ASSUME NEW k \in BOOLEAN, NEW ps \in BOOLEAN, NEW pic \in BOOLEAN
  PROVE  /\ Unit(k, ps, pic) \in AccessUnits
         /\ Unit(k, ps, pic).key = k
         /\ Unit(k, ps, pic).params = ps
         /\ Unit(k, ps, pic).picture = pic
  BY DEF Unit, AccessUnits

(* What the encoder can answer: an IDR unit, parameter sets alone, or,     *)
(* when no intra request is open, a picture without parameter sets.        *)
LEMMA OutputShape ==
  ASSUME NEW sz, NEW u \in Outputs(sz)
  PROVE  /\ u \in AccessUnits
         /\ u \in IdrUnits => u.key /\ u.params /\ u.picture
         /\ u \notin IdrUnits => \/ u.params /\ ~u.picture
                                 \/ ~u.params /\ u.picture /\ ~IntraPending(sz)
<1>1. ASSUME u \in IdrUnits
      PROVE  u \in AccessUnits /\ u.key /\ u.params /\ u.picture
  BY <1>1, UnitFields DEF IdrUnits
<1>2. ASSUME u \in ParameterUnits
      PROVE  u \in AccessUnits /\ u.params /\ ~u.picture
  BY <1>2, UnitFields DEF ParameterUnits
<1>3. ASSUME u \in OtherPictures
      PROVE  u \in AccessUnits /\ ~u.params /\ u.picture
  BY <1>3, UnitFields DEF OtherPictures
<1> QED
  BY <1>1, <1>2, <1>3 DEF Outputs

\* Without an open intra request the TV is ready for any picture.
LEMMA ReadyUnlessPending ==
  ASSUME LoopIInv, step = "encode", NEW sz, ~IntraPending(sz)
  PROVE  codecSent /\ streamSize = sz /\ encSize = sz /\ tv.keyed /\ CodecCurrent(sz)
  BY DEF LoopIInv, KeyedUnlessRequested, Sending, BusyInHandler, IntraPending,
         CodecCurrent

(* The packets are packets, and the writes keep the TV's record a record.  *)
LEMMA PacketTypes ==
  ASSUME LoopIInv
  PROVE  /\ CodecPacket \in Packets
         /\ step = "picture" => PicturePacket \in Packets
         /\ HeartbeatPacket \in Packets
<1> USE DEF LoopIInv, LoopTypeOK, Packets
<1>1. CodecPacket \in Packets
  BY DEF CodecPacket
<1>2. step = "picture" => PicturePacket \in Packets
  <2> SUFFICES ASSUME step = "picture" PROVE PicturePacket \in Packets
    OBVIOUS
  <2>1. sealed - 1 \in Nat
    BY DEF BusyInHandler, SealedInStep
  <2>2. au.key \in BOOLEAN
    BY DEF AccessUnits
  <2> QED
    BY <2>1, <2>2 DEF PicturePacket
<1>3. HeartbeatPacket \in Packets
  BY DEF HeartbeatPacket
<1> QED
  BY <1>1, <1>2, <1>3

(* Every step of the loop keeps the invariant.                             *)
LEMMA NextLoopIInv == LoopIInv /\ [LoopNext]_loopVars => LoopIInv'
<1> SUFFICES ASSUME LoopIInv, [LoopNext]_loopVars
             PROVE  LoopIInv'
  OBVIOUS
<1>c. IInv' /\ TypeOK'
  BY ChannelStep, NextIInv DEF LoopIInv, IInv
<1>m. MaxFrames \in Nat
  BY MaxFramesAssumption
<1>s. IInv
  BY DEF LoopIInv
<1>p. taken \in Nat /\ taken <= sent /\ sent <= MaxFrames
  BY <1>s, <1>m DEF IInv, TypeOK, Conservation, Occupied
<1>q. taken' \in Nat /\ taken' <= sent' /\ sent' <= MaxFrames
  <2>1. sent' \in 0..MaxFrames /\ taken' \in Nat /\ dropped' \in Nat
    BY <1>c DEF TypeOK
  <2>2. sent' = taken' + dropped' + Occupied'
    BY <1>c DEF IInv, Conservation
  <2>3. Occupied' \in Nat
    BY DEF Occupied
  <2>4. \A d, o, t \in Nat : t <= t + d + o
    OBVIOUS
  <2>5. taken' <= sent'
    BY <2>1, <2>2, <2>3, <2>4
  <2> QED
    BY <1>m, <2>1, <2>5
<1>t. /\ taken \in Nat /\ taken <= sent /\ sent <= MaxFrames
      /\ taken' \in Nat /\ taken' <= sent' /\ sent' <= MaxFrames
      /\ MaxFrames \in Nat
  BY <1>m, <1>p, <1>q
<1> USE DEF BusyInHandler, UnitsFromFrames, PicturesFromUnits, SignalAlive,
            SealedInStep, CodecAtTv, UnitBeingSent, KeyedUnlessRequested, Sending
<1>1. CASE Produce
  BY <1>1, <1>c, <1>t DEF Produce, Send, DropSender, LoopUnchanged, encVars, sendVars, netVars,
         history, LoopIInv, LoopTypeOK
<1>2. CASE Idle
  BY <1>2, <1>c, <1>t DEF Idle, RecvWait, WatchdogTick, LoopUnchanged, encVars, sendVars,
         netVars, history, LoopIInv, LoopTypeOK
<1>3. CASE TakeFrame
  BY <1>3, <1>c, <1>t DEF TakeFrame, RecvFrame, RecvPolled, encVars, sendVars, netVars,
         history, LoopIInv, LoopTypeOK
<1>4. CASE End
  BY <1>4, <1>c, <1>t DEF End, RecvNone, RecvPolled, DropFirstTx, encVars, sendVars, netVars,
         history, LoopIInv, LoopTypeOK
<1>5. CASE EncodeNothing
  <2>1. /\ consumer = "busy" /\ consumer' = "select"
        /\ step = "encode" /\ step' = "idle"
        /\ UNCHANGED <<taken, sendVars, firstTx, au, netVars>>
    BY <1>5 DEF EncodeNothing, Finish, history
  <2>2. \/ UNCHANGED encVars
        \/ encSize' \in Sizes /\ forceIdr' = FALSE /\ libIdr' \in BOOLEAN
           /\ (~libIdr' => ~IntraPending(encSize'))
    BY <1>5 DEF EncodeNothing, Encoded
  <2>3. LoopTypeOK'
    BY <2>1, <2>2, <1>c DEF LoopIInv, LoopTypeOK, sendVars, encVars, netVars
  <2>4. KeyedUnlessRequested'
    BY <2>1, <2>2, ReadyUnlessPending DEF LoopIInv, sendVars, encVars, netVars
  <2> QED
    BY <2>1, <2>3, <2>4, <1>c, <1>t DEF LoopIInv, LoopTypeOK, sendVars, encVars, netVars
<1>6. CASE EncodeUnit
  <2>0. PICK sz \in Sizes :
          \E u \in Outputs(sz) :
            /\ Encoded(sz, u \in IdrUnits)
            /\ streamSize' = sz
            /\ codecSent' = CodecCurrent(sz)
            /\ au' = u
            /\ IF NeedsCodec(u, CodecCurrent(sz))
               THEN /\ step' = "codec"
                    /\ UNCHANGED <<firstFrameSent, sealed, vars>>
               ELSE SealPicture(u)
    BY <1>6 DEF EncodeUnit
  <2>1. PICK u \in Outputs(sz) :
          /\ Encoded(sz, u \in IdrUnits)
          /\ streamSize' = sz
          /\ codecSent' = CodecCurrent(sz)
          /\ au' = u
          /\ IF NeedsCodec(u, CodecCurrent(sz))
             THEN /\ step' = "codec"
                  /\ UNCHANGED <<firstFrameSent, sealed, vars>>
             ELSE SealPicture(u)
    BY <2>0
  <2>2. step = "encode" /\ auIndex' = auIndex + 1 /\ UNCHANGED <<firstTx, netVars>>
    BY <1>6 DEF EncodeUnit, CountUnit
  <2>3. encSize' = sz /\ forceIdr' = FALSE
        /\ libIdr' = (IntraPending(sz) /\ u \notin IdrUnits)
    BY <2>1 DEF Encoded
  <2>4. /\ u \in AccessUnits
        /\ u \in IdrUnits => u.key /\ u.params /\ u.picture
        /\ u \notin IdrUnits => \/ u.params /\ ~u.picture
                                \/ ~u.params /\ u.picture /\ ~IntraPending(sz)
    BY OutputShape
  <2>5. ~IntraPending(sz) => codecSent /\ tv.keyed /\ CodecCurrent(sz)
    BY <2>2, ReadyUnlessPending
  <2>6. codecSent' => codecSent /\ sz = streamSize
    BY <2>1 DEF CodecCurrent
  <2>7. consumer = "busy" /\ taken' = taken
    BY <2>1, <2>2 DEF LoopIInv, SealPicture, Finish, vars, history
  <2>11. auIndex' \in 0..MaxFrames
    <3>1. auIndex \in Nat /\ auIndex < taken
      BY <1>m, <2>2 DEF LoopIInv, LoopTypeOK
    <3>2. taken \in Nat /\ taken <= MaxFrames
      BY <1>m, <1>p, <1>s DEF IInv, TypeOK
    <3> QED
      BY <1>m, <2>2, <3>1, <3>2
  <2>12. /\ encSize' \in Sizes /\ streamSize' \in Sizes /\ au' \in AccessUnits
         /\ forceIdr' \in BOOLEAN /\ libIdr' \in BOOLEAN /\ codecSent' \in BOOLEAN
    BY <2>1, <2>3, <2>4 DEF CodecCurrent
  <2>8. CASE NeedsCodec(u, CodecCurrent(sz))
    <3>1. step' = "codec" /\ UNCHANGED <<firstFrameSent, sealed, consumer>>
      BY <2>1, <2>8 DEF vars
    <3>2. u.key /\ ~CodecCurrent(sz) /\ (libIdr' \/ u.picture)
      BY <2>8, <2>3, <2>4, <2>5 DEF NeedsCodec
    <3>3. BusyInHandler' /\ SealedInStep'
      BY <2>2, <2>7, <3>1 DEF LoopIInv, LoopTypeOK, netVars
    <3>4. UnitsFromFrames' /\ PicturesFromUnits' /\ SignalAlive'
      BY <1>t, <2>2, <2>7, <3>1 DEF LoopIInv, LoopTypeOK, netVars
    <3>5. CodecAtTv' /\ UnitBeingSent' /\ KeyedUnlessRequested'
      BY <2>1, <2>2, <2>3, <2>6, <3>1, <3>2 DEF LoopIInv, netVars
    <3>6. LoopTypeOK'
      BY <1>c, <2>2, <2>11, <2>12, <3>1 DEF LoopIInv, LoopTypeOK, netVars
    <3> QED
      BY <1>c, <3>3, <3>4, <3>5, <3>6 DEF LoopIInv
  <2>9. CASE ~NeedsCodec(u, CodecCurrent(sz)) /\ u.picture
    <3>1. step' = "picture" /\ sealed' = sealed + 1 /\ UNCHANGED <<firstFrameSent, consumer>>
      BY <2>1, <2>9 DEF SealPicture, vars
    <3>2. codecSent' /\ (tv.keyed \/ u.key)
      BY <2>9, <2>1, <2>4, <2>5 DEF NeedsCodec
    <3>3. BusyInHandler' /\ SealedInStep'
      BY <2>2, <2>7, <3>1 DEF LoopIInv, LoopTypeOK, netVars
    <3>4. UnitsFromFrames' /\ PicturesFromUnits' /\ SignalAlive'
      BY <1>t, <2>2, <2>7, <3>1 DEF LoopIInv, LoopTypeOK, netVars
    <3>5. CodecAtTv' /\ UnitBeingSent' /\ KeyedUnlessRequested'
      BY <2>1, <2>2, <2>3, <2>6, <3>1, <3>2 DEF LoopIInv, netVars
    <3>6. LoopTypeOK'
      BY <1>c, <2>2, <2>11, <2>12, <3>1 DEF LoopIInv, LoopTypeOK, netVars
    <3> QED
      BY <1>c, <3>3, <3>4, <3>5, <3>6 DEF LoopIInv
  <2>10. CASE ~NeedsCodec(u, CodecCurrent(sz)) /\ ~u.picture
    <3>1. step' = "idle" /\ firstFrameSent' = TRUE /\ consumer' = "select" /\ sealed' = sealed
      BY <2>1, <2>10 DEF SealPicture, Finish
    <3>2. ~libIdr' => codecSent' /\ tv.keyed
      BY <2>10, <2>1, <2>3, <2>4, <2>5
    <3>3. BusyInHandler' /\ SealedInStep'
      BY <2>2, <2>7, <3>1 DEF LoopIInv, LoopTypeOK, netVars
    <3>4. UnitsFromFrames' /\ PicturesFromUnits' /\ SignalAlive'
      BY <1>t, <2>2, <2>7, <3>1 DEF LoopIInv, LoopTypeOK, netVars
    <3>5. CodecAtTv' /\ UnitBeingSent' /\ KeyedUnlessRequested'
      BY <2>1, <2>2, <2>3, <2>6, <3>1, <3>2 DEF LoopIInv, netVars
    <3>6. LoopTypeOK'
      BY <1>c, <2>2, <2>11, <2>12, <3>1 DEF LoopIInv, LoopTypeOK, netVars
    <3> QED
      BY <1>c, <3>3, <3>4, <3>5, <3>6 DEF LoopIInv
  <2> QED
    BY <2>8, <2>9, <2>10, <2>4 DEF AccessUnits
<1>7. CASE CodecWritten
  <2>1. /\ step = "codec" /\ codecSent' = TRUE
        /\ UNCHANGED <<encVars, streamSize, auIndex, firstTx, au>>
        /\ SealPicture(au)
    BY <1>7 DEF CodecWritten
  <2>2. /\ wire' = CodecPacket
        /\ tv' = [tv EXCEPT !.size = streamSize, !.keyed = FALSE]
    BY <1>7, WriteCodec DEF CodecWritten
  <2>3. /\ wire' \in Packets
        /\ tv' \in [size : Sizes \cup {NoSize}, keyed : BOOLEAN, pictures : Nat]
        /\ tv'.size = streamSize /\ tv'.keyed = FALSE /\ tv'.pictures = tv.pictures
    BY <2>2, PacketTypes DEF LoopIInv, LoopTypeOK
  <2>4. consumer = "busy" /\ taken' = taken
    BY <2>1 DEF LoopIInv, SealPicture, Finish, vars, history
  <2>5. CASE au.picture
    <3>1. step' = "picture" /\ sealed' = sealed + 1 /\ UNCHANGED <<firstFrameSent, consumer>>
      BY <2>1, <2>5 DEF SealPicture, vars
    <3> QED
      BY <1>c, <1>t, <2>1, <2>3, <2>4, <3>1 DEF LoopIInv, LoopTypeOK, encVars
  <2>6. CASE ~au.picture
    <3>1. step' = "idle" /\ firstFrameSent' = TRUE /\ consumer' = "select" /\ sealed' = sealed
      BY <2>1, <2>6 DEF SealPicture, Finish
    <3> QED
      BY <1>c, <1>t, <2>1, <2>3, <2>4, <2>6, <3>1 DEF LoopIInv, LoopTypeOK, encVars
  <2> QED
    BY <2>5, <2>6
<1>8. CASE PictureWritten
  <2>1. /\ step = "picture" /\ step' = "idle" /\ firstFrameSent' = TRUE
        /\ consumer = "busy" /\ consumer' = "select" /\ taken' = taken
        /\ UNCHANGED <<encVars, codecSent, streamSize, auIndex, sealed, au>>
    BY <1>8 DEF PictureWritten, Finish, history
  <2>2. /\ wire' = PicturePacket
        /\ tv' = [tv EXCEPT !.keyed = tv.keyed \/ au.key, !.pictures = tv.pictures + 1]
    BY <1>8, WritePicture DEF PictureWritten
  <2>3. /\ wire' \in Packets
        /\ tv' \in [size : Sizes \cup {NoSize}, keyed : BOOLEAN, pictures : Nat]
        /\ tv'.size = tv.size /\ tv'.keyed = TRUE /\ tv'.pictures = tv.pictures + 1
    BY <2>1, <2>2, PacketTypes DEF LoopIInv, LoopTypeOK
  <2>4. firstTx' = IF auIndex = 1 /\ firstTx = "armed" THEN "fired" ELSE firstTx
    BY <1>8 DEF PictureWritten, SignalFirstFrame
  <2>5. LoopTypeOK'
    BY <1>c, <2>1, <2>3, <2>4 DEF LoopIInv, LoopTypeOK, encVars
  <2>6. PicturesFromUnits' /\ SignalAlive'
    BY <1>t, <2>1, <2>3, <2>4 DEF LoopIInv, LoopTypeOK
  <2> QED
    BY <1>c, <1>t, <2>1, <2>3, <2>5, <2>6 DEF LoopIInv, LoopTypeOK, encVars
<1>9. CASE HeartbeatWritten
  <2>1. /\ step = "heartbeat" /\ step' = "idle"
        /\ consumer = "busy" /\ consumer' = "select" /\ taken' = taken
        /\ UNCHANGED <<encVars, sendVars, firstTx, au>>
    BY <1>9 DEF HeartbeatWritten, Finish, history
  <2>2. wire' \in Packets /\ tv' = tv
    BY <1>9, WriteHeartbeat, PacketTypes DEF HeartbeatWritten
  <2> QED
    BY <1>c, <1>t, <2>1, <2>2 DEF LoopIInv, LoopTypeOK, encVars, sendVars
<1>10. CASE HeartbeatDue
  BY <1>10, <1>c, <1>t DEF HeartbeatDue, HeartbeatTick, encVars, sendVars, netVars, history,
         LoopIInv, LoopTypeOK
<1>11. CASE Abort
  BY <1>11, <1>c, <1>t DEF Abort, Fail, DropFirstTx, encVars, sendVars, netVars, history,
         LoopIInv, LoopTypeOK
<1>12. CASE UNCHANGED loopVars
  BY <1>12, <1>c, <1>t DEF loopVars, LoopIInv, LoopTypeOK
<1> QED
  BY <1>1, <1>2, <1>3, <1>4, <1>5, <1>6, <1>7, <1>8, <1>9, <1>10, <1>11, <1>12
     DEF LoopNext, Handler

(* LoopIInv holds in every reachable state of the loop.                    *)
THEOREM LoopInvariance == LoopSpec => []LoopIInv
  BY InitLoopIInv, NextLoopIInv, PTL DEF LoopSpec

(* The loop keeps its types, and the first-frame signal, which starts the  *)
(* RTSP and audio tasks, goes out with the first picture: never before     *)
(* one, and never later while every access unit had a picture.             *)
THEOREM SignalsFirstPicture == LoopSpec => []LoopInv
<1>1. LoopIInv => LoopInv
  BY DEF LoopIInv, LoopInv, SignalWithFirstPicture, SignalAlive, PicturesFromUnits,
         BusyInHandler, Sending, LoopTypeOK
<1> QED
  BY <1>1, LoopInvariance, PTL

(* A picture reaches the TV only when PictureWritten writes it.            *)
LEMMA ArrivalIsPictureWritten ==
  ASSUME LoopIInv, [LoopNext]_loopVars, Arrives("picture")
  PROVE  step = "picture" /\ wire' = PicturePacket
<1>1. tv' # tv /\ wire'.kind = "picture"
  BY DEF Arrives
<1>2. CASE PictureWritten
  BY <1>2, WritePicture DEF PictureWritten
<1>3. CASE CodecWritten
  <2>1. wire'.kind = "codec"
    BY <1>3, WriteCodec DEF CodecWritten, CodecPacket
  <2> QED
    BY <1>1, <2>1
<1>4. CASE HeartbeatWritten
  BY <1>1, <1>4, WriteHeartbeat DEF HeartbeatWritten
<1>5. CASE ~PictureWritten /\ ~CodecWritten /\ ~HeartbeatWritten
  <2>1. tv' = tv
    BY <1>5 DEF LoopNext, loopVars, Handler, Produce, Idle, LoopUnchanged, TakeFrame,
         End, EncodeNothing, EncodeUnit, HeartbeatDue, Abort, netVars
  <2> QED
    BY <1>1, <2>1
<1> QED
  BY <1>2, <1>3, <1>4, <1>5

(* The TV has the parameter sets of a picture's size when the picture      *)
(* arrives, whatever sizes the capture hands over and whatever the encoder *)
(* skips.                                                                  *)
THEOREM PictureBehindItsCodec == LoopSpec => PictureHasItsCodec
<1>1. LoopIInv /\ [LoopNext]_loopVars
        => [Arrives("picture") => wire'.size = tv.size]_loopVars
  BY ArrivalIsPictureWritten DEF PicturePacket, LoopIInv, CodecAtTv
<1> QED
  BY <1>1, LoopInvariance, PTL DEF LoopSpec, PictureHasItsCodec

(* The first picture behind new parameter sets is a keyframe.              *)
THEOREM KeyframeBehindCodec == LoopSpec => KeyframeAfterCodec
<1>1. LoopIInv /\ [LoopNext]_loopVars
        => [Arrives("picture") => tv.keyed \/ wire'.key]_loopVars
  BY ArrivalIsPictureWritten DEF PicturePacket, LoopIInv, UnitBeingSent
<1> QED
  BY <1>1, LoopInvariance, PTL DEF LoopSpec, KeyframeAfterCodec

(* Each picture was sealed with the nonce that the TV, which counts the    *)
(* pictures it received, opens it with.                                    *)
THEOREM NoncesInStep == LoopSpec => NonceInStep
<1>1. LoopIInv /\ [LoopNext]_loopVars
        => [Arrives("picture") => wire'.nonce = tv.pictures]_loopVars
  <2> SUFFICES ASSUME LoopIInv, [LoopNext]_loopVars, Arrives("picture")
               PROVE  wire'.nonce = tv.pictures
    OBVIOUS
  <2>1. wire'.nonce = sealed - 1 /\ step = "picture"
    BY ArrivalIsPictureWritten DEF PicturePacket
  <2> QED
    BY <2>1 DEF LoopIInv, LoopTypeOK, BusyInHandler, SealedInStep
<1> QED
  BY <1>1, LoopInvariance, PTL DEF LoopSpec, NonceInStep

(* The loop uses the queue as FrameChannel describes: its initial state    *)
(* and its steps are the channel's, so all that is proved of the channel's *)
(* steps holds inside the loop.                                            *)
THEOREM UsesChannel == LoopSpec => Init /\ [][Next]_vars
<1>1. LoopInit => Init
  BY DEF LoopInit
<1> QED
  BY <1>1, ChannelStep, PTL DEF LoopSpec
=============================================================================
