----------------------------- MODULE StreamLoop -----------------------------
(***************************************************************************)
(* run_stream_loop and send_access_unit (rotten-video/src/stream.rs) with  *)
(* the software encoder they drive (rotten-video/src/encoder.rs): frames   *)
(* come from FrameChannel, are encoded on a blocking thread, and leave as  *)
(* packets on the data socket to the TV.                                   *)
(*                                                                         *)
(* Each await of the loop ends a step: waiting in select!, encoding        *)
(* (pacing included), writing the codec packet, writing the picture,       *)
(* writing a heartbeat.  A packet is its kind and what the TV needs of it; *)
(* a frame's pixels, timestamps and byte counts are left out.  The size of *)
(* a frame is chosen when it is encoded: the capture task may hand over a  *)
(* different size with every frame (the desktop's mode changes).           *)
(***************************************************************************)
EXTENDS FrameChannel    \* its variables, and its steps inside the loop's

CONSTANTS
  Sizes,                \* coded picture sizes the capture may produce
  InitSize,             \* fit_stream_dims of the configured size
  NoSize                \* the TV has no parameter sets yet

ASSUME SizesAssumption ==
  /\ InitSize \in Sizes
  /\ NoSize \notin Sizes

VARIABLES
  step,                 \* the await the busy loop is in
  encSize,              \* SoftwareEncoder::width, height
  forceIdr,             \* SoftwareEncoder::force_idr
  libIdr,               \* an intra request pending inside openh264
  codecSent,            \* codec_sent
  streamSize,           \* stream_width, stream_height
  auIndex,              \* au_index
  firstFrameSent,       \* first_frame_sent
  firstTx,              \* the oneshot sender: "armed", "fired", "dropped"
  sealed,               \* VCL payloads encrypted: the ChaCha nonce counter
  au,                   \* the access unit being sent
  wire,                 \* the last packet written to the data socket
  tv                    \* what the TV's decoder has seen (external)

encVars == <<encSize, forceIdr, libIdr>>
sendVars == <<codecSent, streamSize, auIndex, firstFrameSent, sealed>>
netVars == <<wire, tv>>
loopVars == <<slot, permits, waiter, senders, consumer, dropped, reported,
              sent, taken, last, step, encSize, forceIdr, libIdr, codecSent,
              streamSize, auIndex, firstFrameSent, firstTx, sealed, au, wire, tv>>

\* An access unit: is it a keyframe, does it carry SPS and PPS, a picture.
AccessUnits == [key : BOOLEAN, params : BOOLEAN, picture : BOOLEAN]
Unit(k, ps, pic) == [key |-> k, params |-> ps, picture |-> pic]
NoUnit == Unit(FALSE, FALSE, FALSE)

Packets == [kind : {"none", "codec", "picture", "heartbeat"},
            size : Sizes \cup {NoSize}, key : BOOLEAN, nonce : Nat]
NoPacket == [kind |-> "none", size |-> NoSize, key |-> FALSE, nonce |-> 0]

LoopInit ==
  /\ Init
  /\ step = "idle"
  /\ encSize = InitSize
  /\ forceIdr = TRUE
  /\ libIdr = FALSE
  /\ codecSent = FALSE
  /\ streamSize = InitSize
  /\ auIndex = 0
  /\ firstFrameSent = FALSE
  /\ firstTx = "armed"
  /\ sealed = 0
  /\ au = NoUnit
  /\ wire = NoPacket
  /\ tv = [size |-> NoSize, keyed |-> FALSE, pictures |-> 0]

(***************************************************************************)
(* The data socket.  TCP keeps the packets in order.  The TV's decoder     *)
(* takes the parameter sets of a codec packet and then needs a keyframe.   *)
(***************************************************************************)
Write(p) ==
  /\ wire' = p
  /\ tv' = CASE p.kind = "codec"   -> [tv EXCEPT !.size = p.size, !.keyed = FALSE]
             [] p.kind = "picture" -> [tv EXCEPT !.keyed = @ \/ p.key,
                                                 !.pictures = @ + 1]
             [] OTHER              -> tv

(***************************************************************************)
(* The producer, and the branches of select! that do not write.            *)
(***************************************************************************)
LoopUnchanged == UNCHANGED <<step, encVars, sendVars, firstTx, au, netVars>>

Produce == (Send \/ DropSender) /\ LoopUnchanged

Idle == (RecvWait \/ WatchdogTick) /\ LoopUnchanged

TakeFrame ==
  /\ RecvFrame
  /\ step' = "encode"
  /\ UNCHANGED <<encVars, sendVars, firstTx, au, netVars>>

\* Returning from run_stream_loop drops an unused first-frame sender.
DropFirstTx == firstTx' = IF firstTx = "armed" THEN "dropped" ELSE firstTx

\* Mutant: the end of the stream is noticed before the last frame is taken.
EndEarly ==
  /\ RecvPolled
  /\ senders = 0
  /\ waiter' = "none"
  /\ consumer' = "done"
  /\ DropFirstTx
  /\ UNCHANGED <<slot, permits, senders, dropped, reported, sent, taken, last,
                 step, encVars, sendVars, au, netVars>>

End ==
  /\ RecvNone
  /\ DropFirstTx
  /\ UNCHANGED <<step, encVars, sendVars, au, netVars>>

(***************************************************************************)
(* SoftwareEncoder::encode on the blocking thread.  openh264 answers an    *)
(* intra request, its own or the caller's, with an IDR picture behind SPS  *)
(* and PPS; it may skip a frame to keep its rate, and then the request     *)
(* stays.                                                                  *)
(***************************************************************************)
IntraPending(sz) == libIdr \/ forceIdr \/ sz # encSize

Encoded(sz, idr) ==
  /\ encSize' = sz
  /\ forceIdr' = FALSE
  /\ libIdr' = (IntraPending(sz) /\ ~idr)

\* What a non-empty bitstream can be; send_access_unit also takes parameter
\* sets without a picture.
IdrUnits == {Unit(TRUE, TRUE, TRUE)}
OtherPictures == {Unit(TRUE, FALSE, TRUE), Unit(FALSE, FALSE, TRUE)}
ParameterUnits == {Unit(k, TRUE, FALSE) : k \in BOOLEAN}

Outputs(sz) ==
  IdrUnits \cup ParameterUnits \cup (IF IntraPending(sz) THEN {} ELSE OtherPictures)

\* encode returns None: an empty frame is refused before anything changes, an
\* empty bitstream after.
EncodeNothing ==
  /\ step = "encode"
  /\ \/ UNCHANGED encVars
     \/ \E sz \in Sizes : Encoded(sz, FALSE)
  /\ step' = "idle"
  /\ Finish
  /\ UNCHANGED <<sendVars, firstTx, au, netVars>>

(***************************************************************************)
(* send_access_unit up to its first write.                                 *)
(***************************************************************************)
\* Mutant: a new coded size leaves codec_sent set.
CodecCurrentKept(sz) == codecSent

\* codec_sent after the comparison of the coded size with the stream size.
CodecCurrent(sz) == codecSent /\ sz = streamSize

NeedsCodec(u, current) == u.key /\ ~current /\ u.params

CountUnit == auIndex' = auIndex + 1

\* The picture is encrypted; without one send_access_unit returns at once and
\* the loop believes that a frame went out.
SealPicture(u) ==
  IF u.picture
  THEN /\ sealed' = sealed + 1
       /\ step' = "picture"
       /\ UNCHANGED <<firstFrameSent, vars>>
  ELSE /\ firstFrameSent' = TRUE
       /\ step' = "idle"
       /\ Finish
       /\ UNCHANGED sealed

EncodeUnit ==
  /\ step = "encode"
  /\ \E sz \in Sizes : \E u \in Outputs(sz) :
       /\ Encoded(sz, u \in IdrUnits)
       /\ streamSize' = sz
       /\ codecSent' = CodecCurrent(sz)
       /\ au' = u
       /\ IF NeedsCodec(u, CodecCurrent(sz))
          THEN /\ step' = "codec"
               /\ UNCHANGED <<firstFrameSent, sealed, vars>>
          ELSE SealPicture(u)
  /\ CountUnit
  /\ UNCHANGED <<firstTx, netVars>>

(***************************************************************************)
(* The writes.                                                             *)
(***************************************************************************)
CodecPacket == [kind |-> "codec", size |-> streamSize, key |-> FALSE, nonce |-> 0]

\* The payload was sealed with the nonce counter before it was advanced.
PicturePacket ==
  [kind |-> "picture", size |-> streamSize, key |-> au.key, nonce |-> sealed - 1]

HeartbeatPacket ==
  [kind |-> "heartbeat", size |-> NoSize, key |-> FALSE, nonce |-> 0]

\* Mutant: send_access_unit returns once the parameter sets are out.
CodecWrittenReturns ==
  /\ step = "codec"
  /\ Write(CodecPacket)
  /\ codecSent' = TRUE
  /\ SealPicture(NoUnit)
  /\ UNCHANGED <<encVars, streamSize, auIndex, firstTx, au>>

\* Mutant: the codec payload is encrypted as well.
CodecWrittenSealed ==
  /\ step = "codec"
  /\ Write(CodecPacket)
  /\ codecSent' = TRUE
  /\ sealed' = sealed + 2
  /\ step' = "picture"
  /\ UNCHANGED <<firstFrameSent, vars>>
  /\ UNCHANGED <<encVars, streamSize, auIndex, firstTx, au>>

CodecWritten ==
  /\ step = "codec"
  /\ Write(CodecPacket)
  /\ codecSent' = TRUE
  /\ SealPicture(au)
  /\ UNCHANGED <<encVars, streamSize, auIndex, firstTx, au>>

\* Mutant: au_index is compared before it is incremented.
SignalFirstFrameLate == firstTx' = IF auIndex = 2 THEN "fired" ELSE firstTx

\* Only the first access unit may signal, and only when its picture is out.
SignalFirstFrame ==
  firstTx' = IF auIndex = 1 /\ firstTx = "armed" THEN "fired" ELSE firstTx

PictureWritten ==
  /\ step = "picture"
  /\ Write(PicturePacket)
  /\ SignalFirstFrame
  /\ firstFrameSent' = TRUE
  /\ step' = "idle"
  /\ Finish
  /\ UNCHANGED <<encVars, codecSent, streamSize, auIndex, sealed, au>>

HeartbeatDue ==
  /\ firstFrameSent
  /\ HeartbeatTick
  /\ step' = "heartbeat"
  /\ UNCHANGED <<encVars, sendVars, firstTx, au, netVars>>

HeartbeatWritten ==
  /\ step = "heartbeat"
  /\ Write(HeartbeatPacket)
  /\ step' = "idle"
  /\ Finish
  /\ UNCHANGED <<encVars, sendVars, firstTx, au>>

\* The encoder cannot be created or fails, or a write fails: the loop returns
\* the error and writes nothing more.
Abort ==
  /\ Fail
  /\ step' = "idle"
  /\ DropFirstTx
  /\ UNCHANGED <<encVars, sendVars, au, netVars>>

Handler == EncodeNothing \/ EncodeUnit \/ CodecWritten \/ PictureWritten
             \/ HeartbeatWritten

LoopNext == Produce \/ Idle \/ TakeFrame \/ End \/ Handler \/ HeartbeatDue \/ Abort

\* As in FrameChannel; a handler completes when the encoder answers and the TV
\* drains the socket, which is assumed of it.
LoopFairness ==
  /\ SF_loopVars(TakeFrame)
  /\ SF_loopVars(End)
  /\ SF_loopVars(WatchdogTick /\ LoopUnchanged)
  /\ WF_loopVars(Handler)

LoopSpec == LoopInit /\ [][LoopNext]_loopVars /\ LoopFairness

(***************************************************************************)
(* Properties.                                                             *)
(***************************************************************************)

\* Types of the variables.
LoopTypeOK ==
  /\ TypeOK
  /\ step \in {"idle", "encode", "codec", "picture", "heartbeat"}
  /\ encSize \in Sizes
  /\ forceIdr \in BOOLEAN
  /\ libIdr \in BOOLEAN
  /\ codecSent \in BOOLEAN
  /\ streamSize \in Sizes
  /\ auIndex \in 0..MaxFrames
  /\ firstFrameSent \in BOOLEAN
  /\ firstTx \in {"armed", "fired", "dropped"}
  /\ sealed \in Nat
  /\ au \in AccessUnits
  /\ wire \in Packets
  /\ tv \in [size : Sizes \cup {NoSize}, keyed : BOOLEAN, pictures : Nat]

Arrives(kind) == tv' # tv /\ wire'.kind = kind

\* No picture reaches the TV before the parameter sets of its size: the size
\* kept by the encoder and the one kept by the loop never drift apart.
PictureHasItsCodec ==
  [][Arrives("picture") => wire'.size = tv.size]_loopVars

\* The first picture behind new parameter sets is a keyframe.
KeyframeAfterCodec ==
  [][Arrives("picture") => tv.keyed \/ wire'.key]_loopVars

\* Sender and TV count encrypted payloads alike, so each picture is opened
\* with the nonce it was sealed with, whatever was skipped in between.
NonceInStep ==
  [][Arrives("picture") => wire'.nonce = tv.pictures]_loopVars

\* The first-frame signal that starts the RTSP and audio tasks never goes out
\* before a picture, and as long as every access unit had one it goes out with
\* the first.  Behind a first access unit without a picture it never does.
SignalWithFirstPicture ==
  /\ firstTx = "fired" => tv.pictures > 0
  /\ consumer = "select" /\ tv.pictures > 0 /\ tv.pictures = auIndex
       => firstTx = "fired"

\* Types, and the first-frame signal.
LoopInv == LoopTypeOK /\ SignalWithFirstPicture

\* The loop uses the queue as FrameChannel describes, fairness included.
ChannelSpec == Spec
=============================================================================
