------------------------------ MODULE SetupProofs ------------------------------
(***************************************************************************)
(* MirrorSetup and ReceiverEvents.  The setup: what the two sides agree on *)
(* when the TV records and streams, and that the user is never told of an  *)
(* unreachable timing port which the TV has reached.  The event channel:   *)
(* requests that fit in the buffer are answered in order, once, and when   *)
(* all of them has come, whatever their bodies hold; of any other requests *)
(* no CSeq is answered twice.                                              *)
(***************************************************************************)
EXTENDS MirrorSetup, ReceiverEvents, SequenceTheorems, WellFoundedInduction, TLAPS

(***************************************************************************)
(* The chain of awaits.                                                    *)
(***************************************************************************)

\* After follows the order in which connect awaits.
LEMMA NextAwait ==
  /\ After("connect") = "verify1"
  /\ After("verify1") = "verify2" /\ After("verify2") = "fp1"
  /\ After("fp1") = "fp2" /\ After("fp2") = "bind" /\ After("bind") = "audio"
  /\ After("audio") = "video" /\ After("video") = "event"
  /\ After("event") = "data" /\ After("data") = "record"
  /\ After("record") = "volume1" /\ After("volume1") = "volume2"
  /\ After("volume2") = "streaming"
<1>1. DOMAIN Order = 1..14
  BY DEF Order
<1>2. ASSUME NEW i \in 1..14, NEW j \in 1..14, Order[i] = Order[j]
      PROVE  i = j
  BY <1>2 DEF Order
<1>3. ASSUME NEW i \in 1..14
      PROVE  IndexOf(Order[i]) = i
  BY <1>1, <1>2 DEF IndexOf
<1>4. ASSUME NEW i \in 1..13
      PROVE  After(Order[i]) = Order[i + 1]
  BY <1>3 DEF After
<1> QED
  BY <1>4 DEF Order

(* The awaits behind each part of the setup.                               *)
AfterRecord == {"volume1", "volume2", "streaming"}
AfterData == AfterRecord \cup {"record"}
AfterVideo == AfterData \cup {"event", "data"}
AfterAudio == AfterVideo \cup {"video"}

\* What is settled once a request has been answered, and stays settled.
AudioSettled ==
  pc \in AfterAudio \/ (pc = "audio" /\ answer.status = "ok") =>
    "audio" \in tv.streams /\ tv.synced

VideoSettled ==
  /\ pc = "video" /\ answer.status = "ok" =>
       "video" \in tv.streams /\ PlistInt(tv.id) = StreamKeyId
  /\ pc \in AfterVideo => "video" \in tv.streams /\ hkdfId = PlistInt(tv.id)

DataSettled == pc \in AfterData => dataChannel

LatencySettled ==
  /\ pc = "record" /\ answer.status = "ok" => tv.latency = answer.latency
  /\ pc \in AfterRecord =>
       latency = IF tv.latency > 0 THEN tv.latency ELSE DefaultLatency

\* The flag is up before the reply is out; the hint comes with the end.
ProbeSeen == reply \/ tv.synced => ntpProbed
HintLast == hint # "none" => pc = "failed"

Unasked == ~asked => answer = NoAnswer

SetupIInv ==
  /\ TypeOK
  /\ Unasked
  /\ AudioSettled
  /\ VideoSettled
  /\ DataSettled
  /\ LatencySettled
  /\ ProbeSeen
  /\ HintLast

LEMMA PlainAnswers ==
  ASSUME NEW s \in {"none", "ok", "refused"}
  PROVE  Plain(s) \in Answers /\ Plain(s).status = s
BY DEF Plain, Answers

LEMMA Asks ==
  {Exchanges[i] : i \in DOMAIN Exchanges} =
    {"verify1", "verify2", "fp1", "fp2", "audio", "video", "record", "volume1",
     "volume2"}
BY DEF Exchanges

LEMMA Awaits ==
  {Order[i] : i \in DOMAIN Order} =
    {"connect", "verify1", "verify2", "fp1", "fp2", "bind", "audio", "video",
     "event", "data", "record", "volume1", "volume2", "streaming"}
BY DEF Order

(* What the TV names, and what it may use: the id it was asked to.         *)
Named == {NoId} \cup NamedIds
Used == Named \cup {Whole(i) : i \in StreamIds}

LEMMA PlistIntOfAny ==
  ASSUME NEW value \in Named \ {NoId}
  PROVE  PlistInt(value) \in Int
BY SetupAssumption DEF Named, PlistInt, PlistValues

\* The id of the request is read as it is.
LEMMA PlistIntOfRequest ==
  ASSUME NEW i \in StreamIds
  PROVE  i \in Int /\ PlistInt(Whole(i)) = i
BY SetupAssumption DEF PlistInt, Whole

Tvs == [helpful : BOOLEAN, synced : BOOLEAN, streams : SUBSET Setups,
        id : Used, latency : {0} \cup Latencies, event : BOOLEAN]

LEMMA TvFields ==
  ASSUME NEW h \in BOOLEAN, NEW y \in BOOLEAN, NEW S \in SUBSET Setups,
         NEW i \in Used, NEW l \in {0} \cup Latencies, NEW e \in BOOLEAN
  PROVE  [helpful |-> h, synced |-> y, streams |-> S, id |-> i, latency |-> l,
          event |-> e] \in Tvs
BY DEF Tvs

LEMMA SetupInitially == Init => SetupIInv
<1> SUFFICES ASSUME Init PROVE SetupIInv
  OBVIOUS
<1>1. TypeOK
  <2>1. PICK h \in BOOLEAN :
          tv = [helpful |-> h, synced |-> FALSE, streams |-> {}, id |-> NoId,
                latency |-> 0, event |-> FALSE]
    BY DEF Init
  <2>2. tv \in Tvs
    BY <2>1, TvFields, FALSE \in BOOLEAN, {} \in SUBSET Setups DEF Used, Named
  <2>3. answer \in Answers
    BY PlainAnswers DEF Init, NoAnswer
  <2>4. {asked, closed, probe, reply, ntpProbed, eventConnected, audioPorts,
         eventPort, eventChannel, dataChannel} \subseteq BOOLEAN
    BY DEF Init
  <2>5. /\ pc \in {Order[i] : i \in DOMAIN Order} \cup {"failed"}
        /\ acceptor \in {"none", "timing", "other"}
        /\ ~asked
        /\ responder \in {"none", "running", "dead"}
        /\ videoId \in StreamIds
        /\ hkdfId \in Int
        /\ latency \in {0, DefaultLatency} \cup Latencies
        /\ hint \in {"none", "unreachable", "notProbed"}
    BY Awaits DEF Init
  <2> QED
    BY <2>2, <2>3, <2>4, <2>5 DEF TypeOK, Tvs, Used, Named
<1>2. /\ reply = FALSE /\ tv.synced = FALSE /\ pc = "connect"
      /\ hint = "none" /\ answer = NoAnswer
  BY DEF Init
<1> QED
  BY <1>1, <1>2 DEF SetupIInv, Unasked, AudioSettled, VideoSettled, DataSettled,
     LatencySettled, ProbeSeen, HintLast, AfterAudio, AfterVideo, AfterData, AfterRecord

(* The types, taken apart for the provers.                                 *)
ChainOK ==
  /\ pc \in {"connect", "verify1", "verify2", "fp1", "fp2", "bind", "audio", "video",
             "event", "data", "record", "volume1", "volume2", "streaming", "failed"}
  /\ asked \in BOOLEAN
  /\ asked => pc \in {"verify1", "verify2", "fp1", "fp2", "audio", "video", "record",
                      "volume1", "volume2"}

FlagsOK ==
  /\ closed \in BOOLEAN /\ probe \in BOOLEAN /\ reply \in BOOLEAN
  /\ ntpProbed \in BOOLEAN /\ eventConnected \in BOOLEAN /\ audioPorts \in BOOLEAN
  /\ eventPort \in BOOLEAN /\ eventChannel \in BOOLEAN /\ dataChannel \in BOOLEAN

TasksOK ==
  /\ acceptor \in {"none", "timing", "other"}
  /\ responder \in {"none", "running", "dead"}
  /\ videoId \in StreamIds
  /\ hkdfId \in Int
  /\ latency \in {0, DefaultLatency} \cup Latencies
  /\ hint \in {"none", "unreachable", "notProbed"}


SetupTypes == ChainOK /\ FlagsOK /\ TasksOK /\ answer \in Answers /\ tv \in Tvs

LEMMA TypesApart == TypeOK <=> SetupTypes
<1>1. {asked, closed, probe, reply, ntpProbed, eventConnected, audioPorts,
       eventPort, eventChannel, dataChannel} \subseteq BOOLEAN
        <=> FlagsOK /\ asked \in BOOLEAN
  BY Zenon DEF FlagsOK
<1>2. pc \in {Order[i] : i \in DOMAIN Order} \cup {"failed"}
        <=> pc \in {"connect", "verify1", "verify2", "fp1", "fp2", "bind", "audio",
                    "video", "event", "data", "record", "volume1", "volume2",
                    "streaming", "failed"}
  BY Awaits
<1> QED
  BY <1>1, <1>2, Asks DEF TypeOK, SetupTypes, ChainOK, TasksOK, Tvs, Used, Named

LEMMA AnswerFields ==
  ASSUME NEW a \in Answers
  PROVE  /\ a.ports \in BOOLEAN /\ a.event \in BOOLEAN
         /\ a.id \in Named /\ a.latency \in {0} \cup Latencies
BY DEF Answers, Named

(* The steps of connect go from await to await, and only requests are      *)
(* asked.                                                                  *)
LEMMA ChainKept == ChainOK /\ [Next]_vars => ChainOK'
<1> SUFFICES ASSUME ChainOK, [Next]_vars PROVE ChainOK'
  OBVIOUS
<1> USE NextAwait, Asks DEF ChainOK, Proceed, Fail
<1>1. CASE Connect
  BY <1>1 DEF Connect, Setups
<1>2. CASE Ask
  BY <1>2 DEF Ask
<1>3. CASE ConnectionLost
  BY <1>3 DEF ConnectionLost, Waiting
<1>4. CASE Authenticate
  BY <1>4 DEF Authenticate, Accepted, Refused
<1>5. CASE Bind
  BY <1>5 DEF Bind
<1>6. CASE SetupRefused
  BY <1>6 DEF SetupRefused, Setups, Refused
<1>7. CASE AudioSetUp
  BY <1>7 DEF AudioSetUp, Accepted
<1>8. CASE VideoSetUp
  BY <1>8 DEF VideoSetUp, Accepted
<1>9. CASE ConnectEvents
  BY <1>9 DEF ConnectEvents
<1>10. CASE ConnectData
  BY <1>10 DEF ConnectData
<1>11. CASE Recorded
  BY <1>11 DEF Recorded, Accepted, Refused
<1>12. CASE VolumeSet
  BY <1>12 DEF VolumeSet, Accepted, Refused
<1>13. CASE ~Setup
  <2>1. UNCHANGED <<pc, asked>>
    BY <1>13 DEF Next, AnswerProbe, ResponderDies, Accept, Lose, TvProbes, TvSyncs,
       TvConnectsEvents, TvAccepts, TvRefuses, TvCloses, vars
  <2> QED
    BY <2>1
<1> QED
  BY <1>1, <1>2, <1>3, <1>4, <1>5, <1>6, <1>7, <1>8, <1>9, <1>10, <1>11,
     <1>12, <1>13 DEF Setup

LEMMA TypesKept == SetupTypes /\ [Next]_vars => SetupTypes'
<1> SUFFICES ASSUME SetupTypes, [Next]_vars PROVE SetupTypes'
  OBVIOUS
<1> USE PlainAnswers, AnswerFields
    DEF SetupTypes, Proceed, Fail, NoAnswer, timing, local
<1>1. ChainOK'
  BY ChainKept
<1>2. FlagsOK'
  <2> USE DEF FlagsOK
  <2>1. CASE AudioSetUp \/ VideoSetUp
    BY <2>1 DEF AudioSetUp, VideoSetUp
  <2>2. CASE AnswerProbe \/ Accept \/ Lose \/ TvProbes \/ TvCloses
    BY <2>2 DEF AnswerProbe, MarkProbed, Accept, Lose, TvProbes, TvCloses
  <2>3. CASE Setup /\ ~AudioSetUp /\ ~VideoSetUp
    BY <2>3 DEF Setup, Connect, Ask, ConnectionLost, Authenticate, Bind, SetupRefused,
       ConnectEvents, ConnectData, Recorded, VolumeSet
  <2>4. CASE \/ ResponderDies \/ TvSyncs \/ TvConnectsEvents \/ TvAccepts
            \/ TvRefuses \/ UNCHANGED vars
    BY <2>4 DEF ResponderDies, TvSyncs, TvConnectsEvents, TvAccepts, TvRefuses, vars
  <2> QED
    BY <2>1, <2>2, <2>3, <2>4 DEF Next
<1> USE DEF Next, Setup, vars,
     Connect, Ask, ConnectionLost, Authenticate, Bind, SetupRefused,
     AudioSetUp, VideoSetUp, ConnectEvents, ConnectData, Recorded,
     VolumeSet, AnswerProbe, ResponderDies, Accept, Lose, TvProbes, TvSyncs,
     TvConnectsEvents, TvAccepts, TvRefuses, TvCloses
<1>3. TasksOK'
  <2>1. CASE VideoSetUp
    <3>1. StreamKeyId \in Int
      BY PlistIntOfAny, PlistIntOfRequest DEF StreamKeyId, TasksOK
    <3> QED
      BY <2>1, <3>1 DEF TasksOK, Hint
  <2>2. CASE ~VideoSetUp
    BY <2>2 DEF TasksOK, Hint
  <2> QED
    BY <2>1, <2>2
<1>4. answer' \in Answers
  OBVIOUS
<1>5. tv' \in Tvs
  <2>1. CASE TvSyncs
    BY <2>1 DEF Tvs
  <2>2. CASE TvConnectsEvents
    BY <2>2 DEF Tvs
  <2>3. CASE TvAccepts
    <3>1. PICK a \in Answers :
            tv' = [tv EXCEPT !.streams = @ \cup ({pc} \cap Setups),
                             !.id = IF pc # "video" THEN @
                                    ELSE IF a.id = NoId THEN Whole(videoId) ELSE a.id,
                             !.latency = IF pc = "record" THEN a.latency ELSE @]
      BY <2>3
    <3>2. tv.streams \cup ({pc} \cap Setups) \in SUBSET Setups
      BY DEF Tvs
    <3>3. (IF pc # "video" THEN tv.id ELSE IF a.id = NoId THEN Whole(videoId) ELSE a.id)
            \in Used
      BY DEF Tvs, TasksOK, Used
    <3>4. (IF pc = "record" THEN a.latency ELSE tv.latency) \in {0} \cup Latencies
      BY DEF Tvs
    <3> HIDE DEF TvAccepts
    <3> QED
      BY <3>1, <3>2, <3>3, <3>4 DEF Tvs
  <2> QED
    BY <2>1, <2>2, <2>3
<1> QED
  BY <1>1, <1>2, <1>3, <1>4, <1>5

LEMMA TypesStep == TypeOK /\ [Next]_vars => TypeOK'
BY TypesKept, TypesApart, PTL

(* What is settled stays settled: the setup goes on only with an answer of *)
(* the TV, and the TV answers what was asked.                              *)
LEMMA SetupKept == SetupIInv /\ [Next]_vars => SetupIInv'
<1> SUFFICES ASSUME SetupIInv, [Next]_vars PROVE SetupIInv'
  OBVIOUS
<1>1. TypeOK'
  BY TypesStep DEF SetupIInv
<1>2. SetupTypes
  BY TypesApart DEF SetupIInv
<1>0. answer' = answer /\ videoId' = videoId => StreamKeyId' = StreamKeyId
  BY DEF StreamKeyId
<1> USE <1>0, <1>1, <1>2, NextAwait
    DEF SetupIInv, SetupTypes, ChainOK, FlagsOK, Unasked, AudioSettled,
        VideoSettled, DataSettled, LatencySettled,
        ProbeSeen, HintLast, AfterAudio, AfterVideo, AfterData, AfterRecord,
        Proceed, Fail, NoAnswer, timing, local
<1>3. CASE Connect
  BY <1>3 DEF Connect, Setups
<1>4. CASE Ask
  BY <1>4 DEF Ask
<1>5. CASE ConnectionLost
  BY <1>5 DEF ConnectionLost, Waiting
<1>6. CASE Authenticate
  BY <1>6 DEF Authenticate, Accepted, Refused
<1>7. CASE Bind
  <2>1. CASE Proceed
    <3>1. /\ pc = "bind" /\ pc' = "audio" /\ ~asked' /\ answer' = Plain("none")
          /\ UNCHANGED <<reply, ntpProbed, hint, tv>>
      BY <1>7, <2>1 DEF Bind
    <3> QED
      BY <3>1, PlainAnswers
  <2>2. CASE Fail
    BY <1>7, <2>2 DEF Bind
  <2> QED
    BY <1>7, <2>1, <2>2 DEF Bind
<1>8. CASE SetupRefused
  BY <1>8 DEF SetupRefused, Setups, Refused, Hint
<1>9. CASE AudioSetUp
  <2>1. /\ pc = "audio" /\ answer.status = "ok" /\ pc' = "video" /\ ~asked'
        /\ answer' = Plain("none")
        /\ UNCHANGED <<reply, ntpProbed, hint, tv>>
    BY <1>9 DEF AudioSetUp, Accepted
  <2> QED
    BY <2>1, PlainAnswers
<1>10. CASE VideoSetUp
  BY <1>10 DEF VideoSetUp, Accepted
<1>11. CASE ConnectEvents
  BY <1>11 DEF ConnectEvents
<1>12. CASE ConnectData
  <2>1. CASE Proceed
    <3>1. /\ pc = "data" /\ pc' = "record" /\ ~asked' /\ answer' = Plain("none")
          /\ UNCHANGED <<reply, ntpProbed, hkdfId, latency, hint, tv>>
      BY <1>12, <2>1 DEF ConnectData
    <3>2. dataChannel' = TRUE
      BY <1>12, <2>1 DEF ConnectData
    <3> QED
      BY <3>1, <3>2, PlainAnswers
  <2>2. CASE Fail
    BY <1>12, <2>2 DEF ConnectData
  <2> QED
    BY <1>12, <2>1, <2>2 DEF ConnectData
<1>13. CASE Recorded
  BY <1>13 DEF Recorded, Accepted, Refused
<1>14. CASE VolumeSet
  BY <1>14 DEF VolumeSet, Accepted, Refused
<1>15. CASE AnswerProbe
  BY <1>15 DEF AnswerProbe, MarkProbed
<1>16. CASE ResponderDies
  BY <1>16 DEF ResponderDies
<1>17. CASE Accept
  BY <1>17 DEF Accept
<1>18. CASE Lose
  <2>1. UNCHANGED <<pc, asked, answer, ntpProbed, local, tv>>
    BY <1>18 DEF Lose
  <2>2. reply' \in {FALSE, reply}
    BY <1>18 DEF Lose
  <2>3. reply' => reply
    BY <2>2, Zenon
  <2> QED
    BY <2>1, <2>3
<1>19. CASE TvProbes
  BY <1>19 DEF TvProbes
<1>20. CASE TvSyncs
  BY <1>20 DEF TvSyncs
<1>21. CASE TvConnectsEvents
  BY <1>21 DEF TvConnectsEvents
<1>22. CASE TvAccepts
  <2>1. PICK a \in Answers :
          /\ a.status = "ok"
          /\ answer' = a
          /\ tv' = [tv EXCEPT !.streams = @ \cup ({pc} \cap Setups),
                              !.id = IF pc # "video" THEN @
                                     ELSE IF a.id = NoId THEN Whole(videoId) ELSE a.id,
                              !.latency = IF pc = "record" THEN a.latency ELSE @]
    BY <1>22 DEF TvAccepts
  <2>2. /\ asked /\ answer.status = "none" /\ (pc = "audio" => tv.synced)
        /\ UNCHANGED <<pc, asked, timing, local>>
    BY <1>22, PlainAnswers DEF TvAccepts, Waiting
  <2>3. /\ tv'.synced = tv.synced
        /\ tv'.streams = tv.streams \cup ({pc} \cap Setups)
        /\ tv'.id = IF pc # "video" THEN tv.id
                    ELSE IF a.id = NoId THEN Whole(videoId) ELSE a.id
        /\ tv'.latency = IF pc = "record" THEN a.latency ELSE tv.latency
    BY <1>2, <2>1 DEF Tvs
  <2>4. pc \in Setups => pc \in tv'.streams
    BY <2>3
  <2>5. tv.streams \subseteq tv'.streams
    BY <2>3
  <2> HIDE DEF SetupIInv
  <2>6. AudioSettled' /\ DataSettled'
    BY <2>1, <2>2, <2>3, <2>4, <2>5 DEF SetupIInv, Setups
  <2>7. VideoSettled'
    <3>1. videoId \in StreamIds
      BY <1>2 DEF TasksOK
    <3>2. pc = "video" => PlistInt(tv'.id) = StreamKeyId'
      BY <2>1, <2>2, <2>3, <3>1, PlistIntOfRequest DEF StreamKeyId
    <3> QED
      BY <2>1, <2>2, <2>3, <2>4, <2>5, <3>2 DEF SetupIInv, Setups
  <2>8. LatencySettled'
    BY <2>1, <2>2, <2>3 DEF SetupIInv
  <2>9. Unasked' /\ ProbeSeen' /\ HintLast'
    BY <2>1, <2>2, <2>3 DEF SetupIInv
  <2> QED
    BY <2>6, <2>7, <2>8, <2>9 DEF SetupIInv
<1>23. CASE TvRefuses
  BY <1>23, PlainAnswers DEF TvRefuses, Waiting
<1>24. CASE TvCloses
  BY <1>24 DEF TvCloses
<1>25. CASE UNCHANGED vars
  BY <1>25 DEF vars
<1> QED
  BY <1>3, <1>4, <1>5, <1>6, <1>7, <1>8, <1>9, <1>10, <1>11, <1>12, <1>13,
     <1>14, <1>15, <1>16, <1>17, <1>18, <1>19, <1>20, <1>21, <1>22, <1>23,
     <1>24, <1>25
     DEF Next, Setup

LEMMA Agreed == SetupIInv => SetupInv
<1> SUFFICES ASSUME SetupIInv PROVE SetupInv
  OBVIOUS
<1> USE DEF SetupIInv, AfterAudio, AfterVideo, AfterData, AfterRecord
<1>1. RecordWhenReady
  <2> SUFFICES ASSUME pc = "record"
               PROVE  tv.streams = Setups /\ tv.synced /\ dataChannel
    BY DEF RecordWhenReady
  <2>1. /\ tv.synced /\ dataChannel
        /\ "audio" \in tv.streams /\ "video" \in tv.streams
    BY DEF AudioSettled, VideoSettled, DataSettled
  <2>2. tv.streams \in SUBSET Setups
    BY TypesApart DEF SetupTypes, Tvs
  <2> QED
    BY <2>1, <2>2 DEF Setups
<1>2. SessionAgreed
  <2>1. tv.id.kind = "integer" /\ tv.id.int <= MaxSigned => PlistInt(tv.id) = tv.id.int
    <3> SUFFICES ASSUME tv.id.kind = "integer", tv.id.int <= MaxSigned
                 PROVE  PlistInt(tv.id) = tv.id.int
      OBVIOUS
    <3>1. tv.id \in Used
      BY TypesApart DEF SetupTypes, Tvs
    <3>2. tv.id # NoId
      BY DEF NoId
    <3>3. tv.id.int \in Int
      BY <3>1, <3>2, SetupAssumption DEF Used, Named, PlistValues, Whole
    <3> QED
      BY <3>3, SetupAssumption DEF PlistInt
  <2> QED
    BY <2>1 DEF SessionAgreed, VideoSettled, LatencySettled
<1> QED
  BY <1>1, <1>2 DEF SetupInv

\* The invariant MCMirrorSetup checks: RECORD is asked of a TV that has both
\* streams and a synchronised clock, and what is streamed uses the latency the TV
\* uses and, if the TV's id is an integer that fits an i64 (plist_int), its key.
THEOREM SetupInvariance == Spec => []SetupInv
<1>1. Spec => []SetupIInv
  BY SetupInitially, SetupKept, PTL DEF Spec
<1> QED
  BY <1>1, Agreed, PTL

\* The user is told to look at the timing port only if no reply from it has
\* reached the TV.
THEOREM BlameIsRightHolds == Spec => BlameIsRight
<1>1. SetupIInv /\ [Next]_vars => [hint' # hint => ~tv.synced]_vars
  <2> SUFFICES ASSUME SetupIInv, Next, hint' # hint PROVE ~tv.synced
    OBVIOUS
  <2>1. SetupRefused
    BY DEF Next, Setup, local, timing, Fail, Connect, Ask, ConnectionLost,
       Authenticate, Bind, AudioSetUp,
       VideoSetUp, ConnectEvents, ConnectData, Recorded, VolumeSet,
       AnswerProbe, ResponderDies, Accept, Lose, TvProbes, TvSyncs,
       TvConnectsEvents, TvAccepts, TvRefuses, TvCloses
  <2>2. hint = "none"
    BY <2>1 DEF SetupRefused, Setups, SetupIInv, HintLast
  <2>3. ~ntpProbed
    BY <2>1, <2>2 DEF SetupRefused, Hint
  <2> QED
    BY <2>3 DEF SetupIInv, ProbeSeen
<1> QED
  BY <1>1, SetupInitially, SetupKept, PTL DEF Spec, BlameIsRight

(***************************************************************************)
(* The event channel.                                                      *)
(***************************************************************************)

\* What is still to be used: the buffer and what is to be read.
Stream == buf \o net

\* The place of a piece, and what it is unless a part of it is gone.
Placed(u) == u.of \in 1..Len(requests) /\ u.at \in 1..Size(requests[u.of])
Itself(u) == UnitOf(u.of, requests[u.of], u.at)
Valued(u) == u.value = Itself(u).value /\ u.kind \in {Itself(u).kind, "text", "binary"}

\* d pieces on from a there is b: in the same request, or all that is left of the
\* request of a lies between.
Apart(a, b, d) ==
  \/ a.of = b.of /\ b.at = a.at + d
  \/ a.of < b.of /\ d >= Size(requests[a.of]) - a.at + b.at

LastPiece == [of |-> Len(requests), at |-> Size(requests[Len(requests)])]

(* The stream is the end of what the TV sends, whatever has been used up.  *)
Known == \A i \in 1..Len(Stream) : Placed(Stream[i]) /\ Valued(Stream[i])
Spaced == \A i, j \in 1..Len(Stream) : i < j => Apart(Stream[i], Stream[j], j - i)
ToEnd == \A i \in 1..Len(Stream) : Apart(Stream[i], LastPiece, Len(Stream) - i)
InTurn == \A i, j \in 1..Len(Stream) : j = i + 1 => Stream[j].of <= Stream[i].of + 1

(* As long as the requests fit, the next piece is the first of a request.  *)
Foremost == IF Len(Stream) = 0 THEN Len(requests) + 1 ELSE Stream[1].of

Intact == \A i \in 1..Len(Stream) : Stream[i] = Itself(Stream[i])
Aligned == Len(Stream) # 0 => Stream[1].at = 1

RepliesRise ==
  /\ \A i \in 1..Len(replies) : replies[i] \in 1..(Foremost - 1)
  /\ \A i, j \in 1..Len(replies) : i < j => replies[i] < replies[j]

TextsAnswered ==
  \A n \in 1..(Foremost - 1) : IsText(n) => \E i \in 1..Len(replies) : replies[i] = n

InStep == Fits => Intact /\ Aligned /\ RepliesRise /\ TextsAnswered

(* Otherwise, if the bodies hold no CSeq, those ahead are still to be used. *)
NoFalseCseq == \A n \in DOMAIN requests : ~Holds(n, "cseq")

Ahead ==
  /\ \A i \in 1..Len(replies) : replies[i] <= Len(requests)
  /\ \A i \in 1..Len(replies), j \in 1..Len(Stream) :
       Stream[j].kind = "cseq" => replies[i] < Stream[j].of
  /\ \A i, j \in 1..Len(replies) :
       i < j /\ replies[i] # 0 /\ replies[j] # 0 => replies[i] < replies[j]

EventIInv ==
  /\ EventTypeOK
  /\ Known
  /\ Spaced
  /\ ToEnd
  /\ InTurn
  /\ InStep
  /\ NoFalseCseq => Ahead

LEMMA EventInitially == EventInit => EventIInv
<1> SUFFICES ASSUME EventInit PROVE EventIInv
  OBVIOUS
<1>1. Stream = <<>> /\ Len(Stream) = 0
  BY DEF EventInit, Stream
<1>2. EventTypeOK
  <2>1. /\ requests \in Seq(Requests) /\ net \in Seq(Units) /\ buf \in Seq(Units)
        /\ replies \in Seq(Nat) /\ Len(requests) = 0 /\ Len(replies) = 0
    BY EmptySeq DEF EventInit
  <2>2. eventClosed \in BOOLEAN
    BY DEF EventInit
  <2> QED
    BY <2>1, <2>2, SizesAssumption DEF EventInit, EventTypeOK
<1>3. Len(replies) = 0 /\ Len(requests) = 0
  BY DEF EventInit
<1> QED
  BY <1>1, <1>2, <1>3
     DEF EventIInv, Known, Spaced, ToEnd, InTurn, InStep, Intact, Aligned, RepliesRise,
         TextsAnswered, Ahead, Foremost

(* The requests and their pieces.                                          *)
LEMMA RequestSize ==
  ASSUME NEW r \in Requests
  PROVE  /\ r.body \in Seq(Pieces) /\ Len(r.body) \in Nat /\ r.lengthFirst \in BOOLEAN
         /\ Size(r) \in Nat /\ Size(r) = 4 + Len(r.body)
<1>1. r.body \in Seq(Pieces) /\ r.lengthFirst \in BOOLEAN
  BY SizesAssumption DEF Requests
<1> QED
  BY <1>1 DEF Size, HeadSize

LEMMA OfRequests ==
  ASSUME EventTypeOK, NEW n \in 1..Len(requests)
  PROVE  requests[n] \in Requests
BY ElementOfSeq DEF EventTypeOK

LEMMA PiecesOf ==
  ASSUME NEW n, NEW r \in Requests, NEW i \in 1..Size(r)
  PROVE  LET u == UnitOf(n, r, i) IN
         /\ u.of = n /\ u.at = i
         /\ i = 1 => u.kind = "line"
         /\ i = 4 => u.kind = "end"
         /\ i \in {1, 2, 3} => u.kind # "end"
         /\ i \in 1..4 => /\ u.kind # "binary"
                          /\ u.kind = "length" <=> i = IF r.lengthFirst THEN 2 ELSE 3
                          /\ u.kind = "cseq" <=> i = IF r.lengthFirst THEN 3 ELSE 2
                          /\ u.kind = "length" => u.value = Len(r.body)
                          /\ u.kind = "cseq" => u.value = n
         /\ i > 4 => /\ i - 4 \in 1..Len(r.body)
                     /\ u.kind = r.body[i - 4].kind /\ u.value = r.body[i - 4].value
<1>1. /\ i \in Nat /\ r.lengthFirst \in BOOLEAN /\ Len(r.body) \in Nat
      /\ Size(r) = 4 + Len(r.body)
  BY RequestSize
<1>2. CASE i > 4
  BY <1>1, <1>2 DEF UnitOf, Unit, HeadSize
<1>3. CASE i = 1
  BY <1>3 DEF UnitOf, Unit, HeadSize
<1>4. CASE i = 2
  BY <1>1, <1>4 DEF UnitOf, Unit, HeadSize
<1>5. CASE i = 3
  BY <1>1, <1>5 DEF UnitOf, Unit, HeadSize
<1>6. CASE i = 4
  BY <1>6 DEF UnitOf, Unit, HeadSize
<1> QED
  BY <1>1, <1>2, <1>3, <1>4, <1>5, <1>6

LEMMA UnitsOfRequest ==
  ASSUME NEW n \in 1..MaxRequests, NEW r \in Requests
  PROVE  /\ UnitsOf(n, r) \in Seq(Units)
         /\ Len(UnitsOf(n, r)) = Size(r)
         /\ \A i \in 1..Size(r) : UnitsOf(n, r)[i] = UnitOf(n, r, i)
<1>1. /\ r.body \in Seq(Pieces) /\ Len(r.body) \in Nat
      /\ Size(r) \in Nat /\ Size(r) = 4 + Len(r.body)
  BY RequestSize
<1>2. n \in Nat
  BY SizesAssumption
<1>3. ASSUME NEW i \in 1..Size(r) PROVE UnitOf(n, r, i) \in Units
  <2>1. CASE i > 4
    <3>1. i - 4 \in 1..Len(r.body)
      BY <1>1, <2>1
    <3>2. r.body[i - 4] \in Pieces
      BY <1>1, <3>1, ElementOfSeq
    <3> QED
      BY <1>1, <2>1, <3>2 DEF UnitOf, Unit, HeadSize, Units, Pieces
  <2>2. CASE ~(i > 4)
    BY <1>1, <1>2, <2>2 DEF UnitOf, Unit, HeadSize, Units
  <2> QED
    BY <2>1, <2>2
<1> QED
  BY <1>1, <1>3 DEF UnitsOf

(* The two parts of the stream.                                            *)
LEMMA StreamParts ==
  ASSUME EventTypeOK
  PROVE  /\ Stream \in Seq(Units) /\ buf \in Seq(Units) /\ net \in Seq(Units)
         /\ Len(Stream) \in Nat /\ Len(buf) \in Nat /\ Len(net) \in Nat
         /\ Len(Stream) = Len(buf) + Len(net)
         /\ \A i \in 1..Len(Stream) :
              Stream[i] = IF i <= Len(buf) THEN buf[i] ELSE net[i - Len(buf)]
         /\ \A i \in 1..Len(buf) : i \in 1..Len(Stream) /\ Stream[i] = buf[i]
<1>1. buf \in Seq(Units) /\ net \in Seq(Units)
  BY DEF EventTypeOK
<1> QED
  BY <1>1, ConcatProperties DEF Stream

(* Least and greatest places.                                              *)
LEMMA LeastOne ==
  ASSUME NEW n \in Nat, NEW S \in SUBSET (1..n), S # {}
  PROVE  Min(S) \in S /\ \A y \in S : Min(S) <= y
<1>1. S \subseteq Nat
  BY n \in Nat
<1>2. PICK x \in S : \A y \in S : ~ (<<y, x>> \in OpToRel(<, Nat))
  BY <1>1, NatLessThanWellFounded, WFMin
<1>3. \A y \in S : x <= y
  <2> SUFFICES ASSUME NEW y \in S PROVE x <= y
    OBVIOUS
  <2>1. ~ (y < x)
    BY <1>1, <1>2 DEF OpToRel
  <2> QED
    BY <1>1, <2>1
<1> QED
  BY <1>3 DEF Min

LEMMA GreatestOne ==
  ASSUME NEW n \in Nat, NEW S \in SUBSET (1..n), S # {}
  PROVE  Max(S) \in S
<1> DEFINE T == {n + 1 - x : x \in S}
<1>1. T \in SUBSET (1..n) /\ T # {}
  <2>1. \A x \in S : n + 1 - x \in 1..n
    OBVIOUS
  <2>2. PICK x \in S : TRUE
    OBVIOUS
  <2>3. n + 1 - x \in T
    BY <2>2
  <2> QED
    BY <2>1, <2>3
<1>2. Min(T) \in T /\ \A y \in T : Min(T) <= y
  BY <1>1, LeastOne
<1>3. PICK x \in S : Min(T) = n + 1 - x
  BY <1>2
<1>4. \A y \in S : x >= y
  <2> SUFFICES ASSUME NEW y \in S PROVE x >= y
    OBVIOUS
  <2>1. n + 1 - y \in T
    OBVIOUS
  <2>2. n + 1 - x <= n + 1 - y
    BY <1>2, <1>3, <2>1
  <2> QED
    BY <2>2
<1> QED
  BY <1>4 DEF Max

(* What is complete is in the buffer.                                      *)
LEMMA FirstEnd ==
  ASSUME EventTypeOK, HeaderEnds # {}
  PROVE  /\ HeaderEnd \in 1..Len(buf) /\ buf[HeaderEnd].kind = "end"
         /\ \A i \in 1..Len(buf) : buf[i].kind = "end" => HeaderEnd <= i
<1>1. HeaderEnds \in SUBSET (1..Len(buf)) /\ Len(buf) \in Nat
  BY StreamParts DEF HeaderEnds
<1>2. HeaderEnd \in HeaderEnds /\ \A y \in HeaderEnds : HeaderEnd <= y
  BY <1>1, LeastOne DEF HeaderEnd
<1> QED
  BY <1>2 DEF HeaderEnds

LEMMA Completed ==
  ASSUME EventTypeOK, Complete
  PROVE  /\ HeaderEnd \in 1..Len(buf) /\ ContentLen \in Nat
         /\ Total \in HeaderEnd..Len(buf)
<1>1. HeaderEnd \in 1..Len(buf)
  BY FirstEnd DEF Complete, Headed
<1>2. Len(buf) \in Nat /\ \A i \in 1..Len(buf) : buf[i] \in Units
  BY StreamParts, ElementOfSeq
<1>3. ContentLen \in Nat
  <2>1. CASE Lengths = {}
    BY <2>1 DEF ContentLen
  <2>2. CASE Lengths # {}
    <3>1. Lengths \in SUBSET (1..HeaderEnd) /\ HeaderEnd \in Nat
      BY <1>1, <1>2 DEF Lengths
    <3>2. Max(Lengths) \in Lengths
      BY <2>2, <3>1, GreatestOne
    <3>3. Max(Lengths) \in 1..Len(buf)
      <4>1. Max(Lengths) \in 1..HeaderEnd
        BY <3>1, <3>2, Zenon
      <4> QED
        BY <1>1, <1>2, <4>1
    <3>4. buf[Max(Lengths)].value \in Nat
      BY <1>2, <3>3 DEF Units
    <3> QED
      BY <2>2, <3>4 DEF ContentLen
  <2> QED
    BY <2>1, <2>2
<1> QED
  BY <1>1, <1>2, <1>3 DEF Complete, Total

(* A CSeq is looked up in what is used up.                                 *)
LEMMA CseqFound ==
  ASSUME EventTypeOK, Complete
  PROVE  \/ Cseq = 0
         \/ \E m \in 2..Total : /\ buf[m].kind = "cseq" /\ Cseq = buf[m].value
                                /\ \A i \in 2..Total : buf[i].kind = "cseq" => m <= i
<1>1. CASE Cseqs = {}
  BY <1>1 DEF Cseq
<1>2. CASE Cseqs # {}
  <2>1. Total \in Nat /\ Cseqs \in SUBSET (1..Total)
    BY Completed, StreamParts DEF Cseqs
  <2>2. Min(Cseqs) \in Cseqs /\ \A y \in Cseqs : Min(Cseqs) <= y
    BY <2>1, <1>2, LeastOne
  <2>3. Cseq = buf[Min(Cseqs)].value
    BY <1>2 DEF Cseq
  <2> QED
    BY <2>2, <2>3 DEF Cseqs
<1> QED
  BY <1>1, <1>2

(* Using up a part of the stream leaves the rest as it was, but for the    *)
(* piece of which a part is gone.                                          *)
Like(u, v) == u.of = v.of /\ u.at = v.at /\ u.value = v.value
              /\ u.kind \in {v.kind, "text", "binary"}

LEMMA Cut ==
  ASSUME EventIInv, NEW k \in 0..Len(Stream),
         Len(Stream') = Len(Stream) - k,
         \A i \in 1..Len(Stream') : Like(Stream'[i], Stream[i + k]),
         UNCHANGED requests
  PROVE  Known' /\ Spaced' /\ ToEnd' /\ InTurn'
<1>1. Len(Stream) \in Nat /\ k \in Nat
  BY StreamParts DEF EventIInv
<1>2. \A i \in 1..Len(Stream') : i + k \in 1..Len(Stream) /\ Like(Stream'[i], Stream[i + k])
  BY <1>1
<1>3. Known'
  <2> SUFFICES ASSUME NEW i \in 1..Len(Stream') PROVE (Placed(Stream[i]) /\ Valued(Stream[i]))'
    BY DEF Known
  <2>1. Placed(Stream[i + k]) /\ Valued(Stream[i + k])
    BY <1>2 DEF EventIInv, Known
  <2>2. (Stream[i].of)' = Stream[i + k].of /\ (Stream[i].at)' = Stream[i + k].at
    BY <1>2 DEF Like
  <2>3. Itself(Stream[i])' = Itself(Stream[i + k])
    BY <2>2 DEF Itself
  <2> QED
    BY <1>2, <2>1, <2>2, <2>3 DEF Placed, Valued, Like
<1>4. Spaced'
  <2> SUFFICES ASSUME NEW i \in 1..Len(Stream'), NEW j \in 1..Len(Stream'), i < j
               PROVE  Apart(Stream[i], Stream[j], j - i)'
    BY DEF Spaced
  <2>1. i + k < j + k /\ (j + k) - (i + k) = j - i
    BY <1>1
  <2>2. Apart(Stream[i + k], Stream[j + k], j - i)
    BY <1>2, <2>1 DEF EventIInv, Spaced
  <2>3. (Stream[i].of)' = Stream[i + k].of /\ (Stream[i].at)' = Stream[i + k].at
        /\ (Stream[j].of)' = Stream[j + k].of /\ (Stream[j].at)' = Stream[j + k].at
    BY <1>2 DEF Like
  <2> QED
    BY <2>2, <2>3 DEF Apart
<1>5. ToEnd'
  <2> SUFFICES ASSUME NEW i \in 1..Len(Stream')
               PROVE  Apart(Stream[i], LastPiece, Len(Stream) - i)'
    BY DEF ToEnd
  <2>1. Len(Stream') - i = Len(Stream) - (i + k)
    BY <1>1
  <2>2. Apart(Stream[i + k], LastPiece, Len(Stream') - i)
    BY <1>2, <2>1 DEF EventIInv, ToEnd
  <2>3. (Stream[i].of)' = Stream[i + k].of /\ (Stream[i].at)' = Stream[i + k].at
    BY <1>2 DEF Like
  <2>4. LastPiece' = LastPiece
    BY DEF LastPiece
  <2> QED
    BY <2>2, <2>3, <2>4 DEF Apart
<1>6. InTurn'
  <2> SUFFICES ASSUME NEW i \in 1..Len(Stream'), NEW j \in 1..Len(Stream'), j = i + 1
               PROVE  (Stream[j].of <= Stream[i].of + 1)'
    BY DEF InTurn
  <2>1. j + k = (i + k) + 1
    BY <1>1
  <2> QED
    BY <1>2, <2>1 DEF EventIInv, InTurn, Like
<1> QED
  BY <1>3, <1>4, <1>5, <1>6

LEMMA SubSeqUnits ==
  ASSUME NEW s \in Seq(Units), NEW m \in 1..Len(s) + 1
  PROVE  /\ SubSeq(s, m, Len(s)) \in Seq(Units)
         /\ Len(SubSeq(s, m, Len(s))) = Len(s) - m + 1
         /\ \A i \in 1..Len(s) - m + 1 : SubSeq(s, m, Len(s))[i] = s[m + i - 1]
<1>1. Len(s) \in Nat /\ (\A i \in m..Len(s) : s[i] \in Units)
  BY ElementOfSeq
<1> QED
  BY <1>1, SubSeqProperties

LEMMA Regroup ==
  ASSUME NEW s \in Seq(Units), NEW t \in Seq(Units), NEW u \in Seq(Units)
  PROVE  (s \o t) \o u = s \o (t \o u)
BY ConcatAssociative

LEMMA JoinUnits ==
  ASSUME NEW s \in Seq(Units), NEW t \in Seq(Units)
  PROVE  /\ Len(s \o t) = Len(s) + Len(t)
         /\ \A i \in 1..Len(s) + Len(t) :
              (s \o t)[i] = IF i <= Len(s) THEN s[i] ELSE t[i - Len(s)]
BY ConcatProperties

(* The invariant but for the types is about these three.                   *)
LEMMA SameStream ==
  ASSUME EventIInv, UNCHANGED <<Stream, requests, replies>>, EventTypeOK'
  PROVE  EventIInv'
<1>1. Stream' = Stream /\ requests' = requests /\ replies' = replies
  OBVIOUS
<1>2. Known' /\ Spaced' /\ ToEnd' /\ InTurn'
  BY <1>1 DEF EventIInv, Known, Spaced, ToEnd, InTurn, Placed, Valued, Itself, Apart,
     LastPiece
<1>3. InStep'
  BY <1>1 DEF EventIInv, InStep, Fits, Intact, Aligned, RepliesRise, TextsAnswered,
     Foremost, Itself, IsText, Holds
<1>4. (NoFalseCseq => Ahead)'
  BY <1>1 DEF EventIInv, NoFalseCseq, Holds, Ahead
<1> QED
  BY <1>2, <1>3, <1>4 DEF EventIInv

(* A read hands pieces on from one part to the other.                      *)
LEMMA ReadKeeps ==
  ASSUME EventIInv, Read PROVE EventIInv'
<1>1. PICK n \in 1..Len(net) :
        /\ buf' = buf \o SubSeq(net, 1, n)
        /\ net' = SubSeq(net, n + 1, Len(net))
  BY DEF Read
<1>2. net \in Seq(Units) /\ buf \in Seq(Units) /\ Len(net) \in Nat
  BY DEF EventIInv, EventTypeOK
<1>3. \A i \in 1..Len(net) : net[i] \in Units
  BY <1>2, ElementOfSeq
<1>4. SubSeq(net, 1, n) \in Seq(Units) /\ SubSeq(net, n + 1, Len(net)) \in Seq(Units)
  BY <1>2, <1>3, SubSeqProperties
<1>5. buf' \in Seq(Units) /\ net' \in Seq(Units)
  BY <1>1, <1>2, <1>4, ConcatProperties
<1>6. Stream' = Stream
  <2>1. Stream' = buf \o (SubSeq(net, 1, n) \o SubSeq(net, n + 1, Len(net)))
    <3>1. Stream' = (buf \o SubSeq(net, 1, n)) \o SubSeq(net, n + 1, Len(net))
      BY <1>1 DEF Stream
    <3> QED
      BY <3>1, <1>2, <1>4, Regroup
  <2>2. SubSeq(net, 1, n) \o SubSeq(net, n + 1, Len(net)) = SubSeq(net, 1, Len(net))
    BY <1>2, ConcatAdjacentSubSeq
  <2> QED
    BY <1>2, <2>1, <2>2, SubSeqFull DEF Stream
<1>7. EventTypeOK'
  BY <1>5 DEF EventIInv, EventTypeOK, Read, tvVars
<1>8. UNCHANGED <<requests, replies>>
  BY DEF Read, tvVars
<1> QED
  BY <1>6, <1>7, <1>8, SameStream

(* A step of the loop takes a part from the front of the stream.           *)
LEMMA DrainCuts ==
  ASSUME EventTypeOK, Complete, Drain, UNCHANGED net
  PROVE  /\ Total \in 0..Len(Stream)
         /\ buf' \in Seq(Units) /\ net' \in Seq(Units)
         /\ Len(Stream') = Len(Stream) - Total
         /\ \A i \in 1..Len(Stream') : Stream'[i] = Stream[i + Total]
<1>1. /\ buf \in Seq(Units) /\ net \in Seq(Units)
      /\ Len(buf) \in Nat /\ Len(net) \in Nat
  BY DEF EventTypeOK
<1>2. Total \in 1..Len(buf)
  BY <1>1, Completed
<1>3. /\ buf' \in Seq(Units) /\ Len(buf') = Len(buf) - Total
      /\ \A i \in 1..Len(buf') : buf'[i] = buf[Total + i]
  BY <1>1, <1>2, SubSeqUnits DEF Drain
<1>4. /\ Len(Stream') = Len(buf) - Total + Len(net)
      /\ \A i \in 1..Len(Stream') :
           Stream'[i] = IF i <= Len(buf') THEN buf'[i] ELSE net[i - Len(buf')]
  <2>1. Stream' = buf' \o net
    BY DEF Stream
  <2>2. /\ Len(buf' \o net) = Len(buf') + Len(net)
        /\ \A i \in 1..Len(buf') + Len(net) :
             (buf' \o net)[i] = IF i <= Len(buf') THEN buf'[i] ELSE net[i - Len(buf')]
    BY <1>1, <1>3, JoinUnits
  <2>3. Len(buf') = Len(buf) - Total
    BY <1>3
  <2> QED
    BY <2>1, <2>2, <2>3
<1>5. /\ Len(Stream) = Len(buf) + Len(net)
      /\ \A i \in 1..Len(Stream) :
           Stream[i] = IF i <= Len(buf) THEN buf[i] ELSE net[i - Len(buf)]
  BY <1>1, ConcatProperties DEF Stream
<1>6. ASSUME NEW i \in 1..Len(Stream') PROVE Stream'[i] = Stream[i + Total]
  <2>1. i + Total \in 1..Len(Stream) /\ i - Len(buf') = (i + Total) - Len(buf)
        /\ (i <= Len(buf') <=> i + Total <= Len(buf)) /\ i + Total = Total + i
    BY <1>1, <1>2, <1>3, <1>4, <1>5
  <2>2. i <= Len(buf') => buf'[i] = buf[i + Total]
    BY <1>1, <1>2, <1>3
  <2> QED
    BY <1>4, <1>5, <2>1, <2>2
<1> QED
  BY <1>1, <1>2, <1>3, <1>4, <1>5, <1>6

LEMMA DrainKeeps ==
  ASSUME EventIInv, Complete, Drain, UNCHANGED <<net, requests>>
  PROVE  Known' /\ Spaced' /\ ToEnd' /\ InTurn'
<1>1. /\ Total \in 0..Len(Stream)
      /\ Len(Stream') = Len(Stream) - Total
      /\ \A i \in 1..Len(Stream') : Stream'[i] = Stream[i + Total]
  BY DrainCuts DEF EventIInv
<1>2. \A i \in 1..Len(Stream') : Like(Stream'[i], Stream[i + Total])
  BY <1>1 DEF Like
<1> HIDE DEF Total
<1> QED
  BY <1>1, <1>2, Cut

(* While the requests fit, the buffer begins with a request, and what is   *)
(* parsed is that request.                                                 *)
LEMMA Opening ==
  ASSUME EventIInv, Fits, Len(Stream) # 0
  PROVE  /\ Foremost \in 1..Len(requests)
         /\ \A j \in 1..Len(Stream) :
              j <= Size(requests[Foremost])
                => Stream[j] = UnitOf(Foremost, requests[Foremost], j)
<1> DEFINE n == Foremost
           r == requests[Foremost]
<1>1. Len(Stream) \in Nat
  BY StreamParts DEF EventIInv
<1>2. Stream[1].of = n /\ Stream[1].at = 1 /\ 1 \in 1..Len(Stream)
  BY <1>1 DEF EventIInv, InStep, Aligned, Foremost
<1>3. n \in 1..Len(requests)
  BY <1>2 DEF EventIInv, Known, Placed
<1>4. Size(r) \in Nat
  BY <1>3, OfRequests, RequestSize DEF EventIInv
<1>5. ASSUME NEW j \in 1..Len(Stream), j <= Size(r)
      PROVE  Stream[j] = UnitOf(n, r, j)
  <2>1. Stream[j].of = n /\ Stream[j].at = j
    <3>1. CASE j = 1
      BY <3>1, <1>2
    <3>2. CASE j # 1
      <4>1. Apart(Stream[1], Stream[j], j - 1)
        BY <3>2, <1>2 DEF EventIInv, Spaced
      <4>2. Stream[j].at \in Nat /\ Stream[j].at >= 1 /\ Stream[j].of \in Nat
        <5>1. Stream[j].of \in 1..Len(requests) /\ Stream[j].at \in 1..Size(requests[Stream[j].of])
          BY DEF EventIInv, Known, Placed
        <5>2. Size(requests[Stream[j].of]) \in Nat
          BY <5>1, OfRequests, RequestSize DEF EventIInv
        <5> QED
          BY <5>1, <5>2
      <4>3. CASE Stream[1].of = Stream[j].of /\ Stream[j].at = Stream[1].at + (j - 1)
        BY <4>3, <1>2
      <4>4. CASE j - 1 >= Size(requests[Stream[1].of]) - Stream[1].at + Stream[j].at
        <5>1. j - 1 >= Size(r) - 1 + Stream[j].at
          BY <4>4, <1>2
        <5> QED
          BY <5>1, <4>2, <1>4, <1>5
      <4> QED
        BY <4>1, <4>3, <4>4 DEF Apart
    <3> QED
      BY <3>1, <3>2
  <2>2. Stream[j] = Itself(Stream[j])
    BY DEF EventIInv, InStep, Intact
  <2> QED
    BY <2>1, <2>2 DEF Itself
<1> QED
  BY <1>3, <1>5

(* The buffer begins as the request does.                                  *)
LEMMA BufferOpens ==
  ASSUME EventIInv, Fits, Len(buf) # 0
  PROVE  /\ Foremost \in 1..Len(requests) /\ requests[Foremost] \in Requests
         /\ \A j \in 1..Len(buf) :
              j <= Size(requests[Foremost])
                => buf[j] = UnitOf(Foremost, requests[Foremost], j)
<1>1. /\ Len(buf) \in Nat /\ Len(Stream) \in Nat /\ Len(Stream) # 0
      /\ \A i \in 1..Len(buf) : i \in 1..Len(Stream) /\ Stream[i] = buf[i]
  BY StreamParts DEF EventIInv
<1> QED
  BY <1>1, Opening, OfRequests DEF EventIInv

LEMMA ParsedHead ==
  ASSUME EventIInv, Fits, HeaderEnds # {}
  PROVE  HeaderEnd = 4 /\ ContentLen = Len(requests[Foremost].body)
<1> DEFINE n == Foremost
           r == requests[Foremost]
<1>1. /\ HeaderEnd \in 1..Len(buf) /\ buf[HeaderEnd].kind = "end"
      /\ \A i \in 1..Len(buf) : buf[i].kind = "end" => HeaderEnd <= i
  BY FirstEnd DEF EventIInv
<1>2. Len(buf) \in Nat /\ Len(buf) # 0
  BY <1>1, StreamParts DEF EventIInv
<1>3. /\ r \in Requests
      /\ \A j \in 1..Len(buf) : j <= Size(r) => buf[j] = UnitOf(n, r, j)
  BY <1>2, BufferOpens
<1>4. /\ Len(r.body) \in Nat /\ Size(r) = 4 + Len(r.body) /\ r.lengthFirst \in BOOLEAN
  BY <1>3, RequestSize
<1> HIDE DEF n, r
<1>5. \A i \in 1..4 : i \in 1..Size(r)
  BY <1>4
<1>6. ~(HeaderEnd < 4)
  <2> SUFFICES ASSUME HeaderEnd < 4 PROVE FALSE
    OBVIOUS
  <2>1. HeaderEnd \in {1, 2, 3} /\ HeaderEnd \in 1..Size(r) /\ HeaderEnd <= Size(r)
    BY <1>1, <1>2, <1>4
  <2>2. buf[HeaderEnd] = UnitOf(n, r, HeaderEnd)
    BY <1>1, <1>3, <2>1
  <2>3. UnitOf(n, r, HeaderEnd).kind # "end"
    BY <1>3, <2>1, PiecesOf
  <2> QED
    BY <1>1, <2>2, <2>3
<1>7. 4 \in 1..Len(buf) /\ \A i \in 1..4 : i \in 1..Len(buf) /\ i \in 1..Size(r) /\ i <= Size(r)
  BY <1>1, <1>2, <1>4, <1>6
<1>8. \A i \in 1..4 : buf[i] = UnitOf(n, r, i)
  BY <1>3, <1>7
<1>9. HeaderEnd = 4
  <2>1. buf[4].kind = "end"
    BY <1>3, <1>7, <1>8, PiecesOf
  <2> QED
    BY <1>1, <1>2, <1>6, <1>7, <2>1
<1> DEFINE k == IF r.lengthFirst THEN 2 ELSE 3
<1>10. k \in 1..4
  OBVIOUS
<1>11. \A i \in 1..4 : buf[i].kind = "length" <=> i = k
  <2> SUFFICES ASSUME NEW i \in 1..4 PROVE buf[i].kind = "length" <=> i = k
    OBVIOUS
  <2> QED
    BY <1>3, <1>7, <1>8, PiecesOf
<1>12. buf[k].value = Len(r.body)
  BY <1>3, <1>7, <1>8, <1>10, <1>11, PiecesOf
<1> HIDE DEF k
<1>13. Lengths = {k}
  BY <1>9, <1>10, <1>11 DEF Lengths
<1>14. Max(Lengths) = k
  <2>1. Max(Lengths) \in Lengths
    <3>1. Lengths \in SUBSET (1..4) /\ Lengths # {}
      BY <1>10, <1>13
    <3> QED
      BY <3>1, GreatestOne
  <2> QED
    BY <1>13, <2>1
<1>15. ContentLen = Len(r.body)
  BY <1>12, <1>13, <1>14 DEF ContentLen
<1> QED
  BY <1>9, <1>15 DEF r

LEMMA ParsedRequest ==
  ASSUME EventIInv, Fits, Complete
  PROVE  /\ Total = Size(requests[Foremost])
         /\ Cseq = Foremost
         /\ MayLackMeta => ~IsText(Foremost)
<1> DEFINE n == Foremost
           r == requests[Foremost]
<1>1. HeaderEnd = 4 /\ ContentLen = Len(r.body)
  BY ParsedHead DEF Complete, Headed
<1>2. Total \in 4..Len(buf) /\ Len(buf) \in Nat
  BY <1>1, Completed, StreamParts DEF EventIInv
<1>3. /\ n \in 1..Len(requests) /\ r \in Requests
      /\ \A j \in 1..Len(buf) : j <= Size(r) => buf[j] = UnitOf(n, r, j)
  BY <1>2, BufferOpens
<1>4. Len(r.body) \in Nat /\ Size(r) = 4 + Len(r.body) /\ r.lengthFirst \in BOOLEAN
  BY <1>3, RequestSize
<1>5. Total = Size(r)
  BY <1>1, <1>4 DEF Total
<1>6. \A j \in 1..Size(r) : buf[j] = UnitOf(n, r, j)
  BY <1>2, <1>3, <1>4, <1>5
<1> HIDE DEF n, r
<1>7. Cseq = n
  <2> DEFINE k == IF r.lengthFirst THEN 3 ELSE 2
  <2>1. k \in 2..Size(r) /\ k \in 1..4 /\ k \in 1..Size(r)
    BY <1>4
  <2>2. \A i \in 1..4 : i \in 1..Size(r) /\ (buf[i].kind = "cseq" <=> i = k)
    <3> SUFFICES ASSUME NEW i \in 1..4
                 PROVE  i \in 1..Size(r) /\ (buf[i].kind = "cseq" <=> i = k)
      OBVIOUS
    <3>1. i \in 1..Size(r)
      BY <1>4
    <3> QED
      BY <1>3, <1>6, <3>1, PiecesOf
  <2>3. buf[k].kind = "cseq" /\ buf[k].value = n
    BY <1>3, <1>6, <2>1, <2>2, PiecesOf
  <2> HIDE DEF k
  <2>4. k \in Cseqs /\ Cseqs \in SUBSET (1..Size(r)) /\ Size(r) \in Nat
    BY <1>4, <1>5, <2>1, <2>3 DEF Cseqs
  <2>5. Min(Cseqs) \in Cseqs /\ Min(Cseqs) <= k
    BY <2>4, LeastOne
  <2>6. Min(Cseqs) \in 1..4 /\ buf[Min(Cseqs)].kind = "cseq"
    BY <1>2, <2>1, <2>5 DEF Cseqs
  <2>7. Min(Cseqs) = k
    BY <2>2, <2>6
  <2> QED
    BY <2>3, <2>4, <2>7 DEF Cseq
<1>8. ASSUME IsText(n) PROVE ~MayLackMeta
  <2>1. buf[1].kind = "line"
    BY <1>3, <1>4, <1>6, PiecesOf
  <2>2. ASSUME NEW i \in 1..Size(r) PROVE buf[i].kind # "binary"
    <3>1. CASE i <= 4
      <4>1. i \in 1..4
        BY <1>4, <3>1
      <4> QED
        BY <1>3, <1>6, <4>1, PiecesOf
    <3>2. CASE i > 4
      <4>1. i - 4 \in 1..Len(r.body) /\ buf[i].kind = r.body[i - 4].kind
        BY <1>3, <1>6, <3>2, PiecesOf
      <4>2. DOMAIN r.body = 1..Len(r.body)
        BY <1>3, RequestSize
      <4> QED
        BY <1>8, <4>1, <4>2 DEF IsText, Holds, r, n
    <3> QED
      BY <1>4, <3>1, <3>2
  <2> QED
    BY <1>5, <2>1, <2>2 DEF MayLackMeta, Utf8
<1> QED
  BY <1>5, <1>7, <1>8 DEF n, r

(* A request that is here as a whole is seen to be complete.               *)
LEMMA WholeIsComplete ==
  ASSUME EventIInv, Fits, Len(buf) > Limit
  PROVE  Complete
<1> DEFINE n == Foremost
           r == requests[Foremost]
<1>1. Len(buf) \in Nat /\ Limit \in Nat /\ Len(buf) # 0
  BY StreamParts, SizesAssumption DEF EventIInv
<1>2. /\ n \in 1..Len(requests) /\ r \in Requests
      /\ \A j \in 1..Len(buf) : j <= Size(r) => buf[j] = UnitOf(n, r, j)
  BY <1>1, BufferOpens
<1>3. Len(r.body) \in Nat /\ Size(r) = 4 + Len(r.body)
  BY <1>2, RequestSize
<1>4. Size(r) <= Limit
  BY <1>2 DEF Fits, EventIInv, EventTypeOK
<1>5. \A i \in 1..4 : i \in 1..Len(buf) /\ i \in 1..Size(r) /\ buf[i] = UnitOf(n, r, i)
  BY <1>1, <1>2, <1>3, <1>4
<1> HIDE DEF n, r
<1>6. buf[4].kind = "end" /\ 4 \in 1..Len(buf)
  BY <1>2, <1>5, PiecesOf
<1>7. HeaderEnds # {}
  BY <1>6 DEF HeaderEnds
<1>8. HeaderEnd = 4 /\ ContentLen = Len(r.body)
  BY <1>7, ParsedHead DEF r
<1>9. \A i \in 1..4 : buf[i].kind # "binary"
  BY <1>2, <1>5, PiecesOf
<1>10. Headed
  BY <1>7, <1>8, <1>9 DEF Headed, Utf8
<1> QED
  BY <1>1, <1>3, <1>4, <1>8, <1>10 DEF Complete, Total

(* Behind a request comes the next one.                                    *)
LEMMA UsedUp ==
  ASSUME EventIInv, Fits, Complete, Drain, UNCHANGED <<net, requests>>
  PROVE  Intact' /\ Aligned' /\ Foremost' = Foremost + 1
<1> DEFINE n == Foremost
           r == requests[Foremost]
<1>1. /\ Total \in 0..Len(Stream)
      /\ Len(Stream') = Len(Stream) - Total
      /\ \A i \in 1..Len(Stream') : Stream'[i] = Stream[i + Total]
  BY DrainCuts DEF EventIInv
<1>2. Total = Size(r) /\ Total \in 1..Len(buf) /\ Len(buf) \in Nat
  BY ParsedRequest, Completed, StreamParts DEF EventIInv
<1>3. Len(Stream) \in Nat /\ Len(Stream) # 0
  BY <1>1, <1>2, StreamParts DEF EventIInv
<1>4. /\ n \in 1..Len(requests)
      /\ \A j \in 1..Len(Stream) : j <= Size(r) => Stream[j] = UnitOf(n, r, j)
  BY <1>3, Opening
<1>5. r \in Requests /\ Len(requests) \in Nat
  BY <1>4, OfRequests DEF EventIInv, EventTypeOK
<1>6. Stream[Total].of = n /\ Stream[Total].at = Size(r) /\ Total \in 1..Len(Stream)
  <2>1. Total \in 1..Len(Stream) /\ Total <= Size(r) /\ Total \in 1..Size(r)
    BY <1>1, <1>2, <1>3
  <2>2. Stream[Total] = UnitOf(n, r, Total)
    BY <1>4, <2>1
  <2> QED
    BY <1>2, <1>5, <2>1, <2>2, PiecesOf
<1> HIDE DEF n, Total
<1>7. ASSUME NEW i \in 1..Len(Stream') PROVE i + Total \in 1..Len(Stream)
  BY <1>1, <1>2, <1>3
<1>8. Intact'
  <2> SUFFICES ASSUME NEW i \in 1..Len(Stream') PROVE Stream'[i] = Itself(Stream[i])'
    BY DEF Intact
  <2>1. Stream'[i] = Stream[i + Total] /\ i + Total \in 1..Len(Stream)
    BY <1>1, <1>7
  <2>2. Stream[i + Total] = Itself(Stream[i + Total])
    BY <2>1 DEF EventIInv, InStep, Intact
  <2> QED
    BY <2>1, <2>2 DEF Itself
<1>9. CASE Len(Stream') = 0
  <2>1. Total = Len(Stream)
    BY <1>1, <1>2, <1>3, <1>9
  <2>2. Apart(Stream[Total], LastPiece, 0)
    <3>1. Len(Stream) - Total = 0
      BY <1>3, <2>1
    <3> QED
      BY <1>6, <3>1 DEF EventIInv, ToEnd
  <2>3. n = Len(requests)
    <3> SUFFICES ASSUME n < Len(requests),
                        0 >= Size(r) - Size(r) + Size(requests[Len(requests)])
                 PROVE  FALSE
      BY <1>6, <2>2 DEF Apart, LastPiece, n
    <3>1. Len(requests) \in 1..Len(requests)
      BY <1>4, <1>5
    <3>2. Size(requests[Len(requests)]) \in Nat /\ Size(requests[Len(requests)]) > 0
      BY <3>1, OfRequests, RequestSize DEF EventIInv
    <3> QED
      BY <1>5, <3>2, RequestSize
  <2> QED
    BY <1>8, <1>9, <2>3 DEF Aligned, Foremost, n
<1>10. CASE Len(Stream') # 0
  <2>1. Len(Stream') \in Nat /\ 1 \in 1..Len(Stream')
    BY <1>1, <1>2, <1>3, <1>10
  <2>2. Total + 1 \in 1..Len(Stream) /\ Stream'[1] = Stream[Total + 1]
    <3>1. 1 + Total = Total + 1
      BY <1>2
    <3> QED
      BY <1>1, <1>7, <2>1, <3>1
  <2> DEFINE s == Stream[Total + 1]
  <2>3. Apart(Stream[Total], s, 1) /\ s.of <= n + 1
    <3>1. Total < Total + 1 /\ (Total + 1) - Total = 1
      BY <1>2
    <3> QED
      BY <1>6, <2>2, <3>1 DEF EventIInv, Spaced, InTurn
  <2>4. Placed(s)
    BY <2>2 DEF EventIInv, Known
  <2>5. /\ s.of \in Nat /\ s.at \in Nat /\ s.at >= 1 /\ Size(r) \in Nat /\ n \in Nat
        /\ s.at <= Size(requests[s.of])
    <3>1. Size(requests[s.of]) \in Nat
      BY <2>4, OfRequests, RequestSize DEF EventIInv, Placed
    <3> QED
      BY <2>4, <3>1, <1>4, <1>5, RequestSize DEF Placed
  <2> HIDE DEF s
  <2>6. s.of = n + 1 /\ s.at = 1
    <3>1. CASE s.of = n
      <4>1. s.at = Size(r) + 1
        BY <3>1, <1>6, <2>3, <2>5 DEF Apart
      <4> QED
        BY <3>1, <4>1, <2>5 DEF n
    <3>2. CASE s.of # n
      <4>1. n < s.of /\ 1 >= Size(r) - Size(r) + s.at
        BY <3>2, <1>6, <2>3 DEF Apart, n
      <4> QED
        BY <4>1, <2>3, <2>5
    <3> QED
      BY <3>1, <3>2
  <2> QED
    BY <1>8, <1>10, <2>2, <2>6 DEF Aligned, Foremost, n, s
<1> QED
  BY <1>9, <1>10, <1>3, <1>1

(* Where a CSeq is, if the bodies have none.                               *)
LEMMA CseqPlaces ==
  ASSUME EventIInv, NoFalseCseq
  PROVE  /\ \A j \in 1..Len(Stream) :
              Stream[j].kind = "cseq" => /\ Stream[j].of \in 1..Len(requests)
                                         /\ Stream[j].value = Stream[j].of
         /\ \A i, j \in 1..Len(Stream) :
              i < j /\ Stream[i].kind = "cseq" /\ Stream[j].kind = "cseq"
                => Stream[i].of < Stream[j].of
<1> DEFINE Own(u) == IF requests[u.of].lengthFirst THEN 3 ELSE 2
<1>1. ASSUME NEW j \in 1..Len(Stream), Stream[j].kind = "cseq"
      PROVE  /\ Stream[j].of \in 1..Len(requests) /\ Stream[j].value = Stream[j].of
             /\ Stream[j].at = Own(Stream[j])
  <2> DEFINE u == Stream[j]
             r == requests[u.of]
  <2>1. Placed(u) /\ Valued(u)
    BY DEF EventIInv, Known
  <2>2. u.of \in 1..Len(requests) /\ r \in Requests /\ u.at \in 1..Size(r)
    BY <2>1, OfRequests DEF Placed, EventIInv
  <2>3. Itself(u).kind = "cseq" /\ u.value = Itself(u).value
    BY <1>1, <2>1 DEF Valued
  <2>4. Size(r) \in Nat
    BY <2>2, RequestSize
  <2>5. UnitOf(u.of, r, u.at).kind = "cseq"
    BY <2>3 DEF Itself
  <2>6. u.of \in DOMAIN requests
    BY <2>2 DEF EventIInv, EventTypeOK
  <2> HIDE DEF u
  <2>7. u.at \in 1..4
    <3>1. CASE u.at > 4
      <4>1. u.at - 4 \in 1..Len(r.body) /\ r.body[u.at - 4].kind = "cseq"
        BY <2>2, <2>5, <3>1, PiecesOf
      <4>2. DOMAIN r.body = 1..Len(r.body)
        BY <2>2, RequestSize
      <4> QED
        BY <2>6, <4>1, <4>2 DEF NoFalseCseq, Holds
    <3>2. CASE ~(u.at > 4)
      BY <2>2, <2>4, <3>2
    <3> QED
      BY <3>1, <3>2
  <2>8. u.at = Own(u) /\ UnitOf(u.of, r, u.at).value = u.of
    BY <2>2, <2>5, <2>7, PiecesOf
  <2> QED
    BY <2>2, <2>3, <2>8 DEF u, Itself
<1>2. ASSUME NEW i \in 1..Len(Stream), NEW j \in 1..Len(Stream), i < j,
             Stream[i].kind = "cseq", Stream[j].kind = "cseq"
      PROVE  Stream[i].of < Stream[j].of
  <2>1. Apart(Stream[i], Stream[j], j - i)
    BY <1>2 DEF EventIInv, Spaced
  <2>2. Stream[i].at = Own(Stream[i]) /\ Stream[j].at = Own(Stream[j])
    BY <1>1, <1>2
  <2>3. CASE Stream[i].of = Stream[j].of /\ Stream[j].at = Stream[i].at + (j - i)
    <3>1. Stream[j].at = Stream[i].at /\ Stream[i].at \in Nat
      BY <2>2, <2>3
    <3> QED
      BY <1>2, <2>3, <3>1, StreamParts DEF EventIInv
  <2> QED
    BY <2>1, <2>3 DEF Apart
<1> QED
  BY <1>1, <1>2

(* A request that fits is answered with its CSeq, and any other with that  *)
(* of a piece it uses up, or with none.                                    *)
LEMMA AnswerInStep ==
  ASSUME EventIInv, Answer PROVE InStep'
<1>1. /\ Complete /\ Drain /\ replies' = Append(replies, Cseq)
      /\ UNCHANGED <<requests, eventClosed, net, loop>>
  BY DEF Answer, tvVars
<1> SUFFICES ASSUME Fits' PROVE (Intact /\ Aligned /\ RepliesRise /\ TextsAnswered)'
  BY DEF InStep
<1>2. Fits
  BY <1>1 DEF Fits
<1>3. Intact' /\ Aligned' /\ Foremost' = Foremost + 1
  BY <1>1, <1>2, UsedUp
<1>4. Cseq = Foremost
  BY <1>1, <1>2, ParsedRequest
<1>5. Foremost \in Nat /\ Foremost >= 1
  <2>1. Len(buf) # 0 /\ Len(requests) \in Nat
    BY <1>1, Completed, StreamParts DEF EventIInv, EventTypeOK
  <2>2. Foremost \in 1..Len(requests)
    BY <1>2, <2>1, BufferOpens
  <2> QED
    BY <2>1, <2>2
<1> DEFINE n == Len(replies)
           f == Foremost
<1>6. /\ n \in Nat /\ Len(replies') = n + 1 /\ replies'[n + 1] = f
      /\ \A i \in 1..n : replies'[i] = replies[i]
  BY <1>1, <1>4, <1>5, AppendProperties DEF EventIInv, EventTypeOK
<1>7. /\ \A i \in 1..n : replies[i] \in 1..(f - 1)
      /\ \A i, j \in 1..n : i < j => replies[i] < replies[j]
      /\ \A m \in 1..(f - 1) : IsText(m) => \E i \in 1..n : replies[i] = m
  BY <1>2 DEF EventIInv, InStep, RepliesRise, TextsAnswered
<1> HIDE DEF f
<1>8. f \in Nat /\ f >= 1 /\ Foremost' = f + 1
  BY <1>3, <1>5 DEF f
<1>9. \A m : IsText(m)' <=> IsText(m)
  BY <1>1 DEF IsText, Holds
<1>10. RepliesRise'
  <2>1. \A i \in 1..(n + 1) : replies'[i] \in 1..f
    BY <1>6, <1>7, <1>8
  <2>2. \A i, j \in 1..(n + 1) : i < j => replies'[i] < replies'[j]
    <3> SUFFICES ASSUME NEW i \in 1..(n + 1), NEW j \in 1..(n + 1), i < j
                 PROVE  replies'[i] < replies'[j]
      OBVIOUS
    <3>1. i \in 1..n /\ replies'[i] = replies[i]
      BY <1>6
    <3>2. CASE j = n + 1
      BY <3>1, <3>2, <1>6, <1>7, <1>8
    <3>3. CASE j # n + 1
      BY <3>1, <3>3, <1>6, <1>7
    <3> QED
      BY <3>2, <3>3
  <2> QED
    BY <2>1, <2>2, <1>6, <1>8 DEF RepliesRise
<1>11. TextsAnswered'
  <2> SUFFICES ASSUME NEW m \in 1..f, IsText(m)
               PROVE  \E i \in 1..(n + 1) : replies'[i] = m
    BY <1>6, <1>8, <1>9 DEF TextsAnswered
  <2>1. CASE m = f
    BY <2>1, <1>6
  <2>2. CASE m # f
    <3>1. m \in 1..(f - 1)
      BY <2>2, <1>8
    <3>2. PICK i \in 1..n : replies[i] = m
      BY <3>1, <1>7
    <3> QED
      BY <3>2, <1>6
  <2> QED
    BY <2>1, <2>2
<1> QED
  BY <1>3, <1>10, <1>11

LEMMA AnswerAhead ==
  ASSUME EventIInv, Answer, NoFalseCseq PROVE Ahead' /\ Cseq \in Nat
<1>1. /\ Complete /\ Drain /\ replies' = Append(replies, Cseq)
      /\ UNCHANGED <<requests, eventClosed, net, loop>>
  BY DEF Answer, tvVars
<1>2. /\ Total \in 0..Len(Stream) /\ Len(Stream') = Len(Stream) - Total
      /\ \A i \in 1..Len(Stream') : Stream'[i] = Stream[i + Total]
  BY <1>1, DrainCuts DEF EventIInv
<1>3. /\ Len(Stream) \in Nat /\ Len(requests) \in Nat /\ Total \in 1..Len(buf)
      /\ Len(buf) \in Nat /\ \A i \in 1..Len(buf) : i \in 1..Len(Stream) /\ Stream[i] = buf[i]
  BY <1>1, Completed, StreamParts DEF EventIInv, EventTypeOK
<1>4. /\ \A j \in 1..Len(Stream) :
           Stream[j].kind = "cseq" => /\ Stream[j].of \in 1..Len(requests)
                                      /\ Stream[j].value = Stream[j].of
      /\ \A i, j \in 1..Len(Stream) :
           i < j /\ Stream[i].kind = "cseq" /\ Stream[j].kind = "cseq"
             => Stream[i].of < Stream[j].of
  BY CseqPlaces
<1> DEFINE n == Len(replies)
           c == Cseq
<1>5. /\ \A i \in 1..n : replies[i] \in Nat /\ replies[i] <= Len(requests)
      /\ \A i \in 1..n, j \in 1..Len(Stream) :
           Stream[j].kind = "cseq" => replies[i] < Stream[j].of
      /\ \A i, j \in 1..n :
           i < j /\ replies[i] # 0 /\ replies[j] # 0 => replies[i] < replies[j]
  BY ElementOfSeq DEF EventIInv, Ahead, EventTypeOK
<1>6. /\ c \in 0..Len(requests)
      /\ c # 0 => \A i \in 1..n : replies[i] < c
      /\ \A j \in 1..Len(Stream') : Stream'[j].kind = "cseq" => c < Stream'[j].of
  <2>1. CASE Cseq = 0
    BY <2>1, <1>2, <1>3, <1>4
  <2>2. CASE \E m \in 2..Total : buf[m].kind = "cseq" /\ Cseq = buf[m].value
    <3>1. PICK m \in 2..Total : buf[m].kind = "cseq" /\ Cseq = buf[m].value
      BY <2>2
    <3>2. /\ m \in 1..Len(Stream) /\ Stream[m].kind = "cseq"
          /\ c = Stream[m].of /\ c \in 1..Len(requests)
      BY <3>1, <1>3, <1>4
    <3>3. ASSUME NEW j \in 1..Len(Stream'), Stream'[j].kind = "cseq"
          PROVE  c < Stream'[j].of
      <4>1. j + Total \in 1..Len(Stream) /\ m < j + Total /\ Stream'[j] = Stream[j + Total]
        BY <1>2, <1>3
      <4> QED
        BY <3>2, <3>3, <4>1, <1>4
    <3> QED
      BY <3>2, <3>3, <1>3, <1>5
  <2> QED
    BY <1>1, <2>1, <2>2, CseqFound DEF EventIInv
<1>7. c \in Nat
  BY <1>3, <1>6
<1>8. /\ n \in Nat /\ Len(replies') = n + 1 /\ replies'[n + 1] = c
      /\ \A i \in 1..n : replies'[i] = replies[i]
  BY <1>1, <1>7, AppendProperties DEF EventIInv, EventTypeOK
<1> HIDE DEF c
<1>9. \A i \in 1..(n + 1) : i \in 1..n \/ i = n + 1
  BY <1>8
<1>10. \A i \in 1..(n + 1) : replies'[i] <= Len(requests)'
  BY <1>1, <1>3, <1>5, <1>6, <1>8, <1>9
<1>11. \A i \in 1..(n + 1), j \in 1..Len(Stream') :
         Stream'[j].kind = "cseq" => replies'[i] < Stream'[j].of
  <2> SUFFICES ASSUME NEW i \in 1..(n + 1), NEW j \in 1..Len(Stream'),
                      Stream'[j].kind = "cseq"
               PROVE  replies'[i] < Stream'[j].of
    OBVIOUS
  <2>1. CASE i = n + 1
    BY <2>1, <1>6, <1>8
  <2>2. CASE i \in 1..n
    <3>1. j + Total \in 1..Len(Stream) /\ Stream'[j] = Stream[j + Total]
      BY <1>2, <1>3
    <3> QED
      BY <2>2, <3>1, <1>5, <1>8
  <2> QED
    BY <2>1, <2>2, <1>9
<1>12. \A i, j \in 1..(n + 1) :
         i < j /\ replies'[i] # 0 /\ replies'[j] # 0 => replies'[i] < replies'[j]
  <2> SUFFICES ASSUME NEW i \in 1..(n + 1), NEW j \in 1..(n + 1), i < j,
                      replies'[i] # 0, replies'[j] # 0
               PROVE  replies'[i] < replies'[j]
    OBVIOUS
  <2>1. i \in 1..n
    BY <1>8
  <2>2. CASE j = n + 1
    BY <2>1, <2>2, <1>6, <1>8
  <2>3. CASE j \in 1..n
    BY <2>1, <2>3, <1>5, <1>8
  <2> QED
    BY <2>2, <2>3, <1>9
<1> QED
  BY <1>7, <1>8, <1>10, <1>11, <1>12 DEF Ahead, c

LEMMA AnswerKeeps ==
  ASSUME EventIInv, Answer PROVE EventIInv'
<1>1. /\ Complete /\ Drain /\ replies' = Append(replies, Cseq)
      /\ UNCHANGED <<requests, eventClosed, net, loop>>
  BY DEF Answer, tvVars
<1>2. Known' /\ Spaced' /\ ToEnd' /\ InTurn'
  BY <1>1, DrainKeeps
<1>3. InStep'
  BY AnswerInStep
<1>4. (NoFalseCseq => Ahead)'
  BY <1>1, AnswerAhead DEF NoFalseCseq, Holds
<1>5. Cseq \in Nat
  <2>1. Total \in 1..Len(buf) /\ Len(buf) \in Nat
    BY <1>1, Completed, StreamParts DEF EventIInv
  <2>2. \A i \in 1..Len(buf) : buf[i].value \in Nat
    <3>1. \A i \in 1..Len(buf) : buf[i] \in Units
      BY ElementOfSeq DEF EventIInv, EventTypeOK
    <3> QED
      BY <3>1 DEF Units
  <2>3. \A m \in 2..Total : m \in 1..Len(buf)
    BY <2>1
  <2> QED
    BY <1>1, <2>2, <2>3, CseqFound DEF EventIInv
<1>6. replies' \in Seq(Nat)
  BY <1>1, <1>5, AppendProperties DEF EventIInv, EventTypeOK
<1>7. buf' \in Seq(Units)
  BY <1>1, DrainCuts DEF EventIInv
<1>8. EventTypeOK'
  BY <1>1, <1>6, <1>7 DEF EventIInv, EventTypeOK
<1> QED
  BY <1>2, <1>3, <1>4, <1>8 DEF EventIInv

(* What is dropped of requests that fit is not UTF-8.                      *)
LEMMA SkipKeeps ==
  ASSUME EventIInv, Skip PROVE EventIInv'
<1>1. /\ Complete /\ Drain /\ MayLackMeta
      /\ UNCHANGED <<requests, eventClosed, net, loop, replies>>
  BY DEF Skip, tvVars
<1>2. Known' /\ Spaced' /\ ToEnd' /\ InTurn'
  BY <1>1, DrainKeeps
<1>3. /\ buf' \in Seq(Units)
      /\ Total \in 0..Len(Stream) /\ Len(Stream') = Len(Stream) - Total
      /\ \A i \in 1..Len(Stream') : Stream'[i] = Stream[i + Total]
  BY <1>1, DrainCuts DEF EventIInv
<1>4. InStep'
  <2> SUFFICES ASSUME Fits' PROVE (Intact /\ Aligned /\ RepliesRise /\ TextsAnswered)'
    BY DEF InStep
  <2>1. Fits
    BY <1>1 DEF Fits
  <2>2. Intact' /\ Aligned' /\ Foremost' = Foremost + 1
    BY <1>1, <2>1, UsedUp
  <2>3. ~IsText(Foremost)
    BY <1>1, <2>1, ParsedRequest
  <2>4. Foremost \in Nat /\ Foremost >= 1
    <3>1. Len(buf) # 0 /\ Len(requests) \in Nat
      BY <1>1, Completed, StreamParts DEF EventIInv, EventTypeOK
    <3>2. Foremost \in 1..Len(requests)
      BY <2>1, <3>1, BufferOpens
    <3> QED
      BY <3>1, <3>2
  <2>5. RepliesRise /\ TextsAnswered
    BY <2>1 DEF EventIInv, InStep
  <2> DEFINE f == Foremost
  <2> HIDE DEF f
  <2>6. f \in Nat /\ f >= 1 /\ Foremost' = f + 1 /\ Foremost = f
    BY <2>2, <2>4 DEF f
  <2>7. RepliesRise'
    BY <1>1, <2>5, <2>6 DEF RepliesRise
  <2>8. TextsAnswered'
    <3> SUFFICES ASSUME NEW m \in 1..f, IsText(m)
                 PROVE  \E i \in 1..Len(replies) : replies[i] = m
      BY <1>1, <2>6 DEF TextsAnswered, IsText, Holds
    <3>1. m # f
      BY <2>3, <2>6
    <3>2. m \in 1..(f - 1)
      BY <3>1, <2>6
    <3> QED
      BY <3>2, <2>5, <2>6 DEF TextsAnswered
  <2> QED
    BY <2>2, <2>7, <2>8
<1>5. (NoFalseCseq => Ahead)'
  <2> SUFFICES ASSUME NoFalseCseq PROVE Ahead'
    BY <1>1 DEF NoFalseCseq, Holds
  <2>1. \A j \in 1..Len(Stream') :
          j + Total \in 1..Len(Stream) /\ Stream'[j] = Stream[j + Total]
    <3>1. Len(Stream) \in Nat
      BY StreamParts DEF EventIInv
    <3> HIDE DEF Total
    <3> QED
      BY <3>1, <1>3
  <2> QED
    BY <1>1, <2>1 DEF EventIInv, Ahead
<1>6. EventTypeOK'
  BY <1>1, <1>3 DEF EventIInv, EventTypeOK
<1> QED
  BY <1>2, <1>4, <1>5, <1>6 DEF EventIInv

(* Clearing uses up the buffer, and with it a part of the next piece; what *)
(* fits is never cleared.                                                  *)
LEMMA ClearKeeps ==
  ASSUME EventIInv, Clear PROVE EventIInv'
<1>1. /\ ~Complete /\ Len(buf) > Limit /\ buf' = <<>> /\ loop' = "reading"
      /\ UNCHANGED <<requests, eventClosed, replies>>
  BY DEF Clear, tvVars
<1>2. /\ buf \in Seq(Units) /\ net \in Seq(Units)
      /\ Len(buf) \in Nat /\ Len(net) \in Nat
  BY DEF EventIInv, EventTypeOK
<1>3. \A i \in 1..Len(net) : net[i] \in Units
  BY <1>2, ElementOfSeq
<1>4. ASSUME NEW u \in Units, NEW v \in Rests(u) PROVE v \in Units /\ Like(v, u)
  <2>1. PICK k \in {"text", "binary"} : v = [u EXCEPT !.kind = k]
    BY DEF Rests
  <2> QED
    BY <2>1 DEF Units, Like
<1>5. /\ net' \in Seq(Units) /\ Len(net') = Len(net)
      /\ \A i \in 1..Len(net) : Like(net'[i], net[i])
  <2>1. CASE net' = net
    BY <2>1, <1>2 DEF Like
  <2>2. CASE net # <<>> /\ \E u \in Rests(net[1]) : net' = [net EXCEPT ![1] = u]
    <3>1. PICK u \in Rests(net[1]) : net' = [net EXCEPT ![1] = u]
      BY <2>2
    <3>2. 1 \in 1..Len(net) /\ DOMAIN net = 1..Len(net)
      BY <2>2, <1>2, EmptySeq
    <3>3. u \in Units /\ Like(u, net[1])
      BY <3>2, <1>3, <1>4
    <3>4. DOMAIN net' = 1..Len(net) /\ net'[1] = u /\ \A i \in 1..Len(net) : i # 1 => net'[i] = net[i]
      BY <3>1, <3>2
    <3>5. net' \in Seq(Units)
      BY <3>1, <3>2, <3>3, <1>2, ExceptSeq
    <3>6. Len(net') = Len(net)
      BY <3>4, <3>5, <1>2, LenProperties
    <3> QED
      BY <3>3, <3>4, <3>5, <3>6 DEF Like
  <2> QED
    BY <2>1, <2>2 DEF Clear
<1>6. Stream' = net'
  BY <1>1, <1>5, ConcatEmptySeq DEF Stream
<1>7. /\ Len(Stream) = Len(buf) + Len(net)
      /\ \A i \in 1..Len(Stream) :
           Stream[i] = IF i <= Len(buf) THEN buf[i] ELSE net[i - Len(buf)]
  BY StreamParts DEF EventIInv
<1>8. \A i \in 1..Len(net) : i + Len(buf) \in 1..Len(Stream) /\ net[i] = Stream[i + Len(buf)]
  <2> SUFFICES ASSUME NEW i \in 1..Len(net)
               PROVE  i + Len(buf) \in 1..Len(Stream) /\ net[i] = Stream[i + Len(buf)]
    OBVIOUS
  <2>1. /\ i + Len(buf) \in 1..Len(Stream) /\ ~(i + Len(buf) <= Len(buf))
        /\ i + Len(buf) - Len(buf) = i
    BY <1>2, <1>7
  <2> QED
    BY <2>1, <1>7
<1>9. \A i \in 1..Len(Stream') : Like(Stream'[i], Stream[i + Len(buf)])
  BY <1>5, <1>6, <1>8
<1>10. Known' /\ Spaced' /\ ToEnd' /\ InTurn'
  <2>1. Len(buf) \in 0..Len(Stream) /\ Len(Stream') = Len(Stream) - Len(buf)
    BY <1>2, <1>5, <1>6, <1>7
  <2> QED
    BY <1>1, <1>9, <2>1, Cut
<1>11. InStep'
  <2>1. ~Fits
    BY <1>1, WholeIsComplete
  <2> QED
    BY <2>1, <1>1 DEF InStep, Fits
<1>12. (NoFalseCseq => Ahead)'
  <2> SUFFICES ASSUME NoFalseCseq PROVE Ahead'
    BY <1>1 DEF NoFalseCseq, Holds
  <2>1. ASSUME NEW j \in 1..Len(Stream'), Stream'[j].kind = "cseq"
        PROVE  /\ j + Len(buf) \in 1..Len(Stream) /\ Stream[j + Len(buf)].kind = "cseq"
               /\ Stream'[j].of = Stream[j + Len(buf)].of
    BY <2>1, <1>5, <1>6, <1>8, <1>9 DEF Like
  <2>2. \A i \in 1..Len(replies), j \in 1..Len(Stream') :
          Stream'[j].kind = "cseq" => replies[i] < Stream'[j].of
    BY <2>1 DEF EventIInv, Ahead
  <2> QED
    BY <1>1, <2>2 DEF EventIInv, Ahead
<1>13. EventTypeOK'
  BY <1>1, <1>5, EmptySeq DEF EventIInv, EventTypeOK
<1> QED
  BY <1>10, <1>11, <1>12, <1>13 DEF EventIInv

(* The TV adds a request to the end of the stream.                         *)
LEMMA TvRequestsKeeps ==
  ASSUME EventIInv, TvRequests PROVE EventIInv'
<1> DEFINE n == Len(requests)
           l == Len(Stream)
<1>1. PICK r \in Requests : /\ requests' = Append(requests, r)
                            /\ net' = net \o UnitsOf(n + 1, r)
  BY DEF TvRequests
<1>2. n < MaxRequests /\ UNCHANGED <<eventClosed, loop, buf, replies>>
  BY DEF TvRequests
<1>3. /\ requests \in Seq(Requests) /\ n \in Nat /\ MaxRequests \in Nat
      /\ buf \in Seq(Units) /\ net \in Seq(Units) /\ l \in Nat
  BY StreamParts, SizesAssumption DEF EventIInv, EventTypeOK
<1>4. /\ requests' \in Seq(Requests) /\ Len(requests') = n + 1
      /\ requests'[n + 1] = r /\ \A m \in 1..n : requests'[m] = requests[m]
  BY <1>1, <1>3, AppendProperties
<1>5. Size(r) \in Nat /\ Size(r) >= 4
  BY RequestSize
<1> DEFINE s == UnitsOf(n + 1, r)
<1>6. /\ s \in Seq(Units) /\ Len(s) = Size(r)
      /\ \A i \in 1..Size(r) : s[i] = UnitOf(n + 1, r, i)
  <2>1. n + 1 \in 1..MaxRequests
    BY <1>2, <1>3
  <2> QED
    BY <2>1, UnitsOfRequest
<1>7. net' = net \o s
  BY <1>1
<1> HIDE DEF s
<1>8. net' \in Seq(Units)
  BY <1>3, <1>6, <1>7, ConcatProperties
<1>9. EventTypeOK'
  BY <1>2, <1>3, <1>4, <1>8 DEF EventIInv, EventTypeOK
<1>10. Stream' = Stream \o s /\ Stream \in Seq(Units)
  <2>1. Stream' = buf \o (net \o s)
    BY <1>2, <1>7 DEF Stream
  <2> QED
    BY <2>1, <1>3, <1>6, Regroup, StreamParts DEF Stream, EventIInv
<1>11. /\ Len(Stream') = l + Size(r)
       /\ \A i \in 1..l : Stream'[i] = Stream[i]
       /\ \A i \in 1..Size(r) : Stream'[l + i] = UnitOf(n + 1, r, i)
  <2>1. /\ Len(Stream') = l + Len(s)
        /\ \A i \in 1..(l + Len(s)) :
             Stream'[i] = IF i <= l THEN Stream[i] ELSE s[i - l]
    BY <1>6, <1>10, JoinUnits
  <2>2. ASSUME NEW i \in 1..Size(r) PROVE Stream'[l + i] = s[i]
    <3>1. l + i \in 1..(l + Len(s)) /\ ~(l + i <= l) /\ (l + i) - l = i
      BY <1>3, <1>5, <1>6
    <3> QED
      BY <2>1, <3>1
  <2>3. ASSUME NEW i \in 1..l PROVE Stream'[i] = Stream[i]
    <3>1. i \in 1..(l + Len(s)) /\ i <= l
      BY <1>3, <1>5, <1>6
    <3> QED
      BY <2>1, <3>1
  <2> QED
    BY <1>6, <2>1, <2>2, <2>3
<1>12. \A i \in 1..Size(r) : Stream'[l + i].of = n + 1 /\ Stream'[l + i].at = i
  BY <1>11, PiecesOf
<1>13. \A i \in 1..l : /\ Stream[i].of \in 1..n
                       /\ Stream[i].at \in 1..Size(requests[Stream[i].of])
                       /\ requests'[Stream[i].of] = requests[Stream[i].of]
  BY <1>4 DEF EventIInv, Known, Placed
<1>14. \A m \in 1..n : Size(requests[m]) \in Nat /\ Size(requests[m]) >= 4
  <2> SUFFICES ASSUME NEW m \in 1..n
               PROVE  Size(requests[m]) \in Nat /\ Size(requests[m]) >= 4
    OBVIOUS
  <2> QED
    BY OfRequests, RequestSize DEF EventIInv
<1>15. \A i \in 1..l : Itself(Stream[i])' = Itself(Stream[i])
  BY <1>11, <1>13 DEF Itself
<1> DEFINE L == l + Size(r)
<1>16. ASSUME NEW i \in 1..L PROVE i \in 1..l \/ \E k \in 1..Size(r) : i = l + k
  <2>1. ~(i \in 1..l) => i - l \in 1..Size(r) /\ i = l + (i - l)
    BY <1>3, <1>5
  <2> QED
    BY <2>1
<1>17. Known'
  <2> SUFFICES ASSUME NEW i \in 1..L PROVE (Placed(Stream[i]) /\ Valued(Stream[i]))'
    BY <1>11 DEF Known
  <2>1. CASE i \in 1..l
    <3>1. Placed(Stream[i]) /\ Valued(Stream[i])
      BY <2>1 DEF EventIInv, Known
    <3> QED
      BY <2>1, <3>1, <1>3, <1>4, <1>11, <1>13, <1>15 DEF Placed, Valued
  <2>2. CASE \E k \in 1..Size(r) : i = l + k
    <3>1. PICK k \in 1..Size(r) : i = l + k
      BY <2>2
    <3>2. Itself(Stream[i])' = Stream'[i]
      BY <3>1, <1>4, <1>11, <1>12 DEF Itself
    <3> QED
      BY <3>1, <3>2, <1>3, <1>4, <1>12 DEF Placed, Valued
  <2> QED
    BY <2>1, <2>2, <1>16
<1>18. ASSUME NEW i \in 1..l, NEW k \in 1..Size(r)
       PROVE  Stream[i].of < n + 1 /\ (l + k) - i >= Size(requests[Stream[i].of]) - Stream[i].at + k
  <2>1. Apart(Stream[i], LastPiece, l - i)
    BY DEF EventIInv, ToEnd
  <2>2. /\ Stream[i].of \in Nat /\ Stream[i].of <= n /\ Stream[i].at \in Nat
        /\ Size(requests[Stream[i].of]) \in Nat /\ Size(requests[n]) \in Nat
    BY <1>3, <1>13, <1>14
  <2>3. CASE Stream[i].of = n /\ Size(requests[n]) = Stream[i].at + (l - i)
    BY <2>2, <2>3, <1>3, <1>5
  <2>4. CASE l - i >= Size(requests[Stream[i].of]) - Stream[i].at + Size(requests[n])
    <3> DEFINE a == Size(requests[Stream[i].of])
               b == Size(requests[n])
               c == Stream[i].at
    <3>1. a \in Nat /\ b \in Nat /\ c \in Nat /\ l - i >= a - c + b /\ k \in Nat
      BY <2>2, <2>4, <1>5
    <3> HIDE DEF a, b, c
    <3>2. (l + k) - i >= a - c + k
      BY <3>1, <1>3
    <3> QED
      BY <2>2, <3>2, <1>3 DEF a, c
  <2> QED
    BY <2>1, <2>3, <2>4 DEF Apart, LastPiece
<1>19. Spaced'
  <2> SUFFICES ASSUME NEW i \in 1..L, NEW j \in 1..L, i < j
               PROVE  Apart(Stream[i], Stream[j], j - i)'
    BY <1>11 DEF Spaced
  <2>1. CASE i \in 1..l /\ j \in 1..l
    <3>1. Apart(Stream[i], Stream[j], j - i)
      BY <2>1 DEF EventIInv, Spaced
    <3> QED
      BY <2>1, <3>1, <1>11, <1>13 DEF Apart
  <2>2. CASE i \in 1..l /\ \E k \in 1..Size(r) : j = l + k
    <3>1. PICK k \in 1..Size(r) : j = l + k
      BY <2>2
    <3> QED
      BY <2>2, <3>1, <1>11, <1>12, <1>13, <1>18 DEF Apart
  <2>3. CASE \E k \in 1..Size(r) : i = l + k
    <3>1. PICK k \in 1..Size(r) : i = l + k
      BY <2>3
    <3>2. j - l \in 1..Size(r) /\ j = l + (j - l) /\ j - i = (j - l) - k
      BY <3>1, <1>3, <1>5
    <3>3. Stream'[i].of = n + 1 /\ Stream'[i].at = k
      BY <3>1, <1>12
    <3>4. Stream'[j].of = n + 1 /\ Stream'[j].at = j - l
      BY <3>2, <1>12
    <3>5. j - l = k + (j - i)
      BY <3>1, <3>2, <1>3
    <3> QED
      BY <3>3, <3>4, <3>5 DEF Apart
  <2>4. i \in 1..l /\ ~(j \in 1..l) => \E k \in 1..Size(r) : j = l + k
    BY <1>16
  <2>5. ~(i \in 1..l) => \E k \in 1..Size(r) : i = l + k
    BY <1>16
  <2> QED
    BY <2>1, <2>2, <2>3, <2>4, <2>5
<1>20. ToEnd'
  <2> SUFFICES ASSUME NEW i \in 1..L
               PROVE  Apart(Stream[i], LastPiece, Len(Stream) - i)'
    BY <1>11 DEF ToEnd
  <2>1. LastPiece'.of = n + 1 /\ LastPiece'.at = Size(r)
    BY <1>4 DEF LastPiece
  <2>2. CASE i \in 1..l
    <3>1. Size(r) \in 1..Size(r)
      BY <1>5
    <3> QED
      BY <2>1, <2>2, <3>1, <1>11, <1>13, <1>18 DEF Apart
  <2>3. CASE \E k \in 1..Size(r) : i = l + k
    <3>1. PICK k \in 1..Size(r) : i = l + k
      BY <2>3
    <3>2. Size(r) = k + ((l + Size(r)) - i)
      BY <3>1, <1>3, <1>5
    <3> QED
      BY <2>1, <3>1, <3>2, <1>11, <1>12 DEF Apart
  <2> QED
    BY <2>2, <2>3, <1>16
<1>21. l # 0 => Stream[l].of = n
  <2> SUFFICES ASSUME l # 0 PROVE Stream[l].of = n
    OBVIOUS
  <2>1. l \in 1..l /\ 1 \in 1..Size(r)
    BY <1>3, <1>5
  <2>2. Apart(Stream[l], LastPiece, 0)
    <3>1. l - l = 0
      BY <1>3
    <3> QED
      BY <2>1, <3>1 DEF EventIInv, ToEnd
  <2>3. ~(0 >= Size(requests[Stream[l].of]) - Stream[l].at + Size(requests[n]))
    <3>1. /\ Stream[l].at \in 1..Size(requests[Stream[l].of])
          /\ Size(requests[Stream[l].of]) \in Nat
      BY <2>1, <1>13, <1>14
    <3>2. n \in 1..n
      BY <2>1, <1>3, <1>13
    <3>3. Size(requests[n]) \in Nat /\ Size(requests[n]) >= 4
      BY <3>2, <1>14
    <3> QED
      BY <3>1, <3>3
  <2> QED
    BY <2>2, <2>3 DEF Apart, LastPiece
<1>22. InTurn'
  <2> SUFFICES ASSUME NEW i \in 1..L, NEW j \in 1..L, j = i + 1
               PROVE  Stream'[j].of <= Stream'[i].of + 1
    BY <1>11 DEF InTurn
  <2>1. CASE i \in 1..l /\ j \in 1..l
    BY <2>1, <1>11 DEF EventIInv, InTurn
  <2>2. CASE i \in 1..l /\ ~(j \in 1..l)
    <3>1. i = l /\ l # 0 /\ j = l + 1 /\ 1 \in 1..Size(r)
      BY <2>2, <1>3, <1>5
    <3> QED
      BY <2>2, <3>1, <1>3, <1>11, <1>12, <1>21
  <2>3. CASE ~(i \in 1..l)
    <3>1. PICK k \in 1..Size(r) : i = l + k
      BY <2>3, <1>16
    <3>2. k + 1 \in 1..Size(r) /\ j = l + (k + 1)
      BY <3>1, <1>3, <1>5
    <3>3. Stream'[i].of = n + 1
      BY <3>1, <1>12
    <3>4. Stream'[j].of = n + 1
      BY <3>2, <1>12
    <3> QED
      BY <3>3, <3>4, <1>3
  <2> QED
    BY <2>1, <2>2, <2>3
<1>23. /\ \A m \in 1..n : IsText(m)' <=> IsText(m)
       /\ \A m \in 1..n : \A k : Holds(m, k)' <=> Holds(m, k)
  BY <1>4 DEF IsText, Holds
<1>24. InStep'
  <2> SUFFICES ASSUME Fits' PROVE (Intact /\ Aligned /\ RepliesRise /\ TextsAnswered)'
    BY DEF InStep
  <2>1. DOMAIN requests = 1..n /\ DOMAIN requests' = 1..(n + 1)
    BY <1>3, <1>4
  <2>2. Fits
    <3>1. \A m \in 1..n : m \in 1..(n + 1)
      BY <1>3
    <3> QED
      BY <2>1, <3>1, <1>4 DEF Fits
  <2>3. Intact /\ Aligned /\ RepliesRise /\ TextsAnswered
    BY <2>2 DEF EventIInv, InStep
  <2>4. Intact'
    <3> SUFFICES ASSUME NEW i \in 1..L PROVE Stream'[i] = Itself(Stream[i])'
      BY <1>11 DEF Intact
    <3>1. CASE i \in 1..l
      BY <3>1, <2>3, <1>11, <1>15 DEF Intact
    <3>2. CASE \E k \in 1..Size(r) : i = l + k
      BY <3>2, <1>4, <1>11, <1>12 DEF Itself
    <3> QED
      BY <3>1, <3>2, <1>16
  <2>5. /\ Foremost' = Foremost /\ Stream'[1].at = 1 /\ Foremost - 1 \in 0..n
    <3>1. CASE l = 0
      <4>1. 1 \in 1..Size(r) /\ l + 1 = 1 /\ L # 0
        BY <3>1, <1>3, <1>5
      <4>2. Stream'[1].of = n + 1 /\ Stream'[1].at = 1
        BY <4>1, <1>12
      <4> QED
        BY <3>1, <4>1, <4>2, <1>3, <1>11 DEF Foremost
    <3>2. CASE l # 0
      <4>1. 1 \in 1..l /\ L # 0
        BY <3>2, <1>3, <1>5
      <4> QED
        BY <3>2, <4>1, <2>3, <1>3, <1>11, <1>13 DEF Foremost, Aligned
    <3> QED
      BY <3>1, <3>2
  <2>6. RepliesRise'
    BY <2>3, <2>5, <1>2 DEF RepliesRise
  <2>7. TextsAnswered'
    <3> SUFFICES ASSUME NEW m \in 1..(Foremost - 1), IsText(m)'
                 PROVE  \E i \in 1..Len(replies) : replies[i] = m
      BY <2>5, <1>2 DEF TextsAnswered
    <3>1. m \in 1..n
      BY <2>5, <1>3
    <3> QED
      BY <3>1, <2>3, <1>23 DEF TextsAnswered
  <2> QED
    BY <2>4, <2>5, <2>6, <2>7 DEF Aligned
<1>25. (NoFalseCseq => Ahead)'
  <2> SUFFICES ASSUME NoFalseCseq' PROVE Ahead'
    OBVIOUS
  <2>1. NoFalseCseq
    <3>1. DOMAIN requests = 1..n /\ DOMAIN requests' = 1..(n + 1)
      BY <1>3, <1>4
    <3>2. \A m \in 1..n : m \in 1..(n + 1)
      BY <1>3
    <3> QED
      BY <3>1, <3>2, <1>23 DEF NoFalseCseq
  <2>2. Ahead
    BY <2>1 DEF EventIInv
  <2>3. \A i \in 1..Len(replies) : replies[i] \in Nat
    BY ElementOfSeq DEF EventIInv, EventTypeOK
  <2>4. ASSUME NEW i \in 1..Len(replies), NEW j \in 1..L, Stream'[j].kind = "cseq"
        PROVE  replies[i] < Stream'[j].of
    <3>1. CASE j \in 1..l
      BY <3>1, <2>2, <2>4, <1>11 DEF Ahead
    <3>2. CASE \E k \in 1..Size(r) : j = l + k
      <4>1. Stream'[j].of = n + 1
        BY <3>2, <1>12
      <4> QED
        BY <4>1, <2>2, <2>3, <1>3 DEF Ahead
    <3> QED
      BY <3>1, <3>2, <1>16
  <2>5. \A i \in 1..Len(replies) : replies[i] <= Len(requests')
    BY <2>2, <2>3, <1>3, <1>4 DEF Ahead
  <2> QED
    BY <2>2, <2>4, <2>5, <1>2, <1>11 DEF Ahead
<1> QED
  BY <1>9, <1>17, <1>19, <1>20, <1>22, <1>24, <1>25 DEF EventIInv

LEMMA EventKept == EventIInv /\ [EventNext]_eventVars => EventIInv'
<1> SUFFICES ASSUME EventIInv, [EventNext]_eventVars PROVE EventIInv'
  OBVIOUS
<1>1. CASE TvRequests
  BY <1>1, TvRequestsKeeps
<1>2. CASE Read
  BY <1>2, ReadKeeps
<1>3. CASE Answer
  BY <1>3, AnswerKeeps
<1>4. CASE Skip
  BY <1>4, SkipKeeps
<1>5. CASE Clear
  BY <1>5, ClearKeeps
<1>6. CASE TvClosesEvents \/ ReadEnd \/ WriteFails \/ ReadMore \/ UNCHANGED eventVars
  <2>1. UNCHANGED <<requests, net, buf, replies>>
    BY <1>6 DEF TvClosesEvents, ReadEnd, WriteFails, ReadMore, tvVars, eventVars
  <2>2. UNCHANGED <<Stream, requests, replies>>
    BY <2>1 DEF Stream
  <2>3. eventClosed' \in BOOLEAN
    BY <1>6 DEF EventIInv, EventTypeOK, TvClosesEvents, ReadEnd, WriteFails, ReadMore,
       tvVars, eventVars
  <2>4. loop' \in {"reading", "parsing", "ended"}
    BY <1>6 DEF EventIInv, EventTypeOK, TvClosesEvents, ReadEnd, WriteFails, ReadMore,
       tvVars, eventVars
  <2>5. EventTypeOK'
    BY <2>1, <2>3, <2>4 DEF EventIInv, EventTypeOK
  <2> QED
    BY <2>2, <2>5, SameStream
<1> QED
  BY <1>1, <1>2, <1>3, <1>4, <1>5, <1>6 DEF EventNext, EventLoop

LEMMA EventAgreed == EventIInv => EventInv
<1> SUFFICES ASSUME EventIInv PROVE EventInv
  OBVIOUS
<1>1. /\ DOMAIN replies = 1..Len(replies) /\ DOMAIN requests = 1..Len(requests)
      /\ DOMAIN net = 1..Len(net) /\ Len(requests) \in Nat
  BY DEF EventIInv, EventTypeOK
<1>2. NoneTwice
  BY <1>1 DEF EventIInv, Ahead, NoFalseCseq, NoneTwice
<1>3. AnswersInOrder
  <2> SUFFICES ASSUME Fits
               PROVE  /\ \A i \in 1..Len(replies) : replies[i] \in 1..Len(requests)
                      /\ \A i, j \in 1..Len(replies) : i < j => replies[i] < replies[j]
                      /\ \A i \in 1..Len(replies), j \in 1..Len(net) : replies[i] < net[j].of
                      /\ \A i \in 1..Len(replies), n \in 1..Len(requests) :
                           n < replies[i] /\ IsText(n)
                             => \E k \in 1..Len(replies) : replies[k] = n
    BY <1>1 DEF AnswersInOrder, Contains
  <2>1. RepliesRise /\ TextsAnswered
    BY DEF EventIInv, InStep
  <2>2. Foremost \in 1..(Len(requests) + 1)
    <3>1. CASE Len(Stream) = 0
      BY <3>1, <1>1 DEF Foremost
    <3>2. CASE Len(Stream) # 0
      BY <3>2, <1>1, Opening DEF EventIInv
    <3> QED
      BY <3>1, <3>2
  <2>3. ASSUME NEW j \in 1..Len(net) PROVE Foremost <= net[j].of
    <3>1. /\ Len(buf) \in Nat /\ Len(net) \in Nat /\ Len(Stream) = Len(buf) + Len(net)
          /\ \A i \in 1..Len(Stream) :
               Stream[i] = IF i <= Len(buf) THEN buf[i] ELSE net[i - Len(buf)]
      BY StreamParts DEF EventIInv
    <3>2. /\ Len(buf) + j \in 1..Len(Stream) /\ ~(Len(buf) + j <= Len(buf))
          /\ (Len(buf) + j) - Len(buf) = j /\ Len(Stream) # 0 /\ 1 \in 1..Len(Stream)
      BY <3>1
    <3>3. Stream[Len(buf) + j] = net[j]
      BY <3>1, <3>2
    <3>4. Stream[1].of <= Stream[Len(buf) + j].of
      <4>1. \A i \in 1..Len(Stream) : Stream[i].of \in Nat
        BY <1>1 DEF EventIInv, Known, Placed
      <4>2. CASE Len(buf) + j = 1
        BY <4>1, <4>2, <3>2
      <4>3. CASE Len(buf) + j # 1
        <5>1. 1 < Len(buf) + j
          BY <4>3, <3>1
        <5>2. Apart(Stream[1], Stream[Len(buf) + j], (Len(buf) + j) - 1)
          BY <5>1, <3>2 DEF EventIInv, Spaced
        <5> QED
          BY <4>1, <5>2, <3>2 DEF Apart
      <4> QED
        BY <4>2, <4>3
    <3> QED
      BY <3>2, <3>3, <3>4 DEF Foremost
  <2>4. \A i \in 1..Len(replies), j \in 1..Len(net) : replies[i] < net[j].of
    <3> SUFFICES ASSUME NEW i \in 1..Len(replies), NEW j \in 1..Len(net)
                 PROVE  replies[i] < net[j].of
      OBVIOUS
    <3>1. replies[i] \in 1..(Foremost - 1) /\ Foremost <= net[j].of
      BY <2>1, <2>3 DEF RepliesRise
    <3>2. net[j].of \in Nat
      <4>1. net[j] \in Units
        BY ElementOfSeq DEF EventIInv, EventTypeOK
      <4> QED
        BY <4>1, SizesAssumption DEF Units
    <3> QED
      BY <3>1, <3>2, <2>2
  <2>5. \A i \in 1..Len(replies), n \in 1..Len(requests) :
          n < replies[i] /\ IsText(n) => \E k \in 1..Len(replies) : replies[k] = n
    <3> SUFFICES ASSUME NEW i \in 1..Len(replies), NEW n \in 1..Len(requests),
                        n < replies[i], IsText(n)
                 PROVE  \E k \in 1..Len(replies) : replies[k] = n
      OBVIOUS
    <3>1. n \in 1..(Foremost - 1)
      BY <2>1, <2>2 DEF RepliesRise
    <3> QED
      BY <3>1, <2>1 DEF TextsAnswered
  <2> QED
    BY <2>1, <2>2, <2>4, <2>5 DEF RepliesRise
<1> QED
  BY <1>2, <1>3 DEF EventIInv, EventInv

\* The invariant MCReceiverEvents checks, for any bodies, reads, clearings and size
\* of the buffer: requests that fit are answered with their own CSeq, in order,
\* once, complete, and all that are UTF-8; and no CSeq is ever answered twice.
THEOREM EventInvariance == EventSpec => []EventInv
<1>1. EventSpec => []EventIInv
  BY EventInitially, EventKept, PTL DEF EventSpec
<1> QED
  BY <1>1, EventAgreed, PTL
=============================================================================
