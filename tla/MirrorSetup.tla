----------------------------- MODULE MirrorSetup -----------------------------
(***************************************************************************)
(* MirrorConnection::connect (rotten-protocol/src/mirror.rs): pair-verify, *)
(* fp-setup and setup_mirror_rtsp, a chain of requests on one RTSP         *)
(* connection, with the tasks that run beside it: the responder on the     *)
(* timing port and the acceptor on the event port.  The TV answers the     *)
(* audio SETUP only once its clock is synchronised over the timing port,   *)
(* so the two sides wait on each other over two channels.                  *)
(*                                                                         *)
(* A request and its response are one exchange (MirrorTasks has the        *)
(* reading of a response); pair-verify's cryptography and the FairPlay     *)
(* helper appear as steps that may fail.                                   *)
(***************************************************************************)
EXTENDS Integers, Sequences

CONSTANTS
  MaxSigned,            \* i64::MAX
  StreamIds,            \* values of stream_connection_id
  NamedIds,             \* plist values the TV may give as streamConnectionID
  Latencies,            \* latencies, in samples, RECORD may carry
  DefaultLatency        \* playout_latency_samples of the device

\* A plist value: an integer, a real (by its integer part), or neither.
PlistValues == [kind : {"integer", "real", "other"}, int : Int]
Whole(i) == [kind |-> "integer", int |-> i]
NoId == [kind |-> "none", int |-> 0]

ASSUME SetupAssumption ==
  /\ MaxSigned \in Nat
  /\ StreamIds \subseteq 0..MaxSigned
  /\ NamedIds \subseteq PlistValues
  /\ Latencies \cup {DefaultLatency} \subseteq Nat \ {0}

Exchanges == <<"verify1", "verify2", "fp1", "fp2", "audio", "video", "record",
               "volume1", "volume2">>
Setups == {"audio", "video"}

\* The awaits of connect, in order.
Order == <<"connect", "verify1", "verify2", "fp1", "fp2", "bind", "audio",
           "video", "event", "data", "record", "volume1", "volume2", "streaming">>
IndexOf(s) == CHOOSE i \in DOMAIN Order : Order[i] = s
After(s) == Order[IndexOf(s) + 1]

VARIABLES
  pc,                   \* the await connect is in, "streaming" or "failed"
  asked,                \* the request of this await is out
  answer,               \* the TV's response to it, once sent
  closed,               \* the TV has closed the RTSP connection
  responder,            \* ntp_timing_responder: "none", "running", "dead"
  acceptor,             \* where the event task listens: "none", on the number of
                        \* the "timing" port, which the TV knows, or "other"
  probe, reply,         \* datagrams in flight on the timing port
  ntpProbed, eventConnected,
  videoId,              \* video_stream_id of the request
  hkdfId,               \* hkdf_stream_id, 0 before the video SETUP
  audioPorts,           \* plist_audio_ports found the audio ports
  eventPort,            \* the port of plist_event_port was found
  eventChannel,         \* connect_receiver_event connected
  dataChannel,          \* connect_data_port connected
  latency,              \* audio_latency_samples, 0 before RECORD
  hint,                 \* what setup_failed adds to the error
  tv                    \* the TV: helpful (it accepts all, and nothing fails),
                        \* synced, streams set up, key id as a plist value,
                        \* latency, event connection (external)

local == <<videoId, hkdfId, audioPorts, eventPort, eventChannel, dataChannel,
           latency, hint>>
timing == <<responder, acceptor, probe, reply, ntpProbed, eventConnected>>
vars == <<pc, asked, answer, closed, responder, acceptor, probe, reply,
          ntpProbed, eventConnected, videoId, hkdfId, audioPorts, eventPort,
          eventChannel, dataChannel, latency, hint, tv>>

\* A response: its status and what connect reads of its body and headers.
Answers == [status : {"none", "ok", "refused"}, ports : BOOLEAN, event : BOOLEAN,
            id : {NoId} \cup NamedIds, latency : {0} \cup Latencies]
Plain(s) == [status |-> s, ports |-> FALSE, event |-> FALSE, id |-> NoId, latency |-> 0]
NoAnswer == Plain("none")

Init ==
  /\ pc = "connect"
  /\ asked = FALSE
  /\ answer = NoAnswer
  /\ closed = FALSE
  /\ responder = "none"
  /\ acceptor = "none"
  /\ probe = FALSE
  /\ reply = FALSE
  /\ ntpProbed = FALSE
  /\ eventConnected = FALSE
  /\ videoId \in StreamIds
  /\ hkdfId = 0
  /\ audioPorts = FALSE
  /\ eventPort = FALSE
  /\ eventChannel = FALSE
  /\ dataChannel = FALSE
  /\ latency = 0
  /\ hint = "none"
  /\ \E h \in BOOLEAN :
       tv = [helpful |-> h, synced |-> FALSE, streams |-> {}, id |-> NoId,
             latency |-> 0, event |-> FALSE]

Running == pc \notin {"streaming", "failed"}
Fail == pc' = "failed" /\ asked' = FALSE /\ answer' = NoAnswer

Proceed == pc' = After(pc) /\ asked' = FALSE /\ answer' = NoAnswer
Waiting == asked /\ answer = NoAnswer
Accepted == asked /\ answer.status = "ok"
Refused == asked /\ answer.status = "refused"

(***************************************************************************)
(* The chain of requests.                                                  *)
(***************************************************************************)
Connect ==
  /\ pc = "connect"
  /\ \/ Proceed
     \/ ~tv.helpful /\ Fail
  /\ UNCHANGED <<closed, timing, local, tv>>

Ask ==
  /\ pc \in {Exchanges[i] : i \in DOMAIN Exchanges}
  /\ ~asked
  /\ IF closed THEN Fail ELSE asked' = TRUE /\ UNCHANGED <<pc, answer>>
  /\ UNCHANGED <<closed, timing, local, tv>>

\* Mutant: a read of nothing is repeated.
ConnectionLostUnnoticed ==
  /\ Waiting
  /\ closed
  /\ UNCHANGED vars

ConnectionLost ==
  /\ Waiting
  /\ closed
  /\ Fail
  /\ UNCHANGED <<closed, timing, local, tv>>

\* pair_verify_conn and run_fp_setup_conn: any other status ends the setup, and
\* so do a signature that does not verify and a helper that fails.
Authenticate ==
  /\ pc \in {"verify1", "verify2", "fp1", "fp2"}
  /\ \/ Accepted /\ Proceed
     \/ Refused /\ Fail
     \/ Accepted /\ ~tv.helpful /\ pc \in {"verify1", "fp1"} /\ Fail
  /\ UNCHANGED <<closed, timing, local, tv>>

\* Mutant: the responder is started once the audio stream is set up.
BindLazily ==
  /\ pc = "bind"
  /\ Proceed
  /\ acceptor' \in {"timing", "other"}
  /\ UNCHANGED <<closed, responder, probe, reply, ntpProbed, eventConnected, local, tv>>

\* The ports are bound and both tasks spawned before anything is asked of them.
\* If the timing port's number is taken for TCP the events get another one, of
\* which the TV is not told.
Bind ==
  /\ pc = "bind"
  /\ \/ Proceed /\ responder' = "running" /\ acceptor' \in {"timing", "other"}
     \/ /\ ~tv.helpful
        /\ Fail
        /\ \/ UNCHANGED <<responder, acceptor>>             \* no UDP ports
           \/ responder' = "running" /\ UNCHANGED acceptor  \* no TCP port
  /\ UNCHANGED <<closed, probe, reply, ntpProbed, eventConnected, local, tv>>

\* setup_failed: what the user is told to look at.
Hint == IF ~ntpProbed /\ ~eventConnected THEN "unreachable"
        ELSE IF ~ntpProbed THEN "notProbed" ELSE "none"

SetupRefused ==
  /\ pc \in Setups
  /\ Refused
  /\ hint' = Hint
  /\ Fail
  /\ UNCHANGED <<closed, timing, videoId, hkdfId, audioPorts, eventPort,
                 eventChannel, dataChannel, latency, tv>>

AudioSetUp ==
  /\ pc = "audio"
  /\ Accepted
  /\ audioPorts' = answer.ports
  /\ eventPort' = answer.event
  /\ Proceed
  /\ UNCHANGED <<closed, timing, videoId, hkdfId, eventChannel, dataChannel,
                 latency, hint, tv>>

\* Mutant: the id of the request is used whatever the response says.
StreamKeyIdRequested == videoId

\* plist_int: as_signed has nothing for an integer above i64::MAX, the cast of a
\* real saturates, and anything else counts as 0.
PlistInt(value) ==
  IF value.kind = "integer" THEN IF value.int > MaxSigned THEN 0 ELSE value.int
  ELSE IF value.kind = "real"
       THEN IF value.int > MaxSigned THEN MaxSigned
            ELSE IF value.int < -MaxSigned - 1 THEN -MaxSigned - 1 ELSE value.int
       ELSE 0

\* hkdf_stream_id: the TV may replace the id it was asked to use.
StreamKeyId == IF answer.id = NoId THEN videoId ELSE PlistInt(answer.id)

VideoSetUp ==
  /\ pc = "video"
  /\ Accepted
  /\ IF answer.ports
     THEN /\ hkdfId' = StreamKeyId
          /\ eventPort' = (eventPort \/ answer.event)
          /\ Proceed
     ELSE Fail /\ UNCHANGED <<hkdfId, eventPort>>   \* no dataPort
  /\ UNCHANGED <<closed, timing, videoId, audioPorts, eventChannel,
                 dataChannel, latency, hint, tv>>

\* The TV's own event port is optional: refusal and timeout are passed over.
ConnectEvents ==
  /\ pc = "event"
  /\ eventChannel' \in {FALSE, eventPort}
  /\ Proceed
  /\ UNCHANGED <<closed, timing, videoId, hkdfId, audioPorts, eventPort,
                 dataChannel, latency, hint, tv>>

\* The data port is not: refusal and timeout end the setup.
ConnectData ==
  /\ pc = "data"
  /\ \/ dataChannel' = TRUE /\ Proceed
     \/ ~tv.helpful /\ Fail /\ UNCHANGED dataChannel
  /\ UNCHANGED <<closed, timing, videoId, hkdfId, audioPorts, eventPort,
                 eventChannel, latency, hint, tv>>

Recorded ==
  /\ pc = "record"
  /\ \/ Accepted /\ Proceed
     \/ Refused /\ Fail
  /\ latency' = IF answer.latency > 0 THEN answer.latency ELSE DefaultLatency
  /\ UNCHANGED <<closed, timing, videoId, hkdfId, audioPorts, eventPort,
                 eventChannel, dataChannel, hint, tv>>

\* The status of SET_PARAMETER is not looked at.
VolumeSet ==
  /\ pc \in {"volume1", "volume2"}
  /\ Accepted \/ Refused
  /\ Proceed
  /\ UNCHANGED <<closed, timing, local, tv>>

Setup ==
  \/ Connect
  \/ Ask
  \/ ConnectionLost
  \/ Authenticate
  \/ Bind
  \/ SetupRefused
  \/ AudioSetUp
  \/ VideoSetUp
  \/ ConnectEvents
  \/ ConnectData
  \/ Recorded
  \/ VolumeSet

(***************************************************************************)
(* ntp_timing_responder and the acceptor of the event port.  A datagram    *)
(* may be lost either way; an error of the socket ends the responder.      *)
(***************************************************************************)
\* Mutant: the flag the responder sets is not the one connect reads.
MarkProbedNot == UNCHANGED ntpProbed

MarkProbed == ntpProbed' = TRUE

AnswerProbe ==
  /\ responder = "running"
  /\ probe
  /\ MarkProbed
  /\ probe' = FALSE
  /\ reply' = TRUE
  /\ UNCHANGED <<pc, asked, answer, closed, responder, acceptor, eventConnected, local, tv>>

ResponderDies ==
  /\ ~tv.helpful
  /\ responder = "running"
  /\ responder' = "dead"
  /\ UNCHANGED <<pc, asked, answer, closed, acceptor, probe, reply, ntpProbed,
                 eventConnected, local, tv>>

\* accept returns a connection the TV has made.
Accept ==
  /\ acceptor # "none"
  /\ tv.event
  /\ ~eventConnected
  /\ eventConnected' = TRUE
  /\ UNCHANGED <<pc, asked, answer, closed, responder, acceptor, probe, reply,
                 ntpProbed, local, tv>>

Lose ==
  /\ probe \/ reply
  /\ probe' \in {FALSE, probe}
  /\ reply' \in {FALSE, reply}
  /\ UNCHANGED <<pc, asked, answer, closed, responder, acceptor, ntpProbed,
                 eventConnected, local, tv>>

(***************************************************************************)
(* The TV (external).                                                      *)
(***************************************************************************)
\* From the audio SETUP on it knows the timing port and keeps probing it.
TvProbes ==
  /\ Running
  /\ (pc = "audio" /\ asked) \/ tv.streams # {}
  /\ ~probe
  /\ probe' = TRUE
  /\ UNCHANGED <<pc, asked, answer, closed, responder, acceptor, reply, ntpProbed,
                 eventConnected, local, tv>>

TvSyncs ==
  /\ reply
  /\ reply' = FALSE
  /\ tv' = [tv EXCEPT !.synced = TRUE]
  /\ UNCHANGED <<pc, asked, answer, closed, responder, acceptor, probe, ntpProbed,
                 eventConnected, local>>

TvConnectsEvents ==
  /\ acceptor = "timing"
  /\ pc = "audio" /\ asked
  /\ ~tv.event
  /\ tv' = [tv EXCEPT !.event = TRUE]
  /\ UNCHANGED <<pc, asked, answer, closed, timing, local>>

TvAccepts ==
  /\ Waiting
  /\ ~closed
  /\ pc = "audio" => tv.synced
  /\ \E a \in Answers :
       /\ a.status = "ok"
       /\ a.ports \/ a.event => pc \in Setups
       /\ a.id # NoId => pc = "video"
       /\ a.latency # 0 => pc = "record"
       /\ tv.helpful /\ pc = "video" => a.ports
       /\ answer' = a
       /\ tv' = [tv EXCEPT !.streams = @ \cup ({pc} \cap Setups),
                           !.id = IF pc # "video" THEN @
                                  ELSE IF a.id = NoId THEN Whole(videoId) ELSE a.id,
                           !.latency = IF pc = "record" THEN a.latency ELSE @]
  /\ UNCHANGED <<pc, asked, closed, timing, local>>

TvRefuses ==
  /\ ~tv.helpful
  /\ Waiting
  /\ ~closed
  /\ answer' = Plain("refused")
  /\ UNCHANGED <<pc, asked, closed, timing, local, tv>>

TvCloses ==
  /\ ~tv.helpful
  /\ ~closed
  /\ closed' = TRUE
  /\ UNCHANGED <<pc, asked, answer, timing, local, tv>>

Next ==
  \/ Setup
  \/ AnswerProbe
  \/ ResponderDies
  \/ Accept
  \/ Lose
  \/ TvProbes
  \/ TvSyncs
  \/ TvConnectsEvents
  \/ TvAccepts
  \/ TvRefuses
  \/ TvCloses

\* connect and the two tasks are polled when what they wait for is there, and
\* the connects of the data and event ports time out.  A probe that is sent
\* again and again gets through, and so does its reply.
Fairness ==
  /\ WF_vars(Setup)
  /\ SF_vars(AnswerProbe)
  /\ WF_vars(Accept)
  /\ WF_vars(TvProbes)
  /\ SF_vars(TvSyncs)
  /\ WF_vars(TvAccepts)
  /\ WF_vars(TvRefuses)

Spec == Init /\ [][Next]_vars /\ Fairness

(***************************************************************************)
(* Properties.                                                             *)
(***************************************************************************)

\* Types of the variables.
TypeOK ==
  /\ pc \in {Order[i] : i \in DOMAIN Order} \cup {"failed"}
  /\ acceptor \in {"none", "timing", "other"}
  /\ {asked, closed, probe, reply, ntpProbed, eventConnected,
      audioPorts, eventPort, eventChannel, dataChannel} \subseteq BOOLEAN
  /\ answer \in Answers
  /\ asked => pc \in {Exchanges[i] : i \in DOMAIN Exchanges}
  /\ responder \in {"none", "running", "dead"}
  /\ videoId \in StreamIds
  /\ hkdfId \in Int
  /\ latency \in {0, DefaultLatency} \cup Latencies
  /\ hint \in {"none", "unreachable", "notProbed"}
  /\ tv \in [helpful : BOOLEAN, synced : BOOLEAN, streams : SUBSET Setups,
             id : {NoId} \cup NamedIds \cup {Whole(i) : i \in StreamIds},
             latency : {0} \cup Latencies,
             event : BOOLEAN]

\* When the TV is told to RECORD it has both streams and a synchronised clock,
\* and the data connection the first picture needs is open.
RecordWhenReady ==
  pc = "record" /\ asked => tv.streams = Setups /\ tv.synced /\ dataChannel

\* Both sides derive the video key from the same stream id, and use the same
\* audio latency: the one the TV answered RECORD with, if any.  An id that is
\* above i64::MAX or no integer is excepted: plist_int makes another of it, mostly
\* 0, setup goes on, and the TV cannot decipher the pictures.
SessionAgreed ==
  pc = "streaming" =>
    /\ tv.id.kind = "integer" /\ tv.id.int <= MaxSigned => hkdfId = tv.id.int
    /\ latency = IF tv.latency > 0 THEN tv.latency ELSE DefaultLatency

\* Types, and what the two sides agree on at RECORD and behind it.
SetupInv == TypeOK /\ RecordWhenReady /\ SessionAgreed

\* The user is told that the TV could not reach the timing port only when the TV
\* has had no reply from there: the flag is up before the reply is out.
BlameIsRight == [][hint' # hint => ~tv.synced]_vars

\* A TV that accepts everything, but only after its clock is synchronised, is
\* streamed to, although datagrams are lost.
SetupCompletes == tv.helpful => <>(pc = "streaming")

\* connect ends, also when the TV refuses, closes or can never synchronise: a TV
\* that is silent for ever is left out, since no request has a timeout.
SetupEnds == <>(pc \in {"streaming", "failed"})
=============================================================================
