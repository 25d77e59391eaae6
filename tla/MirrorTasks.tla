---------------------------- MODULE MirrorTasks ----------------------------
(***************************************************************************)
(* The tasks run_mirror starts around the stream loop                      *)
(* (rotten-app/src/mirror.rs) and the RTSP connection two of them and      *)
(* run_mirror itself share behind a tokio Mutex                            *)
(* (rotten-protocol/src/airplay_conn.rs): the relay of the first-frame     *)
(* signal, POST /feedback every 2 s, GET_PARAMETER every 15 s, and the     *)
(* lock run_mirror takes before it returns.                                *)
(*                                                                         *)
(* The stream loop appears through what run_mirror sees of it: it fires    *)
(* the first-frame signal or drops it, and returns Ok or an error          *)
(* (StreamLoop).  When run_mirror returns, the runtime is dropped and with *)
(* it every task.  A task's step ends where it awaits.                     *)
(***************************************************************************)
EXTENDS Integers, Sequences

CONSTANTS
  CSeqs,                \* CSeq counts modulo this (a bound of the model)
  AudioNegotiated       \* did SETUP yield the audio ports

ASSUME CSeqsAssumption == CSeqs \in Nat /\ CSeqs > 2
ASSUME AudioAssumption == AudioNegotiated \in BOOLEAN

Keepalives == {"feedback", "heartbeat"}
Subscribers == Keepalives \cup (IF AudioNegotiated THEN {"audio"} ELSE {})
Lockers == Keepalives \cup {"main"}

VARIABLES
  main,                 \* run_mirror: "streaming", "locking", "returned"
  signal,               \* first-frame oneshot: "armed", "fired", "dropped"
  relay,                \* the relay task: "waiting", "sent", "gone"
  task,                 \* of each subscriber: the await it is in, or "ended"
  lockQueue,            \* the Mutex: its holder, then the waiters in order
  cseq,                 \* AirPlayRtspConn::cseq, modulo CSeqs
  awaited,              \* history: the CSeq each keepalive waits to see answered
  inbox,                \* CSeqs of requests the TV has yet to answer (external)
  owed,                 \* heads sent whose bodies the TV still has to send
  stream,               \* segments from the TV not yet read
  closed,               \* the TV has closed the connection (external)
  astray                \* history: a left-over body was read as a response of
                        \* its own, and what is read next is anybody's guess

connVars == <<cseq, awaited, inbox, owed, stream, closed, astray>>
vars == <<main, signal, relay, task, lockQueue, connVars>>

\* A response is a status line with headers, "ok", "refused" (400) or "garbled"
\* (no status can be parsed), and a body that may come in a later segment.
Statuses == {"ok", "refused", "garbled"}
Segments == [part : {"head", "body"}, cseq : 0..CSeqs-1, status : Statuses,
             more : BOOLEAN]

Init ==
  /\ main = "streaming"
  /\ signal = "armed"
  /\ relay = "waiting"
  /\ task = [t \in Subscribers |-> "gate"]
  /\ lockQueue = <<>>
  /\ cseq = 0
  /\ awaited = [t \in Keepalives |-> 0]
  /\ inbox = <<>>
  /\ owed = <<>>
  /\ stream = <<>>
  /\ closed = FALSE
  /\ astray = FALSE

Running == main # "returned"
Goto(t, await) == task' = [task EXCEPT ![t] = await]

(***************************************************************************)
(* The first-frame signal.                                                 *)
(***************************************************************************)
FirstPicture ==
  /\ main = "streaming"
  /\ signal = "armed"
  /\ signal' = "fired"
  /\ UNCHANGED <<main, relay, task, lockQueue, connVars>>

\* Mutant: the signal is broadcast only to those already waiting for it.
GateOpensMissed(t) ==
  /\ Running
  /\ task[t] = "gate"
  /\ relay = "waiting"
  /\ signal = "fired"
  /\ Goto(t, "due")
  /\ UNCHANGED <<main, signal, relay, lockQueue, connVars>>

\* Only a fired signal is broadcast; a dropped one ends the relay silently.
Relay ==
  /\ Running
  /\ relay = "waiting"
  /\ signal # "armed"
  /\ relay' = IF signal = "fired" THEN "sent" ELSE "gone"
  /\ UNCHANGED <<main, signal, task, lockQueue, connVars>>

\* Every subscription was made before the relay was spawned, so each receiver
\* finds the message whenever it looks.
GateOpens(t) ==
  /\ Running
  /\ task[t] = "gate"
  /\ relay = "sent"
  /\ Goto(t, "due")
  /\ UNCHANGED <<main, signal, relay, lockQueue, connVars>>

(***************************************************************************)
(* The tokio Mutex: waiters are served in order of arrival.                *)
(***************************************************************************)
Holds(t) == lockQueue # <<>> /\ Head(lockQueue) = t

\* The interval or sleep is over: the task queues for the connection.
Lock(t) ==
  /\ Running
  /\ task[t] = "due"
  /\ Goto(t, "lock")
  /\ lockQueue' = Append(lockQueue, t)
  /\ UNCHANGED <<main, signal, relay, connVars>>

(***************************************************************************)
(* One request and its response: rtsp_request, post, read_rtsp_response.   *)
(***************************************************************************)
\* Mutant: the guard is dropped once the request is out.
SendRequestUnlocked(t) ==
  /\ Running
  /\ task[t] = "lock"
  /\ Holds(t)
  /\ ~closed
  /\ cseq' = (cseq + 1) % CSeqs
  /\ awaited' = [awaited EXCEPT ![t] = cseq']
  /\ Goto(t, "head")
  /\ inbox' = Append(inbox, cseq')
  /\ lockQueue' = Append(Tail(lockQueue), t)
  /\ UNCHANGED <<main, signal, relay, owed, stream, closed, astray>>

\* cseq is advanced and the request written in one go.
SendRequest(t) ==
  /\ Running
  /\ task[t] = "lock"
  /\ Holds(t)
  /\ cseq' = (cseq + 1) % CSeqs
  /\ awaited' = [awaited EXCEPT ![t] = cseq']
  /\ IF closed
     THEN /\ Goto(t, "ended")          \* the write fails
          /\ lockQueue' = Tail(lockQueue)
          /\ UNCHANGED inbox
     ELSE /\ Goto(t, "head")
          /\ inbox' = IF astray THEN inbox ELSE Append(inbox, cseq')
          /\ UNCHANGED lockQueue
  /\ UNCHANGED <<main, signal, relay, owed, stream, closed, astray>>

\* Mutant: an error leaves the connection locked.
ReleaseUnlessEnded(t, ends) ==
  /\ Goto(t, IF ends THEN "ended" ELSE "due")
  /\ lockQueue' = IF ends THEN lockQueue ELSE Tail(lockQueue)

\* The task is done with the connection for this round, or for good: after an
\* error both leave their loop, after a 400 only the heartbeat does.
Release(t, ends) ==
  /\ Goto(t, IF ends THEN "ended" ELSE "due")
  /\ lockQueue' = Tail(lockQueue)

Refusal(t, status) == t = "heartbeat" /\ status = "refused"

\* A head was parsed: the response is complete, or its body is still to come.
Responds(t, status, more) ==
  IF more
  THEN /\ Goto(t, IF Refusal(t, status) THEN "body400" ELSE "body")
       /\ UNCHANGED lockQueue
  ELSE Release(t, Refusal(t, status))

\* A head with a status, in front of everything else.
ReadHead(t) ==
  /\ Running
  /\ task[t] = "head"
  /\ stream # <<>>
  /\ Head(stream).part = "head"
  /\ Head(stream).status # "garbled"
  /\ stream' = Tail(stream)
  /\ Responds(t, Head(stream).status, Head(stream).more)
  /\ UNCHANGED <<main, signal, relay, cseq, awaited, inbox, owed, closed, astray>>

\* A body a failed exchange has left and the head behind it end at one empty
\* line: they are read as one head.
Joined == Len(stream) > 1 /\ Head(stream).part = "body"

\* The status is the second word of the first line: the head's own when the
\* body is one word glued to it, any number when the body has a second word.
\* The length is the last one given, the head's own.
ReadJoined(t) ==
  /\ Running
  /\ task[t] = "head"
  /\ Joined
  /\ stream' = Tail(Tail(stream))
  /\ \E status \in {"ok", "refused"} : Responds(t, status, stream[2].more)
  /\ UNCHANGED <<main, signal, relay, cseq, awaited, inbox, owed, closed, astray>>

\* A head without a status, its own or joined to what was left, is an error at
\* once.  Its body is dropped if it came in the same read; else it stays, where
\* the next request finds it in front of its own response.
ReadGarbled(t) ==
  /\ Running
  /\ task[t] = "head"
  /\ stream # <<>>
  /\ LET rest == IF Joined THEN Tail(Tail(stream)) ELSE Tail(stream)
     IN  /\ Joined \/ (Head(stream).part = "head" /\ Head(stream).status = "garbled")
         /\ stream' \in {rest, <<>>}
  /\ Release(t, TRUE)
  /\ UNCHANGED <<main, signal, relay, cseq, awaited, inbox, owed, closed, astray>>

\* What was left may have an empty line of its own, be too long for a head, or
\* give a length where the head behind it gives none.  The result is any, and
\* so is what the TV has sent but nobody has read.
ReadStray(t) ==
  /\ Running
  /\ task[t] = "head"
  /\ stream # <<>>
  /\ Head(stream).part = "body"
  /\ \/ \E status \in {"ok", "refused"}, more \in BOOLEAN : Responds(t, status, more)
     \/ Release(t, TRUE)
  /\ astray' = TRUE
  /\ inbox' = <<>> /\ owed' = <<>> /\ stream' = <<>>
  /\ UNCHANGED <<main, signal, relay, cseq, awaited, closed>>

\* On a connection that went astray any read ends in any way, or never.
ReadAstray(t) ==
  /\ Running
  /\ astray
  /\ \/ /\ task[t] = "head"
        /\ \/ \E status \in {"ok", "refused"}, more \in BOOLEAN : Responds(t, status, more)
           \/ Release(t, TRUE)
     \/ /\ task[t] \in {"body", "body400"}
        /\ Release(t, task[t] = "body400")
  /\ UNCHANGED <<main, signal, relay, connVars>>

\* The connection ends before a head is complete.
ReadClosed(t) ==
  /\ Running
  /\ task[t] = "head"
  /\ closed
  /\ \/ stream = <<>>
     \/ Len(stream) = 1 /\ Head(stream).part = "body"
  /\ stream' = <<>>
  /\ Release(t, TRUE)
  /\ UNCHANGED <<main, signal, relay, cseq, awaited, inbox, owed, closed, astray>>

\* The rest of the body; a connection that ends here truncates it silently.
ReadBody(t) ==
  /\ Running
  /\ task[t] \in {"body", "body400"}
  /\ \/ stream # <<>> /\ stream' = Tail(stream)
     \/ stream = <<>> /\ closed /\ stream' = <<>>
  /\ Release(t, task[t] = "body400")
  /\ UNCHANGED <<main, signal, relay, cseq, awaited, inbox, owed, closed, astray>>

Keepalive(t) ==
  \/ Lock(t)
  \/ SendRequest(t)
  \/ ReadHead(t)
  \/ ReadJoined(t)
  \/ ReadGarbled(t)
  \/ ReadClosed(t)
  \/ ReadBody(t)

(***************************************************************************)
(* run_mirror.                                                             *)
(***************************************************************************)
DropSignal == signal' = IF signal = "armed" THEN "dropped" ELSE signal

\* The stream loop ends with the capture: run_mirror asks for the connection.
StreamEnds ==
  /\ main = "streaming"
  /\ main' = "locking"
  /\ lockQueue' = Append(lockQueue, "main")
  /\ DropSignal
  /\ UNCHANGED <<relay, task, connVars>>

\* An error of the stream loop is returned without waiting for anything.
StreamFails ==
  /\ main = "streaming"
  /\ main' = "returned"
  /\ DropSignal
  /\ UNCHANGED <<relay, task, lockQueue, connVars>>

\* Mutant: run_mirror waits for the keepalive tasks to end.
ReturnJoining ==
  /\ main = "locking"
  /\ Holds("main")
  /\ \A t \in Keepalives : task[t] = "ended"
  /\ main' = "returned"
  /\ lockQueue' = Tail(lockQueue)
  /\ UNCHANGED <<signal, relay, task, connVars>>

Return ==
  /\ main = "locking"
  /\ Holds("main")
  /\ main' = "returned"
  /\ lockQueue' = Tail(lockQueue)
  /\ UNCHANGED <<signal, relay, task, connVars>>

(***************************************************************************)
(* The TV (external): it answers requests in order, or closes.             *)
(***************************************************************************)
TvAnswers ==
  /\ Running
  /\ ~closed
  /\ owed = <<>>
  /\ inbox # <<>>
  /\ \E status \in Statuses, more \in BOOLEAN :
       LET Answer(part, rest) == [part |-> part, cseq |-> Head(inbox),
                                  status |-> status, more |-> rest]
       IN  /\ stream' = Append(stream, Answer("head", more))
           /\ owed' = IF more THEN <<Answer("body", FALSE)>> ELSE <<>>
  /\ inbox' = Tail(inbox)
  /\ UNCHANGED <<main, signal, relay, task, lockQueue, cseq, awaited, closed, astray>>

TvSendsBody ==
  /\ Running
  /\ ~closed
  /\ owed # <<>>
  /\ stream' = stream \o owed
  /\ owed' = <<>>
  /\ UNCHANGED <<main, signal, relay, task, lockQueue, cseq, awaited, inbox,
                 closed, astray>>

TvCloses ==
  /\ Running
  /\ ~closed
  /\ closed' = TRUE
  /\ UNCHANGED <<main, signal, relay, task, lockQueue, cseq, awaited, inbox,
                 owed, stream, astray>>

Tv == TvAnswers \/ TvSendsBody

Next ==
  \/ FirstPicture
  \/ Relay
  \/ \E t \in Subscribers : GateOpens(t)
  \/ \E t \in Keepalives : Keepalive(t)
  \/ \E t \in Keepalives : ReadStray(t)
  \/ \E t \in Keepalives : ReadAstray(t)
  \/ StreamEnds
  \/ StreamFails
  \/ Return
  \/ Tv
  \/ TvCloses

\* The runtime polls every task that is woken and timers fire.  The TV answers
\* or closes: there is no timeout on a request, so a TV that falls silent holds
\* the connection, and with it run_mirror, for good.  Nothing is owed on a
\* connection that went astray: the answer may have been read and dropped.
Fairness ==
  /\ WF_vars(Relay)
  /\ \A t \in Subscribers : WF_vars(GateOpens(t))
  /\ \A t \in Keepalives : WF_vars(Keepalive(t))
  /\ WF_vars(Return)
  /\ WF_vars(Tv)

Spec == Init /\ [][Next]_vars /\ Fairness

(***************************************************************************)
(* Properties.                                                             *)
(***************************************************************************)
Awaits == {"gate", "due", "lock", "head", "body", "body400", "ended"}

\* Types of the variables.
TypeOK ==
  /\ main \in {"streaming", "locking", "returned"}
  /\ signal \in {"armed", "fired", "dropped"}
  /\ relay \in {"waiting", "sent", "gone"}
  /\ task \in [Subscribers -> Awaits]
  /\ lockQueue \in Seq(Lockers)
  /\ cseq \in 0..CSeqs-1
  /\ awaited \in [Keepalives -> 0..CSeqs-1]
  /\ inbox \in Seq(0..CSeqs-1)
  /\ owed \in Seq(Segments)
  /\ stream \in Seq(Segments)
  /\ closed \in BOOLEAN
  /\ astray \in BOOLEAN

Exchanging(t) == task[t] \in {"head", "body", "body400"}

\* One exchange at a time: whoever has a request out holds the connection, and
\* the TV never has two requests to answer.
OneExchange ==
  /\ \A t \in Keepalives : Exchanging(t) => Holds(t)
  /\ Len(inbox) <= 1

\* The queue of the Mutex: nobody is in it twice, and in it are those who asked.
Queued(l) == \E i \in DOMAIN lockQueue : lockQueue[i] = l
QueueSound ==
  /\ \A i, j \in DOMAIN lockQueue : lockQueue[i] = lockQueue[j] => i = j
  /\ \A t \in Keepalives : Queued(t) <=> task[t] = "lock" \/ Exchanging(t)
  /\ Queued("main") <=> main = "locking"

IsBody(segment) == segment.part = "body" /\ segment.cseq = cseq

\* The requests whose senders gave up, and a body that answers one of them.
GivenUp == {awaited[t] : t \in {u \in Keepalives : task[u] = "ended"}}
IsLeftover(segment) == segment.part = "body" /\ segment.cseq \in GivenUp

\* Nothing is under way but, behind a head that could not be parsed, a body.
AtMostLeftover ==
  /\ Len(stream) + Len(owed) <= 1
  /\ \A i \in DOMAIN stream : IsLeftover(stream[i])
  /\ \A i \in DOMAIN owed : closed \/ IsLeftover(owed[i])

\* The request that is out has not been answered.
Asked == inbox = <<cseq>> /\ AtMostLeftover

\* Its answer is the k-th segment, and behind it or owed is its body, if any.
AnsweredAt(k) ==
  /\ inbox = <<>>
  /\ k \in DOMAIN stream
  /\ stream[k].part = "head" /\ stream[k].cseq = cseq
  /\ k > 1 => IsLeftover(stream[1])
  /\ Len(stream) + Len(owed) = IF stream[k].more THEN k + 1 ELSE k
  /\ \A i \in DOMAIN stream : i > k => IsBody(stream[i])
  /\ \A i \in DOMAIN owed : IsBody(owed[i])

\* Only its body is still to be read.
BodyToCome ==
  /\ inbox = <<>>
  /\ Len(stream) + Len(owed) = 1
  /\ \A i \in DOMAIN stream : IsBody(stream[i])
  /\ \A i \in DOMAIN owed : IsBody(owed[i])

\* What is under way is the rest of the one exchange that goes on, behind at
\* most one body that a failed exchange has left.
InStep ==
  /\ \A t \in Keepalives : task[t] = "head" => Asked \/ AnsweredAt(1) \/ AnsweredAt(2)
  /\ \A t \in Keepalives : task[t] \in {"body", "body400"} => BodyToCome
  /\ (\A t \in Keepalives : ~Exchanging(t)) => AtMostLeftover /\ (inbox = <<>> \/ closed)
  /\ \A i \in DOMAIN owed : owed[i].part = "body"

\* The connection is in step until one keepalive has failed and the other has
\* read what the failure left as a response.
WireSound ==
  /\ \A t \in Keepalives : Exchanging(t) => awaited[t] = cseq
  /\ astray => GivenUp # {} /\ inbox = <<>> /\ owed = <<>> /\ stream = <<>>
  /\ ~astray => InStep

\* The inductive invariant: types, one exchange at a time, and why.
TasksInv == TypeOK /\ OneExchange /\ QueueSound /\ WireSound

\* What is taken off the connection is taken by the keepalive that holds it
\* and answers the request it awaits, although the CSeq of a response is never
\* looked at; only in front of that may be the body a keepalive that gave up
\* has left, which the code reads as part of the answer.
Consumed == 1..(Len(stream) - Len(stream'))
RepliesMatch ==
  [][Consumed # {} =>
       \E t \in Keepalives :
         /\ Holds(t) /\ Exchanging(t)
         /\ \A i \in Consumed : \/ stream[i].cseq = awaited[t]
                                \/ i = 1 /\ IsLeftover(stream[1])]_vars

\* Once the first picture is out every subscriber, the audio sender too,
\* passes its gate, and every keepalive goes on to ask for the connection.
KeepalivesStart ==
  /\ \A t \in Subscribers : (signal = "fired") ~> (task[t] # "gate" \/ main = "returned")
  /\ \A t \in Keepalives :
       (signal = "fired") ~> (task[t] \notin {"gate", "due"} \/ main = "returned")

\* A keepalive that wants the connection gets it, whatever the other one and
\* run_mirror do, and even when the other one has failed.
KeepaliveServed ==
  \A t \in Keepalives :
    (task[t] = "lock") ~> (task[t] # "lock" \/ main = "returned")

\* When the stream has ended run_mirror returns, behind at most one exchange,
\* unless that one waits on a connection that went astray and is never closed.
MirrorReturns ==
  (main = "locking") ~> (main = "returned" \/ [](astray /\ ~closed))
=============================================================================
