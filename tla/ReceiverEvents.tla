--------------------------- MODULE ReceiverEvents ---------------------------
(***************************************************************************)
(* receiver_event_loop and its two parsers                                 *)
(* (rotten-protocol/src/mirror_rtsp.rs): the task that reads the RTSP      *)
(* requests the TV sends on its event port and answers each with 200 OK.   *)
(*                                                                         *)
(* The byte stream is cut into pieces by what the parsers see in them: a   *)
(* request line, a line with CSeq or with Content-Length, an empty line    *)
(* with the end of the line before it, and other bytes, UTF-8 or not.  The *)
(* head of a request is four of these; its body is any sequence of them,   *)
(* so a body may hold empty lines and lines like those of a head.  Lengths *)
(* are counted in pieces.  A read returns any number of the pieces next to *)
(* come, so it does not matter when they are sent.                         *)
(***************************************************************************)
EXTENDS Integers, SequencesExt

CONSTANTS
  MaxRequests,          \* requests the TV sends (a bound of the model)
  Bodies,               \* the bodies they may have
  Limit                 \* pieces in 64 KiB

Pieces == [kind : {"cseq", "length", "end", "text", "binary"}, value : Nat]

ASSUME SizesAssumption ==
  /\ MaxRequests \in Nat /\ Limit \in Nat
  /\ Bodies \subseteq Seq(Pieces)

VARIABLES
  requests,             \* history: the TV's requests, the n-th with CSeq n
  net,                  \* their pieces still to be read
  eventClosed,          \* the TV has closed the connection (external)
  loop,                 \* "reading", "parsing", "ended"
  buf,                  \* buf
  replies               \* history: the CSeqs answered, in order

tvVars == <<requests, eventClosed>>
eventVars == <<requests, net, eventClosed, loop, buf, replies>>

\* A request: its body, and whether Content-Length comes before CSeq.
Requests == [body : Bodies, lengthFirst : BOOLEAN]

HeadSize == 4
Size(r) == HeadSize + Len(r.body)

\* A piece on its way: the request it is of and its place there.
Units == [of : 1..MaxRequests, at : Nat \ {0}, value : Nat,
          kind : {"line", "cseq", "length", "end", "text", "binary"}]

Unit(n, i, kind, value) == [of |-> n, at |-> i, kind |-> kind, value |-> value]

UnitOf(n, r, i) ==
  IF i > HeadSize
  THEN Unit(n, i, r.body[i - HeadSize].kind, r.body[i - HeadSize].value)
  ELSE IF i = 1 THEN Unit(n, i, "line", 0)
  ELSE IF i = HeadSize THEN Unit(n, i, "end", 0)
  ELSE IF r.lengthFirst = (i = 2) THEN Unit(n, i, "length", Len(r.body))
  ELSE Unit(n, i, "cseq", n)

UnitsOf(n, r) == [i \in 1..Size(r) |-> UnitOf(n, r, i)]

EventInit ==
  /\ requests = <<>>
  /\ net = <<>>
  /\ eventClosed = FALSE
  /\ loop = "reading"
  /\ buf = <<>>
  /\ replies = <<>>

(***************************************************************************)
(* The TV (external).  It may send a request before the last is answered.  *)
(***************************************************************************)
TvRequests ==
  /\ ~eventClosed
  /\ Len(requests) < MaxRequests
  /\ \E r \in Requests :
       /\ requests' = Append(requests, r)
       /\ net' = net \o UnitsOf(Len(requests) + 1, r)
  /\ UNCHANGED <<eventClosed, loop, buf, replies>>

\* What it has not sent by then is never read.
TvClosesEvents ==
  /\ ~eventClosed
  /\ eventClosed' = TRUE
  /\ UNCHANGED <<requests, net, loop, buf, replies>>

(***************************************************************************)
(* parse_rtsp_request_headers, rtsp_request_meta.                          *)
(***************************************************************************)
Utf8(n) == \A i \in 1..n : buf[i].kind # "binary"

HeaderEnds == {i \in 1..Len(buf) : buf[i].kind = "end"}
HeaderEnd == Min(HeaderEnds)

\* Everything up to the first empty line is taken for one head, whatever it is
\* of, and is none unless it is UTF-8.
Headed == HeaderEnds # {} /\ Utf8(HeaderEnd)

\* The last Content-Length counts, and none is a length of zero.
Lengths == {i \in 1..HeaderEnd : buf[i].kind = "length"}
ContentLen == IF Lengths = {} THEN 0 ELSE buf[Max(Lengths)].value

\* Mutant: the length of the head is forgotten.
TotalBodyOnly == ContentLen

Total == HeaderEnd + ContentLen

Complete == Headed /\ Len(buf) >= Total

\* Request line and CSeq are looked for in head and body together; the first
\* CSeq counts, but not in the first line, and none is a CSeq of zero.
Cseqs == {i \in 2..Total : buf[i].kind = "cseq"}
Cseq == IF Cseqs = {} THEN 0 ELSE buf[Min(Cseqs)].value

\* A first line that is no request line may have two words all the same.
MayHaveMeta == Utf8(Total) /\ buf[1].kind # "end"
MayLackMeta == ~Utf8(Total) \/ buf[1].kind # "line"

(***************************************************************************)
(* receiver_event_loop.                                                    *)
(***************************************************************************)
\* Mutant: the buffer is cleared before what it holds is parsed.
ReadClearing ==
  /\ loop = "reading"
  /\ \E n \in 1..Len(net) :
       /\ buf' = IF Len(buf) + n > Limit THEN <<>> ELSE buf \o SubSeq(net, 1, n)
       /\ net' = SubSeq(net, n + 1, Len(net))
  /\ loop' = "parsing"
  /\ UNCHANGED <<tvVars, replies>>

Read ==
  /\ loop = "reading"
  /\ \E n \in 1..Len(net) :
       /\ buf' = buf \o SubSeq(net, 1, n)
       /\ net' = SubSeq(net, n + 1, Len(net))
  /\ loop' = "parsing"
  /\ UNCHANGED <<tvVars, replies>>

ReadEnd ==
  /\ loop = "reading"
  /\ eventClosed
  /\ loop' = "ended"
  /\ UNCHANGED <<tvVars, net, buf, replies>>

Drain == buf' = SubSeq(buf, Total + 1, Len(buf))

\* A write to a closed connection may still succeed.
Answer ==
  /\ loop = "parsing"
  /\ Complete
  /\ MayHaveMeta
  /\ Drain
  /\ replies' = Append(replies, Cseq)
  /\ UNCHANGED <<tvVars, net, loop>>

WriteFails ==
  /\ loop = "parsing"
  /\ Complete
  /\ MayHaveMeta
  /\ eventClosed
  /\ loop' = "ended"
  /\ UNCHANGED <<tvVars, net, buf, replies>>

\* What is not UTF-8, or has no request line, is dropped.
Skip ==
  /\ loop = "parsing"
  /\ Complete
  /\ MayLackMeta
  /\ Drain
  /\ UNCHANGED <<tvVars, net, loop, replies>>

ReadMore ==
  /\ loop = "parsing"
  /\ ~Complete
  /\ Len(buf) <= Limit
  /\ loop' = "reading"
  /\ UNCHANGED <<tvVars, net, buf, replies>>

\* What may be left of a piece of which a part is gone: nothing the parsers
\* know, and of other bytes UTF-8 or not.
Rests(u) == {[u EXCEPT !.kind = k] :
               k \in IF u.kind \in {"text", "binary"} THEN {"text", "binary"} ELSE {"text"}}

\* Nothing complete is left, and what is left is longer than 64 KiB: it is thrown
\* away, and with it the part of the next piece that has been read.
Clear ==
  /\ loop = "parsing"
  /\ ~Complete
  /\ Len(buf) > Limit
  /\ buf' = <<>>
  /\ \/ UNCHANGED net
     \/ net # <<>> /\ \E u \in Rests(net[1]) : net' = [net EXCEPT ![1] = u]
  /\ loop' = "reading"
  /\ UNCHANGED <<tvVars, replies>>

EventLoop == Read \/ ReadEnd \/ Answer \/ WriteFails \/ Skip \/ ReadMore \/ Clear

EventNext == TvRequests \/ TvClosesEvents \/ EventLoop

\* The TV sends every request to its end unless it closes, and the task is polled
\* when the socket is readable.
EventFairness == WF_eventVars(EventLoop)

EventSpec == EventInit /\ [][EventNext]_eventVars /\ EventFairness

(***************************************************************************)
(* Properties.                                                             *)
(***************************************************************************)

\* Types of the variables.
EventTypeOK ==
  /\ requests \in Seq(Requests) /\ Len(requests) <= MaxRequests
  /\ net \in Seq(Units)
  /\ eventClosed \in BOOLEAN
  /\ loop \in {"reading", "parsing", "ended"}
  /\ buf \in Seq(Units)
  /\ replies \in Seq(Nat)

\* All requests so far fit in 64 KiB, head and body.
Fits == \A n \in DOMAIN requests : Size(requests[n]) <= Limit

Holds(n, kind) == \E i \in DOMAIN requests[n].body : requests[n].body[i].kind = kind
IsText(n) == ~Holds(n, "binary")

\* As long as the requests fit in 64 KiB, whatever their bodies hold and however
\* they are pipelined and cut by reads: every answer has the CSeq of a request,
\* in order and each once; none is given before all of the request has come; and
\* none that is UTF-8 is passed over.  (Binary bodies are.)
AnswersInOrder ==
  Fits =>
    /\ \A i \in DOMAIN replies : replies[i] \in DOMAIN requests
    /\ \A i, j \in DOMAIN replies : i < j => replies[i] < replies[j]
    /\ \A i \in DOMAIN replies, j \in DOMAIN net : replies[i] < net[j].of
    /\ \A i \in DOMAIN replies, n \in DOMAIN requests :
         n < replies[i] /\ IsText(n) => Contains(replies, n)

\* Longer ones are cleared, and what comes behind the clearing is taken for a
\* request although it is the rest of one: it is answered with CSeq 0, or with its
\* own before its body has come.  Even so no CSeq is answered twice or out of
\* order, unless a body has a line with CSeq itself.
NoneTwice ==
  (\A n \in DOMAIN requests : ~Holds(n, "cseq")) =>
    \A i, j \in DOMAIN replies :
      i < j /\ replies[i] # 0 /\ replies[j] # 0 => replies[i] < replies[j]

\* Types, and the order of answers.
EventInv == EventTypeOK /\ AnswersInOrder /\ NoneTwice

Answered(n) == Contains(replies, n) \/ eventClosed

\* Requests that are UTF-8 and fit in 64 KiB.
Modest == Fits /\ \A n \in DOMAIN requests : IsText(n)

\* Requests that are UTF-8 and not too long are all answered, however they are
\* pipelined and cut by reads, unless the connection ends.
ModestRequestsAnswered ==
  []Modest => \A n \in 1..MaxRequests : (Len(requests) = n) ~> Answered(n)

\* Every request is answered or the connection ends: silence causes a reset.
EveryRequestAnswered ==
  \A n \in 1..MaxRequests : (Len(requests) = n) ~> Answered(n)
=============================================================================
