------------------------- MODULE MirrorTasksProofs -------------------------
(***************************************************************************)
(* Proofs about MirrorTasks, for every modulus of CSeq.                    *)
(***************************************************************************)
EXTENDS MirrorTasks, SequenceTheorems, TLAPS

(***************************************************************************)
(* The queue of the Mutex.                                                 *)
(***************************************************************************)
\* Appending somebody who is not in a queue.
LEMMA AppendQueue ==
  ASSUME NEW S, NEW q \in Seq(S), NEW e \in S,
         \A i, j \in DOMAIN q : q[i] = q[j] => i = j,
         \A i \in DOMAIN q : q[i] # e
  PROVE  /\ Append(q, e) \in Seq(S)
         /\ \A i, j \in DOMAIN Append(q, e) : Append(q, e)[i] = Append(q, e)[j] => i = j
         /\ \A l : (\E i \in DOMAIN Append(q, e) : Append(q, e)[i] = l)
                     <=> l = e \/ \E i \in DOMAIN q : q[i] = l
         /\ q # <<>> => Append(q, e) # <<>> /\ Head(Append(q, e)) = Head(q)
<1>1. /\ Append(q, e) \in Seq(S)
      /\ Len(Append(q, e)) = Len(q) + 1
      /\ \A i \in 1..Len(q) : Append(q, e)[i] = q[i]
      /\ Append(q, e)[Len(q) + 1] = e
  BY AppendProperties
<1>2. DOMAIN q = 1..Len(q) /\ Len(q) \in Nat /\ DOMAIN Append(q, e) = 1..(Len(q) + 1)
  BY <1>1, LenProperties
<1>3. \A i, j \in DOMAIN Append(q, e) : Append(q, e)[i] = Append(q, e)[j] => i = j
  <2> SUFFICES ASSUME NEW i \in 1..(Len(q) + 1), NEW j \in 1..(Len(q) + 1),
                      Append(q, e)[i] = Append(q, e)[j]
               PROVE  i = j
    BY <1>2
  <2>1. CASE i \in 1..Len(q) /\ j \in 1..Len(q)
    BY <2>1, <1>1, <1>2
  <2>2. CASE i = Len(q) + 1 /\ j \in 1..Len(q)
    BY <2>2, <1>1, <1>2
  <2>3. CASE i \in 1..Len(q) /\ j = Len(q) + 1
    BY <2>3, <1>1, <1>2
  <2>4. CASE i = Len(q) + 1 /\ j = Len(q) + 1
    BY <2>4
  <2> QED
    BY <2>1, <2>2, <2>3, <2>4, <1>2
<1>4. \A l : (\E i \in DOMAIN Append(q, e) : Append(q, e)[i] = l)
               <=> l = e \/ \E i \in DOMAIN q : q[i] = l
  <2> TAKE l
  <2>1. ASSUME NEW i \in 1..(Len(q) + 1), Append(q, e)[i] = l
        PROVE  l = e \/ \E k \in DOMAIN q : q[k] = l
    BY <2>1, <1>1, <1>2
  <2>2. l = e => \E i \in DOMAIN Append(q, e) : Append(q, e)[i] = l
    BY <1>1, <1>2
  <2>3. ASSUME NEW i \in DOMAIN q, q[i] = l
        PROVE  \E k \in DOMAIN Append(q, e) : Append(q, e)[k] = l
    BY <2>3, <1>1, <1>2
  <2> QED
    BY <2>1, <2>2, <2>3, <1>2
<1>5. q # <<>> => Append(q, e) # <<>> /\ Head(Append(q, e)) = Head(q)
  BY <1>1, <1>2, HeadTailAppend, EmptySeq
<1> QED
  BY <1>1, <1>3, <1>4, <1>5

\* Releasing the lock: its holder leaves the queue.
LEMMA TailQueue ==
  ASSUME NEW S, NEW q \in Seq(S), q # <<>>,
         \A i, j \in DOMAIN q : q[i] = q[j] => i = j
  PROVE  /\ Tail(q) \in Seq(S)
         /\ \A i, j \in DOMAIN Tail(q) : Tail(q)[i] = Tail(q)[j] => i = j
         /\ \A l : (\E i \in DOMAIN Tail(q) : Tail(q)[i] = l)
                     <=> l # Head(q) /\ \E i \in DOMAIN q : q[i] = l
<1>1. /\ Tail(q) \in Seq(S)
      /\ Head(q) = q[1]
      /\ Len(Tail(q)) = Len(q) - 1
      /\ \A i \in 1..Len(Tail(q)) : Tail(q)[i] = q[i + 1]
  BY HeadTailProperties
<1>2. /\ DOMAIN q = 1..Len(q) /\ Len(q) \in Nat /\ Len(q) > 0
      /\ DOMAIN Tail(q) = 1..(Len(q) - 1)
  BY <1>1, LenProperties, EmptySeq
<1>3. \A i, j \in DOMAIN Tail(q) : Tail(q)[i] = Tail(q)[j] => i = j
  BY <1>1, <1>2
<1>4. \A l : (\E i \in DOMAIN Tail(q) : Tail(q)[i] = l)
               <=> l # Head(q) /\ \E i \in DOMAIN q : q[i] = l
  <2> TAKE l
  <2>1. ASSUME NEW i \in 1..(Len(q) - 1), Tail(q)[i] = l
        PROVE  l # Head(q) /\ \E k \in DOMAIN q : q[k] = l
    <3>1. i + 1 \in 1..Len(q) /\ i + 1 # 1 /\ q[i + 1] = l
      BY <2>1, <1>1, <1>2
    <3>2. q[i + 1] # q[1]
      BY <3>1, <1>2
    <3> QED
      BY <3>1, <3>2, <1>1, <1>2
  <2>2. ASSUME NEW i \in 1..Len(q), q[i] = l, l # Head(q)
        PROVE  \E k \in DOMAIN Tail(q) : Tail(q)[k] = l
    <3>1. i # 1
      BY <2>2, <1>1
    <3>2. i - 1 \in 1..(Len(q) - 1) /\ (i - 1) + 1 = i
      BY <3>1, <1>2
    <3>3. Tail(q)[i - 1] = q[i]
      BY <3>2, <1>1, <1>2
    <3> QED
      BY <3>2, <3>3, <2>2, <1>2
  <2> QED
    BY <2>1, <2>2, <1>2
<1> QED
  BY <1>1, <1>3, <1>4

\* A sequence by its elements, with its first one taken off.
LEMMA TailElements ==
  ASSUME NEW S, NEW q \in Seq(S), q # <<>>
  PROVE  /\ Tail(q) \in Seq(S)
         /\ Head(q) = q[1] /\ q[1] \in S
         /\ Len(q) \in Nat /\ Len(q) >= 1 /\ DOMAIN q = 1..Len(q)
         /\ Len(Tail(q)) = Len(q) - 1 /\ DOMAIN Tail(q) = 1..(Len(q) - 1)
         /\ \A i \in DOMAIN Tail(q) : Tail(q)[i] = q[i + 1]
<1>1. /\ Tail(q) \in Seq(S)
      /\ Head(q) = q[1]
      /\ Len(Tail(q)) = Len(q) - 1
      /\ \A i \in 1..Len(Tail(q)) : Tail(q)[i] = q[i + 1]
  BY HeadTailProperties
<1>2. /\ DOMAIN q = 1..Len(q) /\ Len(q) \in Nat /\ Len(q) > 0
      /\ DOMAIN Tail(q) = 1..(Len(q) - 1)
  BY <1>1, LenProperties, EmptySeq
<1>3. q[1] \in S
  BY <1>2, ElementOfSeq
<1> QED
  BY <1>1, <1>2, <1>3

\* The length of a sequence tells whether it is empty.
LEMMA Lengths ==
  ASSUME NEW S, NEW q \in Seq(S)
  PROVE  /\ Len(q) \in Nat /\ DOMAIN q = 1..Len(q)
         /\ (q = <<>>) <=> (Len(q) = 0)
  BY LenProperties, EmptySeq

(***************************************************************************)
(* The invariant.                                                          *)
(***************************************************************************)
LEMMA InitIInv == Init => TasksInv
<1> SUFFICES ASSUME Init PROVE TasksInv
  OBVIOUS
<1>1. TypeOK
  <2>1. 0 \in 0..CSeqs-1
    BY CSeqsAssumption
  <2> QED
    BY <2>1, EmptySeq DEF Init, TypeOK, Awaits
<1>2. \A t \in Keepalives : task[t] = "gate"
  BY DEF Init, Subscribers
<1>3. OneExchange /\ QueueSound
  BY <1>2, EmptySeq DEF Init, OneExchange, QueueSound, Exchanging, Queued
<1>4. WireSound
  BY <1>2, EmptySeq DEF Init, WireSound, InStep, Exchanging, AtMostLeftover
<1> QED
  BY <1>1, <1>3, <1>4 DEF TasksInv

\* While one keepalive holds the connection no other has a request out.
LEMMA HolderAlone ==
  ASSUME TasksInv, NEW t \in Keepalives, Holds(t)
  PROVE  \A u \in Keepalives : Exchanging(u) => u = t
  BY DEF TasksInv, OneExchange, Holds

\* Whoever is first in the queue is in it, and it is nobody else's turn.
LEMMA HolderQueued ==
  ASSUME TypeOK, NEW l, Holds(l)
  PROVE  lockQueue # <<>> /\ Head(lockQueue) = l /\ Queued(l)
<1>1. lockQueue # <<>> /\ lockQueue \in Seq(Lockers)
  BY DEF TypeOK, Holds
<1>2. Head(lockQueue) = lockQueue[1] /\ 1 \in DOMAIN lockQueue
  BY <1>1, TailElements
<1> QED
  BY <1>1, <1>2 DEF Holds, Queued

\* When the holder leaves, the connection is free or the next one's.
LEMMA Released ==
  ASSUME TasksInv, NEW t \in Keepalives, Holds(t), NEW ends \in BOOLEAN, Release(t, ends),
         main' = main
  PROVE  /\ task' \in [Subscribers -> Awaits]
         /\ lockQueue' \in Seq(Lockers)
         /\ \A u \in Keepalives : ~Exchanging(u)'
         /\ QueueSound'
<1>1. /\ lockQueue # <<>> /\ Head(lockQueue) = t /\ lockQueue \in Seq(Lockers)
      /\ \A i, j \in DOMAIN lockQueue : lockQueue[i] = lockQueue[j] => i = j
  BY HolderQueued DEF TasksInv, TypeOK, QueueSound
<1>2. lockQueue' = Tail(lockQueue)
  BY DEF Release
<1>3. /\ lockQueue' \in Seq(Lockers)
      /\ \A i, j \in DOMAIN lockQueue' : lockQueue'[i] = lockQueue'[j] => i = j
      /\ \A l : Queued(l)' <=> l # t /\ Queued(l)
  <2> DEFINE rest == Tail(lockQueue)
  <2>1. /\ rest \in Seq(Lockers)
        /\ \A i, j \in DOMAIN rest : rest[i] = rest[j] => i = j
        /\ \A l : (\E i \in DOMAIN rest : rest[i] = l)
                    <=> l # Head(lockQueue) /\ \E i \in DOMAIN lockQueue : lockQueue[i] = l
    BY <1>1, TailQueue, Zenon
  <2>2. lockQueue' = rest
    BY <1>2
  <2> HIDE DEF rest
  <2> QED
    BY <1>1, <2>1, <2>2 DEF Queued
<1>4. task' = [task EXCEPT ![t] = IF ends THEN "ended" ELSE "due"]
  BY DEF Release, Goto
<1>5. task' \in [Subscribers -> Awaits]
  BY <1>4 DEF TasksInv, TypeOK, Awaits
<1>6. task'[t] \in {"ended", "due"} /\ \A u \in Keepalives : u # t => task'[u] = task[u]
  BY <1>4 DEF TasksInv, TypeOK, Subscribers
<1>7. \A u \in Keepalives : ~Exchanging(u)'
  BY <1>6, HolderAlone DEF Exchanging
<1>8. QueueSound'
  <2>1. \A u \in Keepalives : Queued(u)' <=> task'[u] = "lock" \/ Exchanging(u)'
    BY <1>3, <1>6, <1>7 DEF TasksInv, QueueSound, Exchanging
  <2>2. Queued("main")' <=> main' = "locking"
    BY <1>3 DEF TasksInv, QueueSound, Keepalives
  <2> QED
    BY <1>3, <2>1, <2>2 DEF QueueSound
<1> QED
  BY <1>3, <1>5, <1>7, <1>8

\* Who has given up never asks again, so what he has left stays so.
LEMMA GivenUpStays ==
  ASSUME \A u \in Keepalives : task[u] = "ended" => task'[u] = "ended" /\ awaited'[u] = awaited[u]
  PROVE  GivenUp \subseteq GivenUp'
<1> SUFFICES ASSUME NEW c \in GivenUp PROVE c \in GivenUp'
  OBVIOUS
<1>1. PICK u \in Keepalives : task[u] = "ended" /\ c = awaited[u]
  BY DEF GivenUp
<1>2. task'[u] = "ended" /\ c = awaited'[u]
  BY <1>1
<1> QED
  BY <1>2 DEF GivenUp

\* What is on an untouched connection keeps its place in the exchange.
LEMMA WireStays ==
  ASSUME UNCHANGED connVars, GivenUp \subseteq GivenUp'
  PROVE  /\ AtMostLeftover => AtMostLeftover'
         /\ Asked => Asked'
         /\ AnsweredAt(1) => AnsweredAt(1)'
         /\ AnsweredAt(2) => AnsweredAt(2)'
         /\ BodyToCome => BodyToCome'
<1>1. AtMostLeftover => AtMostLeftover'
  BY DEF AtMostLeftover, IsLeftover, connVars
<1>2. AnsweredAt(1) => AnsweredAt(1)'
  BY DEF AnsweredAt, IsBody, IsLeftover, connVars
<1>3. AnsweredAt(2) => AnsweredAt(2)'
  BY DEF AnsweredAt, IsBody, IsLeftover, connVars
<1> QED
  BY <1>1, <1>2, <1>3 DEF Asked, BodyToCome, IsBody, connVars

\* The same when the same keepalives are in the same part of an exchange.
LEMMA WireUntouched ==
  ASSUME TasksInv, UNCHANGED connVars,
         \A t \in Keepalives : /\ task[t] = "ended" => task'[t] = "ended"
                               /\ Exchanging(t) \/ Exchanging(t)' => task'[t] = task[t]
  PROVE  WireSound'
<1>1. \A t \in Keepalives : Exchanging(t)' <=> Exchanging(t)
  BY DEF Exchanging
<1>2. GivenUp \subseteq GivenUp'
  BY GivenUpStays DEF connVars
<1>3. /\ AtMostLeftover => AtMostLeftover'
      /\ Asked => Asked'
      /\ AnsweredAt(1) => AnsweredAt(1)'
      /\ AnsweredAt(2) => AnsweredAt(2)'
      /\ BodyToCome => BodyToCome'
  BY <1>2, WireStays
<1>4. \A t \in Keepalives : task'[t] \in {"head", "body", "body400"} => task[t] = task'[t]
  BY DEF Exchanging
<1>5. astray => GivenUp' # {} /\ inbox = <<>> /\ owed = <<>> /\ stream = <<>>
  BY <1>2 DEF TasksInv, WireSound
<1>6. InStep => InStep'
  <2> SUFFICES ASSUME InStep PROVE InStep'
    OBVIOUS
  <2>1. \A t \in Keepalives : task'[t] = "head" => Asked' \/ AnsweredAt(1)' \/ AnsweredAt(2)'
    BY <1>3, <1>4 DEF InStep
  <2>2. \A t \in Keepalives : task'[t] \in {"body", "body400"} => BodyToCome'
    BY <1>3, <1>4 DEF InStep
  <2>3. (\A t \in Keepalives : ~Exchanging(t)') => AtMostLeftover' /\ (inbox' = <<>> \/ closed')
    BY <1>1, <1>3 DEF InStep, connVars
  <2>4. \A i \in DOMAIN owed' : owed'[i].part = "body"
    BY DEF InStep, connVars
  <2> QED
    BY <2>1, <2>2, <2>3, <2>4 DEF InStep
<1>7. /\ \A t \in Keepalives : Exchanging(t)' => awaited'[t] = cseq'
      /\ astray' = astray /\ inbox' = inbox /\ owed' = owed /\ stream' = stream
  BY <1>1 DEF TasksInv, WireSound, connVars
<1> QED
  BY <1>5, <1>6, <1>7 DEF TasksInv, WireSound

\* Steps that touch neither the connection nor who waits for it.
LEMMA Elsewhere ==
  ASSUME TasksInv, TypeOK', UNCHANGED <<lockQueue, connVars>>,
         \A t \in Keepalives : /\ task'[t] = "lock" <=> task[t] = "lock"
                               /\ task[t] = "ended" => task'[t] = "ended"
                               /\ Exchanging(t) \/ Exchanging(t)' => task'[t] = task[t],
         main' = "locking" <=> main = "locking"
  PROVE  TasksInv'
<1>1. \A t \in Keepalives : /\ Exchanging(t)' <=> Exchanging(t)
                            /\ Exchanging(t) => task'[t] = task[t]
  BY DEF Exchanging
<1>2. OneExchange'
  BY <1>1 DEF TasksInv, OneExchange, Holds, connVars
<1>3. QueueSound'
  BY <1>1 DEF TasksInv, QueueSound, Queued
<1>4. WireSound'
  BY WireUntouched
<1> QED
  BY <1>2, <1>3, <1>4 DEF TasksInv

\* The first picture, the relay and the gates.
LEMMA SignalStep ==
  ASSUME TasksInv, FirstPicture \/ Relay \/ (\E t \in Subscribers : GateOpens(t)) \/ StreamFails
  PROVE  TasksInv'
<1>1. CASE FirstPicture
  <2>1. TypeOK'
    BY <1>1 DEF TasksInv, TypeOK, FirstPicture, connVars
  <2> QED
    BY <1>1, <2>1, Elsewhere DEF FirstPicture
<1>2. CASE Relay
  <2>1. TypeOK'
    BY <1>2 DEF TasksInv, TypeOK, Relay, connVars
  <2> QED
    BY <1>2, <2>1, Elsewhere DEF Relay
<1>3. ASSUME NEW t \in Subscribers, GateOpens(t)
      PROVE  TasksInv'
  <2>1. task' = [task EXCEPT ![t] = "due"] /\ task[t] = "gate"
    BY <1>3 DEF GateOpens, Goto
  <2>2. TypeOK'
    BY <1>3, <2>1 DEF TasksInv, TypeOK, GateOpens, connVars, Awaits
  <2>3. task'[t] = "due" /\ \A u \in Subscribers : u # t => task'[u] = task[u]
    BY <2>1 DEF TasksInv, TypeOK
  <2>4. \A u \in Keepalives : /\ task'[u] = "lock" <=> task[u] = "lock"
                              /\ task[u] = "ended" => task'[u] = "ended"
                              /\ Exchanging(u) \/ Exchanging(u)' => task'[u] = task[u]
    BY <2>1, <2>3 DEF Exchanging, Subscribers
  <2> QED
    BY <1>3, <2>2, <2>4, Elsewhere DEF GateOpens
<1>4. CASE StreamFails
  <2>1. TypeOK'
    BY <1>4 DEF TasksInv, TypeOK, StreamFails, DropSignal, connVars
  <2> QED
    BY <1>4, <2>1, Elsewhere DEF StreamFails
<1> QED
  BY <1>1, <1>2, <1>3, <1>4

\* Somebody joins the queue; the exchange under way is not disturbed.
LEMMA JoinQueue ==
  ASSUME TasksInv, NEW l \in Lockers, ~Queued(l), lockQueue' = Append(lockQueue, l)
  PROVE  /\ lockQueue' \in Seq(Lockers)
         /\ \A i, j \in DOMAIN lockQueue' : lockQueue'[i] = lockQueue'[j] => i = j
         /\ \A k : Queued(k)' <=> k = l \/ Queued(k)
         /\ \A k : Holds(k) => Holds(k)'
<1> DEFINE q == Append(lockQueue, l)
<1>1. /\ lockQueue \in Seq(Lockers)
      /\ \A i, j \in DOMAIN lockQueue : lockQueue[i] = lockQueue[j] => i = j
      /\ \A i \in DOMAIN lockQueue : lockQueue[i] # l
  BY DEF TasksInv, TypeOK, QueueSound, Queued
<1>2. /\ q \in Seq(Lockers)
      /\ \A i, j \in DOMAIN q : q[i] = q[j] => i = j
      /\ \A k : (\E i \in DOMAIN q : q[i] = k)
                  <=> k = l \/ \E i \in DOMAIN lockQueue : lockQueue[i] = k
      /\ lockQueue # <<>> => q # <<>> /\ Head(q) = Head(lockQueue)
  BY <1>1, AppendQueue, Zenon
<1>3. lockQueue' = q
  OBVIOUS
<1> HIDE DEF q
<1> QED
  BY <1>2, <1>3 DEF Queued, Holds

LEMMA LockStep ==
  ASSUME TasksInv, NEW t \in Keepalives, Lock(t)
  PROVE  TasksInv'
<1>1. /\ task[t] = "due" /\ task' = [task EXCEPT ![t] = "lock"]
      /\ lockQueue' = Append(lockQueue, t)
      /\ UNCHANGED <<main, signal, relay, connVars>>
  BY DEF Lock, Goto
<1>2. ~Queued(t)
  BY <1>1 DEF TasksInv, QueueSound, Exchanging
<1>3. /\ lockQueue' \in Seq(Lockers)
      /\ \A i, j \in DOMAIN lockQueue' : lockQueue'[i] = lockQueue'[j] => i = j
      /\ \A k : Queued(k)' <=> k = t \/ Queued(k)
      /\ \A k : Holds(k) => Holds(k)'
  BY <1>1, <1>2, JoinQueue DEF Lockers
<1>4. TypeOK'
  BY <1>1, <1>3 DEF TasksInv, TypeOK, connVars, Awaits
<1>5. task'[t] = "lock" /\ \A u \in Keepalives : u # t => task'[u] = task[u]
  BY <1>1 DEF TasksInv, TypeOK, Subscribers
<1>6. \A u \in Keepalives : Exchanging(u)' <=> Exchanging(u)
  BY <1>1, <1>5 DEF Exchanging
<1>7. OneExchange'
  BY <1>1, <1>3, <1>6 DEF TasksInv, OneExchange, connVars
<1>8. QueueSound'
  <2>1. \A u \in Keepalives : Queued(u)' <=> task'[u] = "lock" \/ Exchanging(u)'
    BY <1>3, <1>5, <1>6 DEF TasksInv, QueueSound
  <2>2. Queued("main")' <=> main' = "locking"
    BY <1>1, <1>3 DEF TasksInv, QueueSound, Keepalives
  <2> QED
    BY <1>3, <2>1, <2>2 DEF QueueSound
<1>9. WireSound'
  <2>1. \A u \in Keepalives : /\ task[u] = "ended" => task'[u] = "ended"
                              /\ Exchanging(u) \/ Exchanging(u)' => task'[u] = task[u]
    BY <1>1, <1>5, <1>6 DEF Exchanging
  <2> QED
    BY <1>1, <2>1, WireUntouched
<1> QED
  BY <1>4, <1>7, <1>8, <1>9 DEF TasksInv

LEMMA StreamEndsStep ==
  ASSUME TasksInv, StreamEnds
  PROVE  TasksInv'
<1>1. /\ main = "streaming" /\ main' = "locking"
      /\ lockQueue' = Append(lockQueue, "main")
      /\ UNCHANGED <<relay, task, connVars>>
  BY DEF StreamEnds
<1>2. ~Queued("main")
  BY <1>1 DEF TasksInv, QueueSound
<1>3. /\ lockQueue' \in Seq(Lockers)
      /\ \A i, j \in DOMAIN lockQueue' : lockQueue'[i] = lockQueue'[j] => i = j
      /\ \A k : Queued(k)' <=> k = "main" \/ Queued(k)
      /\ \A k : Holds(k) => Holds(k)'
  BY <1>1, <1>2, JoinQueue DEF Lockers
<1>4. TypeOK'
  BY <1>1, <1>3 DEF TasksInv, TypeOK, connVars, StreamEnds, DropSignal
<1>5. \A u \in Keepalives : Exchanging(u)' <=> Exchanging(u)
  BY <1>1 DEF Exchanging
<1>6. OneExchange'
  BY <1>1, <1>3, <1>5 DEF TasksInv, OneExchange, connVars
<1>7. QueueSound'
  <2>1. \A u \in Keepalives : Queued(u)' <=> task'[u] = "lock" \/ Exchanging(u)'
    BY <1>1, <1>3, <1>5 DEF TasksInv, QueueSound, Keepalives
  <2> QED
    BY <1>1, <1>3, <2>1 DEF QueueSound
<1>8. WireSound'
  BY <1>1, WireUntouched
<1> QED
  BY <1>4, <1>6, <1>7, <1>8 DEF TasksInv

LEMMA ReturnStep ==
  ASSUME TasksInv, Return
  PROVE  TasksInv'
<1>1. /\ main = "locking" /\ main' = "returned" /\ Holds("main")
      /\ lockQueue' = Tail(lockQueue)
      /\ UNCHANGED <<signal, relay, task, connVars>>
  BY DEF Return
<1>2. \A u \in Keepalives : ~Exchanging(u)
  BY <1>1 DEF TasksInv, OneExchange, Holds, Keepalives
<1>3. /\ lockQueue' \in Seq(Lockers)
      /\ \A i, j \in DOMAIN lockQueue' : lockQueue'[i] = lockQueue'[j] => i = j
      /\ \A k : Queued(k)' <=> k # "main" /\ Queued(k)
  <2> DEFINE rest == Tail(lockQueue)
  <2>1. /\ lockQueue # <<>> /\ Head(lockQueue) = "main" /\ lockQueue \in Seq(Lockers)
        /\ \A i, j \in DOMAIN lockQueue : lockQueue[i] = lockQueue[j] => i = j
    BY <1>1, HolderQueued DEF TasksInv, TypeOK, QueueSound
  <2>2. /\ rest \in Seq(Lockers)
        /\ \A i, j \in DOMAIN rest : rest[i] = rest[j] => i = j
        /\ \A l : (\E i \in DOMAIN rest : rest[i] = l)
                    <=> l # Head(lockQueue) /\ \E i \in DOMAIN lockQueue : lockQueue[i] = l
    BY <2>1, TailQueue, Zenon
  <2>3. lockQueue' = rest
    BY <1>1
  <2> HIDE DEF rest
  <2> QED
    BY <2>1, <2>2, <2>3 DEF Queued
<1>4. TypeOK'
  BY <1>1, <1>3 DEF TasksInv, TypeOK, connVars
<1>5. \A u \in Keepalives : ~Exchanging(u)'
  BY <1>1, <1>2 DEF Exchanging
<1>6. OneExchange'
  BY <1>1, <1>5 DEF TasksInv, OneExchange, connVars
<1>7. QueueSound'
  <2>1. \A u \in Keepalives : Queued(u)' <=> task'[u] = "lock" \/ Exchanging(u)'
    BY <1>1, <1>2, <1>3, <1>5 DEF TasksInv, QueueSound, Keepalives
  <2> QED
    BY <1>1, <1>3, <2>1 DEF QueueSound
<1>8. WireSound'
  BY <1>1, WireUntouched
<1> QED
  BY <1>4, <1>6, <1>7, <1>8 DEF TasksInv

(***************************************************************************)
(* The connection.                                                         *)
(***************************************************************************)
LEMMA SendStep ==
  ASSUME TasksInv, NEW t \in Keepalives, SendRequest(t)
  PROVE  TasksInv'
<1>1. /\ task[t] = "lock" /\ Holds(t)
      /\ cseq' = (cseq + 1) % CSeqs /\ awaited' = [awaited EXCEPT ![t] = cseq']
      /\ UNCHANGED <<main, signal, relay, owed, stream, closed, astray>>
  BY DEF SendRequest
<1>2. \A u \in Keepalives : ~Exchanging(u)
  BY <1>1, HolderAlone DEF Exchanging
<1>3. /\ ~astray => /\ AtMostLeftover /\ (inbox = <<>> \/ closed)
                    /\ \A i \in DOMAIN owed : owed[i].part = "body"
      /\ astray => GivenUp # {} /\ inbox = <<>> /\ owed = <<>> /\ stream = <<>>
  BY <1>2 DEF TasksInv, WireSound, InStep
<1>4. /\ cseq' \in 0..CSeqs-1 /\ awaited' \in [Keepalives -> 0..CSeqs-1] /\ awaited'[t] = cseq'
      /\ \A u \in Keepalives : u # t => awaited'[u] = awaited[u]
  <2>1. (cseq + 1) % CSeqs \in 0..CSeqs-1
    BY CSeqsAssumption DEF TasksInv, TypeOK
  <2> QED
    BY <1>1, <2>1 DEF TasksInv, TypeOK
<1>5. ASSUME \A u \in Keepalives : u # t => task'[u] = task[u]
      PROVE  GivenUp \subseteq GivenUp' /\ (AtMostLeftover => AtMostLeftover')
  <2>1. \A u \in Keepalives : task[u] = "ended" => task'[u] = "ended" /\ awaited'[u] = awaited[u]
    BY <1>1, <1>4, <1>5
  <2>2. GivenUp \subseteq GivenUp'
    BY <2>1, GivenUpStays
  <2> QED
    BY <1>1, <2>2 DEF AtMostLeftover, IsLeftover
<1>6. CASE closed
  <2>1. Release(t, TRUE) /\ UNCHANGED inbox
    BY <1>6 DEF SendRequest, Release
  <2>2. /\ task' \in [Subscribers -> Awaits]
        /\ lockQueue' \in Seq(Lockers)
        /\ \A u \in Keepalives : ~Exchanging(u)'
        /\ QueueSound'
    BY <1>1, <2>1, Released
  <2>3. TypeOK'
    BY <1>1, <1>4, <2>1, <2>2 DEF TasksInv, TypeOK
  <2>4. OneExchange'
    BY <2>1, <2>2 DEF TasksInv, OneExchange
  <2>5. WireSound'
    <3>1. \A u \in Keepalives : task'[u] \notin {"head", "body", "body400"}
      BY <2>2 DEF Exchanging
    <3>2. \A u \in Keepalives : u # t => task'[u] = task[u]
      BY <2>1 DEF Release, Goto, TasksInv, TypeOK, Subscribers
    <3>3. ~astray => InStep'
      BY <1>1, <1>3, <1>5, <1>6, <2>1, <3>1, <3>2 DEF InStep
    <3>4. astray => GivenUp' # {} /\ inbox' = <<>> /\ owed' = <<>> /\ stream' = <<>>
      BY <1>1, <1>3, <1>5, <2>1, <3>2
    <3> QED
      BY <1>1, <2>2, <3>3, <3>4 DEF WireSound
  <2> QED
    BY <2>2, <2>3, <2>4, <2>5 DEF TasksInv
<1>7. CASE ~closed
  <2>1. /\ task' = [task EXCEPT ![t] = "head"] /\ UNCHANGED lockQueue
        /\ inbox' = IF astray THEN inbox ELSE Append(inbox, cseq')
    BY <1>7 DEF SendRequest, Goto
  <2>2. inbox = <<>>
    BY <1>3, <1>7
  <2>3. inbox' = IF astray THEN <<>> ELSE <<cseq'>>
    BY <2>1, <2>2, <1>4, AppendProperties
  <2>4. inbox' \in Seq(0..CSeqs-1) /\ Len(inbox') <= 1
    <3>1. CASE astray
      BY <2>3, <3>1, EmptySeq
    <3>2. CASE ~astray
      BY <2>3, <3>2, <1>4
    <3> QED
      BY <3>1, <3>2
  <2>5. task'[t] = "head" /\ \A u \in Keepalives : u # t => task'[u] = task[u]
    BY <2>1 DEF TasksInv, TypeOK, Subscribers
  <2>6. TypeOK'
    BY <1>1, <1>4, <2>1, <2>4 DEF TasksInv, TypeOK, Awaits
  <2>7. \A u \in Keepalives : Exchanging(u)' <=> u = t
    BY <1>2, <2>5 DEF Exchanging
  <2>8. OneExchange'
    BY <1>1, <2>1, <2>4, <2>7 DEF OneExchange, Holds
  <2>9. QueueSound'
    <3>1. \A u \in Keepalives : Queued(u)' <=> task'[u] = "lock" \/ Exchanging(u)'
      BY <1>1, <2>1, <2>5, <2>7, <1>2 DEF TasksInv, QueueSound, Queued
    <3> QED
      BY <1>1, <2>1, <3>1 DEF TasksInv, QueueSound, Queued
  <2>10. ~astray => Asked'
    BY <2>3, <2>5, <1>3, <1>5 DEF Asked
  <2>11. WireSound'
    <3>1. \A u \in Keepalives : task'[u] \in {"body", "body400"} => FALSE
      BY <2>5, <2>7, <1>2 DEF Exchanging
    <3>2. \A u \in Keepalives : Exchanging(u)' => awaited'[u] = cseq'
      BY <1>4, <2>7
    <3>3. ~astray => \A i \in DOMAIN owed' : owed'[i].part = "body"
      BY <1>1, <1>3
    <3>4. ~\A u \in Keepalives : ~Exchanging(u)'
      BY <2>7
    <3>5. ~astray => InStep'
      BY <2>10, <3>1, <3>3, <3>4 DEF InStep
    <3>6. astray => GivenUp' # {} /\ inbox' = <<>> /\ owed' = <<>> /\ stream' = <<>>
      BY <1>1, <1>3, <1>5, <2>3, <2>5
    <3> QED
      BY <1>1, <3>2, <3>5, <3>6 DEF WireSound
  <2> QED
    BY <2>6, <2>8, <2>9, <2>11 DEF TasksInv
<1> QED
  BY <1>6, <1>7

\* Whatever the holder does next, what others have left stays left.
LEMMA LeftStays ==
  ASSUME TasksInv, NEW t \in Keepalives, Exchanging(t), NEW await, Goto(t, await), UNCHANGED awaited
  PROVE  GivenUp \subseteq GivenUp'
<1>1. \A u \in Keepalives : u # t => task'[u] = task[u]
  BY DEF Goto, TasksInv, TypeOK, Subscribers
<1>2. task[t] # "ended"
  BY DEF Exchanging
<1> QED
  BY <1>1, <1>2, GivenUpStays

\* What follows of the wire once an exchange has ended, whatever is left of it.
LEMMA ExchangeEnds ==
  ASSUME TasksInv, NEW t \in Keepalives, Exchanging(t), NEW ends \in BOOLEAN, Release(t, ends),
         UNCHANGED <<main, signal, relay, cseq, awaited, closed>>,
         inbox' \in Seq(0..CSeqs-1), Len(inbox') <= 1,
         owed' \in Seq(Segments), stream' \in Seq(Segments), astray' \in BOOLEAN,
         astray' => GivenUp # {} /\ inbox' = <<>> /\ owed' = <<>> /\ stream' = <<>>,
         ~astray' => /\ AtMostLeftover' /\ (inbox' = <<>> \/ closed)
                     /\ \A i \in DOMAIN owed' : owed'[i].part = "body"
  PROVE  TasksInv'
<1>1. Holds(t)
  BY DEF TasksInv, OneExchange
<1>2. /\ task' \in [Subscribers -> Awaits]
      /\ lockQueue' \in Seq(Lockers)
      /\ \A u \in Keepalives : ~Exchanging(u)'
      /\ QueueSound'
  BY <1>1, Released
<1>3. TypeOK'
  BY <1>2 DEF TasksInv, TypeOK
<1>4. OneExchange'
  BY <1>2 DEF TasksInv, OneExchange
<1>5. WireSound'
  <2>1. \A u \in Keepalives : task'[u] \notin {"head", "body", "body400"}
    BY <1>2 DEF Exchanging
  <2>2. ~astray' => InStep'
    BY <2>1 DEF InStep
  <2>3. GivenUp \subseteq GivenUp'
    BY LeftStays DEF Release
  <2> QED
    BY <1>2, <2>2, <2>3 DEF WireSound
<1> QED
  BY <1>2, <1>3, <1>4, <1>5 DEF TasksInv

\* A head was parsed: the exchange ends or goes on with its body.
LEMMA ExchangeResponds ==
  ASSUME TasksInv, NEW t \in Keepalives, task[t] = "head",
         NEW status \in Statuses, NEW more \in BOOLEAN, Responds(t, status, more),
         UNCHANGED <<main, signal, relay, cseq, awaited, closed>>,
         inbox' = <<>>,
         owed' \in Seq(Segments), stream' \in Seq(Segments), astray' \in BOOLEAN,
         astray' => GivenUp # {} /\ owed' = <<>> /\ stream' = <<>>,
         ~astray' => IF more THEN BodyToCome' /\ \A i \in DOMAIN owed' : owed'[i].part = "body"
                     ELSE owed' = <<>> /\ stream' = <<>>
  PROVE  TasksInv'
<1>1. Exchanging(t)
  BY DEF Exchanging
<1>2. inbox' \in Seq(0..CSeqs-1) /\ Len(inbox') <= 1
  BY EmptySeq
<1>3. CASE ~more
  <2>1. Release(t, Refusal(t, status)) /\ Refusal(t, status) \in BOOLEAN
    BY <1>3 DEF Responds, Refusal
  <2>2. ASSUME owed' = <<>>, stream' = <<>>
        PROVE  AtMostLeftover' /\ \A i \in DOMAIN owed' : owed'[i].part = "body"
    BY <2>2, EmptySeq DEF AtMostLeftover
  <2> QED
    BY <1>1, <1>2, <1>3, <2>1, <2>2, ExchangeEnds
<1>4. CASE more
  <2>1. PICK await \in {"body", "body400"} : Goto(t, await) /\ UNCHANGED lockQueue
    BY <1>4 DEF Responds
  <2>2. /\ task'[t] = await /\ \A u \in Keepalives : u # t => task'[u] = task[u]
        /\ task' \in [Subscribers -> Awaits]
    BY <2>1 DEF Goto, TasksInv, TypeOK, Subscribers, Awaits
  <2>3. TypeOK'
    BY <1>2, <2>1, <2>2 DEF TasksInv, TypeOK
  <2>4. Holds(t) /\ \A u \in Keepalives : Exchanging(u) <=> u = t
    BY <1>1, HolderAlone DEF TasksInv, OneExchange
  <2>5. \A u \in Keepalives : Exchanging(u)' <=> Exchanging(u)
    BY <1>1, <2>2 DEF Exchanging
  <2>6. OneExchange'
    BY <1>2, <2>1, <2>5 DEF TasksInv, OneExchange, Holds
  <2>7. QueueSound'
    <3>1. \A u \in Keepalives : Queued(u)' <=> task'[u] = "lock" \/ Exchanging(u)'
      BY <2>1, <2>2, <2>5 DEF TasksInv, QueueSound, Queued
    <3> QED
      BY <2>1, <3>1 DEF TasksInv, QueueSound, Queued
  <2>8. GivenUp \subseteq GivenUp'
    BY <1>1, <2>1, LeftStays
  <2>9. WireSound'
    <3>1. \A u \in Keepalives : task'[u] # "head"
      BY <2>2, <2>4 DEF Exchanging
    <3>2. \A u \in Keepalives : Exchanging(u)' => awaited'[u] = cseq'
      BY <2>5 DEF TasksInv, WireSound
    <3>3. ~\A u \in Keepalives : ~Exchanging(u)'
      BY <2>4, <2>5
    <3>4. ~astray' => InStep'
      BY <1>4, <3>1, <3>3 DEF InStep
    <3> QED
      BY <2>8, <3>2, <3>4 DEF WireSound
  <2> QED
    BY <2>3, <2>6, <2>7, <2>9 DEF TasksInv
<1> QED
  BY <1>3, <1>4

\* A keepalive finds something to read only on a connection in step.
LEMMA ReadingInStep ==
  ASSUME TasksInv, stream # <<>>
  PROVE  astray = FALSE /\ InStep
BY DEF TasksInv, WireSound, TypeOK

\* A head that is read first is the answer to the request that is out.
LEMMA HeadIsAnswer ==
  ASSUME TasksInv, NEW t \in Keepalives, task[t] = "head", stream # <<>>, Head(stream).part = "head"
  PROVE  AnsweredAt(1)
<1>1. Head(stream) = stream[1] /\ 1 \in DOMAIN stream
  BY TailElements DEF TasksInv, TypeOK
<1>2. Asked \/ AnsweredAt(1) \/ AnsweredAt(2)
  BY ReadingInStep DEF InStep
<1>3. ~Asked
  BY <1>1 DEF Asked, AtMostLeftover, IsLeftover
<1>4. ~AnsweredAt(2)
  BY <1>1 DEF AnsweredAt, IsLeftover
<1> QED
  BY <1>2, <1>3, <1>4

\* A body that is read with what is behind it was left; behind it is the answer.
LEMMA JoinedIsAnswer ==
  ASSUME TasksInv, NEW t \in Keepalives, task[t] = "head", Joined
  PROVE  /\ AnsweredAt(2)
         /\ stream # <<>> /\ Len(stream) \in Nat /\ Len(stream) >= 2 /\ DOMAIN stream = 1..Len(stream)
         /\ Tail(Tail(stream)) \in Seq(Segments)
         /\ Len(Tail(Tail(stream))) = Len(stream) - 2
         /\ DOMAIN Tail(Tail(stream)) = 1..(Len(stream) - 2)
         /\ \A i \in DOMAIN Tail(Tail(stream)) : Tail(Tail(stream))[i] = stream[i + 2]
<1>1. /\ Len(stream) \in Nat /\ Len(stream) > 1 /\ stream # <<>> /\ DOMAIN stream = 1..Len(stream)
      /\ Len(owed) \in Nat
  BY Lengths DEF TasksInv, TypeOK, Joined
<1>2. /\ Tail(stream) \in Seq(Segments)
      /\ Head(stream) = stream[1]
      /\ Len(Tail(stream)) = Len(stream) - 1 /\ DOMAIN Tail(stream) = 1..(Len(stream) - 1)
      /\ \A i \in DOMAIN Tail(stream) : Tail(stream)[i] = stream[i + 1]
  BY <1>1, TailElements DEF TasksInv, TypeOK
<1>3. AnsweredAt(2)
  <2>1. Asked \/ AnsweredAt(1) \/ AnsweredAt(2)
    BY <1>1, ReadingInStep DEF InStep
  <2>2. ~Asked
    BY <1>1 DEF Asked, AtMostLeftover
  <2>3. ~AnsweredAt(1)
    BY <1>2 DEF AnsweredAt, Joined
  <2> QED
    BY <2>1, <2>2, <2>3
<1>4. Tail(stream) # <<>>
  <2> DEFINE a == Len(stream)
             b == Len(Tail(stream))
  <2>2. a \in Nat /\ a > 1 /\ b = a - 1
    BY <1>1, <1>2
  <2> HIDE DEF a, b
  <2>3. b # 0
    BY <2>2
  <2>1. Len(Tail(stream)) # 0
    BY <2>3 DEF b
  <2> QED
    BY <2>1, EmptySeq
<1> DEFINE q == Tail(stream)
           l == Len(stream)
           rest == Tail(q)
<1>5. /\ q \in Seq(Segments) /\ q # <<>>
      /\ Len(q) = l - 1 /\ DOMAIN q = 1..(l - 1)
      /\ \A i \in DOMAIN q : q[i] = stream[i + 1]
      /\ l \in Nat
  BY <1>1, <1>2, <1>4
<1>6. rest \in Seq(Segments) /\ Len(rest) = l - 2 /\ DOMAIN rest = 1..(l - 2)
      /\ \A i \in DOMAIN rest : rest[i] = stream[i + 2]
  <2> HIDE DEF q, l
  <2>1. /\ rest \in Seq(Segments)
        /\ Len(rest) = Len(q) - 1 /\ DOMAIN rest = 1..(Len(q) - 1)
        /\ \A i \in DOMAIN rest : rest[i] = q[i + 1]
    BY <1>5, TailElements
  <2> HIDE DEF rest
  <2>2. (l - 1) - 1 = l - 2
    BY <1>5
  <2>3. Len(rest) = l - 2 /\ DOMAIN rest = 1..(l - 2)
    BY <1>5, <2>1, <2>2, Zenon
  <2>4. ASSUME NEW i \in 1..(l - 2)
        PROVE  rest[i] = stream[i + 2]
    <3>1. i + 1 \in 1..(l - 1) /\ (i + 1) + 1 = i + 2
      BY <1>5
    <3>2. rest[i] = q[i + 1] /\ q[i + 1] = stream[(i + 1) + 1]
      BY <1>5, <2>1, <2>3, <3>1, Zenon
    <3> QED
      BY <3>1, <3>2
  <2> QED
    BY <2>1, <2>3, <2>4
<1> QED
  BY <1>1, <1>3, <1>6 DEF rest, q, l

\* What is on the wire behind the answer at k is its body, or nothing.
LEMMA BehindAnswer ==
  ASSUME TasksInv, NEW k \in {1, 2}, AnsweredAt(k), NEW rest \in Seq(Segments),
         Len(rest) = Len(stream) - k,
         \A i \in DOMAIN rest : rest[i] = stream[i + k]
  PROVE  /\ k \in DOMAIN stream /\ stream[k] \in Segments /\ stream[k].cseq = cseq
         /\ inbox = <<>>
         /\ \A i \in DOMAIN rest : IsBody(rest[i])
         /\ \A i \in DOMAIN owed : IsBody(owed[i])
         /\ Len(rest) + Len(owed) = IF stream[k].more THEN 1 ELSE 0
         /\ ~stream[k].more => rest = <<>> /\ owed = <<>>
<1>1. /\ inbox = <<>> /\ k \in DOMAIN stream /\ stream[k].cseq = cseq
      /\ Len(stream) + Len(owed) = IF stream[k].more THEN k + 1 ELSE k
      /\ \A i \in DOMAIN stream : i > k => IsBody(stream[i])
      /\ \A i \in DOMAIN owed : IsBody(owed[i])
  BY DEF AnsweredAt
<1>2. /\ stream \in Seq(Segments) /\ Len(stream) \in Nat /\ DOMAIN stream = 1..Len(stream)
      /\ Len(owed) \in Nat /\ Len(rest) \in Nat /\ DOMAIN rest = 1..Len(rest)
      /\ (rest = <<>>) <=> (Len(rest) = 0)
      /\ (owed = <<>>) <=> (Len(owed) = 0)
  BY Lengths DEF TasksInv, TypeOK
<1>3. stream[k] \in Segments
  BY <1>1, <1>2, ElementOfSeq
<1>4. ASSUME NEW i \in DOMAIN rest
      PROVE  IsBody(rest[i])
  <2>1. i + k \in DOMAIN stream /\ i + k > k
    BY <1>2
  <2> QED
    BY <1>1, <2>1
<1>5. Len(rest) + Len(owed) = IF stream[k].more THEN 1 ELSE 0
  BY <1>1, <1>2
<1>6. ~stream[k].more => Len(rest) = 0 /\ Len(owed) = 0
  BY <1>2, <1>5
<1> QED
  BY <1>1, <1>2, <1>3, <1>4, <1>5, <1>6

\* A head with a status: after its last word nothing of the exchange is left,
\* or its body is to come.
LEMMA ReadAnswer ==
  ASSUME TasksInv, NEW t \in Keepalives, task[t] = "head", NEW k \in {1, 2}, AnsweredAt(k),
         NEW status \in Statuses, Responds(t, status, stream[k].more),
         stream' \in Seq(Segments), Len(stream') = Len(stream) - k,
         \A i \in DOMAIN stream' : stream'[i] = stream[i + k],
         UNCHANGED <<main, signal, relay, cseq, awaited, inbox, owed, closed, astray>>
  PROVE  TasksInv'
<1> DEFINE rest == stream'
<1>1. /\ k \in DOMAIN stream /\ stream[k] \in Segments
      /\ inbox = <<>>
      /\ \A i \in DOMAIN rest : IsBody(rest[i])
      /\ \A i \in DOMAIN owed : IsBody(owed[i])
      /\ Len(rest) + Len(owed) = IF stream[k].more THEN 1 ELSE 0
      /\ ~stream[k].more => rest = <<>> /\ owed = <<>>
  BY BehindAnswer
<1>2. stream # <<>>
  BY <1>1, EmptySeq
<1>3. astray = FALSE /\ stream[k].more \in BOOLEAN
  BY <1>1, <1>2, ReadingInStep DEF Segments
<1>4. stream[k].more => BodyToCome' /\ \A i \in DOMAIN owed' : owed'[i].part = "body"
  BY <1>1 DEF BodyToCome, IsBody
<1>5. ~stream[k].more => owed' = <<>> /\ stream' = <<>>
  BY <1>1
<1>6. owed' \in Seq(Segments) /\ astray' = FALSE /\ inbox' = <<>>
  BY <1>1, <1>3 DEF TasksInv, TypeOK
<1> HIDE DEF rest
<1> QED
  BY <1>3, <1>4, <1>5, <1>6, ExchangeResponds

LEMMA ReadHeadStep ==
  ASSUME TasksInv, NEW t \in Keepalives, ReadHead(t)
  PROVE  TasksInv'
<1>1. /\ task[t] = "head" /\ stream # <<>> /\ Head(stream).part = "head"
      /\ stream' = Tail(stream)
      /\ Responds(t, Head(stream).status, Head(stream).more)
      /\ UNCHANGED <<main, signal, relay, cseq, awaited, inbox, owed, closed, astray>>
  BY DEF ReadHead
<1>2. AnsweredAt(1)
  BY <1>1, HeadIsAnswer
<1>3. /\ stream' \in Seq(Segments)
      /\ Head(stream) = stream[1] /\ stream[1] \in Segments
      /\ Len(stream') = Len(stream) - 1
      /\ \A i \in DOMAIN stream' : stream'[i] = stream[i + 1]
  BY <1>1, TailElements DEF TasksInv, TypeOK
<1>4. Head(stream).status \in Statuses
  BY <1>3 DEF Segments
<1> QED
  BY <1>1, <1>2, <1>3, <1>4, ReadAnswer

LEMMA ReadJoinedStep ==
  ASSUME TasksInv, NEW t \in Keepalives, ReadJoined(t)
  PROVE  TasksInv'
<1>1. /\ task[t] = "head" /\ Joined /\ stream' = Tail(Tail(stream))
      /\ UNCHANGED <<main, signal, relay, cseq, awaited, inbox, owed, closed, astray>>
  BY DEF ReadJoined
<1>2. PICK status \in {"ok", "refused"} : Responds(t, status, stream[2].more)
  BY DEF ReadJoined
<1>3. /\ AnsweredAt(2)
      /\ stream' \in Seq(Segments) /\ Len(stream') = Len(stream) - 2
      /\ \A i \in DOMAIN stream' : stream'[i] = stream[i + 2]
  BY <1>1, JoinedIsAnswer
<1>4. status \in Statuses
  BY DEF Statuses
<1> QED
  BY <1>1, <1>2, <1>3, <1>4, ReadAnswer

\* After an error behind the answer at k at most its body is left.
LEMMA FailAnswer ==
  ASSUME TasksInv, NEW t \in Keepalives, task[t] = "head", NEW k \in {1, 2}, AnsweredAt(k),
         NEW rest \in Seq(Segments), Len(rest) = Len(stream) - k,
         \A i \in DOMAIN rest : rest[i] = stream[i + k],
         stream' \in {rest, <<>>}, Release(t, TRUE),
         UNCHANGED <<main, signal, relay, cseq, awaited, inbox, owed, closed, astray>>
  PROVE  TasksInv'
<1>1. /\ k \in DOMAIN stream /\ inbox = <<>>
      /\ \A i \in DOMAIN rest : IsBody(rest[i])
      /\ \A i \in DOMAIN owed : IsBody(owed[i])
      /\ Len(rest) + Len(owed) = IF stream[k].more THEN 1 ELSE 0
  BY BehindAnswer
<1>2. Len(rest) \in Nat /\ Len(owed) \in Nat
  BY Lengths DEF TasksInv, TypeOK
<1>3. stream # <<>> /\ astray = FALSE
  <2>1. stream # <<>>
    BY <1>1, EmptySeq
  <2> QED
    BY <2>1, ReadingInStep
<1>4. Exchanging(t)
  BY DEF Exchanging
<1>5. /\ stream' \in Seq(Segments) /\ Len(stream') + Len(owed) <= 1
      /\ \A i \in DOMAIN stream' : IsBody(stream'[i])
  <2>1. CASE stream' = rest
    BY <1>1, <1>2, <2>1
  <2>2. CASE stream' = <<>>
    BY <1>1, <1>2, <2>2, EmptySeq
  <2> QED
    BY <2>1, <2>2
<1>6. cseq \in GivenUp'
  <2>1. task'[t] = "ended"
    BY DEF Release, Goto, TasksInv, TypeOK, Subscribers
  <2>2. awaited'[t] = cseq
    BY <1>4 DEF TasksInv, WireSound
  <2> QED
    BY <2>1, <2>2 DEF GivenUp
<1>7. AtMostLeftover' /\ \A i \in DOMAIN owed' : owed'[i].part = "body"
  BY <1>1, <1>5, <1>6 DEF AtMostLeftover, IsLeftover, IsBody
<1>8. /\ inbox' \in Seq(0..CSeqs-1) /\ Len(inbox') <= 1 /\ inbox' = <<>>
      /\ owed' \in Seq(Segments) /\ astray' = FALSE
  BY <1>1, <1>3, EmptySeq DEF TasksInv, TypeOK
<1> QED
  BY <1>4, <1>5, <1>7, <1>8, ExchangeEnds

\* A response that cannot be parsed leaves at most its body.
LEMMA ReadGarbledStep ==
  ASSUME TasksInv, NEW t \in Keepalives, ReadGarbled(t)
  PROVE  TasksInv'
<1>1. /\ task[t] = "head" /\ stream # <<>> /\ Release(t, TRUE)
      /\ UNCHANGED <<main, signal, relay, cseq, awaited, inbox, owed, closed, astray>>
  BY DEF ReadGarbled
<1>2. CASE Joined
  <2>1. stream' \in {Tail(Tail(stream)), <<>>}
    BY <1>2 DEF ReadGarbled
  <2>2. /\ AnsweredAt(2)
        /\ Tail(Tail(stream)) \in Seq(Segments)
        /\ Len(Tail(Tail(stream))) = Len(stream) - 2
        /\ \A i \in DOMAIN Tail(Tail(stream)) : Tail(Tail(stream))[i] = stream[i + 2]
    BY <1>1, <1>2, JoinedIsAnswer
  <2> QED
    BY <1>1, <2>1, <2>2, FailAnswer
<1>3. CASE ~Joined
  <2>1. stream' \in {Tail(stream), <<>>} /\ Head(stream).part = "head"
    BY <1>3 DEF ReadGarbled
  <2>2. AnsweredAt(1)
    BY <1>1, <2>1, HeadIsAnswer
  <2>3. /\ Tail(stream) \in Seq(Segments)
        /\ Len(Tail(stream)) = Len(stream) - 1
        /\ \A i \in DOMAIN Tail(stream) : Tail(stream)[i] = stream[i + 1]
    BY <1>1, TailElements DEF TasksInv, TypeOK
  <2> QED
    BY <1>1, <2>1, <2>2, <2>3, FailAnswer
<1> QED
  BY <1>2, <1>3

\* A body in front of the answer is what somebody who gave up has left.
LEMMA FrontIsLeftover ==
  ASSUME TasksInv, NEW t \in Keepalives, task[t] = "head", stream # <<>>, Head(stream).part = "body"
  PROVE  IsLeftover(stream[1]) /\ GivenUp # {}
<1>1. Head(stream) = stream[1] /\ 1 \in DOMAIN stream
  BY TailElements DEF TasksInv, TypeOK
<1>2. Asked \/ AnsweredAt(1) \/ AnsweredAt(2)
  BY ReadingInStep DEF InStep
<1>3. ~AnsweredAt(1)
  BY <1>1 DEF AnsweredAt
<1>4. IsLeftover(stream[1])
  <2>1. CASE Asked
    BY <1>1, <2>1 DEF Asked, AtMostLeftover
  <2>2. CASE AnsweredAt(2)
    BY <2>2 DEF AnsweredAt
  <2> QED
    BY <1>2, <1>3, <2>1, <2>2
<1> QED
  BY <1>4 DEF IsLeftover

\* Reading a left-over body as a response leads astray.
LEMMA ReadStrayStep ==
  ASSUME TasksInv, NEW t \in Keepalives, ReadStray(t)
  PROVE  TasksInv'
<1>1. /\ task[t] = "head" /\ stream # <<>> /\ Head(stream).part = "body"
      /\ astray' = TRUE /\ inbox' = <<>> /\ owed' = <<>> /\ stream' = <<>>
      /\ UNCHANGED <<main, signal, relay, cseq, awaited, closed>>
      /\ \/ \E status \in {"ok", "refused"}, more \in BOOLEAN : Responds(t, status, more)
         \/ Release(t, TRUE)
  BY DEF ReadStray
<1>2. GivenUp # {}
  BY <1>1, FrontIsLeftover
<1>3. /\ inbox' \in Seq(0..CSeqs-1) /\ Len(inbox') <= 1
      /\ owed' \in Seq(Segments) /\ stream' \in Seq(Segments)
  BY <1>1, EmptySeq
<1>4. Exchanging(t)
  BY <1>1 DEF Exchanging
<1>5. ASSUME NEW status \in {"ok", "refused"}, NEW more \in BOOLEAN, Responds(t, status, more)
      PROVE  TasksInv'
  <2>1. status \in Statuses
    BY DEF Statuses
  <2> QED
    BY <1>1, <1>2, <1>3, <1>5, <2>1, ExchangeResponds
<1>6. CASE Release(t, TRUE)
  BY <1>1, <1>2, <1>3, <1>4, <1>6, ExchangeEnds
<1> QED
  BY <1>1, <1>5, <1>6

LEMMA ReadAstrayStep ==
  ASSUME TasksInv, NEW t \in Keepalives, ReadAstray(t)
  PROVE  TasksInv'
<1>1. /\ astray /\ UNCHANGED <<main, signal, relay, cseq, awaited, inbox, owed, stream, closed, astray>>
      /\ \/ /\ task[t] = "head"
            /\ \/ \E status \in {"ok", "refused"}, more \in BOOLEAN : Responds(t, status, more)
               \/ Release(t, TRUE)
         \/ task[t] \in {"body", "body400"} /\ Release(t, task[t] = "body400")
  BY DEF ReadAstray, connVars
<1>2. /\ GivenUp # {} /\ inbox' = <<>> /\ owed' = <<>> /\ stream' = <<>> /\ astray' = TRUE
  BY <1>1 DEF TasksInv, TypeOK, WireSound
<1>3. /\ inbox' \in Seq(0..CSeqs-1) /\ Len(inbox') <= 1
      /\ owed' \in Seq(Segments) /\ stream' \in Seq(Segments)
  BY <1>2, EmptySeq
<1>4. Exchanging(t)
  BY <1>1 DEF Exchanging
<1>5. ASSUME task[t] = "head", NEW status \in {"ok", "refused"}, NEW more \in BOOLEAN,
             Responds(t, status, more)
      PROVE  TasksInv'
  <2>1. status \in Statuses
    BY DEF Statuses
  <2> QED
    BY <1>1, <1>2, <1>3, <1>5, <2>1, ExchangeResponds
<1>6. ASSUME NEW ends \in BOOLEAN, Release(t, ends)
      PROVE  TasksInv'
  BY <1>1, <1>2, <1>3, <1>4, <1>6, ExchangeEnds
<1> QED
  BY <1>1, <1>5, <1>6

LEMMA ReadClosedStep ==
  ASSUME TasksInv, NEW t \in Keepalives, ReadClosed(t)
  PROVE  TasksInv'
<1>1. /\ task[t] = "head" /\ closed /\ stream' = <<>> /\ Release(t, TRUE)
      /\ UNCHANGED <<main, signal, relay, cseq, awaited, inbox, owed, closed, astray>>
      /\ stream = <<>> \/ (Len(stream) = 1 /\ Head(stream).part = "body")
  BY DEF ReadClosed
<1>2. /\ Len(stream) \in Nat /\ DOMAIN stream = 1..Len(stream) /\ (stream = <<>>) <=> (Len(stream) = 0)
      /\ Len(owed) \in Nat
  BY Lengths DEF TasksInv, TypeOK
<1>3. stream # <<>> => Head(stream) = stream[1]
  BY TailElements DEF TasksInv, TypeOK
<1>4. ~astray => Asked
  <2> SUFFICES ASSUME ~astray PROVE Asked
    OBVIOUS
  <2>1. Asked \/ AnsweredAt(1) \/ AnsweredAt(2)
    BY <1>1 DEF TasksInv, WireSound, InStep
  <2>2. ~AnsweredAt(1) /\ ~AnsweredAt(2)
    BY <1>1, <1>2, <1>3 DEF AnsweredAt
  <2> QED
    BY <2>1, <2>2
<1>5. stream' \in Seq(Segments) /\ Len(stream') = 0 /\ DOMAIN stream' = {}
  BY <1>1, EmptySeq
<1>6. Exchanging(t)
  BY <1>1 DEF Exchanging
<1>7. ~astray => AtMostLeftover' /\ \A i \in DOMAIN owed' : owed'[i].part = "body"
  <2> SUFFICES ASSUME ~astray PROVE AtMostLeftover' /\ \A i \in DOMAIN owed' : owed'[i].part = "body"
    OBVIOUS
  <2>1. Len(stream) + Len(owed) <= 1
    BY <1>4 DEF Asked, AtMostLeftover
  <2>2. Len(stream') + Len(owed') <= 1
    BY <1>1, <1>2, <1>5, <2>1
  <2>3. \A i \in DOMAIN owed' : owed'[i].part = "body"
    BY <1>1 DEF TasksInv, WireSound, InStep
  <2> QED
    BY <1>1, <1>5, <2>2, <2>3 DEF AtMostLeftover
<1>8. astray => GivenUp # {} /\ inbox' = <<>> /\ owed' = <<>>
  BY <1>1 DEF TasksInv, WireSound
<1>9. inbox' \in Seq(0..CSeqs-1) /\ Len(inbox') <= 1 /\ owed' \in Seq(Segments) /\ astray' \in BOOLEAN
  BY <1>1 DEF TasksInv, TypeOK, OneExchange
<1> QED
  BY <1>1, <1>5, <1>6, <1>7, <1>8, <1>9, ExchangeEnds

LEMMA ReadBodyStep ==
  ASSUME TasksInv, NEW t \in Keepalives, ReadBody(t)
  PROVE  TasksInv'
<1>1. /\ task[t] \in {"body", "body400"} /\ Release(t, task[t] = "body400")
      /\ UNCHANGED <<main, signal, relay, cseq, awaited, inbox, owed, closed, astray>>
  BY DEF ReadBody
<1>2. /\ Len(stream) \in Nat /\ (stream = <<>>) <=> (Len(stream) = 0)
      /\ Len(owed) \in Nat
  BY Lengths DEF TasksInv, TypeOK
<1>3. Exchanging(t) /\ (task[t] = "body400") \in BOOLEAN
  BY <1>1 DEF Exchanging
<1>4. inbox' \in Seq(0..CSeqs-1) /\ Len(inbox') <= 1 /\ owed' \in Seq(Segments) /\ astray' \in BOOLEAN
  BY <1>1 DEF TasksInv, TypeOK, OneExchange
<1>5. CASE astray
  <2>1. GivenUp # {} /\ inbox' = <<>> /\ owed' = <<>> /\ stream = <<>> /\ astray'
    BY <1>1, <1>5 DEF TasksInv, WireSound
  <2>2. stream' = <<>> /\ stream' \in Seq(Segments)
    BY <2>1, EmptySeq DEF ReadBody
  <2> QED
    BY <1>1, <1>3, <1>4, <2>1, <2>2, ExchangeEnds
<1>6. CASE ~astray
  <2>1. BodyToCome /\ \A i \in DOMAIN owed : owed[i].part = "body"
    BY <1>1, <1>6 DEF TasksInv, WireSound, InStep
  <2>2. Len(stream) + Len(owed) = 1
    BY <2>1 DEF BodyToCome
  <2>3. stream' \in Seq(Segments) /\ Len(stream') = 0 /\ (stream = <<>> => closed)
    <3>1. CASE stream # <<>>
      <4>1. stream' = Tail(stream)
        BY <3>1, Zenon DEF ReadBody
      <4>2. Len(stream) = 1
        <5> DEFINE a == Len(stream)
                   b == Len(owed)
        <5>3. Len(stream) # 0
          BY <1>2, <3>1
        <5>4. Len(stream) \in Nat /\ Len(owed) \in Nat
          BY <1>2
        <5>1. a \in Nat /\ b \in Nat /\ a + b = 1 /\ a # 0
          BY <5>3, <5>4, <2>2, Zenon
        <5> HIDE DEF a, b
        <5>2. a = 1
          BY <5>1
        <5> QED
          BY <5>2 DEF a
      <4> QED
        BY <3>1, <4>1, <4>2, TailElements DEF TasksInv, TypeOK
    <3>2. CASE stream = <<>>
      BY <3>2, EmptySeq DEF ReadBody
    <3> QED
      BY <3>1, <3>2
  <2>4. DOMAIN stream' = {}
    BY <2>3, Lengths
  <2>5. stream # <<>> => DOMAIN owed = {}
    <3> SUFFICES ASSUME stream # <<>> PROVE DOMAIN owed = {}
      OBVIOUS
    <3>1. Len(owed) = 0
      <4> DEFINE a == Len(stream)
                 b == Len(owed)
      <4>3. Len(stream) # 0
        BY <1>2
      <4>4. Len(stream) \in Nat /\ Len(owed) \in Nat
        BY <1>2
      <4>1. a \in Nat /\ b \in Nat /\ a + b = 1 /\ a # 0
        BY <4>3, <4>4, <2>2, Zenon
      <4> HIDE DEF a, b
      <4>2. b = 0
        BY <4>1
      <4> QED
        BY <4>2 DEF b
    <3> QED
      BY <3>1, Lengths DEF TasksInv, TypeOK
  <2>6. AtMostLeftover' /\ inbox = <<>>
    BY <1>1, <1>2, <2>1, <2>2, <2>3, <2>4, <2>5 DEF BodyToCome, AtMostLeftover
  <2> QED
    BY <1>1, <1>3, <1>4, <1>6, <2>1, <2>3, <2>6, ExchangeEnds
<1> QED
  BY <1>5, <1>6

(***************************************************************************)
(* The TV.                                                                 *)
(***************************************************************************)
\* Steps of the TV that leave the requests, the tasks and the queue alone.
LEMMA TvOnly ==
  ASSUME TasksInv, UNCHANGED <<main, signal, relay, task, lockQueue, cseq, awaited, astray>>,
         inbox' \in Seq(0..CSeqs-1), owed' \in Seq(Segments), stream' \in Seq(Segments),
         closed' \in BOOLEAN, Len(inbox') <= 1, WireSound'
  PROVE  TasksInv'
<1>1. TypeOK'
  BY DEF TasksInv, TypeOK
<1>2. OneExchange' /\ QueueSound'
  BY DEF TasksInv, OneExchange, QueueSound, Exchanging, Holds, Queued
<1> QED
  BY <1>1, <1>2 DEF TasksInv

\* On a connection that went astray the TV says nothing that is followed.
LEMMA TvInStep ==
  ASSUME TasksInv, inbox # <<>> \/ owed # <<>>
  PROVE  ~astray /\ InStep
BY DEF TasksInv, WireSound

LEMMA TvClosesStep ==
  ASSUME TasksInv, TvCloses
  PROVE  TasksInv'
<1>1. /\ closed' = TRUE
      /\ UNCHANGED <<main, signal, relay, task, lockQueue, cseq, awaited, inbox, owed, stream, astray>>
  BY DEF TvCloses
<1>2. GivenUp' = GivenUp
  BY <1>1 DEF GivenUp
<1>3. /\ AtMostLeftover => AtMostLeftover'
      /\ AnsweredAt(1) => AnsweredAt(1)'
      /\ AnsweredAt(2) => AnsweredAt(2)'
      /\ BodyToCome => BodyToCome'
  BY <1>1, <1>2 DEF AtMostLeftover, AnsweredAt, BodyToCome, IsBody, IsLeftover
<1>4. Asked => Asked'
  BY <1>1, <1>3 DEF Asked
<1>5. InStep => InStep'
  BY <1>1, <1>3, <1>4 DEF InStep, Exchanging
<1>6. WireSound'
  BY <1>1, <1>2, <1>5 DEF TasksInv, WireSound, Exchanging
<1> QED
  BY <1>1, <1>6, TvOnly DEF TasksInv, TypeOK, OneExchange

LEMMA TvAnswersStep ==
  ASSUME TasksInv, TvAnswers
  PROVE  TasksInv'
<1>1. /\ ~closed /\ owed = <<>> /\ inbox # <<>> /\ inbox' = Tail(inbox)
      /\ UNCHANGED <<main, signal, relay, task, lockQueue, cseq, awaited, closed, astray>>
      /\ ~astray /\ InStep
  BY TvInStep DEF TvAnswers
<1>2. PICK status \in Statuses, more \in BOOLEAN :
        LET Answer(part, rest) == [part |-> part, cseq |-> Head(inbox),
                                   status |-> status, more |-> rest]
        IN  /\ stream' = Append(stream, Answer("head", more))
            /\ owed' = IF more THEN <<Answer("body", FALSE)>> ELSE <<>>
  BY DEF TvAnswers
<1>3. PICK u \in Keepalives : Exchanging(u)
  BY <1>1 DEF InStep
<1>4. task[u] = "head" /\ Asked
  BY <1>1, <1>3 DEF InStep, Exchanging, BodyToCome, AnsweredAt
<1>13. GivenUp' = GivenUp
  BY <1>1 DEF GivenUp
<1>5. /\ inbox = <<cseq>> /\ Head(inbox) = cseq /\ inbox' = <<>> /\ cseq \in 0..CSeqs-1
  BY <1>1, <1>4 DEF Asked, TasksInv, TypeOK
<1> DEFINE head == [part |-> "head", cseq |-> cseq, status |-> status, more |-> more]
           body == [part |-> "body", cseq |-> cseq, status |-> status, more |-> FALSE]
           k == Len(stream) + 1
<1>6. /\ head \in Segments /\ body \in Segments
      /\ head.part = "head" /\ head.cseq = cseq /\ head.more = more
      /\ body.part = "body" /\ body.cseq = cseq
  BY <1>5 DEF Segments
<1>7. /\ stream' = Append(stream, head)
      /\ owed' = IF more THEN <<body>> ELSE <<>>
  BY <1>2, <1>5
<1> HIDE DEF head, body
<1>8. /\ owed' \in Seq(Segments) /\ Len(owed') = IF more THEN 1 ELSE 0
      /\ \A i \in DOMAIN owed' : owed'[i] = body
  <2>1. CASE more
    BY <1>6, <1>7, <2>1
  <2>2. CASE ~more
    BY <1>7, <2>2, EmptySeq
  <2> QED
    BY <2>1, <2>2
<1>9. /\ stream' \in Seq(Segments) /\ Len(stream') = k /\ DOMAIN stream' = 1..k
      /\ stream'[k] = head
      /\ \A i \in 1..Len(stream) : stream'[i] = stream[i]
      /\ k \in {1, 2}
      /\ k = 2 => 1 \in DOMAIN stream /\ IsLeftover(stream[1])
  <2>1. stream \in Seq(Segments)
    BY DEF TasksInv, TypeOK
  <2>2. /\ stream' \in Seq(Segments) /\ Len(stream') = k /\ stream'[k] = head
        /\ \A i \in 1..Len(stream) : stream'[i] = stream[i]
    BY <2>1, <1>6, <1>7, AppendProperties
  <2>3. DOMAIN stream' = 1..k /\ Len(stream) \in Nat /\ DOMAIN stream = 1..Len(stream)
    BY <2>1, <2>2, LenProperties
  <2>4. Len(stream) <= 1
    BY <1>1, <1>4, <2>3, EmptySeq DEF Asked, AtMostLeftover
  <2>5. k \in {1, 2} /\ (k = 2 => 1 \in DOMAIN stream /\ IsLeftover(stream[1]))
    BY <1>4, <2>3, <2>4 DEF Asked, AtMostLeftover
  <2> QED
    BY <2>2, <2>3, <2>5
<1>10. AnsweredAt(1)' \/ AnsweredAt(2)'
  <2>1. /\ inbox' = <<>> /\ k \in DOMAIN stream'
        /\ stream'[k].part = "head" /\ stream'[k].cseq = cseq' /\ stream'[k].more = more
    BY <1>1, <1>5, <1>6, <1>9
  <2>2. k > 1 => stream'[1].part = "body" /\ stream'[1].cseq \in GivenUp'
    <3>1. k > 1 => stream'[1] = stream[1] /\ IsLeftover(stream[1])
      BY <1>9
    <3> QED
      BY <1>13, <3>1 DEF IsLeftover
  <2>3. Len(stream') + Len(owed') = IF stream'[k].more THEN k + 1 ELSE k
    BY <2>1, <1>8, <1>9
  <2>4. \A i \in DOMAIN stream' : ~(i > k)
    BY <1>9
  <2>5. \A i \in DOMAIN owed' : owed'[i].part = "body" /\ owed'[i].cseq = cseq'
    BY <1>1, <1>6, <1>8
  <2> HIDE DEF k
  <2>6. CASE k = 1
    BY <2>1, <2>2, <2>3, <2>4, <2>5, <2>6 DEF AnsweredAt, IsBody, IsLeftover
  <2>7. CASE k = 2
    BY <2>1, <2>2, <2>3, <2>4, <2>5, <2>7 DEF AnsweredAt, IsBody, IsLeftover
  <2> QED
    BY <1>9, <2>6, <2>7
<1>11. WireSound'
  <2>1. \A t \in Keepalives : Exchanging(t) => t = u
    BY <1>3, HolderAlone DEF TasksInv, OneExchange
  <2>2. \A t \in Keepalives : Exchanging(t)' <=> Exchanging(t)
    BY <1>1 DEF Exchanging
  <2>3. \A t \in Keepalives : task'[t] \notin {"body", "body400"}
    BY <1>1, <1>4, <2>1 DEF Exchanging
  <2>4. \A t \in Keepalives : Exchanging(t)' => awaited'[t] = cseq'
    BY <1>1, <2>2 DEF TasksInv, WireSound
  <2>5. ~\A t \in Keepalives : ~Exchanging(t)'
    BY <1>3, <2>2
  <2>6. \A i \in DOMAIN owed' : owed'[i].part = "body"
    BY <1>6, <1>8
  <2>7. InStep'
    BY <1>10, <2>3, <2>5, <2>6 DEF InStep
  <2> QED
    BY <1>1, <2>4, <2>7 DEF WireSound
<1>12. inbox' \in Seq(0..CSeqs-1) /\ Len(inbox') = 0
  BY <1>5, EmptySeq
<1> QED
  BY <1>1, <1>8, <1>9, <1>11, <1>12, TvOnly DEF TasksInv, TypeOK

LEMMA TvSendsBodyStep ==
  ASSUME TasksInv, TvSendsBody
  PROVE  TasksInv'
<1>1. /\ ~closed /\ owed # <<>> /\ stream' = stream \o owed /\ owed' = <<>>
      /\ UNCHANGED <<main, signal, relay, task, lockQueue, cseq, awaited, inbox, closed, astray>>
      /\ ~astray /\ InStep
  BY TvInStep DEF TvSendsBody
<1>13. GivenUp' = GivenUp
  BY <1>1 DEF GivenUp
<1> DEFINE m == Len(stream)
           n == Len(owed)
<1>2. /\ stream \in Seq(Segments) /\ owed \in Seq(Segments)
      /\ m \in Nat /\ n \in Nat /\ n >= 1
      /\ DOMAIN stream = 1..m /\ DOMAIN owed = 1..n
  <2>1. stream \in Seq(Segments) /\ owed \in Seq(Segments)
    BY DEF TasksInv, TypeOK
  <2> QED
    BY <1>1, <2>1, Lengths
<1>3. /\ stream' \in Seq(Segments) /\ Len(stream') = m + n
      /\ \A i \in 1..m + n : stream'[i] = IF i <= m THEN stream[i] ELSE owed[i - m]
  BY <1>1, <1>2, ConcatProperties
<1>4. /\ owed' \in Seq(Segments) /\ Len(owed') = 0 /\ DOMAIN owed' = {}
      /\ DOMAIN stream' = 1..m + n
  BY <1>1, <1>3, EmptySeq, LenProperties
<1>5. Len(stream') + Len(owed') = m + n
  BY <1>2, <1>3, <1>4
<1>6. /\ \A i \in DOMAIN stream : i \in DOMAIN stream' /\ stream'[i] = stream[i]
      /\ \A i \in DOMAIN stream' : i \in DOMAIN stream \/ \E j \in DOMAIN owed : stream'[i] = owed[j]
  <2>1. ASSUME NEW i \in 1..m
        PROVE  i \in 1..m + n /\ stream'[i] = stream[i]
    BY <1>2, <1>3, <2>1
  <2>2. ASSUME NEW i \in 1..m + n, i \notin 1..m
        PROVE  \E j \in 1..n : stream'[i] = owed[j]
    <3>1. i - m \in 1..n /\ ~(i <= m)
      BY <1>2, <2>2
    <3> QED
      BY <1>3, <3>1
  <2> QED
    BY <1>2, <1>4, <2>1, <2>2
<1> HIDE DEF m, n
<1>7. \A i \in DOMAIN owed : owed[i].part = "body"
  BY <1>1 DEF InStep
<1>8. AtMostLeftover => AtMostLeftover'
  <2> SUFFICES ASSUME AtMostLeftover PROVE AtMostLeftover'
    OBVIOUS
  <2>1. /\ m + n <= 1
        /\ \A i \in DOMAIN stream : stream[i].part = "body" /\ stream[i].cseq \in GivenUp'
        /\ \A i \in DOMAIN owed : owed[i].part = "body" /\ owed[i].cseq \in GivenUp'
    BY <1>1, <1>13 DEF AtMostLeftover, IsLeftover, m, n
  <2>2. \A i \in DOMAIN stream' : stream'[i].part = "body" /\ stream'[i].cseq \in GivenUp'
    BY <1>6, <2>1
  <2> QED
    BY <1>4, <1>5, <2>1, <2>2 DEF AtMostLeftover, IsLeftover
<1>9. Asked => Asked'
  BY <1>1, <1>8 DEF Asked
<1>10. ASSUME NEW k \in {1, 2}, AnsweredAt(k)
       PROVE  AnsweredAt(k)'
  <2>1. /\ inbox = <<>> /\ k \in DOMAIN stream
        /\ stream[k].part = "head" /\ stream[k].cseq = cseq
        /\ k > 1 => stream[1].part = "body" /\ stream[1].cseq \in GivenUp
        /\ m + n = IF stream[k].more THEN k + 1 ELSE k
        /\ \A i \in DOMAIN stream : i > k => stream[i].part = "body" /\ stream[i].cseq = cseq
        /\ \A i \in DOMAIN owed : owed[i].part = "body" /\ owed[i].cseq = cseq
    BY <1>10 DEF AnsweredAt, IsBody, IsLeftover, m, n
  <2>2. k \in DOMAIN stream' /\ stream'[k] = stream[k]
    BY <1>6, <2>1
  <2>3. k > 1 => stream'[1] = stream[1]
    BY <1>2, <1>6, <2>1
  <2>4. \A i \in DOMAIN stream' : i > k => stream'[i].part = "body" /\ stream'[i].cseq = cseq
    BY <1>6, <2>1
  <2> QED
    BY <1>1, <1>13, <1>4, <1>5, <2>1, <2>2, <2>3, <2>4 DEF AnsweredAt, IsBody, IsLeftover
<1>11. BodyToCome => BodyToCome'
  <2> SUFFICES ASSUME BodyToCome PROVE BodyToCome'
    OBVIOUS
  <2>1. /\ inbox = <<>> /\ m + n = 1
        /\ \A i \in DOMAIN stream : stream[i].part = "body" /\ stream[i].cseq = cseq
        /\ \A i \in DOMAIN owed : owed[i].part = "body" /\ owed[i].cseq = cseq
    BY DEF BodyToCome, IsBody, m, n
  <2>2. \A i \in DOMAIN stream' : stream'[i].part = "body" /\ stream'[i].cseq = cseq
    BY <1>6, <2>1
  <2> QED
    BY <1>1, <1>4, <1>5, <2>1, <2>2 DEF BodyToCome, IsBody
<1>12. WireSound'
  <2>1. \A t \in Keepalives : Exchanging(t)' <=> Exchanging(t)
    BY <1>1 DEF Exchanging
  <2>2. \A t \in Keepalives : Exchanging(t)' => awaited'[t] = cseq'
    BY <1>1, <2>1 DEF TasksInv, WireSound
  <2>3. \A t \in Keepalives : task'[t] = "head" => Asked' \/ AnsweredAt(1)' \/ AnsweredAt(2)'
    BY <1>1, <1>9, <1>10 DEF InStep
  <2>4. \A t \in Keepalives : task'[t] \in {"body", "body400"} => BodyToCome'
    BY <1>1, <1>11 DEF InStep
  <2>5. (\A t \in Keepalives : ~Exchanging(t)') => AtMostLeftover' /\ (inbox' = <<>> \/ closed')
    BY <1>1, <1>8, <2>1 DEF InStep
  <2>6. InStep'
    BY <1>4, <2>3, <2>4, <2>5 DEF InStep
  <2> QED
    BY <1>1, <2>2, <2>6 DEF WireSound
<1> QED
  BY <1>1, <1>3, <1>4, <1>12, TvOnly DEF TasksInv, TypeOK, OneExchange

LEMMA NextIInv == TasksInv /\ [Next]_vars => TasksInv'
<1> SUFFICES ASSUME TasksInv, [Next]_vars PROVE TasksInv'
  OBVIOUS
<1>1. CASE FirstPicture \/ Relay \/ (\E t \in Subscribers : GateOpens(t)) \/ StreamFails
  BY <1>1, SignalStep
<1>2. ASSUME NEW t \in Keepalives, Keepalive(t)
      PROVE  TasksInv'
  BY <1>2, LockStep, SendStep, ReadHeadStep, ReadJoinedStep, ReadGarbledStep, ReadClosedStep,
     ReadBodyStep DEF Keepalive
<1>3. CASE StreamEnds
  BY <1>3, StreamEndsStep
<1>4. CASE Return
  BY <1>4, ReturnStep
<1>5. CASE Tv
  BY <1>5, TvAnswersStep, TvSendsBodyStep DEF Tv
<1>6. CASE TvCloses
  BY <1>6, TvClosesStep
<1>7. ASSUME NEW t \in Keepalives, ReadStray(t) \/ ReadAstray(t)
      PROVE  TasksInv'
  BY <1>7, ReadStrayStep, ReadAstrayStep
<1>8. CASE UNCHANGED vars
  <2>1. TypeOK'
    BY <1>8 DEF TasksInv, TypeOK, vars, connVars
  <2> QED
    BY <1>8, <2>1, Elsewhere DEF vars, connVars
<1> QED
  BY <1>1, <1>2, <1>3, <1>4, <1>5, <1>6, <1>7, <1>8 DEF Next

(***************************************************************************)
(* The theorems.                                                           *)
(***************************************************************************)
\* At any time at most one request is under way and its sender holds the
\* Mutex.  Until a left-over body is read as a response, which takes a keepalive
\* that gave up, nothing is on the wire but that exchange and one body left over.
THEOREM Invariance == Spec => []TasksInv
<1>1. Init => TasksInv
  BY InitIInv
<1>2. TasksInv /\ [Next]_vars => TasksInv'
  BY NextIInv
<1> QED
  BY <1>1, <1>2, PTL DEF Spec

\* Whatever a keepalive in an exchange finds on the wire is its own, but for a
\* body left over in front.
LEMMA WireOwners ==
  ASSUME TasksInv, NEW t \in Keepalives, Exchanging(t), NEW i \in DOMAIN stream
  PROVE  stream[i].cseq = awaited[t] \/ (i = 1 /\ IsLeftover(stream[1]))
<1>1. stream # <<>> /\ i \in 1..Len(stream) /\ Len(stream) \in Nat
  <2>1. Len(stream) \in Nat /\ DOMAIN stream = 1..Len(stream) /\ (stream = <<>>) <=> (Len(stream) = 0)
    BY Lengths DEF TasksInv, TypeOK
  <2> QED
    BY <2>1
<1>2. Len(owed) \in Nat
  BY Lengths DEF TasksInv, TypeOK
<1>3. InStep /\ awaited[t] = cseq
  BY <1>1, ReadingInStep DEF TasksInv, WireSound
<1>4. CASE task[t] = "head" /\ Asked
  BY <1>1, <1>2, <1>4 DEF Asked, AtMostLeftover
<1>5. CASE task[t] = "head" /\ AnsweredAt(1)
  BY <1>1, <1>3, <1>5 DEF AnsweredAt, IsBody
<1>6. CASE task[t] = "head" /\ AnsweredAt(2)
  <2>1. i = 1 \/ i = 2 \/ i > 2
    BY <1>1
  <2> QED
    BY <1>3, <1>6, <2>1 DEF AnsweredAt, IsBody
<1>7. CASE task[t] \in {"body", "body400"}
  BY <1>3, <1>7 DEF InStep, BodyToCome, IsBody
<1> QED
  BY <1>3, <1>4, <1>5, <1>6, <1>7 DEF InStep, Exchanging

\* A step that takes nothing off the connection.
LEMMA NothingTaken ==
  ASSUME Len(stream) \in Nat, Len(stream') \in Nat, Len(stream') >= Len(stream)
  PROVE  Consumed = {}
BY DEF Consumed

\* Although rtsp_request never looks at the CSeq of what it reads, a keepalive
\* takes off the connection its own response only, and in front of it at most
\* the body of one that the other keepalive gave up on.
THEOREM ResponsesMatch == Spec => RepliesMatch
<1> DEFINE Own(t) == /\ Holds(t) /\ Exchanging(t)
                     /\ \A i \in Consumed : \/ stream[i].cseq = awaited[t]
                                            \/ i = 1 /\ IsLeftover(stream[1])
<1>1. ASSUME TasksInv, TasksInv', NEW t \in Keepalives, Exchanging(t)
      PROVE  Own(t)
  <2>1. Holds(t)
    BY <1>1 DEF TasksInv, OneExchange
  <2>2. Len(stream) \in Nat /\ DOMAIN stream = 1..Len(stream) /\ Len(stream') \in Nat
    <3>1. stream \in Seq(Segments) /\ stream' \in Seq(Segments)
      BY <1>1 DEF TasksInv, TypeOK
    <3> QED
      BY <3>1, Lengths
  <2>3. Consumed \subseteq DOMAIN stream
    BY <2>2 DEF Consumed
  <2> QED
    BY <1>1, <2>1, <2>3, WireOwners
<1>2. ASSUME TasksInv, TasksInv', [Next]_vars, Consumed # {}
      PROVE  \E t \in Keepalives : Exchanging(t)
  <2>1. Len(stream) \in Nat /\ Len(stream') \in Nat
    <3>1. stream \in Seq(Segments) /\ stream' \in Seq(Segments) /\ owed \in Seq(Segments)
      BY <1>2 DEF TasksInv, TypeOK
    <3> QED
      BY <3>1, Lengths
  <2>2. ~(Len(stream') >= Len(stream))
    BY <1>2, <2>1, NothingTaken
  <2>3. stream' # stream
    BY <2>1, <2>2
  <2>4. CASE TvAnswers
    <3>1. PICK status \in Statuses, more \in BOOLEAN :
            stream' = Append(stream, [part |-> "head", cseq |-> Head(inbox),
                                      status |-> status, more |-> more])
      BY <2>4 DEF TvAnswers
    <3>2. inbox # <<>> /\ inbox \in Seq(0..CSeqs-1)
      BY <1>2, <2>4 DEF TvAnswers, TasksInv, TypeOK
    <3>3. Head(inbox) \in 0..CSeqs-1
      BY <3>2, TailElements
    <3>4. [part |-> "head", cseq |-> Head(inbox), status |-> status, more |-> more] \in Segments
      BY <3>3 DEF Segments
    <3>5. Len(stream') = Len(stream) + 1
      BY <1>2, <3>1, <3>4, AppendProperties DEF TasksInv, TypeOK
    <3> QED
      BY <2>1, <2>2, <3>5
  <2>5. CASE TvSendsBody
    <3>1. stream \in Seq(Segments) /\ owed \in Seq(Segments) /\ stream' = stream \o owed
      BY <1>2, <2>5 DEF TasksInv, TypeOK, TvSendsBody
    <3>2. Len(stream') = Len(stream) + Len(owed) /\ Len(owed) \in Nat
      BY <3>1, ConcatProperties, Lengths
    <3> QED
      BY <2>1, <2>2, <3>2
  <2>6. ASSUME NEW t \in Keepalives,
               \/ ReadHead(t) \/ ReadJoined(t) \/ ReadGarbled(t) \/ ReadStray(t)
               \/ ReadClosed(t) \/ ReadBody(t)
        PROVE  Exchanging(t)
    BY <2>6 DEF ReadHead, ReadJoined, ReadGarbled, ReadStray, ReadClosed, ReadBody, Exchanging
  <2>7. ASSUME NEW t \in Keepalives, Keepalive(t)
        PROVE  Exchanging(t)
    BY <2>3, <2>6, <2>7 DEF Keepalive, Lock, SendRequest, connVars
  <2>8. ASSUME NEW t \in Keepalives, ReadStray(t) \/ ReadAstray(t)
        PROVE  Exchanging(t)
    BY <2>3, <2>6, <2>8 DEF ReadAstray, connVars
  <2> QED
    BY <1>2, <2>3, <2>4, <2>5, <2>7, <2>8
       DEF Next, Tv, FirstPicture, Relay, GateOpens, StreamEnds, StreamFails, Return, TvCloses,
           connVars, vars
<1>3. TasksInv /\ TasksInv' /\ [Next]_vars =>
        [Consumed # {} => \E t \in Keepalives : Own(t)]_vars
  BY <1>1, <1>2
<1> QED
  BY <1>3, Invariance, PTL DEF Spec, RepliesMatch
=============================================================================
