------------------------------ MODULE FpMemory ------------------------------
(***************************************************************************)
(* fpMem (tools/fpsap-helper/fpemu/fpexchange_interp.go): the memory of    *)
(* the ARM64 interpreter that computes the FairPlay hash.  Pages are made  *)
(* when they are first touched; a direct-mapped cache stands before the    *)
(* page map; accesses that cross a page are split.  It implements          *)
(* FlatMemory.                                                             *)
(*                                                                         *)
(* An access is a sequence of pieces, one for each page lookup; a step     *)
(* moves one.  Page objects are numbered in the order they are made, 0 is  *)
(* nil; a page address is the number of its page.                          *)
(***************************************************************************)
EXTENDS Integers, Sequences

CONSTANTS
  PageSize,             \* bytes in a page (4096)
  PageCount,            \* pages of the address space
  CacheSize,            \* fpPageCacheN
  CodePages,            \* the pages of setCodeRegion
  Words,                \* what write8 ... write64 store: sequences of bytes
  Blocks,               \* what writeN stores
  WordSizes,            \* sizes of read8 ... read64, in bytes
  BlockSizes,           \* sizes readN is called with
  Starts,               \* addresses at which accesses begin
  MaxOps                \* accesses in a behaviour (a bound of the model)

Space == PageSize * PageCount
Addresses == 0..Space-1
Pages == 0..PageCount-1
Offsets == 0..PageSize-1
Slots == 0..CacheSize-1
Bytes == 0..255

ASSUME MemoryAssumption ==
  /\ PageSize \in Nat \ {0} /\ PageSize % 8 = 0
  /\ PageCount \in Nat \ {0}
  /\ CacheSize \in Nat \ {0}
  /\ CodePages \subseteq Pages /\ CodePages # {}
  /\ Words \subseteq Seq(Bytes)
  /\ WordSizes \subseteq {1, 2, 4, 8}
  /\ \A w \in Words : Len(w) \in {1, 2, 4, 8}
  /\ Blocks \subseteq Seq(Bytes)
  /\ \A b \in Blocks : Len(b) \in 1..Space
  /\ BlockSizes \subseteq Nat \ {0}
  /\ Starts \subseteq Addresses
  /\ MaxOps \in Nat

VARIABLES
  heap,                 \* the page objects
  pages,                \* m.pages: the object of each page, or 0
  pcache,               \* m.pcache
  region,               \* the pages codeBase..codeEnd
  codeInsts,            \* m.codeInsts, by page
  op,                   \* the access that is going on
  done,                 \* off: bytes of it moved so far
  buf,                  \* b: bytes read so far
  result,               \* what the last read or fetch returned
  ops                   \* accesses so far (to bound them)

table == <<heap, pages, pcache>>
access == <<op, done, buf>>
vars == <<heap, pages, pcache, region, codeInsts, op, done, buf, result, ops>>

PageOf(a) == a \div PageSize
OffsetOf(a) == a % PageSize
At(a, i) == (a + i) % Space
ZeroPage == [o \in Offsets |-> 0]

NoOp == [kind |-> "none", how |-> "block", addr |-> 0, length |-> 0, data |-> <<>>]

Init ==
  /\ heap = <<>>
  /\ pages = [p \in Pages |-> 0]
  /\ pcache = [s \in Slots |-> [pa |-> 0, page |-> 0]]
  /\ region = {}
  /\ codeInsts = [p \in CodePages |-> ZeroPage]
  /\ op = NoOp
  /\ done = 0
  /\ buf = <<>>
  /\ result = <<>>
  /\ ops = 0

(***************************************************************************)
(* pageCached.                                                             *)
(***************************************************************************)
Slot(p) == p % CacheSize

\* Slot 0 holds page address 0 from the beginning: only nil tells.
Hit(p) == pcache[Slot(p)].pa = p /\ pcache[Slot(p)].page # 0

Missing(p) == ~Hit(p) /\ pages[p] = 0

\* The object pageCached returns.
Object(p) ==
  IF Hit(p) THEN pcache[Slot(p)].page
  ELSE IF pages[p] # 0 THEN pages[p] ELSE Len(heap) + 1

\* Mutant: the page that is entered into the map is not made.
HeapWithout(p) == heap

\* The heap with that object.
HeapWith(p) == IF Missing(p) THEN Append(heap, ZeroPage) ELSE heap

PageCached(p) ==
  /\ pages' = [pages EXCEPT ![p] = IF Missing(p) THEN Object(p) ELSE @]
  /\ pcache' = [pcache EXCEPT ![Slot(p)] = [pa |-> p, page |-> Object(p)]]

(***************************************************************************)
(* Accesses: read8 ... read64, write8 ... write64, readN, writeN.          *)
(***************************************************************************)
Idle == op.kind = "none"

Begin(o) ==
  /\ Idle
  /\ ops < MaxOps
  /\ ops' = ops + 1
  /\ op' = o
  /\ UNCHANGED <<table, region, codeInsts, done, buf, result>>

WriteWord ==
  \E a \in Starts, w \in Words :
    Begin([kind |-> "write", how |-> "word", addr |-> a, length |-> Len(w), data |-> w])

WriteBlock ==
  \E a \in Starts, b \in Blocks :
    Begin([kind |-> "write", how |-> "block", addr |-> a, length |-> Len(b), data |-> b])

ReadWord ==
  \E a \in Starts, n \in WordSizes :
    Begin([kind |-> "read", how |-> "word", addr |-> a, length |-> n, data |-> <<>>])

ReadBlock ==
  \E a \in Starts, n \in BlockSizes :
    Begin([kind |-> "read", how |-> "block", addr |-> a, length |-> n, data |-> <<>>])

InPage(a, w) == OffsetOf(a) <= PageSize - w

\* A word within a page is moved at once; 8 bytes that cross a page are moved
\* as two words of 4, and a smaller word that does byte by byte.
WordPiece(a, w) ==
  IF InPage(a, w) THEN w
  ELSE IF w = 8 /\ InPage(At(a, 4 * (done \div 4)), 4) THEN 4 ELSE 1

\* readN and writeN go on to the end of the page.
BlockPiece(a, n) ==
  LET left == PageSize - OffsetOf(At(a, done))
  IN  IF n - done < left THEN n - done ELSE left

Piece ==
  IF op.how = "word" THEN WordPiece(op.addr, op.length)
  ELSE BlockPiece(op.addr, op.length)

Here == At(op.addr, done)

\* The access goes on, or returns.
Advance ==
  IF done + Piece < op.length
  THEN /\ done' = done + Piece
       /\ UNCHANGED <<op, ops>>
  ELSE /\ op' = NoOp
       /\ done' = 0
       /\ UNCHANGED ops

Got ==
  LET page == HeapWith(PageOf(Here))[Object(PageOf(Here))]
  IN  buf \o [i \in 1..Piece |-> page[OffsetOf(Here) + i - 1]]

ReadPiece ==
  /\ op.kind = "read"
  /\ PageCached(PageOf(Here))
  /\ heap' = HeapWith(PageOf(Here))
  /\ IF done + Piece < op.length
     THEN buf' = Got /\ UNCHANGED result
     ELSE buf' = <<>> /\ result' = Got
  /\ Advance
  /\ UNCHANGED <<region, codeInsts>>

\* Mutant: every page gets the beginning of the data.
StoredFromStart(page) ==
  [o \in Offsets |->
     IF o \in OffsetOf(Here)..OffsetOf(Here) + Piece - 1
     THEN op.data[o - OffsetOf(Here) + 1]
     ELSE page[o]]

Stored(page) ==
  [o \in Offsets |->
     IF o \in OffsetOf(Here)..OffsetOf(Here) + Piece - 1
     THEN op.data[done + o - OffsetOf(Here) + 1]
     ELSE page[o]]

WritePiece ==
  /\ op.kind = "write"
  /\ PageCached(PageOf(Here))
  /\ heap' = [HeapWith(PageOf(Here)) EXCEPT ![Object(PageOf(Here))] = Stored(@)]
  /\ Advance
  /\ UNCHANGED <<region, codeInsts, buf, result>>

(***************************************************************************)
(* Loading and running.                                                    *)
(***************************************************************************)
\* mapRange of one page, while the snapshot is loaded.
MapRange(p) ==
  /\ Idle
  /\ region = {}
  /\ PageCached(p)
  /\ heap' = HeapWith(p)
  /\ UNCHANGED <<region, codeInsts, access, result, ops>>

\* The instructions of pages that are there are copied, once.
SetCodeRegion ==
  /\ Idle
  /\ region = {}
  /\ region' = CodePages
  /\ codeInsts' = [p \in CodePages |-> IF pages[p] = 0 THEN ZeroPage ELSE heap[pages[p]]]
  /\ UNCHANGED <<table, access, result, ops>>

\* The page an instruction is fetched from; the cache is not asked.
CodePage(p) ==
  IF p \in region THEN codeInsts[p]
  ELSE IF pages[p] = 0 THEN ZeroPage ELSE heap[pages[p]]

FetchInst(pc) ==
  /\ Idle
  /\ region # {}
  /\ ops < MaxOps
  /\ ops' = ops + 1
  /\ result' = [i \in 1..4 |-> CodePage(PageOf(pc))[OffsetOf(pc) + i - 1]]
  /\ UNCHANGED <<table, region, codeInsts, access>>

Next ==
  \/ WriteWord
  \/ WriteBlock
  \/ ReadWord
  \/ ReadBlock
  \/ ReadPiece
  \/ WritePiece
  \/ \E p \in Pages : MapRange(p)
  \/ SetCodeRegion
  \/ \E pc \in Addresses : pc % 4 = 0 /\ FetchInst(pc)

Spec == Init /\ [][Next]_vars

(***************************************************************************)
(* Properties.                                                             *)
(***************************************************************************)
Contents == [Offsets -> Bytes]

Ops == [kind : {"none", "read", "write"}, how : {"word", "block"},
        addr : Addresses, length : Nat, data : Seq(Bytes)]

\* Types of the variables.
TypeOK ==
  /\ heap \in Seq(Contents)
  /\ pages \in [Pages -> 0..Len(heap)]
  /\ pcache \in [Slots -> [pa : Pages, page : 0..Len(heap)]]
  /\ region \in {{}, CodePages}
  /\ codeInsts \in [CodePages -> Contents]
  /\ op \in Ops
  /\ done \in Nat
  /\ buf \in Seq(Bytes)
  /\ result \in Seq(Bytes)
  /\ ops \in 0..MaxOps

\* An entry of the cache has the object that the page map has: no write goes
\* to an object that other reads do not see.
Coherent ==
  \A s \in Slots :
    pcache[s].page # 0 =>
      /\ Slot(pcache[s].pa) = s
      /\ pages[pcache[s].pa] = pcache[s].page

\* No two pages share an object.
NoAliases ==
  \A p, q \in Pages : pages[p] # 0 /\ pages[p] = pages[q] => p = q

\* Also after any sequence of accesses to pages that share a slot.
PageTable == Coherent /\ NoAliases

\* The memory as the guest sees it: the pages, and on top of them what the
\* write that is going on has yet to store.
InPages(a) == IF pages[PageOf(a)] = 0 THEN 0 ELSE heap[pages[PageOf(a)]][OffsetOf(a)]

Memory ==
  [a \in Addresses |->
     LET i == (a - op.addr) % Space
     IN  IF op.kind = "write" /\ i \in done..op.length-1 THEN op.data[i + 1] ELSE InPages(a)]

Code ==
  [a \in Addresses |->
     IF PageOf(a) \in region THEN codeInsts[PageOf(a)][OffsetOf(a)] ELSE 0]

Flat == INSTANCE FlatMemory WITH
  Payloads <- Words \cup Blocks,
  Lengths <- WordSizes \cup BlockSizes,
  CodeAddresses <- {a \in Addresses : PageOf(a) \in CodePages},
  bytes <- Memory,
  code <- Code,
  sealed <- region # {}

(***************************************************************************)
(* The inductive invariant of TypeOK and PageTable: how far an access may  *)
(* be, so that its pieces stay within their page and within its data.      *)
(***************************************************************************)
\* A word within a page has not begun; one of 8 bytes that crosses a page is
\* not in the middle of a half within a page.
WordDone(a, w) ==
  /\ InPage(a, w) => done = 0
  /\ w = 8 /\ InPage(At(a, 0), 4) => done \notin 1..3
  /\ w = 8 /\ InPage(At(a, 4), 4) => done \notin 5..7

Progress ==
  /\ op.kind = "none" => done = 0
  /\ op.kind # "none" => done < op.length
  /\ op.kind = "write" => Len(op.data) = op.length
  /\ op.kind # "none" /\ op.how = "word" =>
       op.length \in {1, 2, 4, 8} /\ WordDone(op.addr, op.length)

PagesInv == TypeOK /\ PageTable /\ Progress

\* Whatever the pieces, pages and cache entries an access takes, the guest
\* sees one flat memory in which every access is done at once.
FlatMemorySpec == Flat!Spec
=============================================================================
