--------------------------- MODULE FpMemoryProofs ---------------------------
(***************************************************************************)
(* Proofs about FpMemory, for every page size, address space, cache size   *)
(* and code region, and whatever is read and written.                      *)
(***************************************************************************)
EXTENDS FpMemory, SequenceTheorems, TLAPS

\* The sizes the constants make.
LEMMA Sizes ==
  /\ PageSize \in Nat /\ PageSize >= 8
  /\ PageCount \in Nat \ {0}
  /\ CacheSize \in Nat \ {0}
  /\ Space \in Nat \ {0}
<1>1. /\ PageSize \in Nat \ {0} /\ PageSize % 8 = 0
      /\ PageCount \in Nat \ {0}
      /\ CacheSize \in Nat \ {0}
  BY MemoryAssumption
<1>2. PageSize >= 8
  BY <1>1
<1>3. \A x, y \in Nat \ {0} : x * y \in Nat \ {0}
  OBVIOUS
<1> QED
  BY <1>1, <1>2, <1>3 DEF Space

\* An address splits into the number of its page and the offset in it.
LEMMA AddressSplits ==
  ASSUME NEW a \in Addresses
  PROVE  /\ PageOf(a) \in Pages
         /\ OffsetOf(a) \in Offsets
         /\ a = PageSize * PageOf(a) + OffsetOf(a)
<1>1. /\ a \in Nat /\ a < PageSize * PageCount
      /\ PageSize \in Nat \ {0} /\ PageCount \in Nat \ {0}
  BY Sizes DEF Addresses, Space
<1>2. \A x \in Nat, s \in Nat \ {0} : /\ x \div s \in Nat
                                      /\ x % s \in 0..s-1
                                      /\ x = s * (x \div s) + (x % s)
  OBVIOUS
<1>3. /\ PageOf(a) \in Nat
      /\ OffsetOf(a) \in Offsets
      /\ a = PageSize * PageOf(a) + OffsetOf(a)
  BY <1>1, <1>2 DEF PageOf, OffsetOf, Offsets
<1>4. PageOf(a) < PageCount
  <2>1. \A q, c \in Nat, s \in Nat : q >= c => s * q >= s * c
    OBVIOUS
  <2>2. PageSize * PageOf(a) < PageSize * PageCount
    <3>1. PageSize * PageOf(a) \in Nat
      BY <1>1, <1>3
    <3> QED
      BY <1>1, <1>3, <3>1 DEF Offsets
  <2> QED
    BY <1>1, <1>3, <2>1, <2>2
<1> QED
  BY <1>1, <1>3, <1>4 DEF Pages

\* Addresses wrap around within the space.
LEMMA AtIsAddress ==
  ASSUME NEW a \in Addresses, NEW i \in Nat
  PROVE  At(a, i) \in Addresses
<1>1. \A x \in Nat, s \in Nat \ {0} : x % s \in 0..s-1
  OBVIOUS
<1>2. a + i \in Nat /\ Space \in Nat \ {0}
  BY Sizes DEF Addresses
<1> QED
  BY <1>1, <1>2 DEF At, Addresses

\* Every page has a slot of the cache.
LEMMA SlotIsSlot ==
  ASSUME NEW p \in Pages
  PROVE  Slot(p) \in Slots
<1>1. \A x \in Nat, s \in Nat \ {0} : x % s \in 0..s-1
  OBVIOUS
<1> QED
  BY <1>1, Sizes DEF Slot, Slots, Pages

\* A new page is a page.
LEMMA ZeroPageIsPage == ZeroPage \in Contents
  BY DEF ZeroPage, Contents, Bytes

\* The object pageCached returns exists, and is the page's object from then on.
LEMMA ObjectIsPage ==
  ASSUME TypeOK, PageTable, NEW p \in Pages
  PROVE  /\ HeapWith(p) \in Seq(Contents)
         /\ Len(HeapWith(p)) >= Len(heap)
         /\ Object(p) \in 1..Len(HeapWith(p))
         /\ pages[p] # 0 => Object(p) = pages[p] /\ HeapWith(p) = heap
         /\ pages[p] = 0 => Object(p) = Len(heap) + 1 /\ Missing(p)
<1>1. /\ heap \in Seq(Contents)
      /\ pages \in [Pages -> 0..Len(heap)]
      /\ pcache \in [Slots -> [pa : Pages, page : 0..Len(heap)]]
      /\ Slot(p) \in Slots
      /\ Len(heap) \in Nat
  BY SlotIsSlot DEF TypeOK
<1>2. Hit(p) => pages[p] = pcache[Slot(p)].page /\ pages[p] # 0
  BY <1>1 DEF Hit, PageTable, Coherent
<1>3. CASE pages[p] # 0
  <2>1. Object(p) = pages[p] /\ HeapWith(p) = heap
    BY <1>2, <1>3 DEF Object, HeapWith, Missing
  <2> QED
    BY <1>1, <1>3, <2>1
<1>4. CASE pages[p] = 0
  <2>1. ~Hit(p) /\ Missing(p)
    BY <1>2, <1>4 DEF Missing
  <2>2. Object(p) = Len(heap) + 1 /\ HeapWith(p) = Append(heap, ZeroPage)
    BY <1>4, <2>1 DEF Object, HeapWith
  <2>3. Append(heap, ZeroPage) \in Seq(Contents) /\ Len(Append(heap, ZeroPage)) = Len(heap) + 1
    BY <1>1, ZeroPageIsPage
  <2> QED
    BY <1>1, <1>4, <2>1, <2>2, <2>3
<1> QED
  BY <1>3, <1>4

\* pageCached keeps the page table, whatever is then stored in the page.
LEMMA PageCachedKeeps ==
  ASSUME TypeOK, PageTable, NEW p \in Pages, PageCached(p),
         heap' \in Seq(Contents), Len(heap') = Len(HeapWith(p))
  PROVE  /\ pages' \in [Pages -> 0..Len(heap')]
         /\ pcache' \in [Slots -> [pa : Pages, page : 0..Len(heap')]]
         /\ PageTable'
<1>1. /\ pages \in [Pages -> 0..Len(heap)]
      /\ pcache \in [Slots -> [pa : Pages, page : 0..Len(heap)]]
      /\ Slot(p) \in Slots
      /\ heap \in Seq(Contents)
      /\ Len(heap) \in Nat /\ Len(heap') \in Nat
  BY SlotIsSlot DEF TypeOK
<1>2. /\ Len(heap') >= Len(heap)
      /\ Object(p) \in 1..Len(heap')
      /\ pages[p] # 0 => Object(p) = pages[p]
      /\ pages[p] = 0 => Object(p) = Len(heap) + 1 /\ Missing(p)
  BY ObjectIsPage
<1>3. pages' = [pages EXCEPT ![p] = Object(p)]
  <2>1. CASE pages[p] = 0
    BY <1>1, <1>2, <2>1 DEF PageCached
  <2>2. CASE pages[p] # 0
    BY <1>1, <1>2, <2>2 DEF PageCached, Missing
  <2> QED
    BY <2>1, <2>2
<1>4. pcache' = [pcache EXCEPT ![Slot(p)] = [pa |-> p, page |-> Object(p)]]
  BY DEF PageCached
<1>5. pages' \in [Pages -> 0..Len(heap')]
  BY <1>1, <1>2, <1>3
<1>6. pcache' \in [Slots -> [pa : Pages, page : 0..Len(heap')]]
  BY <1>1, <1>2, <1>4
<1>7. Coherent'
  <2> SUFFICES ASSUME NEW s \in Slots, pcache'[s].page # 0
               PROVE  /\ Slot(pcache'[s].pa) = s
                      /\ pages'[pcache'[s].pa] = pcache'[s].page
    BY DEF Coherent, Slot
  <2>1. CASE s = Slot(p)
    BY <1>1, <1>3, <1>4, <2>1
  <2>2. CASE s # Slot(p)
    <3>1. pcache'[s] = pcache[s] /\ pcache[s].pa \in Pages
      BY <1>1, <1>4, <2>2
    <3>2. Slot(pcache[s].pa) = s /\ pages[pcache[s].pa] = pcache[s].page
      BY <3>1 DEF PageTable, Coherent
    <3>3. pcache[s].pa # p
      BY <2>2, <3>2
    <3> QED
      BY <1>1, <1>3, <3>1, <3>2, <3>3
  <2> QED
    BY <2>1, <2>2
<1>8. NoAliases'
  <2> SUFFICES ASSUME NEW q \in Pages, NEW r \in Pages,
                      pages'[q] # 0, pages'[q] = pages'[r]
               PROVE  q = r
    BY DEF NoAliases
  <2>1. \A q2 \in Pages : q2 # p => pages'[q2] = pages[q2] /\ pages[q2] <= Len(heap)
    BY <1>1, <1>3
  <2>2. pages'[p] = Object(p)
    BY <1>1, <1>3
  <2>3. \A q2 \in Pages : q2 # p /\ pages[q2] # 0 => pages[q2] # Object(p)
    <3>1. CASE pages[p] = 0
      BY <1>1, <1>2, <2>1, <3>1
    <3>2. CASE pages[p] # 0
      BY <1>2, <3>2 DEF PageTable, NoAliases
    <3> QED
      BY <3>1, <3>2
  <2> QED
    BY <2>1, <2>2, <2>3 DEF PageTable, NoAliases
<1> QED
  BY <1>5, <1>6, <1>7, <1>8 DEF PageTable

\* A piece is not empty, and stays within the access and within its page.
LEMMA PieceFits ==
  ASSUME TypeOK, Progress, op.kind # "none"
  PROVE  /\ Here \in Addresses
         /\ Piece \in Nat \ {0}
         /\ done + Piece <= op.length
         /\ OffsetOf(Here) + Piece <= PageSize
<1>1. /\ op \in Ops /\ op.addr \in Addresses
      /\ op.length \in Nat /\ done \in Nat /\ done < op.length
      /\ op.how \in {"word", "block"}
      /\ PageSize \in Nat /\ PageSize >= 8
  BY Sizes DEF TypeOK, Progress, Ops
<1>2. /\ Here \in Addresses
      /\ OffsetOf(Here) \in 0..PageSize-1
  BY <1>1, AtIsAddress, AddressSplits DEF Here, Offsets
<1>3. CASE op.how = "block"
  <2>1. Piece = BlockPiece(op.addr, op.length)
    BY <1>3 DEF Piece
  <2>2. Piece = IF op.length - done < PageSize - OffsetOf(Here)
                THEN op.length - done ELSE PageSize - OffsetOf(Here)
    BY <2>1 DEF BlockPiece, Here
  <2> QED
    BY <1>1, <1>2, <2>2
<1>4. CASE op.how = "word"
  <2>1. op.length \in {1, 2, 4, 8} /\ WordDone(op.addr, op.length)
    BY <1>4 DEF Progress
  <2>2. Piece = WordPiece(op.addr, op.length)
    BY <1>4 DEF Piece
  <2>3. CASE InPage(op.addr, op.length)
    <3>1. done = 0 /\ Piece = op.length
      BY <2>1, <2>2, <2>3 DEF WordDone, WordPiece
    <3>2. Here = op.addr
      <4>1. \A x \in Nat, y \in Nat : x < y => (x + 0) % y = x
        OBVIOUS
      <4> QED
        BY <1>1, <3>1, <4>1, Sizes DEF Here, At, Addresses
    <3> QED
      BY <1>1, <1>2, <2>3, <3>1, <3>2 DEF InPage
  <2>4. CASE ~InPage(op.addr, op.length) /\ op.length = 8
                /\ InPage(At(op.addr, 4 * (done \div 4)), 4)
    <3>1. Piece = 4
      BY <2>2, <2>4 DEF WordPiece
    <3>2. done \in 0..7
      BY <1>1, <2>4
    <3>3. done = 0 \/ done = 4
      <4>1. CASE done \in 0..3
        <5>1. 4 * (done \div 4) = 0
          BY <4>1
        <5> QED
          BY <2>1, <2>4, <4>1, <5>1 DEF WordDone
      <4>2. CASE done \in 4..7
        <5>1. 4 * (done \div 4) = 4
          BY <4>2
        <5> QED
          BY <2>1, <2>4, <4>2, <5>1 DEF WordDone
      <4> QED
        BY <3>2, <4>1, <4>2
    <3>4. 4 * (done \div 4) = done
      BY <3>3
    <3>5. InPage(Here, 4)
      BY <2>4, <3>4 DEF Here
    <3> QED
      BY <1>1, <1>2, <2>4, <3>1, <3>3, <3>5 DEF InPage
  <2>5. CASE ~InPage(op.addr, op.length)
                /\ ~(op.length = 8 /\ InPage(At(op.addr, 4 * (done \div 4)), 4))
    <3>1. Piece = 1
      BY <2>2, <2>5 DEF WordPiece
    <3> QED
      BY <1>1, <1>2, <3>1
  <2> QED
    BY <2>3, <2>4, <2>5
<1> QED
  BY <1>1, <1>3, <1>4

\* No page, no entry with an object, no access.
LEMMA InitIInv == Init => PagesInv
<1> SUFFICES ASSUME Init
             PROVE  PagesInv
  OBVIOUS
<1>1. /\ heap \in Seq(Contents) /\ Len(heap) = 0
      /\ buf \in Seq(Bytes) /\ result \in Seq(Bytes)
  BY DEF Init
<1>2. /\ pages \in [Pages -> 0..Len(heap)]
      /\ pcache \in [Slots -> [pa : Pages, page : 0..Len(heap)]]
  <2>1. 0 \in Pages
    BY Sizes DEF Pages
  <2> QED
    BY <1>1, <2>1 DEF Init
<1>3. codeInsts \in [CodePages -> Contents]
  BY ZeroPageIsPage DEF Init
<1>4. op \in Ops /\ done \in Nat
  <2>1. 0 \in Addresses
    BY Sizes DEF Addresses
  <2> QED
    BY <2>1 DEF Init, NoOp, Ops
<1>5. TypeOK
  BY <1>1, <1>2, <1>3, <1>4, MemoryAssumption DEF TypeOK, Init
<1>6. PageTable
  BY DEF Init, PageTable, Coherent, NoAliases
<1>7. Progress
  BY DEF Init, Progress, NoOp
<1> QED
  BY <1>5, <1>6, <1>7 DEF PagesInv

\* An access that goes on is again between two pieces.
LEMMA AdvanceKeeps ==
  ASSUME TypeOK, Progress, op.kind # "none", Advance
  PROVE  /\ op' \in Ops
         /\ done' \in Nat
         /\ ops' \in 0..MaxOps
         /\ Progress'
<1>1. /\ op \in Ops
      /\ op.length \in Nat /\ done \in Nat
      /\ ops \in 0..MaxOps
      /\ Piece \in Nat \ {0}
      /\ done + Piece <= op.length
  BY PieceFits DEF TypeOK, Ops
<1>2. CASE done + Piece < op.length
  <2>1. op' = op /\ done' = done + Piece /\ ops' = ops
    BY <1>2 DEF Advance
  <2>2. op.kind = "write" => Len(op.data) = op.length
    BY DEF Progress
  <2>3. ASSUME op.how = "word"
        PROVE  op.length \in {1, 2, 4, 8} /\ WordDone(op.addr, op.length)'
    <3>1. op.length \in {1, 2, 4, 8} /\ WordDone(op.addr, op.length)
      BY <2>3 DEF Progress
    <3>2. Piece = WordPiece(op.addr, op.length)
      BY <2>3 DEF Piece
    <3>3. ~InPage(op.addr, op.length)
      BY <1>1, <1>2, <3>1, <3>2 DEF WordPiece, WordDone
    <3>4. ASSUME op.length = 8
          PROVE  /\ InPage(At(op.addr, 0), 4) => done + Piece \notin 1..3
                 /\ InPage(At(op.addr, 4), 4) => done + Piece \notin 5..7
      <4>1. CASE done \in 0..3
        <5>1. 4 * (done \div 4) = 0
          BY <4>1
        <5>2. CASE InPage(At(op.addr, 0), 4)
          <6>1. Piece = 4 /\ done = 0
            BY <3>1, <3>2, <3>3, <3>4, <4>1, <5>1, <5>2 DEF WordPiece, WordDone
          <6> QED
            BY <6>1
        <5>3. CASE ~InPage(At(op.addr, 0), 4)
          <6>1. Piece = 1
            BY <3>2, <3>3, <5>1, <5>3 DEF WordPiece
          <6> QED
            BY <4>1, <5>3, <6>1
        <5> QED
          BY <5>2, <5>3
      <4>2. CASE done \in 4..7
        <5>1. 4 * (done \div 4) = 4
          BY <4>2
        <5>2. CASE InPage(At(op.addr, 4), 4)
          <6>1. Piece = 4 /\ done = 4
            BY <3>1, <3>2, <3>3, <3>4, <4>2, <5>1, <5>2 DEF WordPiece, WordDone
          <6> QED
            BY <1>2, <3>4, <6>1
        <5>3. CASE ~InPage(At(op.addr, 4), 4)
          BY <1>1, <4>2, <5>3
        <5> QED
          BY <5>2, <5>3
      <4>3. done \in 0..7
        BY <1>1, <1>2, <3>4
      <4> QED
        BY <4>1, <4>2, <4>3
    <3> QED
      BY <2>1, <3>1, <3>3, <3>4 DEF WordDone, InPage, OffsetOf, At, Space
  <2> QED
    BY <1>1, <1>2, <2>1, <2>2, <2>3 DEF Progress
<1>3. CASE ~(done + Piece < op.length)
  <2>1. op' = NoOp /\ done' = 0 /\ ops' = ops
    BY <1>3 DEF Advance
  <2>2. 0 \in Addresses
    BY Sizes DEF Addresses
  <2> QED
    BY <1>1, <2>1, <2>2 DEF NoOp, Ops, Progress
<1> QED
  BY <1>2, <1>3

\* Stores and reads stay within a page object: nothing but bytes get there.
LEMMA PieceIsBytes ==
  ASSUME PagesInv, op.kind # "none", NEW page \in Contents
  PROVE  /\ op.kind = "write" => Stored(page) \in Contents
         /\ [i \in 1..Piece |-> page[OffsetOf(Here) + i - 1]] \in Seq(Bytes)
<1>1. /\ op \in Ops /\ done \in Nat
      /\ OffsetOf(Here) \in 0..PageSize-1
      /\ Piece \in Nat \ {0}
      /\ done + Piece <= op.length
      /\ OffsetOf(Here) + Piece <= PageSize
      /\ PageSize \in Nat
      /\ op.length \in Nat
  BY PieceFits, AddressSplits, Sizes DEF PagesInv, TypeOK, Offsets, Ops
<1>2. ASSUME op.kind = "write"
      PROVE  Stored(page) \in Contents
  <2>1. op.data \in Seq(Bytes) /\ Len(op.data) = op.length
    BY <1>1, <1>2 DEF PagesInv, Progress, Ops
  <2>2. ASSUME NEW o \in Offsets, o \in OffsetOf(Here)..OffsetOf(Here) + Piece - 1
        PROVE  op.data[done + o - OffsetOf(Here) + 1] \in Bytes
    <3>1. done + o - OffsetOf(Here) + 1 \in 1..Len(op.data)
      BY <1>1, <2>1, <2>2
    <3> QED
      BY <2>1, <3>1, ElementOfSeq
  <2>3. \A o \in Offsets : page[o] \in Bytes
    BY DEF Contents
  <2> QED
    BY <2>2, <2>3 DEF Stored, Contents
<1>3. [i \in 1..Piece |-> page[OffsetOf(Here) + i - 1]] \in Seq(Bytes)
  <2>1. \A i \in 1..Piece : OffsetOf(Here) + i - 1 \in Offsets
    BY <1>1 DEF Offsets
  <2>2. [i \in 1..Piece |-> page[OffsetOf(Here) + i - 1]] \in [1..Piece -> Bytes]
    BY <2>1 DEF Contents
  <2>3. \A n \in Nat : \A f \in [1..n -> Bytes] : f \in Seq(Bytes)
    OBVIOUS
  <2> QED
    BY <1>1, <2>2, <2>3
<1> QED
  BY <1>2, <1>3

\* The page an access is at, before what it stores.
LEMMA PageIsThere ==
  ASSUME PagesInv, NEW p \in Pages
  PROVE  HeapWith(p)[Object(p)] \in Contents
BY ObjectIsPage, ElementOfSeq DEF PagesInv

\* Beginning an access touches neither pages nor cache.
LEMMA BeginKeeps ==
  ASSUME PagesInv, NEW o \in Ops, Begin(o),
         o.kind # "none",
         o.length \in Nat \ {0},
         o.kind = "write" => Len(o.data) = o.length,
         o.how = "word" => o.length \in {1, 2, 4, 8}
  PROVE  PagesInv'
<1>1. TypeOK'
  BY MemoryAssumption DEF PagesInv, TypeOK, Begin, table
<1>2. PageTable'
  BY DEF PagesInv, PageTable, Coherent, NoAliases, Begin, table, Slot
<1>3. Progress'
  <2>1. done = 0 /\ done' = 0 /\ op' = o
    BY DEF PagesInv, Progress, Begin, Idle
  <2> QED
    BY <2>1 DEF Progress, WordDone
<1> QED
  BY <1>1, <1>2, <1>3 DEF PagesInv

\* A piece of a read makes at most one page and returns bytes.
LEMMA ReadPieceKeeps ==
  ASSUME PagesInv, ReadPiece
  PROVE  PagesInv'
<1> DEFINE p == PageOf(Here)
<1>1. /\ op.kind # "none"
      /\ PageCached(p)
      /\ heap' = HeapWith(p)
      /\ Advance
      /\ p \in Pages
  BY PieceFits, AddressSplits DEF ReadPiece, PagesInv
<1>2. Got \in Seq(Bytes)
  <2>1. [i \in 1..Piece |-> HeapWith(p)[Object(p)][OffsetOf(Here) + i - 1]] \in Seq(Bytes)
    BY <1>1, PageIsThere, PieceIsBytes
  <2>2. buf \in Seq(Bytes)
    BY DEF PagesInv, TypeOK
  <2> QED
    BY <2>1, <2>2, ConcatProperties DEF Got
<1>3. buf' \in Seq(Bytes) /\ result' \in Seq(Bytes)
  <2>1. /\ <<>> \in Seq(Bytes)
        /\ result \in Seq(Bytes)
    BY DEF PagesInv, TypeOK
  <2> QED
    BY <1>2, <2>1 DEF ReadPiece
<1> HIDE DEF p
<1>4. /\ heap' \in Seq(Contents)
      /\ pages' \in [Pages -> 0..Len(heap')]
      /\ pcache' \in [Slots -> [pa : Pages, page : 0..Len(heap')]]
      /\ PageTable'
  BY <1>1, ObjectIsPage, PageCachedKeeps DEF PagesInv
<1>5. op' \in Ops /\ done' \in Nat /\ ops' \in 0..MaxOps /\ Progress'
  BY <1>1, AdvanceKeeps DEF PagesInv
<1> QED
  BY <1>3, <1>4, <1>5 DEF PagesInv, TypeOK, ReadPiece

\* A piece of a write stays within the object of its page.
LEMMA WritePieceKeeps ==
  ASSUME PagesInv, WritePiece
  PROVE  PagesInv'
<1> DEFINE p == PageOf(Here)
<1>1. /\ op.kind = "write"
      /\ PageCached(p)
      /\ heap' = [HeapWith(p) EXCEPT ![Object(p)] = Stored(HeapWith(p)[Object(p)])]
      /\ Advance
      /\ p \in Pages
  BY PieceFits, AddressSplits DEF WritePiece, PagesInv
<1> HIDE DEF p
<1>2. /\ HeapWith(p) \in Seq(Contents)
      /\ Object(p) \in 1..Len(HeapWith(p))
      /\ Stored(HeapWith(p)[Object(p)]) \in Contents
  BY <1>1, ObjectIsPage, PageIsThere, PieceIsBytes DEF PagesInv
<1>3. heap' \in Seq(Contents) /\ Len(heap') = Len(HeapWith(p))
  BY <1>1, <1>2, ExceptSeq
<1>4. /\ pages' \in [Pages -> 0..Len(heap')]
      /\ pcache' \in [Slots -> [pa : Pages, page : 0..Len(heap')]]
      /\ PageTable'
  BY <1>1, <1>3, PageCachedKeeps DEF PagesInv
<1>5. op' \in Ops /\ done' \in Nat /\ ops' \in 0..MaxOps /\ Progress'
  BY <1>1, AdvanceKeeps DEF PagesInv
<1> QED
  BY <1>3, <1>4, <1>5 DEF PagesInv, TypeOK, WritePiece

\* Mapping a page is a lookup of it.
LEMMA MapRangeKeeps ==
  ASSUME PagesInv, NEW p \in Pages, MapRange(p)
  PROVE  PagesInv'
<1>1. PageCached(p) /\ heap' = HeapWith(p)
  BY DEF MapRange
<1>2. /\ heap' \in Seq(Contents)
      /\ pages' \in [Pages -> 0..Len(heap')]
      /\ pcache' \in [Slots -> [pa : Pages, page : 0..Len(heap')]]
      /\ PageTable'
  BY <1>1, ObjectIsPage, PageCachedKeeps DEF PagesInv
<1>3. Progress'
  BY DEF PagesInv, Progress, WordDone, MapRange, access
<1> QED
  BY <1>2, <1>3 DEF PagesInv, TypeOK, MapRange, access

\* The snapshot of the code region consists of pages.
LEMMA SetCodeRegionKeeps ==
  ASSUME PagesInv, SetCodeRegion
  PROVE  PagesInv'
<1>1. codeInsts' \in [CodePages -> Contents]
  <2>1. ASSUME NEW p \in CodePages
        PROVE  (IF pages[p] = 0 THEN ZeroPage ELSE heap[pages[p]]) \in Contents
    <3>1. p \in Pages
      BY MemoryAssumption
    <3>2. pages[p] # 0 => pages[p] \in 1..Len(heap)
      BY <3>1 DEF PagesInv, TypeOK
    <3> QED
      BY <3>2, ZeroPageIsPage, ElementOfSeq DEF PagesInv, TypeOK
  <2> QED
    BY <2>1 DEF SetCodeRegion
<1>2. PageTable'
  BY DEF PagesInv, PageTable, Coherent, NoAliases, SetCodeRegion, table, Slot
<1>3. Progress'
  BY DEF PagesInv, Progress, WordDone, SetCodeRegion, access
<1> QED
  BY <1>1, <1>2, <1>3 DEF PagesInv, TypeOK, SetCodeRegion, table, access

\* The four bytes of an aligned instruction are in one page.
LEMMA InstructionInPage ==
  ASSUME NEW pc \in Addresses, pc % 4 = 0
  PROVE  OffsetOf(pc) + 3 \in Offsets
<1>1. /\ pc \in Nat
      /\ PageOf(pc) \in Nat
      /\ OffsetOf(pc) \in 0..PageSize-1
      /\ pc = PageSize * PageOf(pc) + OffsetOf(pc)
      /\ PageSize \in Nat
  BY AddressSplits, Sizes DEF Pages, Offsets, Addresses
<1>2. PageSize % 8 = 0
  BY MemoryAssumption
<1>3. PICK k \in Nat : PageSize = 8 * k
  <2>1. PageSize = 8 * (PageSize \div 8) /\ PageSize \div 8 \in Nat
    BY <1>1, <1>2
  <2> QED
    BY <2>1
<1>4. PICK m \in Nat : PageSize * PageOf(pc) = 4 * m
  <2>1. \A x, y \in Nat : (8 * x) * y = 4 * (2 * (x * y)) /\ 2 * (x * y) \in Nat
    OBVIOUS
  <2>2. PageSize * PageOf(pc) = 4 * (2 * (k * PageOf(pc))) /\ 2 * (k * PageOf(pc)) \in Nat
    BY <1>1, <1>3, <2>1
  <2> QED
    BY <2>2
<1>5. OffsetOf(pc) % 4 = 0
  BY <1>1, <1>4
<1> QED
  BY <1>1, <1>3, <1>5 DEF Offsets

\* A fetch changes only its result.
LEMMA FetchInstKeeps ==
  ASSUME PagesInv, NEW pc \in Addresses, pc % 4 = 0, FetchInst(pc)
  PROVE  PagesInv'
<1>1. CodePage(PageOf(pc)) \in Contents
  <2>1. PageOf(pc) \in Pages
    BY AddressSplits
  <2>2. pages[PageOf(pc)] # 0 => heap[pages[PageOf(pc)]] \in Contents
    <3>1. pages[PageOf(pc)] # 0 => pages[PageOf(pc)] \in 1..Len(heap)
      BY <2>1 DEF PagesInv, TypeOK
    <3> QED
      BY <3>1, ElementOfSeq DEF PagesInv, TypeOK
  <2> QED
    BY <2>2, ZeroPageIsPage DEF PagesInv, TypeOK, CodePage
<1>2. [i \in 1..4 |-> CodePage(PageOf(pc))[OffsetOf(pc) + i - 1]] \in Seq(Bytes)
  <2>1. /\ OffsetOf(pc) \in 0..PageSize-1
        /\ OffsetOf(pc) + 3 \in Offsets
        /\ PageSize \in Nat
    BY AddressSplits, InstructionInPage, Sizes DEF Offsets
  <2>2. \A i \in 1..4 : OffsetOf(pc) + i - 1 \in Offsets
    BY <2>1 DEF Offsets
  <2>3. [i \in 1..4 |-> CodePage(PageOf(pc))[OffsetOf(pc) + i - 1]] \in [1..4 -> Bytes]
    BY <1>1, <2>2 DEF Contents
  <2>4. \A n \in Nat : \A f \in [1..n -> Bytes] : f \in Seq(Bytes)
    OBVIOUS
  <2> QED
    BY <2>3, <2>4
<1>3. result' \in Seq(Bytes)
  BY <1>2 DEF FetchInst
<1>4. ops' \in 0..MaxOps
  BY MemoryAssumption DEF PagesInv, TypeOK, FetchInst
<1>5. PageTable'
  BY DEF PagesInv, PageTable, Coherent, NoAliases, FetchInst, table, Slot
<1>6. Progress'
  BY DEF PagesInv, Progress, WordDone, FetchInst, access
<1> QED
  BY <1>3, <1>4, <1>5, <1>6 DEF PagesInv, TypeOK, FetchInst, table, access

\* Every step preserves the inductive invariant.
LEMMA StepIInv == PagesInv /\ [Next]_vars => PagesInv'
<1> SUFFICES ASSUME PagesInv, [Next]_vars
             PROVE  PagesInv'
  OBVIOUS
<1>1. CASE WriteWord
  <2>1. PICK a \in Starts, w \in Words :
          Begin([kind |-> "write", how |-> "word", addr |-> a, length |-> Len(w), data |-> w])
    BY <1>1 DEF WriteWord
  <2>2. a \in Addresses /\ w \in Seq(Bytes) /\ Len(w) \in {1, 2, 4, 8}
    BY MemoryAssumption
  <2> DEFINE o == [kind |-> "write", how |-> "word", addr |-> a, length |-> Len(w), data |-> w]
  <2>3. o.kind = "write" /\ o.how = "word" /\ o.length = Len(w) /\ o.data = w
    OBVIOUS
  <2>4. o \in Ops
    BY <2>2, LenProperties DEF Ops
  <2>5. Begin(o)
    BY <2>1
  <2> HIDE DEF o
  <2>6. /\ o.kind # "none"
        /\ o.length \in {1, 2, 4, 8}
        /\ o.length \in Nat \ {0}
        /\ Len(o.data) = o.length
    <3>1. \A n \in {1, 2, 4, 8} : n \in Nat \ {0}
      OBVIOUS
    <3> QED
      BY <2>2, <2>3, <3>1, Zenon
  <2> QED
    BY <2>4, <2>5, <2>6, BeginKeeps
<1>2. CASE WriteBlock
  <2>1. PICK a \in Starts, b \in Blocks :
          Begin([kind |-> "write", how |-> "block", addr |-> a, length |-> Len(b), data |-> b])
    BY <1>2 DEF WriteBlock
  <2>2. a \in Addresses /\ b \in Seq(Bytes) /\ Len(b) \in Nat \ {0}
    BY LenProperties, MemoryAssumption
  <2> DEFINE o == [kind |-> "write", how |-> "block", addr |-> a, length |-> Len(b), data |-> b]
  <2>3. o.kind = "write" /\ o.how = "block" /\ o.length = Len(b) /\ o.data = b
    OBVIOUS
  <2>4. o \in Ops
    BY <2>2, LenProperties DEF Ops
  <2>5. Begin(o)
    BY <2>1
  <2> HIDE DEF o
  <2>6. /\ o.kind # "none"
        /\ o.length \in Nat \ {0}
        /\ Len(o.data) = o.length
        /\ o.how = "word" => o.length \in {1, 2, 4, 8}
    BY <2>2, <2>3
  <2> QED
    BY <2>4, <2>5, <2>6, BeginKeeps
<1>3. CASE ReadWord
  <2>1. PICK a \in Starts, n \in WordSizes :
          Begin([kind |-> "read", how |-> "word", addr |-> a, length |-> n, data |-> <<>>])
    BY <1>3 DEF ReadWord
  <2>2. a \in Addresses /\ n \in {1, 2, 4, 8} /\ <<>> \in Seq(Bytes)
    BY MemoryAssumption
  <2> DEFINE o == [kind |-> "read", how |-> "word", addr |-> a, length |-> n, data |-> <<>>]
  <2>3. o.kind = "read" /\ o.length \in {1, 2, 4, 8} /\ o.length \in Nat \ {0}
    BY <2>2
  <2>4. o \in Ops
    BY <2>2 DEF Ops
  <2>5. Begin(o)
    BY <2>1
  <2> HIDE DEF o
  <2> QED
    BY <2>3, <2>4, <2>5, BeginKeeps
<1>4. CASE ReadBlock
  <2>1. PICK a \in Starts, n \in BlockSizes :
          Begin([kind |-> "read", how |-> "block", addr |-> a, length |-> n, data |-> <<>>])
    BY <1>4 DEF ReadBlock
  <2>2. a \in Addresses /\ n \in Nat \ {0} /\ <<>> \in Seq(Bytes)
    BY MemoryAssumption
  <2> QED
    BY <2>1, <2>2, BeginKeeps DEF Ops
<1>5. CASE ReadPiece
  BY <1>5, ReadPieceKeeps
<1>6. CASE WritePiece
  BY <1>6, WritePieceKeeps
<1>7. CASE \E p \in Pages : MapRange(p)
  BY <1>7, MapRangeKeeps
<1>8. CASE SetCodeRegion
  BY <1>8, SetCodeRegionKeeps
<1>9. CASE \E pc \in Addresses : pc % 4 = 0 /\ FetchInst(pc)
  BY <1>9, FetchInstKeeps
<1>10. CASE UNCHANGED vars
  BY <1>10 DEF PagesInv, TypeOK, PageTable, Coherent, NoAliases, Progress, WordDone,
               Slot, vars
<1> QED
  BY <1>1, <1>2, <1>3, <1>4, <1>5, <1>6, <1>7, <1>8, <1>9, <1>10 DEF Next

\* Every variable keeps its type, pieces stay within their pages, and the page
\* table stays sound.
THEOREM Invariance == Spec => []PagesInv
<1>1. Init => PagesInv
  BY InitIInv
<1>2. PagesInv /\ [Next]_vars => PagesInv'
  BY StepIInv
<1> QED
  BY <1>1, <1>2, PTL DEF Spec

\* The cache agrees with the page map and no two pages share an object,
\* however many pages share a slot.
THEOREM PageTableSound == Spec => []PageTable
<1>1. PagesInv => PageTable
  BY DEF PagesInv
<1> QED
  BY <1>1, Invariance, PTL

(***************************************************************************)
(* FlatMemory is implemented: addresses.                                   *)
(***************************************************************************)

(* Division by a size.                                                     *)
LEMMA Divides ==
  ASSUME NEW s \in Nat \ {0}, NEW q \in Int, NEW r \in 0..s-1
  PROVE  (s * q + r) % s = r /\ (s * q + r) \div s = q
OBVIOUS

LEMMA Remainder ==
  ASSUME NEW s \in Nat \ {0}, NEW x \in Int
  PROVE  x % s \in 0..s-1 /\ x \div s \in Int /\ x = s * (x \div s) + (x % s)
OBVIOUS

LEMMA Steps ==
  ASSUME NEW s \in Nat \ {0}, NEW x \in Int, NEW k \in Nat, (x % s) + k < s
  PROVE  (x + k) % s = (x % s) + k
<1>1. PICK q \in Int : x = s * q + (x % s)
  BY Remainder
<1>2. x % s \in 0..s-1
  BY Remainder
<1>3. (x % s) + k \in 0..s-1
  BY <1>2
<1>4. (s * q + ((x % s) + k)) % s = (x % s) + k
  BY <1>3, Divides
<1>5. x + k = s * q + ((x % s) + k)
  BY <1>1, <1>2
<1> QED
  BY <1>4, <1>5

\* An access does not wrap around within a page.
LEMMA AtSteps ==
  ASSUME NEW a \in Addresses, NEW i \in Nat, NEW k \in Nat, At(a, i) + k \in Addresses
  PROVE  At(a, i + k) = At(a, i) + k
<1>1. /\ Space \in Nat \ {0} /\ a + i \in Int
      /\ ((a + i) % Space) + k < Space
      /\ a \in Nat
  BY Sizes, AtIsAddress DEF At, Addresses
<1>2. ((a + i) + k) % Space = ((a + i) % Space) + k
  BY <1>1, Steps
<1>3. a + (i + k) = (a + i) + k
  BY <1>1
<1> QED
  BY <1>2, <1>3 DEF At

\* Page and offset within it make an address, and only that.
LEMMA AddressMade ==
  ASSUME NEW p \in Pages, NEW o \in Offsets
  PROVE  /\ PageSize * p + o \in Addresses
         /\ PageOf(PageSize * p + o) = p
         /\ OffsetOf(PageSize * p + o) = o
<1>1. /\ PageSize \in Nat \ {0} /\ PageCount \in Nat \ {0}
      /\ p \in Nat /\ p + 1 <= PageCount /\ o \in 0..PageSize-1
  BY Sizes DEF Pages, Offsets
<1>2. PageSize * p \in Nat /\ PageSize * (p + 1) = PageSize * p + PageSize
  BY <1>1
<1>3. PageSize * (p + 1) <= PageSize * PageCount
  <2>1. \A x, y, s \in Nat : x <= y => s * x <= s * y
    OBVIOUS
  <2> QED
    BY <1>1, <2>1
<1>4. PageSize * p + o \in Addresses
  BY <1>1, <1>2, <1>3 DEF Addresses, Space
<1>5. p \in Int
  BY <1>1
<1>6. (PageSize * p + o) % PageSize = o /\ (PageSize * p + o) \div PageSize = p
  BY <1>1, <1>5, Divides
<1> QED
  BY <1>4, <1>6 DEF PageOf, OffsetOf

LEMMA WithinPage ==
  ASSUME NEW a \in Addresses, NEW k \in Nat, OffsetOf(a) + k < PageSize
  PROVE  /\ a + k \in Addresses
         /\ PageOf(a + k) = PageOf(a)
         /\ OffsetOf(a + k) = OffsetOf(a) + k
<1>1. /\ PageOf(a) \in Pages /\ OffsetOf(a) \in Offsets
      /\ a = PageSize * PageOf(a) + OffsetOf(a)
  BY AddressSplits
<1>2. /\ PageSize \in Nat /\ PageOf(a) \in Nat /\ OffsetOf(a) \in Nat
  BY <1>1, Sizes DEF Pages, Offsets
<1>3. OffsetOf(a) + k \in Offsets
  BY <1>2 DEF Offsets
<1>4. PageSize * PageOf(a) \in Nat
  BY <1>2
<1>5. a + k = PageSize * PageOf(a) + (OffsetOf(a) + k)
  BY <1>1, <1>2, <1>4
<1> QED
  BY <1>1, <1>3, <1>5, AddressMade

\* How far an address is behind another.
LEMMA Behind ==
  ASSUME NEW a \in Addresses, NEW b \in Addresses
  PROVE  /\ (b - a) % Space \in 0..Space-1
         /\ At(a, (b - a) % Space) = b
<1>1. Space \in Nat \ {0} /\ a \in 0..Space-1 /\ b \in 0..Space-1
  BY Sizes DEF Addresses
<1>2. CASE b >= a
  <2>1. (b - a) % Space = b - a
    BY <1>1, <1>2
  <2> QED
    BY <1>1, <1>2, <2>1 DEF At
<1>3. CASE b < a
  <2>1. (b - a) % Space = b - a + Space
    <3>1. b - a + Space \in 0..Space-1 /\ b - a = Space * (-1) + (b - a + Space)
      BY <1>1, <1>3
    <3>2. \A q \in Int, r \in 0..Space-1 : (Space * q + r) % Space = r
      BY <1>1, Divides
    <3> QED
      BY <3>1, <3>2
  <2>2. a + (b - a + Space) = Space * 1 + b
    BY <1>1
  <2>3. (Space * 1 + b) % Space = b
    BY <1>1, Divides
  <2> QED
    BY <1>1, <1>3, <2>1, <2>2, <2>3 DEF At
<1> QED
  BY <1>1, <1>2, <1>3

LEMMA BehindAt ==
  ASSUME NEW a \in Addresses, NEW i \in 0..Space-1
  PROVE  (At(a, i) - a) % Space = i
<1>1. Space \in Nat \ {0} /\ a \in 0..Space-1
  BY Sizes DEF Addresses
<1>2. PICK q \in Int : a + i = Space * q + At(a, i)
  <2>1. a + i \in Int
    BY <1>1
  <2>2. /\ (a + i) \div Space \in Int
        /\ a + i = Space * ((a + i) \div Space) + ((a + i) % Space)
    BY <1>1, <2>1, Remainder
  <2> QED
    BY <2>2 DEF At
<1>3. At(a, i) \in Int
  BY <1>1, Remainder DEF At
<1>4. At(a, i) - a = Space * (-q) + i
  <2>1. Space * q \in Int /\ Space * (-q) = -(Space * q)
    BY <1>1
  <2> QED
    BY <1>1, <1>2, <1>3, <2>1
<1>5. -q \in Int /\ i \in 0..Space-1
  BY <1>2
<1>6. (Space * (-q) + i) % Space = i
  BY <1>1, <1>5, Divides
<1> QED
  BY <1>4, <1>6

(***************************************************************************)
(* Pages and pieces.                                                       *)
(***************************************************************************)

\* What a page lookup, and what is then stored in the object, does to the bytes
\* of the pages.
LEMMA Lookup ==
  ASSUME PagesInv, NEW p \in Pages, PageCached(p),
         heap' \in Seq(Contents), Len(heap') = Len(HeapWith(p)),
         \A j \in 1..Len(HeapWith(p)) : j # Object(p) => heap'[j] = HeapWith(p)[j],
         NEW a \in Addresses
  PROVE  /\ PageOf(a) # p => InPages(a)' = InPages(a)
         /\ PageOf(a) = p =>
              /\ InPages(a)' = heap'[Object(p)][OffsetOf(a)]
              /\ InPages(a) = HeapWith(p)[Object(p)][OffsetOf(a)]
<1> DEFINE q == PageOf(a)
<1>1. /\ q \in Pages /\ OffsetOf(a) \in Offsets
      /\ pages \in [Pages -> 0..Len(heap)] /\ heap \in Seq(Contents) /\ Len(heap) \in Nat
  BY AddressSplits DEF PagesInv, TypeOK
<1>2. /\ Len(HeapWith(p)) >= Len(heap)
      /\ Object(p) \in 1..Len(HeapWith(p))
      /\ pages[p] # 0 => Object(p) = pages[p] /\ HeapWith(p) = heap
      /\ pages[p] = 0 => Object(p) = Len(heap) + 1 /\ Missing(p)
  BY ObjectIsPage DEF PagesInv
<1>3. pages' = [pages EXCEPT ![p] = Object(p)]
  <2>1. pages[p] # 0 => pages[p] = Object(p) /\ ~Missing(p)
    BY <1>2 DEF Missing
  <2> QED
    BY <1>1, <1>2, <2>1 DEF PageCached
<1>4. InPages(a)' = IF pages'[q] = 0 THEN 0 ELSE heap'[pages'[q]][OffsetOf(a)]
  BY DEF InPages, PageOf, OffsetOf
<1>5. \A j \in 1..Len(heap) : HeapWith(p)[j] = heap[j]
  BY <1>1, ZeroPageIsPage, AppendProperties DEF HeapWith
<1>6. ASSUME q # p PROVE InPages(a)' = InPages(a)
  <2>1. pages'[q] = pages[q] /\ pages[q] \in 0..Len(heap)
    BY <1>1, <1>3, <1>6
  <2>2. CASE pages[q] = 0
    BY <1>4, <2>1, <2>2 DEF InPages
  <2>3. CASE pages[q] # 0
    <3>1. pages[q] \in 1..Len(heap) /\ pages[q] \in 1..Len(HeapWith(p))
      BY <1>1, <1>2, <2>1, <2>3
    <3>2. pages[q] # Object(p)
      <4>1. CASE pages[p] = 0
        BY <1>1, <1>2, <3>1, <4>1
      <4>2. CASE pages[p] # 0
        BY <1>1, <1>2, <1>6, <2>3, <4>2 DEF PagesInv, PageTable, NoAliases
      <4> QED
        BY <4>1, <4>2
    <3>3. heap'[pages[q]] = heap[pages[q]]
      BY <1>5, <3>1, <3>2
    <3> QED
      BY <1>4, <2>1, <2>3, <3>3 DEF InPages
  <2> QED
    BY <2>2, <2>3
<1>7. ASSUME q = p PROVE InPages(a)' = heap'[Object(p)][OffsetOf(a)]
  <2>1. pages'[q] = Object(p) /\ Object(p) # 0
    BY <1>1, <1>2, <1>3, <1>7
  <2> QED
    BY <1>4, <2>1
<1>8. ASSUME q = p PROVE InPages(a) = HeapWith(p)[Object(p)][OffsetOf(a)]
  <2>1. CASE pages[p] = 0
    <3>1. HeapWith(p) = Append(heap, ZeroPage) /\ Object(p) = Len(heap) + 1
      BY <1>2, <2>1 DEF HeapWith
    <3>2. HeapWith(p)[Object(p)] = ZeroPage
      BY <1>1, <3>1, ZeroPageIsPage, AppendProperties
    <3> QED
      BY <1>1, <1>8, <2>1, <3>2 DEF InPages, ZeroPage
  <2>2. CASE pages[p] # 0
    BY <1>2, <1>8, <2>2 DEF InPages
  <2> QED
    BY <2>1, <2>2
<1> QED
  BY <1>6, <1>7, <1>8

\* A lookup alone changes no byte.
LEMMA LookupKeeps ==
  ASSUME PagesInv, NEW p \in Pages, PageCached(p), heap' = HeapWith(p), NEW a \in Addresses
  PROVE  InPages(a)' = InPages(a)
<1>1. heap' \in Seq(Contents)
  BY ObjectIsPage DEF PagesInv
<1> QED
  BY <1>1, Lookup

\* The bytes of a piece are in one page, one behind the other.
LEMMA PieceBytes ==
  ASSUME PagesInv, op.kind # "none", NEW k \in 0..Piece-1
  PROVE  /\ At(op.addr, done + k) \in Addresses
         /\ At(op.addr, done + k) = Here + k
         /\ PageOf(At(op.addr, done + k)) = PageOf(Here)
         /\ OffsetOf(At(op.addr, done + k)) = OffsetOf(Here) + k
<1>1. /\ Here \in Addresses /\ Piece \in Nat \ {0} /\ k \in Nat /\ k < Piece
      /\ OffsetOf(Here) + Piece <= PageSize /\ PageSize \in Nat
      /\ OffsetOf(Here) \in Nat
      /\ op.addr \in Addresses /\ done \in Nat
  BY PieceFits, AddressSplits, Sizes DEF PagesInv, TypeOK, Ops, Offsets
<1>2. /\ Here + k \in Addresses
      /\ PageOf(Here + k) = PageOf(Here)
      /\ OffsetOf(Here + k) = OffsetOf(Here) + k
  BY <1>1, WithinPage
<1>3. At(op.addr, done + k) = Here + k
  BY <1>1, <1>2, AtSteps DEF Here
<1> QED
  BY <1>2, <1>3

(***************************************************************************)
(* The inductive invariant of FlatMemorySpec: a read has got the bytes the *)
(* guest sees, and an access is one of those the specification has.        *)
(***************************************************************************)
Gathered ==
  /\ op.kind # "read" => buf = <<>>
  /\ op.kind = "read" =>
       /\ Len(buf) = done
       /\ \A i \in 1..done : buf[i] = InPages(At(op.addr, i - 1))

Asked ==
  /\ op.kind = "read" => op.addr \in Starts /\ op.length \in WordSizes \cup BlockSizes
  /\ op.kind = "write" => op.length <= Space

FlatIInv == PagesInv /\ Gathered /\ Asked

MemoryAt(a) ==
  IF op.kind = "write" /\ (a - op.addr) % Space \in done..op.length-1
  THEN op.data[((a - op.addr) % Space) + 1] ELSE InPages(a)

LEMMA MemoryIs == Memory = [a \in Addresses |-> MemoryAt(a)]
BY DEF Memory, MemoryAt

\* While nothing is being written the guest sees the pages.
LEMMA MemoryInPages ==
  ASSUME op.kind # "write"
  PROVE  Memory = [a \in Addresses |-> InPages(a)]
BY DEF Memory

LEMMA MemorySame ==
  ASSUME \A a \in Addresses : MemoryAt(a)' = MemoryAt(a)
  PROVE  Memory' = Memory
<1>1. Memory' = [a \in Addresses |-> MemoryAt(a)']
  BY DEF Memory, MemoryAt, Addresses, Space
<1> QED
  BY <1>1, MemoryIs

LEMMA CodeSame ==
  ASSUME UNCHANGED <<region, codeInsts>>
  PROVE  Code' = Code
BY DEF Code, PageOf, OffsetOf, Addresses, Space

LEMMA InitFlat == Init => FlatIInv
<1> SUFFICES ASSUME Init PROVE FlatIInv
  OBVIOUS
<1>1. op.kind = "none" /\ buf = <<>>
  BY DEF Init, NoOp
<1> QED
  BY <1>1, InitIInv DEF FlatIInv, Gathered, Asked

LEMMA FlatInitially == Init => Flat!Init
<1> SUFFICES ASSUME Init PROVE Flat!Init
  OBVIOUS
<1>1. op.kind = "none" /\ pages = [p \in Pages |-> 0] /\ region = {} /\ result = <<>>
  BY DEF Init, NoOp
<1>2. \A a \in Addresses : InPages(a) = 0
  BY <1>1, AddressSplits DEF InPages
<1>3. Memory = [a \in Addresses |-> 0]
  BY <1>1, <1>2, MemoryInPages
<1>4. Code = [a \in Addresses |-> 0]
  BY <1>1 DEF Code
<1>5. (region # {}) = FALSE
  BY <1>1
<1> QED
  BY <1>1, <1>3, <1>4, <1>5 DEF Flat!Init, Flat!Zeros, Flat!Addresses, Addresses

\* What a read has, with the next piece, are the bytes the guest sees.
LEMMA GotIs ==
  ASSUME FlatIInv, ReadPiece
  PROVE  /\ Got \in Seq(Bytes) /\ Len(Got) = done + Piece
         /\ \A i \in 1..(done + Piece) : Got[i] = InPages(At(op.addr, i - 1))
<1> DEFINE p == PageOf(Here)
           page == HeapWith(p)[Object(p)]
           bytes == [i \in 1..Piece |-> page[OffsetOf(Here) + i - 1]]
<1>1. /\ op.kind = "read" /\ PagesInv /\ PageCached(p) /\ heap' = HeapWith(p)
      /\ p \in Pages /\ Here \in Addresses
      /\ done \in Nat /\ Piece \in Nat \ {0} /\ buf \in Seq(Bytes)
      /\ op.addr \in Addresses
  BY PieceFits, AddressSplits DEF ReadPiece, FlatIInv, PagesInv, TypeOK, Ops
<1>2. Len(buf) = done /\ \A i \in 1..done : buf[i] = InPages(At(op.addr, i - 1))
  BY <1>1 DEF FlatIInv, Gathered
<1>3. bytes \in Seq(Bytes)
  BY <1>1, PageIsThere, PieceIsBytes
<1>4. Len(bytes) = Piece
  BY <1>1
<1>5. Got = buf \o bytes
  BY DEF Got
<1>6. /\ Got \in Seq(Bytes) /\ Len(Got) = done + Piece
      /\ \A i \in 1..(done + Piece) : Got[i] = IF i <= done THEN buf[i] ELSE bytes[i - done]
  BY <1>1, <1>2, <1>3, <1>4, <1>5, ConcatProperties
<1>7. ASSUME NEW i \in 1..(done + Piece), ~(i <= done)
      PROVE  Got[i] = InPages(At(op.addr, i - 1))
  <2> DEFINE k == i - done - 1
  <2>1. k \in 0..Piece-1 /\ done + k = i - 1 /\ i - done \in 1..Piece
        /\ OffsetOf(Here) + (i - done) - 1 = OffsetOf(Here) + k
    BY <1>1, <1>7, AddressSplits DEF Offsets
  <2>2. Got[i] = page[OffsetOf(Here) + k]
    BY <1>6, <1>7, <2>1
  <2>3. /\ At(op.addr, i - 1) \in Addresses
        /\ PageOf(At(op.addr, i - 1)) = p
        /\ OffsetOf(At(op.addr, i - 1)) = OffsetOf(Here) + k
    BY <1>1, <2>1, PieceBytes
  <2>4. heap' \in Seq(Contents)
    BY <1>1, ObjectIsPage DEF PagesInv
  <2>5. InPages(At(op.addr, i - 1)) = page[OffsetOf(Here) + k]
    BY <1>1, <2>3, <2>4, Lookup
  <2> QED
    BY <2>2, <2>5
<1>8. ASSUME NEW i \in 1..(done + Piece), i <= done
      PROVE  Got[i] = InPages(At(op.addr, i - 1))
  <2>1. i \in 1..done
    BY <1>1, <1>8
  <2> QED
    BY <1>2, <1>6, <1>8, <2>1
<1> QED
  BY <1>6, <1>7, <1>8

LEMMA ReadPieceFlat ==
  ASSUME FlatIInv, ReadPiece
  PROVE  (Gathered /\ Asked)' /\ [Flat!Next]_(Flat!vars)
<1>1. /\ op.kind = "read" /\ PagesInv /\ PageCached(PageOf(Here))
      /\ heap' = HeapWith(PageOf(Here)) /\ PageOf(Here) \in Pages
      /\ done \in Nat /\ Piece \in Nat \ {0} /\ done + Piece <= op.length
      /\ op.addr \in Addresses /\ op.length \in Nat
      /\ UNCHANGED <<region, codeInsts>>
  BY PieceFits, AddressSplits DEF ReadPiece, FlatIInv, PagesInv, TypeOK, Ops
<1>2. \A a \in Addresses : InPages(a)' = InPages(a)
  BY <1>1, LookupKeeps
<1>3. /\ Got \in Seq(Bytes) /\ Len(Got) = done + Piece
      /\ \A i \in 1..(done + Piece) : Got[i] = InPages(At(op.addr, i - 1))
  BY GotIs
<1>4. op' = op \/ op' = NoOp
  BY DEF ReadPiece, Advance
<1>5. Memory' = Memory
  <2>1. op.kind # "write" /\ op'.kind # "write"
    BY <1>1, <1>4 DEF NoOp
  <2>2. \A a \in Addresses : MemoryAt(a)' = MemoryAt(a)
    BY <1>2, <2>1 DEF MemoryAt
  <2> QED
    BY <2>2, MemorySame
<1>6. Code' = Code
  BY <1>1, CodeSame
<1>7. CASE done + Piece < op.length
  <2>1. op' = op /\ done' = done + Piece /\ buf' = Got /\ result' = result
    BY <1>7 DEF ReadPiece, Advance
  <2>2. ASSUME NEW i \in 1..(done + Piece)
        PROVE  Got[i] = InPages(At(op.addr, i - 1))'
    <3>1. PICK b \in Addresses : b = At(op.addr, i - 1)
      BY <1>1, AtIsAddress
    <3>2. InPages(b)' = InPages(b) /\ Got[i] = InPages(b)
      BY <1>2, <1>3, <3>1
    <3>3. At(op.addr, i - 1)' = b
      BY <2>1, <3>1 DEF At, Space
    <3> QED
      BY <3>2, <3>3 DEF InPages
  <2>3. Gathered'
    BY <1>1, <1>3, <2>1, <2>2 DEF Gathered
  <2>4. Asked'
    BY <1>1, <2>1 DEF FlatIInv, Asked, Space
  <2>5. UNCHANGED Flat!vars
    BY <1>1, <1>5, <1>6, <2>1 DEF Flat!vars
  <2> QED
    BY <2>3, <2>4, <2>5
<1>8. CASE ~(done + Piece < op.length)
  <2>1. op' = NoOp /\ buf' = <<>> /\ result' = Got /\ done + Piece = op.length
    BY <1>1, <1>8 DEF ReadPiece, Advance
  <2>2. Gathered' /\ Asked'
    BY <2>1 DEF Gathered, Asked, NoOp
  <2>3. \A i \in 1..op.length : Got[i] = Memory[At(op.addr, i - 1)]
    <3>1. \A i \in 1..op.length : At(op.addr, i - 1) \in Addresses
      BY <1>1, AtIsAddress
    <3> QED
      BY <1>1, <1>3, <2>1, <3>1, MemoryInPages
  <2>4. result' = [i \in 1..op.length |-> Memory[At(op.addr, i - 1)]]
    BY <1>3, <2>1, <2>3
  <2>5. Flat!Read(op.addr, op.length)
    BY <1>1, <1>5, <1>6, <2>4 DEF Flat!Read, Flat!At, At
  <2>6. op.addr \in Starts /\ op.length \in WordSizes \cup BlockSizes
    BY <1>1 DEF FlatIInv, Asked
  <2> QED
    BY <2>2, <2>5, <2>6 DEF Flat!Next
<1> QED
  BY <1>7, <1>8

\* A write is done, as the guest sees it, when it begins.
LEMMA BeginWriteFlat ==
  ASSUME FlatIInv, NEW a \in Starts, NEW d \in Words \cup Blocks,
         NEW h \in {"word", "block"},
         Begin([kind |-> "write", how |-> h, addr |-> a, length |-> Len(d), data |-> d])
  PROVE  (Gathered /\ Asked)' /\ Flat!Write(a, d)
<1>1. /\ op.kind = "none" /\ done = 0 /\ buf = <<>>
      /\ op'.kind = "write" /\ op'.addr = a /\ op'.length = Len(d) /\ op'.data = d
      /\ UNCHANGED <<table, region, codeInsts, done, buf, result>>
  BY DEF Begin, Idle, FlatIInv, PagesInv, Progress, Gathered
<1>2. /\ a \in Addresses /\ Len(d) \in 1..Space /\ Space \in Nat
  <2>1. PageSize <= Space
    <3>1. \A x \in Nat, y \in Nat \ {0} : x <= x * y
      OBVIOUS
    <3> QED
      BY <3>1, Sizes DEF Space
  <2>2. d \in Words => Len(d) \in {1, 2, 4, 8}
    BY MemoryAssumption
  <2>3. d \in Blocks => Len(d) \in 1..Space
    BY MemoryAssumption
  <2>4. Space \in Nat /\ Space >= 8
    BY <2>1, Sizes
  <2>5. d \in Words => Len(d) \in 1..Space
    <3>1. \A n \in {1, 2, 4, 8} : n \in 1..Space
      BY <2>4
    <3> QED
      BY <2>2, <3>1, Zenon
  <2> QED
    BY <2>3, <2>4, <2>5, MemoryAssumption
<1>3. Gathered' /\ Asked'
  BY <1>1, <1>2 DEF Gathered, Asked, Space
<1>4. \A b \in Addresses : InPages(b)' = InPages(b)
  BY <1>1 DEF InPages, table, PageOf, OffsetOf
<1>5. Memory = [b \in Addresses |-> InPages(b)]
  BY <1>1, MemoryInPages
<1>6. ASSUME NEW b \in Addresses
      PROVE  MemoryAt(b)' = IF (b - a) % Space < Len(d) THEN d[((b - a) % Space) + 1]
                            ELSE Memory[b]
  <2>1. (b - a) % Space \in Nat
    BY <1>2, Behind
  <2>2. MemoryAt(b)' = IF (b - a) % Space \in 0..Len(d)-1 THEN d[((b - a) % Space) + 1]
                       ELSE InPages(b)'
    BY <1>1 DEF MemoryAt, Space
  <2> QED
    BY <1>2, <1>4, <1>5, <2>1, <2>2
<1>7. Memory' = [b \in Addresses |-> MemoryAt(b)']
  BY DEF Memory, MemoryAt, Addresses, Space
<1>8. Code' = Code
  BY <1>1, CodeSame
<1>9. Flat!Write(a, d)
  BY <1>1, <1>6, <1>7, <1>8 DEF Flat!Write, Flat!Addresses, Flat!Distance, Addresses
<1> QED
  BY <1>3, <1>9

\* What a piece of a write does to the bytes of the pages: those it covers get
\* the data, the others stay.
LEMMA PieceStored ==
  ASSUME FlatIInv, WritePiece, NEW a \in Addresses
  PROVE  InPages(a)' = IF (a - op.addr) % Space \in done..done + Piece - 1
                       THEN op.data[((a - op.addr) % Space) + 1] ELSE InPages(a)
<1> DEFINE p == PageOf(Here)
           page == HeapWith(p)[Object(p)]
           i == (a - op.addr) % Space
<1>1. /\ op.kind = "write" /\ op.kind # "none" /\ PagesInv /\ PageCached(p)
      /\ p \in Pages /\ Here \in Addresses
      /\ heap' = [HeapWith(p) EXCEPT ![Object(p)] = Stored(HeapWith(p)[Object(p)])]
      /\ done \in Nat /\ Piece \in Nat \ {0}
      /\ OffsetOf(Here) \in Nat
      /\ op.addr \in Addresses
      /\ done + Piece <= op.length /\ op.length <= Space /\ op.length \in Nat
  <2>1. /\ op.kind = "write" /\ op.kind # "none" /\ PagesInv /\ TypeOK /\ Progress
        /\ PageCached(p)
        /\ heap' = [HeapWith(p) EXCEPT ![Object(p)] = Stored(HeapWith(p)[Object(p)])]
    BY DEF WritePiece, FlatIInv, PagesInv
  <2>2. /\ done \in Nat /\ op.addr \in Addresses /\ op.length \in Nat
    BY <2>1 DEF TypeOK, Ops
  <2>3. Here \in Addresses /\ Piece \in Nat \ {0} /\ done + Piece <= op.length
    BY <2>1, PieceFits
  <2>4. p \in Pages /\ OffsetOf(Here) \in Nat
    BY <2>3, AddressSplits, Sizes DEF Offsets
  <2>5. op.length <= Space
    BY <2>1 DEF FlatIInv, Asked
  <2> QED
    BY <2>1, <2>2, <2>3, <2>4, <2>5
<1>2. /\ HeapWith(p) \in Seq(Contents)
      /\ Object(p) \in 1..Len(HeapWith(p))
      /\ Stored(page) \in Contents
  BY <1>1, ObjectIsPage, PageIsThere, PieceIsBytes DEF PagesInv
<1>3. /\ heap' \in Seq(Contents) /\ Len(heap') = Len(HeapWith(p))
      /\ heap'[Object(p)] = Stored(page)
      /\ \A j \in 1..Len(HeapWith(p)) : j # Object(p) => heap'[j] = HeapWith(p)[j]
  BY <1>1, <1>2, ExceptSeq
<1>4. /\ OffsetOf(a) \in Offsets
      /\ i \in 0..Space-1 /\ At(op.addr, i) = a
      /\ Space \in Nat
  BY <1>1, AddressSplits, Behind, Sizes
<1>5. /\ PageOf(a) # p => InPages(a)' = InPages(a)
      /\ PageOf(a) = p => /\ InPages(a)' = Stored(page)[OffsetOf(a)]
                          /\ InPages(a) = page[OffsetOf(a)]
  BY <1>1, <1>3, Lookup
<1>6. Stored(page)[OffsetOf(a)] =
        IF OffsetOf(a) \in OffsetOf(Here)..OffsetOf(Here) + Piece - 1
        THEN op.data[done + OffsetOf(a) - OffsetOf(Here) + 1] ELSE page[OffsetOf(a)]
  BY <1>4 DEF Stored
<1> HIDE DEF p, page, i
<1>7. ASSUME i \in done..done + Piece - 1
      PROVE  InPages(a)' = op.data[i + 1]
  <2> DEFINE k == i - done
  <2>1. k \in 0..Piece-1 /\ done + k = i
    BY <1>1, <1>4, <1>7
  <2>2. PageOf(a) = p /\ OffsetOf(a) = OffsetOf(Here) + k
    <3>1. /\ PageOf(At(op.addr, done + k)) = PageOf(Here)
          /\ OffsetOf(At(op.addr, done + k)) = OffsetOf(Here) + k
      BY <1>1, <2>1, PieceBytes
    <3> QED
      BY <1>4, <2>1, <3>1 DEF p
  <2>3. /\ OffsetOf(a) \in OffsetOf(Here)..OffsetOf(Here) + Piece - 1
        /\ done + OffsetOf(a) - OffsetOf(Here) + 1 = i + 1
    BY <1>1, <1>4, <2>1, <2>2
  <2> QED
    BY <1>5, <1>6, <2>2, <2>3
<1>8. ASSUME ~(i \in done..done + Piece - 1)
      PROVE  InPages(a)' = InPages(a)
  <2>1. CASE PageOf(a) # p
    BY <1>5, <2>1
  <2>2. CASE PageOf(a) = p
    <3>1. ~(OffsetOf(a) \in OffsetOf(Here)..OffsetOf(Here) + Piece - 1)
      <4> SUFFICES ASSUME OffsetOf(a) \in OffsetOf(Here)..OffsetOf(Here) + Piece - 1
                   PROVE  FALSE
        OBVIOUS
      <4> DEFINE k == OffsetOf(a) - OffsetOf(Here)
                 b == At(op.addr, done + k)
      <4>1. /\ k \in 0..Piece-1 /\ OffsetOf(a) = OffsetOf(Here) + k
            /\ done + k \in 0..Space-1 /\ done + k \in done..done + Piece - 1
        BY <1>1, <1>4 DEF Offsets
      <4>2. b \in Addresses /\ PageOf(b) = PageOf(Here) /\ OffsetOf(b) = OffsetOf(Here) + k
        BY <1>1, <4>1, PieceBytes
      <4>3. (b - op.addr) % Space = done + k
        BY <1>1, <4>1, BehindAt
      <4>4. a = PageSize * PageOf(a) + OffsetOf(a) /\ b = PageSize * PageOf(b) + OffsetOf(b)
        BY <4>2, AddressSplits
      <4> HIDE DEF b, k
      <4>5. a = b
        BY <2>2, <4>1, <4>2, <4>4 DEF p
      <4> QED
        BY <1>8, <4>1, <4>3, <4>5 DEF i
    <3> QED
      BY <1>5, <1>6, <2>2, <3>1
  <2> QED
    BY <2>1, <2>2
<1> QED
  BY <1>7, <1>8 DEF i

\* A piece of a write is not seen: what it stores was to be stored.
LEMMA WritePieceFlat ==
  ASSUME FlatIInv, WritePiece
  PROVE  (Gathered /\ Asked)' /\ UNCHANGED Flat!vars
<1>1. /\ op.kind = "write" /\ op.addr \in Addresses
      /\ done \in Nat /\ Piece \in Nat \ {0} /\ op.length \in Nat
      /\ done + Piece <= op.length
      /\ buf = <<>> /\ op.length <= Space
      /\ UNCHANGED <<region, codeInsts, buf, result>>
  BY PieceFits DEF WritePiece, FlatIInv, Gathered, Asked, PagesInv, TypeOK, Ops
<1>2. \A a \in Addresses :
        InPages(a)' = IF (a - op.addr) % Space \in done..done + Piece - 1
                      THEN op.data[((a - op.addr) % Space) + 1] ELSE InPages(a)
  BY PieceStored
<1>3. \A a \in Addresses : (a - op.addr) % Space \in 0..Space-1
  BY <1>1, Behind
<1>4. CASE done + Piece < op.length
  <2>1. op' = op /\ done' = done + Piece
    BY <1>4 DEF WritePiece, Advance
  <2>2. Gathered' /\ Asked'
    BY <1>1, <2>1 DEF Gathered, Asked, Space
  <2>3. ASSUME NEW a \in Addresses
        PROVE  MemoryAt(a)' = MemoryAt(a)
    <3>1. MemoryAt(a)' = IF (a - op.addr) % Space \in (done + Piece)..op.length-1
                         THEN op.data[((a - op.addr) % Space) + 1] ELSE InPages(a)'
      BY <1>1, <2>1 DEF MemoryAt, Space
    <3> QED
      BY <1>1, <1>2, <1>3, <3>1, Sizes DEF MemoryAt
  <2> QED
    BY <1>1, <2>2, <2>3, MemorySame, CodeSame DEF Flat!vars
<1>5. CASE ~(done + Piece < op.length)
  <2>1. op' = NoOp /\ done + Piece = op.length
    BY <1>1, <1>5 DEF WritePiece, Advance
  <2>2. Gathered' /\ Asked'
    BY <1>1, <2>1 DEF Gathered, Asked, NoOp
  <2>3. ASSUME NEW a \in Addresses
        PROVE  MemoryAt(a)' = MemoryAt(a)
    <3>1. MemoryAt(a)' = InPages(a)'
      BY <2>1 DEF MemoryAt, NoOp
    <3> QED
      BY <1>1, <1>2, <1>3, <2>1, <3>1, Sizes DEF MemoryAt
  <2> QED
    BY <1>1, <2>2, <2>3, MemorySame, CodeSame DEF Flat!vars
<1> QED
  BY <1>4, <1>5

\* Beginning a read is not seen.
LEMMA BeginReadFlat ==
  ASSUME FlatIInv, NEW o \in Ops, Begin(o), o.kind = "read",
         o.addr \in Starts, o.length \in WordSizes \cup BlockSizes
  PROVE  (Gathered /\ Asked)' /\ UNCHANGED Flat!vars
<1>1. /\ op.kind = "none" /\ done = 0 /\ buf = <<>> /\ op' = o
      /\ UNCHANGED <<table, region, codeInsts, done, buf, result>>
  BY DEF Begin, Idle, FlatIInv, PagesInv, Progress, Gathered
<1>2. Gathered' /\ Asked'
  BY <1>1 DEF Gathered, Asked
<1>3. \A a \in Addresses : InPages(a)' = InPages(a)
  BY <1>1 DEF InPages, table, PageOf, OffsetOf
<1>4. \A a \in Addresses : MemoryAt(a)' = MemoryAt(a)
  BY <1>1, <1>3 DEF MemoryAt
<1> QED
  BY <1>1, <1>2, <1>4, MemorySame, CodeSame DEF Flat!vars

\* Mapping a page changes no byte.
LEMMA MapRangeFlat ==
  ASSUME FlatIInv, NEW p \in Pages, MapRange(p)
  PROVE  (Gathered /\ Asked)' /\ UNCHANGED Flat!vars
<1>1. /\ PagesInv /\ op.kind = "none" /\ op' = op /\ buf = <<>> /\ buf' = buf
      /\ PageCached(p) /\ heap' = HeapWith(p)
      /\ UNCHANGED <<region, codeInsts, result>>
  BY DEF MapRange, Idle, FlatIInv, Gathered, access
<1>2. Gathered' /\ Asked'
  BY <1>1 DEF Gathered, Asked
<1>3. \A a \in Addresses : InPages(a)' = InPages(a)
  BY <1>1, LookupKeeps
<1>4. \A a \in Addresses : MemoryAt(a)' = MemoryAt(a)
  BY <1>1, <1>3 DEF MemoryAt
<1> QED
  BY <1>1, <1>2, <1>4, MemorySame, CodeSame DEF Flat!vars

\* The copied instructions are what the guest has in its code region.
LEMMA SetCodeRegionFlat ==
  ASSUME FlatIInv, SetCodeRegion
  PROVE  (Gathered /\ Asked)' /\ Flat!Seal
<1>1. /\ op.kind = "none" /\ op' = op /\ buf = <<>> /\ buf' = buf
      /\ region = {} /\ region' = CodePages /\ CodePages # {}
      /\ UNCHANGED <<table, result>>
  BY MemoryAssumption DEF SetCodeRegion, Idle, FlatIInv, Gathered, access
<1>2. Gathered' /\ Asked'
  BY <1>1 DEF Gathered, Asked
<1>3. \A a \in Addresses : InPages(a)' = InPages(a)
  BY <1>1 DEF InPages, table, PageOf, OffsetOf
<1>4. \A a \in Addresses : MemoryAt(a)' = MemoryAt(a)
  BY <1>1, <1>3 DEF MemoryAt
<1>5. Memory' = Memory
  BY <1>4, MemorySame
<1>6. Memory = [a \in Addresses |-> InPages(a)]
  BY <1>1, MemoryInPages
<1>7. ASSUME NEW a \in Addresses
      PROVE  (IF PageOf(a) \in region' THEN codeInsts'[PageOf(a)][OffsetOf(a)] ELSE 0)
               = IF PageOf(a) \in CodePages THEN InPages(a) ELSE 0
  <2>1. OffsetOf(a) \in Offsets
    BY AddressSplits
  <2>2. codeInsts' = [p \in CodePages |-> IF pages[p] = 0 THEN ZeroPage ELSE heap[pages[p]]]
    BY DEF SetCodeRegion
  <2> QED
    BY <1>1, <2>1, <2>2 DEF InPages, ZeroPage
<1>8. Code' = [a \in Addresses |->
                 IF PageOf(a) \in region' THEN codeInsts'[PageOf(a)][OffsetOf(a)] ELSE 0]
  BY DEF Code, PageOf, OffsetOf, Addresses, Space
<1>9. Code' = [a \in Addresses |->
                 IF a \in {b \in Addresses : PageOf(b) \in CodePages} THEN Memory[a] ELSE 0]
  BY <1>6, <1>7, <1>8
<1>10. ~(region # {}) /\ (region' # {}) = TRUE
  BY <1>1
<1>11. Flat!Seal
  BY <1>1, <1>5, <1>9, <1>10, Zenon DEF Flat!Seal, Flat!Addresses, Addresses
<1> QED
  BY <1>2, <1>11

\* An instruction of the code region is fetched from the copy, another one from
\* memory.
LEMMA FetchInstFlat ==
  ASSUME FlatIInv, NEW pc \in Addresses, pc % 4 = 0, FetchInst(pc)
  PROVE  (Gathered /\ Asked)' /\ Flat!Fetch(pc)
<1>1. /\ op.kind = "none" /\ op' = op /\ buf = <<>> /\ buf' = buf
      /\ region # {} /\ region = CodePages
      /\ UNCHANGED <<table, region, codeInsts>>
  BY DEF FetchInst, Idle, FlatIInv, PagesInv, TypeOK, Gathered, access
<1>2. Gathered' /\ Asked'
  BY <1>1 DEF Gathered, Asked
<1>3. \A a \in Addresses : InPages(a)' = InPages(a)
  BY <1>1 DEF InPages, table, PageOf, OffsetOf
<1>4. \A a \in Addresses : MemoryAt(a)' = MemoryAt(a)
  BY <1>1, <1>3 DEF MemoryAt
<1>5. Memory' = Memory /\ Code' = Code
  BY <1>1, <1>4, MemorySame, CodeSame
<1>6. Memory = [a \in Addresses |-> InPages(a)]
  BY <1>1, MemoryInPages
<1>7. ASSUME NEW i \in 1..4
      PROVE  CodePage(PageOf(pc))[OffsetOf(pc) + i - 1]
               = IF PageOf(pc) \in CodePages THEN Code[At(pc, i - 1)] ELSE Memory[At(pc, i - 1)]
  <2> DEFINE k == i - 1
             b == At(pc, k)
  <2>1. k \in Nat /\ k <= 3 /\ OffsetOf(pc) \in 0..PageSize-1 /\ OffsetOf(pc) + k < PageSize
        /\ OffsetOf(pc) + i - 1 = OffsetOf(pc) + k /\ pc \in Nat /\ PageSize \in Nat
    BY AddressSplits, InstructionInPage, Sizes DEF Offsets, Addresses
  <2>2. /\ pc + k \in Addresses
        /\ PageOf(pc + k) = PageOf(pc)
        /\ OffsetOf(pc + k) = OffsetOf(pc) + k
    BY <2>1, WithinPage
  <2>3. b = pc + k
    <3>1. \A x, s \in Nat : x < s => x % s = x
      OBVIOUS
    <3>2. pc + k \in Nat /\ Space \in Nat /\ pc + k < Space
      BY <2>2, Sizes DEF Addresses
    <3>3. (pc + k) % Space = pc + k
      BY <3>1, <3>2
    <3> QED
      BY <3>3 DEF At
  <2>4. /\ b \in Addresses /\ PageOf(b) = PageOf(pc) /\ OffsetOf(b) = OffsetOf(pc) + k
        /\ OffsetOf(b) \in Offsets
    BY <2>2, <2>3, AddressSplits
  <2> HIDE DEF k, b
  <2>5. CASE PageOf(pc) \in CodePages
    BY <1>1, <2>1, <2>4, <2>5 DEF CodePage, Code, k, b
  <2>6. CASE PageOf(pc) \notin CodePages
    BY <1>1, <1>6, <2>1, <2>4, <2>6 DEF CodePage, InPages, ZeroPage, k, b
  <2> QED
    BY <2>5, <2>6
<1>8. result' = [i \in 1..4 |->
        IF pc \in {a \in Addresses : PageOf(a) \in CodePages} THEN Code[At(pc, i - 1)]
        ELSE Memory[At(pc, i - 1)]]
  BY <1>7 DEF FetchInst
<1>9. (region' # {}) = (region # {})
  BY <1>1
<1>10. Flat!Fetch(pc)
  BY <1>1, <1>5, <1>8, <1>9, Zenon DEF Flat!Fetch, Flat!At, At
<1> QED
  BY <1>2, <1>10

\* Every step is a step of the flat memory, or not seen in it.
LEMMA FlatStep ==
  FlatIInv /\ [Next]_vars => FlatIInv' /\ [Flat!Next]_(Flat!vars)
<1> SUFFICES ASSUME FlatIInv, [Next]_vars
             PROVE  (Gathered /\ Asked)' /\ [Flat!Next]_(Flat!vars)
  BY StepIInv DEF FlatIInv
<1>1. CASE WriteWord
  <2>1. PICK a \in Starts, d \in Words :
          Begin([kind |-> "write", how |-> "word", addr |-> a, length |-> Len(d), data |-> d])
    BY <1>1 DEF WriteWord
  <2>2. (Gathered /\ Asked)' /\ Flat!Write(a, d)
    BY <2>1, BeginWriteFlat
  <2> QED
    BY <2>2 DEF Flat!Next
<1>2. CASE WriteBlock
  <2>1. PICK a \in Starts, d \in Blocks :
          Begin([kind |-> "write", how |-> "block", addr |-> a, length |-> Len(d), data |-> d])
    BY <1>2 DEF WriteBlock
  <2>2. (Gathered /\ Asked)' /\ Flat!Write(a, d)
    BY <2>1, BeginWriteFlat
  <2> QED
    BY <2>2 DEF Flat!Next
<1>3. CASE ReadWord
  <2>1. PICK a \in Starts, n \in WordSizes :
          Begin([kind |-> "read", how |-> "word", addr |-> a, length |-> n, data |-> <<>>])
    BY <1>3 DEF ReadWord
  <2>2. a \in Addresses /\ n \in Nat /\ <<>> \in Seq(Bytes)
    BY MemoryAssumption
  <2> DEFINE o == [kind |-> "read", how |-> "word", addr |-> a, length |-> n, data |-> <<>>]
  <2>3. o \in Ops /\ Begin(o) /\ o.kind = "read" /\ o.addr \in Starts
        /\ o.length \in WordSizes \cup BlockSizes
    BY <2>1, <2>2 DEF Ops
  <2> HIDE DEF o
  <2> QED
    BY <2>3, BeginReadFlat
<1>4. CASE ReadBlock
  <2>1. PICK a \in Starts, n \in BlockSizes :
          Begin([kind |-> "read", how |-> "block", addr |-> a, length |-> n, data |-> <<>>])
    BY <1>4 DEF ReadBlock
  <2>2. a \in Addresses /\ n \in Nat /\ <<>> \in Seq(Bytes)
    BY MemoryAssumption
  <2> DEFINE o == [kind |-> "read", how |-> "block", addr |-> a, length |-> n, data |-> <<>>]
  <2>3. o \in Ops /\ Begin(o) /\ o.kind = "read" /\ o.addr \in Starts
        /\ o.length \in WordSizes \cup BlockSizes
    BY <2>1, <2>2 DEF Ops
  <2> HIDE DEF o
  <2> QED
    BY <2>3, BeginReadFlat
<1>5. CASE ReadPiece
  BY <1>5, ReadPieceFlat
<1>6. CASE WritePiece
  BY <1>6, WritePieceFlat
<1>7. CASE \E p \in Pages : MapRange(p)
  BY <1>7, MapRangeFlat
<1>8. CASE SetCodeRegion
  BY <1>8, SetCodeRegionFlat DEF Flat!Next
<1>9. CASE \E pc \in Addresses : pc % 4 = 0 /\ FetchInst(pc)
  <2>1. PICK pc \in Addresses : pc % 4 = 0 /\ FetchInst(pc)
    BY <1>9
  <2>2. (Gathered /\ Asked)' /\ Flat!Fetch(pc)
    BY <2>1, FetchInstFlat
  <2>3. pc \in Flat!Addresses
    BY DEF Flat!Addresses, Addresses
  <2> QED
    BY <2>1, <2>2, <2>3 DEF Flat!Next
<1>10. CASE UNCHANGED vars
  <2>1. Gathered' /\ Asked'
    BY <1>10 DEF FlatIInv, Gathered, Asked, vars, InPages, PageOf, OffsetOf, At, Space
  <2>2. \A a \in Addresses : MemoryAt(a)' = MemoryAt(a)
    BY <1>10 DEF MemoryAt, vars, InPages, PageOf, OffsetOf, Space
  <2> QED
    BY <1>10, <2>1, <2>2, MemorySame, CodeSame DEF Flat!vars, vars
<1> QED
  BY <1>1, <1>2, <1>3, <1>4, <1>5, <1>6, <1>7, <1>8, <1>9, <1>10 DEF Next

\* FlatMemory is implemented: whatever the pieces, pages and cache entries an
\* access takes, the guest sees one memory in which it is done at once.
THEOREM ImplementsFlatMemory == Spec => FlatMemorySpec
<1>1. Init => FlatIInv
  BY InitFlat
<1>2. FlatIInv /\ [Next]_vars => FlatIInv'
  BY FlatStep
<1>3. Init => Flat!Init
  BY FlatInitially
<1>4. FlatIInv /\ [Next]_vars => [Flat!Next]_(Flat!vars)
  BY FlatStep
<1> QED
  BY <1>1, <1>2, <1>3, <1>4, PTL DEF Spec, FlatMemorySpec, Flat!Spec
=============================================================================
