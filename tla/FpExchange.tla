---------------------------- MODULE FpExchange -----------------------------
(***************************************************************************)
(* One FairPlay exchange in the helper: FPSAPExchangeStandalone, fpRun and *)
(* the stubs of tools/fpsap-helper/fpemu/fpexchange_interp.go.             *)
(*                                                                         *)
(* The snapshot is loaded page by page and its fixups are applied, the     *)
(* instructions of the code region are copied for good, the arguments are  *)
(* put on the heap, and the guest runs until it returns to the trampoline. *)
(* On its way it calls library functions that the snapshot does not have:  *)
(* an address with a name or without code is a stub, which returns to the  *)
(* link register.                                                          *)
(*                                                                         *)
(* What is loaded is the snapshot itself (GuestCode, GuestData), by the    *)
(* bytes that it lists.  What the guest then does is left open: an         *)
(* instruction may lead to any of Places, put any of Links into the link   *)
(* register, or be refused (FpInstructions is about single instructions,   *)
(* FpMemory about memory).  The heap is counted from the page that it      *)
(* begins in, in words below Word instead of 2^64.                         *)
(***************************************************************************)
EXTENDS GuestData, Naturals, Sequences

CONSTANTS
  Places,       \* addresses that the guest gets to
  Links,        \* addresses that it may have in the link register
  Values,       \* values of its registers x0, x1 and x2, below Word
  Word,         \* 2^64
  SmallEnd,     \* 0x100000, up to which a value passes for a size
  GlobalValues, \* the values in 0x1a0000000 .. 0x1bfffffff
  TextValues,   \* the values in fpCodeBase .. fpCodeEnd - 1
  SliceEnd,     \* no slice has that many bytes
  MaxCount,     \* 100 million instructions
  MaxBlocks     \* bound of the model: blocks allocated

ASSUME WordAssumption == Word \in Nat /\ Word > 4096 /\ Word % 16 = 0
ASSUME ValuesAssumption == Values \subseteq 0 .. Word - 1
ASSUME CountAssumption == MaxCount \in Nat /\ MaxBlocks \in Nat

VARIABLES
  phase,    \* of FPSAPExchangeStandalone
  next,     \* how many pages, fixups or arguments the phase has done, plus 1
  memory,   \* mem.pages: for each page the spans of bytes put there
  sealed,   \* mem.codeInsts: the pages of the code region when it was copied
  heapPtr,  \* s.heapPtr
  blocks,   \* history: the blocks allocated, with the sizes asked for
  wrapped,  \* history: a size or the heap has exceeded a word
  stubs,    \* s.stubs: the names of stub addresses
  guestPC,       \* s.cpu.pc
  lr,       \* s.cpu.x[30]
  count     \* instructions and stubs so far, up to MaxCount + 1

loading == <<phase, next, memory, sealed>>
heap == <<heapPtr, blocks, wrapped>>
processor == <<stubs, guestPC, lr, count>>
exchangeVars == <<loading, heap, processor>>

(***************************************************************************)
(* Memory: mapRange, writeN, setCodeRegion, fetchInst.                     *)
(***************************************************************************)

\* Maps page p if it is not, and puts the spans there.
Put(p, spans) ==
  [q \in DOMAIN memory \cup {p} |->
     (IF q \in DOMAIN memory THEN memory[q] ELSE {})
       \cup (IF q = p THEN spans ELSE {})]

\* The spans of a page that lie within n bytes from offset o, moved to d.
Moved(spans, o, n, d) ==
  LET from(s) == IF s[1] < o THEN o ELSE s[1]
      to(s) == IF s[1] + s[2] > o + n THEN o + n ELSE s[1] + s[2]
  IN  {<<d + (from(s) - o), to(s) - from(s)>> : s \in {t \in spans : from(t) < to(t)}}

InCode(p) == p \in \h1a1210 .. \h1a1315

\* The word at address a has a byte other than zero, that is, one listed.
Present(pages, a) ==
  /\ a[1] \in DOMAIN pages
  /\ \E s \in pages[a[1]] : s[1] < a[2] + 4 /\ a[2] < s[1] + s[2]

\* The page that the heap begins in.
HeapPage == \h80017

Trampoline == <<\h10000, 0>>
Halt == <<\h10000, 4>>
Entry == <<\h1a12bf, \hb88>>

\* The words that hold a BRK.
Breaks == {Halt, <<\h30000, \h800>>, <<\h1806ed, \h554>>, <<\h1807d4, \h784>>}

(***************************************************************************)
(* What is asked of the snapshot.                                          *)
(***************************************************************************)
Apart(s, t) == s[1] + s[2] <= t[1] \/ t[1] + t[2] <= s[1]

\* The bytes that fixup k copies, and where to.
Target(k) == <<GuestFixups[k][1][2], GuestFixups[k][3]>>
Source(k) == <<GuestFixups[k][2][2], GuestFixups[k][3]>>
TargetPage(k) == GuestFixups[k][1][1]
SourcePage(k) == GuestFixups[k][2][1]

ListedPages == {GuestPages[k].page : k \in DOMAIN GuestPages}
Listed(p) == UNION {GuestPages[k].spans : k \in {j \in DOMAIN GuestPages : GuestPages[j].page = p}}
Copied(k) == Moved(Listed(SourcePage(k)), Source(k)[1], Source(k)[2], Target(k)[1])

\* A page is listed once, and each of its bytes.
ASSUME PagesAssumption ==
  /\ GuestPages \in Seq({GuestPages[k] : k \in DOMAIN GuestPages}) /\ GuestPages # <<>>
  /\ \A j, k \in DOMAIN GuestPages : GuestPages[j].page = GuestPages[k].page => j = k

ASSUME SpansAssumption ==
  \A k \in DOMAIN GuestPages :
    /\ GuestPages[k].spans \subseteq Nat \X Nat
    /\ \A s, t \in GuestPages[k].spans : s = t \/ Apart(s, t)

\* Fixups copy from listed pages, to where nothing is listed, copied or copied
\* from.
ASSUME FixupsAssumption ==
  /\ GuestFixups \in Seq((Nat \X Nat) \X (Nat \X Nat) \X Nat) /\ GuestFixups # <<>>
  /\ \A k \in DOMAIN GuestFixups :
       /\ SourcePage(k) \in ListedPages
       /\ \A s \in Listed(TargetPage(k)) : Apart(s, Target(k))

ASSUME TargetsAssumption ==
  \A j, k \in DOMAIN GuestFixups :
    /\ TargetPage(j) = TargetPage(k) => j = k \/ Apart(Target(j), Target(k))
    /\ TargetPage(j) = SourcePage(k) => Apart(Target(j), Source(k))

\* The pages of a snapshot; the two regions that are mapped are not among them.
SnapshotPages == ListedPages \cup {TargetPage(k) : k \in DOMAIN GuestFixups}
ASSUME RegionsAssumption == {\h10000, \h30000} \cap SnapshotPages = {}

\* A byte of the word at address a is listed or copied.
Provided(a) ==
  \/ \E s \in Listed(a[1]) : s[1] < a[2] + 4 /\ a[2] < s[1] + s[2]
  \/ \E k \in DOMAIN GuestFixups :
       TargetPage(k) = a[1] /\ \E s \in Copied(k) : s[1] < a[2] + 4 /\ a[2] < s[1] + s[2]

\* Where direct jumps lead and spans run on: where the recorded run went, and
\* where it did not go, which the snapshot therefore has not.
Recorded == UNION {p.goes \cup p.falls : p \in CodePages}
Unrecorded == UNION {p.lacks : p \in CodePages}

\* All of them are in the code region; the recorded ones have code, the others
\* have none.  The pages named are there, and nothing is put where the heap
\* begins.
ASSUME GuestAssumption ==
  /\ \A a \in Recorded \cup Unrecorded :
       InCode(a[1]) /\ (Provided(a) <=> a \notin Unrecorded)
  /\ \A p \in CodePages : p.names \cup {a[1] : a \in Pointers} \subseteq SnapshotPages
  /\ HeapPage \in SnapshotPages
  /\ \A s \in Listed(HeapPage) : s[1] + s[2] <= \h3f0
  /\ \A k \in DOMAIN GuestFixups : TargetPage(k) # HeapPage

Instruction(a) ==
  LET pages == IF InCode(a[1]) THEN sealed ELSE memory
  IN  IF ~Present(pages, a) THEN "none" ELSE IF a \in Breaks THEN "brk" ELSE "code"

(***************************************************************************)
(* The heap.                                                               *)
(***************************************************************************)

\* Mutant: sizes are rounded down.
RoundedDown(n) == (n \div 16) * 16

\* (n + 15) &^ 15.
Rounded(n) == (((n + 15) % Word) \div 16) * 16

\* heapAlloc(n), for a caller that wants asked bytes.
HeapAlloc(n, asked) ==
  /\ Len(blocks) < MaxBlocks
  /\ heapPtr' = (heapPtr + Rounded(n)) % Word
  /\ blocks' = Append(blocks, [at |-> heapPtr, size |-> asked])
  /\ wrapped' = (wrapped \/ asked >= Word \/ heapPtr + n + 15 >= Word)

\* A request for nothing gets 16 bytes.
Some(n) == IF n = 0 THEN 16 ELSE n

(***************************************************************************)
(* handleStub and fpDynStubClassify.                                       *)
(***************************************************************************)

\* An error ends the run: FPSAPExchangeStandalone panics.
Panic == phase' = "panic"

\* A slice of n bytes is made, unless there is none so long.
MakeSlice(n) == IF n >= SliceEnd THEN Panic ELSE UNCHANGED phase

Copying == {"_memcpy", "_memmove", "___memcpy_chk"}
Reading == {"_memset", "_memcmp", "_CC_SHA1_Update", "_CC_SHA512_Update", "_AES_CTR_Init"}

\* The effect of a stub, but for the return, on the heap and on the run: what
\* copies, fills, digests and ciphers do to memory is left out.
HandleStub(name, x0, x1, x2) ==
  \/ name = "_malloc" /\ HeapAlloc(Some(x0), x0) /\ UNCHANGED phase
  \/ LET total == (x0 * x1) % Word
     IN  /\ name = "_calloc"
         /\ HeapAlloc(Some(total), x0 * x1)
         /\ MakeSlice(Some(total))
  \/ name = "_realloc" /\ HeapAlloc(Some(x1), x1) /\ UNCHANGED phase
  \/ /\ name \in Copying
     /\ IF x0 # 0 /\ x1 # 0 THEN MakeSlice(x2) ELSE UNCHANGED phase
     /\ UNCHANGED heap
  \/ name \in Reading /\ MakeSlice(x2) /\ UNCHANGED heap
  \/ name = "_bzero" /\ MakeSlice(x1) /\ UNCHANGED heap
  \/ \* Only if the context is known.
     /\ name = "_AES_CTR_Update"
     /\ UNCHANGED phase \/ MakeSlice(x2)
     /\ UNCHANGED heap
  \/ \* The context may be one of SHA-1, whose digest has no 64 bytes.
     /\ name = "_CC_SHA512_Final"
     /\ UNCHANGED phase \/ Panic
     /\ UNCHANGED heap
  \/ /\ name \in {"_free", "_strlen", "_CC_SHA1_Init", "_CC_SHA1_Final", "_CC_SHA512_Init",
                  "_AES_CTR_Final", "_FigGetUpTimeNanoseconds", "_CFRetain",
                  "_FigThreadRunOnce", "_dispatch_once", "_nop"}
     /\ UNCHANGED <<phase, heap>>

DynStubClassify(a, x0, x1, x2) ==
  IF a[1] \in \h20000 .. \h2000f THEN "_nop"
  ELSE IF x0 \in GlobalValues /\ {x1, x2} \cap TextValues # {} THEN "_dispatch_once"
  ELSE IF x0 > 0 /\ x0 < SmallEnd THEN "_malloc"
  ELSE "_nop"

(***************************************************************************)
(* FPSAPExchangeStandalone.                                                *)
(***************************************************************************)
ExchangeInit ==
  /\ phase = "pages" /\ next = 1
  /\ memory = <<>> /\ sealed = <<>>
  /\ heapPtr = \h3f0 /\ blocks = <<>> /\ wrapped = FALSE
  /\ stubs = [a \in {s.at : s \in GuestStubs} |->
                (CHOOSE s \in GuestStubs : s.at = a).name]
  /\ guestPC = Trampoline /\ lr = <<0, 0>> /\ count = 0

\* Mutant: the code is copied before the fixups complete it.
SealedFirst(p) ==
  CASE p = "pages" -> "seal" [] p = "seal" -> "fixups" [] p = "fixups" -> "map"
    [] p = "map" -> "arguments" [] p = "arguments" -> "run"

\* The order of the phases.
Following(p) ==
  CASE p = "pages" -> "fixups" [] p = "fixups" -> "map" [] p = "map" -> "seal"
    [] p = "seal" -> "arguments" [] p = "arguments" -> "run"

\* The step was one of n that the phase has.
Proceed(n) ==
  IF next < n THEN next' = next + 1 /\ UNCHANGED phase
  ELSE next' = 1 /\ phase' = Following(phase)

\* A sparse page of the snapshot.
LoadPage ==
  /\ phase = "pages"
  /\ memory' = Put(GuestPages[next].page, GuestPages[next].spans)
  /\ Proceed(Len(GuestPages))
  /\ UNCHANGED <<sealed, heap, processor>>

\* An entry of dedupFixups: n bytes, as far as the source has them.
Fixup ==
  /\ phase = "fixups"
  /\ LET dst == GuestFixups[next][1]
         src == GuestFixups[next][2]
         n == GuestFixups[next][3]
     IN  memory' = Put(dst[1], Moved(memory[src[1]], src[2], n, dst[2]))
  /\ Proceed(Len(GuestFixups))
  /\ UNCHANGED <<sealed, heap, processor>>

\* The trampoline (BLR X8 and BRK) and a region with a BRK of its own.
MapRegions ==
  /\ phase = "map"
  /\ IF next = 1 THEN memory' = Put(\h10000, {<<0, 8>>})
     ELSE memory' = Put(\h30000, {<<0, 8>>, <<\h800, 4>>})
  /\ Proceed(2)
  /\ UNCHANGED <<sealed, heap, processor>>

SetCodeRegion ==
  /\ phase = "seal"
  /\ sealed' = [p \in {q \in DOMAIN memory : InCode(q)} |-> memory[p]]
  /\ Proceed(1)
  /\ UNCHANGED <<memory, heap, processor>>

\* hwInfo, m2, &outBuf, &outLen and &rc.
ArgumentSizes == <<24, 142, 8, 4, 4>>

Argument ==
  /\ phase = "arguments"
  /\ HeapAlloc(ArgumentSizes[next], ArgumentSizes[next])
  /\ Proceed(5)
  /\ UNCHANGED <<memory, sealed, processor>>

(***************************************************************************)
(* fpRun.                                                                  *)
(***************************************************************************)

\* count++, as far as anything is decided by it.
Counted == count' = IF count > MaxCount THEN count ELSE count + 1

\* Mutant: the count is kept but never looked at.
NeverExceeded(n) == FALSE

Exceeded(n) == n > MaxCount

Running == phase = "run" /\ guestPC # Halt

\* An address with a name: the stub, then back to the link.
NamedStub ==
  /\ Running
  /\ guestPC \in DOMAIN stubs
  /\ \E x0, x1, x2 \in Values : HandleStub(stubs[guestPC], x0, x1, x2)
  /\ guestPC' = lr
  /\ Counted
  /\ UNCHANGED <<next, memory, sealed, stubs, lr>>

\* An address without a name is given one, by what the registers look like.
NewStub ==
  \E x0, x1, x2 \in Values :
    LET name == DynStubClassify(guestPC, x0, x1, x2)
    IN  /\ stubs' = [a \in DOMAIN stubs \cup {guestPC} |-> IF a = guestPC THEN name ELSE stubs[a]]
        /\ HandleStub(name, x0, x1, x2)
        /\ guestPC' = lr

\* No instruction there: the count is not compared with the limit.
MissingCode ==
  /\ Running
  /\ guestPC \notin DOMAIN stubs
  /\ Instruction(guestPC) = "none"
  /\ NewStub
  /\ Counted
  /\ UNCHANGED <<next, memory, sealed, lr>>

\* fpStep on a BRK.
Break ==
  /\ Running
  /\ guestPC \notin DOMAIN stubs
  /\ Instruction(guestPC) = "brk"
  /\ Counted
  /\ IF Exceeded(count') THEN Panic /\ UNCHANGED <<heap, stubs, guestPC>> ELSE NewStub
  /\ UNCHANGED <<next, memory, sealed, lr>>

\* fpStep on any other instruction.
Instruct ==
  /\ Running
  /\ guestPC \notin DOMAIN stubs
  /\ Instruction(guestPC) = "code"
  /\ IF guestPC = Trampoline
     THEN guestPC' = Entry /\ lr' = Halt
     ELSE guestPC' \in Places \cup {Halt} /\ lr' \in {lr, Halt} \cup Links
  /\ Counted
  /\ IF Exceeded(count') THEN Panic ELSE UNCHANGED phase
  /\ UNCHANGED <<next, memory, sealed, heap, stubs>>

\* An instruction that fpStep refuses.
Refuse ==
  /\ Running
  /\ guestPC \notin DOMAIN stubs
  /\ Instruction(guestPC) = "code"
  /\ Panic
  /\ UNCHANGED <<next, memory, sealed, heap, processor>>

\* The guest is back.  The hash is what it left, or twenty zeros if that is too
\* short; its return code is not looked at.
Return ==
  /\ phase = "run"
  /\ guestPC = Halt
  /\ phase' \in {"hash", "zeros"}
  /\ UNCHANGED <<next, memory, sealed, heap, processor>>

ExchangeNext ==
  \/ LoadPage \/ Fixup \/ MapRegions \/ SetCodeRegion \/ Argument
  \/ NamedStub \/ MissingCode \/ Break \/ Instruct \/ Refuse \/ Return

ExchangeSpec == ExchangeInit /\ [][ExchangeNext]_exchangeVars
FairSpec == ExchangeSpec /\ WF_exchangeVars(ExchangeNext)

(***************************************************************************)
(* Correctness.                                                            *)
(***************************************************************************)

\* No byte is put twice: neither do spans overlap, nor does a fixup overwrite
\* what was loaded or copied before, so that their order does not matter.
NothingTwice ==
  phase \in {"pages", "fixups", "map", "seal"} =>
    \A p \in DOMAIN memory : \A s, t \in memory[p] : s = t \/ Apart(s, t)

\* Nothing of the snapshot lies where the heap begins.
HeapIsFree ==
  phase = "arguments" =>
    \A s \in memory[HeapPage] : s[1] + s[2] <= \h3f0

\* Where direct jumps and spans lead, the guest runs into a stub exactly where the
\* recorded run did not go: there the code is missing, fetchInst reads zero, and
\* nobody notices (MissingCode).  Everywhere else it finds code; and memory has
\* every page that code or a pointer names, which would read as zeros otherwise.
SealedWhole ==
  phase = "arguments" =>
    /\ \A a \in Recorded \cup Unrecorded : Instruction(a) = "none" <=> a \in Unrecorded
    /\ \A p \in CodePages : p.names \cup {a[1] : a \in Pointers} \subseteq DOMAIN memory

\* The snapshot is loaded whole by FPSAPExchangeStandalone, and setCodeRegion
\* copies the code when it is complete.
SnapshotWhole == NothingTwice /\ HeapIsFree /\ SealedWhole

\* Blocks of heapAlloc lie one behind the other, none empty, while nothing
\* asked for exceeds a word.
BlocksApart ==
  ~wrapped =>
    \A i, j \in 1 .. Len(blocks) : i < j =>
      /\ blocks[i].at < blocks[j].at
      /\ blocks[i].at + blocks[i].size <= blocks[j].at

\* They are aligned as what is put there may need, wrapped or not.
BlocksAligned == \A i \in 1 .. Len(blocks) : blocks[i].at % 16 = 0

\* The invariant of the proof: where the next block goes, and that the heap is
\* asked for one argument after another.
HeapInv ==
  /\ heapPtr \in 0 .. Word - 1 /\ heapPtr % 16 = 0
  /\ blocks \in Seq([at : Nat, size : Nat]) /\ wrapped \in BOOLEAN
  /\ next \in Nat \ {0} /\ (phase = "arguments" => next <= 5)
  /\ ~wrapped =>
       \A i \in 1 .. Len(blocks) :
         blocks[i].at < heapPtr /\ blocks[i].at + blocks[i].size <= heapPtr
  /\ BlocksApart
  /\ BlocksAligned

\* The guest is where a stub returns to itself: the loop that fpRun does not
\* count against its limit.
Hangs == Running /\ guestPC = lr /\ (guestPC \in DOMAIN stubs \/ Instruction(guestPC) = "none")

\* fpRun ends after MaxCount instructions at the latest, unless the guest gets
\* to a stub, or to missing code, while the link register holds that address.
RunEnds == <>(phase \in {"hash", "zeros", "panic"}) \/ <>[]Hangs

=============================================================================
