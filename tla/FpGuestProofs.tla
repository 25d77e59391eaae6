----------------------------- MODULE FpGuestProofs -----------------------------
(***************************************************************************)
(* Proofs about the FairPlay interpreter: the flags of its instructions    *)
(* (FpFlags), the heap of an exchange and the loading of its snapshot      *)
(* (FpExchange), and its instructions bit by bit against the architecture  *)
(* (FpInstructions).                                                       *)
(***************************************************************************)
EXTENDS FpInstructions, FpExchange, WellFoundedInduction, TLAPS

(***************************************************************************)
(* FpFlags: the flags mean what the ARM conditions say of the operands,    *)
(* for words of any size.  The sum of two words and a carry is below twice *)
(* the modulus, so it wraps at most once; the flags are the four linear    *)
(* conditions of lemma WordSum, and the rest is arithmetic.                *)
(***************************************************************************)
(* Half the words of a width are a positive number.                        *)
LEMMA Halves ==
  ASSUME NEW w \in Widths
  PROVE  Half(w) \in Nat \ {0}
BY WidthAssumption DEF Widths, Half

(* A number below twice the modulus wraps once or not at all.              *)
LEMMA WrapsOnce ==
  ASSUME NEW h \in Nat \ {0}, NEW s \in 0..4*h-1
  PROVE  s % (2 * h) = IF s < 2 * h THEN s ELSE s - 2 * h
<1>1. CASE s < 2 * h
  BY <1>1
<1>2. CASE s >= 2 * h
  <2>1. /\ s = 2 * h + (s - 2 * h)
        /\ s - 2 * h \in 0..2*h-1
    BY <1>2
  <2>2. s % (2 * h) = s - 2 * h
    BY <2>1
  <2> QED
    BY <1>2, <2>2
<1> QED
  BY <1>1, <1>2

(* fpAddWithCarry64 and fpAddWithCarry32: the flags by the exact sum.      *)
LEMMA WordSum ==
  ASSUME NEW w \in Widths, NEW x \in Words(w), NEW y \in Words(w),
         NEW carry \in 0..1, AddWithCarry(w, x, y, carry)
  PROVE  LET s == x + y + carry
             m == 2 * Half(w)
             r == IF s < m THEN s ELSE s - m
         IN  /\ n' = IF r >= Half(w) THEN 1 ELSE 0
             /\ z' = IF r = 0 THEN 1 ELSE 0
             /\ c' = IF s >= m THEN 1 ELSE 0
             /\ v' = IF \/ x < Half(w) /\ y < Half(w) /\ r >= Half(w)
                        \/ x >= Half(w) /\ y >= Half(w) /\ r < Half(w)
                     THEN 1 ELSE 0
<1> DEFINE h == Half(w)
           s == x + y + carry
           r == IF s < 2 * h THEN s ELSE s - 2 * h
<1>1. h \in Nat \ {0}
  BY Halves
<1>2. x \in 0..2*h-1 /\ y \in 0..2*h-1
  BY DEF Words, Modulus
<1>3. s \in 0..4*h-1
  <2> HIDE DEF h
  <2> QED
    BY <1>1, <1>2
<1>4. Sum(w, x, y, carry) = r
  <2>1. s % (2 * h) = r
    <3> HIDE DEF h, s
    <3> QED
      BY <1>1, <1>3, WrapsOnce
  <2> QED
    BY <2>1 DEF Sum, Modulus
<1>5. n' = IF r >= h THEN 1 ELSE 0
  BY <1>4 DEF AddWithCarry, Negative, Bit
<1>6. z' = IF r = 0 THEN 1 ELSE 0
  BY <1>4 DEF AddWithCarry, Bit
<1>7. c' = IF s >= 2 * h THEN 1 ELSE 0
  <2>1. CASE w = 64
    <3>1. c' = Bit(IF carry = 0 THEN r < x ELSE r <= x)
      BY <1>4, <2>1 DEF AddWithCarry, CarryOut64
    <3>2. (IF carry = 0 THEN r < x ELSE r <= x) <=> s >= 2 * h
      <4> HIDE DEF h
      <4> QED
        BY <1>1, <1>2
    <3> QED
      BY <3>1, <3>2 DEF Bit
  <2>2. CASE w = 32
    BY <2>2 DEF AddWithCarry, CarryOut32, Bit, Modulus
  <2> QED
    BY <2>1, <2>2 DEF Widths
<1>8. v' = IF \/ x < h /\ y < h /\ r >= h
              \/ x >= h /\ y >= h /\ r < h
           THEN 1 ELSE 0
  <2>1. v' = Bit(((x >= h) # (r >= h)) /\ ((y >= h) # (r >= h)))
    BY <1>4 DEF AddWithCarry, Overflow, Negative
  <2>2. r \in Int
    <3> HIDE DEF h
    <3> QED
      BY <1>1, <1>2
  <2> HIDE DEF h, r
  <2> QED
    BY <1>1, <1>2, <2>1, <2>2 DEF Bit
<1> QED
  BY <1>5, <1>6, <1>7, <1>8

(* The flags that a comparison or an addition sets mean what they should.  *)
LEMMA SetFlagsRight ==
  ASSUME NEW w \in Widths, NEW op \in {"add", "sub"},
         NEW a \in Words(w), NEW b \in Words(w), SetFlags(w, op, a, b)
  PROVE  /\ n' \in 0..1 /\ z' \in 0..1 /\ c' \in 0..1 /\ v' \in 0..1
         /\ kind' \in {"sub", "add"}
         /\ width' \in Widths /\ lhs' \in Words(width)' /\ rhs' \in Words(width)'
         /\ ComparesRight' /\ AddsRight' /\ TestsRight'
<1> DEFINE h == Half(w)
<1>1. h \in Nat \ {0} /\ a \in 0..2*h-1 /\ b \in 0..2*h-1
  BY Halves DEF Words, Modulus
<1>2. kind' = op /\ width' = w /\ lhs' = a /\ rhs' = b
  BY DEF SetFlags
<1>3. Words(width)' = Words(w) /\ Half(width)' = h /\ Modulus(width)' = 2 * h
  BY <1>2 DEF Words, Half, Modulus
<1>4. /\ Left' = IF a >= h THEN a - 2 * h ELSE a
      /\ Right' = IF b >= h THEN b - 2 * h ELSE b
  BY <1>2, <1>3 DEF Left, Right, Signed, Negative
<1>5. TestsRight'
  BY <1>2 DEF TestsRight
<1>6. CASE op = "sub"
  <2> DEFINE s == a + (2 * h - 1 - b) + 1
             r == IF s < 2 * h THEN s ELSE s - 2 * h
  <2>1. Complement(w, b) \in Words(w) /\ Complement(w, b) = 2 * h - 1 - b
    <3>1. Complement(w, b) = 2 * h - 1 - b
      BY DEF Complement, Modulus
    <3>2. Words(w) = 0..2*h-1
      BY DEF Words, Modulus
    <3> HIDE DEF h
    <3> QED
      BY <1>1, <3>1, <3>2
  <2>2. AddWithCarry(w, a, Complement(w, b), 1)
    BY <1>6 DEF SetFlags
  <2>3. /\ n' = IF r >= h THEN 1 ELSE 0
        /\ z' = IF r = 0 THEN 1 ELSE 0
        /\ c' = IF s >= 2 * h THEN 1 ELSE 0
        /\ v' = IF \/ a < h /\ 2 * h - 1 - b < h /\ r >= h
                   \/ a >= h /\ 2 * h - 1 - b >= h /\ r < h
                THEN 1 ELSE 0
    BY <2>1, <2>2, WordSum
  <2>4. n' \in 0..1 /\ z' \in 0..1 /\ c' \in 0..1 /\ v' \in 0..1
    BY <2>3
  <2>5. ComparesRight'
    <3> HIDE DEF h
    <3>1. /\ z' = 1 <=> a = b
          /\ c' = 1 <=> a >= b
      BY <1>1, <2>3
    <3>2. c' = 1 /\ z' = 0 <=> a > b
      BY <1>1, <2>3
    <3>3. n' = v' <=> Left' >= Right'
      BY <1>1, <1>4, <2>3
    <3>4. n' = v' /\ z' = 0 <=> Left' > Right'
      BY <1>1, <1>4, <2>3
    <3>5. v' = 1 <=> \/ Left' - Right' < -h
                    \/ Left' - Right' >= h
      BY <1>1, <1>4, <2>3
    <3>6. n' = 1 <=> (Left' < Right') # (Left' - Right' < -h \/ Left' - Right' >= h)
      BY <1>1, <1>4, <2>3
    <3> QED
      BY <1>2, <1>3, <3>1, <3>2, <3>3, <3>4, <3>5, <3>6
      DEF ComparesRight, Holds, OutOfRange
  <2> QED
    BY <1>2, <1>3, <1>5, <1>6, <2>4, <2>5 DEF AddsRight
<1>7. CASE op = "add"
  <2> DEFINE s == a + b + 0
             r == IF s < 2 * h THEN s ELSE s - 2 * h
  <2>1. AddWithCarry(w, a, b, 0)
    BY <1>7 DEF SetFlags
  <2>2. /\ n' = IF r >= h THEN 1 ELSE 0
        /\ z' = IF r = 0 THEN 1 ELSE 0
        /\ c' = IF s >= 2 * h THEN 1 ELSE 0
        /\ v' = IF \/ a < h /\ b < h /\ r >= h
                   \/ a >= h /\ b >= h /\ r < h
                THEN 1 ELSE 0
    BY <2>1, WordSum
  <2>3. n' \in 0..1 /\ z' \in 0..1 /\ c' \in 0..1 /\ v' \in 0..1
    BY <2>2
  <2>4. AddsRight'
    <3> HIDE DEF h
    <3>1. /\ z' = 1 <=> a + b \in {0, 2 * h}
          /\ c' = 1 <=> a + b >= 2 * h
      BY <1>1, <2>2
    <3>2. n' = v' <=> Left' + Right' >= 0
      BY <1>1, <1>4, <2>2
    <3>3. n' = v' /\ z' = 0 <=> Left' + Right' > 0
      BY <1>1, <1>4, <2>2
    <3>4. v' = 1 <=> \/ Left' + Right' < -h
                    \/ Left' + Right' >= h
      BY <1>1, <1>4, <2>2
    <3> QED
      BY <1>2, <1>3, <3>1, <3>2, <3>3, <3>4 DEF AddsRight, Holds, OutOfRange
  <2> QED
    BY <1>2, <1>3, <1>5, <1>7, <2>3, <2>4 DEF ComparesRight
<1> QED
  BY <1>6, <1>7

(* The inductive step: every instruction leaves flags that mean what they  *)
(* should, or none that claim to.                                          *)
LEMMA StepIInv == FlagsInv /\ [Next]_vars => FlagsInv'
<1> SUFFICES ASSUME FlagsInv, [Next]_vars PROVE FlagsInv'
  OBVIOUS
<1>1. pc' \in 0..CodeSize-1
  <2>1. (pc + 1) % CodeSize \in 0..CodeSize-1
    BY CodeAssumption DEF FlagsInv, TypeOK
  <2> QED
    BY <2>1 DEF FlagsInv, TypeOK, Next, vars, AddSub, LogicalTest, CondCompare,
                CondCompareNot, Branch, Other, Advance
<1>2. ASSUME NEW w \in Widths, NEW op \in {"add", "sub"},
             NEW a \in Words(w), NEW b \in Words(w), SetFlags(w, op, a, b)
      PROVE  FlagsInv'
  BY <1>1, <1>2, SetFlagsRight DEF FlagsInv, TypeOK
<1>3. ASSUME NEW w \in Widths, NEW r \in Words(w), LogicalTest(w, r)
      PROVE  FlagsInv'
  <2> DEFINE h == Half(w)
  <2>1. h \in Nat \ {0} /\ r \in 0..2*h-1
    BY Halves DEF Words, Modulus
  <2>2. /\ n' = IF r >= h THEN 1 ELSE 0
        /\ z' = IF r = 0 THEN 1 ELSE 0
        /\ c' = 0 /\ v' = 0
        /\ kind' = "and" /\ width' = w /\ lhs' = r /\ rhs' = 0
    BY <1>3 DEF LogicalTest, Bit, Negative
  <2>3. Words(width)' = 0..2*h-1
    BY <2>2 DEF Words, Modulus, Half
  <2>4. Left' = IF r >= h THEN r - 2 * h ELSE r
    BY <2>2 DEF Left, Signed, Negative, Modulus, Half
  <2> HIDE DEF h
  <2>5. TestsRight'
    <3>1. /\ z' = 1 <=> r = 0
          /\ n' = 1 <=> Left' < 0
          /\ n' = v' <=> Left' >= 0
          /\ n' = v' /\ z' = 0 <=> Left' > 0
      BY <2>1, <2>2, <2>4
    <3> QED
      BY <2>2, <3>1 DEF TestsRight, Holds
  <2>6. rhs' \in 0..2*h-1
    BY <2>1, <2>2
  <2> QED
    BY <1>1, <2>1, <2>2, <2>3, <2>5, <2>6 DEF FlagsInv, TypeOK, ComparesRight, AddsRight
<1>4. ASSUME NEW cond \in Conditions, CondCompareNot(cond)
      PROVE  FlagsInv'
  <2>1. 0 \in Words(64) /\ 64 \in Widths
    <3>1. 64 \in Widths
      BY DEF Widths
    <3> QED
      BY <3>1, Halves DEF Words, Modulus
  <2>2. Words(width)' = Words(64)
    BY <1>4 DEF CondCompareNot, Words, Modulus, Half
  <2> QED
    BY <1>1, <1>4, <2>1, <2>2
    DEF CondCompareNot, FlagsInv, TypeOK, ComparesRight, AddsRight, TestsRight
<1>5. CASE UNCHANGED <<flags, last>>
  <2>1. /\ TypeOK' /\ ComparesRight'
    BY <1>1, <1>5 DEF flags, last, FlagsInv, TypeOK, Words, Modulus, Half,
       ComparesRight, Holds, Left, Right, Signed, Negative, OutOfRange
  <2>2. AddsRight' /\ TestsRight'
    BY <1>5 DEF flags, last, FlagsInv, Modulus, Half,
       AddsRight, TestsRight, Holds, Left, Right, Signed, Negative, OutOfRange
  <2> QED
    BY <2>1, <2>2 DEF FlagsInv
<1>6. CASE UNCHANGED vars
  BY <1>5, <1>6 DEF vars, flags, last
<1> QED
  BY <1>2, <1>3, <1>4, <1>5, <1>6
  DEF Next, AddSub, CondCompare, Branch, Other

(* No flags are claimed at the start.                                      *)
LEMMA InitIInv == Init => FlagsInv
<1> SUFFICES ASSUME Init PROVE FlagsInv
  OBVIOUS
<1>1. 64 \in Widths
  BY DEF Widths
<1>2. 0 \in Words(64)
  BY <1>1, Halves DEF Words, Modulus
<1>3. 0 \in 0..CodeSize-1
  BY CodeAssumption
<1> QED
  BY <1>1, <1>2, <1>3 DEF Init, FlagsInv, TypeOK, ComparesRight, AddsRight, TestsRight

(* The flags of the last ADDS, SUBS, ANDS or conditional compare mean what *)
(* the ARM conditions say of its operands, at either width.                *)
THEOREM Invariance == Spec => []FlagsInv
BY InitIInv, StepIInv, PTL DEF Spec

(* After a comparison every condition decides as the operands compare.     *)
THEOREM Comparisons == Spec => []ComparesRight
<1>1. FlagsInv => ComparesRight
  BY DEF FlagsInv
<1> QED
  BY Invariance, <1>1, PTL

(***************************************************************************)
(* FpExchange: the heap, for any word that is a multiple of 16, any        *)
(* registers and any guest.  Blocks are apart while nothing exceeds a      *)
(* word, and aligned in any case.                                          *)
(***************************************************************************)

\* A size is rounded up to a multiple of 16.
LEMMA RoundedUp ==
  ASSUME NEW k \in Nat
  PROVE  /\ Rounded(k) \in 0 .. Word - 1
         /\ Rounded(k) % 16 = 0
         /\ k + 15 < Word => Rounded(k) >= k
<1> DEFINE m == (k + 15) % Word
<1>1. m \in 0 .. Word - 1
  BY WordAssumption
<1>2. k + 15 < Word => m = k + 15
  BY WordAssumption
<1> HIDE DEF m
<1>3. /\ (m \div 16) * 16 \in 0 .. m
      /\ m - (m \div 16) * 16 < 16
      /\ ((m \div 16) * 16) % 16 = 0
  BY <1>1, WordAssumption
<1>4. Rounded(k) = (m \div 16) * 16
  BY DEF Rounded, m
<1> QED
  BY <1>1, <1>2, <1>3, <1>4, WordAssumption

\* heapAlloc keeps the invariant if the caller asks for no more than it passes
\* on, and passes on something.
LEMMA HeapAllocKeeps ==
  ASSUME HeapInv, NEW k \in Nat \ {0}, NEW asked \in Nat,
         asked < Word => asked <= k, HeapAlloc(k, asked),
         next' \in Nat \ {0}, phase' = "arguments" => next' <= 5
  PROVE  HeapInv'
<1> DEFINE r == Rounded(k)
           b == [at |-> heapPtr, size |-> asked]
<1>1. /\ r \in 0 .. Word - 1 /\ r % 16 = 0
      /\ k + 15 < Word => r >= k
  BY RoundedUp
<1>2. /\ heapPtr' = (heapPtr + r) % Word
      /\ blocks' = Append(blocks, b)
      /\ wrapped' = (wrapped \/ asked >= Word \/ heapPtr + k + 15 >= Word)
  BY DEF HeapAlloc
<1> HIDE DEF r
<1>3. heapPtr \in 0 .. Word - 1 /\ heapPtr % 16 = 0 /\ wrapped \in BOOLEAN
  BY DEF HeapInv
<1>4. blocks \in Seq([at : Nat, size : Nat]) /\ b \in [at : Nat, size : Nat]
  BY <1>3, WordAssumption DEF HeapInv
<1>5. /\ blocks' \in Seq([at : Nat, size : Nat])
      /\ Len(blocks') = Len(blocks) + 1
      /\ \A i \in 1 .. Len(blocks) : blocks'[i] = blocks[i]
      /\ blocks'[Len(blocks) + 1] = b
  BY <1>2, <1>4
<1>6. Len(blocks) \in Nat
  BY <1>4
<1>7. heapPtr' \in 0 .. Word - 1 /\ heapPtr' % 16 = 0
  <2>1. heapPtr + r < Word => heapPtr' = heapPtr + r
    BY <1>1, <1>2, <1>3, WordAssumption
  <2>2. heapPtr + r >= Word => heapPtr' = heapPtr + r - Word
    BY <1>1, <1>2, <1>3, WordAssumption
  <2> QED
    BY <2>1, <2>2, <1>1, <1>3, WordAssumption
<1>8. ASSUME ~wrapped'
      PROVE  /\ ~wrapped /\ asked <= k /\ r >= k
             /\ heapPtr' = heapPtr + r
  <2>1. ~wrapped /\ asked < Word /\ heapPtr + k + 15 < Word
    <3>1. ~wrapped /\ ~(asked >= Word) /\ ~(heapPtr + k + 15 >= Word)
      BY <1>8, <1>2
    <3> QED
      BY <3>1, <1>3, WordAssumption
  <2>2. r >= k /\ r <= k + 15
    <3>1. k + 15 < Word
      BY <2>1, <1>3, WordAssumption
    <3>2. Rounded(k) <= k + 15
      BY <3>1, WordAssumption DEF Rounded
    <3> QED
      BY <3>1, <3>2, <1>1 DEF r
  <2>3. heapPtr + r < Word
    BY <2>1, <2>2, <1>1, <1>3, WordAssumption
  <2> QED
    BY <2>1, <2>2, <2>3, <1>1, <1>2, <1>3, WordAssumption
<1>9. ~wrapped' =>
        \A i \in 1 .. Len(blocks') :
          blocks'[i].at < heapPtr' /\ blocks'[i].at + blocks'[i].size <= heapPtr'
  <2> SUFFICES ASSUME ~wrapped', NEW i \in 1 .. Len(blocks')
               PROVE  blocks'[i].at < heapPtr' /\ blocks'[i].at + blocks'[i].size <= heapPtr'
    OBVIOUS
  <2>1. CASE i \in 1 .. Len(blocks)
    <3>1. blocks[i].at < heapPtr /\ blocks[i].at + blocks[i].size <= heapPtr
      BY <1>8, <2>1 DEF HeapInv
    <3>2. blocks[i] \in [at : Nat, size : Nat]
      <4> DEFINE Block == [at : Nat, size : Nat]
      <4>1. blocks \in Seq(Block)
        BY <1>4
      <4> HIDE DEF Block
      <4>2. blocks[i] \in Block
        BY <4>1, <2>1
      <4> QED
        BY <4>2 DEF Block
    <3>3. blocks[i].at \in Nat /\ blocks[i].size \in Nat
      BY <3>2
    <3>4. blocks'[i] = blocks[i]
      BY <1>5, <2>1
    <3>5. heapPtr' = heapPtr + r /\ r \in Nat /\ heapPtr \in Nat
      BY <1>1, <1>3, <1>8, WordAssumption
    <3> QED
      BY <3>1, <3>3, <3>4, <3>5
  <2>2. CASE i = Len(blocks) + 1
    <3>1. blocks'[i].at = heapPtr /\ blocks'[i].size = asked
      BY <1>5, <2>2
    <3> QED
      BY <3>1, <1>8, <1>1, <1>3, WordAssumption
  <2> QED
    BY <2>1, <2>2, <1>5, <1>6
<1>10. BlocksApart'
  <2> SUFFICES ASSUME ~wrapped', NEW i \in 1 .. Len(blocks'), NEW j \in 1 .. Len(blocks'),
                      i < j
               PROVE  /\ blocks'[i].at < blocks'[j].at
                      /\ blocks'[i].at + blocks'[i].size <= blocks'[j].at
    BY DEF BlocksApart
  <2>1. i \in 1 .. Len(blocks)
    BY <1>5, <1>6
  <2>2. CASE j \in 1 .. Len(blocks)
    BY <2>1, <2>2, <1>5, <1>8 DEF HeapInv, BlocksApart
  <2>3. CASE j = Len(blocks) + 1
    <3>1. blocks'[j].at = heapPtr
      BY <1>5, <2>3
    <3>2. blocks[i].at < heapPtr /\ blocks[i].at + blocks[i].size <= heapPtr
      BY <1>8, <2>1 DEF HeapInv
    <3> QED
      BY <3>1, <3>2, <2>1, <1>5
  <2> QED
    BY <2>2, <2>3, <1>5, <1>6
<1>11. BlocksAligned'
  <2> SUFFICES ASSUME NEW i \in 1 .. Len(blocks')
               PROVE  blocks'[i].at % 16 = 0
    BY DEF BlocksAligned
  <2>1. CASE i \in 1 .. Len(blocks)
    BY <2>1, <1>5 DEF HeapInv, BlocksAligned
  <2>2. CASE i = Len(blocks) + 1
    BY <2>2, <1>5, <1>3
  <2> QED
    BY <2>1, <2>2, <1>5, <1>6
<1>12. wrapped' \in BOOLEAN
  BY <1>2
<1> QED
  BY <1>5, <1>7, <1>9, <1>10, <1>11, <1>12 DEF HeapInv

\* A step that leaves the heap alone keeps the invariant if it counts on.
LEMMA HeapUnchanged ==
  ASSUME HeapInv, UNCHANGED heap, next' \in Nat \ {0}, phase' = "arguments" => next' <= 5
  PROVE  HeapInv'
BY DEF HeapInv, heap, BlocksApart, BlocksAligned

\* A phase counts from 1 up to the number of its steps.
LEMMA ProceedCounts ==
  ASSUME HeapInv, NEW k \in Nat, Proceed(k), phase = "arguments" => k <= 5
  PROVE  next' \in Nat \ {0} /\ (phase' = "arguments" => next' <= 5)
BY DEF HeapInv, Proceed

\* Every stub keeps the invariant while the guest runs.
LEMMA HandleStubKeeps ==
  ASSUME HeapInv, phase = "run", UNCHANGED next,
         NEW name, NEW x0 \in Values, NEW x1 \in Values, NEW x2 \in Values,
         HandleStub(name, x0, x1, x2)
  PROVE  HeapInv'
<1>1. x0 \in Nat /\ x1 \in Nat /\ x0 * x1 \in Nat
  BY ValuesAssumption, WordAssumption
<1>2. \A m \in Nat : Some(m) \in Nat \ {0} /\ m <= Some(m)
  BY DEF Some
<1>3. phase' \in {"run", "panic"}
  BY DEF HandleStub, MakeSlice, Panic
<1>4. next' \in Nat \ {0} /\ (phase' = "arguments" => next' <= 5)
  BY <1>3 DEF HeapInv
<1>5. CASE HeapAlloc(Some(x0), x0)
  BY <1>1, <1>2, <1>4, <1>5, HeapAllocKeeps
<1>6. CASE HeapAlloc(Some(x1), x1)
  BY <1>1, <1>2, <1>4, <1>6, HeapAllocKeeps
<1>7. CASE HeapAlloc(Some((x0 * x1) % Word), x0 * x1)
  <2> DEFINE p == x0 * x1
  <2>1. p \in Nat
    BY <1>1
  <2> HIDE DEF p
  <2>2. p % Word \in Nat /\ (p < Word => p % Word = p)
    BY <2>1, WordAssumption
  <2>3. Some(p % Word) \in Nat \ {0} /\ (p < Word => p <= Some(p % Word))
    BY <2>1, <2>2, <1>2
  <2>4. HeapAlloc(Some(p % Word), p)
    BY <1>7 DEF p
  <2> QED
    BY <2>1, <2>3, <2>4, <1>4, HeapAllocKeeps
<1>8. CASE UNCHANGED heap
  BY <1>4, <1>8, HeapUnchanged
<1> QED
  BY <1>5, <1>6, <1>7, <1>8 DEF HandleStub, heap

LEMMA InitHeapInv == ExchangeInit => HeapInv
<1> SUFFICES ASSUME ExchangeInit
             PROVE  HeapInv
  OBVIOUS
<1>1. blocks = <<>> /\ wrapped = FALSE /\ heapPtr = 1008 /\ next = 1 /\ phase = "pages"
  BY DEF ExchangeInit
<1>2. heapPtr \in 0 .. Word - 1 /\ heapPtr % 16 = 0
  BY <1>1, WordAssumption
<1>3. blocks \in Seq([at : Nat, size : Nat]) /\ 1 .. Len(blocks) = {}
  BY <1>1
<1>4. BlocksApart /\ BlocksAligned
  BY <1>3 DEF BlocksApart, BlocksAligned
<1>5. ~wrapped =>
        \A i \in 1 .. Len(blocks) :
          blocks[i].at < heapPtr /\ blocks[i].at + blocks[i].size <= heapPtr
  BY <1>3
<1>6. next \in Nat \ {0} /\ (phase = "arguments" => next <= 5)
  BY <1>1
<1>7. wrapped \in BOOLEAN
  BY <1>1
<1> QED
  BY <1>2, <1>3, <1>4, <1>5, <1>6, <1>7 DEF HeapInv

LEMMA StepHeapInv == HeapInv /\ [ExchangeNext]_exchangeVars => HeapInv'
<1> SUFFICES ASSUME HeapInv, [ExchangeNext]_exchangeVars
             PROVE  HeapInv'
  OBVIOUS
<1>1. CASE LoadPage
  <2>1. UNCHANGED heap /\ phase = "pages" /\ Proceed(Len(GuestPages))
    BY <1>1 DEF LoadPage
  <2>2. Len(GuestPages) \in Nat
    BY DEF GuestPages
  <2> QED
    BY <2>1, <2>2, ProceedCounts, HeapUnchanged
<1>2. CASE Fixup
  <2>1. UNCHANGED heap /\ phase = "fixups" /\ Proceed(Len(GuestFixups))
    BY <1>2 DEF Fixup
  <2>2. Len(GuestFixups) \in Nat
    BY DEF GuestFixups
  <2> QED
    BY <2>1, <2>2, ProceedCounts, HeapUnchanged
<1>3. CASE MapRegions
  BY <1>3, ProceedCounts, HeapUnchanged DEF MapRegions
<1>4. CASE SetCodeRegion
  BY <1>4, ProceedCounts, HeapUnchanged DEF SetCodeRegion
<1>5. CASE Argument
  <2>1. next \in 1 .. 5
    BY <1>5 DEF Argument, HeapInv
  <2>2. ArgumentSizes[next] \in Nat \ {0}
    BY <2>1 DEF ArgumentSizes
  <2>3. next' \in Nat \ {0} /\ (phase' = "arguments" => next' <= 5)
    BY <1>5, ProceedCounts DEF Argument
  <2> QED
    BY <1>5, <2>2, <2>3, HeapAllocKeeps DEF Argument
<1>6. CASE NamedStub
  <2>1. PICK x0, x1, x2 \in Values : HandleStub(stubs[guestPC], x0, x1, x2)
    BY <1>6 DEF NamedStub
  <2> QED
    BY <1>6, <2>1, HandleStubKeeps DEF NamedStub, Running
<1>7. ASSUME NewStub, phase = "run", UNCHANGED next
      PROVE  HeapInv'
  <2>1. PICK x0, x1, x2 \in Values :
          HandleStub(DynStubClassify(guestPC, x0, x1, x2), x0, x1, x2)
    BY <1>7 DEF NewStub
  <2> QED
    BY <1>7, <2>1, HandleStubKeeps
<1>8. CASE MissingCode
  BY <1>7, <1>8 DEF MissingCode, Running
<1>9. CASE Break
  <2>1. phase = "run" /\ UNCHANGED next
    BY <1>9 DEF Break, Running
  <2>2. CASE NewStub
    BY <2>1, <2>2, <1>7
  <2>3. CASE Panic /\ UNCHANGED heap
    <3>1. next' \in Nat \ {0} /\ phase' # "arguments"
      BY <2>1, <2>3 DEF Panic, HeapInv
    <3> QED
      BY <2>3, <3>1, HeapUnchanged
  <2> QED
    BY <1>9, <2>2, <2>3 DEF Break, heap
<1>10. CASE Instruct \/ Refuse \/ Return
  <2>1. UNCHANGED <<next, heap>> /\ phase' # "arguments"
    BY <1>10 DEF Instruct, Refuse, Return, Panic, Running
  <2>2. next' \in Nat \ {0}
    BY <2>1 DEF HeapInv
  <2> QED
    BY <2>1, <2>2, HeapUnchanged
<1>11. CASE UNCHANGED exchangeVars
  <2>1. UNCHANGED <<heap, next, phase>>
    BY <1>11 DEF exchangeVars, loading
  <2>2. next' \in Nat \ {0} /\ (phase' = "arguments" => next' <= 5)
    BY <2>1 DEF HeapInv
  <2> QED
    BY <2>1, <2>2, HeapUnchanged
<1> QED
  BY <1>1, <1>2, <1>3, <1>4, <1>5, <1>6, <1>8, <1>9, <1>10, <1>11 DEF ExchangeNext

\* The invariant holds: blocks are apart and aligned (heapAlloc and the stubs
\* that call it).
THEOREM HeapInvariance == ExchangeSpec => []HeapInv
BY InitHeapInv, StepHeapInv, PTL DEF ExchangeSpec

\* No two blocks overlap or have the same address while nothing asked for
\* exceeds a word, whatever the guest asks for.
THEOREM HeapBlocksApart == ExchangeSpec => []BlocksApart
<1>1. HeapInv => BlocksApart
  BY DEF HeapInv
<1> QED
  BY <1>1, HeapInvariance, PTL

(***************************************************************************)
(* FpExchange: the snapshot.  Every step of loading puts one part on a     *)
(* page.  The parts of a page are apart, so that what is loaded does not   *)
(* depend on their order, and what a fixup copies is what was listed.      *)
(***************************************************************************)
Pages == Len(GuestPages)
Fixups == Len(GuestFixups)
Parts == Pages + Fixups + 2

\* The part that step k puts somewhere, and the page.
PartPage(k) ==
  IF k <= Pages THEN GuestPages[k].page
  ELSE IF k <= Pages + Fixups THEN TargetPage(k - Pages)
  ELSE IF k = Pages + Fixups + 1 THEN \h10000 ELSE \h30000

PartSpans(k) ==
  IF k <= Pages THEN GuestPages[k].spans
  ELSE IF k <= Pages + Fixups THEN Copied(k - Pages)
  ELSE IF k = Pages + Fixups + 1 THEN {<<0, 8>>} ELSE {<<0, 8>>, <<\h800, 4>>}

\* Memory after m steps.
Filled(m) ==
  [p \in {PartPage(k) : k \in 1..m} |->
     UNION {PartSpans(k) : k \in {j \in 1..m : PartPage(j) = p}}]

\* The steps done so far.
Done ==
  IF phase = "pages" THEN next - 1
  ELSE IF phase = "fixups" THEN Pages + (next - 1)
  ELSE IF phase = "map" THEN Pages + Fixups + (next - 1)
  ELSE Parts

\* The inductive invariant: what memory holds, and what the guest runs from.
LoadedInv ==
  /\ phase \in {"pages", "fixups", "map", "seal", "arguments", "run", "hash", "zeros", "panic"}
  /\ next \in Nat \ {0}
  /\ phase = "pages" => next <= Pages
  /\ phase = "fixups" => next <= Fixups
  /\ phase = "map" => next <= 2
  /\ memory = Filled(Done)
  /\ phase \notin {"pages", "fixups", "map", "seal"} =>
       sealed = [p \in {q \in DOMAIN memory : InCode(q)} |-> memory[p]]

\* How many pages and fixups there are.
LEMMA Lengths ==
  /\ Pages \in Nat \ {0} /\ DOMAIN GuestPages = 1..Pages
  /\ Fixups \in Nat \ {0} /\ DOMAIN GuestFixups = 1..Fixups
BY PagesAssumption, FixupsAssumption DEF Pages, Fixups

\* What a fixup is about.
LEMMA FixupTypes ==
  ASSUME NEW k \in 1..Fixups
  PROVE  /\ Target(k) \in Nat \X Nat /\ Source(k) \in Nat \X Nat
         /\ Target(k)[2] = GuestFixups[k][3] /\ Source(k)[2] = GuestFixups[k][3]
<1>1. GuestFixups[k] \in (Nat \X Nat) \X (Nat \X Nat) \X Nat
  BY Lengths, FixupsAssumption
<1> QED
  BY <1>1 DEF Target, Source

\* A page is listed once.
LEMMA ListedOnce ==
  ASSUME NEW j \in 1..Pages, NEW k \in 1..Pages, GuestPages[j].page = GuestPages[k].page
  PROVE  j = k
<1>1. \A a, b \in DOMAIN GuestPages : GuestPages[a].page = GuestPages[b].page => a = b
  BY PagesAssumption
<1> QED
  BY <1>1, Lengths

\* The spans that are listed for a page.
LEMMA SpansOfPage ==
  ASSUME NEW k \in 1..Pages
  PROVE  /\ GuestPages[k].spans \subseteq Nat \X Nat
         /\ \A s, t \in GuestPages[k].spans : s = t \/ Apart(s, t)
BY SpansAssumption, Lengths

\* What is listed for a page, wherever.
LEMMA ListedSpans ==
  ASSUME NEW p
  PROVE  /\ Listed(p) \subseteq Nat \X Nat
         /\ \A s, t \in Listed(p) : s = t \/ Apart(s, t)
<1>1. Listed(p) \subseteq Nat \X Nat
  BY Lengths, SpansOfPage DEF Listed
<1>2. ASSUME NEW s \in Listed(p), NEW t \in Listed(p)
      PROVE  s = t \/ Apart(s, t)
  <2>1. PICK j \in 1..Pages : GuestPages[j].page = p /\ s \in GuestPages[j].spans
    BY Lengths DEF Listed
  <2>2. PICK k \in 1..Pages : GuestPages[k].page = p /\ t \in GuestPages[k].spans
    BY Lengths DEF Listed
  <2>3. j = k
    BY <2>1, <2>2, ListedOnce
  <2> QED
    BY <2>1, <2>2, <2>3, SpansOfPage
<1> QED
  BY <1>1, <1>2

\* What is moved lies where it is moved to, and keeps apart.
LEMMA MovedSpans ==
  ASSUME NEW S \in SUBSET (Nat \X Nat), \A s, t \in S : s = t \/ Apart(s, t),
         NEW o \in Nat, NEW len \in Nat, NEW d \in Nat
  PROVE  /\ Moved(S, o, len, d) \subseteq Nat \X Nat
         /\ \A s \in Moved(S, o, len, d) : d <= s[1] /\ s[1] + s[2] <= d + len
         /\ \A s, t \in Moved(S, o, len, d) : s = t \/ Apart(s, t)
<1> DEFINE lo(s) == IF s[1] < o THEN o ELSE s[1]
           hi(s) == IF s[1] + s[2] > o + len THEN o + len ELSE s[1] + s[2]
           T == {t \in S : lo(t) < hi(t)}
           to(s) == <<d + (lo(s) - o), hi(s) - lo(s)>>
<1>1. Moved(S, o, len, d) = {to(s) : s \in T}
  BY DEF Moved
<1>2. \A s \in S : s[1] \in Nat /\ s[2] \in Nat
  OBVIOUS
<1>3. \A s \in T : /\ d + (lo(s) - o) \in Nat /\ hi(s) - lo(s) \in Nat
                   /\ d <= d + (lo(s) - o) /\ d + (lo(s) - o) + (hi(s) - lo(s)) <= d + len
  BY <1>2
<1>4. \A s \in T : /\ to(s) \in Nat \X Nat /\ to(s)[1] = d + (lo(s) - o)
                   /\ to(s)[2] = hi(s) - lo(s)
  BY <1>3
<1>5. \A s, t \in T : s = t \/ Apart(to(s), to(t))
  <2> SUFFICES ASSUME NEW s \in T, NEW t \in T, s # t
               PROVE  Apart(to(s), to(t))
    OBVIOUS
  <2>1. Apart(s, t)
    OBVIOUS
  <2>2. hi(s) <= lo(t) \/ hi(t) <= lo(s)
    BY <1>2, <2>1 DEF Apart
  <2>3. lo(s) \in Nat /\ hi(s) \in Nat /\ lo(t) \in Nat /\ hi(t) \in Nat
    BY <1>2
  <2> HIDE DEF lo, hi
  <2> QED
    BY <2>2, <2>3, <1>4 DEF Apart
<1> HIDE DEF T, to, lo, hi
<1>6. Moved(S, o, len, d) \subseteq Nat \X Nat
  BY <1>1, <1>4
<1>7. ASSUME NEW s \in Moved(S, o, len, d)
      PROVE  d <= s[1] /\ s[1] + s[2] <= d + len
  BY <1>1, <1>3, <1>4
<1>8. ASSUME NEW s \in Moved(S, o, len, d), NEW t \in Moved(S, o, len, d)
      PROVE  s = t \/ Apart(s, t)
  BY <1>1, <1>5
<1> QED
  BY <1>6, <1>7, <1>8

\* What a fixup copies: spans within its target, apart from each other.
LEMMA CopiedSpans ==
  ASSUME NEW k \in 1..Fixups
  PROVE  /\ Copied(k) \subseteq Nat \X Nat
         /\ \A s \in Copied(k) :
              Target(k)[1] <= s[1] /\ s[1] + s[2] <= Target(k)[1] + Target(k)[2]
         /\ \A s, t \in Copied(k) : s = t \/ Apart(s, t)
<1>1. /\ Source(k)[1] \in Nat /\ Source(k)[2] \in Nat /\ Target(k)[1] \in Nat
      /\ Target(k)[2] = Source(k)[2]
  BY FixupTypes
<1>2. /\ Listed(SourcePage(k)) \in SUBSET (Nat \X Nat)
      /\ \A s, t \in Listed(SourcePage(k)) : s = t \/ Apart(s, t)
  BY ListedSpans
<1> QED
  BY <1>1, <1>2, MovedSpans DEF Copied

\* Whatever lies apart from a range, its parts do.
LEMMA WithinApart ==
  ASSUME NEW s \in Nat \X Nat, NEW t \in Nat \X Nat, NEW r \in Nat \X Nat,
         r[1] <= s[1], s[1] + s[2] <= r[1] + r[2], Apart(t, r)
  PROVE  Apart(s, t) /\ Apart(t, s)
BY DEF Apart

\* The parts of a page are apart.
LEMMA PartsApart ==
  ASSUME NEW j \in 1..Parts, NEW k \in 1..Parts, PartPage(j) = PartPage(k),
         NEW s \in PartSpans(j), NEW t \in PartSpans(k)
  PROVE  s = t \/ Apart(s, t)
<1>1. ASSUME NEW i \in 1..Parts
      PROVE  \/ i \in 1..Pages
             \/ i - Pages \in 1..Fixups
             \/ i = Pages + Fixups + 1 \/ i = Pages + Fixups + 2
  BY Lengths DEF Parts
<1>2. ASSUME NEW a \in 1..Pages, NEW b \in 1..Fixups, NEW p,
             p = GuestPages[a].page, p = TargetPage(b),
             NEW u \in GuestPages[a].spans, NEW w \in Copied(b)
      PROVE  Apart(u, w) /\ Apart(w, u)
  <2>1. u \in Listed(TargetPage(b))
    BY <1>2, Lengths DEF Listed
  <2>2. u \in Nat \X Nat /\ w \in Nat \X Nat /\ Apart(u, Target(b))
    BY <2>1, ListedSpans, CopiedSpans, Lengths, FixupsAssumption
  <2> QED
    BY <2>2, FixupTypes, CopiedSpans, WithinApart
<1>3. ASSUME NEW a \in 1..Fixups, NEW b \in 1..Fixups, TargetPage(a) = TargetPage(b),
             NEW u \in Copied(a), NEW w \in Copied(b)
      PROVE  u = w \/ Apart(u, w)
  <2>1. CASE a = b
    BY <1>3, <2>1, CopiedSpans
  <2>2. CASE a # b
    <3>1. Apart(Target(a), Target(b)) /\ Target(a) \in Nat \X Nat /\ Target(b) \in Nat \X Nat
      BY <1>3, <2>2, Lengths, TargetsAssumption, FixupTypes
    <3>2. /\ u \in Nat \X Nat /\ w \in Nat \X Nat
          /\ Target(a)[1] <= u[1] /\ u[1] + u[2] <= Target(a)[1] + Target(a)[2]
          /\ Target(b)[1] <= w[1] /\ w[1] + w[2] <= Target(b)[1] + Target(b)[2]
      BY CopiedSpans
    <3> QED
      BY <3>1, <3>2 DEF Apart
  <2> QED
    BY <2>1, <2>2
<1>4. ASSUME NEW a \in 1..Pages
      PROVE  /\ a \in 1..Parts /\ PartPage(a) = GuestPages[a].page
             /\ PartSpans(a) = GuestPages[a].spans /\ PartPage(a) \in SnapshotPages
  BY Lengths DEF Parts, PartPage, PartSpans, ListedPages, SnapshotPages
<1>5. ASSUME NEW i \in 1..Parts, i - Pages \in 1..Fixups
      PROVE  /\ PartPage(i) = TargetPage(i - Pages) /\ PartSpans(i) = Copied(i - Pages)
             /\ PartPage(i) \in SnapshotPages
  BY <1>5, Lengths DEF PartPage, PartSpans, SnapshotPages
<1>6. /\ PartPage(Pages + Fixups + 1) = 65536 /\ PartSpans(Pages + Fixups + 1) = {<<0, 8>>}
      /\ PartPage(Pages + Fixups + 2) = 196608
      /\ PartSpans(Pages + Fixups + 2) = {<<0, 8>>, <<2048, 4>>}
  BY Lengths DEF PartPage, PartSpans
<1>7. 65536 \notin SnapshotPages /\ 196608 \notin SnapshotPages
  BY RegionsAssumption
<1>8. CASE j \in 1..Pages
  <2>1. CASE k \in 1..Pages
    <3>1. j = k
      BY <1>4, <1>8, <2>1, ListedOnce
    <3> QED
      BY <3>1, <1>4, <1>8, SpansOfPage
  <2>2. CASE k - Pages \in 1..Fixups
    BY <1>2, <1>4, <1>5, <1>8, <2>2
  <2>3. CASE k = Pages + Fixups + 1 \/ k = Pages + Fixups + 2
    BY <1>4, <1>6, <1>7, <1>8, <2>3
  <2> QED
    BY <1>1, <2>1, <2>2, <2>3
<1>9. CASE j - Pages \in 1..Fixups
  <2>1. CASE k \in 1..Pages
    BY <1>2, <1>4, <1>5, <1>9, <2>1
  <2>2. CASE k - Pages \in 1..Fixups
    BY <1>3, <1>5, <1>9, <2>2
  <2>3. CASE k = Pages + Fixups + 1 \/ k = Pages + Fixups + 2
    BY <1>5, <1>6, <1>7, <1>9, <2>3
  <2> QED
    BY <1>1, <2>1, <2>2, <2>3
<1>10. CASE j = Pages + Fixups + 1 \/ j = Pages + Fixups + 2
  <2>1. CASE k \in 1..Pages
    BY <1>4, <1>6, <1>7, <1>10, <2>1
  <2>2. CASE k - Pages \in 1..Fixups
    BY <1>5, <1>6, <1>7, <1>10, <2>2
  <2>3. CASE k = Pages + Fixups + 1 \/ k = Pages + Fixups + 2
    <3>1. PartSpans(j) = PartSpans(k)
      BY <1>6, <1>10, <2>3
    <3>2. s \in {<<0, 8>>, <<2048, 4>>} /\ t \in {<<0, 8>>, <<2048, 4>>}
      BY <1>6, <1>10, <2>3
    <3> QED
      BY <3>2 DEF Apart
  <2> QED
    BY <1>1, <2>1, <2>2, <2>3
<1> QED
  BY <1>1, <1>8, <1>9, <1>10

\* One more part is put on its page.
LEMMA PutPart ==
  ASSUME NEW i \in Nat, memory = Filled(i)
  PROVE  Put(PartPage(i + 1), PartSpans(i + 1)) = Filled(i + 1)
<1> DEFINE P(m) == {PartPage(k) : k \in 1..m}
           On(m, p) == UNION {PartSpans(k) : k \in {j \in 1..m : PartPage(j) = p}}
           new == PartPage(i + 1)
<1>1. 1..(i + 1) = 1..i \cup {i + 1}
  OBVIOUS
<1>2. P(i + 1) = P(i) \cup {new}
  BY <1>1
<1>3. ASSUME NEW p
      PROVE  On(i + 1, p) = On(i, p) \cup (IF p = new THEN PartSpans(i + 1) ELSE {})
  BY <1>1
<1>4. ASSUME NEW p, p \notin P(i)
      PROVE  On(i, p) = {}
  BY <1>4
<1>5. /\ DOMAIN memory = P(i) /\ \A p \in P(i) : memory[p] = On(i, p)
      /\ Filled(i + 1) = [p \in P(i + 1) |-> On(i + 1, p)]
  BY DEF Filled
<1> HIDE DEF P, On
<1>6. ASSUME NEW p \in P(i + 1)
      PROVE  (IF p \in DOMAIN memory THEN memory[p] ELSE {})
               \cup (IF p = new THEN PartSpans(i + 1) ELSE {}) = On(i + 1, p)
  BY <1>3, <1>4, <1>5
<1> QED
  BY <1>2, <1>5, <1>6 DEF Put

\* Until it is copied from, what is listed on a page has at most been joined by
\* copies that lie apart from the source.
LEMMA CopiesListed ==
  ASSUME NEW i \in 1..Fixups, memory = Filled(Pages + (i - 1))
  PROVE  Moved(memory[SourcePage(i)], Source(i)[1], Source(i)[2], Target(i)[1]) = Copied(i)
<1> DEFINE p == SourcePage(i)
           o == Source(i)[1]
           len == Source(i)[2]
           d == Target(i)[1]
           m == Pages + (i - 1)
           lo(s) == IF s[1] < o THEN o ELSE s[1]
           hi(s) == IF s[1] + s[2] > o + len THEN o + len ELSE s[1] + s[2]
           to(s) == <<d + (lo(s) - o), hi(s) - lo(s)>>
<1>1. o \in Nat /\ len \in Nat /\ d \in Nat /\ Source(i) \in Nat \X Nat
  BY FixupTypes
<1>2. \A S : Moved(S, o, len, d) = {to(s) : s \in {t \in S : lo(t) < hi(t)}}
  BY DEF Moved
<1>3. PICK a \in 1..Pages : GuestPages[a].page = p
  <2>1. p \in ListedPages
    BY Lengths, FixupsAssumption
  <2> QED
    BY <2>1, Lengths DEF ListedPages
<1>4. /\ p \in DOMAIN memory
      /\ memory[p] = UNION {PartSpans(k) : k \in {j \in 1..m : PartPage(j) = p}}
  <2>1. a \in 1..m /\ PartPage(a) = p
    BY <1>3, Lengths DEF PartPage
  <2>2. memory = [q \in {PartPage(k) : k \in 1..m} |->
                    UNION {PartSpans(k) : k \in {j \in 1..m : PartPage(j) = q}}]
    BY DEF Filled
  <2> HIDE DEF m, p
  <2>3. p \in {PartPage(k) : k \in 1..m}
    BY <2>1
  <2> QED
    BY <2>2, <2>3
<1>5. Listed(p) \subseteq memory[p]
  <2> SUFFICES ASSUME NEW s \in Listed(p)
               PROVE  s \in memory[p]
    OBVIOUS
  <2>1. PICK k \in 1..Pages : GuestPages[k].page = p /\ s \in GuestPages[k].spans
    BY Lengths DEF Listed
  <2>2. k \in 1..m /\ PartPage(k) = p /\ s \in PartSpans(k)
    BY <2>1, Lengths DEF PartPage, PartSpans
  <2> HIDE DEF m, p
  <2> QED
    BY <2>2, <1>4
<1>6. ASSUME NEW s \in memory[p], s \notin Listed(p)
      PROVE  ~(lo(s) < hi(s))
  <2>1. PICK k \in 1..m : PartPage(k) = p /\ s \in PartSpans(k)
    <3> HIDE DEF m, p
    <3> QED
      BY <1>4
  <2>2. ~(k <= Pages)
    BY <1>6, <2>1, Lengths DEF PartPage, PartSpans, Listed
  <2>3. k - Pages \in 1..Fixups /\ k <= Pages + Fixups
    BY <2>2, Lengths
  <2>4. TargetPage(k - Pages) = p /\ s \in Copied(k - Pages)
    BY <2>1, <2>2, <2>3 DEF PartPage, PartSpans
  <2>5. Apart(Target(k - Pages), Source(i))
    BY <2>3, <2>4, Lengths, TargetsAssumption
  <2>6. /\ s \in Nat \X Nat /\ Target(k - Pages) \in Nat \X Nat
        /\ Target(k - Pages)[1] <= s[1]
        /\ s[1] + s[2] <= Target(k - Pages)[1] + Target(k - Pages)[2]
    BY <2>3, <2>4, CopiedSpans, FixupTypes
  <2>7. s[1] \in Nat /\ s[2] \in Nat /\ Target(k - Pages)[1] \in Nat /\ Target(k - Pages)[2] \in Nat
    BY <2>6
  <2> QED
    BY <2>5, <2>6, <2>7, <1>1 DEF Apart
<1>7. {t \in memory[p] : lo(t) < hi(t)} = {t \in Listed(p) : lo(t) < hi(t)}
  <2> HIDE DEF p, lo, hi
  <2> QED
    BY <1>5, <1>6
<1>8. Moved(memory[p], o, len, d) = Moved(Listed(p), o, len, d)
  <2> HIDE DEF p, lo, hi, to, o, len, d
  <2> QED
    BY <1>2, <1>7
<1> QED
  BY <1>8 DEF Copied

LEMMA InitLoaded == ExchangeInit => LoadedInv
<1> SUFFICES ASSUME ExchangeInit
             PROVE  LoadedInv
  OBVIOUS
<1>1. phase = "pages" /\ next = 1 /\ memory = <<>>
  BY DEF ExchangeInit
<1>2. Done = 0
  BY <1>1 DEF Done
<1>3. memory = Filled(0)
  BY <1>1 DEF Filled
<1> QED
  BY <1>1, <1>2, <1>3, Lengths DEF LoadedInv

\* How many steps a phase has.
Steps == IF phase = "pages" THEN Pages ELSE IF phase = "fixups" THEN Fixups ELSE 2

\* After a step of loading, one part more is there.
LEMMA Loads ==
  ASSUME LoadedInv, phase \in {"pages", "fixups", "map"}, Proceed(Steps),
         memory' = Put(PartPage(Done + 1), PartSpans(Done + 1))
  PROVE  LoadedInv'
<1>1. Done \in Nat /\ Steps \in Nat /\ next \in 1..Steps
  BY Lengths DEF LoadedInv, Done, Steps
<1>2. memory' = Filled(Done + 1)
  BY <1>1, PutPart DEF LoadedInv
<1>3. Done' = Done + 1
  <2>1. CASE phase = "pages"
    BY <2>1, <1>1, Lengths DEF Done, Proceed, Following, Steps
  <2>2. CASE phase = "fixups"
    BY <2>2, <1>1, Lengths DEF Done, Proceed, Following, Steps
  <2>3. CASE phase = "map"
    BY <2>3, <1>1, Lengths DEF Done, Proceed, Following, Steps, Parts
  <2> QED
    BY <2>1, <2>2, <2>3
<1>4. /\ phase' \in {"pages", "fixups", "map", "seal"} /\ next' \in Nat \ {0}
      /\ phase' = "pages" => next' <= Pages
      /\ phase' = "fixups" => next' <= Fixups
      /\ phase' = "map" => next' <= 2
  BY <1>1, Lengths DEF Proceed, Following, Steps
<1>5. Filled(Done)' = Filled(Done')
  BY DEF Filled
<1> QED
  BY <1>2, <1>3, <1>4, <1>5 DEF LoadedInv

LEMMA StepLoaded == LoadedInv /\ [ExchangeNext]_exchangeVars => LoadedInv'
<1> SUFFICES ASSUME LoadedInv, [ExchangeNext]_exchangeVars
             PROVE  LoadedInv'
  OBVIOUS
<1>1. CASE LoadPage
  <2>1. phase = "pages" /\ next \in 1..Pages /\ Proceed(Steps) /\ Done + 1 = next
    BY <1>1, Lengths DEF LoadPage, LoadedInv, Done, Pages, Steps
  <2>2. PartPage(next) = GuestPages[next].page /\ PartSpans(next) = GuestPages[next].spans
    BY <2>1 DEF PartPage, PartSpans
  <2>3. memory' = Put(PartPage(Done + 1), PartSpans(Done + 1))
    BY <1>1, <2>1, <2>2 DEF LoadPage
  <2> QED
    BY <2>1, <2>3, Loads
<1>2. CASE Fixup
  <2>1. phase = "fixups" /\ next \in 1..Fixups /\ Proceed(Steps) /\ Done = Pages + (next - 1)
    BY <1>2, Lengths DEF Fixup, LoadedInv, Done, Fixups, Steps
  <2>2. Done + 1 = Pages + next
    BY <2>1, Lengths
  <2>3. PartPage(Done + 1) = TargetPage(next) /\ PartSpans(Done + 1) = Copied(next)
    BY <2>1, <2>2, Lengths DEF PartPage, PartSpans
  <2>4. memory' = Put(TargetPage(next),
                      Moved(memory[SourcePage(next)], Source(next)[1], Source(next)[2],
                            Target(next)[1]))
    BY <1>2 DEF Fixup, TargetPage, SourcePage, Source, Target
  <2>5. memory' = Put(TargetPage(next), Copied(next))
    BY <2>1, <2>4, CopiesListed DEF LoadedInv
  <2> QED
    BY <2>1, <2>3, <2>5, Loads
<1>3. CASE MapRegions
  <2>1. phase = "map" /\ next \in {1, 2} /\ Proceed(Steps) /\ Done + 1 = Pages + Fixups + next
    BY <1>3, Lengths DEF MapRegions, LoadedInv, Done, Steps
  <2>2. memory' = Put(PartPage(Done + 1), PartSpans(Done + 1))
    <3>1. CASE next = 1
      BY <1>3, <2>1, <3>1, Lengths DEF MapRegions, PartPage, PartSpans
    <3>2. CASE next = 2
      BY <1>3, <2>1, <3>2, Lengths DEF MapRegions, PartPage, PartSpans
    <3> QED
      BY <2>1, <3>1, <3>2
  <2> QED
    BY <2>1, <2>2, Loads
<1>4. CASE SetCodeRegion
  <2>1. /\ phase = "seal" /\ next \in Nat \ {0} /\ UNCHANGED memory /\ next' \in Nat \ {0}
        /\ phase' \in {"seal", "arguments"}
        /\ sealed' = [p \in {q \in DOMAIN memory : InCode(q)} |-> memory[p]]
    BY <1>4 DEF SetCodeRegion, LoadedInv, Proceed, Following
  <2>2. Done = Parts /\ Done' = Parts
    BY <2>1 DEF Done
  <2> QED
    BY <2>1, <2>2 DEF LoadedInv, Filled
<1>5. ASSUME UNCHANGED <<memory, sealed>>, next' \in Nat \ {0},
             phase \in {"arguments", "run", "hash", "zeros", "panic"},
             phase' \in {"arguments", "run", "hash", "zeros", "panic"}
      PROVE  LoadedInv'
  <2>1. Done = Parts /\ Done' = Parts
    BY <1>5 DEF Done
  <2> QED
    BY <1>5, <2>1 DEF LoadedInv, Filled
<1>6. CASE Argument
  BY <1>5, <1>6 DEF Argument, LoadedInv, Proceed, Following
<1>7. ASSUME NEW name, NEW x0, NEW x1, NEW x2, HandleStub(name, x0, x1, x2), phase = "run"
      PROVE  phase' \in {"run", "panic"}
  BY <1>7 DEF HandleStub, MakeSlice, Panic
<1>8. CASE NamedStub
  <2>1. phase' \in {"run", "panic"}
    BY <1>7, <1>8 DEF NamedStub, Running
  <2> QED
    BY <1>5, <1>8, <2>1 DEF NamedStub, Running, LoadedInv
<1>9. CASE MissingCode
  <2>1. phase' \in {"run", "panic"}
    BY <1>7, <1>9 DEF MissingCode, Running, NewStub
  <2> QED
    BY <1>5, <1>9, <2>1 DEF MissingCode, Running, LoadedInv
<1>10. CASE Break
  <2>1. phase' \in {"run", "panic"}
    BY <1>7, <1>10 DEF Break, Running, NewStub, Panic
  <2> QED
    BY <1>5, <1>10, <2>1 DEF Break, Running, LoadedInv
<1>11. CASE Instruct \/ Refuse \/ Return
  <2>1. /\ phase = "run" /\ phase' \in {"run", "panic", "hash", "zeros"}
        /\ UNCHANGED <<next, memory, sealed>>
    BY <1>11 DEF Instruct, Refuse, Return, Running, Panic
  <2> QED
    BY <1>5, <2>1 DEF LoadedInv
<1>12. CASE UNCHANGED exchangeVars
  BY <1>12 DEF exchangeVars, loading, LoadedInv, Done, Filled
<1> QED
  BY <1>1, <1>2, <1>3, <1>4, <1>6, <1>8, <1>9, <1>10, <1>11, <1>12 DEF ExchangeNext

\* Memory is filled part by part, and the code is a copy of all of it
\* (FPSAPExchangeStandalone, setCodeRegion).
THEOREM LoadedInOrder == ExchangeSpec => []LoadedInv
BY InitLoaded, StepLoaded, PTL DEF ExchangeSpec

\* What is listed or copied to a page is there when all parts are.
LEMMA FilledHas ==
  ASSUME memory = Filled(Parts), NEW p
  PROVE  /\ p \in SnapshotPages => p \in DOMAIN memory
         /\ Listed(p) # {} => p \in DOMAIN memory
         /\ Listed(p) # {} => Listed(p) \subseteq memory[p]
         /\ \A k \in DOMAIN GuestFixups :
              TargetPage(k) = p => p \in DOMAIN memory /\ Copied(k) \subseteq memory[p]
<1> DEFINE On(q) == UNION {PartSpans(k) : k \in {j \in 1..Parts : PartPage(j) = q}}
<1>1. /\ DOMAIN memory = {PartPage(k) : k \in 1..Parts}
      /\ \A q \in DOMAIN memory : memory[q] = On(q)
  BY DEF Filled
<1>2. ASSUME NEW k \in 1..Pages
      PROVE  /\ k \in 1..Parts /\ PartPage(k) = GuestPages[k].page
             /\ PartSpans(k) = GuestPages[k].spans
  BY Lengths DEF Parts, PartPage, PartSpans
<1>3. ASSUME NEW k \in 1..Fixups
      PROVE  /\ Pages + k \in 1..Parts /\ PartPage(Pages + k) = TargetPage(k)
             /\ PartSpans(Pages + k) = Copied(k)
  BY Lengths DEF Parts, PartPage, PartSpans
<1>4. \A k \in 1..Parts : PartPage(k) \in DOMAIN memory /\ PartSpans(k) \subseteq memory[PartPage(k)]
  BY <1>1
<1>5. \A k \in 1..Pages :
        /\ GuestPages[k].page \in DOMAIN memory
        /\ GuestPages[k].spans \subseteq memory[GuestPages[k].page]
  BY <1>2, <1>4
<1>6. \A k \in 1..Fixups :
        TargetPage(k) \in DOMAIN memory /\ Copied(k) \subseteq memory[TargetPage(k)]
  BY <1>3, <1>4
<1>7. \A s \in Listed(p) : p \in DOMAIN memory /\ s \in memory[p]
  BY <1>5, Lengths DEF Listed
<1> QED
  BY <1>5, <1>6, <1>7, Lengths DEF ListedPages, SnapshotPages

\* And nothing is there but that, and the two regions that are mapped.
LEMMA FilledHasNoMore ==
  ASSUME memory = Filled(Parts), NEW p \in DOMAIN memory, NEW s \in memory[p],
         p # 65536, p # 196608
  PROVE  s \in Listed(p) \/ \E k \in DOMAIN GuestFixups : TargetPage(k) = p /\ s \in Copied(k)
<1>1. PICK k \in 1..Parts : PartPage(k) = p /\ s \in PartSpans(k)
  BY DEF Filled
<1>2. k \in 1..Pages \/ k - Pages \in 1..Fixups \/ k > Pages + Fixups
  BY Lengths DEF Parts
<1>3. CASE k \in 1..Pages
  BY <1>1, <1>3, Lengths DEF PartPage, PartSpans, Listed
<1>4. CASE k - Pages \in 1..Fixups
  <2>1. PartPage(k) = TargetPage(k - Pages) /\ PartSpans(k) = Copied(k - Pages)
    BY <1>4, Lengths DEF PartPage, PartSpans
  <2> QED
    BY <1>1, <1>4, <2>1, Lengths
<1>5. CASE k > Pages + Fixups
  BY <1>1, <1>5, Lengths, SMT DEF PartPage
<1> QED
  BY <1>2, <1>3, <1>4, <1>5

\* The assumptions on the snapshot are about its parts, the property about what
\* has been put together from them.
LEMMA LoadedSuffices == LoadedInv => SnapshotWhole
<1> SUFFICES ASSUME LoadedInv
             PROVE  SnapshotWhole
  OBVIOUS
<1>1. NothingTwice
  <2> SUFFICES ASSUME NEW p \in DOMAIN memory, NEW s \in memory[p], NEW t \in memory[p],
                      phase \in {"pages", "fixups", "map", "seal"}
               PROVE  s = t \/ Apart(s, t)
    BY DEF NothingTwice
  <2>1. Done \in 0..Parts /\ memory = Filled(Done)
    BY Lengths DEF LoadedInv, Done, Parts
  <2>2. memory[p] = UNION {PartSpans(k) : k \in {j \in 1..Done : PartPage(j) = p}}
    BY <2>1 DEF Filled
  <2>3. PICK j \in 1..Done : PartPage(j) = p /\ s \in PartSpans(j)
    BY <2>2
  <2>4. PICK k \in 1..Done : PartPage(k) = p /\ t \in PartSpans(k)
    BY <2>2
  <2>5. j \in 1..Parts /\ k \in 1..Parts
    BY <2>1, Lengths DEF Parts
  <2> QED
    BY <2>3, <2>4, <2>5, PartsApart
<1>2. phase = "arguments" =>
        memory = Filled(Parts) /\ sealed = [p \in {q \in DOMAIN memory : InCode(q)} |-> memory[p]]
  BY DEF LoadedInv, Done
<1>3. HeapIsFree
  <2> SUFFICES ASSUME phase = "arguments", NEW s \in memory[HeapPage]
               PROVE  s[1] + s[2] <= 1008
    BY DEF HeapIsFree
  <2>1. HeapPage \in DOMAIN memory
    <3>1. HeapPage \in SnapshotPages
      BY GuestAssumption
    <3> QED
      BY <1>2, <3>1, FilledHas
  <2>2. memory[HeapPage] = UNION {PartSpans(k) : k \in {j \in 1..Parts : PartPage(j) = HeapPage}}
    BY <1>2, <2>1 DEF Filled
  <2>3. PICK k \in 1..Parts : PartPage(k) = HeapPage /\ s \in PartSpans(k)
    BY <2>2
  <2>4. \A b \in 1..Fixups : TargetPage(b) # HeapPage
    BY Lengths, GuestAssumption
  <2>5. k \in 1..Pages
    <3>1. HeapPage # 65536 /\ HeapPage # 196608
      BY SMT DEF HeapPage
    <3>2. k \in 1..Pages \/ k - Pages \in 1..Fixups \/ k > Pages + Fixups
      BY Lengths DEF Parts
    <3>3. CASE k - Pages \in 1..Fixups
      BY <2>3, <2>4, <3>3, Lengths DEF PartPage
    <3>4. CASE k > Pages + Fixups
      BY <2>3, <3>1, <3>4, Lengths, SMT DEF PartPage
    <3> QED
      BY <3>2, <3>3, <3>4
  <2>6. s \in Listed(HeapPage)
    BY <2>3, <2>5, Lengths DEF PartPage, PartSpans, Listed
  <2> QED
    BY <2>6, GuestAssumption
<1>4. SealedWhole
  <2> SUFFICES ASSUME phase = "arguments"
               PROVE  /\ \A a \in Recorded \cup Unrecorded :
                           Instruction(a) = "none" <=> a \in Unrecorded
                      /\ \A p \in CodePages :
                           p.names \cup {a[1] : a \in Pointers} \subseteq DOMAIN memory
    BY DEF SealedWhole
  <2>1. ASSUME NEW a \in Recorded \cup Unrecorded
        PROVE  Instruction(a) = "none" <=> a \in Unrecorded
    <3>1. InCode(a[1]) /\ (Provided(a) <=> a \notin Unrecorded)
      BY GuestAssumption
    <3>2. ASSUME Provided(a)
          PROVE  Present(sealed, a)
      <4>1. PICK s : /\ \/ s \in Listed(a[1])
                        \/ \E k \in DOMAIN GuestFixups : TargetPage(k) = a[1] /\ s \in Copied(k)
                     /\ s[1] < a[2] + 4 /\ a[2] < s[1] + s[2]
        BY <3>2 DEF Provided
      <4>2. a[1] \in DOMAIN memory /\ s \in memory[a[1]]
        BY <1>2, <4>1, FilledHas
      <4> QED
        BY <1>2, <3>1, <4>1, <4>2 DEF Present
    <3>3. ASSUME Present(sealed, a)
          PROVE  Provided(a)
      <4>1. /\ a[1] \in DOMAIN memory
            /\ \E s \in memory[a[1]] : s[1] < a[2] + 4 /\ a[2] < s[1] + s[2]
        BY <1>2, <3>3 DEF Present
      <4>2. PICK s \in memory[a[1]] : s[1] < a[2] + 4 /\ a[2] < s[1] + s[2]
        BY <4>1
      <4>3. a[1] # 65536 /\ a[1] # 196608
        BY <3>1, SMT DEF InCode
      <4>4. s \in Listed(a[1]) \/ \E k \in DOMAIN GuestFixups : TargetPage(k) = a[1] /\ s \in Copied(k)
        BY <1>2, <4>1, <4>2, <4>3, FilledHasNoMore
      <4> QED
        BY <4>2, <4>4 DEF Provided
    <3>4. Instruction(a) = "none" <=> ~Present(sealed, a)
      BY <3>1 DEF Instruction
    <3> QED
      BY <3>1, <3>2, <3>3, <3>4
  <2>2. ASSUME NEW p \in CodePages
        PROVE  p.names \cup {a[1] : a \in Pointers} \subseteq DOMAIN memory
    BY <1>2, GuestAssumption, FilledHas
  <2> QED
    BY <2>1, <2>2
<1> QED
  BY <1>1, <1>3, <1>4 DEF SnapshotWhole

\* The snapshot is loaded whole: no byte is put twice, the heap is free, and of the
\* targets of direct jumps the guest finds those that the snapshot has, and runs
\* into a stub at those it lacks (FPSAPExchangeStandalone, setCodeRegion, fetchInst).
THEOREM LoadedWhole == ExchangeSpec => []SnapshotWhole
BY LoadedSuffices, LoadedInOrder, PTL

(***************************************************************************)
(* FpInstructions: what the interpreter computes bit by bit is what the    *)
(* architecture says (FpArm), for words of all values.  The sums of the    *)
(* two are compared through one of single carries (SumOf); the fields of   *)
(* an instruction are the sums of their bits, so that a handler is decided *)
(* by its cases; and MachineInv says that the machine holds what its       *)
(* instruction leaves of a processor with the contents assumed.            *)
(***************************************************************************)
\* Induction over the natural numbers, for a set.
LEMMA Induct ==
  ASSUME NEW S, 0 \in S, \A k \in Nat : k \in S => k + 1 \in S
  PROVE  Nat \subseteq S
<1> DEFINE R == OpToRel(<, Nat)
           T == Nat \ S
<1>1. IsWellFoundedOn(R, Nat)
  BY NatLessThanWellFounded, Zenon
<1>2. SUFFICES ASSUME T # {} PROVE FALSE
  OBVIOUS
<1>3. T \subseteq Nat
  OBVIOUS
<1>4. \E x \in T : \A y \in T : ~ (<<y, x>> \in R)
  <2> HIDE DEF R, T
  <2> QED
    BY <1>1, <1>2, <1>3, WFMin
<1>5. PICK x \in T : \A y \in T : ~ (<<y, x>> \in R)
  BY <1>4, Zenon
<1>6. x \in Nat /\ x # 0 /\ x - 1 \in Nat /\ x - 1 < x
  OBVIOUS
<1>7. <<x - 1, x>> \in R
  BY <1>6 DEF OpToRel
<1>8. x - 1 \in S
  BY <1>5, <1>6, <1>7, Zenon
<1> QED
  BY <1>6, <1>8

\* 1 if b is in x, else 0.
BitOf(x, b) == IF b \in x THEN 1 ELSE 0

\* The number of twelve bits from position p of x.
Digits(x, p) ==
  BitOf(x, p) + 2 * BitOf(x, p+1) + 4 * BitOf(x, p+2) + 8 * BitOf(x, p+3) + 16 * BitOf(x, p+4)
  + 32 * BitOf(x, p+5) + 64 * BitOf(x, p+6) + 128 * BitOf(x, p+7) + 256 * BitOf(x, p+8)
  + 512 * BitOf(x, p+9) + 1024 * BitOf(x, p+10) + 2048 * BitOf(x, p+11)

\* f adds the powers of two of a set, one after another.
Adds(f, S) ==
  f = [s \in SUBSET S |-> IF s = {} THEN 0
                          ELSE 2^(CHOOSE x \in s : TRUE) + f[s \ {CHOOSE x \in s : TRUE}]]

\* The first powers of two are positive.
LEMMA Powers ==
  ASSUME NEW b \in 0..11
  PROVE  2^b \in Nat /\ 2^b >= 1
<1>0. CASE b = 0
  BY <1>0
<1>1. CASE b = 1
  BY <1>1
<1>2. CASE b = 2
  BY <1>2
<1>3. CASE b = 3
  BY <1>3
<1>4. CASE b = 4
  BY <1>4
<1>5. CASE b = 5
  BY <1>5
<1>6. CASE b = 6
  BY <1>6
<1>7. CASE b = 7
  BY <1>7
<1>8. CASE b = 8
  BY <1>8
<1>9. CASE b = 9
  BY <1>9
<1>10. CASE b = 10
  BY <1>10
<1>11. CASE b = 11
  BY <1>11
<1> QED
  BY <1>0, <1>1, <1>2, <1>3, <1>4, <1>5, <1>6, <1>7, <1>8, <1>9, <1>10, <1>11

\* Twelve bits are a natural number.
LEMMA DigitsNat ==
  ASSUME NEW x, NEW p
  PROVE  Digits(x, p) \in Nat
<1>1. \A d : BitOf(x, d) \in {0, 1}
  BY DEF BitOf
<1> QED
  BY <1>1 DEF Digits

\* A set of bits is more than the set without one of them by its power of two.
LEMMA DigitsLess ==
  ASSUME NEW S \in SUBSET (0..11), NEW b \in S
  PROVE  Digits(S, 0) \in Nat /\ Digits(S \ {b}, 0) \in Nat /\ Digits(S, 0) = 2^b + Digits(S \ {b}, 0)
<1>1. b \in 0..11
  OBVIOUS
<1>2. /\ 2^0 = 1 /\ 2^1 = 2 /\ 2^2 = 4 /\ 2^3 = 8 /\ 2^4 = 16 /\ 2^5 = 32
      /\ 2^6 = 64 /\ 2^7 = 128 /\ 2^8 = 256 /\ 2^9 = 512 /\ 2^10 = 1024 /\ 2^11 = 2048
  OBVIOUS
<1>3. \A s, d : BitOf(s, d) \in {0, 1}
  BY DEF BitOf
<1>4. BitOf(S, b) = 1 /\ BitOf(S \ {b}, b) = 0
  BY DEF BitOf
<1>5. \A d \in 0..11 : d # b => BitOf(S \ {b}, d) = BitOf(S, d)
  BY DEF BitOf
<1>6. Digits(S, 0) \in Nat /\ Digits(S \ {b}, 0) \in Nat
  BY DigitsNat
<1>c0. CASE b = 0
  <2>1. BitOf(S, 0) = 1 /\ BitOf(S \ {b}, 0) = 0 /\ 2^b = 1
    BY <1>2, <1>4, <1>c0
  <2> QED
    BY <1>3, <1>5, <1>6, <1>c0, <2>1 DEF Digits
<1>c1. CASE b = 1
  <2>1. BitOf(S, 1) = 1 /\ BitOf(S \ {b}, 1) = 0 /\ 2^b = 2
    BY <1>2, <1>4, <1>c1
  <2> QED
    BY <1>3, <1>5, <1>6, <1>c1, <2>1 DEF Digits
<1>c2. CASE b = 2
  <2>1. BitOf(S, 2) = 1 /\ BitOf(S \ {b}, 2) = 0 /\ 2^b = 4
    BY <1>2, <1>4, <1>c2
  <2> QED
    BY <1>3, <1>5, <1>6, <1>c2, <2>1 DEF Digits
<1>c3. CASE b = 3
  <2>1. BitOf(S, 3) = 1 /\ BitOf(S \ {b}, 3) = 0 /\ 2^b = 8
    BY <1>2, <1>4, <1>c3
  <2> QED
    BY <1>3, <1>5, <1>6, <1>c3, <2>1 DEF Digits
<1>c4. CASE b = 4
  <2>1. BitOf(S, 4) = 1 /\ BitOf(S \ {b}, 4) = 0 /\ 2^b = 16
    BY <1>2, <1>4, <1>c4
  <2> QED
    BY <1>3, <1>5, <1>6, <1>c4, <2>1 DEF Digits
<1>c5. CASE b = 5
  <2>1. BitOf(S, 5) = 1 /\ BitOf(S \ {b}, 5) = 0 /\ 2^b = 32
    BY <1>2, <1>4, <1>c5
  <2> QED
    BY <1>3, <1>5, <1>6, <1>c5, <2>1 DEF Digits
<1>c6. CASE b = 6
  <2>1. BitOf(S, 6) = 1 /\ BitOf(S \ {b}, 6) = 0 /\ 2^b = 64
    BY <1>2, <1>4, <1>c6
  <2> QED
    BY <1>3, <1>5, <1>6, <1>c6, <2>1 DEF Digits
<1>c7. CASE b = 7
  <2>1. BitOf(S, 7) = 1 /\ BitOf(S \ {b}, 7) = 0 /\ 2^b = 128
    BY <1>2, <1>4, <1>c7
  <2> QED
    BY <1>3, <1>5, <1>6, <1>c7, <2>1 DEF Digits
<1>c8. CASE b = 8
  <2>1. BitOf(S, 8) = 1 /\ BitOf(S \ {b}, 8) = 0 /\ 2^b = 256
    BY <1>2, <1>4, <1>c8
  <2> QED
    BY <1>3, <1>5, <1>6, <1>c8, <2>1 DEF Digits
<1>c9. CASE b = 9
  <2>1. BitOf(S, 9) = 1 /\ BitOf(S \ {b}, 9) = 0 /\ 2^b = 512
    BY <1>2, <1>4, <1>c9
  <2> QED
    BY <1>3, <1>5, <1>6, <1>c9, <2>1 DEF Digits
<1>c10. CASE b = 10
  <2>1. BitOf(S, 10) = 1 /\ BitOf(S \ {b}, 10) = 0 /\ 2^b = 1024
    BY <1>2, <1>4, <1>c10
  <2> QED
    BY <1>3, <1>5, <1>6, <1>c10, <2>1 DEF Digits
<1>c11. CASE b = 11
  <2>1. BitOf(S, 11) = 1 /\ BitOf(S \ {b}, 11) = 0 /\ 2^b = 2048
    BY <1>2, <1>4, <1>c11
  <2> QED
    BY <1>3, <1>5, <1>6, <1>c11, <2>1 DEF Digits
<1> QED
  BY <1>1, <1>c0, <1>c1, <1>c2, <1>c3, <1>c4, <1>c5, <1>c6, <1>c7, <1>c8, <1>c9, <1>c10, <1>c11

\* No bits are zero.
LEMMA DigitsEmpty == Digits({}, 0) = 0
  BY DEF Digits, BitOf

\* What the recursive sum over a set of bits adds up to.
LEMMA AddsIs ==
  ASSUME NEW S \in SUBSET (0..11), NEW f, Adds(f, S), NEW s \in SUBSET S
  PROVE  f[s] = Digits(s, 0)
<1> DEFINE T == {k \in Nat : \A t \in SUBSET S : Digits(t, 0) < k => f[t] = Digits(t, 0)}
<1>1. 0 \in T
  <2>1. \A t \in SUBSET S : Digits(t, 0) \in Nat
    BY DigitsNat
  <2> QED
    BY <2>1
<1>2. ASSUME NEW k \in Nat, k \in T
      PROVE  k + 1 \in T
  <2>1. SUFFICES ASSUME NEW t \in SUBSET S, Digits(t, 0) < k + 1
                 PROVE  f[t] = Digits(t, 0)
    OBVIOUS
  <2>2. CASE t = {}
    BY <2>2, DigitsEmpty DEF Adds
  <2>3. CASE t # {}
    <3> DEFINE b == CHOOSE x \in t : TRUE
    <3>1. b \in t
      BY <2>3
    <3>2. f[t] = 2^b + f[t \ {b}]
      BY <2>3 DEF Adds
    <3> HIDE DEF b
    <3>3. /\ Digits(t, 0) \in Nat /\ Digits(t \ {b}, 0) \in Nat
          /\ Digits(t, 0) = 2^b + Digits(t \ {b}, 0)
      BY <3>1, DigitsLess
    <3>4. b \in 0..11 /\ 2^b >= 1 /\ 2^b \in Nat
      <4>1. b \in 0..11
        BY <3>1
      <4> QED
        BY <4>1, Powers
    <3>5. Digits(t \ {b}, 0) < k
      BY <2>1, <3>3, <3>4
    <3>6. f[t \ {b}] = Digits(t \ {b}, 0)
      BY <1>2, <3>5
    <3> QED
      BY <3>2, <3>3, <3>6
  <2> QED
    BY <2>2, <2>3
<1>3. Nat \subseteq T
  <2> HIDE DEF T
  <2> QED
    BY <1>1, <1>2, Induct
<1>4. Digits(s, 0) \in Nat
  BY DigitsNat
<1>5. Digits(s, 0) + 1 \in T
  BY <1>3, <1>4
<1> QED
  BY <1>4, <1>5

\* The number of a set of low bits, by the fold of the community modules.
LEMMA NumberIs ==
  ASSUME NEW S \in SUBSET (0..11)
  PROVE  A!Number(S) = Digits(S, 0)
<1> DEFINE f == CHOOSE f : Adds(f, S)
           g == [s \in SUBSET S |-> Digits(s, 0)]
<1>1. A!Number(S) = f[S]
  BY DEF A!Number, A!MapThenSumSet, A!MapThenFoldSet, Adds
<1>2. Adds(g, S)
  <2>1. ASSUME NEW s \in SUBSET S
        PROVE  g[s] = IF s = {} THEN 0
                      ELSE 2^(CHOOSE x \in s : TRUE) + g[s \ {CHOOSE x \in s : TRUE}]
    <3>1. CASE s = {}
      BY <3>1, DigitsEmpty
    <3>2. CASE s # {}
      <4>1. (CHOOSE x \in s : TRUE) \in s
        BY <3>2
      <4>2. s \in SUBSET (0..11)
        OBVIOUS
      <4> QED
        BY <3>2, <4>1, <4>2, DigitsLess
    <3> QED
      BY <3>1, <3>2
  <2> QED
    BY <2>1 DEF Adds
<1>3. Adds(f, S)
  BY <1>2
<1> QED
  <2> HIDE DEF f
  <2> QED
    BY <1>1, <1>3, AddsIs

\* The positions that get a carry, however many there are.
CarriesOf(x, y, carry) ==
  {k \in Nat : \/ \E j \in x \cap y : j < k /\ (j+1)..(k-1) \subseteq x \cup y
               \/ carry = 1 /\ 0..(k-1) \subseteq x \cup y}

\* The bits of the sum.
SumOf(x, y, carry) ==
  {k \in Nat : ((k \in x) # (k \in y)) # (k \in CarriesOf(x, y, carry))}

\* The carry into the first position.
LEMMA CarryFirst ==
  ASSUME NEW x \in SUBSET Nat, NEW y \in SUBSET Nat, NEW carry \in {0, 1}
  PROVE  BitOf(CarriesOf(x, y, carry), 0) = carry
<1>1. \A j \in x \cap y : ~ (j < 0)
  OBVIOUS
<1>2. 0..(0-1) = {}
  OBVIOUS
<1> QED
  BY <1>1, <1>2 DEF CarriesOf, BitOf

\* A carry is made by two ones, or by a one and a carry.
LEMMA CarryNext ==
  ASSUME NEW x \in SUBSET Nat, NEW y \in SUBSET Nat, NEW carry \in {0, 1}, NEW k \in Nat
  PROVE  k + 1 \in CarriesOf(x, y, carry)
           <=> \/ k \in x /\ k \in y
               \/ (k \in x \/ k \in y) /\ k \in CarriesOf(x, y, carry)
<1>1. ASSUME k \in x, k \in y
      PROVE  k + 1 \in CarriesOf(x, y, carry)
  <2>1. k \in x \cap y /\ k < k + 1 /\ (k+1)..(k+1-1) = {}
    BY <1>1
  <2> QED
    BY <2>1 DEF CarriesOf
<1>2. ASSUME k \in x \cup y, k \in CarriesOf(x, y, carry)
      PROVE  k + 1 \in CarriesOf(x, y, carry)
  <2>1. \A j \in Nat \cup {-1} : (j+1)..(k-1) \subseteq x \cup y => (j+1)..(k+1-1) \subseteq x \cup y
    BY <1>2
  <2>2. CASE \E j \in x \cap y : j < k /\ (j+1)..(k-1) \subseteq x \cup y
    <3>1. PICK j \in x \cap y : j < k /\ (j+1)..(k-1) \subseteq x \cup y
      BY <2>2
    <3>2. j \in Nat /\ j < k + 1 /\ (j+1)..(k+1-1) \subseteq x \cup y
      BY <2>1, <3>1
    <3> QED
      BY <3>1, <3>2 DEF CarriesOf
  <2>3. CASE carry = 1 /\ 0..(k-1) \subseteq x \cup y
    <3>1. 0..(k+1-1) \subseteq x \cup y
      BY <1>2, <2>3
    <3> QED
      BY <2>3, <3>1 DEF CarriesOf
  <2> QED
    BY <1>2, <2>2, <2>3 DEF CarriesOf
<1>3. ASSUME k + 1 \in CarriesOf(x, y, carry), ~ (k \in x /\ k \in y)
      PROVE  k \in x \cup y /\ k \in CarriesOf(x, y, carry)
  <2>1. CASE \E j \in x \cap y : j < k + 1 /\ (j+1)..(k+1-1) \subseteq x \cup y
    <3>1. PICK j \in x \cap y : j < k + 1 /\ (j+1)..(k+1-1) \subseteq x \cup y
      BY <2>1
    <3>2. j \in Nat /\ j # k
      BY <1>3, <3>1
    <3>3. j < k /\ k \in x \cup y /\ (j+1)..(k-1) \subseteq x \cup y
      BY <3>1, <3>2
    <3> QED
      BY <3>1, <3>3 DEF CarriesOf
  <2>2. CASE carry = 1 /\ 0..(k+1-1) \subseteq x \cup y
    <3>1. k \in x \cup y /\ 0..(k-1) \subseteq x \cup y
      BY <2>2
    <3> QED
      BY <2>2, <3>1 DEF CarriesOf
  <2> QED
    BY <1>3, <2>1, <2>2 DEF CarriesOf
<1> QED
  BY <1>1, <1>2, <1>3

\* One column of written addition, in base 2.
LEMMA BitSum ==
  ASSUME NEW x \in SUBSET Nat, NEW y \in SUBSET Nat, NEW carry \in {0, 1}, NEW k \in Nat
  PROVE  BitOf(x, k) + BitOf(y, k) + BitOf(CarriesOf(x, y, carry), k)
           = BitOf(SumOf(x, y, carry), k) + 2 * BitOf(CarriesOf(x, y, carry), k + 1)
<1> DEFINE C == CarriesOf(x, y, carry)
           S == SumOf(x, y, carry)
<1>1. k + 1 \in C <=> \/ k \in x /\ k \in y
                      \/ (k \in x \/ k \in y) /\ k \in C
  BY CarryNext
<1>2. k \in S <=> (((k \in x) # (k \in y)) # (k \in C))
  BY DEF SumOf
<1> HIDE DEF C, S
<1>3. BitOf(x, k) + BitOf(y, k) + BitOf(C, k) = BitOf(S, k) + 2 * BitOf(C, k + 1)
  BY <1>1, <1>2 DEF BitOf
<1> QED
  BY <1>3 DEF C, S

\* Twelve of them.
DigitsAdd(x, y, carry, p) ==
  Digits(x, p) + Digits(y, p) + BitOf(CarriesOf(x, y, carry), p)
    = Digits(SumOf(x, y, carry), p) + 4096 * BitOf(CarriesOf(x, y, carry), p + 12)

\* Digits of twelve bits add up with a carry like single bits.
LEMMA DigitSum ==
  ASSUME NEW x \in SUBSET Nat, NEW y \in SUBSET Nat, NEW carry \in {0, 1}, NEW p \in Nat
  PROVE  DigitsAdd(x, y, carry, p)
<1> DEFINE C == CarriesOf(x, y, carry)
           S == SumOf(x, y, carry)
           Three(w, q) == BitOf(w, q) + 2 * BitOf(w, q+1) + 4 * BitOf(w, q+2)
<1>1. ASSUME NEW q \in Nat
      PROVE  Three(x, q) + Three(y, q) + BitOf(C, q) = Three(S, q) + 8 * BitOf(C, q+3)
  <2>a. q+1 \in Nat /\ q+2 \in Nat
    OBVIOUS
  <2>b. BitOf(x, q) + BitOf(y, q) + BitOf(C, q) = BitOf(S, q) + 2 * BitOf(C, q+1)
    BY BitSum
  <2>c. BitOf(x, q+1) + BitOf(y, q+1) + BitOf(C, q+1) = BitOf(S, q+1) + 2 * BitOf(C, q+1+1)
    BY <2>a, BitSum
  <2>d. BitOf(x, q+2) + BitOf(y, q+2) + BitOf(C, q+2) = BitOf(S, q+2) + 2 * BitOf(C, q+2+1)
    BY <2>a, BitSum
  <2>2. q+1+1 = q+2 /\ q+2+1 = q+3
    OBVIOUS
  <2>3. \A w, d : BitOf(w, d) \in {0, 1}
    BY DEF BitOf
  <2> HIDE DEF C, S
  <2> QED
    BY <2>b, <2>c, <2>d, <2>2, <2>3
<1>2. ASSUME NEW w
      PROVE  /\ Digits(w, p) = Three(w, p) + 8 * Three(w, p+3) + 64 * Three(w, p+6) + 512 * Three(w, p+9)
             /\ Three(w, p) \in Int /\ Three(w, p+3) \in Int
             /\ Three(w, p+6) \in Int /\ Three(w, p+9) \in Int
  <2>1. \A d : BitOf(w, d) \in Int
    BY DEF BitOf
  <2>2. /\ p+3+1 = p+4 /\ p+3+2 = p+5 /\ p+6+1 = p+7
        /\ p+6+2 = p+8 /\ p+9+1 = p+10 /\ p+9+2 = p+11
    OBVIOUS
  <2>3. /\ Three(w, p) = BitOf(w, p) + 2 * BitOf(w, p+1) + 4 * BitOf(w, p+2)
        /\ Three(w, p+3) = BitOf(w, p+3) + 2 * BitOf(w, p+4) + 4 * BitOf(w, p+5)
        /\ Three(w, p+6) = BitOf(w, p+6) + 2 * BitOf(w, p+7) + 4 * BitOf(w, p+8)
        /\ Three(w, p+9) = BitOf(w, p+9) + 2 * BitOf(w, p+10) + 4 * BitOf(w, p+11)
    BY <2>2
  <2> HIDE DEF Three
  <2> QED
    BY <2>1, <2>3 DEF Digits
<1>3. \A d : BitOf(C, d) \in Int
  BY DEF BitOf
<1> HIDE DEF C, S, Three
<1>4. /\ Three(x, p) + Three(y, p) + BitOf(C, p) = Three(S, p) + 8 * BitOf(C, p+3)
      /\ Three(x, p+3) + Three(y, p+3) + BitOf(C, p+3) = Three(S, p+3) + 8 * BitOf(C, p+6)
      /\ Three(x, p+6) + Three(y, p+6) + BitOf(C, p+6) = Three(S, p+6) + 8 * BitOf(C, p+9)
      /\ Three(x, p+9) + Three(y, p+9) + BitOf(C, p+9) = Three(S, p+9) + 8 * BitOf(C, p+12)
  <2>1. /\ p+3+3 = p+6 /\ p+6+3 = p+9 /\ p+9+3 = p+12
        /\ p+3 \in Nat /\ p+6 \in Nat /\ p+9 \in Nat
    OBVIOUS
  <2> QED
    BY <1>1, <2>1
<1>5. Digits(x, p) + Digits(y, p) + BitOf(C, p) = Digits(S, p) + 4096 * BitOf(C, p+12)
  BY <1>2, <1>3, <1>4
<1> QED
  BY <1>5 DEF C, S, DigitsAdd

\* Powers of two beyond a digit.
LEMMA PowersAbove ==
  ASSUME NEW b \in 12..30
  PROVE  2^b \in Nat /\ 2^b >= 4096
<1>12. CASE b = 12
  BY <1>12
<1>13. CASE b = 13
  BY <1>13
<1>14. CASE b = 14
  BY <1>14
<1>15. CASE b = 15
  BY <1>15
<1>16. CASE b = 16
  BY <1>16
<1>17. CASE b = 17
  BY <1>17
<1>18. CASE b = 18
  BY <1>18
<1>19. CASE b = 19
  BY <1>19
<1>20. CASE b = 20
  BY <1>20
<1>21. CASE b = 21
  BY <1>21
<1>22. CASE b = 22
  BY <1>22
<1>23. CASE b = 23
  BY <1>23
<1>24. CASE b = 24
  BY <1>24
<1>25. CASE b = 25
  BY <1>25
<1>26. CASE b = 26
  BY <1>26
<1>27. CASE b = 27
  BY <1>27
<1>28. CASE b = 28
  BY <1>28
<1>29. CASE b = 29
  BY <1>29
<1>30. CASE b = 30
  BY <1>30
<1> QED
  BY <1>12, <1>13, <1>14, <1>15, <1>16, <1>17, <1>18, <1>19, <1>20, <1>21, <1>22, <1>23, <1>24,
     <1>25, <1>26, <1>27, <1>28, <1>29, <1>30

\* The bits of a number of twelve bits.
LEMMA WordOf ==
  ASSUME NEW x, NEW p \in Nat
  PROVE  Digits(x, p) \in Nat /\ Digits(x, p) < 4096
         /\ \A b \in 0..30 : b \in A!Word(Digits(x, p)) <=> b <= 11 /\ p + b \in x
<1> DEFINE D == Digits(x, p)
           B(d) == BitOf(x, p + d)
           R12 == 0
           R11 == B(11) + 2 * R12
           R10 == B(10) + 2 * R11
           R9 == B(9) + 2 * R10
           R8 == B(8) + 2 * R9
           R7 == B(7) + 2 * R8
           R6 == B(6) + 2 * R7
           R5 == B(5) + 2 * R6
           R4 == B(4) + 2 * R5
           R3 == B(3) + 2 * R4
           R2 == B(2) + 2 * R3
           R1 == B(1) + 2 * R2
           R0 == B(0) + 2 * R1
           L0 == 0
           L1 == L0 + 1 * B(0)
           L2 == L1 + 2 * B(1)
           L3 == L2 + 4 * B(2)
           L4 == L3 + 8 * B(3)
           L5 == L4 + 16 * B(4)
           L6 == L5 + 32 * B(5)
           L7 == L6 + 64 * B(6)
           L8 == L7 + 128 * B(7)
           L9 == L8 + 256 * B(8)
           L10 == L9 + 512 * B(9)
           L11 == L10 + 1024 * B(10)
           L12 == L11 + 2048 * B(11)
<1>1. \A d : B(d) \in {0, 1}
  BY DEF BitOf
<1>2. BitOf(x, p) = B(0)
  BY p + 0 = p
<1>3. D \in Nat /\ R12 \in Nat /\ L0 \in Nat
  BY DigitsNat
<1>r11. R11 \in Nat /\ R11 = B(11) + 2 * R12
  <2> HIDE DEF B, R12
  <2> QED
    BY <1>1, <1>3
<1>r10. R10 \in Nat /\ R10 = B(10) + 2 * R11
  <2> HIDE DEF B, R11
  <2> QED
    BY <1>1, <1>r11
<1>r9. R9 \in Nat /\ R9 = B(9) + 2 * R10
  <2> HIDE DEF B, R10
  <2> QED
    BY <1>1, <1>r10
<1>r8. R8 \in Nat /\ R8 = B(8) + 2 * R9
  <2> HIDE DEF B, R9
  <2> QED
    BY <1>1, <1>r9
<1>r7. R7 \in Nat /\ R7 = B(7) + 2 * R8
  <2> HIDE DEF B, R8
  <2> QED
    BY <1>1, <1>r8
<1>r6. R6 \in Nat /\ R6 = B(6) + 2 * R7
  <2> HIDE DEF B, R7
  <2> QED
    BY <1>1, <1>r7
<1>r5. R5 \in Nat /\ R5 = B(5) + 2 * R6
  <2> HIDE DEF B, R6
  <2> QED
    BY <1>1, <1>r6
<1>r4. R4 \in Nat /\ R4 = B(4) + 2 * R5
  <2> HIDE DEF B, R5
  <2> QED
    BY <1>1, <1>r5
<1>r3. R3 \in Nat /\ R3 = B(3) + 2 * R4
  <2> HIDE DEF B, R4
  <2> QED
    BY <1>1, <1>r4
<1>r2. R2 \in Nat /\ R2 = B(2) + 2 * R3
  <2> HIDE DEF B, R3
  <2> QED
    BY <1>1, <1>r3
<1>r1. R1 \in Nat /\ R1 = B(1) + 2 * R2
  <2> HIDE DEF B, R2
  <2> QED
    BY <1>1, <1>r2
<1>r0. R0 \in Nat /\ R0 = B(0) + 2 * R1
  <2> HIDE DEF B, R1
  <2> QED
    BY <1>1, <1>r1
<1>4. D = R0
  <2>1. \A d : B(d) \in Int
    BY <1>1
  <2>2. D = B(0) + 2 * B(1) + 4 * B(2) + 8 * B(3) + 16 * B(4) + 32 * B(5) + 64 * B(6)
              + 128 * B(7) + 256 * B(8) + 512 * B(9) + 1024 * B(10) + 2048 * B(11)
    <3>1. D = BitOf(x, p) + 2 * B(1) + 4 * B(2) + 8 * B(3) + 16 * B(4) + 32 * B(5) + 64 * B(6)
              + 128 * B(7) + 256 * B(8) + 512 * B(9) + 1024 * B(10) + 2048 * B(11)
      BY DEF Digits, B
    <3> QED
      BY <1>2, <3>1
  <2>3. R12 = 0
    OBVIOUS
  <2> HIDE DEF D, B, R0, R1, R2, R3, R4, R5, R6, R7, R8, R9, R10, R11, R12
  <2> QED
    BY <2>1, <2>2, <2>3, <1>3, <1>r0, <1>r1, <1>r2, <1>r3, <1>r4, <1>r5, <1>r6, <1>r7, <1>r8,
       <1>r9, <1>r10, <1>r11
<1>d0. L0 \in Nat /\ D = L0 + 1 * R0 /\ L0 < 1
  <2>1. L0 = 0
    OBVIOUS
  <2> HIDE DEF R0, L0, D
  <2> QED
    BY <1>3, <1>r0, <1>4, <2>1
<1>d1. L1 \in Nat /\ L1 < 2 /\ D = L1 + 2 * R1 /\ (D \div 1) % 2 = B(0)
  <2> HIDE DEF D, B, R0, R1, L0
  <2>1. B(0) \in {0, 1}
    BY <1>1
  <2>2. L0 \in Nat /\ L0 < 1 /\ D = L0 + 1 * R0
    BY <1>3, <1>d0
  <2>3. R0 \in Nat /\ R1 \in Nat /\ R0 = B(0) + 2 * R1
    BY <1>3, <1>r0, <1>r1
  <2>4. D \div 1 = R0
    BY <2>2, <2>3
  <2>5. R0 % 2 = B(0)
    BY <2>1, <2>3
  <2>6. L0 + 1 * B(0) \in Nat /\ L0 + 1 * B(0) < 2
    BY <2>1, <2>2
  <2>7. D = L0 + 1 * B(0) + 2 * R1
    BY <2>1, <2>2, <2>3
  <2> QED
    BY <2>4, <2>5, <2>6, <2>7
<1>d2. L2 \in Nat /\ L2 < 4 /\ D = L2 + 4 * R2 /\ (D \div 2) % 2 = B(1)
  <2> HIDE DEF D, B, R1, R2, L1
  <2>1. B(1) \in {0, 1}
    BY <1>1
  <2>2. L1 \in Nat /\ L1 < 2 /\ D = L1 + 2 * R1
    BY <1>3, <1>d1
  <2>3. R1 \in Nat /\ R2 \in Nat /\ R1 = B(1) + 2 * R2
    BY <1>3, <1>r1, <1>r2
  <2>4. D \div 2 = R1
    BY <2>2, <2>3
  <2>5. R1 % 2 = B(1)
    BY <2>1, <2>3
  <2>6. L1 + 2 * B(1) \in Nat /\ L1 + 2 * B(1) < 4
    BY <2>1, <2>2
  <2>7. D = L1 + 2 * B(1) + 4 * R2
    BY <2>1, <2>2, <2>3
  <2> QED
    BY <2>4, <2>5, <2>6, <2>7
<1>d3. L3 \in Nat /\ L3 < 8 /\ D = L3 + 8 * R3 /\ (D \div 4) % 2 = B(2)
  <2> HIDE DEF D, B, R2, R3, L2
  <2>1. B(2) \in {0, 1}
    BY <1>1
  <2>2. L2 \in Nat /\ L2 < 4 /\ D = L2 + 4 * R2
    BY <1>3, <1>d2
  <2>3. R2 \in Nat /\ R3 \in Nat /\ R2 = B(2) + 2 * R3
    BY <1>3, <1>r2, <1>r3
  <2>4. D \div 4 = R2
    BY <2>2, <2>3
  <2>5. R2 % 2 = B(2)
    BY <2>1, <2>3
  <2>6. L2 + 4 * B(2) \in Nat /\ L2 + 4 * B(2) < 8
    BY <2>1, <2>2
  <2>7. D = L2 + 4 * B(2) + 8 * R3
    BY <2>1, <2>2, <2>3
  <2> QED
    BY <2>4, <2>5, <2>6, <2>7
<1>d4. L4 \in Nat /\ L4 < 16 /\ D = L4 + 16 * R4 /\ (D \div 8) % 2 = B(3)
  <2> HIDE DEF D, B, R3, R4, L3
  <2>1. B(3) \in {0, 1}
    BY <1>1
  <2>2. L3 \in Nat /\ L3 < 8 /\ D = L3 + 8 * R3
    BY <1>3, <1>d3
  <2>3. R3 \in Nat /\ R4 \in Nat /\ R3 = B(3) + 2 * R4
    BY <1>3, <1>r3, <1>r4
  <2>4. D \div 8 = R3
    BY <2>2, <2>3
  <2>5. R3 % 2 = B(3)
    BY <2>1, <2>3
  <2>6. L3 + 8 * B(3) \in Nat /\ L3 + 8 * B(3) < 16
    BY <2>1, <2>2
  <2>7. D = L3 + 8 * B(3) + 16 * R4
    BY <2>1, <2>2, <2>3
  <2> QED
    BY <2>4, <2>5, <2>6, <2>7
<1>d5. L5 \in Nat /\ L5 < 32 /\ D = L5 + 32 * R5 /\ (D \div 16) % 2 = B(4)
  <2> HIDE DEF D, B, R4, R5, L4
  <2>1. B(4) \in {0, 1}
    BY <1>1
  <2>2. L4 \in Nat /\ L4 < 16 /\ D = L4 + 16 * R4
    BY <1>3, <1>d4
  <2>3. R4 \in Nat /\ R5 \in Nat /\ R4 = B(4) + 2 * R5
    BY <1>3, <1>r4, <1>r5
  <2>4. D \div 16 = R4
    BY <2>2, <2>3
  <2>5. R4 % 2 = B(4)
    BY <2>1, <2>3
  <2>6. L4 + 16 * B(4) \in Nat /\ L4 + 16 * B(4) < 32
    BY <2>1, <2>2
  <2>7. D = L4 + 16 * B(4) + 32 * R5
    BY <2>1, <2>2, <2>3
  <2> QED
    BY <2>4, <2>5, <2>6, <2>7
<1>d6. L6 \in Nat /\ L6 < 64 /\ D = L6 + 64 * R6 /\ (D \div 32) % 2 = B(5)
  <2> HIDE DEF D, B, R5, R6, L5
  <2>1. B(5) \in {0, 1}
    BY <1>1
  <2>2. L5 \in Nat /\ L5 < 32 /\ D = L5 + 32 * R5
    BY <1>3, <1>d5
  <2>3. R5 \in Nat /\ R6 \in Nat /\ R5 = B(5) + 2 * R6
    BY <1>3, <1>r5, <1>r6
  <2>4. D \div 32 = R5
    BY <2>2, <2>3
  <2>5. R5 % 2 = B(5)
    BY <2>1, <2>3
  <2>6. L5 + 32 * B(5) \in Nat /\ L5 + 32 * B(5) < 64
    BY <2>1, <2>2
  <2>7. D = L5 + 32 * B(5) + 64 * R6
    BY <2>1, <2>2, <2>3
  <2> QED
    BY <2>4, <2>5, <2>6, <2>7
<1>d7. L7 \in Nat /\ L7 < 128 /\ D = L7 + 128 * R7 /\ (D \div 64) % 2 = B(6)
  <2> HIDE DEF D, B, R6, R7, L6
  <2>1. B(6) \in {0, 1}
    BY <1>1
  <2>2. L6 \in Nat /\ L6 < 64 /\ D = L6 + 64 * R6
    BY <1>3, <1>d6
  <2>3. R6 \in Nat /\ R7 \in Nat /\ R6 = B(6) + 2 * R7
    BY <1>3, <1>r6, <1>r7
  <2>4. D \div 64 = R6
    BY <2>2, <2>3
  <2>5. R6 % 2 = B(6)
    BY <2>1, <2>3
  <2>6. L6 + 64 * B(6) \in Nat /\ L6 + 64 * B(6) < 128
    BY <2>1, <2>2
  <2>7. D = L6 + 64 * B(6) + 128 * R7
    BY <2>1, <2>2, <2>3
  <2> QED
    BY <2>4, <2>5, <2>6, <2>7
<1>d8. L8 \in Nat /\ L8 < 256 /\ D = L8 + 256 * R8 /\ (D \div 128) % 2 = B(7)
  <2> HIDE DEF D, B, R7, R8, L7
  <2>1. B(7) \in {0, 1}
    BY <1>1
  <2>2. L7 \in Nat /\ L7 < 128 /\ D = L7 + 128 * R7
    BY <1>3, <1>d7
  <2>3. R7 \in Nat /\ R8 \in Nat /\ R7 = B(7) + 2 * R8
    BY <1>3, <1>r7, <1>r8
  <2>4. D \div 128 = R7
    BY <2>2, <2>3
  <2>5. R7 % 2 = B(7)
    BY <2>1, <2>3
  <2>6. L7 + 128 * B(7) \in Nat /\ L7 + 128 * B(7) < 256
    BY <2>1, <2>2
  <2>7. D = L7 + 128 * B(7) + 256 * R8
    BY <2>1, <2>2, <2>3
  <2> QED
    BY <2>4, <2>5, <2>6, <2>7
<1>d9. L9 \in Nat /\ L9 < 512 /\ D = L9 + 512 * R9 /\ (D \div 256) % 2 = B(8)
  <2> HIDE DEF D, B, R8, R9, L8
  <2>1. B(8) \in {0, 1}
    BY <1>1
  <2>2. L8 \in Nat /\ L8 < 256 /\ D = L8 + 256 * R8
    BY <1>3, <1>d8
  <2>3. R8 \in Nat /\ R9 \in Nat /\ R8 = B(8) + 2 * R9
    BY <1>3, <1>r8, <1>r9
  <2>4. D \div 256 = R8
    BY <2>2, <2>3
  <2>5. R8 % 2 = B(8)
    BY <2>1, <2>3
  <2>6. L8 + 256 * B(8) \in Nat /\ L8 + 256 * B(8) < 512
    BY <2>1, <2>2
  <2>7. D = L8 + 256 * B(8) + 512 * R9
    BY <2>1, <2>2, <2>3
  <2> QED
    BY <2>4, <2>5, <2>6, <2>7
<1>d10. L10 \in Nat /\ L10 < 1024 /\ D = L10 + 1024 * R10 /\ (D \div 512) % 2 = B(9)
  <2> HIDE DEF D, B, R9, R10, L9
  <2>1. B(9) \in {0, 1}
    BY <1>1
  <2>2. L9 \in Nat /\ L9 < 512 /\ D = L9 + 512 * R9
    BY <1>3, <1>d9
  <2>3. R9 \in Nat /\ R10 \in Nat /\ R9 = B(9) + 2 * R10
    BY <1>3, <1>r9, <1>r10
  <2>4. D \div 512 = R9
    BY <2>2, <2>3
  <2>5. R9 % 2 = B(9)
    BY <2>1, <2>3
  <2>6. L9 + 512 * B(9) \in Nat /\ L9 + 512 * B(9) < 1024
    BY <2>1, <2>2
  <2>7. D = L9 + 512 * B(9) + 1024 * R10
    BY <2>1, <2>2, <2>3
  <2> QED
    BY <2>4, <2>5, <2>6, <2>7
<1>d11. L11 \in Nat /\ L11 < 2048 /\ D = L11 + 2048 * R11 /\ (D \div 1024) % 2 = B(10)
  <2> HIDE DEF D, B, R10, R11, L10
  <2>1. B(10) \in {0, 1}
    BY <1>1
  <2>2. L10 \in Nat /\ L10 < 1024 /\ D = L10 + 1024 * R10
    BY <1>3, <1>d10
  <2>3. R10 \in Nat /\ R11 \in Nat /\ R10 = B(10) + 2 * R11
    BY <1>3, <1>r10, <1>r11
  <2>4. D \div 1024 = R10
    BY <2>2, <2>3
  <2>5. R10 % 2 = B(10)
    BY <2>1, <2>3
  <2>6. L10 + 1024 * B(10) \in Nat /\ L10 + 1024 * B(10) < 2048
    BY <2>1, <2>2
  <2>7. D = L10 + 1024 * B(10) + 2048 * R11
    BY <2>1, <2>2, <2>3
  <2> QED
    BY <2>4, <2>5, <2>6, <2>7
<1>d12. L12 \in Nat /\ L12 < 4096 /\ D = L12 + 4096 * R12 /\ (D \div 2048) % 2 = B(11)
  <2> HIDE DEF D, B, R11, R12, L11
  <2>1. B(11) \in {0, 1}
    BY <1>1
  <2>2. L11 \in Nat /\ L11 < 2048 /\ D = L11 + 2048 * R11
    BY <1>3, <1>d11
  <2>3. R11 \in Nat /\ R12 \in Nat /\ R11 = B(11) + 2 * R12
    BY <1>3, <1>r11
  <2>4. D \div 2048 = R11
    BY <2>2, <2>3
  <2>5. R11 % 2 = B(11)
    BY <2>1, <2>3
  <2>6. L11 + 2048 * B(11) \in Nat /\ L11 + 2048 * B(11) < 4096
    BY <2>1, <2>2
  <2>7. D = L11 + 2048 * B(11) + 4096 * R12
    BY <2>1, <2>2, <2>3
  <2> QED
    BY <2>4, <2>5, <2>6, <2>7
<1>5. D < 4096
  <2> HIDE DEF D, L12
  <2> QED
    BY <1>3, <1>d12
<1> HIDE DEF D
<1>6. ASSUME NEW b \in 0..30
      PROVE  b \in A!Word(D) <=> b <= 11 /\ p + b \in x
  <2>1. b \in A!Word(D) <=> (D \div 2^b) % 2 = 1
    BY DEF A!Word
  <2>2. B(b) = 1 <=> p + b \in x
    BY DEF BitOf
  <2>
    HIDE DEF B, L0, R0, L1, R1, L2, R2, L3, R3, L4, R4, L5, R5, L6, R6, L7, R7, L8, R8, L9, R9,
       L10, R10, L11, R11, L12, R12
  <2>c0. CASE b = 0
    <3>1. 2^b = 1 /\ b <= 11
      BY <2>c0
    <3> QED
      BY <2>1, <2>2, <2>c0, <3>1, <1>d1
  <2>c1. CASE b = 1
    <3>1. 2^b = 2 /\ b <= 11
      BY <2>c1
    <3> QED
      BY <2>1, <2>2, <2>c1, <3>1, <1>d2
  <2>c2. CASE b = 2
    <3>1. 2^b = 4 /\ b <= 11
      BY <2>c2
    <3> QED
      BY <2>1, <2>2, <2>c2, <3>1, <1>d3
  <2>c3. CASE b = 3
    <3>1. 2^b = 8 /\ b <= 11
      BY <2>c3
    <3> QED
      BY <2>1, <2>2, <2>c3, <3>1, <1>d4
  <2>c4. CASE b = 4
    <3>1. 2^b = 16 /\ b <= 11
      BY <2>c4
    <3> QED
      BY <2>1, <2>2, <2>c4, <3>1, <1>d5
  <2>c5. CASE b = 5
    <3>1. 2^b = 32 /\ b <= 11
      BY <2>c5
    <3> QED
      BY <2>1, <2>2, <2>c5, <3>1, <1>d6
  <2>c6. CASE b = 6
    <3>1. 2^b = 64 /\ b <= 11
      BY <2>c6
    <3> QED
      BY <2>1, <2>2, <2>c6, <3>1, <1>d7
  <2>c7. CASE b = 7
    <3>1. 2^b = 128 /\ b <= 11
      BY <2>c7
    <3> QED
      BY <2>1, <2>2, <2>c7, <3>1, <1>d8
  <2>c8. CASE b = 8
    <3>1. 2^b = 256 /\ b <= 11
      BY <2>c8
    <3> QED
      BY <2>1, <2>2, <2>c8, <3>1, <1>d9
  <2>c9. CASE b = 9
    <3>1. 2^b = 512 /\ b <= 11
      BY <2>c9
    <3> QED
      BY <2>1, <2>2, <2>c9, <3>1, <1>d10
  <2>c10. CASE b = 10
    <3>1. 2^b = 1024 /\ b <= 11
      BY <2>c10
    <3> QED
      BY <2>1, <2>2, <2>c10, <3>1, <1>d11
  <2>c11. CASE b = 11
    <3>1. 2^b = 2048 /\ b <= 11
      BY <2>c11
    <3> QED
      BY <2>1, <2>2, <2>c11, <3>1, <1>d12
  <2>d. CASE b \in 12..30
    <3>1. 2^b \in Nat /\ 2^b >= 4096
      <4> DEFINE above == 12..30
      <4>1. \A e \in above : 2^e \in Nat /\ 2^e >= 4096
        BY PowersAbove, Zenon
      <4>2. b \in above
        BY <2>d
      <4> HIDE DEF above
      <4> QED
        BY <4>1, <4>2
    <3>2. \A q \in Nat : q >= 4096 => D \div q = 0
      BY <1>3, <1>5
    <3>3. (D \div 2^b) % 2 = 0
      BY <3>1, <3>2
    <3> QED
      BY <2>1, <2>d, <3>3
  <2> QED
    BY <2>d, <2>c0, <2>c1, <2>c2, <2>c3, <2>c4, <2>c5, <2>c6, <2>c7, <2>c8, <2>c9, <2>c10, <2>c11
<1> QED
  BY <1>3, <1>5, <1>6 DEF D

\* A column of the written arithmetic of FpArm is twelve bits.
LEMMA DigitIs ==
  ASSUME NEW x, NEW k \in Nat
  PROVE  A!Digit(x, k) = Digits(x, 12 * k)
<1> DEFINE S == {b - 12 * k : b \in x \cap (12*k..12*k+11)}
<1>1. S \in SUBSET (0..11)
  OBVIOUS
<1>2. ASSUME NEW d \in 0..11
      PROVE  BitOf(S, d) = BitOf(x, 12 * k + d)
  <2>1. d \in S <=> 12 * k + d \in x
    <3>1. ASSUME d \in S PROVE 12 * k + d \in x
      <4>1. PICK b \in x \cap (12*k..12*k+11) : d = b - 12 * k
        BY <3>1
      <4> QED
        BY <4>1
    <3>2. ASSUME 12 * k + d \in x PROVE d \in S
      <4>1. 12 * k + d \in x \cap (12*k..12*k+11) /\ d = (12 * k + d) - 12 * k
        BY <3>2
      <4> QED
        BY <4>1
    <3> QED
      BY <3>1, <3>2
  <2> QED
    BY <2>1 DEF BitOf
<1> HIDE DEF S
<1>3. /\ BitOf(S, 0) = BitOf(x, 12 * k)
      /\ BitOf(S, 1) = BitOf(x, 12 * k + 1) /\ BitOf(S, 2) = BitOf(x, 12 * k + 2)
      /\ BitOf(S, 3) = BitOf(x, 12 * k + 3) /\ BitOf(S, 4) = BitOf(x, 12 * k + 4)
      /\ BitOf(S, 5) = BitOf(x, 12 * k + 5) /\ BitOf(S, 6) = BitOf(x, 12 * k + 6)
      /\ BitOf(S, 7) = BitOf(x, 12 * k + 7) /\ BitOf(S, 8) = BitOf(x, 12 * k + 8)
      /\ BitOf(S, 9) = BitOf(x, 12 * k + 9) /\ BitOf(S, 10) = BitOf(x, 12 * k + 10)
      /\ BitOf(S, 11) = BitOf(x, 12 * k + 11)
  <2>1. 12 * k + 0 = 12 * k
    OBVIOUS
  <2> QED
    BY <1>2, <2>1
<1>4. Digits(S, 0) = Digits(x, 12 * k)
  <2>1. /\ 0+1 = 1 /\ 0+2 = 2 /\ 0+3 = 3 /\ 0+4 = 4 /\ 0+5 = 5 /\ 0+6 = 6
        /\ 0+7 = 7 /\ 0+8 = 8 /\ 0+9 = 9 /\ 0+10 = 10 /\ 0+11 = 11
    OBVIOUS
  <2> QED
    BY <1>3, <2>1 DEF Digits
<1>5. A!Number(S) = Digits(S, 0)
  BY <1>1, NumberIs
<1> QED
  BY <1>4, <1>5 DEF A!Digit, S

\* Columns from the first on: a weight and what the column before carries.
InColumns(f, w) ==
  f = [k \in 0..10 |-> w[k] + IF k = 0 THEN 0 ELSE f[k-1] \div 4096]

\* A column beyond one digit is carried.
LEMMA DivideColumn ==
  ASSUME NEW a \in Nat, NEW b \in Nat, a < 4096
  PROVE  (a + 4096 * b) \div 4096 = b /\ (a + 4096 * b) % 4096 = a
OBVIOUS

\* What the recursive columns of a written sum hold.
LEMMA ColumnsAre ==
  ASSUME NEW f, NEW w, InColumns(f, w), NEW r, NEW t,
         \A k \in 0..10 : r[k] \in Nat /\ r[k] < 4096 /\ t[k] \in Nat,
         t[0] \in Nat,
         w[0] = r[0] + 4096 * t[0],
         \A k \in 1..10 : w[k] + t[k-1] = r[k] + 4096 * t[k],
         \A k \in 0..10 : w[k] \in Int
  PROVE  \A k \in 0..10 : f[k] = r[k] + 4096 * t[k]
<1> DEFINE T == {k \in Nat : k \in 0..10 => f[k] = r[k] + 4096 * t[k]}
<1>1. 0 \in T
  BY DEF InColumns
<1>2. ASSUME NEW k \in Nat, k \in T
      PROVE  k + 1 \in T
  <2>1. CASE k + 1 \in 0..10
    <3>1. k \in 0..10 /\ k + 1 \in 1..10 /\ (k + 1) - 1 = k /\ k + 1 # 0
      BY <2>1
    <3>2. f[k] = r[k] + 4096 * t[k] /\ r[k] \in Nat /\ r[k] < 4096 /\ t[k] \in Nat
      BY <1>2, <3>1
    <3>3. f[k] \div 4096 = t[k]
      <4> DEFINE a == r[k]
                 b == t[k]
      <4>1. a \in Nat /\ b \in Nat /\ a < 4096
        BY <3>2
      <4> HIDE DEF a, b
      <4>2. (a + 4096 * b) \div 4096 = b
        BY <4>1
      <4> USE DEF a, b
      <4> QED
        BY <3>2, <4>2
    <3>4. f[k+1] = w[k+1] + f[k] \div 4096
      BY <2>1, <3>1 DEF InColumns
    <3>5. w[k+1] + t[k] = r[k+1] + 4096 * t[k+1]
      BY <3>1
    <3>6. f[k+1] = r[k+1] + 4096 * t[k+1]
      BY <3>3, <3>4, <3>5
    <3> QED
      BY <3>6
  <2> QED
    BY <2>1
<1>3. Nat \subseteq T
  <2> HIDE DEF T
  <2> QED
    BY <1>1, <1>2, Induct
<1> QED
  BY <1>3

\* The carry into the first position, as a member.
LEMMA FirstOfCarries ==
  ASSUME NEW x \in SUBSET Nat, NEW y \in SUBSET Nat, NEW carry \in {0, 1}
  PROVE  0 \in CarriesOf(x, y, carry) <=> carry = 1
  BY CarryFirst DEF BitOf

\* A sum in columns of twelve bits has the bits of the sum in columns of one.
SumsTo(x, y, carry, bits) == A!ArmSum(x, y, carry, bits) = {b \in 0..bits-1 : b \in SumOf(x, y, carry)}

\* The written sum of FpArm, by columns, has the bits of the sum by single
\* carries.
LEMMA ArmSumIs ==
  ASSUME NEW x \in SUBSET Nat, NEW y \in SUBSET Nat, NEW carry \in {0, 1}, NEW bits \in 1..132
  PROVE  SumsTo(x, y, carry, bits)
<1> DEFINE C == CarriesOf(x, y, carry)
           S == SumOf(x, y, carry)
           weight(k) == A!Digit(x, k) + A!Digit(y, k) + (IF k = 0 THEN carry ELSE 0)
           w == [k \in 0..10 |-> weight(k)]
           f == CHOOSE f : InColumns(f, w)
           r == [k \in 0..10 |-> Digits(S, 12 * k)]
           t == [k \in 0..10 |-> BitOf(C, 12 * k + 12)]
           g == [k \in 0..10 |-> r[k] + 4096 * t[k]]
<1>0. \A p \in Nat : Digits(x, p) + Digits(y, p) + BitOf(C, p) = Digits(S, p) + 4096 * BitOf(C, p + 12)
  <2>1. \A p \in Nat : DigitsAdd(x, y, carry, p)
    BY DigitSum
  <2> QED
    BY <2>1 DEF DigitsAdd
<1>1. \A k \in 0..10 : r[k] \in Nat /\ r[k] < 4096 /\ t[k] \in Nat
  <2>1. \A d : BitOf(C, d) \in Nat
    BY DEF BitOf
  <2>2. \A k \in 0..10 : 12 * k \in Nat
    OBVIOUS
  <2> QED
    BY <2>1, <2>2, WordOf
<1>2. \A k \in 0..10 : w[k] = Digits(x, 12 * k) + Digits(y, 12 * k) + (IF k = 0 THEN carry ELSE 0)
  <2>1. \A k \in 0..10 : k \in Nat
    OBVIOUS
  <2> QED
    BY <2>1, DigitIs
<1>3. \A k \in 0..10 : w[k] \in Int
  BY <1>2, DigitsNat
<1>4. w[0] = r[0] + 4096 * t[0]
  <2>1. Digits(x, 0) + Digits(y, 0) + BitOf(C, 0) = Digits(S, 0) + 4096 * BitOf(C, 0 + 12)
    BY <1>0
  <2>2. BitOf(C, 0) = carry
    BY CarryFirst
  <2>3. 12 * 0 = 0 /\ 12 * 0 + 12 = 12 /\ 0 + 12 = 12 /\ 0 \in 0..10
    OBVIOUS
  <2> HIDE DEF C, S
  <2> QED
    BY <1>2, <2>1, <2>2, <2>3
<1>5. ASSUME NEW k \in 1..10
      PROVE  w[k] + t[k-1] = r[k] + 4096 * t[k]
  <2>1. 12 * k \in Nat /\ 12 * (k - 1) + 12 = 12 * k /\ k \in 0..10 /\ k-1 \in 0..10 /\ k # 0
    OBVIOUS
  <2>2. Digits(x, 12*k) + Digits(y, 12*k) + BitOf(C, 12*k) = Digits(S, 12*k) + 4096 * BitOf(C, 12*k + 12)
    <3> HIDE DEF C, S
    <3> QED
      BY <1>0, <2>1
  <2>3. Digits(x, 12*k) \in Nat /\ Digits(y, 12*k) \in Nat
    BY DigitsNat
  <2>4. w[k] = Digits(x, 12 * k) + Digits(y, 12 * k)
    BY <1>2, <2>1, <2>3
  <2>5. t[k-1] = BitOf(C, 12 * k) /\ t[k] = BitOf(C, 12*k + 12) /\ r[k] = Digits(S, 12 * k)
    BY <2>1
  <2> HIDE DEF C, S, w, t, r
  <2> QED
    BY <2>2, <2>4, <2>5
<1>6. InColumns(f, w)
  <2>1. \A k \in 1..10 : g[k-1] \div 4096 = t[k-1]
    <3>1. \A k \in 1..10 : k-1 \in 0..10
      OBVIOUS
    <3>2. \A k \in 0..10 : (r[k] + 4096 * t[k]) \div 4096 = t[k]
      <4> HIDE DEF r, t
      <4> QED
        BY <1>1, DivideColumn
    <3>3. \A k \in 0..10 : g[k] = r[k] + 4096 * t[k]
      OBVIOUS
    <3> HIDE DEF g, r, t
    <3> QED
      BY <1>1, <3>1, <3>2, <3>3
  <2>2. \A k \in 0..10 : g[k] = w[k] + IF k = 0 THEN 0 ELSE g[k-1] \div 4096
    <3>1. \A k \in 0..10 : g[k] = r[k] + 4096 * t[k] /\ (k # 0 => k \in 1..10)
      OBVIOUS
    <3> HIDE DEF g, r, t, w
    <3> QED
      BY <1>1, <1>3, <1>4, <1>5, <2>1, <3>1
  <2>3. g = [k \in 0..10 |-> g[k]]
    OBVIOUS
  <2> HIDE DEF g, w
  <2>4. InColumns(g, w)
    BY <2>2, <2>3 DEF InColumns
  <2> QED
    BY <2>4
<1>7. \A k \in 0..10 : f[k] = r[k] + 4096 * t[k]
  <2> HIDE DEF f, w, r, t
  <2>1. t[0] \in Nat
    BY <1>1
  <2> QED
    BY <1>1, <1>3, <1>4, <1>5, <1>6, <2>1, ColumnsAre
<1>8. A!ArmSum(x, y, carry, bits)
        = {d \in 0..bits-1 : d \in UNION {{b + 12 * k : b \in A!Word(f[k] % 4096)} : k \in 0..(bits-1) \div 12}}
  <2>1. \A h : InColumns(h, w) <=> h = [k \in 0..10 |-> weight(k) + IF k = 0 THEN 0 ELSE h[k-1] \div 4096]
    <3>1. \A k \in 0..10 : w[k] = weight(k)
      OBVIOUS
    <3> HIDE DEF w, weight
    <3> QED
      BY <3>1 DEF InColumns
  <2>2. f = CHOOSE h : h = [k \in 0..10 |-> weight(k) + IF k = 0 THEN 0 ELSE h[k-1] \div 4096]
    <3> HIDE DEF w, weight
    <3> QED
      BY <2>1
  <2> HIDE DEF f, w
  <2>3. A!ArmSum(x, y, carry, bits)
          = LET h == CHOOSE h : h = [k \in 0..10 |-> weight(k) + IF k = 0 THEN 0 ELSE h[k-1] \div 4096]
                ones == UNION {{b + 12 * k : b \in A!Word(h[k] % 4096)} : k \in 0..(bits-1) \div 12}
            IN {b \in 0..bits-1 : b \in ones}
    BY Zenon DEF A!ArmSum, A!FromColumns
  <2> HIDE DEF weight
  <2> QED
    BY <2>2, <2>3
<1>9. \A k \in 0..10 : f[k] % 4096 = Digits(S, 12 * k)
  <2>1. \A k \in 0..10 : (r[k] + 4096 * t[k]) % 4096 = r[k]
    <3> HIDE DEF r, t
    <3> QED
      BY <1>1, DivideColumn
  <2>2. \A k \in 0..10 : r[k] = Digits(S, 12 * k)
    OBVIOUS
  <2> HIDE DEF f, r, t, S
  <2> QED
    BY <1>1, <1>7, <2>1, <2>2
<1> HIDE DEF f, r, t, w, S
<1>10. ASSUME NEW b \in 0..bits-1
       PROVE  b \in UNION {{d + 12 * k : d \in A!Word(f[k] % 4096)} : k \in 0..(bits-1) \div 12}
                <=> b \in S
  <2> DEFINE q == b \div 12
             m == b % 12
  <2>1. q \in 0..(bits-1) \div 12 /\ m \in 0..11 /\ b = 12 * q + m /\ 12 * q \in Nat
    OBVIOUS
  <2>2. (bits-1) \div 12 \in 0..10
    OBVIOUS
  <2>3. \A k \in 0..10, d \in 0..30 : d \in A!Word(f[k] % 4096) <=> d <= 11 /\ 12 * k + d \in S
    <3>1. \A k \in 0..10 : 12 * k \in Nat
      OBVIOUS
    <3> QED
      BY <1>9, <3>1, WordOf
  <2>4. \A k : A!Word(f[k] % 4096) \subseteq 0..30
    BY DEF A!Word
  <2>5. ASSUME b \in S
        PROVE  b \in UNION {{d + 12 * k : d \in A!Word(f[k] % 4096)} : k \in 0..(bits-1) \div 12}
    <3>1. q \in 0..10 /\ m \in 0..30 /\ m <= 11 /\ b = m + 12 * q
      BY <2>1, <2>2
    <3>2. m \in A!Word(f[q] % 4096)
      <4> HIDE DEF q, m
      <4> QED
        BY <2>1, <2>3, <2>5, <3>1
    <3> HIDE DEF q, m
    <3> QED
      BY <2>1, <3>1, <3>2
  <2>6. ASSUME NEW k \in 0..(bits-1) \div 12, NEW d \in A!Word(f[k] % 4096), b = d + 12 * k
        PROVE  b \in S
    <3>1. k \in 0..10 /\ d \in 0..30
      <4>1. (bits-1) \div 12 \in 0..10 /\ k \in 0..(bits-1) \div 12
        BY <2>2
      <4>2. \A top \in 0..10 : k \in 0..top => k \in 0..10
        OBVIOUS
      <4>3. d \in 0..30
        BY <2>4
      <4> QED
        BY <4>1, <4>2, <4>3
    <3>2. 12 * k + d = b
      BY <2>6, <3>1
    <3> QED
      BY <2>3, <3>1, <3>2
  <2> QED
    BY <2>5, <2>6
<1>11. A!ArmSum(x, y, carry, bits) = {b \in 0..bits-1 : b \in S}
  BY <1>8, <1>10
<1> QED
  BY <1>11 DEF S, SumsTo

\* A sum of the code is the sum by single carries.
AddsWithCarry(x, y, carry) == A!AddCarry(x, y, carry) = SumOf(x, y, carry) \cap (0..63)

\* The sum that the code computes is that one.
LEMMA AddCarryIs ==
  ASSUME NEW x \in SUBSET Nat, NEW y \in SUBSET Nat, NEW carry \in {0, 1}
  PROVE  AddsWithCarry(x, y, carry)
<1>1. \A k \in 0..63 : k \in A!Carries(x, y, carry) <=> k \in CarriesOf(x, y, carry)
  <2>1. \A k \in 0..63 : k \in Nat /\ k \in 0..64
    OBVIOUS
  <2> QED
    BY <2>1 DEF A!Carries, CarriesOf
<1>2. \A k \in 0..63 : k \in A!Xor(x, y) <=> ((k \in x) # (k \in y))
  BY DEF A!Xor, A!Positions
<1>3. \A k \in 0..63 : k \in A!AddCarry(x, y, carry) <=> ((k \in x) # (k \in y)) # (k \in CarriesOf(x, y, carry))
  BY <1>1, <1>2 DEF A!AddCarry, A!Xor, A!Positions
<1>4. \A k \in 0..63 : k \in SumOf(x, y, carry) <=> ((k \in x) # (k \in y)) # (k \in CarriesOf(x, y, carry))
  BY DEF SumOf
<1>5. A!AddCarry(x, y, carry) \subseteq 0..63
  BY DEF A!AddCarry, A!Xor, A!Positions
<1>6. A!AddCarry(x, y, carry) = SumOf(x, y, carry) \cap (0..63)
  BY <1>3, <1>4, <1>5
<1> QED
  BY <1>6 DEF AddsWithCarry

\* The sums of the code are those of the architecture.
LEMMA PlusIs ==
  ASSUME NEW x \in SUBSET Nat, NEW y \in SUBSET Nat
  PROVE  A!Plus(x, y) = A!ArmSum(x, y, 0, 64) /\ A!Plus(x, y) \in SUBSET (0..63)
<1>1. SumsTo(x, y, 0, 64)
  BY ArmSumIs
<1>2. A!Plus(x, y) = SumOf(x, y, 0) \cap (0..63)
  BY AddCarryIs DEF AddsWithCarry, A!Plus
<1> QED
  BY <1>1, <1>2 DEF SumsTo

\* Position k of a sum and the carry into it depend only on the operands below w.
Below(x, y, carry, w, k) ==
  /\ k \in CarriesOf(x, y, carry) <=> k \in CarriesOf(x \cap (0..w-1), y \cap (0..w-1), carry)
  /\ k < w => (k \in SumOf(x, y, carry) <=> k \in SumOf(x \cap (0..w-1), y \cap (0..w-1), carry))

\* A sum does not depend on what is above it.
LEMMA SumBelow ==
  ASSUME NEW x \in SUBSET Nat, NEW y \in SUBSET Nat, NEW carry, NEW w \in Nat, NEW k \in 0..w
  PROVE  Below(x, y, carry, w, k)
<1> DEFINE X == x \cap (0..w-1)
           Y == y \cap (0..w-1)
<1>1. k \in Nat
  OBVIOUS
<1>2. \A d \in Nat : d < k => (d \in X <=> d \in x) /\ (d \in Y <=> d \in y)
  OBVIOUS
<1>3. X \subseteq x /\ Y \subseteq y /\ X \in SUBSET Nat /\ Y \in SUBSET Nat
  OBVIOUS
<1> HIDE DEF X, Y
<1>4. \A d \in Nat \cup {-1} : (d+1)..(k-1) \subseteq x \cup y <=> (d+1)..(k-1) \subseteq X \cup Y
  BY <1>1, <1>2, <1>3
<1>5. 0..(k-1) \subseteq x \cup y <=> 0..(k-1) \subseteq X \cup Y
  BY <1>1, <1>2, <1>3
<1>6. k \in CarriesOf(x, y, carry) <=> k \in CarriesOf(X, Y, carry)
  <2>1. ASSUME NEW j \in x \cap y, j < k
        PROVE  j \in X \cap Y
    BY <1>1, <1>2, <2>1
  <2> QED
    BY <1>1, <1>3, <1>4, <1>5, <2>1 DEF CarriesOf
<1>7. k < w => (k \in x <=> k \in X) /\ (k \in y <=> k \in Y)
  BY DEF X, Y
<1>8. k < w => (k \in SumOf(x, y, carry) <=> k \in SumOf(X, Y, carry))
  BY <1>1, <1>6, <1>7 DEF SumOf
<1> QED
  BY <1>6, <1>8, Zenon DEF X, Y, Below

\* Sums are associative.
LEMMA SumAssociates ==
  ASSUME NEW x \in SUBSET Nat, NEW y \in SUBSET Nat, NEW w \in SUBSET Nat
  PROVE  SumOf(SumOf(x, y, 0), w, 0) = SumOf(x, SumOf(y, w, 0), 0)
<1> DEFINE s == SumOf(x, y, 0)
           r == SumOf(y, w, 0)
           T == {k \in Nat : BitOf(CarriesOf(x, y, 0), k) + BitOf(CarriesOf(s, w, 0), k)
                               = BitOf(CarriesOf(y, w, 0), k) + BitOf(CarriesOf(x, r, 0), k)}
<1>1. s \in SUBSET Nat /\ r \in SUBSET Nat
  BY DEF SumOf
<1> HIDE DEF s, r
<1>2. \A S, k : BitOf(S, k) \in {0, 1} /\ (BitOf(S, k) = 1 <=> k \in S)
  BY DEF BitOf
<1>3. 0 \in T
  <2>1. 0 \in {0, 1}
    OBVIOUS
  <2> QED
    BY <1>1, <2>1, CarryFirst
<1>4. ASSUME NEW k \in Nat, k \in T
      PROVE  k + 1 \in T /\ (k \in SumOf(s, w, 0) <=> k \in SumOf(x, r, 0))
  <2>1. BitOf(x, k) + BitOf(y, k) + BitOf(CarriesOf(x, y, 0), k)
          = BitOf(s, k) + 2 * BitOf(CarriesOf(x, y, 0), k + 1)
    BY BitSum DEF s
  <2>2. BitOf(s, k) + BitOf(w, k) + BitOf(CarriesOf(s, w, 0), k)
          = BitOf(SumOf(s, w, 0), k) + 2 * BitOf(CarriesOf(s, w, 0), k + 1)
    BY <1>1, BitSum
  <2>3. BitOf(y, k) + BitOf(w, k) + BitOf(CarriesOf(y, w, 0), k)
          = BitOf(r, k) + 2 * BitOf(CarriesOf(y, w, 0), k + 1)
    BY BitSum DEF r
  <2>4. BitOf(x, k) + BitOf(r, k) + BitOf(CarriesOf(x, r, 0), k)
          = BitOf(SumOf(x, r, 0), k) + 2 * BitOf(CarriesOf(x, r, 0), k + 1)
    BY <1>1, BitSum
  <2>5. BitOf(CarriesOf(x, y, 0), k) + BitOf(CarriesOf(s, w, 0), k)
          = BitOf(CarriesOf(y, w, 0), k) + BitOf(CarriesOf(x, r, 0), k)
    BY <1>4
  <2>6. /\ BitOf(SumOf(s, w, 0), k) = BitOf(SumOf(x, r, 0), k)
        /\ BitOf(CarriesOf(x, y, 0), k+1) + BitOf(CarriesOf(s, w, 0), k+1)
             = BitOf(CarriesOf(y, w, 0), k+1) + BitOf(CarriesOf(x, r, 0), k+1)
    BY <1>2, <2>1, <2>2, <2>3, <2>4, <2>5
  <2> QED
    BY <1>2, <2>6
<1>5. Nat \subseteq T
  <2> HIDE DEF T
  <2> QED
    BY <1>3, <1>4, Induct
<1>6. \A k \in Nat : k \in SumOf(s, w, 0) <=> k \in SumOf(x, r, 0)
  <2> HIDE DEF T
  <2> QED
    BY <1>4, <1>5
<1>7. SumOf(s, w, 0) \subseteq Nat /\ SumOf(x, r, 0) \subseteq Nat
  BY DEF SumOf
<1> QED
  BY <1>6, <1>7 DEF s, r

(***************************************************************************)
(* What the setters of a processor change.                                 *)
(***************************************************************************)
IsCpu(s) ==
  /\ DOMAIN s = {"x", "v", "pc", "nzcv", "stores", "error", "fill"}
  /\ DOMAIN s.x = 0..31 /\ DOMAIN s.v = 0..31

\* t is s but for the registers, the vectors, the address, the flags and the
\* stores that are given.
Becomes(s, t, x, vs, address, nz, stores) ==
  /\ IsCpu(t)
  /\ t.x = x /\ t.v = vs /\ t.pc = address /\ t.nzcv = nz /\ t.stores = stores
  /\ t.error = s.error /\ t.fill = s.fill

\* Advance changes the address.
LEMMA Advances ==
  ASSUME NEW s, IsCpu(s)
  PROVE  Becomes(s, A!Advance(s), s.x, s.v, A!Plus(s.pc, {2}), s.nzcv, s.stores)
BY DEF IsCpu, Becomes, A!Advance

\* Jump changes the address.
LEMMA Jumps ==
  ASSUME NEW s, IsCpu(s), NEW target
  PROVE  Becomes(s, A!Jump(s, target), s.x, s.v, target, s.nzcv, s.stores)
BY DEF IsCpu, Becomes, A!Jump

\* SetRegSP changes one register, 31 too.
LEMMA SetsRegSP ==
  ASSUME NEW s, IsCpu(s), NEW r, NEW w
  PROVE  Becomes(s, A!SetRegSP(s, r, w), [s.x EXCEPT ![r] = w], s.v, s.pc, s.nzcv, s.stores)
BY DEF IsCpu, Becomes, A!SetRegSP

\* SetReg changes one register but 31.
LEMMA SetsReg ==
  ASSUME NEW s, IsCpu(s), NEW r, NEW w
  PROVE  Becomes(s, A!SetReg(s, r, w), IF r = 31 THEN s.x ELSE [s.x EXCEPT ![r] = w],
                 s.v, s.pc, s.nzcv, s.stores)
<1>1. CASE r = 31
  BY <1>1 DEF A!SetReg, IsCpu, Becomes
<1>2. CASE r # 31
  BY <1>2, SetsRegSP DEF A!SetReg
<1> QED
  BY <1>1, <1>2

\* SetVector changes one vector register.
LEMMA SetsVector ==
  ASSUME NEW s, IsCpu(s), NEW r, NEW lo, NEW hi
  PROVE  Becomes(s, A!SetVector(s, r, lo, hi), s.x, [s.v EXCEPT ![r] = <<lo, hi>>],
                 s.pc, s.nzcv, s.stores)
BY DEF IsCpu, Becomes, A!SetVector

\* SetFlags changes the flags.
LEMMA SetsFlags ==
  ASSUME NEW s, IsCpu(s), NEW nz
  PROVE  Becomes(s, A!SetFlags(s, nz), s.x, s.v, s.pc, nz, s.stores)
BY DEF IsCpu, Becomes, A!SetFlags

\* Store appends to the stores.
LEMMA Stores ==
  ASSUME NEW s, IsCpu(s), NEW a, NEW bytes, NEW w
  PROVE  Becomes(s, A!Store(s, a, bytes, w), s.x, s.v, s.pc, s.nzcv,
                 Append(s.stores, <<a, bytes, A!Lower(w, 8 * bytes)>>))
BY DEF IsCpu, Becomes, A!Store

\* A refused instruction says so.
LEMMA Faults ==
  ASSUME NEW s, IsCpu(s)
  PROVE  IsCpu(A!Fault(s)) /\ A!Fault(s).error = TRUE
BY DEF IsCpu, A!Fault

\* The processors that instructions are executed on.
LEMMA ProcessorIs ==
  ASSUME NEW fill, NEW nz
  PROVE  /\ IsCpu(Processor(fill, nz)) /\ Processor(fill, nz).stores = <<>>
         /\ Processor(fill, nz).error = FALSE
BY DEF Processor, IsCpu

(***************************************************************************)
(* The fields of an instruction.                                           *)
(***************************************************************************)
SliceHas(i, h, l) == A!Slice(i, h, l) = {b \in 0..h-l : b + l \in i}

\* The bits that a slice of the code takes.
LEMMA SliceIs ==
  ASSUME NEW i, NEW h \in 0..31, NEW l \in 0..h
  PROVE  SliceHas(i, h, l)
<1>1. \A b \in 0..63 : b \in A!Slice(i, h, l) <=> b + l \in 0..h /\ b + l \in i
  BY DEF A!Slice, A!Shr, A!Lower, A!Low, A!Positions
<1>2. A!Slice(i, h, l) \subseteq 0..63
  BY DEF A!Slice, A!Shr, A!Positions
<1>3. \A b \in Int : b \in 0..h-l <=> b \in 0..63 /\ b + l \in 0..h
  OBVIOUS
<1> QED
  BY <1>1, <1>2, <1>3 DEF SliceHas

\* The number in the bits h..l, for up to seven of them.
FieldHas(i, h, l) ==
  A!Field(i, h, l) =
    BitOf(i, l) + (IF h - l >= 1 THEN 2 * BitOf(i, l+1) ELSE 0)
    + (IF h - l >= 2 THEN 4 * BitOf(i, l+2) ELSE 0) + (IF h - l >= 3 THEN 8 * BitOf(i, l+3) ELSE 0)
    + (IF h - l >= 4 THEN 16 * BitOf(i, l+4) ELSE 0) + (IF h - l >= 5 THEN 32 * BitOf(i, l+5) ELSE 0)
    + (IF h - l >= 6 THEN 64 * BitOf(i, l+6) ELSE 0)

\* The number of a field of at most seven bits.
LEMMA FieldIs ==
  ASSUME NEW i, NEW h \in 0..31, NEW l \in 0..h, h - l <= 6
  PROVE  FieldHas(i, h, l)
<1> DEFINE S == A!Slice(i, h, l)
<1>1. S = {b \in 0..h-l : b + l \in i}
  BY SliceIs DEF SliceHas
<1>2. S \in SUBSET (0..11)
  BY <1>1
<1> HIDE DEF S
<1>3. A!Number(S) = Digits(S, 0)
  BY <1>2, NumberIs
<1>4. \A d \in 0..11 : BitOf(S, d) = IF d <= h - l THEN BitOf(i, l + d) ELSE 0
  BY <1>1 DEF BitOf
<1>5. \A d : BitOf(i, d) \in Int
  BY DEF BitOf
<1>6. /\ BitOf(S, 0+0) = BitOf(i, l) /\ BitOf(S, 0) = BitOf(i, l)
      /\ BitOf(S, 0+1) = IF 1 <= h - l THEN BitOf(i, l+1) ELSE 0
      /\ BitOf(S, 0+2) = IF 2 <= h - l THEN BitOf(i, l+2) ELSE 0
      /\ BitOf(S, 0+3) = IF 3 <= h - l THEN BitOf(i, l+3) ELSE 0
      /\ BitOf(S, 0+4) = IF 4 <= h - l THEN BitOf(i, l+4) ELSE 0
      /\ BitOf(S, 0+5) = IF 5 <= h - l THEN BitOf(i, l+5) ELSE 0
      /\ BitOf(S, 0+6) = IF 6 <= h - l THEN BitOf(i, l+6) ELSE 0
      /\ BitOf(S, 0+7) = 0 /\ BitOf(S, 0+8) = 0 /\ BitOf(S, 0+9) = 0
      /\ BitOf(S, 0+10) = 0 /\ BitOf(S, 0+11) = 0
  BY <1>4
<1>7. A!Field(i, h, l) = Digits(S, 0)
  BY <1>3 DEF A!Field, S
<1> QED
  BY <1>5, <1>6, <1>7 DEF FieldHas, Digits

\* The fields that the handlers look at.
LEMMA Fields ==
  ASSUME NEW i
  PROVE  /\ A!Rd(i) \in 0..31 /\ A!Rn(i) \in 0..31 /\ A!Ra(i) \in 0..31 /\ A!Rm(i) \in 0..31
         /\ A!Size(i) = BitOf(i, 30) + 2 * BitOf(i, 31)
         /\ A!Field(i, 11, 10) = BitOf(i, 10) + 2 * BitOf(i, 11)
         /\ A!Field(i, 23, 22) = BitOf(i, 22) + 2 * BitOf(i, 23)
         /\ A!Field(i, 30, 29) = BitOf(i, 29) + 2 * BitOf(i, 30)
         /\ A!Field(i, 22, 21) = BitOf(i, 21) + 2 * BitOf(i, 22)
         /\ A!Field(i, 25, 23) = BitOf(i, 23) + 2 * BitOf(i, 24) + 4 * BitOf(i, 25)
         /\ A!Field(i, 15, 13) = BitOf(i, 13) + 2 * BitOf(i, 14) + 4 * BitOf(i, 15)
         /\ A!Field(i, 12, 10) = BitOf(i, 10) + 2 * BitOf(i, 11) + 4 * BitOf(i, 12)
         /\ A!Field(i, 23, 21) = BitOf(i, 21) + 2 * BitOf(i, 22) + 4 * BitOf(i, 23)
         /\ \A b : BitOf(i, b) \in {0, 1} /\ (BitOf(i, b) = 1 <=> b \in i)
<1>0. \A b : BitOf(i, b) \in {0, 1} /\ (BitOf(i, b) = 1 <=> b \in i)
  BY DEF BitOf
<1>1. FieldHas(i, 4, 0) /\ FieldHas(i, 9, 5) /\ FieldHas(i, 14, 10) /\ FieldHas(i, 20, 16)
  BY FieldIs
<1>2. FieldHas(i, 31, 30) /\ FieldHas(i, 11, 10) /\ FieldHas(i, 23, 22) /\ FieldHas(i, 30, 29)
      /\ FieldHas(i, 22, 21)
  BY FieldIs
<1>3. FieldHas(i, 25, 23) /\ FieldHas(i, 15, 13) /\ FieldHas(i, 12, 10) /\ FieldHas(i, 23, 21)
  BY FieldIs
<1>4. A!Rd(i) \in 0..31 /\ A!Rn(i) \in 0..31 /\ A!Ra(i) \in 0..31 /\ A!Rm(i) \in 0..31
  BY <1>0, <1>1 DEF FieldHas, A!Rd, A!Rn, A!Ra, A!Rm
<1>5. \A b : BitOf(i, b) \in Int
  BY <1>0
<1> QED
  BY <1>0, <1>2, <1>3, <1>4, <1>5 DEF FieldHas, A!Size

(***************************************************************************)
(* What the handlers leave alone.                                          *)
(***************************************************************************)
\* A processor before an instruction.
IsProcessor(s) ==
  /\ IsCpu(s) /\ s.stores = <<>> /\ s.error = FALSE /\ s.pc \subseteq 0..63
  /\ \A r \in 0..31 : /\ s.x[r] \subseteq 0..63
                      /\ s.v[r] = <<s.v[r][1], s.v[r][2]>>
                      /\ s.v[r][1] \subseteq 0..63 /\ s.v[r][2] \subseteq 0..63

\* t is s but for its general registers.
Quiet(s, t) ==
  /\ IsCpu(t)
  /\ t.v = s.v /\ t.pc = s.pc /\ t.nzcv = s.nzcv /\ t.stores = s.stores
  /\ t.error = s.error /\ t.fill = s.fill

\* Writing registers leaves the rest alone.
LEMMA Registers ==
  ASSUME NEW s, IsCpu(s), NEW t, Quiet(s, t), NEW r, NEW w
  PROVE  Quiet(s, s) /\ Quiet(s, A!SetReg(t, r, w)) /\ Quiet(s, A!SetRegSP(t, r, w))
<1>1. IsCpu(t) /\ Quiet(s, s)
  BY DEF Quiet
<1>2. Becomes(t, A!SetReg(t, r, w), IF r = 31 THEN t.x ELSE [t.x EXCEPT ![r] = w],
              t.v, t.pc, t.nzcv, t.stores)
  BY <1>1, SetsReg
<1>3. Becomes(t, A!SetRegSP(t, r, w), [t.x EXCEPT ![r] = w], t.v, t.pc, t.nzcv, t.stores)
  BY <1>1, SetsRegSP
<1> QED
  BY <1>1, <1>2, <1>3 DEF Quiet, Becomes

\* t was refused, or has the vectors, the address, the flags and the stores.
Leaves(t, vs, address, nz, stores) ==
  t.error = TRUE \/ (t.v = vs /\ t.pc = address /\ t.nzcv = nz /\ t.stores = stores)

\* t was refused, or is s but for the general registers at the next address.
Goes(s, t) == Leaves(t, s.v, A!Plus(s.pc, {2}), s.nzcv, s.stores)

\* Going on after registers were written.
LEMMA GoesOn ==
  ASSUME NEW s, IsCpu(s), NEW t, Quiet(s, t)
  PROVE  Goes(s, A!Advance(t)) /\ Goes(s, A!Fault(t))
<1>1. IsCpu(t)
  BY DEF Quiet
<1>2. Becomes(t, A!Advance(t), t.x, t.v, A!Plus(t.pc, {2}), t.nzcv, t.stores)
  BY <1>1, Advances
<1>3. A!Fault(t).error = TRUE
  BY <1>1, Faults
<1> QED
  BY <1>2, <1>3 DEF Goes, Leaves, Becomes, Quiet

\* The function that executes an instruction.
Dispatched(s, i) ==
  /\ A!Handler(i) = "PCRel" => A!Executed(s, i) = A!PCRel(s, i)
  /\ A!Handler(i) = "AddSubImm" => A!Executed(s, i) = A!AddSubImm(s, i)
  /\ A!Handler(i) = "LogImm" => A!Executed(s, i) = A!LogImm(s, i)
  /\ A!Handler(i) = "MoveWide" => A!Executed(s, i) = A!MoveWide(s, i)
  /\ A!Handler(i) = "Bitfield" => A!Executed(s, i) = A!Bitfield(s, i)
  /\ A!Handler(i) = "Extract" => A!Executed(s, i) = A!Extract(s, i)
  /\ A!Handler(i) = "LogShiftReg" => A!Executed(s, i) = A!LogShiftReg(s, i)
  /\ A!Handler(i) = "AddSubShiftReg" => A!Executed(s, i) = A!AddSubShiftReg(s, i)
  /\ A!Handler(i) = "AddSubExtReg" => A!Executed(s, i) = A!AddSubExtReg(s, i)
  /\ A!Handler(i) = "CondCompare" => A!Executed(s, i) = A!CondCompare(s, i)
  /\ A!Handler(i) = "CondSelect" => A!Executed(s, i) = A!CondSelect(s, i)
  /\ A!Handler(i) = "DP1Src" => A!Executed(s, i) = A!DP1Src(s, i)
  /\ A!Handler(i) = "DP2Src" => A!Executed(s, i) = A!DP2Src(s, i)
  /\ A!Handler(i) = "DP3Src" => A!Executed(s, i) = A!DP3Src(s, i)
  /\ A!Handler(i) = "LdStPair" => A!Executed(s, i) = A!LdStPair(s, i)
  /\ A!Handler(i) = "LdStPairSIMD" => A!Executed(s, i) = A!LdStPairSIMD(s, i)
  /\ A!Handler(i) = "LdStUnsigned" => A!Executed(s, i) = A!LdStUnsigned(s, i)
  /\ A!Handler(i) = "LdStSIMDUnsigned" => A!Executed(s, i) = A!LdStSIMDUnsigned(s, i)
  /\ A!Handler(i) = "LdStImm9" => A!Executed(s, i) = A!LdStImm9(s, i)
  /\ A!Handler(i) = "LdStSIMDImm9" => A!Executed(s, i) = A!LdStSIMDImm9(s, i)
  /\ A!Handler(i) = "LdStRegOff" => A!Executed(s, i) = A!LdStRegOff(s, i)
  /\ A!Handler(i) = "LdrLiteral" => A!Executed(s, i) = A!LdrLiteral(s, i)
  /\ A!Handler(i) = "LdrSIMDLiteral" => A!Executed(s, i) = A!LdrSIMDLiteral(s, i)
  /\ A!Handler(i) = "BUncond" => A!Executed(s, i) = A!BUncond(s, i)
  /\ A!Handler(i) = "BCond" => A!Executed(s, i) = A!BCond(s, i)
  /\ A!Handler(i) = "CBx" => A!Executed(s, i) = A!CBx(s, i)
  /\ A!Handler(i) = "BranchReg" => A!Executed(s, i) = A!BranchReg(s, i)
  /\ A!Handler(i) = "TBx" => A!Executed(s, i) = A!TBx(s, i)
  /\ A!Handler(i) = "FmovDX" => A!Executed(s, i) = A!FmovDX(s, i)
  /\ A!Handler(i) = "FmovXD" => A!Executed(s, i) = A!FmovXD(s, i)
  /\ A!Handler(i) = "FmovTopX" => A!Executed(s, i) = A!FmovTopX(s, i)
  /\ A!Handler(i) = "FmovXTop" => A!Executed(s, i) = A!FmovXTop(s, i)
  /\ A!Handler(i) = "FmovSW" => A!Executed(s, i) = A!FmovSW(s, i)
  /\ A!Handler(i) = "FmovWS" => A!Executed(s, i) = A!FmovWS(s, i)
  /\ A!Handler(i) = "FmovImm" => A!Executed(s, i) = A!FmovImm(s, i)
  /\ A!Handler(i) = "DUP" => A!Executed(s, i) = A!DUP(s, i)
  /\ A!Handler(i) = "UMOV" => A!Executed(s, i) = A!UMOV(s, i)
  /\ A!Handler(i) = "INS" => A!Executed(s, i) = A!INS(s, i)
  /\ A!Handler(i) = "SHL" => A!Executed(s, i) = A!SHL(s, i)
  /\ A!Handler(i) = "MOVI" => A!Executed(s, i) = A!MOVI(s, i)
  /\ A!Handler(i) = "XTN" => A!Executed(s, i) = A!XTN(s, i)
  /\ A!Handler(i) = "EXT" => A!Executed(s, i) = A!EXT(s, i)
  /\ A!Handler(i) = "REV64Vec" => A!Executed(s, i) = A!REV64Vec(s, i)
  /\ A!Handler(i) = "AdvSIMD3Same" => A!Executed(s, i) = A!AdvSIMD3Same(s, i)
  /\ A!Handler(i) = "unhandled" => A!Executed(s, i) = A!Fault(s)

\* The dispatch of the code comes to exactly one handler.
LEMMA Dispatches ==
  ASSUME NEW s, NEW i
  PROVE  Dispatched(s, i)
<1>1. A!Handler(i) = "PCRel" => A!Executed(s, i) = A!PCRel(s, i)
  BY Zenon DEF A!Executed
<1>2. A!Handler(i) = "AddSubImm" => A!Executed(s, i) = A!AddSubImm(s, i)
  BY Zenon DEF A!Executed
<1>3. A!Handler(i) = "LogImm" => A!Executed(s, i) = A!LogImm(s, i)
  BY Zenon DEF A!Executed
<1>4. A!Handler(i) = "MoveWide" => A!Executed(s, i) = A!MoveWide(s, i)
  BY Zenon DEF A!Executed
<1>5. A!Handler(i) = "Bitfield" => A!Executed(s, i) = A!Bitfield(s, i)
  BY Zenon DEF A!Executed
<1>6. A!Handler(i) = "Extract" => A!Executed(s, i) = A!Extract(s, i)
  BY Zenon DEF A!Executed
<1>7. A!Handler(i) = "LogShiftReg" => A!Executed(s, i) = A!LogShiftReg(s, i)
  BY Zenon DEF A!Executed
<1>8. A!Handler(i) = "AddSubShiftReg" => A!Executed(s, i) = A!AddSubShiftReg(s, i)
  BY Zenon DEF A!Executed
<1>9. A!Handler(i) = "AddSubExtReg" => A!Executed(s, i) = A!AddSubExtReg(s, i)
  BY Zenon DEF A!Executed
<1>10. A!Handler(i) = "CondCompare" => A!Executed(s, i) = A!CondCompare(s, i)
  BY Zenon DEF A!Executed
<1>11. A!Handler(i) = "CondSelect" => A!Executed(s, i) = A!CondSelect(s, i)
  BY Zenon DEF A!Executed
<1>12. A!Handler(i) = "DP1Src" => A!Executed(s, i) = A!DP1Src(s, i)
  BY Zenon DEF A!Executed
<1>13. A!Handler(i) = "DP2Src" => A!Executed(s, i) = A!DP2Src(s, i)
  BY Zenon DEF A!Executed
<1>14. A!Handler(i) = "DP3Src" => A!Executed(s, i) = A!DP3Src(s, i)
  BY Zenon DEF A!Executed
<1>15. A!Handler(i) = "LdStPair" => A!Executed(s, i) = A!LdStPair(s, i)
  BY Zenon DEF A!Executed
<1>16. A!Handler(i) = "LdStPairSIMD" => A!Executed(s, i) = A!LdStPairSIMD(s, i)
  BY Zenon DEF A!Executed
<1>17. A!Handler(i) = "LdStUnsigned" => A!Executed(s, i) = A!LdStUnsigned(s, i)
  BY Zenon DEF A!Executed
<1>18. A!Handler(i) = "LdStSIMDUnsigned" => A!Executed(s, i) = A!LdStSIMDUnsigned(s, i)
  BY Zenon DEF A!Executed
<1>19. A!Handler(i) = "LdStImm9" => A!Executed(s, i) = A!LdStImm9(s, i)
  BY Zenon DEF A!Executed
<1>20. A!Handler(i) = "LdStSIMDImm9" => A!Executed(s, i) = A!LdStSIMDImm9(s, i)
  BY Zenon DEF A!Executed
<1>21. A!Handler(i) = "LdStRegOff" => A!Executed(s, i) = A!LdStRegOff(s, i)
  BY Zenon DEF A!Executed
<1>22. A!Handler(i) = "LdrLiteral" => A!Executed(s, i) = A!LdrLiteral(s, i)
  BY Zenon DEF A!Executed
<1>23. A!Handler(i) = "LdrSIMDLiteral" => A!Executed(s, i) = A!LdrSIMDLiteral(s, i)
  BY Zenon DEF A!Executed
<1>24. A!Handler(i) = "BUncond" => A!Executed(s, i) = A!BUncond(s, i)
  BY Zenon DEF A!Executed
<1>25. A!Handler(i) = "BCond" => A!Executed(s, i) = A!BCond(s, i)
  BY Zenon DEF A!Executed
<1>26. A!Handler(i) = "CBx" => A!Executed(s, i) = A!CBx(s, i)
  BY Zenon DEF A!Executed
<1>27. A!Handler(i) = "BranchReg" => A!Executed(s, i) = A!BranchReg(s, i)
  BY Zenon DEF A!Executed
<1>28. A!Handler(i) = "TBx" => A!Executed(s, i) = A!TBx(s, i)
  BY Zenon DEF A!Executed
<1>29. A!Handler(i) = "FmovDX" => A!Executed(s, i) = A!FmovDX(s, i)
  BY Zenon DEF A!Executed
<1>30. A!Handler(i) = "FmovXD" => A!Executed(s, i) = A!FmovXD(s, i)
  BY Zenon DEF A!Executed
<1>31. A!Handler(i) = "FmovTopX" => A!Executed(s, i) = A!FmovTopX(s, i)
  BY Zenon DEF A!Executed
<1>32. A!Handler(i) = "FmovXTop" => A!Executed(s, i) = A!FmovXTop(s, i)
  BY Zenon DEF A!Executed
<1>33. A!Handler(i) = "FmovSW" => A!Executed(s, i) = A!FmovSW(s, i)
  BY Zenon DEF A!Executed
<1>34. A!Handler(i) = "FmovWS" => A!Executed(s, i) = A!FmovWS(s, i)
  BY Zenon DEF A!Executed
<1>35. A!Handler(i) = "FmovImm" => A!Executed(s, i) = A!FmovImm(s, i)
  BY Zenon DEF A!Executed
<1>36. A!Handler(i) = "DUP" => A!Executed(s, i) = A!DUP(s, i)
  BY Zenon DEF A!Executed
<1>37. A!Handler(i) = "UMOV" => A!Executed(s, i) = A!UMOV(s, i)
  BY Zenon DEF A!Executed
<1>38. A!Handler(i) = "INS" => A!Executed(s, i) = A!INS(s, i)
  BY Zenon DEF A!Executed
<1>39. A!Handler(i) = "SHL" => A!Executed(s, i) = A!SHL(s, i)
  BY Zenon DEF A!Executed
<1>40. A!Handler(i) = "MOVI" => A!Executed(s, i) = A!MOVI(s, i)
  BY Zenon DEF A!Executed
<1>41. A!Handler(i) = "XTN" => A!Executed(s, i) = A!XTN(s, i)
  BY Zenon DEF A!Executed
<1>42. A!Handler(i) = "EXT" => A!Executed(s, i) = A!EXT(s, i)
  BY Zenon DEF A!Executed
<1>43. A!Handler(i) = "REV64Vec" => A!Executed(s, i) = A!REV64Vec(s, i)
  BY Zenon DEF A!Executed
<1>44. A!Handler(i) = "AdvSIMD3Same" => A!Executed(s, i) = A!AdvSIMD3Same(s, i)
  BY Zenon DEF A!Executed
<1>45. A!Handler(i) = "unhandled" => A!Executed(s, i) = A!Fault(s)
  BY Zenon DEF A!Executed
<1> QED
  BY <1>1, <1>2, <1>3, <1>4, <1>5, <1>6, <1>7, <1>8, <1>9, <1>10, <1>11, <1>12, <1>13, <1>14,
     <1>15, <1>16, <1>17, <1>18, <1>19, <1>20, <1>21, <1>22, <1>23, <1>24, <1>25, <1>26, <1>27,
     <1>28, <1>29, <1>30, <1>31, <1>32, <1>33, <1>34, <1>35, <1>36, <1>37, <1>38, <1>39, <1>40,
     <1>41, <1>42, <1>43, <1>44, <1>45 DEF Dispatched

\* The processors that differ from s in general registers.
LEMMA Writes ==
  ASSUME NEW s, IsCpu(s)
  PROVE  /\ Quiet(s, s) /\ Goes(s, A!Advance(s)) /\ Goes(s, A!Fault(s))
         /\ \A r, w : /\ Quiet(s, A!SetReg(s, r, w)) /\ Quiet(s, A!SetRegSP(s, r, w))
                      /\ Goes(s, A!Advance(A!SetReg(s, r, w)))
                      /\ Goes(s, A!Advance(A!SetRegSP(s, r, w)))
         /\ \A r, w, q, u : /\ Quiet(s, A!SetReg(A!SetRegSP(s, r, w), q, u))
                            /\ Goes(s, A!Advance(A!SetReg(A!SetRegSP(s, r, w), q, u)))
         /\ \A r, w, q, u, a, b : 
              Goes(s, A!Advance(A!SetReg(A!SetReg(A!SetRegSP(s, r, w), q, u), a, b)))
         /\ \A q, u, a, b : Goes(s, A!Advance(A!SetReg(A!SetReg(s, q, u), a, b)))
<1>1. Quiet(s, s)
  BY DEF Quiet
<1>2. ASSUME NEW t, Quiet(s, t), NEW r, NEW w
      PROVE  Quiet(s, A!SetReg(t, r, w)) /\ Quiet(s, A!SetRegSP(t, r, w))
  BY <1>2, Registers
<1>3. ASSUME NEW t, Quiet(s, t)
      PROVE  Goes(s, A!Advance(t)) /\ Goes(s, A!Fault(t))
  BY <1>3, GoesOn
<1> QED
  BY <1>1, <1>2, <1>3, ZenonT(30)

\* The handlers that leave a result in a register, or load one.
LEMMA Results ==
  ASSUME NEW s, IsCpu(s), NEW i
  PROVE
    /\ Goes(s, A!PCRel(s, i))
    /\ Goes(s, A!Bitfield(s, i))
    /\ Goes(s, A!Extract(s, i))
    /\ Goes(s, A!CondSelect(s, i))
    /\ Goes(s, A!DP2Src(s, i))
    /\ Goes(s, A!DP1Src(s, i))
    /\ Goes(s, A!DP3Src(s, i))
    /\ Goes(s, A!MoveWide(s, i))
    /\ Goes(s, A!FmovXD(s, i))
    /\ Goes(s, A!FmovXTop(s, i))
    /\ Goes(s, A!FmovWS(s, i))
    /\ Goes(s, A!UMOV(s, i))
    /\ Goes(s, A!LdrLiteral(s, i))
<1>1. \A w : Goes(s, A!Advance(A!SetReg(s, A!Rd(i), w)))
  BY Writes
<1>2. Goes(s, A!Fault(s)) /\ Goes(s, A!Advance(s))
  BY Writes
<1>3. /\ A!Field(i, 30, 29) = 0 \/ A!Field(i, 30, 29) = 1 \/ A!Field(i, 30, 29) = 2 \/ A!Field(i, 30, 29) = 3
      /\ A!Size(i) = 0 \/ A!Size(i) = 1 \/ A!Size(i) = 2 \/ A!Size(i) = 3
  BY Fields
<1>4. Goes(s, A!PCRel(s, i))
  BY <1>1, <1>2, <1>3, Zenon DEF A!PCRel
<1>5. Goes(s, A!Bitfield(s, i))
  BY <1>1, <1>2, <1>3, Zenon DEF A!Bitfield
<1>6. Goes(s, A!Extract(s, i))
  BY <1>1, <1>2, <1>3, Zenon DEF A!Extract
<1>7. Goes(s, A!CondSelect(s, i))
  BY <1>1, <1>2, <1>3, Zenon DEF A!CondSelect
<1>8. Goes(s, A!DP2Src(s, i))
  BY <1>1, <1>2, <1>3, Zenon DEF A!DP2Src
<1>9. Goes(s, A!DP1Src(s, i))
  BY <1>1, <1>2, <1>3, Zenon DEF A!DP1Src
<1>10. Goes(s, A!DP3Src(s, i))
  BY <1>1, <1>2, <1>3, Zenon DEF A!DP3Src
<1>11. Goes(s, A!MoveWide(s, i))
  BY <1>1, <1>2, <1>3, Zenon DEF A!MoveWide
<1>12. Goes(s, A!FmovXD(s, i))
  BY <1>1, <1>2, <1>3, Zenon DEF A!FmovXD
<1>13. Goes(s, A!FmovXTop(s, i))
  BY <1>1, <1>2, <1>3, Zenon DEF A!FmovXTop
<1>14. Goes(s, A!FmovWS(s, i))
  BY <1>1, <1>2, <1>3, Zenon DEF A!FmovWS
<1>15. Goes(s, A!UMOV(s, i))
  BY <1>1, <1>2, <1>3, Zenon DEF A!UMOV
<1>16. Goes(s, A!LdrLiteral(s, i))
  BY <1>1, <1>2, <1>3, Zenon DEF A!LdrLiteral
<1> QED
  BY <1>4, <1>5, <1>6, <1>7, <1>8, <1>9, <1>10, <1>11, <1>12, <1>13, <1>14, <1>15, <1>16

\* The size of an element in bits is 8 times a power of 2, given by the lowest
\* bit that is set, and its position is a multiple of it.
ElementHas(i, k, e) ==
  /\ A!Element(i) = e /\ A!LaneSize(i) = e
  /\ k + 16 \in i /\ \A b \in 0..3 : b < k => b + 16 \notin i

\* The lowest bit of four.
LEMMA LeastOf ==
  ASSUME NEW S \in SUBSET (0..3), NEW k \in S, \A b \in 0..3 : b < k => b \notin S
  PROVE  A!Min(S) = k
<1>1. \A x \in S : x \in 0..3
  OBVIOUS
<1>2. \A y \in S : k <= y
  BY <1>1
<1>3. \A x \in S : (\A y \in S : x <= y) => x = k
  BY <1>1, <1>2
<1> QED
  BY <1>2, <1>3 DEF A!Min

\* The element of DUP, UMOV and INS by its lowest bit.
LEMMA ElementIs ==
  ASSUME NEW i
  PROVE  /\ \/ ElementHas(i, 0, 8) \/ ElementHas(i, 1, 16) \/ ElementHas(i, 2, 32) \/ ElementHas(i, 3, 64)
            \/ A!Element(i) = 0 /\ \A b \in 16..19 : b \notin i
         /\ A!Element(i) \in Nat
         /\ A!Element(i) # 0 => A!ElementAt(i) \in Nat
<1> DEFINE S == A!Slice(i, 20, 16) \cap A!Low(4)
           L == {b \in 0..3 : b + 16 \in i}
<1>1. S = L
  <2>1. SliceHas(i, 20, 16)
    BY SliceIs
  <2>2. A!Slice(i, 20, 16) = {b \in 0..4 : b + 16 \in i}
    BY <2>1 DEF SliceHas
  <2>3. A!Low(4) = 0..3
    BY DEF A!Low
  <2> QED
    BY <2>2, <2>3
<1>2. L \in SUBSET (0..3) /\ \A b \in 0..3 : b \in L <=> b + 16 \in i
  OBVIOUS
<1>3. A!Element(i) = IF L = {} THEN 0 ELSE 8 * 2^A!Min(L)
  BY <1>1 DEF A!Element
<1>4. A!LaneSize(i) = 8 * 2^A!Min(L)
  BY DEF A!LaneSize
<1> HIDE DEF S, L
<1>5. 2^0 = 1 /\ 2^1 = 2 /\ 2^2 = 4 /\ 2^3 = 8
  OBVIOUS
<1>6. CASE 16 \in i
  <2>1. 0 \in L /\ \A b \in 0..3 : b < 0 => b \notin L
    BY <1>2, <1>6
  <2>2. A!Min(L) = 0
    BY <1>2, <2>1, LeastOf
  <2> QED
    BY <1>3, <1>4, <1>5, <1>6, <2>1, <2>2, FieldIs DEF ElementHas, A!ElementAt, FieldHas, BitOf
<1>7. CASE 16 \notin i /\ 17 \in i
  <2>1. 1 \in L /\ \A b \in 0..3 : b < 1 => b \notin L
    BY <1>2, <1>7
  <2>2. A!Min(L) = 1
    BY <1>2, <2>1, LeastOf
  <2> QED
    BY <1>3, <1>4, <1>5, <1>7, <1>2, <2>1, <2>2, FieldIs DEF ElementHas, A!ElementAt, FieldHas,
       BitOf
<1>8. CASE 16 \notin i /\ 17 \notin i /\ 18 \in i
  <2>1. 2 \in L /\ \A b \in 0..3 : b < 2 => b \notin L
    BY <1>2, <1>8
  <2>2. A!Min(L) = 2
    BY <1>2, <2>1, LeastOf
  <2> QED
    BY <1>3, <1>4, <1>5, <1>8, <1>2, <2>1, <2>2, FieldIs DEF ElementHas, A!ElementAt, FieldHas,
       BitOf
<1>9. CASE 16 \notin i /\ 17 \notin i /\ 18 \notin i /\ 19 \in i
  <2>1. 3 \in L /\ \A b \in 0..3 : b < 3 => b \notin L
    BY <1>2, <1>9
  <2>2. A!Min(L) = 3
    BY <1>2, <2>1, LeastOf
  <2> QED
    BY <1>3, <1>4, <1>5, <1>9, <1>2, <2>1, <2>2, FieldIs DEF ElementHas, A!ElementAt, FieldHas,
       BitOf
<1>10. CASE \A b \in 16..19 : b \notin i
  <2>1. L = {}
    BY <1>2, <1>10
  <2> QED
    BY <1>3, <1>10, <2>1
<1> QED
  BY <1>6, <1>7, <1>8, <1>9, <1>10

\* t is at the address and has the flags of s.
Stays(s, t) == IsCpu(t) /\ t.pc = s.pc /\ t.nzcv = s.nzcv /\ t.error = s.error

\* t was refused, or is at the next address and has the flags of s.
Moves(s, t) == t.error = TRUE \/ (t.pc = A!Plus(s.pc, {2}) /\ t.nzcv = s.nzcv)

\* What is written leaves the address and the flags alone.
LEMMA Staying ==
  ASSUME NEW s, IsCpu(s), NEW t, Stays(s, t)
  PROVE  /\ Stays(s, s)
         /\ \A r, w : Stays(s, A!SetReg(t, r, w)) /\ Stays(s, A!SetRegSP(t, r, w))
         /\ \A r, lo, hi : Stays(s, A!SetVector(t, r, lo, hi))
         /\ \A a, bytes, w : Stays(s, A!Store(t, a, bytes, w))
         /\ Moves(s, A!Advance(t)) /\ Moves(s, A!Fault(t))
<1>1. IsCpu(t) /\ Stays(s, s)
  BY DEF Stays
<1>2. ASSUME NEW r, NEW w
      PROVE  Stays(s, A!SetReg(t, r, w)) /\ Stays(s, A!SetRegSP(t, r, w))
  <2>1. Becomes(t, A!SetReg(t, r, w), IF r = 31 THEN t.x ELSE [t.x EXCEPT ![r] = w],
                t.v, t.pc, t.nzcv, t.stores)
    BY <1>1, SetsReg
  <2>2. Becomes(t, A!SetRegSP(t, r, w), [t.x EXCEPT ![r] = w], t.v, t.pc, t.nzcv, t.stores)
    BY <1>1, SetsRegSP
  <2> QED
    BY <2>1, <2>2 DEF Stays, Becomes
<1>3. ASSUME NEW r, NEW lo, NEW hi
      PROVE  Stays(s, A!SetVector(t, r, lo, hi))
  <2>1. Becomes(t, A!SetVector(t, r, lo, hi), t.x, [t.v EXCEPT ![r] = <<lo, hi>>],
                t.pc, t.nzcv, t.stores)
    BY <1>1, SetsVector
  <2> QED
    BY <2>1 DEF Stays, Becomes
<1>4. ASSUME NEW a, NEW bytes, NEW w
      PROVE  Stays(s, A!Store(t, a, bytes, w))
  <2>1. Becomes(t, A!Store(t, a, bytes, w), t.x, t.v, t.pc, t.nzcv,
                Append(t.stores, <<a, bytes, A!Lower(w, 8 * bytes)>>))
    BY <1>1, Stores
  <2> QED
    BY <2>1 DEF Stays, Becomes
<1>5. Becomes(t, A!Advance(t), t.x, t.v, A!Plus(t.pc, {2}), t.nzcv, t.stores)
  BY <1>1, Advances
<1>6. A!Fault(t).error = TRUE
  BY <1>1, Faults
<1>7. Moves(s, A!Advance(t)) /\ Moves(s, A!Fault(t))
  BY <1>5, <1>6 DEF Moves, Stays, Becomes
<1> QED
  BY <1>1, <1>2, <1>3, <1>4, <1>7

\* The handlers of vectors, loads and stores.
LEMMA Accessing ==
  ASSUME NEW s, IsCpu(s), NEW i
  PROVE
    /\ Moves(s, A!FmovDX(s, i))
    /\ Moves(s, A!FmovTopX(s, i))
    /\ Moves(s, A!FmovSW(s, i))
    /\ Moves(s, A!FmovImm(s, i))
    /\ Moves(s, A!DUP(s, i))
    /\ Moves(s, A!INS(s, i))
    /\ Moves(s, A!SHL(s, i))
    /\ Moves(s, A!MOVI(s, i))
    /\ Moves(s, A!XTN(s, i))
    /\ Moves(s, A!EXT(s, i))
    /\ Moves(s, A!REV64Vec(s, i))
    /\ Moves(s, A!AdvSIMD3Same(s, i))
    /\ Moves(s, A!LdStUnsigned(s, i))
    /\ Moves(s, A!LdStImm9(s, i))
    /\ Moves(s, A!LdStRegOff(s, i))
    /\ Moves(s, A!LdStPair(s, i))
    /\ Moves(s, A!LdStSIMDUnsigned(s, i))
    /\ Moves(s, A!LdStSIMDImm9(s, i))
    /\ Moves(s, A!LdStPairSIMD(s, i))
    /\ Moves(s, A!LdrSIMDLiteral(s, i))
<1>1. Stays(s, s) /\ Moves(s, A!Fault(s)) /\ Moves(s, A!Advance(s))
  BY Staying DEF Stays
<1>2. \A r, lo, hi : Moves(s, A!Advance(A!SetVector(s, r, lo, hi)))
  BY <1>1, Staying
<1>0. \A lo, hi : Moves(s, A!Advance(A!SetVectorQ(s, i, lo, hi)))
  BY <1>2 DEF A!SetVectorQ
<1>3. /\ A!Size(i) = 0 \/ A!Size(i) = 1 \/ A!Size(i) = 2 \/ A!Size(i) = 3
      /\ A!Field(i, 23, 22) = 0 \/ A!Field(i, 23, 22) = 1 \/ A!Field(i, 23, 22) = 2 \/ A!Field(i, 23, 22) = 3
  BY Fields
<1>4. ASSUME NEW t, Stays(s, t), NEW a
      PROVE  Moves(s, A!DoLoadStore(t, i, a))
  <2>1. /\ \A r, w : Moves(s, A!Advance(A!SetReg(t, r, w)))
        /\ \A b, w : Moves(s, A!Advance(A!Store(t, a, b, w)))
        /\ Moves(s, A!Advance(t))
    BY <1>4, Staying
  <2> QED
    BY <1>3, <2>1, Zenon DEF A!DoLoadStore
<1>5. ASSUME NEW t, Stays(s, t), NEW a, NEW r, NEW bytes
      PROVE  Stays(s, A!DoSIMDLoad(t, a, r, bytes)) /\ Stays(s, A!DoSIMDStore(t, a, r, bytes))
  <2>1. /\ \A q, lo, hi : Stays(s, A!SetVector(t, q, lo, hi))
        /\ \A q, d, w : Stays(s, A!Store(t, q, d, w))
    BY <1>5, Staying
  <2>2. \A q, d, w, b, e, u : Stays(s, A!Store(A!Store(t, q, d, w), b, e, u))
    BY <2>1, Staying
  <2> QED
    BY <2>1, <2>2, Zenon DEF A!DoSIMDLoad, A!DoSIMDStore
<1>6. ASSUME NEW t, Stays(s, t), NEW a
      PROVE  Moves(s, A!LdStSIMD(t, i, a))
  BY <1>5, <1>6, Staying DEF A!LdStSIMD
<1>7. Stays(s, A!Imm9Written(s, i)) /\ \A scale : Stays(s, A!PairWritten(s, i, scale))
  BY <1>1, Staying DEF A!Imm9Written, A!PairWritten
<1>8. Moves(s, A!LdStPair(s, i))
  <2> DEFINE w == A!PairWritten(s, i, IF A!Size(i) = 2 THEN 3 ELSE 2)
  <2>1. Stays(s, w)
    BY <1>7
  <2> HIDE DEF w
  <2>2. \A r, q : Stays(s, A!SetReg(w, r, q))
    BY <2>1, Staying
  <2>3. \A r, q, d, u : Moves(s, A!Advance(A!SetReg(A!SetReg(w, r, q), d, u)))
    BY <2>2, Staying
  <2>4. \A b, d, q : Stays(s, A!Store(w, b, d, q))
    BY <2>1, Staying
  <2>5. \A b, d, q, e, f, g : Moves(s, A!Advance(A!Store(A!Store(w, b, d, q), e, f, g)))
    BY <2>4, Staying
  <2>6. Moves(s, A!Advance(w))
    BY <2>1, Staying
  <2> QED
    BY <1>1, <2>3, <2>5, <2>6, Zenon DEF A!LdStPair, w
<1>9. Moves(s, A!LdStPairSIMD(s, i))
  <2> DEFINE w == A!PairWritten(s, i, A!Size(i) + 2)
  <2>1. Stays(s, w)
    BY <1>7
  <2> HIDE DEF w
  <2>2. \A a, r, bytes, b, q : Moves(s, A!Advance(A!DoSIMDLoad(A!DoSIMDLoad(w, a, r, bytes), b, q, bytes)))
    BY <1>5, <2>1, Staying
  <2>3. \A a, r, bytes, b, q : Moves(s, A!Advance(A!DoSIMDStore(A!DoSIMDStore(w, a, r, bytes), b, q, bytes)))
    BY <1>5, <2>1, Staying
  <2> QED
    BY <1>1, <2>2, <2>3, Zenon DEF A!LdStPairSIMD, w
<1>10. \A a, r, bytes : Moves(s, A!Advance(A!DoSIMDLoad(s, a, r, bytes)))
  BY <1>1, <1>5, Staying
<1>11. Moves(s, A!FmovDX(s, i))
  BY <1>1, <1>2, Zenon DEF A!FmovDX
<1>12. Moves(s, A!FmovTopX(s, i))
  BY <1>1, <1>2, Zenon DEF A!FmovTopX
<1>13. Moves(s, A!FmovSW(s, i))
  BY <1>1, <1>2, Zenon DEF A!FmovSW
<1>14. Moves(s, A!FmovImm(s, i))
  BY <1>1, <1>2, Zenon DEF A!FmovImm
<1>15. Moves(s, A!DUP(s, i))
  BY <1>0, <1>1 DEF A!DUP
<1>16. Moves(s, A!INS(s, i))
  <2> DEFINE e == A!Element(i)
             at == A!ElementAt(i)
  <2> HIDE DEF e, at
  <2>1. e = 0 \/ (e > 0 /\ at < 64) \/ (e > 0 /\ at >= 64)
    BY ElementIs DEF e, at
  <2> QED
    BY <1>1, <1>2, <2>1, Zenon DEF A!INS, e, at
<1>17. Moves(s, A!SHL(s, i))
  BY <1>0, <1>1 DEF A!SHL
<1>18. Moves(s, A!MOVI(s, i))
  BY <1>0, <1>1 DEF A!MOVI
<1>19. Moves(s, A!XTN(s, i))
  BY <1>1, <1>2, Zenon DEF A!XTN
<1>20. Moves(s, A!EXT(s, i))
  BY <1>1, <1>2, Zenon DEF A!EXT
<1>21. Moves(s, A!REV64Vec(s, i))
  BY <1>0 DEF A!REV64Vec
<1>22. Moves(s, A!AdvSIMD3Same(s, i))
  BY <1>0, <1>1 DEF A!AdvSIMD3Same
<1>23. Moves(s, A!LdStUnsigned(s, i))
  BY <1>1, <1>4, Zenon DEF A!LdStUnsigned
<1>24. Moves(s, A!LdStImm9(s, i))
  BY <1>1, <1>4, <1>7, Zenon DEF A!LdStImm9
<1>25. Moves(s, A!LdStRegOff(s, i))
  BY <1>1, <1>4, Zenon DEF A!LdStRegOff
<1>26. Moves(s, A!LdStSIMDUnsigned(s, i))
  BY <1>1, <1>6, Zenon DEF A!LdStSIMDUnsigned
<1>27. Moves(s, A!LdStSIMDImm9(s, i))
  BY <1>1, <1>6, <1>7, Zenon DEF A!LdStSIMDImm9
<1>28. Moves(s, A!LdrSIMDLiteral(s, i))
  BY <1>10, Zenon DEF A!LdrSIMDLiteral
<1> QED
  BY <1>8, <1>9, <1>11, <1>12, <1>13, <1>14, <1>15, <1>16, <1>17, <1>18, <1>19, <1>20, <1>21,
     <1>22, <1>23, <1>24, <1>25, <1>26, <1>27, <1>28

(***************************************************************************)
(* Branches.                                                               *)
(***************************************************************************)
LowerHas(x, k) == A!Lower(x, k) = x \cap (0..k-1)

\* The low bits of a word.
LEMMA LowerIs ==
  ASSUME NEW x, NEW k \in Nat
  PROVE  LowerHas(x, k)
BY DEF A!Lower, A!Low, LowerHas

\* A signed field, shifted up.
SignedHas(i, h, l, k) ==
  A!Shl(A!SignExtend(A!Slice(i, h, l), h - l + 1), k) = A!SignedField(i, h, l, k)

\* Shifted sign extension, in the code and in the architecture.
LEMMA SignedIs ==
  ASSUME NEW i, NEW h \in 0..31, NEW l \in 0..h, NEW k \in 0..31
  PROVE  SignedHas(i, h, l, k) /\ A!SignedField(i, h, l, k) \in SUBSET (0..63)
<1> DEFINE S == A!Slice(i, h, l)
           D == {d - l : d \in i \cap (l..h)}
           E == A!ArmExtend(D, h - l + 1, TRUE, 64 - k)
<1>1. S = {b \in 0..h-l : b + l \in i}
  BY SliceIs DEF SliceHas
<1>2. S = D
  <2>1. \A b \in S : b + l \in i \cap (l..h) /\ (b + l) - l = b
    BY <1>1
  <2>2. \A d \in i \cap (l..h) : d - l \in 0..h-l /\ (d - l) + l = d
    OBVIOUS
  <2> QED
    BY <1>1, <2>1, <2>2
<1>3. \A b \in Int : b \in S => b \in 0..h-l
  BY <1>1
<1>4. S \subseteq 0..h-l
  BY <1>1
<1> HIDE DEF S, D
<1> DEFINE X == A!SignExtend(S, h - l + 1)
           m == h - l + 1
<1>5. \A b \in 0..63 : b \in X <=> (b \in S \/ (b >= m /\ m - 1 \in S))
  BY DEF A!SignExtend, A!Positions
<1>6. X \subseteq 0..63
  BY DEF A!SignExtend, A!Positions
<1>7. \A b \in 0..63-k : b \in E <=> IF b < m THEN b \in S ELSE m - 1 \in S
  BY <1>2 DEF A!ArmExtend
<1>8. E \subseteq 0..63-k
  <2>1. (64 - k) - 1 = 63 - k
    OBVIOUS
  <2> QED
    BY <2>1 DEF A!ArmExtend
<1>13. m \in Int /\ \A b \in Int : b \in S => b < m
  BY <1>3
<1>14. A!SignedField(i, h, l, k) = {b + k : b \in E}
  BY DEF A!SignedField, D
<1> HIDE DEF X, E, m
<1>9. \A b \in 0..63-k : b \in X <=> b \in E
  BY <1>5, <1>7, <1>13
<1>11. A!Shl(X, k) = {b + k : b \in E}
  <2>1. \A b \in 0..63 : b \in A!Shl(X, k) <=> b - k \in X
    BY DEF A!Shl, A!Positions
  <2>2. A!Shl(X, k) \subseteq 0..63
    BY DEF A!Shl, A!Positions
  <2>3. \A b \in A!Shl(X, k) : b - k \in 0..63-k /\ b - k \in E /\ (b - k) + k = b
    <3>1. ASSUME NEW b \in A!Shl(X, k)
          PROVE  b - k \in 0..63-k /\ b - k \in E /\ (b - k) + k = b
      <4>1. b \in 0..63 /\ b - k \in X
        BY <2>1, <2>2, <3>1
      <4>2. b - k \in 0..63
        BY <1>6, <4>1
      <4>3. b - k \in 0..63-k /\ (b - k) + k = b
        BY <4>1, <4>2
      <4> QED
        BY <1>9, <4>1, <4>3
    <3> QED
      BY <3>1
  <2>4. \A b \in E : b + k \in 0..63 /\ (b + k) - k = b /\ b \in X
    BY <1>8, <1>9
  <2> QED
    BY <2>1, <2>2, <2>3, <2>4
<1>12. {b + k : b \in E} \in SUBSET (0..63)
  BY <1>8
<1> QED
  BY <1>11, <1>12, <1>14 DEF SignedHas, X, S

\* What a jump and a link leave.
JumpsTo(s, t, target) == t.pc = target /\ t.nzcv = s.nzcv /\ t.v = s.v /\ t.stores = s.stores

\* Jumps, with a link or without, leave the vectors and the stores alone.
LEMMA Jumping ==
  ASSUME NEW s, IsCpu(s), NEW target
  PROVE  JumpsTo(s, A!Jump(s, target), target) /\ JumpsTo(s, A!Jump(A!Link(s), target), target)
         /\ JumpsTo(s, A!Advance(s), A!Plus(s.pc, {2}))
<1>1. ASSUME NEW t, Quiet(s, t)
      PROVE  JumpsTo(s, A!Jump(t, target), target)
  <2>1. IsCpu(t)
    BY <1>1 DEF Quiet
  <2>2. Becomes(t, A!Jump(t, target), t.x, t.v, target, t.nzcv, t.stores)
    BY <2>1, Jumps
  <2> QED
    BY <1>1, <2>2 DEF Becomes, Quiet, JumpsTo
<1>2. Quiet(s, s) /\ Quiet(s, A!Link(s))
  BY Writes DEF A!Link
<1>3. Becomes(s, A!Advance(s), s.x, s.v, A!Plus(s.pc, {2}), s.nzcv, s.stores)
  BY Advances
<1> QED
  BY <1>1, <1>2, <1>3 DEF Becomes, JumpsTo

\* The sum of words that the code and the architecture write differently.
TargetIs(s, i, h, l) == A!Target(s, i, h, l) = A!ArmSum(s.pc, A!SignedField(i, h, l, 2), 0, 64)

\* The targets of branches in the code and in the architecture.
LEMMA Targets ==
  ASSUME NEW s, s.pc \subseteq 0..63, NEW i, NEW h \in 0..31, NEW l \in 0..h
  PROVE  TargetIs(s, i, h, l)
<1> DEFINE F == A!SignedField(i, h, l, 2)
<1>1. SignedHas(i, h, l, 2) /\ F \in SUBSET (0..63)
  <2>1. 2 \in 0..31
    OBVIOUS
  <2> QED
    BY <2>1, SignedIs, Zenon
<1>2. s.pc \in SUBSET Nat /\ F \in SUBSET Nat
  BY <1>1
<1>3. A!Plus(s.pc, F) = A!ArmSum(s.pc, F, 0, 64)
  BY <1>2, PlusIs
<1> QED
  BY <1>1, <1>3 DEF TargetIs, SignedHas, A!Target

\* The address after an instruction, in the code and in the architecture.
LEMMA NextIs ==
  ASSUME NEW s, s.pc \subseteq 0..63
  PROVE  A!Plus(s.pc, {2}) = A!ArmSum(s.pc, {2}, 0, 64)
<1>1. s.pc \in SUBSET Nat /\ {2} \in SUBSET Nat
  OBVIOUS
<1> QED
  BY <1>1, PlusIs

BranchHandlers == {"BUncond", "BCond", "CBx", "BranchReg", "TBx"}

\* Where a branch goes.
BranchesTo(s, i, t) == t.error = TRUE \/ JumpsTo(s, t, A!ArmPC(s, i))

\* The bit that TBZ and TBNZ test.
LEMMA TestedBit ==
  ASSUME NEW i
  PROVE  A!Number({b - 19 : b \in i \cap (19..23)} \cup {b - 26 : b \in i \cap {31}})
           = 32 * A!Field(i, 31, 31) + A!Field(i, 23, 19)
<1> DEFINE S == {b - 19 : b \in i \cap (19..23)} \cup {b - 26 : b \in i \cap {31}}
<1>1. S \in SUBSET (0..11)
  OBVIOUS
<1>2. \A b \in 0..11 : b \in S <=> (b <= 4 /\ b + 19 \in i) \/ (b = 5 /\ 31 \in i)
  <2>1. \A b \in 0..4 : b + 19 \in 19..23 /\ (b + 19) - 19 = b
    OBVIOUS
  <2>2. \A b \in 19..23 : b - 19 \in 0..4 /\ (b - 19) + 19 = b
    OBVIOUS
  <2>3. 31 - 26 = 5
    OBVIOUS
  <2> QED
    BY <2>1, <2>2, <2>3
<1> HIDE DEF S
<1>3. A!Number(S) = Digits(S, 0)
  BY <1>1, NumberIs
<1>4. FieldHas(i, 31, 31) /\ FieldHas(i, 23, 19)
  BY FieldIs
<1>5. /\ BitOf(S, 0) = BitOf(i, 19) /\ BitOf(S, 0+1) = BitOf(i, 20) /\ BitOf(S, 0+2) = BitOf(i, 21)
      /\ BitOf(S, 0+3) = BitOf(i, 22) /\ BitOf(S, 0+4) = BitOf(i, 23) /\ BitOf(S, 0+5) = BitOf(i, 31)
      /\ BitOf(S, 0+6) = 0 /\ BitOf(S, 0+7) = 0 /\ BitOf(S, 0+8) = 0 /\ BitOf(S, 0+9) = 0
      /\ BitOf(S, 0+10) = 0 /\ BitOf(S, 0+11) = 0
  BY <1>2 DEF BitOf
<1>6. \A b : BitOf(i, b) \in Int
  BY DEF BitOf
<1> QED
  BY <1>3, <1>4, <1>5, <1>6 DEF S, FieldHas, Digits

\* The branches of the code are those of the architecture.
LEMMA Branching ==
  ASSUME NEW s, IsProcessor(s), NEW i
  PROVE  /\ handler = "BUncond" => BranchesTo(s, i, A!BUncond(s, i))
         /\ handler = "BCond" => BranchesTo(s, i, A!BCond(s, i))
         /\ handler = "CBx" => BranchesTo(s, i, A!CBx(s, i))
         /\ handler = "BranchReg" => BranchesTo(s, i, A!BranchReg(s, i))
         /\ handler = "TBx" => BranchesTo(s, i, A!TBx(s, i))
<1>1. IsCpu(s) /\ s.pc \subseteq 0..63
  BY Zenon DEF IsProcessor
<1>2. \A target : JumpsTo(s, A!Jump(s, target), target)
      /\ JumpsTo(s, A!Jump(A!Link(s), target), target)
  BY <1>1, Jumping
<1>3. JumpsTo(s, A!Advance(s), A!ArmSum(s.pc, {2}, 0, 64))
  BY <1>1, Jumping, NextIs
<1>4. TargetIs(s, i, 25, 0) /\ TargetIs(s, i, 23, 5) /\ TargetIs(s, i, 18, 5)
  BY <1>1, Targets
<1>5. ASSUME handler = "BUncond" PROVE BranchesTo(s, i, A!BUncond(s, i))
  <2>1. A!ArmPC(s, i) = A!Target(s, i, 25, 0)
    BY <1>4, <1>5, Zenon DEF A!ArmPC, A!Branches, TargetIs
  <2> QED
    BY <1>2, <2>1 DEF A!BUncond, BranchesTo
<1>6. ASSUME handler = "BCond" PROVE BranchesTo(s, i, A!BCond(s, i))
  <2>1. A!ArmPC(s, i) = IF A!CondHolds(s, A!Field(i, 3, 0)) THEN A!Target(s, i, 23, 5)
                        ELSE A!ArmSum(s.pc, {2}, 0, 64)
    BY <1>4, <1>6, Zenon DEF A!ArmPC, A!Branches, TargetIs
  <2> QED
    BY <1>2, <1>3, <2>1 DEF A!BCond, BranchesTo
<1>7. ASSUME handler = "CBx" PROVE BranchesTo(s, i, A!CBx(s, i))
  <2>1. A!ArmPC(s, i) = IF (A!Operand(s, i, A!Rd(i)) # {}) = (24 \in i) THEN A!Target(s, i, 23, 5)
                        ELSE A!ArmSum(s.pc, {2}, 0, 64)
    BY <1>4, <1>7, Zenon DEF A!ArmPC, A!Branches, TargetIs
  <2>2. A!Bits(i) \in Nat /\ A!Bits(i) = A!N(i)
    BY DEF A!Bits, A!N
  <2>3. LowerHas(A!Reg(s, A!Rd(i)), A!Bits(i))
    BY <2>2, LowerIs
  <2>4. A!Operand(s, i, A!Rd(i)) = A!Lower(A!Reg(s, A!Rd(i)), A!Bits(i))
    BY <2>2, <2>3 DEF A!Operand, A!ArmReg, A!Reg, LowerHas
  <2> QED
    BY <1>2, <1>3, <2>1, <2>4 DEF A!CBx, BranchesTo
<1>8. ASSUME handler = "BranchReg" PROVE BranchesTo(s, i, A!BranchReg(s, i))
  <2>1. A!ArmPC(s, i) = A!Reg(s, A!Rn(i))
    BY <1>8, Zenon DEF A!ArmPC, A!Branches, A!ArmReg, A!Reg
  <2>2. A!Fault(s).error = TRUE
    BY <1>1, Faults
  <2> DEFINE opc == A!Field(i, 24, 21)
  <2>3. CASE opc \in {0, 2}
    <3>1. A!BranchReg(s, i) = A!Jump(s, A!Reg(s, A!Rn(i)))
      <4>1. opc # 1
        BY <2>3
      <4> QED
        BY <2>3, <4>1, Zenon DEF A!BranchReg
    <3> QED
      BY <1>2, <2>1, <3>1 DEF BranchesTo
  <2>4. CASE opc = 1
    <3>1. opc \notin {0, 2}
      BY <2>4
    <3>2. A!BranchReg(s, i) = A!Jump(A!Link(s), A!Reg(s, A!Rn(i)))
      BY <2>4, <3>1, Zenon DEF A!BranchReg
    <3> QED
      BY <1>2, <2>1, <3>2 DEF BranchesTo
  <2>5. CASE opc \notin {0, 2} /\ opc # 1
    <3>1. A!BranchReg(s, i) = A!Fault(s)
      BY <2>5, Zenon DEF A!BranchReg
    <3> QED
      BY <2>2, <3>1 DEF BranchesTo
  <2> QED
    BY <2>3, <2>4, <2>5
<1>9. ASSUME handler = "TBx" PROVE BranchesTo(s, i, A!TBx(s, i))
  <2> DEFINE bit == 32 * A!Field(i, 31, 31) + A!Field(i, 23, 19)
  <2>0. A!Number({b - 19 : b \in i \cap (19..23)} \cup {b - 26 : b \in i \cap {31}}) = bit
    BY TestedBit
  <2>1. A!ArmPC(s, i) = IF (bit \in A!ArmReg(s, A!Rd(i))) = (24 \in i) THEN A!Target(s, i, 18, 5)
                        ELSE A!ArmSum(s.pc, {2}, 0, 64)
    <3> HIDE DEF bit
    <3> QED
      BY <1>4, <1>9, <2>0, Zenon DEF A!ArmPC, A!Branches, TargetIs
  <2> QED
    BY <1>2, <1>3, <2>1 DEF A!TBx, BranchesTo, A!ArmReg, A!Reg
<1> QED
  BY <1>5, <1>6, <1>7, <1>8, <1>9

(***************************************************************************)
(* The machine: an instruction that was executed went to its handler.      *)
(***************************************************************************)
SimdHandlers ==
  {"FmovDX", "FmovXD", "FmovTopX", "FmovXTop", "FmovSW", "FmovWS", "DUP", "UMOV",
   "INS", "SHL", "MOVI", "XTN", "EXT", "REV64Vec", "AdvSIMD3Same", "FmovImm"}
Handlers == SimdHandlers \cup
  {"PCRel", "AddSubImm", "LogImm", "MoveWide", "Bitfield", "Extract", "LogShiftReg",
   "AddSubShiftReg", "AddSubExtReg", "CondCompare", "CondSelect", "DP1Src",
   "DP2Src", "DP3Src", "LdStPair", "LdStPairSIMD", "LdStUnsigned",
   "LdStSIMDUnsigned", "LdStImm9", "LdStSIMDImm9", "LdStRegOff", "LdrLiteral",
   "LdrSIMDLiteral", "BUncond", "BCond", "CBx", "BranchReg", "TBx"}

\* A set of numbers that is not empty has a least one.
LEMMA LeastExists ==
  ASSUME NEW S \in SUBSET Nat, S # {}
  PROVE  A!Min(S) \in S
<1> DEFINE R == OpToRel(<, Nat)
<1>1. IsWellFoundedOn(R, Nat)
  BY NatLessThanWellFounded, Zenon
<1> HIDE DEF R
<1>2. \E x \in S : \A y \in S : ~ (<<y, x>> \in R)
  BY <1>1, WFMin
<1>3. PICK x \in S : \A y \in S : ~ (<<y, x>> \in R)
  BY <1>2
<1>4. \A y \in S : ~ (y < x)
  BY <1>3 DEF R, OpToRel
<1>5. \A y \in S : x <= y
  BY <1>3, <1>4
<1> QED
  BY <1>3, <1>5 DEF A!Min

\* The table of vector instructions names the handlers.
LEMMA SimdHandlerIn ==
  ASSUME NEW i
  PROVE  A!SimdHandler(i) \in SimdHandlers \cup {"unhandled"}
<1> DEFINE T == A!SimdTests
           M == {k \in DOMAIN T : A!Matches(i, T[k][1], T[k][2])}
<1>1. DOMAIN T = 1..16
  BY DEF A!SimdTests
<1>2. \A k \in 1..16 : T[k][3] \in SimdHandlers
  <2>1. T[1][3] = "FmovDX"
    BY DEF A!SimdTests
  <2>2. T[2][3] = "FmovXD"
    BY DEF A!SimdTests
  <2>3. T[3][3] = "FmovTopX"
    BY DEF A!SimdTests
  <2>4. T[4][3] = "FmovXTop"
    BY DEF A!SimdTests
  <2>5. T[5][3] = "FmovSW"
    BY DEF A!SimdTests
  <2>6. T[6][3] = "FmovWS"
    BY DEF A!SimdTests
  <2>7. T[7][3] = "DUP"
    BY DEF A!SimdTests
  <2>8. T[8][3] = "UMOV"
    BY DEF A!SimdTests
  <2>9. T[9][3] = "INS"
    BY DEF A!SimdTests
  <2>10. T[10][3] = "SHL"
    BY DEF A!SimdTests
  <2>11. T[11][3] = "MOVI"
    BY DEF A!SimdTests
  <2>12. T[12][3] = "XTN"
    BY DEF A!SimdTests
  <2>13. T[13][3] = "EXT"
    BY DEF A!SimdTests
  <2>14. T[14][3] = "REV64Vec"
    BY DEF A!SimdTests
  <2>15. T[15][3] = "AdvSIMD3Same"
    BY DEF A!SimdTests
  <2>16. T[16][3] = "FmovImm"
    BY DEF A!SimdTests
  <2> HIDE DEF T
  <2>17. \A k \in 1..16 : k = 1 \/ k = 2 \/ k = 3 \/ k = 4 \/ k = 5 \/ k = 6 \/ k = 7 \/ k = 8
         \/ k = 9 \/ k = 10 \/ k = 11 \/ k = 12 \/ k = 13 \/ k = 14 \/ k = 15 \/ k = 16
    OBVIOUS
  <2> QED
    BY <2>1, <2>2, <2>3, <2>4, <2>5, <2>6, <2>7, <2>8, <2>9, <2>10, <2>11, <2>12, <2>13, <2>14,
       <2>15, <2>16, <2>17 DEF SimdHandlers
<1>3. CASE M = {}
  BY <1>3, Zenon DEF A!SimdHandler, A!FirstMatch
<1>4. CASE M # {}
  <2>1. M \in SUBSET Nat /\ M \subseteq 1..16
    BY <1>1
  <2>2. A!Min(M) \in M
    BY <1>4, <2>1, LeastExists
  <2>3. A!SimdHandler(i) = T[A!Min(M)][3]
    BY <1>4, Zenon DEF A!SimdHandler, A!FirstMatch
  <2> QED
    BY <1>2, <2>1, <2>2, <2>3
<1> QED
  BY <1>3, <1>4

\* The dispatch comes to a handler or refuses, and to a sum with an immediate
\* only by the field of its own.
LEMMA HandlerFrom ==
  ASSUME NEW i, NEW H, Handlers \ {"AddSubImm"} \subseteq H, "unhandled" \in H,
         A!Field(i, 25, 23) = 2 => "AddSubImm" \in H
  PROVE  A!Handler(i) \in H
<1>0. \A b : BitOf(i, b) \in {0, 1}
  BY Fields
<1>1. FieldHas(i, 28, 25) /\ FieldHas(i, 25, 23) /\ FieldHas(i, 23, 21) /\ FieldHas(i, 28, 24)
      /\ FieldHas(i, 29, 27)
  BY FieldIs
<1>2. BitOf(i, 25) \in 0..1 /\ BitOf(i, 26) \in 0..1 /\ BitOf(i, 27) \in 0..1
      /\ BitOf(i, 28) \in 0..1
      /\ BitOf(i, 23) \in 0..1 /\ BitOf(i, 24) \in 0..1 /\ BitOf(i, 21) \in 0..1 /\ BitOf(i, 22) \in 0..1
      /\ BitOf(i, 29) \in 0..1
  BY <1>0
<1>3. A!DPImmHandler(i) \in H
  <2>1. A!Field(i, 25, 23) = 0 \/ A!Field(i, 25, 23) = 1 \/ A!Field(i, 25, 23) = 2
        \/ A!Field(i, 25, 23) = 3 \/ A!Field(i, 25, 23) = 4 \/ A!Field(i, 25, 23) = 5
        \/ A!Field(i, 25, 23) = 6 \/ A!Field(i, 25, 23) = 7
    BY <1>1, <1>2 DEF FieldHas
  <2>2. "PCRel" \in H /\ (A!Field(i, 25, 23) = 2 => "AddSubImm" \in H) /\ "LogImm" \in H
        /\ "MoveWide" \in H /\ "Bitfield" \in H /\ "Extract" \in H /\ "unhandled" \in H
    BY DEF Handlers
  <2> QED
    BY <2>1, <2>2, Zenon DEF A!DPImmHandler
<1>4. A!BranchHandler(i) \in H
  <2>2. "BUncond" \in H /\ "CBx" \in H /\ "BCond" \in H /\ "BranchReg" \in H /\ "TBx" \in H
        /\ "unhandled" \in H
    BY DEF Handlers
  <2> QED
    BY <2>2, Zenon DEF A!BranchHandler
<1>5. A!DPRegHandler(i) \in H \/ ~(A!Field(i, 28, 25) \in {5, 13})
  <2>1. A!Field(i, 23, 21) = 0 \/ A!Field(i, 23, 21) = 1 \/ A!Field(i, 23, 21) = 2
        \/ A!Field(i, 23, 21) = 3 \/ A!Field(i, 23, 21) = 4 \/ A!Field(i, 23, 21) = 5
        \/ A!Field(i, 23, 21) = 6 \/ A!Field(i, 23, 21) = 7
    BY <1>1, <1>2 DEF FieldHas
  <2>2. "LogShiftReg" \in H /\ "AddSubExtReg" \in H /\ "AddSubShiftReg" \in H
        /\ "DP3Src" \in H /\ "CondCompare" \in H /\ "CondSelect" \in H /\ "DP1Src" \in H
        /\ "DP2Src" \in H /\ "unhandled" \in H
    BY DEF Handlers
  <2>3. A!Field(i, 28, 25) \in {5, 13} => A!Field(i, 28, 24) = 10 \/ A!Field(i, 28, 24) = 11
        \/ A!Field(i, 28, 24) = 26 \/ A!Field(i, 28, 24) = 27
    BY <1>1, <1>2 DEF FieldHas
  <2>4. A!DP11010Handler(i) \in H
    BY <2>1, <2>2, Zenon DEF A!DP11010Handler
  <2> QED
    BY <2>2, <2>3, <2>4, Zenon DEF A!DPRegHandler
<1>6. A!LoadStoreHandler(i) \in H \/ ~(A!Field(i, 28, 25) \in {4, 6, 12, 14})
  <2>1. A!Field(i, 28, 25) \in {4, 6, 12, 14} => A!Field(i, 29, 27) = 1
        \/ A!Field(i, 29, 27) = 3 \/ A!Field(i, 29, 27) = 5 \/ A!Field(i, 29, 27) = 7
    BY <1>1, <1>2 DEF FieldHas
  <2>2. "LdStPairSIMD" \in H /\ "LdStPair" \in H /\ "LdStSIMDUnsigned" \in H
        /\ "LdStUnsigned" \in H /\ "LdStSIMDImm9" \in H /\ "LdStRegOff" \in H
        /\ "LdStImm9" \in H /\ "LdrSIMDLiteral" \in H /\ "LdrLiteral" \in H
        /\ "unhandled" \in H
    BY DEF Handlers
  <2> QED
    BY <2>1, <2>2, Zenon DEF A!LoadStoreHandler
<1>7. A!SimdHandler(i) \in H
  <2>1. SimdHandlers \cup {"unhandled"} \subseteq H
    BY DEF Handlers, SimdHandlers
  <2> QED
    BY <2>1, SimdHandlerIn
<1>9. A!Field(i, 28, 25) = 0 \/ A!Field(i, 28, 25) = 1 \/ A!Field(i, 28, 25) = 2
      \/ A!Field(i, 28, 25) = 3 \/ A!Field(i, 28, 25) = 4 \/ A!Field(i, 28, 25) = 5
      \/ A!Field(i, 28, 25) = 6 \/ A!Field(i, 28, 25) = 7 \/ A!Field(i, 28, 25) = 8
      \/ A!Field(i, 28, 25) = 9 \/ A!Field(i, 28, 25) = 10 \/ A!Field(i, 28, 25) = 11
      \/ A!Field(i, 28, 25) = 12 \/ A!Field(i, 28, 25) = 13 \/ A!Field(i, 28, 25) = 14
      \/ A!Field(i, 28, 25) = 15
  BY <1>1, <1>2 DEF FieldHas
<1> QED
  BY <1>3, <1>4, <1>5, <1>6, <1>7, <1>9, Zenon DEF A!Handler

\* The dispatch comes to a handler or refuses.
LEMMA HandlerIn ==
  ASSUME NEW i
  PROVE  A!Handler(i) \in Handlers \cup {"unhandled"}
<1> DEFINE H == Handlers \cup {"unhandled"}
<1>1. Handlers \ {"AddSubImm"} \subseteq H /\ "unhandled" \in H /\ "AddSubImm" \in H
  BY DEF Handlers
<1> HIDE DEF H
<1>2. A!Handler(i) \in H
  BY <1>1, HandlerFrom
<1> QED
  BY <1>2 DEF H

\* Bit 23 is clear in a sum with an immediate.
LEMMA SumImmPlain ==
  ASSUME NEW i, A!Handler(i) = "AddSubImm"
  PROVE  A!Field(i, 25, 23) = 2 /\ 23 \notin i
<1> DEFINE H == (Handlers \ {"AddSubImm"}) \cup {"unhandled"}
<1>1. Handlers \ {"AddSubImm"} \subseteq H /\ "unhandled" \in H /\ "AddSubImm" \notin H
  OBVIOUS
<1> HIDE DEF H
<1>2. A!Field(i, 25, 23) = 2
  BY <1>1, HandlerFrom
<1> QED
  BY <1>2, Fields

\* The invariant of the machine.
MachineInv ==
  inst # NoInstruction =>
    /\ inst \in Guest \cup Others
    /\ handler = A!Handler(inst)
    /\ \E nz : \E fill \in GuestFills \cup OtherFills : from = Processor(fill, nz)
    /\ cpu = A!Executed(from, inst)

\* Processors with the contents that are assumed.
LEMMA Processors ==
  ASSUME NEW fill \in GuestFills \cup OtherFills, NEW nz
  PROVE  IsProcessor(Processor(fill, nz))
<1>1. IsCpu(Processor(fill, nz)) /\ Processor(fill, nz).stores = <<>>
      /\ Processor(fill, nz).error = FALSE
  BY ProcessorIs
<1>2. Processor(fill, nz).pc = Register(fill, 32) /\ 32 \in 0..32
  BY DEF Processor
<1>3. Register(fill, 32) \subseteq 0..63
  BY <1>2, ContentsAssumption
<1>4. ASSUME NEW r \in 0..31
      PROVE  LET s == Processor(fill, nz) IN
             /\ s.x[r] \subseteq 0..63
             /\ s.v[r] = <<s.v[r][1], s.v[r][2]>>
             /\ s.v[r][1] \subseteq 0..63 /\ s.v[r][2] \subseteq 0..63
  <2>1. Processor(fill, nz).x[r] = Register(fill, r) /\ Processor(fill, nz).v[r] = Vector(fill, r)
    BY DEF Processor
  <2>2. r \in 0..32
    OBVIOUS
  <2>3. Register(fill, r) \subseteq 0..63
        /\ Vector(fill, r) \in (SUBSET (0..63)) \X (SUBSET (0..63))
    BY <2>2, ContentsAssumption
  <2> QED
    BY <2>1, <2>3
<1> QED
  BY <1>1, <1>2, <1>3, <1>4, Zenon DEF IsProcessor

\* The machine leaves what its instruction computes on a processor.
LEMMA MachineInvariant == MachineSpec => []MachineInv
<1>1. MachineInit => MachineInv
  BY DEF MachineInit, MachineInv
<1>2. MachineInv /\ [MachineNext]_everything => MachineInv'
  <2> SUFFICES ASSUME MachineInv, [MachineNext]_everything
               PROVE  MachineInv'
    OBVIOUS
  <2>1. ASSUME UNCHANGED machine PROVE MachineInv'
    BY <2>1 DEF MachineInv, machine
  <2>2. ASSUME NEW i \in Guest \cup Others, NEW fill \in GuestFills \cup OtherFills, Execute(i, fill)
        PROVE  MachineInv'
    <3>1. inst' = i /\ handler' = A!Handler(i) /\ from' = Processor(fill, nzcv)
          /\ cpu' = A!Executed(Processor(fill, nzcv), i)
      BY <2>2 DEF Execute
    <3> QED
      BY <3>1, Zenon DEF MachineInv
  <2>3. ASSUME Finish PROVE MachineInv'
    BY <2>3 DEF Finish, MachineInv
  <2> QED
    BY <2>1, <2>2, <2>3 DEF MachineNext, FlagsStep, everything
<1> QED
  BY <1>1, <1>2, PTL DEF MachineSpec

\* What an instruction was executed as.
LEMMA ExecutedAs ==
  ASSUME MachineInv, AsInArm
  PROVE  /\ IsProcessor(from) /\ inst \in Guest \cup Others /\ handler = A!Handler(inst)
         /\ handler \in Handlers /\ cpu = A!Executed(from, inst) /\ ~cpu.error
<1>1. /\ inst \in Guest \cup Others /\ handler = A!Handler(inst) /\ cpu = A!Executed(from, inst)
      /\ ~cpu.error
  BY DEF MachineInv, AsInArm, Executed
<1>2. IsProcessor(from)
  BY Processors DEF MachineInv, AsInArm, Executed
<1>3. handler # "unhandled"
  <2>1. Dispatched(from, inst)
    BY Dispatches
  <2>2. A!Fault(from).error = TRUE
    BY <1>2, Faults, Zenon DEF IsProcessor
  <2> QED
    BY <1>1, <2>1, <2>2 DEF Dispatched
<1> QED
  BY <1>1, <1>2, <1>3, HandlerIn

(***************************************************************************)
(* The handlers that set the flags.                                        *)
(***************************************************************************)
\* t is s at the next address with flags nz, but for the general registers.
Flags(s, t, nz) ==
  t.v = s.v /\ t.pc = A!Plus(s.pc, {2}) /\ t.nzcv = nz /\ t.stores = s.stores

\* Flags are set before or after a register, or not at all.
LEMMA Flagging ==
  ASSUME NEW s, IsCpu(s), NEW nz
  PROVE  /\ Flags(s, A!Advance(A!SetFlags(s, nz)), nz)
         /\ \A r, w : /\ Flags(s, A!Advance(A!SetFlags(A!SetReg(s, r, w), nz)), nz)
                      /\ Flags(s, A!Advance(A!SetReg(A!SetFlags(s, nz), r, w)), nz)
                      /\ Flags(s, A!Advance(A!SetReg(s, r, w)), s.nzcv)
                      /\ Flags(s, A!Advance(A!SetRegSP(s, r, w)), s.nzcv)
<1>1. ASSUME NEW t, Quiet(s, t)
      PROVE  Flags(s, A!Advance(A!SetFlags(t, nz)), nz) /\ Flags(s, A!Advance(t), s.nzcv)
  <2>1. IsCpu(t)
    BY <1>1 DEF Quiet
  <2>2. Becomes(t, A!SetFlags(t, nz), t.x, t.v, t.pc, nz, t.stores)
    BY <2>1, SetsFlags
  <2> DEFINE u == A!SetFlags(t, nz)
  <2>3. IsCpu(u) /\ u.v = s.v /\ u.pc = s.pc /\ u.nzcv = nz /\ u.stores = s.stores
    BY <1>1, <2>2 DEF Becomes, Quiet
  <2> HIDE DEF u
  <2>4. Becomes(u, A!Advance(u), u.x, u.v, A!Plus(u.pc, {2}), u.nzcv, u.stores)
    BY <2>3, Advances
  <2>5. Flags(s, A!Advance(u), nz)
    BY <2>3, <2>4 DEF Becomes, Flags
  <2>6. Becomes(t, A!Advance(t), t.x, t.v, A!Plus(t.pc, {2}), t.nzcv, t.stores)
    BY <2>1, Advances
  <2>7. Flags(s, A!Advance(t), s.nzcv)
    BY <1>1, <2>6 DEF Becomes, Flags, Quiet
  <2> QED
    BY <2>5, <2>7 DEF u
<1>2. ASSUME NEW r, NEW w
      PROVE  Flags(s, A!Advance(A!SetReg(A!SetFlags(s, nz), r, w)), nz)
  <2> DEFINE u == A!SetFlags(s, nz)
             t == A!SetReg(u, r, w)
  <2>1. Becomes(s, u, s.x, s.v, s.pc, nz, s.stores)
    BY SetsFlags
  <2>2. IsCpu(u) /\ u.v = s.v /\ u.pc = s.pc /\ u.nzcv = nz /\ u.stores = s.stores
    BY <2>1 DEF Becomes
  <2> HIDE DEF u
  <2>3. Becomes(u, t, IF r = 31 THEN u.x ELSE [u.x EXCEPT ![r] = w], u.v, u.pc, u.nzcv, u.stores)
    BY <2>2, SetsReg
  <2>4. IsCpu(t) /\ t.v = s.v /\ t.pc = s.pc /\ t.nzcv = nz /\ t.stores = s.stores
    BY <2>2, <2>3 DEF Becomes
  <2> HIDE DEF t
  <2>5. Becomes(t, A!Advance(t), t.x, t.v, A!Plus(t.pc, {2}), t.nzcv, t.stores)
    BY <2>4, Advances
  <2> QED
    BY <2>4, <2>5 DEF Becomes, Flags, t, u
<1>3. Quiet(s, s) /\ \A r, w : Quiet(s, A!SetReg(s, r, w)) /\ Quiet(s, A!SetRegSP(s, r, w))
  BY Writes
<1> QED
  BY <1>1, <1>2, <1>3

\* The result of a logical instruction.
LogImmResult(s, i) ==
  A!Lower(A!Logical(A!Field(i, 30, 29), A!Lower(A!Reg(s, A!Rn(i)), A!Bits(i)), A!Masks(i).w), A!Bits(i))
LogShiftResult(s, i) ==
  A!Lower(A!Logical(A!Field(i, 30, 29), A!Reg(s, A!Rn(i)),
                    IF 21 \in i THEN A!Not(A!Shifted(s, i)) ELSE A!Shifted(s, i)), A!Bits(i))

\* The operands of a sum.
ImmRight(i) == IF A!Field(i, 23, 22) = 1 THEN A!Shl(A!Slice(i, 21, 10), 12) ELSE A!Slice(i, 21, 10)
LeftSP(s, i) == A!Lower(A!RegSP(s, A!Rn(i)), A!Bits(i))
FirstOperand(s, i) == A!Lower(A!Reg(s, A!Rn(i)), A!Bits(i))
ShiftRight(s, i) == A!Lower(A!Shifted(s, i), A!Bits(i))
ExtRight(s, i) ==
  A!Lower(A!Shl(A!Extended(A!Reg(s, A!Rm(i)), A!Field(i, 15, 13)), A!Field(i, 12, 10)), A!Bits(i))
CompareRight(s, i) == IF 11 \in i THEN A!Slice(i, 20, 16) ELSE A!Lower(A!Reg(s, A!Rm(i)), A!Bits(i))

SumFlags(s, i, a, b) == IF 29 \in i THEN A!AddSubSum(i, a, b).nzcv ELSE s.nzcv

\* The flags that the handlers of sums, comparisons and logic leave.
LEMMA FlagHandlers ==
  ASSUME NEW s, IsCpu(s), NEW i
  PROVE  /\ Flags(s, A!AddSubImm(s, i), SumFlags(s, i, LeftSP(s, i), ImmRight(i)))
         /\ Flags(s, A!AddSubExtReg(s, i), SumFlags(s, i, LeftSP(s, i), ExtRight(s, i)))
         /\ Flags(s, A!AddSubShiftReg(s, i), SumFlags(s, i, FirstOperand(s, i), ShiftRight(s, i)))
         /\ Flags(s, A!LogImm(s, i), IF A!Field(i, 30, 29) = 3
                                     THEN A!LogicalFlags(i, LogImmResult(s, i)) ELSE s.nzcv)
         /\ Flags(s, A!LogShiftReg(s, i), IF A!Field(i, 30, 29) = 3
                                          THEN A!LogicalFlags(i, LogShiftResult(s, i)) ELSE s.nzcv)
         /\ Flags(s, A!CondCompare(s, i),
                  IF A!CondHolds(s, A!Field(i, 15, 12))
                  THEN A!AddSubSum(i, FirstOperand(s, i), CompareRight(s, i)).nzcv
                  ELSE <<3 \in i, 2 \in i, 1 \in i, 0 \in i>>)
<1>1. \A nz, r, w :
        /\ Flags(s, A!Advance(A!SetFlags(s, nz)), nz)
        /\ Flags(s, A!Advance(A!SetFlags(A!SetReg(s, r, w), nz)), nz)
        /\ Flags(s, A!Advance(A!SetReg(A!SetFlags(s, nz), r, w)), nz)
        /\ Flags(s, A!Advance(A!SetReg(s, r, w)), s.nzcv)
        /\ Flags(s, A!Advance(A!SetRegSP(s, r, w)), s.nzcv)
  BY Flagging
<1>2. \A a, b : Flags(s, A!AddSubSP(s, i, a, b), SumFlags(s, i, a, b))
  <2>1. CASE 29 \in i
    BY <1>1, <2>1 DEF A!AddSubSP, SumFlags
  <2>2. CASE 29 \notin i
    BY <1>1, <2>2 DEF A!AddSubSP, SumFlags
  <2> QED
    BY <2>1, <2>2
<1>3. Flags(s, A!AddSubImm(s, i), SumFlags(s, i, LeftSP(s, i), ImmRight(i)))
  BY <1>2 DEF A!AddSubImm, LeftSP, ImmRight
<1>4. Flags(s, A!AddSubExtReg(s, i), SumFlags(s, i, LeftSP(s, i), ExtRight(s, i)))
  BY <1>2 DEF A!AddSubExtReg, LeftSP, ExtRight
<1>5. Flags(s, A!AddSubShiftReg(s, i), SumFlags(s, i, FirstOperand(s, i), ShiftRight(s, i)))
  <2>1. CASE 29 \in i
    BY <1>1, <2>1 DEF A!AddSubShiftReg, SumFlags, FirstOperand, ShiftRight
  <2>2. CASE 29 \notin i
    BY <1>1, <2>2 DEF A!AddSubShiftReg, SumFlags, FirstOperand, ShiftRight
  <2> QED
    BY <2>1, <2>2
<1>6. Flags(s, A!LogImm(s, i), IF A!Field(i, 30, 29) = 3
                               THEN A!LogicalFlags(i, LogImmResult(s, i)) ELSE s.nzcv)
  <2>1. CASE A!Field(i, 30, 29) = 3
    BY <1>1, <2>1 DEF A!LogImm, LogImmResult
  <2>2. CASE A!Field(i, 30, 29) # 3
    BY <1>1, <2>2 DEF A!LogImm, LogImmResult
  <2> QED
    BY <2>1, <2>2
<1>7. Flags(s, A!LogShiftReg(s, i), IF A!Field(i, 30, 29) = 3
                                    THEN A!LogicalFlags(i, LogShiftResult(s, i)) ELSE s.nzcv)
  <2>1. CASE A!Field(i, 30, 29) = 3
    BY <1>1, <2>1 DEF A!LogShiftReg, LogShiftResult
  <2>2. CASE A!Field(i, 30, 29) # 3
    BY <1>1, <2>2 DEF A!LogShiftReg, LogShiftResult
  <2> QED
    BY <2>1, <2>2
<1>8. Flags(s, A!CondCompare(s, i),
            IF A!CondHolds(s, A!Field(i, 15, 12))
            THEN A!AddSubSum(i, FirstOperand(s, i), CompareRight(s, i)).nzcv
            ELSE <<3 \in i, 2 \in i, 1 \in i, 0 \in i>>)
  <2>1. CASE A!CondHolds(s, A!Field(i, 15, 12))
    BY <1>1, <2>1 DEF A!CondCompare, FirstOperand, CompareRight
  <2>2. CASE ~A!CondHolds(s, A!Field(i, 15, 12))
    BY <1>1, <2>2 DEF A!CondCompare
  <2> QED
    BY <2>1, <2>2
<1> QED
  BY <1>3, <1>4, <1>5, <1>6, <1>7, <1>8

\* The handlers by what they may change besides the general registers: the
\* flags, the vectors and the memory, or the address.
FlagSetters == {"AddSubImm", "AddSubExtReg", "AddSubShiftReg", "LogImm", "LogShiftReg",
   "CondCompare"}
Quiets ==
  {"PCRel", "Bitfield", "Extract", "CondSelect", "DP2Src", "DP1Src", "DP3Src",
   "MoveWide", "FmovXD", "FmovXTop", "FmovWS", "UMOV", "LdrLiteral"}
Accessors ==
  {"FmovDX", "FmovTopX", "FmovSW", "FmovImm", "DUP", "INS", "SHL", "MOVI", "XTN",
   "EXT", "REV64Vec", "AdvSIMD3Same", "LdStUnsigned", "LdStImm9", "LdStRegOff",
   "LdStPair", "LdStSIMDUnsigned", "LdStSIMDImm9", "LdStPairSIMD", "LdrSIMDLiteral"}

\* Every handler is of one of four kinds.
LEMMA Kinds == Handlers = FlagSetters \cup Quiets \cup Accessors \cup BranchHandlers
BY DEF Handlers, SimdHandlers, FlagSetters, Quiets, Accessors, BranchHandlers

\* An instruction that is no branch goes to the next.
LEMMA NotBranching ==
  ASSUME NEW s, IsCpu(s), NEW i, A!Handler(i) \in FlagSetters \cup Quiets \cup Accessors
  PROVE  /\ Moves(s, A!Executed(s, i)) \/ A!Handler(i) \in FlagSetters
         /\ A!Executed(s, i).error = TRUE \/ A!Executed(s, i).pc = A!Plus(s.pc, {2})
<1>1. Dispatched(s, i)
  BY Dispatches
<1>2. CASE A!Handler(i) \in Quiets
  <2>1. \A t : Goes(s, t) => Moves(s, t)
    BY DEF Goes, Leaves, Moves
  <2>2. Moves(s, A!Executed(s, i))
    BY <1>1, <1>2, <2>1, Results DEF Dispatched, Quiets
  <2> QED
    BY <2>2 DEF Moves
<1>3. CASE A!Handler(i) \in Accessors
  <2>1. Moves(s, A!Executed(s, i))
    BY <1>1, <1>3, Accessing DEF Dispatched, Accessors
  <2> QED
    BY <2>1 DEF Moves
<1>4. CASE A!Handler(i) \in FlagSetters
  <2>1. \A t, nz : Flags(s, t, nz) => t.pc = A!Plus(s.pc, {2})
    BY DEF Flags
  <2>2. A!Executed(s, i).pc = A!Plus(s.pc, {2})
    BY <1>1, <1>4, <2>1, FlagHandlers DEF Dispatched, FlagSetters
  <2> QED
    BY <1>4, <2>2
<1> QED
  BY <1>2, <1>3, <1>4

\* A branch is taken and goes where the architecture says, and every other
\* instruction goes on to the next.
THEOREM BranchesSafe == MachineSpec => []BranchesAsArm
<1>1. MachineInv => BranchesAsArm
  <2> SUFFICES ASSUME MachineInv, AsInArm
               PROVE  cpu.pc = A!ArmPC(from, inst)
    BY DEF BranchesAsArm
  <2>1. /\ IsProcessor(from) /\ handler = A!Handler(inst) /\ handler \in Handlers
        /\ cpu = A!Executed(from, inst) /\ ~cpu.error
    BY ExecutedAs
  <2>2. CASE handler \in BranchHandlers
    <3>1. Dispatched(from, inst)
      BY Dispatches
    <3>2. BranchesTo(from, inst, cpu)
      BY <2>1, <2>2, <3>1, Branching DEF Dispatched, BranchHandlers
    <3> QED
      BY <2>1, <3>2 DEF BranchesTo, JumpsTo
  <2>3. CASE handler \notin BranchHandlers
    <3>1. handler \in FlagSetters \cup Quiets \cup Accessors
      BY <2>1, <2>3, Kinds
    <3>2. cpu.pc = A!Plus(from.pc, {2})
      BY <2>1, <3>1, NotBranching, Zenon DEF IsProcessor
    <3>3. cpu.pc = A!ArmSum(from.pc, {2}, 0, 64)
      BY <2>1, <3>2, NextIs, Zenon DEF IsProcessor
    <3>4. /\ ~(handler \in {"BUncond", "BranchReg"}) /\ handler # "BCond" /\ handler # "CBx"
          /\ handler # "TBx"
      BY <2>3 DEF BranchHandlers
    <3>5. ~A!Branches(from, inst)
      BY <3>4, Zenon DEF A!Branches
    <3> QED
      BY <3>3, <3>5 DEF A!ArmPC
  <2> QED
    BY <2>2, <2>3
<1> QED
  BY <1>1, MachineInvariant, PTL

(***************************************************************************)
(* Addresses and the bytes at them.                                        *)
(***************************************************************************)
\* Without a common bit there is no carry.
LEMMA Disjoint ==
  ASSUME NEW x \in SUBSET Nat, NEW y \in SUBSET Nat, x \cap y = {}
  PROVE  SumOf(x, y, 0) = x \cup y
<1>1. CarriesOf(x, y, 0) = {}
  <2>1. ASSUME NEW k \in CarriesOf(x, y, 0) PROVE FALSE
    BY <2>1 DEF CarriesOf
  <2> QED
    BY <2>1
<1>2. \A k \in Nat : k \in SumOf(x, y, 0) <=> k \in x \cup y
  BY <1>1 DEF SumOf
<1>3. SumOf(x, y, 0) \subseteq Nat
  BY DEF SumOf
<1> QED
  BY <1>2, <1>3

PlusHas(x, y) == A!Plus(x, y) = SumOf(x, y, 0) \cap (0..63)

\* The sums of the code, by single carries.
LEMMA PlusSum ==
  ASSUME NEW x \in SUBSET Nat, NEW y \in SUBSET Nat
  PROVE  PlusHas(x, y)
BY AddCarryIs DEF AddsWithCarry, PlusHas, A!Plus

\* Adding nothing.
LEMMA PlusNothing ==
  ASSUME NEW x \in SUBSET (0..63)
  PROVE  A!Plus(x, {}) = x /\ A!ArmSum(x, {}, 0, 64) = x
<1> DEFINE none == {}
<1>0. x \in SUBSET Nat
  OBVIOUS
<1>1. none \in SUBSET Nat /\ x \cap none = {} /\ x \cup none = x
  OBVIOUS
<1>4. x \cap (0..63) = x
  OBVIOUS
<1> HIDE DEF none
<1>2. SumOf(x, none, 0) = x
  BY <1>0, <1>1, Disjoint
<1>3. A!Plus(x, none) = x
  BY <1>0, <1>1, <1>2, <1>4, PlusSum DEF PlusHas
<1>5. A!Plus(x, none) = A!ArmSum(x, none, 0, 64)
  BY <1>0, <1>1, PlusIs
<1> QED
  BY <1>3, <1>5 DEF none

\* An offset may be added in two parts.
PlusTwice(x, y, w) == A!Plus(A!Plus(x, y), w) = A!Plus(x, SumOf(y, w, 0))

\* Two sums after each other.
LEMMA PlusAssociates ==
  ASSUME NEW x \in SUBSET Nat, NEW y \in SUBSET Nat, NEW w \in SUBSET (0..63)
  PROVE  PlusTwice(x, y, w)
<1> DEFINE s == SumOf(x, y, 0)
           p == A!Plus(x, y)
           r == SumOf(y, w, 0)
<1>1. p = s \cap (0..63) /\ s \in SUBSET Nat /\ r \in SUBSET Nat
  BY PlusSum DEF PlusHas, SumOf
<1>2. w \in SUBSET Nat /\ w \cap (0..64-1) = w /\ p \in SUBSET Nat /\ s \cap (0..64-1) = p
  <2>1. 64 - 1 = 63
    OBVIOUS
  <2>2. w \in SUBSET Nat
    OBVIOUS
  <2>3. w \cap (0..63) = w
    OBVIOUS
  <2> HIDE DEF p, s
  <2> QED
    BY <1>1, <2>1, <2>2, <2>3
<1>3. SumOf(s, w, 0) = SumOf(x, r, 0)
  BY <1>2, SumAssociates
<1> HIDE DEF s, p, r
<1>4. A!Plus(p, w) = SumOf(p, w, 0) \cap (0..63)
  BY <1>2, PlusSum DEF PlusHas
<1>5. A!Plus(x, r) = SumOf(x, r, 0) \cap (0..63)
  BY <1>1, PlusSum DEF PlusHas
<1>6. ASSUME NEW k \in 0..63
      PROVE  k \in SumOf(s, w, 0) <=> k \in SumOf(p, w, 0)
  <2>1. k \in 0..64 /\ k < 64 /\ 64 \in Nat /\ 0 \in {0, 1}
    OBVIOUS
  <2>2. k \in SumOf(s, w, 0) <=> k \in SumOf(s \cap (0..64-1), w \cap (0..64-1), 0)
    <3> DEFINE lim == 64
    <3>1. lim \in Nat /\ k \in 0..lim /\ k < lim
      BY <2>1
    <3> HIDE DEF lim
    <3>2. k < lim => (k \in SumOf(s, w, 0) <=> k \in SumOf(s \cap (0..lim-1), w \cap (0..lim-1), 0))
      BY <1>1, <1>2, <2>1, <3>1, SumBelow DEF Below
    <3> QED
      BY <3>1, <3>2 DEF lim
  <2> QED
    BY <1>2, <2>2
<1> QED
  BY <1>3, <1>4, <1>5, <1>6 DEF PlusTwice, s, p, r

\* The words of small numbers.
LEMMA WordIs ==
  ASSUME NEW S \in SUBSET (0..11)
  PROVE  A!Word(Digits(S, 0)) = S
<1>1. 0 \in Nat /\ \A b \in 0..30 : 0 + b = b
  OBVIOUS
<1>2. \A b \in 0..30 : b \in A!Word(Digits(S, 0)) <=> b <= 11 /\ b \in S
  BY <1>1, WordOf
<1>3. A!Word(Digits(S, 0)) \subseteq 0..30
  BY DEF A!Word
<1>4. \A b \in S : b \in 0..30 /\ b <= 11
  OBVIOUS
<1> QED
  BY <1>2, <1>3, <1>4

\* The words of small numbers.
LEMMA SmallWords ==
  /\ A!Word(0) = {} /\ A!Word(1) = {0} /\ A!Word(2) = {1} /\ A!Word(3) = {0, 1}
  /\ A!Word(4) = {2} /\ A!Word(5) = {0, 2} /\ A!Word(6) = {1, 2} /\ A!Word(7) = {0, 1, 2}
  /\ A!Word(8) = {3} /\ A!Word(9) = {0, 3} /\ A!Word(10) = {1, 3} /\ A!Word(11) = {0, 1, 3}
  /\ A!Word(12) = {2, 3} /\ A!Word(13) = {0, 2, 3} /\ A!Word(14) = {1, 2, 3}
  /\ A!Word(15) = {0, 1, 2, 3} /\ A!Word(16) = {4}
<1>0. A!Word(0) = {}
  <2>1. Digits({}, 0) = 0
    BY DEF Digits, BitOf
  <2>2. {} \in SUBSET (0..11)
    OBVIOUS
  <2> QED
    BY <2>1, <2>2, WordIs
<1>1. A!Word(1) = {0}
  <2>1. Digits({0}, 0) = 1
    BY DEF Digits, BitOf
  <2>2. {0} \in SUBSET (0..11)
    OBVIOUS
  <2> QED
    BY <2>1, <2>2, WordIs
<1>2. A!Word(2) = {1}
  <2>1. Digits({1}, 0) = 2
    BY DEF Digits, BitOf
  <2>2. {1} \in SUBSET (0..11)
    OBVIOUS
  <2> QED
    BY <2>1, <2>2, WordIs
<1>3. A!Word(3) = {0, 1}
  <2>1. Digits({0, 1}, 0) = 3
    BY DEF Digits, BitOf
  <2>2. {0, 1} \in SUBSET (0..11)
    OBVIOUS
  <2> QED
    BY <2>1, <2>2, WordIs
<1>4. A!Word(4) = {2}
  <2>1. Digits({2}, 0) = 4
    BY DEF Digits, BitOf
  <2>2. {2} \in SUBSET (0..11)
    OBVIOUS
  <2> QED
    BY <2>1, <2>2, WordIs
<1>5. A!Word(5) = {0, 2}
  <2>1. Digits({0, 2}, 0) = 5
    BY DEF Digits, BitOf
  <2>2. {0, 2} \in SUBSET (0..11)
    OBVIOUS
  <2> QED
    BY <2>1, <2>2, WordIs
<1>6. A!Word(6) = {1, 2}
  <2>1. Digits({1, 2}, 0) = 6
    BY DEF Digits, BitOf
  <2>2. {1, 2} \in SUBSET (0..11)
    OBVIOUS
  <2> QED
    BY <2>1, <2>2, WordIs
<1>7. A!Word(7) = {0, 1, 2}
  <2>1. Digits({0, 1, 2}, 0) = 7
    BY DEF Digits, BitOf
  <2>2. {0, 1, 2} \in SUBSET (0..11)
    OBVIOUS
  <2> QED
    BY <2>1, <2>2, WordIs
<1>8. A!Word(8) = {3}
  <2>1. Digits({3}, 0) = 8
    BY DEF Digits, BitOf
  <2>2. {3} \in SUBSET (0..11)
    OBVIOUS
  <2> QED
    BY <2>1, <2>2, WordIs
<1>9. A!Word(9) = {0, 3}
  <2>1. Digits({0, 3}, 0) = 9
    BY DEF Digits, BitOf
  <2>2. {0, 3} \in SUBSET (0..11)
    OBVIOUS
  <2> QED
    BY <2>1, <2>2, WordIs
<1>10. A!Word(10) = {1, 3}
  <2>1. Digits({1, 3}, 0) = 10
    BY DEF Digits, BitOf
  <2>2. {1, 3} \in SUBSET (0..11)
    OBVIOUS
  <2> QED
    BY <2>1, <2>2, WordIs
<1>11. A!Word(11) = {0, 1, 3}
  <2>1. Digits({0, 1, 3}, 0) = 11
    BY DEF Digits, BitOf
  <2>2. {0, 1, 3} \in SUBSET (0..11)
    OBVIOUS
  <2> QED
    BY <2>1, <2>2, WordIs
<1>12. A!Word(12) = {2, 3}
  <2>1. Digits({2, 3}, 0) = 12
    BY DEF Digits, BitOf
  <2>2. {2, 3} \in SUBSET (0..11)
    OBVIOUS
  <2> QED
    BY <2>1, <2>2, WordIs
<1>13. A!Word(13) = {0, 2, 3}
  <2>1. Digits({0, 2, 3}, 0) = 13
    BY DEF Digits, BitOf
  <2>2. {0, 2, 3} \in SUBSET (0..11)
    OBVIOUS
  <2> QED
    BY <2>1, <2>2, WordIs
<1>14. A!Word(14) = {1, 2, 3}
  <2>1. Digits({1, 2, 3}, 0) = 14
    BY DEF Digits, BitOf
  <2>2. {1, 2, 3} \in SUBSET (0..11)
    OBVIOUS
  <2> QED
    BY <2>1, <2>2, WordIs
<1>15. A!Word(15) = {0, 1, 2, 3}
  <2>1. Digits({0, 1, 2, 3}, 0) = 15
    BY DEF Digits, BitOf
  <2>2. {0, 1, 2, 3} \in SUBSET (0..11)
    OBVIOUS
  <2> QED
    BY <2>1, <2>2, WordIs
<1>16. A!Word(16) = {4}
  <2>1. Digits({4}, 0) = 16
    BY DEF Digits, BitOf
  <2>2. {4} \in SUBSET (0..11)
    OBVIOUS
  <2> QED
    BY <2>1, <2>2, WordIs
<1> QED
  BY <1>0, <1>1, <1>2, <1>3, <1>4, <1>5, <1>6, <1>7, <1>8, <1>9, <1>10, <1>11, <1>12, <1>13,
     <1>14, <1>15, <1>16

\* Eight bytes on.
LEMMA EightOn ==
  ASSUME NEW x \in SUBSET Nat, NEW m \in 0..7
  PROVE  A!Plus(A!Plus(x, {3}), A!Word(m)) = A!Plus(x, A!Word(m + 8))
<1>1. A!Word(m) \in SUBSET (0..63) /\ A!Word(m) \in SUBSET Nat /\ {3} \in SUBSET Nat
  BY DEF A!Word
<1>2. {3} \cap A!Word(m) = {} /\ A!Word(m + 8) = {3} \cup A!Word(m)
  <2>0. CASE m = 0
    BY <2>0, SmallWords
  <2>1. CASE m = 1
    BY <2>1, SmallWords
  <2>2. CASE m = 2
    BY <2>2, SmallWords
  <2>3. CASE m = 3
    BY <2>3, SmallWords
  <2>4. CASE m = 4
    BY <2>4, SmallWords
  <2>5. CASE m = 5
    BY <2>5, SmallWords
  <2>6. CASE m = 6
    BY <2>6, SmallWords
  <2>7. CASE m = 7
    BY <2>7, SmallWords
  <2> QED
    BY <2>0, <2>1, <2>2, <2>3, <2>4, <2>5, <2>6, <2>7
<1>3. SumOf({3}, A!Word(m), 0) = A!Word(m + 8)
  BY <1>1, <1>2, Disjoint
<1> QED
  BY <1>1, <1>3, PlusAssociates DEF PlusTwice

\* The bytes that a store of the code writes, and those of n bytes of a word.
PutBytes(a, count_, w) ==
  {<<A!ArmSum(a, A!Word(b), 0, 64), A!Slice(w, 8*b + 7, 8*b)>> : b \in 0..count_-1}
Given(a, count_, d) ==
  {<<A!ArmSum(a, A!Word(m), 0, 64), {b - 8*m : b \in d \cap (8*m..8*m+7)}>> : m \in 0..count_-1}

\* A byte of a word, in the code and in the architecture.
LEMMA ByteIs ==
  ASSUME NEW d, NEW bits \in 0..64, NEW m \in 0..7, 8 * m + 7 < bits
  PROVE  A!Slice(A!Lower(d, bits), 8*m + 7, 8*m) = {b - 8*m : b \in d \cap (8*m..8*m+7)}
<1> DEFINE W == A!Lower(d, bits)
           L == A!Slice(W, 8*m + 7, 8*m)
           R == {b - 8*m : b \in d \cap (8*m..8*m+7)}
<1>1. \A b \in 0..bits-1 : b \in W <=> b \in d
  BY DEF A!Lower, A!Low
<1> HIDE DEF W
<1>2. \A b \in 0..63 : b \in L <=> b + 8*m \in 0..8*m+7 /\ b + 8*m \in W
  <2>1. (8*m + 7) + 1 - 1 = 8*m + 7
    OBVIOUS
  <2> QED
    BY <2>1 DEF A!Slice, A!Shr, A!Lower, A!Low, A!Positions
<1>3. L \subseteq 0..63
  BY DEF A!Slice, A!Shr, A!Positions
<1>4. ASSUME NEW b \in L PROVE b \in R
  <2>1. b \in 0..63 /\ b + 8*m \in 0..8*m+7 /\ b + 8*m \in W
    BY <1>2, <1>3, <1>4
  <2>2. b + 8*m \in 8*m..8*m+7 /\ b + 8*m \in 0..bits-1 /\ (b + 8*m) - 8*m = b
    BY <2>1
  <2> QED
    BY <1>1, <2>1, <2>2
<1>5. ASSUME NEW b \in d \cap (8*m..8*m+7) PROVE b - 8*m \in L
  <2>1. b - 8*m \in 0..63 /\ (b - 8*m) + 8*m = b /\ b \in 0..8*m+7 /\ b \in 0..bits-1 /\ b \in d
    BY <1>5
  <2>2. b \in W
    BY <1>1, <2>1
  <2> QED
    BY <1>2, <2>1, <2>2
<1>6. \A b \in R : b \in L
  <2> HIDE DEF L
  <2> QED
    BY <1>5
<1> HIDE DEF L, R
<1>7. L = R
  BY <1>4, <1>6
<1> QED
  BY <1>7 DEF L, R, W

PutHas(a, k, d) == PutBytes(a, k, A!Lower(d, 8 * k)) = Given(a, k, d)

\* A store of the code writes the bytes of the word.
LEMMA PutIs ==
  ASSUME NEW a, NEW k \in {1, 2, 4, 8}, NEW d
  PROVE  PutHas(a, k, d)
<1>1. 8 * k \in 0..64 /\ k \in 1..8
  OBVIOUS
<1> DEFINE bits == 8 * k
<1>2. \A m \in 0..k-1 : m \in 0..7 /\ 8 * m + 7 < bits
  BY <1>1
<1> HIDE DEF bits
<1>3. \A m \in 0..k-1 : A!Slice(A!Lower(d, bits), 8*m + 7, 8*m) = {b - 8*m : b \in d \cap (8*m..8*m+7)}
  BY <1>1, <1>2, ByteIs DEF bits
<1> QED
  BY <1>3, Zenon DEF PutHas, PutBytes, Given, bits

\* The stores that were made so far.
Stored == (SUBSET Nat) \X Nat \X (SUBSET Nat)
AppendHas(q, a, k, w) == StoredBytes(Append(q, <<a, k, w>>)) = StoredBytes(q) \cup PutBytes(a, k, w)

\* A store adds its bytes to those that were written.
LEMMA StoredAppend ==
  ASSUME NEW q \in Seq(Stored), NEW a \in SUBSET Nat, NEW k \in Nat, NEW w \in SUBSET Nat
  PROVE  AppendHas(q, a, k, w) /\ Append(q, <<a, k, w>>) \in Seq(Stored)
<1> DEFINE e == <<a, k, w>>
           p == Append(q, e)
           B(t) == PutBytes(t[1], t[2], t[3])
<1>1. e \in Stored
  BY DEF Stored
<1>2. e[1] = a /\ e[2] = k /\ e[3] = w
  OBVIOUS
<1> HIDE DEF e
<1>3. p \in Seq(Stored) /\ DOMAIN q = 1..Len(q) /\ DOMAIN p = 1..Len(q)+1 /\ Len(q) \in Nat
  BY <1>1
<1>4. p[Len(q)+1] = e /\ \A j \in 1..Len(q) : p[j] = q[j]
  BY <1>1
<1>5. StoredBytes(q) = UNION {B(q[j]) : j \in 1..Len(q)}
  BY <1>3, Zenon DEF StoredBytes, PutBytes
<1>6. StoredBytes(p) = UNION {B(p[j]) : j \in 1..Len(q)+1}
  BY <1>3, Zenon DEF StoredBytes, PutBytes
<1> HIDE DEF p
<1>7. 1..Len(q)+1 = 1..Len(q) \cup {Len(q)+1}
  BY <1>3
<1>8. StoredBytes(p) = StoredBytes(q) \cup B(e)
  <2> HIDE DEF B
  <2> DEFINE l == Len(q)
  <2>1. \A x : x \in StoredBytes(q) <=> \E j \in 1..l : x \in B(q[j])
    BY <1>5
  <2>2. \A x : x \in StoredBytes(p) <=> \E j \in 1..l+1 : x \in B(p[j])
    BY <1>6
  <2>3. p[l+1] = e /\ (\A j \in 1..l : p[j] = q[j]) /\ 1..l+1 = 1..l \cup {l+1}
    BY <1>4, <1>7
  <2> HIDE DEF l
  <2>4. \A x : x \in StoredBytes(p) <=> x \in StoredBytes(q) \/ x \in B(e)
    BY <2>1, <2>2, <2>3
  <2> QED
    BY <2>4
<1>9. B(e) = PutBytes(a, k, w)
  BY <1>2
<1> HIDE DEF B
<1> QED
  BY <1>3, <1>8, <1>9 DEF AppendHas, p, e

(***************************************************************************)
(* Offsets and addresses.                                                  *)
(***************************************************************************)
ExtendHas(x, option) ==
  A!ArmExtend(x, 8 * 2^(option % 4), option >= 4, 64) = A!Extended(x, option)

\* The extensions of the code are those of the architecture.
LEMMA ExtendIs ==
  ASSUME NEW x \in SUBSET (0..63), NEW option \in 0..7
  PROVE  ExtendHas(x, option) /\ A!Extended(x, option) \in SUBSET (0..63)
<1>1. 2^0 = 1 /\ 2^1 = 2 /\ 2^2 = 4 /\ 2^3 = 8
  OBVIOUS
<1>2. ASSUME NEW len \in {8, 16, 32}
      PROVE  /\ A!ArmExtend(x, len, FALSE, 64) = A!Lower(x, len)
             /\ A!ArmExtend(x, len, TRUE, 64) = A!SignExtend(A!Lower(x, len), len)
  <2>1. \A b \in 0..63 : b \in A!ArmExtend(x, len, FALSE, 64) <=> b < len /\ b \in x
    BY DEF A!ArmExtend
  <2>2. \A b \in 0..63 : b \in A!ArmExtend(x, len, TRUE, 64) <=> IF b < len THEN b \in x ELSE len - 1 \in x
    BY DEF A!ArmExtend
  <2>3. A!ArmExtend(x, len, FALSE, 64) \subseteq 0..63
        /\ A!ArmExtend(x, len, TRUE, 64) \subseteq 0..63
    BY DEF A!ArmExtend
  <2>4. A!Lower(x, len) \subseteq 0..63 /\ \A b \in 0..63 : b \in A!Lower(x, len) <=> b < len
        /\ b \in x
    BY DEF A!Lower, A!Low
  <2>5. A!SignExtend(A!Lower(x, len), len) \subseteq 0..63
    BY DEF A!SignExtend, A!Positions
  <2>6. \A b \in 0..63 : b \in A!SignExtend(A!Lower(x, len), len)
                          <=> b \in A!Lower(x, len) \/ (b >= len /\ len - 1 \in A!Lower(x, len))
    BY DEF A!SignExtend, A!Positions
  <2>7. len - 1 \in A!Lower(x, len) <=> len - 1 \in x
    BY <2>4
  <2> DEFINE L == A!Lower(x, len)
             E == A!ArmExtend(x, len, FALSE, 64)
             F == A!ArmExtend(x, len, TRUE, 64)
             G == A!SignExtend(A!Lower(x, len), len)
  <2> HIDE DEF L, E, F, G
  <2>8. E = L
    BY <2>1, <2>3, <2>4 DEF L, E
  <2>9. \A b \in 0..63 : b \in F <=> b \in G
    <3>1. \A b \in 0..63 : b \in F <=> IF b < len THEN b \in x ELSE len - 1 \in x
      BY <2>2 DEF F
    <3>2. \A b \in 0..63 : b \in G <=> (b < len /\ b \in x) \/ (b >= len /\ len - 1 \in x)
      BY <2>4, <2>6, <2>7 DEF G
    <3> QED
      BY <3>1, <3>2
  <2>10. F = G
    BY <2>3, <2>5, <2>9 DEF F, G
  <2> QED
    BY <2>8, <2>10 DEF L, E, F, G
<1>3. ASSUME NEW signed PROVE A!ArmExtend(x, 64, signed, 64) = x
  <2>1. \A b \in 0..63 : b \in A!ArmExtend(x, 64, signed, 64) <=> b \in x
    BY DEF A!ArmExtend
  <2>2. A!ArmExtend(x, 64, signed, 64) \subseteq 0..63
    BY DEF A!ArmExtend
  <2> QED
    BY <2>1, <2>2
<1>4. \A k \in Nat : A!Lower(x, k) \in SUBSET (0..63)
  BY DEF A!Lower, A!Low
<1>5. \A y, k : A!SignExtend(y, k) \in SUBSET (0..63)
  BY DEF A!SignExtend, A!Positions
<1>10. CASE option = 0
  <2>0. option # 1 /\ option # 2 /\ option # 4 /\ option # 5 /\ option # 6 /\ option \notin {3, 7}
    BY <1>10
  <2>1. A!Extended(x, option) = A!Lower(x, 8)
    BY <1>10, <2>0, Zenon DEF A!Extended
  <2>2. 0 % 4 = 0 /\ (0 >= 4) = FALSE /\ 8 * 2^0 = 8
    BY <1>1
  <2>3. A!ArmExtend(x, 8 * 2^(0 % 4), 0 >= 4, 64) = A!Lower(x, 8)
    BY <1>2, <1>3, <2>2
  <2>4. A!Lower(x, 8) \in SUBSET (0..63)
    BY <1>4, <1>5
  <2> QED
    BY <1>10, <2>1, <2>3, <2>4 DEF ExtendHas
<1>11. CASE option = 1
  <2>0. option # 0 /\ option # 2 /\ option # 4 /\ option # 5 /\ option # 6 /\ option \notin {3, 7}
    BY <1>11
  <2>1. A!Extended(x, option) = A!Lower(x, 16)
    BY <1>11, <2>0, Zenon DEF A!Extended
  <2>2. 1 % 4 = 1 /\ (1 >= 4) = FALSE /\ 8 * 2^1 = 16
    BY <1>1
  <2>3. A!ArmExtend(x, 8 * 2^(1 % 4), 1 >= 4, 64) = A!Lower(x, 16)
    BY <1>2, <1>3, <2>2
  <2>4. A!Lower(x, 16) \in SUBSET (0..63)
    BY <1>4, <1>5
  <2> QED
    BY <1>11, <2>1, <2>3, <2>4 DEF ExtendHas
<1>12. CASE option = 2
  <2>0. option # 0 /\ option # 1 /\ option # 4 /\ option # 5 /\ option # 6 /\ option \notin {3, 7}
    BY <1>12
  <2>1. A!Extended(x, option) = A!Lower(x, 32)
    BY <1>12, <2>0, Zenon DEF A!Extended
  <2>2. 2 % 4 = 2 /\ (2 >= 4) = FALSE /\ 8 * 2^2 = 32
    BY <1>1
  <2>3. A!ArmExtend(x, 8 * 2^(2 % 4), 2 >= 4, 64) = A!Lower(x, 32)
    BY <1>2, <1>3, <2>2
  <2>4. A!Lower(x, 32) \in SUBSET (0..63)
    BY <1>4, <1>5
  <2> QED
    BY <1>12, <2>1, <2>3, <2>4 DEF ExtendHas
<1>13. CASE option = 3
  <2>0. option # 0 /\ option # 1 /\ option # 2 /\ option # 4 /\ option # 5 /\ option # 6
        /\ option \in {3, 7}
    BY <1>13
  <2>1. A!Extended(x, option) = x
    BY <1>13, <2>0, Zenon DEF A!Extended
  <2>2. 3 % 4 = 3 /\ (3 >= 4) = FALSE /\ 8 * 2^3 = 64
    BY <1>1
  <2>3. A!ArmExtend(x, 8 * 2^(3 % 4), 3 >= 4, 64) = x
    BY <1>2, <1>3, <2>2
  <2>4. x \in SUBSET (0..63)
    BY <1>4, <1>5
  <2> QED
    BY <1>13, <2>1, <2>3, <2>4 DEF ExtendHas
<1>14. CASE option = 4
  <2>0. option # 0 /\ option # 1 /\ option # 2 /\ option # 5 /\ option # 6 /\ option \notin {3, 7}
    BY <1>14
  <2>1. A!Extended(x, option) = A!SignExtend(A!Lower(x, 8), 8)
    BY <1>14, <2>0, Zenon DEF A!Extended
  <2>2. 4 % 4 = 0 /\ (4 >= 4) = TRUE /\ 8 * 2^0 = 8
    BY <1>1
  <2>3. A!ArmExtend(x, 8 * 2^(4 % 4), 4 >= 4, 64) = A!SignExtend(A!Lower(x, 8), 8)
    BY <1>2, <1>3, <2>2
  <2>4. A!SignExtend(A!Lower(x, 8), 8) \in SUBSET (0..63)
    BY <1>4, <1>5
  <2> QED
    BY <1>14, <2>1, <2>3, <2>4 DEF ExtendHas
<1>15. CASE option = 5
  <2>0. option # 0 /\ option # 1 /\ option # 2 /\ option # 4 /\ option # 6 /\ option \notin {3, 7}
    BY <1>15
  <2>1. A!Extended(x, option) = A!SignExtend(A!Lower(x, 16), 16)
    BY <1>15, <2>0, Zenon DEF A!Extended
  <2>2. 5 % 4 = 1 /\ (5 >= 4) = TRUE /\ 8 * 2^1 = 16
    BY <1>1
  <2>3. A!ArmExtend(x, 8 * 2^(5 % 4), 5 >= 4, 64) = A!SignExtend(A!Lower(x, 16), 16)
    BY <1>2, <1>3, <2>2
  <2>4. A!SignExtend(A!Lower(x, 16), 16) \in SUBSET (0..63)
    BY <1>4, <1>5
  <2> QED
    BY <1>15, <2>1, <2>3, <2>4 DEF ExtendHas
<1>16. CASE option = 6
  <2>0. option # 0 /\ option # 1 /\ option # 2 /\ option # 4 /\ option # 5 /\ option \notin {3, 7}
    BY <1>16
  <2>1. A!Extended(x, option) = A!SignExtend(A!Lower(x, 32), 32)
    BY <1>16, <2>0, Zenon DEF A!Extended
  <2>2. 6 % 4 = 2 /\ (6 >= 4) = TRUE /\ 8 * 2^2 = 32
    BY <1>1
  <2>3. A!ArmExtend(x, 8 * 2^(6 % 4), 6 >= 4, 64) = A!SignExtend(A!Lower(x, 32), 32)
    BY <1>2, <1>3, <2>2
  <2>4. A!SignExtend(A!Lower(x, 32), 32) \in SUBSET (0..63)
    BY <1>4, <1>5
  <2> QED
    BY <1>16, <2>1, <2>3, <2>4 DEF ExtendHas
<1>17. CASE option = 7
  <2>0. option # 0 /\ option # 1 /\ option # 2 /\ option # 4 /\ option # 5 /\ option # 6
        /\ option \in {3, 7}
    BY <1>17
  <2>1. A!Extended(x, option) = x
    BY <1>17, <2>0, Zenon DEF A!Extended
  <2>2. 7 % 4 = 3 /\ (7 >= 4) = TRUE /\ 8 * 2^3 = 64
    BY <1>1
  <2>3. A!ArmExtend(x, 8 * 2^(7 % 4), 7 >= 4, 64) = x
    BY <1>2, <1>3, <2>2
  <2>4. x \in SUBSET (0..63)
    BY <1>4, <1>5
  <2> QED
    BY <1>17, <2>1, <2>3, <2>4 DEF ExtendHas
<1> QED
  BY <1>10, <1>11, <1>12, <1>13, <1>14, <1>15, <1>16, <1>17

\* The offset of LdStRegOff in the code.
RegOffset(s, i) ==
  LET option == A!Field(i, 15, 13)
      x == A!Reg(s, A!Rm(i))
      offset == CASE option = 2 -> A!Lower(x, 32)
                  [] option = 6 -> A!SignExtend(A!Lower(x, 32), 32)
                  [] OTHER -> x
  IN IF 12 \in i THEN A!Shl(offset, A!Size(i)) ELSE offset

LiteralOffset(i) == A!Shl(A!SignExtend(A!Slice(i, 23, 5), 19), 2)
UnsignedOffset(i, k) == A!Shl(A!Slice(i, 21, 10), k)

\* Shifting by nothing.
LEMMA ShiftNothing ==
  ASSUME NEW x \in SUBSET (0..63)
  PROVE  A!Shl(x, 0) = x
<1>1. \A b \in 0..63 : b - 0 = b
  OBVIOUS
<1>2. \A b \in 0..63 : b \in A!Shl(x, 0) <=> b \in x
  BY <1>1 DEF A!Shl, A!Positions
<1>3. A!Shl(x, 0) \subseteq 0..63
  BY DEF A!Shl, A!Positions
<1> QED
  BY <1>2, <1>3

UnsignedHas(i, k) == {b - 10 + k : b \in i \cap (10..21)} = UnsignedOffset(i, k)

\* Shifted unsigned offsets, in the code and in the architecture.
LEMMA UnsignedIs ==
  ASSUME NEW i, NEW k \in 0..4
  PROVE  UnsignedHas(i, k) /\ UnsignedOffset(i, k) \in SUBSET (0..63)
<1> DEFINE S == A!Slice(i, 21, 10)
           U == UnsignedOffset(i, k)
           V == {b - 10 + k : b \in i \cap (10..21)}
<1>1. S = {b \in 0..11 : b + 10 \in i}
  <2>1. SliceHas(i, 21, 10)
    BY SliceIs
  <2>2. 21 - 10 = 11
    OBVIOUS
  <2> QED
    BY <2>1, <2>2 DEF SliceHas
<1> HIDE DEF S
<1>2. \A b \in 0..63 : b \in U <=> b - k \in S
  BY DEF A!Shl, A!Positions, UnsignedOffset, S
<1>3. U \subseteq 0..63
  BY DEF A!Shl, A!Positions, UnsignedOffset
<1> HIDE DEF U
<1>4. ASSUME NEW b \in U PROVE b \in V
  <2>1. b \in 0..63 /\ b - k \in 0..11 /\ b - k + 10 \in i
    BY <1>1, <1>2, <1>3, <1>4
  <2>2. b - k + 10 \in i \cap (10..21) /\ (b - k + 10) - 10 + k = b
    BY <2>1
  <2> QED
    BY <2>2
<1>5. ASSUME NEW b \in i \cap (10..21) PROVE b - 10 + k \in U
  <2>1. b - 10 + k \in 0..63 /\ (b - 10 + k) - k \in 0..11 /\ (b - 10 + k) - k + 10 = b
    BY <1>5
  <2> QED
    BY <1>1, <1>2, <1>5, <2>1
<1>6. \A b \in V : b \in U
  BY <1>5
<1> HIDE DEF V
<1>7. V = U
  BY <1>4, <1>6
<1> QED
  BY <1>3, <1>7 DEF UnsignedHas, U, V

\* The places that accesses start at, with the scale of their elements.
Accessed(s, i, base, offset) ==
  /\ A!Base(s, i) = base /\ A!Indexed(s, i) = A!Plus(base, offset)
  /\ A!Indexed(s, i) \in SUBSET (0..63)

AccessedIf(s, i, base, offset) ==
  A!Base(s, i) = base /\ A!Offset(s, i) = offset /\ offset \in SUBSET (0..63) /\ base \in SUBSET (0..63)

\* The place of an access from its base and its offset.
LEMMA AccessedAt ==
  ASSUME NEW s, NEW i, NEW base, NEW offset, AccessedIf(s, i, base, offset)
  PROVE  Accessed(s, i, base, offset)
<1>1. base \in SUBSET Nat /\ offset \in SUBSET Nat
  BY DEF AccessedIf
<1>2. A!Plus(base, offset) = A!ArmSum(base, offset, 0, 64)
      /\ A!Plus(base, offset) \in SUBSET (0..63)
  BY <1>1, PlusIs
<1> QED
  BY <1>2 DEF Accessed, AccessedIf, A!Indexed

\* Offsets in registers, in the code and in the architecture.
LEMMA RegOffsetIs ==
  ASSUME NEW s, IsProcessor(s), NEW i, 14 \in i, handler = "LdStRegOff"
  PROVE  A!Offset(s, i) = RegOffset(s, i) /\ RegOffset(s, i) \in SUBSET (0..63)
<1> DEFINE option == A!Field(i, 15, 13)
           x == A!Reg(s, A!Rm(i))
           k == IF 12 \in i THEN A!Size(i) ELSE 0
           y == A!Extended(x, option)
<1>1. x \in SUBSET (0..63) /\ A!ArmReg(s, A!Rm(i)) = x
  BY Fields, Zenon DEF IsProcessor, A!Reg, A!ArmReg
<1>2. /\ option \in {2, 3, 6, 7} /\ option \in 0..7
      /\ k \in 0..3
  <2>1. BitOf(i, 13) \in {0, 1} /\ BitOf(i, 14) = 1 /\ BitOf(i, 15) \in {0, 1}
        /\ BitOf(i, 30) \in {0, 1} /\ BitOf(i, 31) \in {0, 1}
    BY Fields
  <2> QED
    BY <2>1, Fields
<1> HIDE DEF option, x, k
<1>3. y = CASE option = 2 -> A!Lower(x, 32)
            [] option = 6 -> A!SignExtend(A!Lower(x, 32), 32)
            [] OTHER -> x
  <2>1. CASE option = 2
    <3>1. option # 0 /\ option # 1 /\ option \notin {3, 7} /\ option # 4 /\ option # 5 /\ option # 6
      BY <2>1
    <3>2. y = A!Lower(x, 32)
      BY <2>1, <3>1, Zenon DEF A!Extended
    <3> QED
      BY <2>1, <3>1, <3>2, Zenon
  <2>2. CASE option = 6
    <3>1. option # 0 /\ option # 1 /\ option \notin {3, 7} /\ option # 4 /\ option # 5 /\ option # 2
      BY <2>2
    <3>2. y = A!SignExtend(A!Lower(x, 32), 32)
      BY <2>2, <3>1, Zenon DEF A!Extended
    <3> QED
      BY <2>2, <3>1, <3>2, Zenon
  <2>3. CASE option \in {3, 7}
    <3>1. option # 0 /\ option # 1 /\ option # 2 /\ option # 4 /\ option # 5 /\ option # 6
      BY <2>3
    <3>2. y = x
      BY <2>3, <3>1, Zenon DEF A!Extended
    <3> QED
      BY <3>1, <3>2, Zenon
  <2> QED
    BY <1>2, <2>1, <2>2, <2>3
<1>4. ExtendHas(x, option) /\ y \in SUBSET (0..63)
  BY <1>1, <1>2, ExtendIs
<1>5. RegOffset(s, i) = IF 12 \in i THEN A!Shl(y, A!Size(i)) ELSE y
  <2> DEFINE u == CASE option = 2 -> A!Lower(x, 32)
                    [] option = 6 -> A!SignExtend(A!Lower(x, 32), 32)
                    [] OTHER -> x
  <2>1. RegOffset(s, i) = IF 12 \in i THEN A!Shl(u, A!Size(i)) ELSE u
    BY DEF RegOffset, option, x
  <2>2. u = y
    BY <1>3
  <2> HIDE DEF u, y
  <2> QED
    BY <2>1, <2>2
<1>6. A!Offset(s, i) = A!ArmExtended(x, option, k, 64)
  <2>1. A!Scale(i) = A!Size(i)
    BY Zenon DEF A!Scale, A!Size
  <2> QED
    BY <1>1, <2>1, Zenon DEF A!Offset, A!Literals, A!Pairs, option, k
<1> DEFINE E == A!ArmExtend(x, 8 * 2^(option % 4), option >= 4, 64)
<1>7. E = y
  BY <1>4 DEF ExtendHas
<1> HIDE DEF y
<1>8. A!ArmExtended(x, option, k, 64) = A!Shl(y, k)
  <2>1. A!ArmExtended(x, option, k, 64) = {b \in 0..64-1 : b - k \in E}
    BY Zenon DEF A!ArmExtended
  <2>2. A!Shl(y, k) = {b \in 0..63 : b - k \in y}
    BY Zenon DEF A!Shl, A!Positions
  <2>3. 64 - 1 = 63
    OBVIOUS
  <2> QED
    BY <1>7, <2>1, <2>2, <2>3
<1>9. RegOffset(s, i) = A!Shl(y, k)
  BY <1>4, <1>5, ShiftNothing DEF k
<1>10. A!Shl(y, k) \in SUBSET (0..63)
  BY DEF A!Shl, A!Positions
<1> QED
  BY <1>6, <1>8, <1>9, <1>10

PairScale(i) == IF A!Size(i) = 2 THEN 3 ELSE 2
LiteralScale(i) == IF A!Size(i) = 1 THEN 3 ELSE 2

\* The base, the offset and the scale of every kind of access.
LEMMA AccessesAt ==
  ASSUME NEW s, IsProcessor(s), NEW i
  PROVE  /\ handler = "LdStUnsigned" =>
              /\ A!Scale(i) = A!Size(i)
              /\ Accessed(s, i, A!RegSP(s, A!Rn(i)), UnsignedOffset(i, A!Size(i)))
         /\ handler = "LdStSIMDUnsigned" =>
              /\ A!Scale(i) = A!SimdScale(i)
              /\ Accessed(s, i, A!RegSP(s, A!Rn(i)), UnsignedOffset(i, A!SimdScale(i)))
         /\ handler = "LdStImm9" =>
              A!Scale(i) = A!Size(i) /\ Accessed(s, i, A!RegSP(s, A!Rn(i)), A!Imm9(i))
         /\ handler = "LdStSIMDImm9" =>
              A!Scale(i) = A!SimdScale(i) /\ Accessed(s, i, A!RegSP(s, A!Rn(i)), A!Imm9(i))
         /\ handler = "LdStRegOff" /\ 14 \in i =>
              A!Scale(i) = A!Size(i) /\ Accessed(s, i, A!RegSP(s, A!Rn(i)), RegOffset(s, i))
         /\ handler = "LdStPair" =>
              /\ A!Scale(i) = PairScale(i)
              /\ Accessed(s, i, A!RegSP(s, A!Rn(i)), A!PairOffset(i, PairScale(i)))
         /\ handler = "LdStPairSIMD" =>
              /\ A!Scale(i) = A!Size(i) + 2
              /\ Accessed(s, i, A!RegSP(s, A!Rn(i)), A!PairOffset(i, A!Size(i) + 2))
         /\ handler = "LdrLiteral" =>
              A!Scale(i) = LiteralScale(i) /\ Accessed(s, i, s.pc, LiteralOffset(i))
         /\ handler = "LdrSIMDLiteral" =>
              A!Scale(i) = A!Size(i) + 2 /\ Accessed(s, i, s.pc, LiteralOffset(i))
<1>1. A!Size(i) \in 0..3 /\ A!SimdScale(i) \in 0..4 /\ PairScale(i) \in 0..31
      /\ A!Size(i) + 2 \in 0..31
  <2>1. BitOf(i, 30) \in {0, 1} /\ BitOf(i, 31) \in {0, 1}
        /\ A!Size(i) = BitOf(i, 30) + 2 * BitOf(i, 31)
    BY Fields
  <2>2. A!Size(i) \in 0..3
    BY <2>1
  <2> QED
    BY <2>2 DEF A!SimdScale, PairScale
<1>2. A!RegSP(s, A!Rn(i)) \in SUBSET (0..63) /\ s.pc \in SUBSET (0..63)
      /\ A!RegSP(s, A!Rn(i)) = s.x[A!Rn(i)]
  BY Fields, Zenon DEF IsProcessor, A!RegSP
<1>3. \A base, offset : AccessedIf(s, i, base, offset) => Accessed(s, i, base, offset)
  BY AccessedAt
<1>4. ASSUME NEW k \in 0..4
      PROVE  /\ {b - 10 + k : b \in i \cap (10..21)} = UnsignedOffset(i, k)
             /\ UnsignedOffset(i, k) \in SUBSET (0..63)
  BY UnsignedIs DEF UnsignedHas
<1>5. ASSUME NEW k \in 0..31
      PROVE  /\ A!SignedField(i, 21, 15, k) = A!PairOffset(i, k)
             /\ A!PairOffset(i, k) \in SUBSET (0..63)
  <2>0. 21 \in 0..31 /\ 15 \in 0..21
    OBVIOUS
  <2>1. SignedHas(i, 21, 15, k) /\ A!SignedField(i, 21, 15, k) \in SUBSET (0..63)
    BY <2>0, SignedIs, Zenon
  <2>2. 21 - 15 + 1 = 7
    OBVIOUS
  <2> QED
    BY <2>1, <2>2 DEF SignedHas, A!PairOffset
<1>6. A!SignedField(i, 20, 12, 0) = A!Imm9(i) /\ A!Imm9(i) \in SUBSET (0..63)
  <2>1. 0 \in 0..31 /\ 20 \in 0..31 /\ 12 \in 0..20 /\ 20 - 12 + 1 = 9
    OBVIOUS
  <2>2. SignedHas(i, 20, 12, 0) /\ A!SignedField(i, 20, 12, 0) \in SUBSET (0..63)
    BY <2>1, SignedIs, Zenon
  <2>3. A!Imm9(i) \in SUBSET (0..63)
    BY DEF A!Imm9, A!SignExtend, A!Positions
  <2> QED
    BY <2>1, <2>2, <2>3, ShiftNothing DEF SignedHas, A!Imm9
<1>7. A!SignedField(i, 23, 5, 2) = LiteralOffset(i) /\ LiteralOffset(i) \in SUBSET (0..63)
  <2>1. 2 \in 0..31 /\ 23 \in 0..31 /\ 5 \in 0..23 /\ 23 - 5 + 1 = 19
    OBVIOUS
  <2>2. SignedHas(i, 23, 5, 2) /\ A!SignedField(i, 23, 5, 2) \in SUBSET (0..63)
    BY <2>1, SignedIs, Zenon
  <2> QED
    BY <2>1, <2>2 DEF SignedHas, LiteralOffset
<1>8. handler \notin A!Literals => A!Base(s, i) = A!RegSP(s, A!Rn(i))
  BY <1>2 DEF A!Base
<1>9. /\ "LdStUnsigned" \notin A!Literals /\ "LdStSIMDUnsigned" \notin A!Literals
      /\ "LdStImm9" \notin A!Literals /\ "LdStSIMDImm9" \notin A!Literals
      /\ "LdStRegOff" \notin A!Literals /\ "LdStPair" \notin A!Literals
      /\ "LdStPairSIMD" \notin A!Literals
  BY DEF A!Literals
<1>10. ASSUME handler = "LdStUnsigned"
       PROVE  A!Scale(i) = A!Size(i) /\ Accessed(s, i, A!RegSP(s, A!Rn(i)), UnsignedOffset(i, A!Size(i)))
  <2>1. A!Scale(i) = A!Size(i)
    BY <1>10, Zenon DEF A!Scale, A!Size
  <2>2. A!Offset(s, i) = {b - 10 + A!Size(i) : b \in i \cap (10..21)}
    BY <1>10, <2>1, Zenon DEF A!Offset, A!Literals, A!Pairs
  <2> QED
    BY <1>1, <1>2, <1>3, <1>4, <1>8, <1>9, <1>10, <2>1, <2>2 DEF AccessedIf
<1>11. ASSUME handler = "LdStSIMDUnsigned"
       PROVE  /\ A!Scale(i) = A!SimdScale(i)
              /\ Accessed(s, i, A!RegSP(s, A!Rn(i)), UnsignedOffset(i, A!SimdScale(i)))
  <2>1. A!Scale(i) = A!SimdScale(i)
    BY <1>11, Zenon DEF A!Scale, A!SimdScale, A!Size
  <2>2. A!Offset(s, i) = {b - 10 + A!SimdScale(i) : b \in i \cap (10..21)}
    BY <1>11, <2>1, Zenon DEF A!Offset, A!Literals, A!Pairs
  <2> QED
    BY <1>1, <1>2, <1>3, <1>4, <1>8, <1>9, <1>11, <2>1, <2>2 DEF AccessedIf
<1>12. ASSUME handler = "LdStImm9"
       PROVE  A!Scale(i) = A!Size(i) /\ Accessed(s, i, A!RegSP(s, A!Rn(i)), A!Imm9(i))
  <2>1. A!Scale(i) = A!Size(i)
    BY <1>12, Zenon DEF A!Scale, A!Size
  <2>2. A!Offset(s, i) = A!SignedField(i, 20, 12, 0)
    BY <1>12, Zenon DEF A!Offset, A!Literals, A!Pairs
  <2> QED
    BY <1>2, <1>3, <1>6, <1>8, <1>9, <1>12, <2>1, <2>2 DEF AccessedIf
<1>13. ASSUME handler = "LdStSIMDImm9"
       PROVE  A!Scale(i) = A!SimdScale(i) /\ Accessed(s, i, A!RegSP(s, A!Rn(i)), A!Imm9(i))
  <2>1. A!Scale(i) = A!SimdScale(i)
    BY <1>13, Zenon DEF A!Scale, A!SimdScale, A!Size
  <2>2. A!Offset(s, i) = A!SignedField(i, 20, 12, 0)
    BY <1>13, Zenon DEF A!Offset, A!Literals, A!Pairs
  <2> QED
    BY <1>2, <1>3, <1>6, <1>8, <1>9, <1>13, <2>1, <2>2 DEF AccessedIf
<1>14. ASSUME handler = "LdStRegOff", 14 \in i
       PROVE  A!Scale(i) = A!Size(i) /\ Accessed(s, i, A!RegSP(s, A!Rn(i)), RegOffset(s, i))
  <2>1. A!Scale(i) = A!Size(i)
    BY <1>14, Zenon DEF A!Scale, A!Size
  <2>2. A!Offset(s, i) = RegOffset(s, i) /\ RegOffset(s, i) \in SUBSET (0..63)
    BY <1>14, RegOffsetIs
  <2> QED
    BY <1>2, <1>3, <1>8, <1>9, <1>14, <2>1, <2>2 DEF AccessedIf
<1>15. ASSUME handler = "LdStPair"
       PROVE  /\ A!Scale(i) = PairScale(i)
              /\ Accessed(s, i, A!RegSP(s, A!Rn(i)), A!PairOffset(i, PairScale(i)))
  <2>1. A!Scale(i) = PairScale(i)
    BY <1>15, Zenon DEF A!Scale, PairScale, A!Size
  <2>2. A!Offset(s, i) = A!SignedField(i, 21, 15, PairScale(i))
    BY <1>15, <2>1, Zenon DEF A!Offset, A!Literals, A!Pairs
  <2> QED
    BY <1>1, <1>2, <1>3, <1>5, <1>8, <1>9, <1>15, <2>1, <2>2 DEF AccessedIf
<1>16. ASSUME handler = "LdStPairSIMD"
       PROVE  /\ A!Scale(i) = A!Size(i) + 2
              /\ Accessed(s, i, A!RegSP(s, A!Rn(i)), A!PairOffset(i, A!Size(i) + 2))
  <2>1. A!Scale(i) = A!Size(i) + 2
    BY <1>16, Zenon DEF A!Scale, A!Size
  <2>2. A!Offset(s, i) = A!SignedField(i, 21, 15, A!Size(i) + 2)
    BY <1>16, <2>1, Zenon DEF A!Offset, A!Literals, A!Pairs
  <2> QED
    BY <1>1, <1>2, <1>3, <1>5, <1>8, <1>9, <1>16, <2>1, <2>2 DEF AccessedIf
<1>17. ASSUME handler = "LdrLiteral"
       PROVE  A!Scale(i) = LiteralScale(i) /\ Accessed(s, i, s.pc, LiteralOffset(i))
  <2>1. A!Scale(i) = LiteralScale(i)
    BY <1>17, Zenon DEF A!Scale, LiteralScale, A!Size
  <2>2. A!Offset(s, i) = A!SignedField(i, 23, 5, 2) /\ A!Base(s, i) = s.pc
    BY <1>17, Zenon DEF A!Offset, A!Literals, A!Pairs, A!Base
  <2> QED
    BY <1>2, <1>3, <1>7, <2>1, <2>2 DEF AccessedIf
<1>18. ASSUME handler = "LdrSIMDLiteral"
       PROVE  A!Scale(i) = A!Size(i) + 2 /\ Accessed(s, i, s.pc, LiteralOffset(i))
  <2>1. A!Scale(i) = A!Size(i) + 2
    BY <1>18, Zenon DEF A!Scale, A!Size
  <2>2. A!Offset(s, i) = A!SignedField(i, 23, 5, 2) /\ A!Base(s, i) = s.pc
    BY <1>18, Zenon DEF A!Offset, A!Literals, A!Pairs, A!Base
  <2> QED
    BY <1>2, <1>3, <1>7, <2>1, <2>2 DEF AccessedIf
<1> QED
  BY <1>10, <1>11, <1>12, <1>13, <1>14, <1>15, <1>16, <1>17, <1>18

(***************************************************************************)
(* The bytes that are stored.                                              *)
(***************************************************************************)
\* A byte of a register of which only the lower word matters.
ByteOf(d, m) == {b - 8*m : b \in d \cap (8*m..8*m+7)}

\* The bytes of a vector are those of its two words.
LEMMA LowBytes ==
  ASSUME NEW lo \in SUBSET (0..63), NEW hi \in SUBSET (0..63), NEW m \in 0..7
  PROVE  /\ ByteOf(lo \cup {b + 64 : b \in hi}, m) = ByteOf(lo, m)
         /\ ByteOf(lo \cup {b + 64 : b \in hi}, m + 8) = ByteOf(hi, m)
<1> DEFINE V == lo \cup {b + 64 : b \in hi}
<1>1. \A b \in 0..63 : b \in V <=> b \in lo
  OBVIOUS
<1>2. \A b \in 64..127 : b \in V <=> b - 64 \in hi
  <2>1. \A b \in 64..127 : (b - 64) + 64 = b /\ b \notin lo
    OBVIOUS
  <2>2. \A b \in hi : (b + 64) - 64 = b
    OBVIOUS
  <2> QED
    BY <2>1, <2>2
<1> HIDE DEF V
<1>3. V \cap (8*m..8*m+7) = lo \cap (8*m..8*m+7)
  <2>1. \A b \in 8*m..8*m+7 : b \in 0..63
    OBVIOUS
  <2> QED
    BY <1>1, <2>1
<1>4. ByteOf(V, m) = ByteOf(lo, m)
  BY <1>3 DEF ByteOf
<1>5. ASSUME NEW b \in V \cap (8*(m+8)..8*(m+8)+7)
      PROVE  b - 64 \in hi \cap (8*m..8*m+7) /\ (b - 64) - 8*m = b - 8*(m+8)
  <2>1. b \in 64..127
    BY <1>5
  <2> QED
    BY <1>2, <1>5, <2>1
<1>6. ASSUME NEW b \in hi \cap (8*m..8*m+7)
      PROVE  b + 64 \in V \cap (8*(m+8)..8*(m+8)+7) /\ (b + 64) - 8*(m+8) = b - 8*m
  <2>1. b + 64 \in 64..127 /\ (b + 64) - 64 = b
    BY <1>6
  <2> QED
    BY <1>2, <1>6, <2>1
<1>7. ByteOf(V, m + 8) = ByteOf(hi, m)
  <2>1. ASSUME NEW x \in ByteOf(V, m + 8) PROVE x \in ByteOf(hi, m)
    <3>1. PICK b \in V \cap (8*(m+8)..8*(m+8)+7) : x = b - 8*(m+8)
      BY <2>1 DEF ByteOf
    <3> QED
      BY <1>5, <3>1 DEF ByteOf
  <2>2. ASSUME NEW x \in ByteOf(hi, m) PROVE x \in ByteOf(V, m + 8)
    <3>1. PICK b \in hi \cap (8*m..8*m+7) : x = b - 8*m
      BY <2>2 DEF ByteOf
    <3> QED
      BY <1>6, <3>1 DEF ByteOf
  <2> QED
    BY <2>1, <2>2
<1> QED
  BY <1>4, <1>7 DEF V

\* The bytes of a vector register: the lower ones, and the upper eight.
SixteenHas(a, lo, hi) ==
  Given(a, 16, lo \cup {b + 64 : b \in hi}) = Given(a, 8, lo) \cup Given(A!Plus(a, {3}), 8, hi)
LowHas(a, k, lo, hi) == Given(a, k, lo \cup {b + 64 : b \in hi}) = Given(a, k, lo)

\* A vector of sixteen bytes is stored as its two words, a smaller one as its
\* first.
LEMMA VectorBytes ==
  ASSUME NEW a \in SUBSET (0..63), NEW lo \in SUBSET (0..63), NEW hi \in SUBSET (0..63)
  PROVE  SixteenHas(a, lo, hi) /\ \A k \in 0..8 : LowHas(a, k, lo, hi)
<1> DEFINE V == lo \cup {b + 64 : b \in hi}
           At(c1, m) == A!ArmSum(c1, A!Word(m), 0, 64)
           B(m) == ByteOf(V, m)
<1>1. \A c1, k, d : Given(c1, k, d) = {<<At(c1, m), ByteOf(d, m)>> : m \in 0..k-1}
  BY DEF Given, ByteOf
<1>2. \A m \in 0..7 : B(m) = ByteOf(lo, m) /\ B(m + 8) = ByteOf(hi, m)
  BY LowBytes
<1>3. \A m \in 0..7 : At(A!Plus(a, {3}), m) = At(a, m + 8)
  <2>1. a \in SUBSET Nat /\ {3} \in SUBSET Nat /\ A!Plus(a, {3}) \in SUBSET Nat
    <3>1. a \in SUBSET Nat /\ {3} \in SUBSET Nat
      OBVIOUS
    <3> QED
      BY <3>1, PlusIs
  <2>2. \A m : A!Word(m) \in SUBSET Nat
    BY DEF A!Word
  <2>3. \A m \in 0..7 : A!Plus(A!Plus(a, {3}), A!Word(m)) = A!Plus(a, A!Word(m + 8))
    BY <2>1, EightOn
  <2>4. \A m : A!Plus(A!Plus(a, {3}), A!Word(m)) = At(A!Plus(a, {3}), m)
    BY <2>1, <2>2, PlusIs
  <2>5. \A m : A!Plus(a, A!Word(m)) = At(a, m)
    BY <2>1, <2>2, PlusIs
  <2> HIDE DEF At
  <2> QED
    BY <2>3, <2>4, <2>5
<1> HIDE DEF V, At, B
<1>4. \A k \in 0..8 : Given(a, k, V) = Given(a, k, lo)
  <2>1. \A k \in 0..8 : \A m \in 0..k-1 : m \in 0..7
    OBVIOUS
  <2> QED
    BY <1>1, <1>2, <2>1 DEF B
<1>5. Given(a, 16, V) = Given(a, 8, lo) \cup Given(A!Plus(a, {3}), 8, hi)
  <2>1. \A m \in 0..15 : m \in 0..7 \/ (m - 8 \in 0..7 /\ (m - 8) + 8 = m)
    OBVIOUS
  <2>2. \A m \in 0..7 : m \in 0..15 /\ m + 8 \in 0..15
    OBVIOUS
  <2>3. 16 - 1 = 15 /\ 8 - 1 = 7
    OBVIOUS
  <2>4. Given(a, 16, V) = {<<At(a, m), B(m)>> : m \in 0..15}
    BY <1>1, <2>3 DEF B
  <2>5. Given(a, 8, lo) = {<<At(a, m), B(m)>> : m \in 0..7}
    BY <1>1, <1>2, <2>3
  <2>6. Given(A!Plus(a, {3}), 8, hi) = {<<At(a, m + 8), B(m + 8)>> : m \in 0..7}
    BY <1>1, <1>2, <1>3, <2>3
  <2> DEFINE E(m) == <<At(a, m), B(m)>>
  <2> HIDE DEF E
  <2>7. {E(m) : m \in 0..15} = {E(m) : m \in 0..7} \cup {E(m + 8) : m \in 0..7}
    <3>1. ASSUME NEW m \in 0..15 PROVE E(m) \in {E(j) : j \in 0..7} \cup {E(j + 8) : j \in 0..7}
      BY <2>1
    <3>2. ASSUME NEW m \in 0..7 PROVE E(m) \in {E(j) : j \in 0..15} /\ E(m + 8) \in {E(j) : j \in 0..15}
      BY <2>2
    <3> QED
      BY <3>1, <3>2
  <2> QED
    BY <2>4, <2>5, <2>6, <2>7 DEF E
<1> QED
  BY <1>4, <1>5 DEF SixteenHas, LowHas, V

\* u stored k bytes of d at a, after t, and is t but for that.
Adding(t, u, a, k, d) ==
  /\ IsCpu(u) /\ u.x = t.x /\ u.v = t.v /\ u.stores \in Seq(Stored)
  /\ StoredBytes(u.stores) = StoredBytes(t.stores) \cup Given(a, k, d)

\* A store writes the low bytes of the word.
LEMMA StoreAdds ==
  ASSUME NEW t, IsCpu(t), t.stores \in Seq(Stored), NEW a \in SUBSET (0..63), NEW k \in {1, 2, 4, 8},
         NEW d \in SUBSET (0..63)
  PROVE  Adding(t, A!Store(t, a, k, d), a, k, d)
<1> DEFINE u == A!Store(t, a, k, d)
           w == A!Lower(d, 8 * k)
<1>1. Becomes(t, u, t.x, t.v, t.pc, t.nzcv, Append(t.stores, <<a, k, w>>))
  BY Stores
<1>2. IsCpu(u) /\ u.x = t.x /\ u.v = t.v /\ u.stores = Append(t.stores, <<a, k, w>>)
  BY <1>1 DEF Becomes
<1>3. w \in SUBSET Nat /\ a \in SUBSET Nat /\ k \in Nat
  <2>1. 8 * k \in Nat
    OBVIOUS
  <2> QED
    BY <2>1 DEF A!Lower, A!Low
<1> HIDE DEF u
<1>4. PutHas(a, k, d)
  BY PutIs
<1>5. PutBytes(a, k, w) = Given(a, k, d)
  BY <1>4 DEF PutHas
<1> HIDE DEF w
<1>6. AppendHas(t.stores, a, k, w) /\ Append(t.stores, <<a, k, w>>) \in Seq(Stored)
  BY <1>3, StoredAppend
<1>7. StoredBytes(u.stores) = StoredBytes(t.stores) \cup Given(a, k, d)
  BY <1>2, <1>5, <1>6 DEF AppendHas
<1> QED
  BY <1>2, <1>6, <1>7 DEF Adding, u

\* Without a store nothing is written.
LEMMA NothingStored == StoredBytes(<<>>) = {} /\ <<>> \in Seq(Stored)
BY DEF StoredBytes

\* A vector register is stored in one part or two.
LEMMA SimdStoreAdds ==
  ASSUME NEW t, IsCpu(t), t.stores \in Seq(Stored), NEW a \in SUBSET (0..63), NEW r \in 0..31,
         NEW k \in {1, 2, 4, 8, 16},
         t.v[r][1] \in SUBSET (0..63), t.v[r][2] \in SUBSET (0..63)
  PROVE  Adding(t, A!DoSIMDStore(t, a, r, k), a, k, A!VectorBits(t, r))
<1> DEFINE lo == t.v[r][1]
           hi == t.v[r][2]
           V == A!VectorBits(t, r)
           u == A!DoSIMDStore(t, a, r, k)
<1>1. V = lo \cup {b + 64 : b \in hi} /\ A!LowV(t, r) = lo /\ A!HighV(t, r) = hi
  BY DEF A!VectorBits, A!LowV, A!HighV
<1>2. lo \in SUBSET (0..63) /\ hi \in SUBSET (0..63)
  OBVIOUS
<1> HIDE DEF lo, hi, V
<1>3. SixteenHas(a, lo, hi) /\ \A j \in 0..8 : LowHas(a, j, lo, hi)
  BY <1>2, VectorBytes
<1>4. CASE k # 16
  <2>1. k \in {1, 2, 4, 8} /\ k \in 0..8
    BY <1>4
  <2>2. u = A!Store(t, a, k, lo)
    BY <1>1, <1>4 DEF A!DoSIMDStore
  <2>3. Adding(t, A!Store(t, a, k, lo), a, k, lo)
    BY <1>2, <2>1, StoreAdds
  <2>4. Given(a, k, V) = Given(a, k, lo)
    BY <1>1, <1>3, <2>1 DEF LowHas
  <2> QED
    BY <2>2, <2>3, <2>4 DEF Adding, V
<1>5. CASE k = 16
  <2> DEFINE s1 == A!Store(t, a, 8, lo)
             a2 == A!Plus(a, {3})
             s2 == A!Store(s1, a2, 8, hi)
  <2>1. u = s2
    BY <1>1, <1>5 DEF A!DoSIMDStore
  <2>2. 8 \in {1, 2, 4, 8}
    OBVIOUS
  <2>3. a2 \in SUBSET (0..63)
    <3>1. a \in SUBSET Nat /\ {3} \in SUBSET Nat
      OBVIOUS
    <3> QED
      BY <3>1, PlusIs
  <2> HIDE DEF a2
  <2>4. Adding(t, s1, a, 8, lo)
    BY <1>2, <2>2, StoreAdds
  <2>5. IsCpu(s1) /\ s1.stores \in Seq(Stored)
    BY <2>4 DEF Adding
  <2> HIDE DEF s1
  <2>6. Adding(s1, s2, a2, 8, hi)
    BY <1>2, <2>2, <2>3, <2>5, StoreAdds
  <2>7. Given(a, k, V) = Given(a, 8, lo) \cup Given(a2, 8, hi)
    BY <1>1, <1>3, <1>5 DEF SixteenHas, a2
  <2> QED
    BY <2>1, <2>4, <2>6, <2>7 DEF Adding, V
<1> QED
  BY <1>4, <1>5

\* The bytes after an instruction that is finished.
Finished(t, Bytes) == StoredBytes(A!Advance(t).stores) = Bytes

\* Going to the next address writes nothing.
LEMMA Finishes ==
  ASSUME NEW t, IsCpu(t)
  PROVE  Finished(t, StoredBytes(t.stores))
<1>1. Becomes(t, A!Advance(t), t.x, t.v, A!Plus(t.pc, {2}), t.nzcv, t.stores)
  BY Advances
<1> QED
  BY <1>1 DEF Becomes, Finished

\* The accesses of one element: from a register, and of a vector register.
OneStores(t, i, a) ==
  StoredBytes(A!DoLoadStore(t, i, a).stores) =
    IF A!Field(i, 23, 22) = 0 THEN Given(a, 2^A!Size(i), A!Reg(t, A!Rd(i))) ELSE {}
OneSimdStores(t, i, a) ==
  StoredBytes(A!LdStSIMD(t, i, a).stores) =
    IF 22 \in i THEN {} ELSE Given(a, 2^A!SimdScale(i), A!VectorBits(t, A!Rd(i)))

\* What accesses of one element write.
LEMMA OneElement ==
  ASSUME NEW t, IsCpu(t), t.stores = <<>>, NEW i, NEW a \in SUBSET (0..63),
         A!Reg(t, A!Rd(i)) \in SUBSET (0..63),
         t.v[A!Rd(i)][1] \in SUBSET (0..63), t.v[A!Rd(i)][2] \in SUBSET (0..63)
  PROVE  OneStores(t, i, a) /\ OneSimdStores(t, i, a)
<1> DEFINE k == 2^A!Size(i)
           j == 2^A!SimdScale(i)
           d == A!Reg(t, A!Rd(i))
<1>1. A!Size(i) \in {0, 1, 2, 3} /\ A!SimdScale(i) \in {0, 1, 2, 3, 4} /\ A!Rd(i) \in 0..31
  <2>1. BitOf(i, 30) \in {0, 1} /\ BitOf(i, 31) \in {0, 1}
        /\ A!Size(i) = BitOf(i, 30) + 2 * BitOf(i, 31)
    BY Fields
  <2>2. A!Size(i) \in {0, 1, 2, 3}
    BY <2>1
  <2> QED
    BY <2>2, Fields DEF A!SimdScale
<1>2. k \in {1, 2, 4, 8} /\ j \in {1, 2, 4, 8, 16}
  <2>1. 2^0 = 1 /\ 2^1 = 2 /\ 2^2 = 4 /\ 2^3 = 8 /\ 2^4 = 16
    OBVIOUS
  <2> QED
    BY <1>1, <2>1
<1>3. t.stores \in Seq(Stored) /\ StoredBytes(t.stores) = {}
  BY NothingStored
<1> HIDE DEF k, j
<1>4. Adding(t, A!Store(t, a, k, d), a, k, d)
  BY <1>2, <1>3, StoreAdds, Zenon
<1>5. Adding(t, A!DoSIMDStore(t, a, A!Rd(i), j), a, j, A!VectorBits(t, A!Rd(i)))
  BY <1>1, <1>2, <1>3, SimdStoreAdds, Zenon
<1>6. A!Field(i, 23, 22) = 0 \/ A!Field(i, 23, 22) = 1 \/ A!Field(i, 23, 22) = 2
      \/ A!Field(i, 23, 22) = 3
  BY Fields
<1>7. ASSUME NEW q, IsCpu(q)
      PROVE  StoredBytes(A!Advance(q).stores) = StoredBytes(q.stores)
  BY <1>7, Finishes DEF Finished
<1>8. OneStores(t, i, a)
  <2>1. CASE A!Field(i, 23, 22) = 0
    <3>1. A!Field(i, 23, 22) # 1 /\ A!Field(i, 23, 22) # 2 /\ A!Field(i, 23, 22) # 3
      BY <2>1
    <3>2. A!DoLoadStore(t, i, a) = A!Advance(A!Store(t, a, k, d))
      BY <2>1, <3>1, Zenon DEF A!DoLoadStore, k
    <3> QED
      BY <1>3, <1>4, <1>7, <2>1, <3>2 DEF OneStores, Adding, k
  <2>2. CASE A!Field(i, 23, 22) # 0
    <3> DEFINE Still(q) == StoredBytes(A!Advance(q).stores) = {}
    <3>1. Still(t)
      BY <1>3, <1>7
    <3>2. ASSUME NEW r, NEW w PROVE Still(A!SetReg(t, r, w))
      <4>1. Becomes(t, A!SetReg(t, r, w), IF r = 31 THEN t.x ELSE [t.x EXCEPT ![r] = w],
                    t.v, t.pc, t.nzcv, t.stores)
        BY SetsReg
      <4>2. IsCpu(A!SetReg(t, r, w)) /\ A!SetReg(t, r, w).stores = t.stores
        BY <4>1 DEF Becomes
      <4> QED
        BY <1>3, <1>7, <4>2
    <3> HIDE DEF Still
    <3>3. \E q : A!DoLoadStore(t, i, a) = A!Advance(q) /\ Still(q)
      <4> DEFINE P(y) == \E q : y = A!Advance(q) /\ Still(q)
      <4>1. P(A!Advance(t)) /\ \A r, w : P(A!Advance(A!SetReg(t, r, w)))
        BY <3>1, <3>2
      <4> HIDE DEF P
      <4>2. P(A!DoLoadStore(t, i, a))
        BY <1>6, <2>2, <4>1, Zenon DEF A!DoLoadStore
      <4> QED
        BY <4>2 DEF P
    <3>4. StoredBytes(A!DoLoadStore(t, i, a).stores) = {}
      BY <3>3 DEF Still
    <3> QED
      BY <2>2, <3>4 DEF OneStores
  <2> QED
    BY <2>1, <2>2
<1>9. OneSimdStores(t, i, a)
  <2>1. CASE 22 \notin i
    <3>1. A!LdStSIMD(t, i, a) = A!Advance(A!DoSIMDStore(t, a, A!Rd(i), j))
      BY <2>1 DEF A!LdStSIMD, j
    <3> QED
      BY <1>3, <1>5, <1>7, <2>1, <3>1 DEF OneSimdStores, Adding, j
  <2>2. CASE 22 \in i
    <3>1. A!LdStSIMD(t, i, a) = A!Advance(A!DoSIMDLoad(t, a, A!Rd(i), j))
      BY <2>2 DEF A!LdStSIMD, j
    <3>2. ASSUME NEW lo, NEW hi
          PROVE  /\ IsCpu(A!SetVector(t, A!Rd(i), lo, hi))
                 /\ A!SetVector(t, A!Rd(i), lo, hi).stores = t.stores
      <4>1. Becomes(t, A!SetVector(t, A!Rd(i), lo, hi), t.x, [t.v EXCEPT ![A!Rd(i)] = <<lo, hi>>],
                    t.pc, t.nzcv, t.stores)
        BY SetsVector
      <4> QED
        BY <4>1 DEF Becomes
    <3>3. /\ IsCpu(A!DoSIMDLoad(t, a, A!Rd(i), j))
          /\ A!DoSIMDLoad(t, a, A!Rd(i), j).stores = t.stores
      BY <3>2 DEF A!DoSIMDLoad
    <3> QED
      BY <1>3, <1>7, <2>2, <3>1, <3>3 DEF OneSimdStores
  <2> QED
    BY <2>1, <2>2
<1> QED
  BY <1>8, <1>9

(***************************************************************************)
(* The stores of the architecture.                                         *)
(***************************************************************************)
\* Where an access starts, and what it stores from register r.
Place(s, i) == IF A!PostIndexed(i) THEN A!Base(s, i) ELSE A!Indexed(s, i)
Carried(s, r) == IF handler \in A!Vectors THEN A!VectorBits(s, r) ELSE A!ArmReg(s, r)

\* One element, and two.
OneGiven(s, i) == Given(Place(s, i), 2^A!Scale(i), Carried(s, A!Rd(i)))
TwoGiven(s, i) ==
  Given(A!Plus(Place(s, i), A!Word(2^A!Scale(i))), 2^A!Scale(i), Carried(s, A!Ra(i)))

\* The addresses of the elements in the architecture.
LEMMA ArmPlaces ==
  ASSUME NEW s, NEW i, Place(s, i) \in SUBSET (0..63), A!Scale(i) \in {0, 1, 2, 3, 4}
  PROVE  /\ A!ArmAddress(s, i, 0) = Place(s, i)
         /\ A!ArmAddress(s, i, 1) = A!Plus(Place(s, i), A!Word(2^A!Scale(i)))
<1> DEFINE P == Place(s, i)
           k == 2^A!Scale(i)
<1>1. A!ArmAddress(s, i, 0) = A!ArmSum(P, A!Word(0 * k), 0, 64)
  BY DEF A!ArmAddress, Place
<1>2. A!ArmAddress(s, i, 1) = A!ArmSum(P, A!Word(1 * k), 0, 64)
  BY DEF A!ArmAddress, Place
<1>0. k \in {1, 2, 4, 8, 16}
  <2>1. 2^0 = 1 /\ 2^1 = 2 /\ 2^2 = 4 /\ 2^3 = 8 /\ 2^4 = 16
    OBVIOUS
  <2> QED
    BY <2>1
<1>3. k \in Nat
  BY <1>0
<1> HIDE DEF k
<1>4. 0 * k = 0 /\ 1 * k = k
  BY <1>3
<1>5. A!ArmSum(P, {}, 0, 64) = P
  BY PlusNothing
<1>6. P \in SUBSET Nat /\ A!Word(k) \in SUBSET Nat
  BY DEF A!Word
<1> HIDE DEF P
<1>7. A!Plus(P, A!Word(k)) = A!ArmSum(P, A!Word(k), 0, 64)
  BY <1>6, PlusIs
<1>8. A!Word(0) = {}
  BY SmallWords
<1> QED
  BY <1>1, <1>2, <1>4, <1>5, <1>7, <1>8 DEF P, k

\* The bytes that the architecture writes, by elements.
LEMMA ArmStored ==
  ASSUME NEW s, NEW i, Place(s, i) \in SUBSET (0..63), A!Scale(i) \in {0, 1, 2, 3, 4}
  PROVE  /\ handler \notin A!Accesses \/ A!Loads(i) => A!ArmStores(s, i) = {}
         /\ handler \in A!Accesses \ A!Pairs /\ ~A!Loads(i) => A!ArmStores(s, i) = OneGiven(s, i)
         /\ handler \in A!Pairs /\ ~A!Loads(i) =>
              A!ArmStores(s, i) = OneGiven(s, i) \cup TwoGiven(s, i)
<1> DEFINE G(k) == Given(A!ArmAddress(s, i, k), 2^A!Scale(i), Carried(s, A!Transferred(i, k)))
<1>1. handler \notin A!Accesses \/ A!Loads(i) => A!ArmStores(s, i) = {}
  BY DEF A!ArmStores
<1>2. handler \in A!Accesses
      /\ ~A!Loads(i) => A!ArmStores(s, i) = UNION {G(k) : k \in A!Element2(i)}
  BY Zenon DEF A!ArmStores, Given, Carried
<1>3. G(0) = OneGiven(s, i) /\ G(1) = TwoGiven(s, i)
  <2>1. A!Transferred(i, 0) = A!Rd(i) /\ A!Transferred(i, 1) = A!Ra(i)
    BY DEF A!Transferred
  <2> QED
    BY <2>1, ArmPlaces DEF OneGiven, TwoGiven
<1> HIDE DEF G
<1>4. handler \in A!Pairs => A!Element2(i) = {0, 1} /\ handler \in A!Accesses
  BY DEF A!Element2, A!Accesses
<1>5. handler \notin A!Pairs => A!Element2(i) = {0}
  BY DEF A!Element2
<1>6. UNION {G(k) : k \in {0}} = G(0) /\ UNION {G(k) : k \in {0, 1}} = G(0) \cup G(1)
  OBVIOUS
<1> QED
  BY <1>1, <1>2, <1>3, <1>4, <1>5, <1>6

(***************************************************************************)
(* The stores of the code.                                                 *)
(***************************************************************************)
\* The vectors and what the registers hold, before anything is stored.
Holding(s, t) ==
  /\ IsCpu(t) /\ t.stores = <<>> /\ t.v = s.v
  /\ \A r \in 0..31 : A!Reg(t, r) \in SUBSET (0..63)
  /\ \A r \in 0..31 : t.v[r][1] \in SUBSET (0..63) /\ t.v[r][2] \in SUBSET (0..63)
KeepsBut(s, t, base) == \A r \in 0..31 : r # base \/ r = 31 => A!Reg(t, r) = A!Reg(s, r)

\* A base register that is written back leaves the others alone.
LEMMA WritingBack ==
  ASSUME NEW s, IsProcessor(s), NEW r \in 0..31, NEW w \in SUBSET (0..63)
  PROVE  /\ Holding(s, s)
         /\ Holding(s, A!SetRegSP(s, r, w)) /\ KeepsBut(s, A!SetRegSP(s, r, w), r)
<1>1. Holding(s, s)
  BY Zenon DEF IsProcessor, Holding, A!Reg
<1> DEFINE t == A!SetRegSP(s, r, w)
<1>2. Becomes(s, t, [s.x EXCEPT ![r] = w], s.v, s.pc, s.nzcv, s.stores)
  BY SetsRegSP, Zenon DEF IsProcessor
<1>3. IsCpu(t) /\ t.stores = <<>> /\ t.v = s.v /\ t.x = [s.x EXCEPT ![r] = w] /\ DOMAIN s.x = 0..31
  BY <1>2, Zenon DEF Becomes, IsProcessor, IsCpu
<1> HIDE DEF t
<1>4. \A q \in 0..31 : t.x[q] = IF q = r THEN w ELSE s.x[q]
  BY <1>3
<1>5. \A q \in 0..31 : A!Reg(t, q) = IF q = 31 THEN {} ELSE IF q = r THEN w ELSE s.x[q]
  BY <1>4 DEF A!Reg
<1>6. Holding(s, t)
  <2>1. ASSUME NEW q \in 0..31 PROVE A!Reg(t, q) \in SUBSET (0..63)
    <3>1. s.x[q] \subseteq 0..63
      BY Zenon DEF IsProcessor
    <3>2. A!Reg(t, q) = {} \/ A!Reg(t, q) = w \/ A!Reg(t, q) = s.x[q]
      BY <1>5
    <3> QED
      BY <3>1, <3>2, Zenon
  <2>2. \A q \in 0..31 : t.v[q][1] \in SUBSET (0..63) /\ t.v[q][2] \in SUBSET (0..63)
    BY <1>3, Zenon DEF IsProcessor
  <2> QED
    BY <1>3, <2>1, <2>2, Zenon DEF Holding
<1>7. KeepsBut(s, t, r)
  BY <1>5 DEF KeepsBut, A!Reg
<1> QED
  BY <1>1, <1>6, <1>7 DEF t

StoresAsArm(s, i, t) == t.error = TRUE \/ StoredBytes(t.stores) = A!ArmStores(s, i)

\* An access of one element, at the place of the architecture and with the
\* register that it stores as it was.
LEMMA OneIsArm ==
  ASSUME NEW s, IsProcessor(s), NEW i, NEW t, Holding(s, t),
         NEW a \in SUBSET (0..63), a = Place(s, i)
  PROVE  /\ handler \in {"LdStUnsigned", "LdStImm9", "LdStRegOff"} /\ A!Scale(i) = A!Size(i) =>
              (A!Reg(t, A!Rd(i)) = A!Reg(s, A!Rd(i)) => StoresAsArm(s, i, A!DoLoadStore(t, i, a)))
         /\ handler \in {"LdStSIMDUnsigned", "LdStSIMDImm9"} /\ A!Scale(i) = A!SimdScale(i) =>
              StoresAsArm(s, i, A!LdStSIMD(t, i, a))
<1>1. A!Rd(i) \in 0..31 /\ A!Size(i) \in {0, 1, 2, 3} /\ A!SimdScale(i) \in {0, 1, 2, 3, 4}
  <2>1. BitOf(i, 30) \in {0, 1} /\ BitOf(i, 31) \in {0, 1}
        /\ A!Size(i) = BitOf(i, 30) + 2 * BitOf(i, 31)
    BY Fields
  <2>2. A!Size(i) \in {0, 1, 2, 3}
    BY <2>1
  <2> QED
    BY <2>2, Fields DEF A!SimdScale
<1>2. OneStores(t, i, a) /\ OneSimdStores(t, i, a)
  BY <1>1, OneElement DEF Holding
<1>3. ASSUME handler \in {"LdStUnsigned", "LdStImm9", "LdStRegOff"}, A!Scale(i) = A!Size(i),
             A!Reg(t, A!Rd(i)) = A!Reg(s, A!Rd(i))
      PROVE  StoresAsArm(s, i, A!DoLoadStore(t, i, a))
  <2>1. handler \in A!Accesses \ A!Pairs /\ handler \notin A!Vectors
    BY <1>3 DEF A!Accesses, A!Pairs, A!Vectors
  <2>2. A!Loads(i) <=> A!Field(i, 23, 22) # 0
    <3>1. handler \in A!Accesses \ (A!Literals \cup A!Pairs \cup A!Vectors)
      BY <1>3 DEF A!Accesses, A!Pairs, A!Vectors, A!Literals
    <3>2. handler \notin A!Literals /\ handler \notin (A!Pairs \cup A!Vectors) \ A!Literals
      BY <3>1
    <3> QED
      BY <3>1, <3>2, Zenon DEF A!Loads
  <2>3. OneGiven(s, i) = Given(a, 2^A!Size(i), A!Reg(t, A!Rd(i)))
    BY <1>3, <2>1 DEF OneGiven, Carried, A!ArmReg, A!Reg
  <2>4. /\ A!Loads(i) => A!ArmStores(s, i) = {}
        /\ ~A!Loads(i) => A!ArmStores(s, i) = OneGiven(s, i)
    BY <1>1, <1>3, <2>1, ArmStored
  <2> QED
    BY <1>2, <2>2, <2>3, <2>4 DEF OneStores, StoresAsArm
<1>4. ASSUME handler \in {"LdStSIMDUnsigned", "LdStSIMDImm9"}, A!Scale(i) = A!SimdScale(i)
      PROVE  StoresAsArm(s, i, A!LdStSIMD(t, i, a))
  <2>1. handler \in A!Accesses \ A!Pairs /\ handler \in A!Vectors /\ handler \notin A!Literals
    BY <1>4 DEF A!Accesses, A!Pairs, A!Vectors, A!Literals
  <2>2. A!Loads(i) <=> 22 \in i
    <3>1. handler \in (A!Pairs \cup A!Vectors) \ A!Literals
          /\ handler \notin A!Accesses \ (A!Literals \cup A!Pairs \cup A!Vectors)
      BY <2>1
    <3> QED
      BY <2>1, <3>1, Zenon DEF A!Loads
  <2>3. OneGiven(s, i) = Given(a, 2^A!SimdScale(i), A!VectorBits(t, A!Rd(i)))
    BY <1>4, <2>1 DEF OneGiven, Carried, A!VectorBits, Holding
  <2>4. /\ A!Loads(i) => A!ArmStores(s, i) = {}
        /\ ~A!Loads(i) => A!ArmStores(s, i) = OneGiven(s, i)
    BY <1>1, <1>4, <2>1, ArmStored
  <2> QED
    BY <1>2, <2>2, <2>3, <2>4 DEF OneSimdStores, StoresAsArm
<1> QED
  BY <1>3, <1>4

\* An instruction that does not access memory, or that loads a literal.
LEMMA NoneIsArm ==
  ASSUME NEW s, NEW i, NEW t, t.stores = <<>>, handler \notin A!Accesses \/ A!Loads(i)
  PROVE  StoresAsArm(s, i, t)
<1>1. A!ArmStores(s, i) = {}
  BY DEF A!ArmStores
<1> QED
  BY <1>1, NothingStored DEF StoresAsArm

\* The single accesses of the code.
LEMMA SingleStores ==
  ASSUME NEW s, IsProcessor(s), NEW i, handler = A!Handler(i), ~A!LeftOpen(i)
  PROVE  /\ handler = "LdStUnsigned" => StoresAsArm(s, i, A!LdStUnsigned(s, i))
         /\ handler = "LdStSIMDUnsigned" => StoresAsArm(s, i, A!LdStSIMDUnsigned(s, i))
         /\ handler = "LdStImm9" => StoresAsArm(s, i, A!LdStImm9(s, i))
         /\ handler = "LdStSIMDImm9" => StoresAsArm(s, i, A!LdStSIMDImm9(s, i))
         /\ handler = "LdStRegOff" => StoresAsArm(s, i, A!LdStRegOff(s, i))
<1>0. /\ A!Rd(i) \in 0..31 /\ A!Rn(i) \in 0..31 /\ IsCpu(s)
      /\ A!RegSP(s, A!Rn(i)) \in SUBSET (0..63)
  BY Fields, Zenon DEF IsProcessor, A!RegSP
<1>1. Holding(s, s)
  BY <1>0, WritingBack
<1>2. ASSUME handler \in {"LdStUnsigned", "LdStSIMDUnsigned", "LdStRegOff"},
             A!Indexed(s, i) \in SUBSET (0..63)
      PROVE  Place(s, i) = A!Indexed(s, i)
  <2>1. ~A!PostIndexed(i)
    BY <1>2 DEF A!PostIndexed, A!Pairs
  <2> QED
    BY <2>1 DEF Place
<1>3. ASSUME handler = "LdStUnsigned" PROVE StoresAsArm(s, i, A!LdStUnsigned(s, i))
  <2>1. A!Scale(i) = A!Size(i) /\ Accessed(s, i, A!RegSP(s, A!Rn(i)), UnsignedOffset(i, A!Size(i)))
    BY <1>3, AccessesAt
  <2>2. /\ A!Indexed(s, i) = A!Plus(A!RegSP(s, A!Rn(i)), UnsignedOffset(i, A!Size(i)))
        /\ A!Indexed(s, i) \in SUBSET (0..63)
    BY <2>1 DEF Accessed
  <2>3. A!LdStUnsigned(s, i) = A!DoLoadStore(s, i, A!Indexed(s, i))
    BY <2>2 DEF A!LdStUnsigned, UnsignedOffset
  <2> QED
    BY <1>1, <1>2, <1>3, <2>1, <2>2, <2>3, OneIsArm
<1>4. ASSUME handler = "LdStSIMDUnsigned" PROVE StoresAsArm(s, i, A!LdStSIMDUnsigned(s, i))
  <2>1. /\ A!Scale(i) = A!SimdScale(i)
        /\ Accessed(s, i, A!RegSP(s, A!Rn(i)), UnsignedOffset(i, A!SimdScale(i)))
    BY <1>4, AccessesAt
  <2>2. /\ A!Indexed(s, i) = A!Plus(A!RegSP(s, A!Rn(i)), UnsignedOffset(i, A!SimdScale(i)))
        /\ A!Indexed(s, i) \in SUBSET (0..63)
    BY <2>1 DEF Accessed
  <2>3. A!LdStSIMDUnsigned(s, i) = A!LdStSIMD(s, i, A!Indexed(s, i))
    BY <2>2 DEF A!LdStSIMDUnsigned, UnsignedOffset
  <2> QED
    BY <1>1, <1>2, <1>4, <2>1, <2>2, <2>3, OneIsArm
<1>5. ASSUME handler = "LdStRegOff" PROVE StoresAsArm(s, i, A!LdStRegOff(s, i))
  <2>0. 14 \in i
    BY <1>5 DEF A!LeftOpen
  <2>1. A!Scale(i) = A!Size(i) /\ Accessed(s, i, A!RegSP(s, A!Rn(i)), RegOffset(s, i))
    BY <1>5, <2>0, AccessesAt
  <2>2. /\ A!Indexed(s, i) = A!Plus(A!RegSP(s, A!Rn(i)), RegOffset(s, i))
        /\ A!Indexed(s, i) \in SUBSET (0..63)
    BY <2>1 DEF Accessed
  <2>3. A!LdStRegOff(s, i) = A!DoLoadStore(s, i, A!Indexed(s, i))
    BY <2>2, Zenon DEF A!LdStRegOff, RegOffset
  <2> QED
    BY <1>1, <1>2, <1>5, <2>1, <2>2, <2>3, OneIsArm
<1>6. ASSUME handler \in {"LdStImm9", "LdStSIMDImm9"}, A!Field(i, 11, 10) # 2,
             Accessed(s, i, A!RegSP(s, A!Rn(i)), A!Imm9(i))
      PROVE  LET t == A!Imm9Written(s, i)
                 a == A!Imm9Address(s, i)
             IN /\ Holding(s, t) /\ (10 \in i => KeepsBut(s, t, A!Rn(i))) /\ (10 \notin i => t = s)
                /\ a = Place(s, i) /\ a \in SUBSET (0..63)
  <2>1. A!PostIndexed(i) <=> A!Field(i, 11, 10) = 1
    BY <1>6 DEF A!PostIndexed, A!Pairs
  <2>2. /\ A!Base(s, i) = A!RegSP(s, A!Rn(i))
        /\ A!Indexed(s, i) = A!Plus(A!RegSP(s, A!Rn(i)), A!Imm9(i))
        /\ A!Indexed(s, i) \in SUBSET (0..63)
    BY <1>6 DEF Accessed
  <2>3. A!Imm9Address(s, i) = Place(s, i) /\ Place(s, i) \in SUBSET (0..63)
    BY <1>0, <2>1, <2>2 DEF A!Imm9Address, Place
  <2>4. 10 \in i <=> A!Field(i, 11, 10) # 0
    BY <1>6, Fields
  <2>5. /\ 10 \in i => A!Imm9Written(s, i) = A!SetRegSP(s, A!Rn(i), A!Indexed(s, i))
        /\ 10 \notin i => A!Imm9Written(s, i) = s
    BY <2>2, <2>4 DEF A!Imm9Written
  <2>6. /\ Holding(s, A!SetRegSP(s, A!Rn(i), A!Indexed(s, i)))
        /\ KeepsBut(s, A!SetRegSP(s, A!Rn(i), A!Indexed(s, i)), A!Rn(i))
    BY <1>0, <2>2, WritingBack
  <2> QED
    BY <1>1, <2>3, <2>5, <2>6
<1>7. ASSUME handler = "LdStImm9" PROVE StoresAsArm(s, i, A!LdStImm9(s, i))
  <2>1. A!Scale(i) = A!Size(i) /\ Accessed(s, i, A!RegSP(s, A!Rn(i)), A!Imm9(i))
    BY <1>7, AccessesAt
  <2>2. CASE A!Field(i, 11, 10) = 2
    BY <1>0, <2>2, Faults DEF A!LdStImm9, StoresAsArm
  <2>3. CASE A!Field(i, 11, 10) # 2
    <3> DEFINE t == A!Imm9Written(s, i)
               a == A!Imm9Address(s, i)
    <3>1. /\ Holding(s, t) /\ (10 \in i => KeepsBut(s, t, A!Rn(i))) /\ (10 \notin i => t = s)
          /\ a = Place(s, i) /\ a \in SUBSET (0..63)
      BY <1>6, <1>7, <2>1, <2>3
    <3>2. A!LdStImm9(s, i) = A!DoLoadStore(t, i, a)
      BY <2>3 DEF A!LdStImm9
    <3>3. 10 \in i => A!Rd(i) # A!Rn(i) \/ A!Rd(i) = 31
      BY <1>7 DEF A!LeftOpen
    <3> HIDE DEF t, a
    <3>4. A!Reg(t, A!Rd(i)) = A!Reg(s, A!Rd(i))
      BY <1>0, <3>1, <3>3 DEF KeepsBut
    <3> QED
      BY <1>7, <2>1, <3>1, <3>2, <3>4, OneIsArm
  <2> QED
    BY <2>2, <2>3
<1>8. ASSUME handler = "LdStSIMDImm9" PROVE StoresAsArm(s, i, A!LdStSIMDImm9(s, i))
  <2>1. A!Scale(i) = A!SimdScale(i) /\ Accessed(s, i, A!RegSP(s, A!Rn(i)), A!Imm9(i))
    BY <1>8, AccessesAt
  <2>2. CASE A!Field(i, 11, 10) = 2
    BY <1>0, <2>2, Faults DEF A!LdStSIMDImm9, StoresAsArm
  <2>3. CASE A!Field(i, 11, 10) # 2
    <3> DEFINE t == A!Imm9Written(s, i)
               a == A!Imm9Address(s, i)
    <3>1. Holding(s, t) /\ a = Place(s, i) /\ a \in SUBSET (0..63)
      BY <1>6, <1>8, <2>1, <2>3
    <3>2. A!LdStSIMDImm9(s, i) = A!LdStSIMD(t, i, a)
      BY <2>3 DEF A!LdStSIMDImm9
    <3> HIDE DEF t, a
    <3> QED
      BY <1>8, <2>1, <3>1, <3>2, OneIsArm
  <2> QED
    BY <2>2, <2>3
<1> QED
  BY <1>3, <1>4, <1>5, <1>7, <1>8

\* Two stores after each other.
TwoStored(t, a, b, q, r) ==
  \A k \in {4, 8} :
    StoredBytes(A!Advance(A!Store(A!Store(t, a, k, A!Reg(t, q)), b, k, A!Reg(t, r))).stores) =
      Given(a, k, A!Reg(t, q)) \cup Given(b, k, A!Reg(t, r))
TwoSimdStored(t, a, b, q, r) ==
  \A k \in {4, 8, 16} :
    StoredBytes(A!Advance(A!DoSIMDStore(A!DoSIMDStore(t, a, q, k), b, r, k)).stores) =
      Given(a, k, A!VectorBits(t, q)) \cup Given(b, k, A!VectorBits(t, r))

\* Two stores after each other write the bytes of both.
LEMMA TwoElements ==
  ASSUME NEW t, IsCpu(t), t.stores = <<>>, NEW a \in SUBSET (0..63), NEW b \in SUBSET (0..63),
         NEW q \in 0..31, NEW r \in 0..31,
         \A p \in 0..31 : A!Reg(t, p) \in SUBSET (0..63),
         \A p \in 0..31 : t.v[p][1] \in SUBSET (0..63) /\ t.v[p][2] \in SUBSET (0..63)
  PROVE  TwoStored(t, a, b, q, r) /\ TwoSimdStored(t, a, b, q, r)
<1>1. t.stores \in Seq(Stored) /\ StoredBytes(t.stores) = {}
  BY NothingStored
<1>2. ASSUME NEW u, IsCpu(u)
      PROVE  StoredBytes(A!Advance(u).stores) = StoredBytes(u.stores)
  BY <1>2, Finishes DEF Finished
<1>3. ASSUME NEW k \in {4, 8}
      PROVE  StoredBytes(A!Advance(A!Store(A!Store(t, a, k, A!Reg(t, q)), b, k, A!Reg(t, r))).stores) =
               Given(a, k, A!Reg(t, q)) \cup Given(b, k, A!Reg(t, r))
  <2> DEFINE u == A!Store(t, a, k, A!Reg(t, q))
             w == A!Store(u, b, k, A!Reg(t, r))
  <2>1. k \in {1, 2, 4, 8}
    OBVIOUS
  <2>2. Adding(t, u, a, k, A!Reg(t, q))
    BY <1>1, <2>1, StoreAdds, Zenon
  <2>3. IsCpu(u) /\ u.stores \in Seq(Stored)
    BY <2>2 DEF Adding
  <2> HIDE DEF u
  <2>4. Adding(u, w, b, k, A!Reg(t, r))
    BY <2>1, <2>3, StoreAdds
  <2> HIDE DEF w
  <2>5. StoredBytes(w.stores) = Given(a, k, A!Reg(t, q)) \cup Given(b, k, A!Reg(t, r))
    BY <1>1, <2>2, <2>4 DEF Adding
  <2>6. StoredBytes(A!Advance(w).stores) = StoredBytes(w.stores)
    BY <1>2, <2>4 DEF Adding
  <2> QED
    BY <2>5, <2>6 DEF u, w
<1>4. ASSUME NEW k \in {4, 8, 16}
      PROVE  StoredBytes(A!Advance(A!DoSIMDStore(A!DoSIMDStore(t, a, q, k), b, r, k)).stores) =
               Given(a, k, A!VectorBits(t, q)) \cup Given(b, k, A!VectorBits(t, r))
  <2> DEFINE u == A!DoSIMDStore(t, a, q, k)
             w == A!DoSIMDStore(u, b, r, k)
  <2>1. k \in {1, 2, 4, 8, 16}
    OBVIOUS
  <2>2. Adding(t, u, a, k, A!VectorBits(t, q))
    BY <1>1, <2>1, SimdStoreAdds, Zenon
  <2>3. IsCpu(u) /\ u.stores \in Seq(Stored) /\ u.v = t.v
    BY <2>2 DEF Adding
  <2> HIDE DEF u
  <2>4. Adding(u, w, b, k, A!VectorBits(u, r))
    BY <2>1, <2>3, SimdStoreAdds, Zenon
  <2>5. A!VectorBits(u, r) = A!VectorBits(t, r)
    BY <2>3 DEF A!VectorBits
  <2> HIDE DEF w
  <2>6. StoredBytes(w.stores) = Given(a, k, A!VectorBits(t, q)) \cup Given(b, k, A!VectorBits(t, r))
    BY <1>1, <2>2, <2>4, <2>5 DEF Adding
  <2>7. StoredBytes(A!Advance(w).stores) = StoredBytes(w.stores)
    BY <1>2, <2>4 DEF Adding
  <2> QED
    BY <2>6, <2>7 DEF u, w
<1> QED
  BY <1>3, <1>4 DEF TwoStored, TwoSimdStored

\* What only loads stores nothing.
Storeless(t) == IsCpu(t) /\ t.stores = <<>>

\* Writing registers stores nothing.
LEMMA Loading ==
  ASSUME NEW t, Storeless(t)
  PROVE  /\ Storeless(A!Advance(t))
         /\ \A r, w : Storeless(A!SetReg(t, r, w)) /\ Storeless(A!SetRegSP(t, r, w))
         /\ \A r, lo, hi : Storeless(A!SetVector(t, r, lo, hi))
         /\ \A a, r, k : Storeless(A!DoSIMDLoad(t, a, r, k))
<1>1. Becomes(t, A!Advance(t), t.x, t.v, A!Plus(t.pc, {2}), t.nzcv, t.stores)
  BY Advances DEF Storeless
<1>2. ASSUME NEW r, NEW w
      PROVE  Storeless(A!SetReg(t, r, w)) /\ Storeless(A!SetRegSP(t, r, w))
  <2>1. Becomes(t, A!SetReg(t, r, w), IF r = 31 THEN t.x ELSE [t.x EXCEPT ![r] = w],
                t.v, t.pc, t.nzcv, t.stores)
    BY SetsReg DEF Storeless
  <2>2. Becomes(t, A!SetRegSP(t, r, w), [t.x EXCEPT ![r] = w], t.v, t.pc, t.nzcv, t.stores)
    BY SetsRegSP DEF Storeless
  <2> QED
    BY <2>1, <2>2 DEF Becomes, Storeless
<1>3. ASSUME NEW r, NEW lo, NEW hi
      PROVE  Storeless(A!SetVector(t, r, lo, hi))
  <2>1. Becomes(t, A!SetVector(t, r, lo, hi), t.x, [t.v EXCEPT ![r] = <<lo, hi>>],
                t.pc, t.nzcv, t.stores)
    BY SetsVector DEF Storeless
  <2> QED
    BY <2>1 DEF Becomes, Storeless
<1>4. \A a, r, k : Storeless(A!DoSIMDLoad(t, a, r, k))
  BY <1>3 DEF A!DoSIMDLoad
<1> QED
  BY <1>1, <1>2, <1>3, <1>4 DEF Becomes, Storeless

\* The accesses of pairs.
LEMMA PairStores ==
  ASSUME NEW s, IsProcessor(s), NEW i, handler = A!Handler(i), ~A!LeftOpen(i)
  PROVE  /\ handler = "LdStPair" => StoresAsArm(s, i, A!LdStPair(s, i))
         /\ handler = "LdStPairSIMD" => StoresAsArm(s, i, A!LdStPairSIMD(s, i))
<1>0. /\ A!Rd(i) \in 0..31 /\ A!Ra(i) \in 0..31 /\ A!Rn(i) \in 0..31 /\ IsCpu(s)
      /\ A!RegSP(s, A!Rn(i)) \in SUBSET (0..63) /\ Storeless(s)
  BY Fields, Zenon DEF IsProcessor, A!RegSP, Storeless
<1>1. Holding(s, s)
  BY <1>0, WritingBack
<1>2. 2^2 = 4 /\ 2^3 = 8 /\ 2^4 = 16
  OBVIOUS
<1>3. A!PairRefused(i) => A!LdStPair(s, i).error = TRUE /\ A!LdStPairSIMD(s, i).error = TRUE
  <2>1. A!PairRefused(i) => A!LdStPair(s, i) = A!Fault(s) /\ A!LdStPairSIMD(s, i) = A!Fault(s)
    BY DEF A!LdStPair, A!LdStPairSIMD
  <2> QED
    BY <1>0, <2>1, Faults
<1>4. ASSUME NEW k, handler \in A!Pairs, ~A!PairRefused(i),
             Accessed(s, i, A!RegSP(s, A!Rn(i)), A!PairOffset(i, k))
      PROVE  LET t == A!PairWritten(s, i, k)
                 a == A!PairAddress(s, i, k)
             IN /\ Holding(s, t) /\ (23 \in i => KeepsBut(s, t, A!Rn(i))) /\ (23 \notin i => t = s)
                /\ a = Place(s, i) /\ a \in SUBSET (0..63)
  <2>1. A!Field(i, 25, 23) \in {1, 2, 3}
    BY <1>4 DEF A!PairRefused
  <2>2. A!PostIndexed(i) <=> A!Field(i, 25, 23) = 1
    BY <1>4 DEF A!PostIndexed, A!Pairs
  <2>3. /\ A!Base(s, i) = A!RegSP(s, A!Rn(i))
        /\ A!Indexed(s, i) = A!Plus(A!RegSP(s, A!Rn(i)), A!PairOffset(i, k))
        /\ A!Indexed(s, i) \in SUBSET (0..63)
    BY <1>4 DEF Accessed
  <2>4. A!PairAddress(s, i, k) = Place(s, i) /\ Place(s, i) \in SUBSET (0..63)
    BY <1>0, <2>2, <2>3 DEF A!PairAddress, Place
  <2>5. 23 \in i <=> A!Field(i, 25, 23) # 2
    <3>1. /\ A!Field(i, 25, 23) = BitOf(i, 23) + 2 * BitOf(i, 24) + 4 * BitOf(i, 25)
          /\ BitOf(i, 23) \in {0, 1} /\ BitOf(i, 24) \in {0, 1} /\ BitOf(i, 25) \in {0, 1}
          /\ (BitOf(i, 23) = 1 <=> 23 \in i)
      BY Fields
    <3> QED
      BY <2>1, <3>1
  <2>6. /\ 23 \in i => A!PairWritten(s, i, k) = A!SetRegSP(s, A!Rn(i), A!Indexed(s, i))
        /\ 23 \notin i => A!PairWritten(s, i, k) = s
    BY <2>3, <2>5 DEF A!PairWritten
  <2>7. /\ Holding(s, A!SetRegSP(s, A!Rn(i), A!Indexed(s, i)))
        /\ KeepsBut(s, A!SetRegSP(s, A!Rn(i), A!Indexed(s, i)), A!Rn(i))
    BY <1>0, <2>3, WritingBack
  <2> QED
    BY <1>1, <2>4, <2>6, <2>7
<1>5. ASSUME handler \in A!Pairs
      PROVE  /\ A!Loads(i) <=> 22 \in i
             /\ handler \in A!Accesses
  <2>1. handler \notin A!Literals /\ handler \in (A!Pairs \cup A!Vectors) \ A!Literals
        /\ handler \notin A!Accesses \ (A!Literals \cup A!Pairs \cup A!Vectors)
    BY <1>5 DEF A!Pairs, A!Literals
  <2> QED
    BY <1>5, <2>1, Zenon DEF A!Loads, A!Accesses
<1>6. ASSUME handler = "LdStPair", ~A!PairRefused(i)
      PROVE  StoresAsArm(s, i, A!LdStPair(s, i))
  <2> DEFINE k == PairScale(i)
             bytes == 2^k
             t == A!PairWritten(s, i, k)
             a == A!PairAddress(s, i, k)
             b == A!Plus(a, A!Word(bytes))
  <2>0. handler \in A!Pairs /\ handler \notin A!Vectors
    BY <1>6 DEF A!Pairs, A!Vectors
  <2>1. A!Scale(i) = k /\ Accessed(s, i, A!RegSP(s, A!Rn(i)), A!PairOffset(i, k))
    BY <1>6, AccessesAt
  <2>2. /\ Holding(s, t) /\ (23 \in i => KeepsBut(s, t, A!Rn(i))) /\ (23 \notin i => t = s)
        /\ a = Place(s, i) /\ a \in SUBSET (0..63)
    BY <1>4, <1>6, <2>0, <2>1
  <2>3. k \in {2, 3} /\ bytes \in {4, 8}
    BY <1>2 DEF PairScale
  <2>4. b \in SUBSET (0..63)
    <3>1. a \in SUBSET Nat /\ A!Word(bytes) \in SUBSET Nat
      BY <2>2 DEF A!Word
    <3> HIDE DEF a, bytes
    <3> QED
      BY <3>1, PlusIs
  <2>5. CASE 22 \in i
    <3>1. \E r, q, w, u : A!LdStPair(s, i) = A!Advance(A!SetReg(A!SetReg(t, r, q), w, u))
      BY <1>6, <2>5, Zenon DEF A!LdStPair, PairScale
    <3>2. Storeless(t)
      BY <2>2 DEF Holding, Storeless
    <3> HIDE DEF t
    <3>3. \A r, q : Storeless(A!SetReg(t, r, q))
      BY <3>2, Loading
    <3>4. \A r, q, w, u : Storeless(A!SetReg(A!SetReg(t, r, q), w, u))
      BY <3>3, Loading
    <3>5. \A r, q, w, u : Storeless(A!Advance(A!SetReg(A!SetReg(t, r, q), w, u)))
      BY <3>4, Loading
    <3>6. Storeless(A!LdStPair(s, i))
      BY <3>1, <3>5
    <3> QED
      BY <1>5, <2>0, <2>5, <3>6, NoneIsArm DEF Storeless
  <2>6. CASE 22 \notin i
    <3>1. A!Size(i) # 1
      BY <1>6, <2>6 DEF A!LeftOpen
    <3>2. A!LdStPair(s, i) =
            A!Advance(A!Store(A!Store(t, a, bytes, A!Reg(t, A!Rd(i))), b, bytes, A!Reg(t, A!Ra(i))))
      BY <1>6, <2>6, <3>1, Zenon DEF A!LdStPair, PairScale
    <3>3. /\ 23 \in i => A!Rd(i) # A!Rn(i) \/ A!Rd(i) = 31
          /\ 23 \in i => A!Ra(i) # A!Rn(i) \/ A!Ra(i) = 31
      BY <1>6 DEF A!LeftOpen
    <3> HIDE DEF t, a, b, bytes, k
    <3>4. A!Reg(t, A!Rd(i)) = A!Reg(s, A!Rd(i)) /\ A!Reg(t, A!Ra(i)) = A!Reg(s, A!Ra(i))
      BY <1>0, <2>2, <3>3 DEF KeepsBut
    <3>9. TwoStored(t, a, b, A!Rd(i), A!Ra(i))
      BY <1>0, <2>2, <2>4, TwoElements, Zenon DEF Holding
    <3>5. StoredBytes(A!LdStPair(s, i).stores) =
            Given(a, bytes, A!Reg(t, A!Rd(i))) \cup Given(b, bytes, A!Reg(t, A!Ra(i)))
      BY <2>3, <3>2, <3>9 DEF TwoStored
    <3>6. A!ArmStores(s, i) = OneGiven(s, i) \cup TwoGiven(s, i)
      BY <1>5, <2>0, <2>1, <2>2, <2>3, <2>6, ArmStored
    <3>7. \A r : Carried(s, r) = A!Reg(s, r)
      BY <2>0 DEF Carried, A!ArmReg, A!Reg
    <3>8. /\ OneGiven(s, i) = Given(a, bytes, A!Reg(t, A!Rd(i)))
          /\ TwoGiven(s, i) = Given(b, bytes, A!Reg(t, A!Ra(i)))
      BY <2>1, <2>2, <3>4, <3>7 DEF OneGiven, TwoGiven, b, bytes
    <3> QED
      BY <3>5, <3>6, <3>8 DEF StoresAsArm
  <2> QED
    BY <2>5, <2>6
<1>7. ASSUME handler = "LdStPairSIMD", ~A!PairRefused(i)
      PROVE  StoresAsArm(s, i, A!LdStPairSIMD(s, i))
  <2> DEFINE k == A!Size(i) + 2
             bytes == 2^k
             t == A!PairWritten(s, i, k)
             a == A!PairAddress(s, i, k)
             b == A!Plus(a, A!Word(bytes))
  <2>0. handler \in A!Pairs /\ handler \in A!Vectors
    BY <1>7 DEF A!Pairs, A!Vectors
  <2>1. A!Scale(i) = k /\ Accessed(s, i, A!RegSP(s, A!Rn(i)), A!PairOffset(i, k))
    BY <1>7, AccessesAt
  <2>2. /\ Holding(s, t) /\ (23 \in i => KeepsBut(s, t, A!Rn(i))) /\ (23 \notin i => t = s)
        /\ a = Place(s, i) /\ a \in SUBSET (0..63)
    BY <1>4, <1>7, <2>0, <2>1
  <2>3. k \in {2, 3, 4}
    <3>1. BitOf(i, 30) \in {0, 1} /\ BitOf(i, 31) \in {0, 1}
          /\ A!Size(i) = BitOf(i, 30) + 2 * BitOf(i, 31)
      BY Fields
    <3>2. A!Size(i) # 3
      BY <1>7 DEF A!PairRefused
    <3> QED
      BY <3>1, <3>2
  <2>30. bytes \in {4, 8, 16}
    BY <1>2, <2>3
  <2>4. b \in SUBSET (0..63)
    <3>1. a \in SUBSET Nat /\ A!Word(bytes) \in SUBSET Nat
      BY <2>2 DEF A!Word
    <3> HIDE DEF a, bytes
    <3> QED
      BY <3>1, PlusIs
  <2>5. CASE 22 \in i
    <3>1. A!LdStPairSIMD(s, i) = A!Advance(A!DoSIMDLoad(A!DoSIMDLoad(t, a, A!Rd(i), bytes), b, A!Ra(i), bytes))
      BY <1>7, <2>5, Zenon DEF A!LdStPairSIMD
    <3>2. Storeless(t)
      BY <2>2 DEF Holding, Storeless
    <3> HIDE DEF t, a, b, bytes
    <3>3. Storeless(A!DoSIMDLoad(t, a, A!Rd(i), bytes))
      BY <3>2, Loading
    <3>4. Storeless(A!DoSIMDLoad(A!DoSIMDLoad(t, a, A!Rd(i), bytes), b, A!Ra(i), bytes))
      BY <3>3, Loading
    <3>6. Storeless(A!LdStPairSIMD(s, i))
      BY <3>1, <3>4, Loading
    <3> QED
      BY <1>5, <2>0, <2>5, <3>6, NoneIsArm DEF Storeless
  <2>6. CASE 22 \notin i
    <3>2. A!LdStPairSIMD(s, i) =
            A!Advance(A!DoSIMDStore(A!DoSIMDStore(t, a, A!Rd(i), bytes), b, A!Ra(i), bytes))
      BY <1>7, <2>6, Zenon DEF A!LdStPairSIMD
    <3> HIDE DEF t, a, b, bytes, k
    <3>9. TwoSimdStored(t, a, b, A!Rd(i), A!Ra(i))
      BY <1>0, <2>2, <2>4, TwoElements, Zenon DEF Holding
    <3>5. StoredBytes(A!LdStPairSIMD(s, i).stores) =
            Given(a, bytes, A!VectorBits(t, A!Rd(i))) \cup Given(b, bytes, A!VectorBits(t, A!Ra(i)))
      BY <2>30, <3>2, <3>9 DEF TwoSimdStored
    <3>6. A!ArmStores(s, i) = OneGiven(s, i) \cup TwoGiven(s, i)
      BY <1>5, <2>0, <2>1, <2>2, <2>3, <2>6, ArmStored
    <3>7. \A r : Carried(s, r) = A!VectorBits(t, r)
      BY <2>0, <2>2 DEF Carried, A!VectorBits, Holding
    <3>8. /\ OneGiven(s, i) = Given(a, bytes, A!VectorBits(t, A!Rd(i)))
          /\ TwoGiven(s, i) = Given(b, bytes, A!VectorBits(t, A!Ra(i)))
      BY <2>1, <2>2, <3>7 DEF OneGiven, TwoGiven, b, bytes
    <3> QED
      BY <3>5, <3>6, <3>8 DEF StoresAsArm
  <2> QED
    BY <2>5, <2>6
<1> QED
  BY <1>3, <1>6, <1>7, Zenon DEF StoresAsArm

\* The vectors that instructions leave are not stored.
VectorHandlers == {"FmovDX", "FmovTopX", "FmovSW", "FmovImm", "DUP", "INS", "SHL", "MOVI", "XTN",
                   "EXT", "REV64Vec", "AdvSIMD3Same", "LdrSIMDLiteral"}

Unstored(t) == t.error = TRUE \/ t.stores = <<>>

\* The handlers that leave a vector store nothing.
LEMMA VectorsUnstored ==
  ASSUME NEW s, Storeless(s), NEW i
  PROVE
    /\ Unstored(A!FmovDX(s, i))
    /\ Unstored(A!FmovTopX(s, i))
    /\ Unstored(A!FmovSW(s, i))
    /\ Unstored(A!FmovImm(s, i))
    /\ Unstored(A!DUP(s, i))
    /\ Unstored(A!INS(s, i))
    /\ Unstored(A!SHL(s, i))
    /\ Unstored(A!MOVI(s, i))
    /\ Unstored(A!XTN(s, i))
    /\ Unstored(A!EXT(s, i))
    /\ Unstored(A!REV64Vec(s, i))
    /\ Unstored(A!AdvSIMD3Same(s, i))
    /\ Unstored(A!LdrSIMDLiteral(s, i))
<1>1. Unstored(A!Fault(s)) /\ Unstored(A!Advance(s))
  BY Faults, Loading DEF Storeless, Unstored
<1>2. ASSUME NEW r, NEW lo, NEW hi
      PROVE  Unstored(A!Advance(A!SetVector(s, r, lo, hi)))
  <2>1. Storeless(A!SetVector(s, r, lo, hi))
    BY Loading
  <2>2. Storeless(A!Advance(A!SetVector(s, r, lo, hi)))
    BY <2>1, Loading
  <2> QED
    BY <2>2 DEF Storeless, Unstored
<1>3. \A lo, hi : Unstored(A!Advance(A!SetVectorQ(s, i, lo, hi)))
  BY <1>2 DEF A!SetVectorQ
<1>4. ASSUME NEW a, NEW r, NEW k
      PROVE  Unstored(A!Advance(A!DoSIMDLoad(s, a, r, k)))
  <2>1. Storeless(A!DoSIMDLoad(s, a, r, k))
    BY Loading
  <2>2. Storeless(A!Advance(A!DoSIMDLoad(s, a, r, k)))
    BY <2>1, Loading
  <2> QED
    BY <2>2 DEF Storeless, Unstored
<1>11. Unstored(A!FmovDX(s, i))
  BY <1>2, Zenon DEF A!FmovDX
<1>12. Unstored(A!FmovTopX(s, i))
  BY <1>2, Zenon DEF A!FmovTopX
<1>13. Unstored(A!FmovSW(s, i))
  BY <1>2, Zenon DEF A!FmovSW
<1>14. Unstored(A!FmovImm(s, i))
  BY <1>2, Zenon DEF A!FmovImm
<1>15. Unstored(A!DUP(s, i))
  BY <1>3 DEF A!DUP
<1>16. Unstored(A!INS(s, i))
  <2> DEFINE e == A!Element(i)
             at == A!ElementAt(i)
  <2> HIDE DEF e, at
  <2>1. e = 0 \/ (e > 0 /\ at < 64) \/ (e > 0 /\ at >= 64)
    BY ElementIs DEF e, at
  <2> QED
    BY <1>1, <1>2, <2>1, Zenon DEF A!INS, e, at
<1>17. Unstored(A!SHL(s, i))
  BY <1>3 DEF A!SHL
<1>18. Unstored(A!MOVI(s, i))
  BY <1>3 DEF A!MOVI
<1>19. Unstored(A!XTN(s, i))
  BY <1>2, Zenon DEF A!XTN
<1>20. Unstored(A!EXT(s, i))
  BY <1>2, Zenon DEF A!EXT
<1>21. Unstored(A!REV64Vec(s, i))
  BY <1>3 DEF A!REV64Vec
<1>22. Unstored(A!AdvSIMD3Same(s, i))
  BY <1>1, <1>3 DEF A!AdvSIMD3Same
<1>23. Unstored(A!LdrSIMDLiteral(s, i))
  BY <1>4, Zenon DEF A!LdrSIMDLiteral
<1> QED
  BY <1>11, <1>12, <1>13, <1>14, <1>15, <1>16, <1>17, <1>18, <1>19, <1>20, <1>21, <1>22, <1>23

\* Handlers that store nothing.
LEMMA NoneStores ==
  ASSUME NEW s, IsProcessor(s), NEW i, A!Handler(i) \in FlagSetters \cup Quiets \cup BranchHandlers \cup VectorHandlers
  PROVE  Unstored(A!Executed(s, i))
<1>0. IsCpu(s) /\ s.stores = <<>> /\ Storeless(s)
  BY Zenon DEF IsProcessor, Storeless
<1>1. Dispatched(s, i)
  BY Dispatches
<1>2. CASE A!Handler(i) \in Quiets
  <2>1. \A t : Goes(s, t) => Unstored(t)
    BY <1>0 DEF Goes, Leaves, Unstored
  <2> QED
    BY <1>0, <1>1, <1>2, <2>1, Results DEF Dispatched, Quiets
<1>3. CASE A!Handler(i) \in VectorHandlers
  BY <1>0, <1>1, <1>3, VectorsUnstored DEF Dispatched, VectorHandlers
<1>4. CASE A!Handler(i) \in FlagSetters
  <2>1. \A t, nz : Flags(s, t, nz) => Unstored(t)
    BY <1>0 DEF Flags, Unstored
  <2> QED
    BY <1>0, <1>1, <1>4, <2>1, FlagHandlers DEF Dispatched, FlagSetters
<1>5. CASE A!Handler(i) \in BranchHandlers
  <2>1. \A w : Storeless(A!Jump(s, w)) /\ Storeless(A!Jump(A!Link(s), w))
    <3>1. ASSUME NEW t, Storeless(t), NEW w PROVE Storeless(A!Jump(t, w))
      <4>1. Becomes(t, A!Jump(t, w), t.x, t.v, w, t.nzcv, t.stores)
        BY <3>1, Jumps DEF Storeless
      <4> QED
        BY <3>1, <4>1 DEF Becomes, Storeless
    <3>2. Storeless(A!Link(s))
      BY <1>0, Loading DEF A!Link
    <3> QED
      BY <1>0, <3>1, <3>2
  <2>2. /\ \A w : Unstored(A!Jump(s, w)) /\ Unstored(A!Jump(A!Link(s), w))
        /\ Unstored(A!Advance(s)) /\ Unstored(A!Fault(s))
    BY <1>0, <2>1, Loading, Faults DEF Storeless, Unstored
  <2>3. Unstored(A!BUncond(s, i)) /\ Unstored(A!BCond(s, i)) /\ Unstored(A!CBx(s, i))
        /\ Unstored(A!TBx(s, i))
    BY <2>2 DEF A!BUncond, A!BCond, A!CBx, A!TBx
  <2>4. Unstored(A!BranchReg(s, i))
    BY <2>2, Zenon DEF A!BranchReg
  <2> QED
    BY <1>1, <1>5, <2>3, <2>4 DEF Dispatched, BranchHandlers
<1> QED
  BY <1>2, <1>3, <1>4, <1>5

\* Stores write exactly the bytes of the architecture, and what is not a store
\* writes none.
THEOREM AddressesSafe == MachineSpec => []AddressesAsArm
<1>1. MachineInv => AddressesAsArm
  <2> SUFFICES ASSUME MachineInv, AsInArm
               PROVE  StoredBytes(cpu.stores) = A!ArmStores(from, inst)
    BY DEF AddressesAsArm
  <2>1. /\ IsProcessor(from) /\ handler = A!Handler(inst) /\ handler \in Handlers
        /\ inst \in Guest \cup Others /\ cpu = A!Executed(from, inst) /\ ~cpu.error
    BY ExecutedAs
  <2>2. ~A!LeftOpen(inst)
    BY <2>1, EncodingAssumption
  <2>3. Dispatched(from, inst)
    BY Dispatches
  <2>4. StoresAsArm(from, inst, cpu) => StoredBytes(cpu.stores) = A!ArmStores(from, inst)
    BY <2>1 DEF StoresAsArm
  <2>5. CASE handler \in {"LdStUnsigned", "LdStSIMDUnsigned", "LdStImm9", "LdStSIMDImm9", "LdStRegOff"}
    BY <2>1, <2>2, <2>3, <2>4, <2>5, SingleStores DEF Dispatched
  <2>6. CASE handler \in {"LdStPair", "LdStPairSIMD"}
    BY <2>1, <2>2, <2>3, <2>4, <2>6, PairStores DEF Dispatched
  <2>7. CASE handler \in FlagSetters \cup Quiets \cup BranchHandlers \cup VectorHandlers
    <3>1. cpu.stores = <<>>
      BY <2>1, <2>7, NoneStores DEF Unstored
    <3>2. handler \notin A!Accesses \/ A!Loads(inst)
      <4>1. CASE handler \in A!Literals
        BY <4>1, Zenon DEF A!Loads
      <4>2. CASE handler \notin A!Literals
        BY <2>7, <4>2 DEF FlagSetters, Quiets, BranchHandlers, VectorHandlers,
           A!Accesses, A!Literals, A!Pairs, A!Vectors
      <4> QED
        BY <4>1, <4>2
    <3> QED
      BY <2>4, <3>1, <3>2, NoneIsArm
  <2>8. handler \in {"LdStUnsigned", "LdStSIMDUnsigned", "LdStImm9", "LdStSIMDImm9", "LdStRegOff"}
          \cup {"LdStPair", "LdStPairSIMD"}
          \cup FlagSetters \cup Quiets \cup BranchHandlers \cup VectorHandlers
    BY <2>1, Kinds DEF Accessors, VectorHandlers
  <2> QED
    BY <2>5, <2>6, <2>7, <2>8
<1> QED
  BY <1>1, MachineInvariant, PTL

(***************************************************************************)
(* Flags.                                                                  *)
(***************************************************************************)
LEMMA Greatest ==
  ASSUME NEW S \in SUBSET (0..63), S # {}
  PROVE  A!Max(S) \in S /\ \A q \in S : q <= A!Max(S)
<1> DEFINE G(k) == (S \cap (0..k) = {}) \/ \E m \in S : m <= k /\ \A q \in S \cap (0..k) : q <= m
           T == {k \in Nat : G(k)}
<1>1. 0 \in T
  <2>1. S \cap (0..0) = {} \/ (0 \in S /\ \A q \in S \cap (0..0) : q <= 0)
    OBVIOUS
  <2> QED
    BY <2>1
<1>2. ASSUME NEW k \in Nat, k \in T PROVE k + 1 \in T
  <2>1. CASE k + 1 \in S
    <3>1. \A q \in S \cap (0..k+1) : q <= k + 1
      OBVIOUS
    <3>2. G(k + 1)
      BY <2>1, <3>1
    <3> QED
      BY <3>2
  <2>2. CASE k + 1 \notin S
    <3>1. S \cap (0..k+1) = S \cap (0..k) /\ \A m \in S : m <= k => m <= k + 1
      BY <2>2
    <3>2. G(k + 1)
      BY <1>2, <3>1
    <3> QED
      BY <3>2
  <2> QED
    BY <2>1, <2>2
<1>3. Nat \subseteq T
  <2> HIDE DEF T
  <2> QED
    BY <1>1, <1>2, Induct
<1>4. G(63)
  BY <1>3
<1>5. \E m \in S : \A q \in S : q <= m
  BY <1>4
<1>6. \E m \in S : \A q \in S : m >= q
  BY <1>5
<1>7. A!Max(S) \in S /\ \A q \in S : A!Max(S) >= q
  BY <1>6, Zenon DEF A!Max
<1> QED
  BY <1>7

\* The carry of the code: the sum has wrapped if it is less than an operand, or
\* with a carry in not greater.
LEMMA CarryOut ==
  ASSUME NEW x \in SUBSET (0..63), NEW y \in SUBSET (0..63), NEW carry \in {0, 1}
  PROVE  LET r == SumOf(x, y, carry) \cap (0..63)
         IN 64 \in CarriesOf(x, y, carry) <=> A!Less(r, x) \/ (carry = 1 /\ r = x)
<1> DEFINE C == CarriesOf(x, y, carry)
           r == SumOf(x, y, carry) \cap (0..63)
           D == A!Xor(r, x)
<1>0. x \in SUBSET Nat /\ y \in SUBSET Nat
  OBVIOUS
<1>1. \A k \in Nat : k + 1 \in C <=> (k \in x /\ k \in y) \/ ((k \in x \/ k \in y) /\ k \in C)
  BY <1>0, CarryNext, Zenon
<1>2. 0 \in C <=> carry = 1
  BY <1>0, CarryFirst DEF BitOf
<1>3. \A k \in 0..63 : k \in r <=> ((k \in x) # (k \in y)) # (k \in C)
  BY DEF SumOf
<1>4. D \in SUBSET (0..63) /\ \A k \in 0..63 : k \in D <=> ((k \in r) # (k \in x))
  BY DEF A!Xor, A!Positions
<1>5. r \in SUBSET (0..63) /\ (r = x <=> D = {})
  <2>1. r \in SUBSET (0..63)
    OBVIOUS
  <2> HIDE DEF r, D
  <2> QED
    BY <1>4, <2>1
<1>6. A!Less(r, x) <=> r # x /\ A!Max(D) \in x
  BY DEF A!Less
<1> HIDE DEF C, r, D
<1>7. \A k \in 0..63 : k \in D <=> ((k \in y) # (k \in C))
  BY <1>3, <1>4
<1>8. CASE D = {}
  <2> DEFINE T == {k \in Nat : k <= 64 => (k \in C <=> 0 \in C)}
  <2>1. 0 \in T
    OBVIOUS
  <2>2. ASSUME NEW k \in Nat, k \in T PROVE k + 1 \in T
    BY <1>1, <1>7, <1>8, <2>2
  <2>3. Nat \subseteq T
    <3> HIDE DEF T
    <3> QED
      BY <2>1, <2>2, Induct
  <2>4. 64 \in C <=> 0 \in C
    BY <2>3
  <2> QED
    BY <1>2, <1>5, <1>6, <1>8, <2>4 DEF C, r
<1>9. CASE D # {}
  <2> DEFINE m == A!Max(D)
             T == {k \in Nat : m + 1 + k <= 64 => (m + 1 + k \in C <=> m + 1 \in C)}
  <2>1. m \in D /\ m \in 0..63 /\ \A q \in D : q <= m
    BY <1>4, <1>9, Greatest
  <2> HIDE DEF m
  <2>2. m + 1 \in C <=> m \in x
    BY <1>1, <1>7, <2>1
  <2>3. \A k \in m+1..63 : k + 1 \in C <=> k \in C
    <3>1. \A k \in m+1..63 : k \in 0..63 /\ k \in Nat /\ k \notin D
      BY <2>1
    <3> QED
      BY <1>1, <1>7, <3>1
  <2>4. 0 \in T
    BY <2>1
  <2>5. ASSUME NEW k \in Nat, k \in T PROVE k + 1 \in T
    <3>1. m + 1 + (k + 1) <= 64 => m + 1 + k \in m+1..63 /\ m + 1 + k <= 64
      BY <2>1
    <3>2. m + 1 + (k + 1) = (m + 1 + k) + 1
      BY <2>1
    <3> QED
      BY <2>3, <2>5, <3>1, <3>2
  <2>6. Nat \subseteq T
    <3> HIDE DEF T
    <3> QED
      BY <2>4, <2>5, Induct
  <2>7. 63 - m \in T /\ m + 1 + (63 - m) = 64
    BY <2>1, <2>6
  <2>8. 64 \in C <=> m \in x
    BY <2>2, <2>7
  <2> QED
    BY <1>5, <1>6, <1>9, <2>8 DEF C, r, m
<1> QED
  BY <1>8, <1>9

\* The flags of a sum in the architecture: of the total, and of one that is a
\* digit longer.
ArmFlagsOf(x, y, carry, bits) ==
  LET total == A!ArmSum(x, y, carry, bits)
      longer == A!ArmSum(A!ArmExtend(x, bits, TRUE, bits+1), A!ArmExtend(y, bits, TRUE, bits+1),
                         carry, bits+1)
  IN <<bits - 1 \in total, total = {}, bits \in A!ArmSum(x, y, carry, bits+1),
       (bits \in longer) # (bits - 1 \in longer)>>

SumIs(x, y, carry, bits) ==
  /\ A!AddWithCarry(x, y, carry, bits).result = A!ArmSum(x, y, carry, bits)
  /\ A!AddWithCarry(x, y, carry, bits).nzcv = ArmFlagsOf(x, y, carry, bits)

\* The sums of the code have the flags of the architecture.
LEMMA AddWithCarryIs ==
  ASSUME NEW bits \in {32, 64}, NEW x \in SUBSET (0..bits-1), NEW y \in SUBSET (0..bits-1),
         NEW carry \in {0, 1}
  PROVE  SumIs(x, y, carry, bits)
<1> DEFINE C == CarriesOf(x, y, carry)
           S == SumOf(x, y, carry)
           r == A!Lower(A!AddCarry(x, y, carry), bits)
           top == bits - 1
<1>0. /\ x \in SUBSET Nat /\ y \in SUBSET Nat /\ x \in SUBSET (0..63) /\ y \in SUBSET (0..63)
      /\ bits \in 1..132 /\ bits + 1 \in 1..132 /\ top \in 0..63 /\ top \in Nat /\ bits \in Nat
      /\ top + 1 = bits
  <2>1. x \in SUBSET Nat /\ y \in SUBSET Nat
    OBVIOUS
  <2>2. 0..bits-1 \subseteq 0..63
    OBVIOUS
  <2>3. x \in SUBSET (0..63) /\ y \in SUBSET (0..63)
    BY <2>2, Zenon
  <2>4. /\ bits \in 1..132 /\ bits + 1 \in 1..132 /\ top \in 0..63 /\ top \in Nat
        /\ bits \in Nat /\ top + 1 = bits
    OBVIOUS
  <2> QED
    BY <2>1, <2>3, <2>4, Zenon
<1>1. A!AddCarry(x, y, carry) = S \cap (0..63)
  <2>1. AddsWithCarry(x, y, carry)
    BY <1>0, AddCarryIs
  <2> QED
    BY <2>1 DEF AddsWithCarry
<1>2. A!ArmSum(x, y, carry, bits) = {b \in 0..bits-1 : b \in S}
  <2>1. SumsTo(x, y, carry, bits)
    BY <1>0, ArmSumIs
  <2> QED
    BY <2>1 DEF SumsTo
<1>3. r = A!ArmSum(x, y, carry, bits)
  <2>1. r = {b \in 0..bits-1 : b \in S \cap (0..63)}
    BY <1>1 DEF A!Lower, A!Low
  <2> HIDE DEF S, r
  <2> QED
    BY <1>0, <1>2, <2>1
<1>4. bits \in C <=> (top \in x /\ top \in y) \/ ((top \in x \/ top \in y) /\ top \in C)
  <2>1. top + 1 \in C <=> (top \in x /\ top \in y) \/ ((top \in x \/ top \in y) /\ top \in C)
    <3>1. \A k \in Nat : k + 1 \in C <=> (k \in x /\ k \in y) \/ ((k \in x \/ k \in y) /\ k \in C)
      <4>1. x \in SUBSET Nat /\ y \in SUBSET Nat
        BY <1>0
      <4> SUFFICES ASSUME NEW k \in Nat
                   PROVE  k + 1 \in C <=> (k \in x /\ k \in y) \/ ((k \in x \/ k \in y) /\ k \in C)
        OBVIOUS
      <4> HIDE DEF S, r
      <4> QED
        BY <4>1, CarryNext
    <3> HIDE DEF C, top
    <3> QED
      BY <1>0, <3>1
  <2> QED
    BY <1>0, <2>1
<1>5. top \in r <=> ((top \in x) # (top \in y)) # (top \in C)
  <2>1. top \in r <=> top \in S
    BY <1>0, <1>2, <1>3
  <2> QED
    BY <1>0, <2>1 DEF SumOf
<1>6. bits \in A!ArmSum(x, y, carry, bits+1) <=> bits \in C
  <2>0. SumsTo(x, y, carry, bits+1)
    BY <1>0, ArmSumIs
  <2>1. A!ArmSum(x, y, carry, bits+1) = {b \in 0..bits+1-1 : b \in S}
    BY <2>0 DEF SumsTo
  <2>2. bits \in S <=> bits \in C
    BY <1>0 DEF SumOf
  <2> QED
    BY <1>0, <2>1, <2>2
<1> DEFINE carries == IF bits = 32 THEN 32 \in A!AddCarry(x, y, carry)
                      ELSE A!Less(r, x) \/ (carry = 1 /\ r = x)
<1>7. carries <=> bits \in C
  <2>1. CASE bits = 32
    <3>1. 32 \in A!AddCarry(x, y, carry) <=> 32 \in S
      BY <1>1
    <3>2. 32 \in S <=> 32 \in C
      BY <2>1 DEF SumOf
    <3> QED
      BY <2>1, <3>1, <3>2
  <2>2. CASE bits = 64
    <3>1. r = S \cap (0..63)
      BY <1>2, <1>3, <2>2
    <3>2. 64 \in C <=> A!Less(S \cap (0..63), x) \/ (carry = 1 /\ S \cap (0..63) = x)
      BY <1>0, CarryOut
    <3> HIDE DEF r, S, C
    <3> QED
      BY <2>2, <3>1, <3>2
  <2> QED
    BY <2>1, <2>2
<1> DEFINE X == A!ArmExtend(x, bits, TRUE, bits+1)
           Y == A!ArmExtend(y, bits, TRUE, bits+1)
           longer == A!ArmSum(X, Y, carry, bits+1)
<1>8. /\ X \in SUBSET Nat /\ Y \in SUBSET Nat /\ X \cap (0..bits-1) = x /\ Y \cap (0..bits-1) = y
      /\ (bits \in X <=> top \in x) /\ (bits \in Y <=> top \in y)
  <2>1. \A b \in 0..bits-1 : (b \in X <=> b \in x) /\ (b \in Y <=> b \in y)
    BY <1>0 DEF A!ArmExtend
  <2>2. (bits \in X <=> top \in x) /\ (bits \in Y <=> top \in y)
    BY <1>0 DEF A!ArmExtend
  <2>3. X \in SUBSET Nat /\ Y \in SUBSET Nat
    BY <1>0 DEF A!ArmExtend
  <2>4. X \cap (0..bits-1) = x /\ Y \cap (0..bits-1) = y
    <3> HIDE DEF X, Y
    <3>1. x \subseteq 0..bits-1 /\ y \subseteq 0..bits-1
      OBVIOUS
    <3> QED
      BY <2>1, <3>1, Zenon
  <2> HIDE DEF X, Y
  <2> QED
    BY <2>2, <2>3, <2>4
<1>9. longer = {b \in 0..bits+1-1 : b \in SumOf(X, Y, carry)}
  <2>1. SumsTo(X, Y, carry, bits+1)
    <3> HIDE DEF X, Y
    <3> QED
      BY <1>0, <1>8, ArmSumIs
  <2> HIDE DEF X, Y
  <2> QED
    BY <2>1 DEF SumsTo
<1>10. /\ bits \in CarriesOf(X, Y, carry) <=> bits \in C
       /\ top \in SumOf(X, Y, carry) <=> top \in S
  <2>1. bits \in 0..bits /\ top \in 0..bits /\ top < bits
    BY <1>0
  <2> HIDE DEF X, Y, top, C, S
  <2> DEFINE lim == bits
  <2>2. lim \in Nat /\ lim \in 0..lim /\ top \in 0..lim /\ top < lim
    BY <1>0
  <2>3. X \in SUBSET Nat /\ Y \in SUBSET Nat /\ X \cap (0..lim-1) = x /\ Y \cap (0..lim-1) = y
    BY <1>8
  <2> HIDE DEF lim
  <2>4. lim \in CarriesOf(X, Y, carry) <=> lim \in CarriesOf(X \cap (0..lim-1), Y \cap (0..lim-1), carry)
    BY <2>2, <2>3, SumBelow DEF Below
  <2>5. top < lim => (top \in SumOf(X, Y, carry)
                        <=> top \in SumOf(X \cap (0..lim-1), Y \cap (0..lim-1), carry))
    BY <2>2, <2>3, SumBelow DEF Below
  <2>6. lim \in CarriesOf(X, Y, carry) <=> lim \in CarriesOf(x, y, carry)
    BY <2>3, <2>4
  <2>7. top \in SumOf(X, Y, carry) <=> top \in SumOf(x, y, carry)
    BY <2>2, <2>3, <2>5
  <2> QED
    BY <2>6, <2>7 DEF C, S, lim
<1>11. (bits \in longer) # (bits - 1 \in longer) <=> top \in A!Xor(x, r) \cap A!Xor(y, r)
  <2>1. bits \in longer <=> ((top \in x) # (top \in y)) # (bits \in C)
    <3>1. bits \in longer <=> bits \in SumOf(X, Y, carry)
      <4> HIDE DEF longer, X, Y
      <4> QED
        BY <1>0, <1>9
    <3>2. bits \in SumOf(X, Y, carry) <=> ((bits \in X) # (bits \in Y)) # (bits \in CarriesOf(X, Y, carry))
      BY <1>0 DEF SumOf
    <3> HIDE DEF X, Y, C, top, longer
    <3> QED
      BY <1>8, <1>10, <3>1, <3>2
  <2>2. bits - 1 \in longer <=> top \in r
    <3>1. bits - 1 \in longer <=> top \in SumOf(X, Y, carry)
      <4> HIDE DEF longer, X, Y
      <4> QED
        BY <1>0, <1>9
    <3>2. top \in r <=> top \in S
      BY <1>0, <1>2, <1>3
    <3> QED
      BY <1>10, <3>1, <3>2
  <2>3. top \in A!Xor(x, r) \cap A!Xor(y, r) <=> ((top \in x) # (top \in r))
        /\ ((top \in y) # (top \in r))
    BY <1>0 DEF A!Xor, A!Positions
  <2> HIDE DEF top, r, C, longer
  <2> QED
    BY <1>4, <1>5, <2>1, <2>2, <2>3
<1> DEFINE over == top \in A!Xor(x, r) \cap A!Xor(y, r)
<1>12. /\ A!AddWithCarry(x, y, carry, bits).result = r
       /\ A!AddWithCarry(x, y, carry, bits).nzcv = <<top \in r, r = {}, carries, over>>
  BY DEF A!AddWithCarry
<1>13. ArmFlagsOf(x, y, carry, bits) =
         <<top \in r, r = {}, bits \in A!ArmSum(x, y, carry, bits+1),
           (bits \in longer) # (bits - 1 \in longer)>>
  BY <1>3, Zenon DEF ArmFlagsOf
<1>14. carries <=> bits \in A!ArmSum(x, y, carry, bits+1)
  BY <1>6, <1>7
<1> DEFINE c1 == bits \in A!ArmSum(x, y, carry, bits+1)
           o1 == (bits \in longer) # (bits - 1 \in longer)
           n1 == top \in r
           z1 == r = {}
<1>15. <<n1, z1, carries, over>> = <<n1, z1, c1, o1>>
  <2>1. over <=> o1
    BY <1>11
  <2> HIDE DEF top, r, longer, C, S
  <2>2. over = o1
    BY <2>1
  <2>3. carries = c1
    BY <1>14
  <2> HIDE DEF carries, over, c1, o1, n1, z1
  <2> QED
    BY <2>2, <2>3
<1> QED
  BY <1>3, <1>12, <1>13, <1>15, Zenon DEF SumIs

ShiftHas(x, type, k, bits) ==
  /\ A!Lower(A!ShiftVal(x, type, k, bits), bits) = A!ArmShift(x \cap (0..bits-1), type, k, bits)
  /\ A!ShiftVal(x, type, k, bits) \in SUBSET (0..63)

\* The shifts of the code are those of the architecture.
LEMMA ShiftIs ==
  ASSUME NEW bits \in {32, 64}, NEW x \in SUBSET (0..63), NEW type \in 0..3, NEW k \in 0..bits-1
  PROVE  ShiftHas(x, type, k, bits)
<1> DEFINE V == x \cap (0..bits-1)
           R == A!ArmShift(V, type, k, bits)
           L == A!Lower(A!ShiftVal(x, type, k, bits), bits)
<1>0. /\ A!Lower(x, bits) = V /\ bits \in Nat /\ k \in Nat /\ k % bits = k
      /\ \A b \in 0..bits-1 : b \in 0..63
      /\ \A y : A!Lower(y, bits) = y \cap (0..bits-1)
  <2>1. bits \in Nat /\ k \in Nat /\ \A b \in 0..bits-1 : b \in 0..63
    OBVIOUS
  <2>2. k % bits = k
    <3>1. CASE bits = 32
      BY <3>1
    <3>2. CASE bits = 64
      BY <3>2
    <3> QED
      BY <3>1, <3>2
  <2>3. \A y : A!Lower(y, bits) = y \cap (0..bits-1)
    BY <2>1, LowerIs DEF LowerHas
  <2> QED
    BY <2>1, <2>2, <2>3
<1>1. L \in SUBSET (0..bits-1) /\ R \in SUBSET (0..bits-1)
  <2>1. L \in SUBSET (0..bits-1)
    BY <1>0
  <2> QED
    BY <2>1 DEF A!ArmShift
<1>2. k = 0 => A!ShiftVal(x, type, k, bits) = x
  BY Zenon DEF A!ShiftVal
<1>3. k # 0 =>
        /\ type = 0 => A!ShiftVal(x, type, k, bits) = A!Shl(V, k) \cap (0..bits-1)
        /\ type = 1 => A!ShiftVal(x, type, k, bits) = A!Shr(V, k) \cap (0..bits-1)
        /\ type = 2 => A!ShiftVal(x, type, k, bits) = A!Arithmetic(V, k, bits) \cap (0..bits-1)
        /\ type = 3 => A!ShiftVal(x, type, k, bits) = A!Rotate(V, k, bits) \cap (0..bits-1)
  <2>1. ASSUME k # 0, NEW t, t = CASE type = 0 -> A!Shl(V, k)
                                   [] type = 1 -> A!Shr(V, k)
                                   [] type = 2 -> A!Arithmetic(V, k, bits)
                                   [] type = 3 -> A!Rotate(V, k, bits)
        PROVE  A!ShiftVal(x, type, k, bits) = t \cap (0..bits-1)
    BY <1>0, <2>1, Zenon DEF A!ShiftVal
  <2> HIDE DEF V
  <2> DEFINE t == CASE type = 0 -> A!Shl(V, k)
                    [] type = 1 -> A!Shr(V, k)
                    [] type = 2 -> A!Arithmetic(V, k, bits)
                    [] type = 3 -> A!Rotate(V, k, bits)
  <2>2. k # 0 => A!ShiftVal(x, type, k, bits) = t \cap (0..bits-1)
    BY <2>1, Zenon
  <2>3. type = 0 => t = A!Shl(V, k)
    <3>1. type = 0 => type # 1 /\ type # 2 /\ type # 3
      OBVIOUS
    <3> QED
      BY <3>1, Zenon
  <2>4. type = 1 => t = A!Shr(V, k)
    <3>1. type = 1 => type # 0 /\ type # 2 /\ type # 3
      OBVIOUS
    <3> QED
      BY <3>1, Zenon
  <2>5. type = 2 => t = A!Arithmetic(V, k, bits)
    <3>1. type = 2 => type # 0 /\ type # 1 /\ type # 3
      OBVIOUS
    <3> QED
      BY <3>1, Zenon
  <2>6. type = 3 => t = A!Rotate(V, k, bits)
    <3>1. type = 3 => type # 0 /\ type # 1 /\ type # 2
      OBVIOUS
    <3> QED
      BY <3>1, Zenon
  <2> HIDE DEF t
  <2> QED
    BY <2>2, <2>3, <2>4, <2>5, <2>6
<1>4. \A b \in 0..bits-1 :
        /\ type = 0 => (b \in R <=> b - k \in V)
        /\ type = 1 => (b \in R <=> b + k < bits /\ b + k \in V)
        /\ type = 2 => (b \in R <=> (IF b + k < bits THEN b + k ELSE bits - 1) \in V)
        /\ type = 3 => (b \in R <=> (b + k) % bits \in V)
  <2> DEFINE P(b) == CASE type = 0 -> b - k \in V
                       [] type = 1 -> b + k < bits /\ b + k \in V
                       [] type = 2 -> (IF b + k < bits THEN b + k ELSE bits - 1) \in V
                       [] type = 3 -> (b + k) % bits \in V
  <2> HIDE DEF V
  <2>1. \A b \in 0..bits-1 : b \in R <=> P(b)
    BY Zenon DEF A!ArmShift
  <2>2. type = 0 => type # 1 /\ type # 2 /\ type # 3
    OBVIOUS
  <2>3. type = 1 => type # 0 /\ type # 2 /\ type # 3
    OBVIOUS
  <2>4. type = 2 => type # 0 /\ type # 1 /\ type # 3
    OBVIOUS
  <2>5. type = 3 => type # 0 /\ type # 1 /\ type # 2
    OBVIOUS
  <2> HIDE DEF R
  <2>6. \A b \in 0..bits-1 : type = 0 => (P(b) <=> b - k \in V)
    BY <2>2, Zenon
  <2>7. \A b \in 0..bits-1 : type = 1 => (P(b) <=> b + k < bits /\ b + k \in V)
    BY <2>3, Zenon
  <2>8. \A b \in 0..bits-1 : type = 2 => (P(b) <=> (IF b + k < bits THEN b + k ELSE bits - 1) \in V)
    BY <2>4, Zenon
  <2>9. \A b \in 0..bits-1 : type = 3 => (P(b) <=> (b + k) % bits \in V)
    BY <2>5, Zenon
  <2> HIDE DEF P
  <2> QED
    BY <2>1, <2>6, <2>7, <2>8, <2>9
<1>5. V \in SUBSET (0..bits-1)
  OBVIOUS
<1>6. L = A!ShiftVal(x, type, k, bits) \cap (0..bits-1)
  BY <1>0
<1>7. A!ShiftVal(x, type, k, bits) \in SUBSET (0..63)
  <2>1. k = 0 => A!ShiftVal(x, type, k, bits) \in SUBSET (0..63)
    BY <1>2
  <2>2. \A y : y \cap (0..bits-1) \in SUBSET (0..63)
    BY <1>0
  <2>3. type = 0 \/ type = 1 \/ type = 2 \/ type = 3
    OBVIOUS
  <2>4. k # 0 => \E y : A!ShiftVal(x, type, k, bits) = y \cap (0..bits-1)
    BY <1>3, <2>3, Zenon
  <2> QED
    BY <2>1, <2>2, <2>4, Zenon
<1> HIDE DEF V, R, L
<1>8. \A b \in 0..bits-1 : b \in L <=> b \in R
  <2>1. CASE k = 0
    <3>1. \A b \in 0..bits-1 : b \in L <=> b \in V
      BY <1>2, <1>6, <2>1 DEF V
    <3>2. \A b \in 0..bits-1 : b % bits = b /\ b + k = b /\ b - k = b /\ b < bits
      <4>1. CASE bits = 32
        BY <2>1, <4>1
      <4>2. CASE bits = 64
        BY <2>1, <4>2
      <4> QED
        BY <4>1, <4>2
    <3>3. \A b \in 0..bits-1 : b \in R <=> b \in V
      BY <1>4, <3>2
    <3> QED
      BY <3>1, <3>3
  <2>2. CASE k # 0 /\ type = 0
    <3>1. L = A!Shl(V, k) \cap (0..bits-1)
      BY <1>3, <1>6, <2>2
    <3>2. \A b \in 0..bits-1 : b \in L <=> b - k \in V
      BY <1>0, <3>1 DEF A!Shl, A!Positions
    <3> QED
      BY <1>4, <2>2, <3>2
  <2>3. CASE k # 0 /\ type = 1
    <3>1. L = A!Shr(V, k) \cap (0..bits-1)
      BY <1>3, <1>6, <2>3
    <3>2. \A b \in 0..bits-1 : b \in L <=> b + k \in V
      BY <1>0, <3>1 DEF A!Shr, A!Positions
    <3>3. \A b \in 0..bits-1 : b + k \in V => b + k < bits
      BY <1>0, <1>5
    <3> QED
      BY <1>4, <2>3, <3>2, <3>3
  <2>4. CASE k # 0 /\ type = 2
    <3>1. L = A!Arithmetic(V, k, bits) \cap (0..bits-1)
      BY <1>3, <1>6, <2>4
    <3>2. \A b \in 0..bits-1 : b \in L <=> (IF b + k < bits THEN b + k ELSE bits - 1) \in V
      BY <1>0, <3>1 DEF A!Arithmetic, A!Low
    <3> QED
      BY <1>4, <2>4, <3>2
  <2>5. CASE k # 0 /\ type = 3
    <3>1. L = A!Rotate(V, k, bits) \cap (0..bits-1)
      BY <1>3, <1>6, <2>5
    <3>2. \A b \in 0..bits-1 : b \in L <=> b + k \in V \/ b - (bits - k) \in V
      BY <1>0, <3>1 DEF A!Rotate, A!Shr, A!Shl, A!Positions
    <3>3. \A b \in 0..bits-1 : (b + k) % bits = IF b + k < bits THEN b + k ELSE b - (bits - k)
      <4>1. CASE bits = 32
        BY <4>1
      <4>2. CASE bits = 64
        BY <4>2
      <4> QED
        BY <4>1, <4>2
    <3>4. \A b \in 0..bits-1 : /\ b + k < bits => b - (bits - k) \notin V
                               /\ b + k >= bits => b + k \notin V
      BY <1>0, <1>5
    <3>5. \A b \in 0..bits-1 : b \in R <=> (b + k) % bits \in V
      BY <1>4, <2>5
    <3>6. \A b \in 0..bits-1 : b + k < bits \/ b + k >= bits
      OBVIOUS
    <3> QED
      BY <3>2, <3>3, <3>4, <3>5, <3>6
  <2>6. type = 0 \/ type = 1 \/ type = 2 \/ type = 3
    OBVIOUS
  <2> QED
    BY <2>1, <2>2, <2>3, <2>4, <2>5, <2>6
<1>9. L = R
  BY <1>1, <1>8
<1> QED
  BY <1>7, <1>9 DEF ShiftHas, L, R, V

\* The fields of a shift.
LEMMA ShiftFields ==
  ASSUME NEW i
  PROVE  /\ A!Field(i, 23, 22) \in 0..3 /\ A!Field(i, 15, 10) \in 0..63 /\ A!Field(i, 21, 16) \in 0..63
         /\ 31 \in i \/ 15 \notin i => A!Field(i, 15, 10) \in 0..A!N(i)-1
         /\ A!Field(i, 22, 22) = BitOf(i, 22)
         /\ A!Field(i, 15, 10) = BitOf(i, 10) + 2 * BitOf(i, 11) + 4 * BitOf(i, 12)
              + 8 * BitOf(i, 13) + 16 * BitOf(i, 14) + 32 * BitOf(i, 15)
<1>1. FieldHas(i, 15, 10) /\ FieldHas(i, 21, 16) /\ FieldHas(i, 22, 22)
  BY FieldIs
<1>2. /\ BitOf(i, 10) \in {0, 1} /\ BitOf(i, 11) \in {0, 1} /\ BitOf(i, 12) \in {0, 1}
      /\ BitOf(i, 13) \in {0, 1} /\ BitOf(i, 14) \in {0, 1} /\ BitOf(i, 15) \in {0, 1}
      /\ BitOf(i, 16) \in {0, 1} /\ BitOf(i, 17) \in {0, 1} /\ BitOf(i, 18) \in {0, 1}
      /\ BitOf(i, 19) \in {0, 1} /\ BitOf(i, 20) \in {0, 1} /\ BitOf(i, 21) \in {0, 1}
      /\ BitOf(i, 22) \in {0, 1} /\ BitOf(i, 23) \in {0, 1}
  BY Fields
<1>3. /\ A!Field(i, 15, 10) = BitOf(i, 10) + 2 * BitOf(i, 11) + 4 * BitOf(i, 12)
           + 8 * BitOf(i, 13) + 16 * BitOf(i, 14) + 32 * BitOf(i, 15)
      /\ A!Field(i, 21, 16) = BitOf(i, 16) + 2 * BitOf(i, 17) + 4 * BitOf(i, 18)
           + 8 * BitOf(i, 19) + 16 * BitOf(i, 20) + 32 * BitOf(i, 21)
      /\ A!Field(i, 22, 22) = BitOf(i, 22)
  BY <1>1, <1>2 DEF FieldHas
<1>4. A!Field(i, 23, 22) \in 0..3
  BY <1>2, Fields
<1>5. A!Field(i, 15, 10) \in 0..63 /\ A!Field(i, 21, 16) \in 0..63
  BY <1>2, <1>3
<1>6. 15 \notin i => A!Field(i, 15, 10) \in 0..31
  BY <1>2, <1>3, Fields
<1> QED
  BY <1>3, <1>4, <1>5, <1>6 DEF A!N

\* What an instruction reads of its operands, in the code and in the architecture.
LEMMA OperandsAre ==
  ASSUME NEW s, IsProcessor(s), NEW i
  PROVE  /\ A!Bits(i) = A!N(i) /\ A!N(i) \in {32, 64}
         /\ \A r \in 0..31 :
              /\ A!Lower(A!Reg(s, r), A!Bits(i)) = A!Operand(s, i, r)
              /\ A!Operand(s, i, r) \in SUBSET (0..A!N(i)-1)
              /\ A!Lower(A!RegSP(s, r), A!Bits(i)) = s.x[r] \cap (0..A!N(i)-1)
              /\ A!Reg(s, r) \in SUBSET (0..63) /\ A!ArmReg(s, r) = A!Reg(s, r)
<1>1. A!Bits(i) = A!N(i) /\ A!N(i) \in {32, 64}
  BY DEF A!Bits, A!N
<1>2. ASSUME NEW r \in 0..31
      PROVE  /\ A!Lower(A!Reg(s, r), A!Bits(i)) = A!Operand(s, i, r)
             /\ A!Operand(s, i, r) \in SUBSET (0..A!N(i)-1)
             /\ A!Lower(A!RegSP(s, r), A!Bits(i)) = s.x[r] \cap (0..A!N(i)-1)
             /\ A!Reg(s, r) \in SUBSET (0..63) /\ A!ArmReg(s, r) = A!Reg(s, r)
  <2>1. s.x[r] \subseteq 0..63
    BY Zenon DEF IsProcessor
  <2>2. A!Reg(s, r) \in SUBSET (0..63) /\ A!ArmReg(s, r) = A!Reg(s, r)
    BY <2>1 DEF A!Reg, A!ArmReg
  <2>3. \A y : A!Lower(y, A!Bits(i)) = y \cap (0..A!N(i)-1)
    BY <1>1, LowerIs DEF LowerHas
  <2>4. A!Operand(s, i, r) = A!Reg(s, r) \cap (0..A!N(i)-1)
    BY <2>2 DEF A!Operand
  <2> QED
    BY <2>2, <2>3, <2>4 DEF A!RegSP
<1> QED
  BY <1>1, <1>2

\* Sums and differences, with their flags.
LEMMA SumsAre ==
  ASSUME NEW i, NEW a \in SUBSET (0..A!N(i)-1), NEW b \in SUBSET (0..A!N(i)-1)
  PROVE  /\ A!AddSubSum(i, a, b).nzcv = A!ArmSumFlags(i, a, b)
         /\ A!AddSubSum(i, a, b).result = A!ArmTotal(i, a, b)
<1> DEFINE bits == A!N(i)
<1>1. A!Bits(i) = bits /\ bits \in {32, 64}
  BY DEF A!Bits, A!N
<1>2. A!ArmSumFlags(i, a, b) = ArmFlagsOf(a, A!Second(i, b), A!CarryIn(i), bits)
  BY Zenon DEF A!ArmSumFlags, ArmFlagsOf, A!ArmTotal
<1>3. A!ArmTotal(i, a, b) = A!ArmSum(a, A!Second(i, b), A!CarryIn(i), bits)
  BY DEF A!ArmTotal
<1>4. A!AddSubSum(i, a, b) = A!AddWithCarry(a, A!Second(i, b), A!CarryIn(i), bits)
  <2>1. A!Lower(A!Not(b), bits) = A!Complement(b, bits)
    <3>1. A!Lower(A!Not(b), bits) = A!Not(b) \cap (0..bits-1)
      BY <1>1, LowerIs DEF LowerHas
    <3>2. \A d \in 0..bits-1 : d \in 0..63
      BY <1>1
    <3> HIDE DEF bits
    <3> QED
      BY <3>1, <3>2 DEF A!Not, A!Positions, A!Complement
  <2> QED
    BY <1>1, <2>1 DEF A!AddSubSum, A!Second, A!CarryIn, A!Subtracts
<1>5. A!Second(i, b) \in SUBSET (0..bits-1) /\ A!CarryIn(i) \in {0, 1}
  BY DEF A!Second, A!CarryIn, A!Complement
<1> DEFINE y == A!Second(i, b)
           carry == A!CarryIn(i)
<1> HIDE DEF bits, y, carry
<1>6. SumIs(a, y, carry, bits)
  BY <1>1, <1>5, AddWithCarryIs DEF bits, y, carry
<1> QED
  BY <1>2, <1>3, <1>4, <1>6 DEF SumIs, bits, y, carry

\* The second operands of sums.
LEMMA RightsAre ==
  ASSUME NEW s, IsProcessor(s), NEW i, handler = A!Handler(i), ~A!LeftOpen(i)
  PROVE  /\ handler = "AddSubImm" => ImmRight(i) = A!SumRight(s, i)
                                     /\ ImmRight(i) \in SUBSET (0..A!N(i)-1)
         /\ handler = "AddSubExtReg" => ExtRight(s, i) = A!SumRight(s, i)
                                        /\ ExtRight(s, i) \in SUBSET (0..A!N(i)-1)
         /\ handler = "AddSubShiftReg" => ShiftRight(s, i) = A!SumRight(s, i)
                                          /\ ShiftRight(s, i) \in SUBSET (0..A!N(i)-1)
<1>0. /\ A!Bits(i) = A!N(i) /\ A!N(i) \in {32, 64} /\ A!Rm(i) \in 0..31
      /\ A!Lower(A!Reg(s, A!Rm(i)), A!Bits(i)) = A!Operand(s, i, A!Rm(i))
      /\ A!Reg(s, A!Rm(i)) \in SUBSET (0..63) /\ A!ArmReg(s, A!Rm(i)) = A!Reg(s, A!Rm(i))
      /\ A!Operand(s, i, A!Rm(i)) = A!Reg(s, A!Rm(i)) \cap (0..A!N(i)-1)
  BY OperandsAre, Fields DEF A!Operand
<1>1. ASSUME handler = "AddSubImm"
      PROVE  ImmRight(i) = A!SumRight(s, i) /\ ImmRight(i) \in SUBSET (0..A!N(i)-1)
  <2>1. 23 \notin i
    BY <1>1, SumImmPlain
  <2>2. A!Field(i, 23, 22) = 1 <=> 22 \in i
    BY <2>1, Fields
  <2>3. A!SumRight(s, i) = {IF 22 \in i THEN b + 2 ELSE b - 10 : b \in i \cap (10..21)}
    BY <1>1, Zenon DEF A!SumRight
  <2>4. A!Slice(i, 21, 10) = {b \in 0..21-10 : b + 10 \in i}
    BY SliceIs DEF SliceHas
  <2>5. A!Slice(i, 21, 10) = {b - 10 : b \in i \cap (10..21)}
    BY <2>4
  <2>6. A!Shl(A!Slice(i, 21, 10), 12) = {b + 2 : b \in i \cap (10..21)}
    BY <2>4 DEF A!Shl, A!Positions
  <2>7. ImmRight(i) = A!SumRight(s, i)
    <3>1. CASE 22 \in i
      BY <2>2, <2>3, <2>6, <3>1 DEF ImmRight
    <3>2. CASE 22 \notin i
      BY <2>2, <2>3, <2>5, <3>2 DEF ImmRight
    <3> QED
      BY <3>1, <3>2
  <2>8. ImmRight(i) \in SUBSET (0..31)
    BY <2>5, <2>6 DEF ImmRight
  <2> QED
    BY <1>0, <2>7, <2>8
<1>2. ASSUME handler = "AddSubExtReg"
      PROVE  ExtRight(s, i) = A!SumRight(s, i) /\ ExtRight(s, i) \in SUBSET (0..A!N(i)-1)
  <2> DEFINE option == A!Field(i, 15, 13)
             k == A!Field(i, 12, 10)
             x == A!Reg(s, A!Rm(i))
             y == A!Extended(x, option)
             bits == A!N(i)
  <2>1. option \in 0..7 /\ k \in 0..7
    <3>1. /\ BitOf(i, 10) \in {0, 1} /\ BitOf(i, 11) \in {0, 1} /\ BitOf(i, 12) \in {0, 1}
          /\ BitOf(i, 13) \in {0, 1} /\ BitOf(i, 14) \in {0, 1} /\ BitOf(i, 15) \in {0, 1}
      BY Fields
    <3> QED
      BY <3>1, Fields
  <2>2. A!SumRight(s, i) = A!ArmExtended(A!ArmReg(s, A!Rm(i)), option, k, bits)
    BY <1>2, Zenon DEF A!SumRight
  <2>3. ExtRight(s, i) = A!Shl(y, k) \cap (0..bits-1)
    BY <1>0, LowerIs DEF LowerHas, ExtRight
  <2>4. x \in SUBSET (0..63) /\ bits \in {32, 64} /\ A!ArmReg(s, A!Rm(i)) = x
    BY <1>0
  <2> HIDE DEF option, k, x, bits
  <2>5. ExtendHas(x, option) /\ y \in SUBSET (0..63)
    BY <2>1, <2>4, ExtendIs
  <2>6. A!ArmExtended(x, option, k, bits) = {b \in 0..bits-1 : b - k \in y}
    BY <2>5 DEF A!ArmExtended, ExtendHas
  <2> HIDE DEF y
  <2>7. \A b \in 0..bits-1 : b \in 0..63
    BY <2>4
  <2>8. A!Shl(y, k) \cap (0..bits-1) = {b \in 0..bits-1 : b - k \in y}
    BY <2>7 DEF A!Shl, A!Positions
  <2> QED
    BY <2>2, <2>3, <2>4, <2>6, <2>8 DEF bits
<1>3. ASSUME handler = "AddSubShiftReg"
      PROVE  ShiftRight(s, i) = A!SumRight(s, i) /\ ShiftRight(s, i) \in SUBSET (0..A!N(i)-1)
  <2> DEFINE type == A!Field(i, 23, 22)
             k == A!Field(i, 15, 10)
             x == A!Reg(s, A!Rm(i))
             bits == A!N(i)
  <2>1. type \in 0..3 /\ k \in 0..bits-1
    BY <1>3, ShiftFields DEF A!LeftOpen
  <2>2. x \in SUBSET (0..63) /\ bits \in {32, 64}
    BY <1>0
  <2>3. A!SumRight(s, i) = A!ArmShift(A!Operand(s, i, A!Rm(i)), type, k, bits)
    BY <1>3, Zenon DEF A!SumRight
  <2>4. ShiftRight(s, i) = A!Lower(A!ShiftVal(x, type, k, bits), bits)
    BY <1>0 DEF ShiftRight, A!Shifted
  <2>5. A!Operand(s, i, A!Rm(i)) = x \cap (0..bits-1)
    BY <1>0
  <2> HIDE DEF type, k, x, bits
  <2>6. ShiftHas(x, type, k, bits)
    BY <2>1, <2>2, ShiftIs
  <2>7. ShiftRight(s, i) = A!SumRight(s, i)
    BY <2>3, <2>4, <2>5, <2>6 DEF ShiftHas
  <2>8. A!ArmShift(x \cap (0..bits-1), type, k, bits) \in SUBSET (0..bits-1)
    BY DEF A!ArmShift
  <2> QED
    BY <2>3, <2>5, <2>7, <2>8 DEF bits
<1> QED
  BY <1>1, <1>2, <1>3

\* The size of the elements of a mask, from the leading bit of N:NOT(imms).
LEMMA SizeIs ==
  ASSUME NEW q \in 2..127
  PROVE  LET K == {0} \cup {k \in 1..6 : (q \div 2^k) % 2 = 1} IN
         2^A!Max(K) = IF q >= 64 THEN 64 ELSE IF q >= 32 THEN 32 ELSE IF q >= 16 THEN 16
                      ELSE IF q >= 8 THEN 8 ELSE IF q >= 4 THEN 4 ELSE 2
<1> DEFINE K == {0} \cup {k \in 1..6 : (q \div 2^k) % 2 = 1}
<1>1. 2^1 = 2 /\ 2^2 = 4 /\ 2^3 = 8 /\ 2^4 = 16 /\ 2^5 = 32 /\ 2^6 = 64
  OBVIOUS
<1>2. /\ 1 \in K <=> (q \div 2) % 2 = 1
      /\ 2 \in K <=> (q \div 4) % 2 = 1
      /\ 3 \in K <=> (q \div 8) % 2 = 1
      /\ 4 \in K <=> (q \div 16) % 2 = 1
      /\ 5 \in K <=> (q \div 32) % 2 = 1
      /\ 6 \in K <=> (q \div 64) % 2 = 1
      /\ K \subseteq 0..6 /\ 0 \in K
  BY <1>1
<1> HIDE DEF K
<1>3. /\ q >= 64 => 6 \in K
      /\ q >= 32 /\ q < 64 => 6 \notin K /\ 5 \in K
      /\ q >= 16 /\ q < 32 => 6 \notin K /\ 5 \notin K /\ 4 \in K
      /\ q >= 8 /\ q < 16 => 6 \notin K /\ 5 \notin K /\ 4 \notin K /\ 3 \in K
      /\ q >= 4 /\ q < 8 => 6 \notin K /\ 5 \notin K /\ 4 \notin K /\ 3 \notin K /\ 2 \in K
      /\ q < 4 => 6 \notin K /\ 5 \notin K /\ 4 \notin K /\ 3 \notin K /\ 2 \notin K /\ 1 \in K
  BY <1>2
<1>4. A!Max(K) \in K /\ (\A k \in K : k <= A!Max(K)) /\ A!Max(K) \in 0..6
  <2>1. K \in SUBSET (0..63) /\ K # {}
    BY <1>2
  <2> QED
    BY <1>2, <2>1, Greatest
<1> DEFINE m == A!Max(K)
<1>5. m \in K /\ (\A k \in K : k <= m) /\ m \in 0..6
  BY <1>4
<1> HIDE DEF m
<1>6. m = IF q >= 64 THEN 6 ELSE IF q >= 32 THEN 5 ELSE IF q >= 16 THEN 4
          ELSE IF q >= 8 THEN 3 ELSE IF q >= 4 THEN 2 ELSE 1
  <2>1. CASE q >= 64
    BY <1>3, <1>5, <2>1
  <2>2. CASE q >= 32 /\ q < 64
    BY <1>3, <1>5, <2>2
  <2>3. CASE q >= 16 /\ q < 32
    BY <1>3, <1>5, <2>3
  <2>4. CASE q >= 8 /\ q < 16
    BY <1>3, <1>5, <2>4
  <2>5. CASE q >= 4 /\ q < 8
    BY <1>3, <1>5, <2>5
  <2>6. CASE q < 4
    BY <1>3, <1>5, <2>6
  <2> QED
    BY <2>1, <2>2, <2>3, <2>4, <2>5, <2>6
<1>7. 2^m = IF q >= 64 THEN 64 ELSE IF q >= 32 THEN 32 ELSE IF q >= 16 THEN 16
            ELSE IF q >= 8 THEN 8 ELSE IF q >= 4 THEN 4 ELSE 2
  BY <1>1, <1>6
<1> QED
  BY <1>7 DEF K, m

\* A run of ones that was rotated within an element of e bits.
RunHas(e, immr, imms) ==
  LET S == imms % e
      R == immr % e
      welem == IF R = 0 THEN A!Low(S + 1) ELSE A!RotateElement(A!Low(S + 1), R, e)
  IN \A b \in 0..63 : b % e \in welem <=> (b + immr) % e <= imms % e

\* The rotated element of the code is that run of ones.
LEMMA RunIs ==
  ASSUME NEW e \in {2, 4, 8, 16, 32, 64}, NEW immr \in 0..63, NEW imms \in 0..63
  PROVE  RunHas(e, immr, imms)
<1> DEFINE S == imms % e
           R == immr % e
           welem == IF R = 0 THEN A!Low(S + 1) ELSE A!RotateElement(A!Low(S + 1), R, e)
<1>1. S \in 0..e-1 /\ R \in 0..e-1
  OBVIOUS
<1>2. ASSUME NEW b \in 0..63
      PROVE  /\ b % e \in 0..e-1
             /\ (b + immr) % e = IF (b % e) + R < e THEN (b % e) + R ELSE (b % e) + R - e
  <2>1. CASE e = 2
    BY <2>1
  <2>2. CASE e = 4
    BY <2>2
  <2>3. CASE e = 8
    BY <2>3
  <2>4. CASE e = 16
    BY <2>4
  <2>5. CASE e = 32
    BY <2>5
  <2>6. CASE e = 64
    BY <2>6
  <2> QED
    BY <2>1, <2>2, <2>3, <2>4, <2>5, <2>6
<1>3. ASSUME NEW d \in 0..e-1
      PROVE  d \in welem <=> (IF d + R < e THEN d + R ELSE d + R - e) <= S
  <2>1. CASE R = 0
    <3>1. welem = 0..S
      BY <1>1, <2>1 DEF A!Low
    <3> HIDE DEF welem, S, R
    <3> QED
      BY <1>1, <2>1, <3>1
  <2>2. CASE R # 0
    <3>1. welem = {b \in 0..e-1 : b \in A!Shr(A!Low(S + 1), R) \/ b \in A!Shl(A!Low(S + 1), e - R)}
      BY <2>2 DEF A!RotateElement, A!Lower, A!Low
    <3>2. d \in A!Shr(A!Low(S + 1), R) <=> d + R \in 0..S
      <4> HIDE DEF S, R
      <4> QED
        BY <1>1 DEF A!Shr, A!Low, A!Positions
    <3>3. d \in A!Shl(A!Low(S + 1), e - R) <=> d - (e - R) \in 0..S
      <4> HIDE DEF S, R
      <4> QED
        BY <1>1 DEF A!Shl, A!Low, A!Positions
    <3> HIDE DEF welem, S, R
    <3> QED
      BY <1>1, <2>2, <3>1, <3>2, <3>3
  <2> QED
    BY <2>1, <2>2
<1>4. \A b \in 0..63 : b % e \in welem <=> (b + immr) % e <= S
  <2> HIDE DEF welem, R, S
  <2> QED
    BY <1>2, <1>3
<1> QED
  BY <1>4, Zenon DEF RunHas

\* The mask of a logical immediate is that of the architecture.
LEMMA MaskIs ==
  ASSUME NEW i, A!Handler(i) = "LogImm", ~A!LeftOpen(i)
  PROVE  A!Masks(i).w = A!ArmMask(i)
<1> DEFINE imms == A!Field(i, 15, 10)
           immr == A!Field(i, 21, 16)
           nBit == A!Field(i, 22, 22)
           bits == A!Bits(i)
           q == 64 * nBit + 63 - imms
           size == 2^A!Max({0} \cup {k \in 1..6 : (q \div 2^k) % 2 = 1})
           e == IF 22 \in i THEN 64
                ELSE CASE imms < 32 -> 32
                       [] imms \in 32..47 -> 16
                       [] imms \in 48..55 -> 8
                       [] imms \in 56..59 -> 4
                       [] imms \in 60..61 -> 2
           S == imms % size
           R == immr % size
           welem == IF R = 0 THEN A!Low(S + 1) ELSE A!RotateElement(A!Low(S + 1), R, size)
<1>1. imms \in 0..63 /\ immr \in 0..63 /\ nBit \in {0, 1} /\ (nBit = 1 <=> 22 \in i)
  BY ShiftFields, Fields
<1>2. 22 \notin i => imms \in 0..61
  <2>1. /\ BitOf(i, 10) \in {0, 1} /\ BitOf(i, 11) \in {0, 1} /\ BitOf(i, 12) \in {0, 1}
        /\ BitOf(i, 13) \in {0, 1} /\ BitOf(i, 14) \in {0, 1} /\ BitOf(i, 15) \in {0, 1}
    BY Fields
  <2>2. imms = BitOf(i, 10) + 2 * BitOf(i, 11) + 4 * BitOf(i, 12)
              + 8 * BitOf(i, 13) + 16 * BitOf(i, 14) + 32 * BitOf(i, 15)
    BY ShiftFields
  <2>3. 22 \notin i => ~(11..15 \subseteq i)
    BY Zenon DEF A!LeftOpen
  <2>4. 22 \notin i => \E b \in 11..15 : b \notin i
    BY <2>3
  <2>5. \A b \in 11..15 : b = 11 \/ b = 12 \/ b = 13 \/ b = 14 \/ b = 15
    OBVIOUS
  <2>6. 22 \notin i => 11 \notin i \/ 12 \notin i \/ 13 \notin i \/ 14 \notin i \/ 15 \notin i
    BY <2>4, <2>5
  <2>7. \A b : BitOf(i, b) = 1 <=> b \in i
    BY Fields
  <2> HIDE DEF imms
  <2> QED
    BY <2>1, <2>2, <2>6, <2>7
<1>3. bits \in {32, 64} /\ A!N(i) = bits
  BY DEF A!Bits, A!N
<1> HIDE DEF imms, immr, nBit, bits
<1>4. q \in 2..127
  BY <1>1, <1>2
<1>5. /\ 22 \in i => q >= 64
      /\ 22 \notin i => q = 63 - imms
  BY <1>1
<1>6. size = IF q >= 64 THEN 64 ELSE IF q >= 32 THEN 32 ELSE IF q >= 16 THEN 16
             ELSE IF q >= 8 THEN 8 ELSE IF q >= 4 THEN 4 ELSE 2
  <2> HIDE DEF q
  <2> QED
    BY <1>4, SizeIs
<1>7. e = size
  <2>1. CASE 22 \in i
    BY <1>5, <1>6, <2>1
  <2>2. CASE 22 \notin i
    <3> DEFINE a == imms < 32
               b == imms \in 32..47
               d == imms \in 48..55
               f == imms \in 56..59
               g == imms \in 60..61
    <3>1. \/ a /\ ~b /\ ~d /\ ~f /\ ~g /\ size = 32
          \/ ~a /\ b /\ ~d /\ ~f /\ ~g /\ size = 16
          \/ ~a /\ ~b /\ d /\ ~f /\ ~g /\ size = 8
          \/ ~a /\ ~b /\ ~d /\ f /\ ~g /\ size = 4
          \/ ~a /\ ~b /\ ~d /\ ~f /\ g /\ size = 2
      <4> HIDE DEF size
      <4> QED
        BY <1>2, <1>5, <1>6, <2>2
    <3>2. e = CASE a -> 32 [] b -> 16 [] d -> 8 [] f -> 4 [] g -> 2
      BY <2>2, Zenon
    <3> HIDE DEF a, b, d, f, g, e, size
    <3> QED
      BY <3>1, <3>2, Zenon
  <2> QED
    BY <2>1, <2>2
<1>8. size \in {2, 4, 8, 16, 32, 64}
  <2> HIDE DEF q, size
  <2> QED
    BY <1>6
<1>9. A!Masks(i).w = A!Lower(A!Replicate(welem, size), bits)
  BY Zenon DEF A!Masks, A!BitMasks, imms, immr, nBit, bits
<1>10. A!ArmMask(i) = {b \in 0..bits-1 : (b + immr) % e <= imms % e}
  BY <1>3, Zenon DEF A!ArmMask, imms, immr
<1> HIDE DEF e, size, q
<1>11. RunHas(size, immr, imms)
  BY <1>1, <1>8, RunIs
<1>12. \A b \in 0..63 : b % size \in welem <=> (b + immr) % size <= imms % size
  BY <1>11, Zenon DEF RunHas
<1> HIDE DEF welem
<1>13. A!Lower(A!Replicate(welem, size), bits) = {b \in 0..bits-1 : b % size \in welem}
  BY <1>3 DEF A!Lower, A!Low, A!Replicate, A!Positions
<1>14. \A b \in 0..bits-1 : b \in 0..63
  BY <1>3
<1> DEFINE ones(b) == b % size \in welem
           run(b) == (b + immr) % size <= imms % size
<1>15. \A b \in 0..63 : ones(b) <=> run(b)
  BY <1>12
<1> HIDE DEF ones, run
<1>16. {b \in 0..bits-1 : ones(b)} = {b \in 0..bits-1 : run(b)}
  BY <1>14, <1>15
<1> QED
  BY <1>7, <1>9, <1>10, <1>13, <1>16, Zenon DEF ones, run

\* The flags of a conjunction.
LEMMA ConjunctionIs ==
  ASSUME NEW s, IsProcessor(s), NEW i, handler = A!Handler(i), ~A!LeftOpen(i),
         A!Field(i, 30, 29) = 3
  PROVE  /\ handler = "LogImm" => LogImmResult(s, i) = A!ArmLogical(s, i)
         /\ handler = "LogShiftReg" => LogShiftResult(s, i) = A!ArmLogical(s, i)
         /\ A!LogicalFlags(i, A!ArmLogical(s, i)) =
              <<A!N(i) - 1 \in A!ArmLogical(s, i), A!ArmLogical(s, i) = {}, FALSE, FALSE>>
<1> DEFINE bits == A!N(i)
           a == A!Operand(s, i, A!Rn(i))
           w == A!LogicalRight(s, i)
<1>0. /\ A!Bits(i) = bits /\ bits \in {32, 64} /\ a \in SUBSET (0..bits-1)
      /\ A!Lower(A!Reg(s, A!Rn(i)), bits) = a /\ A!Reg(s, A!Rm(i)) \in SUBSET (0..63)
      /\ A!Operand(s, i, A!Rm(i)) = A!Reg(s, A!Rm(i)) \cap (0..bits-1)
      /\ a = A!Reg(s, A!Rn(i)) \cap (0..bits-1)
  <2>1. A!Rn(i) \in 0..31 /\ A!Rm(i) \in 0..31
    BY Fields
  <2>2. /\ A!Bits(i) = bits /\ bits \in {32, 64} /\ a \in SUBSET (0..bits-1)
        /\ A!Lower(A!Reg(s, A!Rn(i)), bits) = a /\ A!Reg(s, A!Rm(i)) \in SUBSET (0..63)
        /\ A!ArmReg(s, A!Rm(i)) = A!Reg(s, A!Rm(i)) /\ A!ArmReg(s, A!Rn(i)) = A!Reg(s, A!Rn(i))
    BY <2>1, OperandsAre
  <2> QED
    BY <2>2, Zenon DEF A!Operand
<1>1. A!ArmLogical(s, i) = {b \in 0..bits-1 : b \in a /\ b \in w}
  <2> DEFINE P(l, r) == CASE A!Field(i, 30, 29) \in {0, 3} -> l /\ r
                          [] A!Field(i, 30, 29) = 1 -> l \/ r
                          [] A!Field(i, 30, 29) = 2 -> l # r
  <2>1. A!Field(i, 30, 29) \in {0, 3} /\ A!Field(i, 30, 29) # 1 /\ A!Field(i, 30, 29) # 2
    OBVIOUS
  <2>2. \A l, r : P(l, r) = (l /\ r)
    BY <2>1, Zenon
  <2>3. A!ArmLogical(s, i) = {b \in 0..bits-1 : P(b \in a, b \in w)}
    BY Zenon DEF A!ArmLogical
  <2> HIDE DEF P, a, w, bits
  <2>4. \A b : P(b \in a, b \in w) = (b \in a /\ b \in w)
    BY <2>2, Zenon
  <2> QED
    BY <2>3, <2>4, Zenon
<1>2. \A x, y : A!Logical(A!Field(i, 30, 29), x, y) = x \cap y
  <2>1. A!Field(i, 30, 29) \in {0, 3} /\ A!Field(i, 30, 29) # 1 /\ A!Field(i, 30, 29) # 2
    OBVIOUS
  <2> QED
    BY <2>1, Zenon DEF A!Logical
<1>3. \A x : A!Lower(x, bits) = x \cap (0..bits-1)
  BY <1>0, LowerIs DEF LowerHas
<1>4. ASSUME handler = "LogImm" PROVE LogImmResult(s, i) = A!ArmLogical(s, i)
  <2>1. w = A!ArmMask(i)
    BY <1>4 DEF A!LogicalRight
  <2>2. A!Masks(i).w = w
    BY <1>4, <2>1, MaskIs
  <2>3. LogImmResult(s, i) = A!Lower(A!Logical(A!Field(i, 30, 29), a, w), bits)
    BY <1>0, <2>2 DEF LogImmResult
  <2>4. LogImmResult(s, i) = (a \cap w) \cap (0..bits-1)
    BY <1>2, <1>3, <2>3
  <2> HIDE DEF a, w, bits
  <2> QED
    BY <1>1, <2>4
<1>5. ASSUME handler = "LogShiftReg" PROVE LogShiftResult(s, i) = A!ArmLogical(s, i)
  <2> DEFINE type == A!Field(i, 23, 22)
             k == A!Field(i, 15, 10)
             x == A!Reg(s, A!Rm(i))
             y == A!ShiftVal(x, type, k, bits)
             b == A!ArmShift(A!Operand(s, i, A!Rm(i)), type, k, bits)
             f == A!Reg(s, A!Rn(i))
  <2>1. type \in 0..3 /\ k \in 0..bits-1
    BY <1>5, ShiftFields DEF A!LeftOpen
  <2>2. x \in SUBSET (0..63) /\ bits \in {32, 64}
    BY <1>0
  <2>3. w = IF 21 \in i THEN (0..bits-1) \ b ELSE b
    <3>1. handler # "LogImm"
      BY <1>5
    <3> QED
      BY <3>1 DEF A!LogicalRight, A!Complement
  <2>4. A!Shifted(s, i) = y
    BY <1>0 DEF A!Shifted
  <2>5. A!Operand(s, i, A!Rm(i)) = x \cap (0..bits-1)
    BY <1>0
  <2>6. ShiftHas(x, type, k, bits)
    <3> HIDE DEF type, k, x, bits
    <3> QED
      BY <2>1, <2>2, ShiftIs
  <2>7. A!Lower(y, bits) = b
    BY <2>5, <2>6, Zenon DEF ShiftHas
  <2>8. y \cap (0..bits-1) = b
    BY <1>3, <2>7
  <2>9. LogShiftResult(s, i) = (f \cap (IF 21 \in i THEN A!Not(y) ELSE y)) \cap (0..bits-1)
    <3>1. LogShiftResult(s, i) =
            A!Lower(A!Logical(A!Field(i, 30, 29), f, IF 21 \in i THEN A!Not(y) ELSE y), bits)
      <4> HIDE DEF y, bits
      <4> QED
        BY <1>0, <2>4 DEF LogShiftResult
    <3> HIDE DEF y, bits, f
    <3> QED
      BY <1>2, <1>3, <3>1
  <2>10. \A d \in 0..bits-1 : d \in A!Not(y) <=> d \notin y
    BY <2>2 DEF A!Not, A!Positions
  <2>11. a = f \cap (0..bits-1)
    BY <1>0
  <2> HIDE DEF a, w, bits, y, b, f
  <2> QED
    BY <1>1, <2>3, <2>8, <2>9, <2>10, <2>11
<1>6. A!LogicalFlags(i, A!ArmLogical(s, i)) =
        <<A!N(i) - 1 \in A!ArmLogical(s, i), A!ArmLogical(s, i) = {}, FALSE, FALSE>>
  BY <1>0, Zenon DEF A!LogicalFlags
<1> QED
  BY <1>4, <1>5, <1>6

\* The flags that an instruction leaves which sets them.
LEMMA FlagsOf ==
  ASSUME NEW s, IsProcessor(s), NEW i, handler = A!Handler(i), ~A!LeftOpen(i),
         handler \in FlagSetters
  PROVE  A!Executed(s, i).nzcv = A!ArmFlags(s, i)
<1> DEFINE bits == A!N(i)
<1>0. IsCpu(s) /\ Dispatched(s, i)
  BY Dispatches, Zenon DEF IsProcessor
<1>1. /\ A!Bits(i) = bits /\ bits \in {32, 64}
      /\ A!Rn(i) \in 0..31 /\ A!Rm(i) \in 0..31
  BY OperandsAre, Fields
<1>2. /\ FirstOperand(s, i) = A!Operand(s, i, A!Rn(i)) /\ FirstOperand(s, i) \in SUBSET (0..bits-1)
      /\ A!Lower(A!Reg(s, A!Rm(i)), A!Bits(i)) = A!Operand(s, i, A!Rm(i))
      /\ A!Operand(s, i, A!Rm(i)) \in SUBSET (0..bits-1)
      /\ LeftSP(s, i) = s.x[A!Rn(i)] \cap (0..bits-1)
      /\ A!ArmReg(s, A!Rn(i)) = A!Reg(s, A!Rn(i))
  BY <1>1, OperandsAre DEF FirstOperand, LeftSP
<1>3. /\ handler = "AddSubShiftReg" => FirstOperand(s, i) = A!SumLeft(s, i)
      /\ handler \in {"AddSubImm", "AddSubExtReg"} =>
           LeftSP(s, i) = A!SumLeft(s, i) /\ LeftSP(s, i) \in SUBSET (0..bits-1)
  <2>1. handler = "AddSubShiftReg" => FirstOperand(s, i) = A!SumLeft(s, i)
    BY <1>2 DEF A!SumLeft, A!Operand
  <2>2. LeftSP(s, i) \in SUBSET (0..bits-1)
    BY <1>2
  <2>3. handler \in {"AddSubImm", "AddSubExtReg"} => LeftSP(s, i) = A!SumLeft(s, i)
    BY <1>2 DEF A!SumLeft
  <2> QED
    BY <2>1, <2>2, <2>3
<1>4. \A a, b : a \in SUBSET (0..bits-1) /\ b \in SUBSET (0..bits-1)
                  => A!AddSubSum(i, a, b).nzcv = A!ArmSumFlags(i, a, b)
  BY SumsAre
<1>5. CASE handler \in A!SumHandlers
  <2> DEFINE a == A!SumLeft(s, i)
             b == A!SumRight(s, i)
             nz == IF 29 \in i THEN A!ArmSumFlags(i, a, b) ELSE s.nzcv
  <2>1. handler = "AddSubImm" \/ handler = "AddSubExtReg" \/ handler = "AddSubShiftReg"
    BY <1>5 DEF A!SumHandlers
  <2>2. A!ArmFlags(s, i) = nz
    <3>1. CASE 29 \in i
      <4>1. handler \in A!SumHandlers /\ 29 \in i /\ handler \notin {"LogImm", "LogShiftReg"}
            /\ handler # "CondCompare"
        BY <1>5, <3>1 DEF A!SumHandlers
      <4> QED
        BY <4>1, Zenon DEF A!ArmFlags
    <3>2. CASE 29 \notin i
      <4>1. ~(handler \in A!SumHandlers /\ 29 \in i)
        BY <3>2
      <4>2. ~(handler \in {"LogImm", "LogShiftReg"} /\ A!Field(i, 30, 29) = 3)
            /\ handler # "CondCompare"
        BY <2>1
      <4> QED
        BY <3>2, <4>1, <4>2, Zenon DEF A!ArmFlags
    <3> QED
      BY <3>1, <3>2
  <2>3. ASSUME NEW w \in SUBSET (0..bits-1), a \in SUBSET (0..bits-1), w = b
        PROVE  SumFlags(s, i, a, w) = nz
    BY <1>4, <2>3 DEF SumFlags
  <2>4. ASSUME handler = "AddSubImm" PROVE Flags(s, A!Executed(s, i), nz)
    <3>1. Flags(s, A!AddSubImm(s, i), SumFlags(s, i, LeftSP(s, i), ImmRight(i)))
      BY <1>0, FlagHandlers
    <3>2. ImmRight(i) = b /\ ImmRight(i) \in SUBSET (0..bits-1)
      BY <2>4, RightsAre
    <3>3. LeftSP(s, i) = a /\ a \in SUBSET (0..bits-1)
      BY <1>3, <2>4
    <3>4. SumFlags(s, i, a, ImmRight(i)) = nz
      <4> HIDE DEF a, b, nz
      <4> QED
        BY <2>3, <3>2, <3>3
    <3> QED
      BY <1>0, <2>4, <3>1, <3>3, <3>4, Zenon DEF Dispatched
  <2>5. ASSUME handler = "AddSubExtReg" PROVE Flags(s, A!Executed(s, i), nz)
    <3>1. Flags(s, A!AddSubExtReg(s, i), SumFlags(s, i, LeftSP(s, i), ExtRight(s, i)))
      BY <1>0, FlagHandlers
    <3>2. ExtRight(s, i) = b /\ ExtRight(s, i) \in SUBSET (0..bits-1)
      BY <2>5, RightsAre
    <3>3. LeftSP(s, i) = a /\ a \in SUBSET (0..bits-1)
      BY <1>3, <2>5
    <3>4. SumFlags(s, i, a, ExtRight(s, i)) = nz
      <4> HIDE DEF a, b, nz
      <4> QED
        BY <2>3, <3>2, <3>3
    <3> QED
      BY <1>0, <2>5, <3>1, <3>3, <3>4, Zenon DEF Dispatched
  <2>6. ASSUME handler = "AddSubShiftReg" PROVE Flags(s, A!Executed(s, i), nz)
    <3>1. Flags(s, A!AddSubShiftReg(s, i), SumFlags(s, i, FirstOperand(s, i), ShiftRight(s, i)))
      BY <1>0, FlagHandlers
    <3>2. ShiftRight(s, i) = b /\ ShiftRight(s, i) \in SUBSET (0..bits-1)
      BY <2>6, RightsAre
    <3>3. FirstOperand(s, i) = a /\ a \in SUBSET (0..bits-1)
      BY <1>2, <1>3, <2>6
    <3>4. SumFlags(s, i, a, ShiftRight(s, i)) = nz
      <4> HIDE DEF a, b, nz
      <4> QED
        BY <2>3, <3>2, <3>3
    <3> QED
      BY <1>0, <2>6, <3>1, <3>3, <3>4, Zenon DEF Dispatched
  <2> HIDE DEF nz
  <2> QED
    BY <2>1, <2>2, <2>4, <2>5, <2>6 DEF Flags
<1>6. CASE handler \in {"LogImm", "LogShiftReg"}
  <2> DEFINE r == A!ArmLogical(s, i)
             nz == IF A!Field(i, 30, 29) = 3 THEN A!LogicalFlags(i, r) ELSE s.nzcv
  <2>1. A!ArmFlags(s, i) = nz
    <3>1. ~(handler \in A!SumHandlers /\ 29 \in i) /\ handler # "CondCompare"
      BY <1>6 DEF A!SumHandlers
    <3>2. CASE A!Field(i, 30, 29) = 3
      <4>1. A!LogicalFlags(i, r) = <<A!N(i) - 1 \in r, r = {}, FALSE, FALSE>>
        BY <3>2, ConjunctionIs
      <4>2. A!ArmFlags(s, i) = <<A!N(i) - 1 \in r, r = {}, FALSE, FALSE>>
        BY <1>6, <3>1, <3>2, Zenon DEF A!ArmFlags
      <4> QED
        BY <3>2, <4>1, <4>2, Zenon
    <3>3. CASE A!Field(i, 30, 29) # 3
      BY <3>1, <3>3, Zenon DEF A!ArmFlags
    <3> QED
      BY <3>2, <3>3
  <2>2. Flags(s, A!Executed(s, i), nz)
    <3>1. CASE A!Field(i, 30, 29) = 3
      <4>1. /\ handler = "LogImm" => LogImmResult(s, i) = r
            /\ handler = "LogShiftReg" => LogShiftResult(s, i) = r
        BY <3>1, ConjunctionIs
      <4>2. /\ Flags(s, A!LogImm(s, i), A!LogicalFlags(i, LogImmResult(s, i)))
            /\ Flags(s, A!LogShiftReg(s, i), A!LogicalFlags(i, LogShiftResult(s, i)))
        BY <1>0, <3>1, FlagHandlers
      <4> HIDE DEF r
      <4> QED
        BY <1>0, <1>6, <3>1, <4>1, <4>2 DEF Dispatched
    <3>2. CASE A!Field(i, 30, 29) # 3
      <4>1. Flags(s, A!LogImm(s, i), s.nzcv) /\ Flags(s, A!LogShiftReg(s, i), s.nzcv)
        BY <1>0, <3>2, FlagHandlers
      <4> QED
        BY <1>0, <1>6, <3>2, <4>1 DEF Dispatched
    <3> QED
      BY <3>1, <3>2
  <2> HIDE DEF nz
  <2> QED
    BY <2>1, <2>2 DEF Flags
<1>7. CASE handler = "CondCompare"
  <2> DEFINE a == A!Operand(s, i, A!Rn(i))
             b == IF 11 \in i THEN {d - 16 : d \in i \cap (16..20)} ELSE A!Operand(s, i, A!Rm(i))
             q == <<3 \in i, 2 \in i, 1 \in i, 0 \in i>>
             nz == IF A!CondHolds(s, A!Field(i, 15, 12)) THEN A!ArmSumFlags(i, a, b) ELSE q
  <2>1. A!ArmFlags(s, i) = nz
    <3>1. ~(handler \in A!SumHandlers /\ 29 \in i)
          /\ ~(handler \in {"LogImm", "LogShiftReg"} /\ A!Field(i, 30, 29) = 3)
      BY <1>7 DEF A!SumHandlers
    <3> QED
      BY <1>7, <3>1, Zenon DEF A!ArmFlags
  <2>2. CompareRight(s, i) = b /\ b \in SUBSET (0..bits-1)
    <3>1. A!Slice(i, 20, 16) = {d \in 0..20-16 : d + 16 \in i}
      BY SliceIs DEF SliceHas
    <3>2. A!Slice(i, 20, 16) = {d - 16 : d \in i \cap (16..20)}
      BY <3>1
    <3>3. A!Slice(i, 20, 16) \in SUBSET (0..bits-1)
      BY <1>1, <3>1
    <3> HIDE DEF bits
    <3> QED
      BY <1>2, <3>2, <3>3 DEF CompareRight
  <2>3. Flags(s, A!Executed(s, i),
              IF A!CondHolds(s, A!Field(i, 15, 12))
              THEN A!AddSubSum(i, FirstOperand(s, i), CompareRight(s, i)).nzcv ELSE q)
    <3>1. A!Executed(s, i) = A!CondCompare(s, i)
      BY <1>0, <1>7 DEF Dispatched
    <3> QED
      BY <1>0, <3>1, FlagHandlers
  <2>4. A!AddSubSum(i, FirstOperand(s, i), CompareRight(s, i)).nzcv = A!ArmSumFlags(i, a, b)
    <3>1. FirstOperand(s, i) = a /\ a \in SUBSET (0..bits-1)
      BY <1>2
    <3> HIDE DEF a, b
    <3> QED
      BY <1>4, <2>2, <3>1
  <2>5. Flags(s, A!Executed(s, i), nz)
    <3> HIDE DEF a, b, q
    <3> QED
      BY <2>3, <2>4
  <2> HIDE DEF nz
  <2> QED
    BY <2>1, <2>5 DEF Flags
<1> QED
  BY <1>5, <1>6, <1>7 DEF FlagSetters, A!SumHandlers

\* The flags are those of the architecture after the instructions that set
\* them, and every other instruction keeps them.
THEOREM FlagsSafe == MachineSpec => []FlagsAsArm
<1>1. MachineInv => FlagsAsArm
  <2> SUFFICES ASSUME MachineInv, AsInArm
               PROVE  cpu.nzcv = A!ArmFlags(from, inst)
    BY DEF FlagsAsArm
  <2>1. /\ IsProcessor(from) /\ inst \in Guest \cup Others /\ handler = A!Handler(inst)
        /\ handler \in Handlers /\ cpu = A!Executed(from, inst) /\ ~cpu.error
    BY ExecutedAs
  <2>2. CASE handler \in FlagSetters
    <3>1. ~A!LeftOpen(inst)
      BY <2>1, EncodingAssumption
    <3> QED
      BY <2>1, <2>2, <3>1, FlagsOf
  <2>3. CASE handler \notin FlagSetters
    <3>1. cpu.nzcv = from.nzcv
      <4>1. CASE handler \in BranchHandlers
        <5>1. Dispatched(from, inst)
          BY Dispatches
        <5>2. BranchesTo(from, inst, cpu)
          BY <2>1, <4>1, <5>1, Branching DEF Dispatched, BranchHandlers
        <5> QED
          BY <2>1, <5>2 DEF BranchesTo, JumpsTo
      <4>2. CASE handler \notin BranchHandlers
        <5>1. handler \in Quiets \cup Accessors
          BY <2>1, <2>3, <4>2, Kinds
        <5>2. Moves(from, cpu)
          BY <2>1, <2>3, <5>1, NotBranching, Zenon DEF IsProcessor
        <5> QED
          BY <2>1, <5>2 DEF Moves
      <4> QED
        BY <4>1, <4>2
    <3>2. /\ handler \notin A!SumHandlers /\ handler \notin {"LogImm", "LogShiftReg"}
          /\ handler # "CondCompare"
      BY <2>3 DEF FlagSetters, A!SumHandlers
    <3>3. A!ArmFlags(from, inst) = from.nzcv
      BY <3>2, Zenon DEF A!ArmFlags
    <3> QED
      BY <3>1, <3>3
  <2> QED
    BY <2>2, <2>3
<1> QED
  BY <1>1, MachineInvariant, PTL
=============================================================================
