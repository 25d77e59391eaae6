------------------------------ MODULE FpWords ------------------------------
(***************************************************************************)
(* The 64-bit words of the ARM64 interpreter                               *)
(* (tools/fpsap-helper/fpemu/fpexchange_interp.go) and the helpers it      *)
(* computes with.  A word is the set of the positions of its 1 bits: no    *)
(* integer of TLC is wide enough, and masks, shifts and the wrapping sums  *)
(* of Go are plain set theory.                                             *)
(***************************************************************************)
EXTENDS Integers, Sequences, FiniteSets, FiniteSetsExt

Positions == 0..63
Low(k) == 0..k-1                                \* 1<<k - 1
Ones == Low(64)

\* The word of a natural number, and the number of a word that is small.
Word(n) == {b \in 0..30 : (n \div 2^b) % 2 = 1}
Number(x) == MapThenSumSet(LAMBDA b : 2^b, x)

\* The 32-bit constant that reads hi, lo in hexadecimal.
Halves(hi, lo) ==
  {b \in 0..31 : (IF b < 16 THEN lo \div 2^b ELSE hi \div 2^(b-16)) % 2 = 1}

(***************************************************************************)
(* Operators of Go on uint64.                                              *)
(***************************************************************************)
Not(x) == {b \in Positions : b \notin x}
Xor(x, y) == {b \in Positions : (b \in x) # (b \in y)}
Shl(x, k) == {b \in Positions : b - k \in x}
Shr(x, k) == {b \in Positions : b + k \in x}

\* Bits k-1..0 of x, and bits h..l moved down to 0.
Lower(x, k) == {b \in Low(k) : b \in x}
Slice(x, h, l) == Shr(Lower(x, h + 1), l)

\* A position gets a carry if a lower one generates it, or carry is 1, and
\* those between pass it on.
Carries(x, y, carry) ==
  LET generates == x \cap y
      passes == x \cup y
  IN {i \in 0..64 :
        \/ \E j \in generates : j < i /\ (j+1)..(i-1) \subseteq passes
        \/ carry = 1 /\ 0..(i-1) \subseteq passes}

AddCarry(x, y, carry) == Xor(Xor(x, y), Carries(x, y, carry))
Plus(x, y) == AddCarry(x, y, 0)
Minus(x, y) == AddCarry(x, Not(y), 1)
Negated(x) == Minus({}, x)

\* x * y: the wrapped sum of x shifted by the positions of y.
Times(x, y) == FoldSet(LAMBDA b, sum : Plus(sum, Shl(x, b)), {}, y)

\* x < y as unsigned numbers: they differ first in a bit of y.
Less(x, y) == x # y /\ Max(Xor(x, y)) \in y

\* x / y by long division, one bit of x after another; y # {}.  Each step maps
\* the quotient and the remainder so far.
DivideStep(bit, sofar, x, y) ==
  LET rest == {b + 1 : b \in sofar[2]} \cup (IF bit \in x THEN {0} ELSE {})
  IN IF Less(rest, y) THEN <<sofar[1], rest>>
     ELSE <<sofar[1] \cup {bit}, Minus(rest, y)>>

Quotient(x, y) ==
  LET step[b \in 0..64] == IF b = 64 THEN <<{}, {}>> ELSE DivideStep(b, step[b+1], x, y)
  IN step[0][1]

\* Magnitude and sign for int64 and, sign-extended, int32.
Absolute(x) == IF 63 \in x THEN Negated(x) ELSE x
SignedQuotient(x, y) ==
  IF (63 \in x) = (63 \in y) THEN Quotient(Absolute(x), Absolute(y))
  ELSE Negated(Quotient(Absolute(x), Absolute(y)))

(***************************************************************************)
(* fpSignExtend, fpAddWithCarry64, fpAddWithCarry32.                       *)
(***************************************************************************)

SignExtend(x, bits) == {b \in Positions : b \in x \/ (b >= bits /\ bits - 1 \in x)}

\* The result and the flags n, z, c, v of a sum of words of `bits` bits; the
\* carry of 64 bits shows in the result being less than an operand.
AddWithCarry(x, y, carry, bits) ==
  LET r == Lower(AddCarry(x, y, carry), bits)
      top == bits - 1
  IN [result |-> r,
      nzcv |-> <<top \in r,
                 r = {},
                 IF bits = 32 THEN 32 \in AddCarry(x, y, carry)
                 ELSE Less(r, x) \/ (carry = 1 /\ r = x),
                 top \in Xor(x, r) \cap Xor(y, r)>>]

(***************************************************************************)
(* fpDecodeBitMasks.                                                       *)
(***************************************************************************)

RotateElement(elem, R, esize) ==
  Lower(Shr(elem, R) \cup Shl(elem, esize - R), esize)

\* elem at every multiple of esize.
Replicate(elem, esize) ==
  {b \in Positions : b % esize \in elem}

BitMasks(nBit, imms, immr, bits) ==
  LET combined == 64 * nBit + 63 - imms
      length == Max({0} \cup {k \in 1..6 : (combined \div 2^k) % 2 = 1})
      esize == 2^length
      S == imms % esize
      R == immr % esize
      diff == (S - R) % esize
      welem == IF R = 0 THEN Low(S + 1) ELSE RotateElement(Low(S + 1), R, esize)
  IN [w |-> Lower(Replicate(welem, esize), bits),
      t |-> Lower(Replicate(Lower(Low(diff + 1), esize), esize), bits)]

(***************************************************************************)
(* fpShiftVal.                                                             *)
(***************************************************************************)
Arithmetic(x, k, bits) ==                       \* int64(x) >> k, int32(x) >> k
  {b \in Low(bits) : (IF b + k < bits THEN b + k ELSE bits - 1) \in x}

Rotate(x, k, bits) == Shr(x, k) \cup Shl(x, bits - k)

ShiftVal(x, type, amount, bits) ==
  LET val == Lower(x, bits)
      k == amount % bits
  IN IF amount = 0 THEN x
     ELSE Lower(CASE type = 0 -> Shl(val, k)
                  [] type = 1 -> Shr(val, k)
                  [] type = 2 -> Arithmetic(val, k, bits)
                  [] type = 3 -> Rotate(val, k, bits), bits)

(***************************************************************************)
(* Reversals, leading zeros and high products.                             *)
(***************************************************************************)

\* x with the groups of k bits in every 2k exchanged.
Swap(x, k) == {b \in Positions : IF (b \div k) % 2 = 0 THEN b + k \in x ELSE b - k \in x}

Rev16(x) == Swap(x, 8)
Rev32(x) == Swap(Swap(x, 8), 16)                \* both halves at once
Rev64(x) == Swap(Rev32(x), 32)
RbitOfBytes(x) == Swap(Swap(Swap(x, 1), 2), 4)
Rbit(x, bits) ==
  IF bits = 64 THEN Rev64(RbitOfBytes(x)) ELSE Rev32(RbitOfBytes(Lower(x, 32)))

Clz(x, bits) == IF Lower(x, bits) = {} THEN bits ELSE bits - 1 - Max(Lower(x, bits))

\* Mutant: the carry out of the middle products is forgotten.
MiddleCarryLost(low, mid1, mid2) == {}

MiddleCarry(low, mid1, mid2) ==
  Shr(Plus(Plus(Shr(low, 32), Lower(mid1, 32)), Lower(mid2, 32)), 32)

Mulhi(a, b) ==
  LET mid1 == Times(Shr(a, 32), Lower(b, 32))
      mid2 == Times(Lower(a, 32), Shr(b, 32))
      lo == Times(Lower(a, 32), Lower(b, 32))
      hi == Times(Shr(a, 32), Shr(b, 32))
  IN Plus(Plus(Plus(hi, Shr(mid1, 32)), Shr(mid2, 32)), MiddleCarry(lo, mid1, mid2))

Smulhi(a, b) ==
  Minus(Minus(Mulhi(a, b), IF 63 \in a THEN b ELSE {}), IF 63 \in b THEN a ELSE {})

(***************************************************************************)
(* fpVfpExpandImm32, fpVfpExpandImm64: sign, exponent and fraction, the    *)
(* exponent having `copies` copies of bit 6.                               *)
(***************************************************************************)
VfpExpandImm(imm8, bits, copies) ==
  LET sign == IF 7 \in imm8 THEN {bits - 1} ELSE {}
      exponent == IF 6 \in imm8 THEN (bits - 2 - copies)..(bits - 3) ELSE {bits - 2}
  IN sign \cup exponent \cup Shl(Lower(imm8, 6), bits - 8 - copies)
=============================================================================
