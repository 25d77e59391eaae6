------------------------------ MODULE FpFlags ------------------------------
(***************************************************************************)
(* The condition flags of the ARM64 interpreter                            *)
(* (tools/fpsap-helper/fpemu/fpexchange_interp.go): the instructions that  *)
(* set them, of 32 and of 64 bits, and condHolds, by which branches,       *)
(* selections and conditional compares go.                                 *)
(*                                                                         *)
(* Registers are left open: an operand is any word, which is what a        *)
(* register, a shift or an extension of one, or an immediate may give.     *)
(* Flags are 0 or 1.  The history variables hold the last instruction that *)
(* set the flags from its operands.                                        *)
(***************************************************************************)
EXTENDS Integers

CONSTANTS
  Half32, Half64,       \* half the words of 32 and of 64 bits
  CodeSize              \* instructions in the code (a bound of the model)

ASSUME WidthAssumption ==
  /\ Half32 \in Nat \ {0}
  /\ Half64 \in Nat \ {0}
ASSUME CodeAssumption == CodeSize \in Nat \ {0}

VARIABLES
  pc,                   \* the instruction that is next
  n, z, c, v,           \* the flags
  kind,                 \* history: "sub", "add", "and", or "none"
  width, lhs, rhs       \* history: its width and operands

flags == <<n, z, c, v>>
last == <<kind, width, lhs, rhs>>
vars == <<pc, n, z, c, v, kind, width, lhs, rhs>>

Widths == {32, 64}
Half(w) == IF w = 64 THEN Half64 ELSE Half32
Modulus(w) == 2 * Half(w)
Words(w) == 0..Modulus(w)-1

Bit(p) == IF p THEN 1 ELSE 0

Negative(w, x) == x >= Half(w)
Signed(w, x) == IF Negative(w, x) THEN x - Modulus(w) ELSE x
Complement(w, x) == Modulus(w) - 1 - x

Init ==
  /\ pc = 0
  /\ n = 0 /\ z = 0 /\ c = 0 /\ v = 0
  /\ kind = "none"
  /\ width = 64 /\ lhs = 0 /\ rhs = 0

(***************************************************************************)
(* fpAddWithCarry64, fpAddWithCarry32.                                     *)
(***************************************************************************)
Sum(w, x, y, carry) == (x + y + carry) % Modulus(w)

\* There is no wider word for the sum of 64 bits: a sum that wrapped is less
\* than an operand, or as little if 1 was carried in.
CarryOut64(x, y, carry) ==
  IF carry = 0 THEN Sum(64, x, y, carry) < x ELSE Sum(64, x, y, carry) <= x

CarryOut32(x, y, carry) == x + y + carry >= Modulus(32)

\* Mutant: overflow is looked for in the sign of one operand only.
OverflowOfOne(w, x, y, r) == Negative(w, x) # Negative(w, r)

\* The operands have one sign and the result the other.
Overflow(w, x, y, r) ==
  /\ Negative(w, x) # Negative(w, r)
  /\ Negative(w, y) # Negative(w, r)

AddWithCarry(w, x, y, carry) ==
  /\ n' = Bit(Negative(w, Sum(w, x, y, carry)))
  /\ z' = Bit(Sum(w, x, y, carry) = 0)
  /\ c' = Bit(IF w = 64 THEN CarryOut64(x, y, carry) ELSE CarryOut32(x, y, carry))
  /\ v' = Bit(Overflow(w, x, y, Sum(w, x, y, carry)))

SetFlags(w, op, a, b) ==
  /\ IF op = "add" THEN AddWithCarry(w, a, b, 0)
     ELSE AddWithCarry(w, a, Complement(w, b), 1)
  /\ kind' = op
  /\ width' = w /\ lhs' = a /\ rhs' = b

(***************************************************************************)
(* condHolds.                                                              *)
(***************************************************************************)
Holds(k) ==
  \/ k = 0 /\ z = 1
  \/ k = 1 /\ c = 1
  \/ k = 2 /\ n = 1
  \/ k = 3 /\ v = 1
  \/ k = 4 /\ c = 1 /\ z = 0
  \/ k = 5 /\ n = v
  \/ k = 6 /\ n = v /\ z = 0
  \/ k = 7

\* cond is k with its lowest bit clear or, negated, set; 15 is not negated.
Conditions == (0..7) \X {"holds", "not"}
CondHolds(cond) ==
  IF cond[2] = "not" /\ cond[1] # 7 THEN ~Holds(cond[1]) ELSE Holds(cond[1])

(***************************************************************************)
(* Instructions.                                                           *)
(***************************************************************************)
Advance == pc' = (pc + 1) % CodeSize

\* ADDS and SUBS with an immediate, a shifted or an extended register.
AddSub(w, op, a, b) ==
  /\ SetFlags(w, op, a, b)
  /\ Advance

\* ANDS and BICS: r is the conjunction.
LogicalTest(w, r) ==
  /\ n' = Bit(Negative(w, r))
  /\ z' = Bit(r = 0)
  /\ c' = 0
  /\ v' = 0
  /\ kind' = "and"
  /\ width' = w /\ lhs' = r /\ rhs' = 0
  /\ Advance

\* CCMP and CCMN: a comparison, or four flags out of the instruction.
CondCompare(w, op, cond, a, b) ==
  /\ CondHolds(cond)
  /\ SetFlags(w, op, a, b)
  /\ Advance

CondCompareNot(cond) ==
  /\ ~CondHolds(cond)
  /\ n' \in 0..1 /\ z' \in 0..1 /\ c' \in 0..1 /\ v' \in 0..1
  /\ kind' = "none"
  /\ width' = 64 /\ lhs' = 0 /\ rhs' = 0
  /\ Advance

Branch(cond, target) ==
  /\ IF CondHolds(cond) THEN pc' = target ELSE Advance
  /\ UNCHANGED <<flags, last>>

\* An instruction that leaves the flags alone.
Other ==
  /\ Advance
  /\ UNCHANGED <<flags, last>>

Next ==
  \/ \E w \in Widths, op \in {"add", "sub"} : \E a, b \in Words(w) : AddSub(w, op, a, b)
  \/ \E w \in Widths : \E r \in Words(w) : LogicalTest(w, r)
  \/ \E w \in Widths, op \in {"add", "sub"}, cond \in Conditions :
       \E a, b \in Words(w) : CondCompare(w, op, cond, a, b)
  \/ \E cond \in Conditions : CondCompareNot(cond)
  \/ \E cond \in Conditions, target \in 0..CodeSize-1 : Branch(cond, target)
  \/ Other

Spec == Init /\ [][Next]_vars

(***************************************************************************)
(* Properties.                                                             *)
(***************************************************************************)

\* Types of the variables.
TypeOK ==
  /\ pc \in 0..CodeSize-1
  /\ n \in 0..1 /\ z \in 0..1 /\ c \in 0..1 /\ v \in 0..1
  /\ kind \in {"none", "sub", "add", "and"}
  /\ width \in Widths
  /\ lhs \in Words(width)
  /\ rhs \in Words(width)

\* What numbers the operands stand for.
Left == Signed(width, lhs)
Right == Signed(width, rhs)
OutOfRange(s) == s < -Half(width) \/ s >= Half(width)

\* After SUBS a, b (CMP) the conditions compare a with b, as unsigned numbers
\* and as signed ones, also where the difference is out of range.
ComparesRight ==
  kind = "sub" =>
    /\ Holds(0) <=> lhs = rhs
    /\ Holds(1) <=> lhs >= rhs
    /\ Holds(4) <=> lhs > rhs
    /\ Holds(5) <=> Left >= Right
    /\ Holds(6) <=> Left > Right
    /\ Holds(3) <=> OutOfRange(Left - Right)
    /\ Holds(2) <=> (Left < Right) # OutOfRange(Left - Right)

\* After ADDS a, b (CMN) they tell whether the sum fits and which sign it has.
AddsRight ==
  kind = "add" =>
    /\ Holds(0) <=> lhs + rhs \in {0, Modulus(width)}
    /\ Holds(1) <=> lhs + rhs >= Modulus(width)
    /\ Holds(5) <=> Left + Right >= 0
    /\ Holds(6) <=> Left + Right > 0
    /\ Holds(3) <=> OutOfRange(Left + Right)

\* After ANDS (TST) they tell the sign of the conjunction.
TestsRight ==
  kind = "and" =>
    /\ Holds(0) <=> lhs = 0
    /\ Holds(2) <=> Left < 0
    /\ Holds(5) <=> Left >= 0
    /\ Holds(6) <=> Left > 0

\* The inductive invariant: the flags mean what the ARM conditions say of the
\* operands, although words of 32 and of 64 bits go different ways to them.
FlagsInv == TypeOK /\ ComparesRight /\ AddsRight /\ TestsRight
=============================================================================
