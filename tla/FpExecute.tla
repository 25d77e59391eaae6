---------------------------- MODULE FpExecute ----------------------------
(***************************************************************************)
(* What each instruction of the ARM64 interpreter                          *)
(* (tools/fpsap-helper/fpemu/fpexchange_interp.go) does: one operator per  *)
(* fpExec function, from a processor to the processor after it.            *)
(*                                                                         *)
(* A processor s (fpCPU) has registers s.x[0..30], the stack pointer as    *)
(* s.x[31], vector registers s.v[0..31] as pairs <<low, high>>, the        *)
(* address s.pc, the flags s.nzcv, the stores s.stores made so far as      *)
(* <<address, bytes, value>>, and s.error if the instruction was refused.  *)
(* Memory is read from ByteAt(s.fill, address); its pages are in FpMemory. *)
(***************************************************************************)
EXTENDS FpDecode

CONSTANT ByteAt(_, _)   \* the bits of the byte at an address, for each fill

(***************************************************************************)
(* Registers, flags and memory.                                            *)
(***************************************************************************)
Reg(s, r) == IF r = 31 THEN {} ELSE s.x[r]
RegSP(s, r) == s.x[r]
SetRegSP(s, r, w) == [s EXCEPT !.x[r] = w]
SetReg(s, r, w) == IF r = 31 THEN s ELSE SetRegSP(s, r, w)
SetVector(s, r, lo, hi) == [s EXCEPT !.v[r] = <<lo, hi>>]
SetFlags(s, nzcv) == [s EXCEPT !.nzcv = nzcv]
Advance(s) == [s EXCEPT !.pc = Plus(s.pc, {2})]
Fault(s) == [s EXCEPT !.error = TRUE]

\* condHolds.
CondHolds(s, cond) ==
  LET N == s.nzcv[1]
      Z == s.nzcv[2]
      C == s.nzcv[3]
      V == s.nzcv[4]
      k == cond \div 2
      r == \/ k = 0 /\ Z
           \/ k = 1 /\ C
           \/ k = 2 /\ N
           \/ k = 3 /\ V
           \/ k = 4 /\ C /\ ~Z
           \/ k = 5 /\ N = V
           \/ k = 6 /\ N = V /\ ~Z
           \/ k = 7
  IN IF cond % 2 = 1 /\ cond # 15 THEN ~r ELSE r

Load(s, address, bytes) ==
  UNION {Shl(ByteAt(s.fill, Plus(address, Word(k))), 8 * k) : k \in 0..bytes-1}

Store(s, address, bytes, w) ==
  [s EXCEPT !.stores = Append(@, <<address, bytes, Lower(w, 8 * bytes)>>)]

\* The fields most instructions share; sf chooses 64 or 32 bits.
Rd(i) == Field(i, 4, 0)
Rn(i) == Field(i, 9, 5)
Ra(i) == Field(i, 14, 10)
Rm(i) == Field(i, 20, 16)
Bits(i) == IF 31 \in i THEN 64 ELSE 32
Q(i) == 30 \in i

(***************************************************************************)
(* Data processing, immediate.                                             *)
(***************************************************************************)
PCRel(s, i) ==
  LET imm == SignExtend(Shl(Slice(i, 23, 5), 2) \cup Slice(i, 30, 29), 21)
  IN Advance(SetReg(s, Rd(i),
       IF 31 \in i THEN Plus(s.pc \ Low(12), Shl(imm, 12)) ELSE Plus(s.pc, imm)))

\* The sum or difference of a and b; the flags if bit 29 asks for them.
AddSubSum(i, a, b) ==
  IF 30 \in i THEN AddWithCarry(a, Lower(Not(b), Bits(i)), 1, Bits(i))
  ELSE AddWithCarry(a, b, 0, Bits(i))

AddSub(i, a, b) == Lower(IF 30 \in i THEN Minus(a, b) ELSE Plus(a, b), Bits(i))

\* Imm and ExtReg write the stack pointer when they set no flags.
AddSubSP(s, i, a, b) ==
  IF 29 \in i
  THEN Advance(SetFlags(SetReg(s, Rd(i), AddSubSum(i, a, b).result), AddSubSum(i, a, b).nzcv))
  ELSE Advance(SetRegSP(s, Rd(i), AddSub(i, a, b)))

AddSubImm(s, i) ==
  LET imm12 == Slice(i, 21, 10)
  IN AddSubSP(s, i, Lower(RegSP(s, Rn(i)), Bits(i)),
              IF Field(i, 23, 22) = 1 THEN Shl(imm12, 12) ELSE imm12)

\* AND, ORR, EOR and ANDS by opc, shared with the shifted register form.
Logical(opc, a, b) ==
  CASE opc \in {0, 3} -> a \cap b
    [] opc = 1 -> a \cup b
    [] opc = 2 -> Xor(a, b)

LogicalFlags(i, r) == <<Bits(i) - 1 \in r, r = {}, FALSE, FALSE>>

Masks(i) == BitMasks(Field(i, 22, 22), Field(i, 15, 10), Field(i, 21, 16), Bits(i))

LogImm(s, i) ==
  LET opc == Field(i, 30, 29)
      r == Lower(Logical(opc, Lower(Reg(s, Rn(i)), Bits(i)), Masks(i).w), Bits(i))
  IN Advance(IF opc = 3 THEN SetReg(SetFlags(s, LogicalFlags(i, r)), Rd(i), r)
             ELSE SetRegSP(s, Rd(i), r))

MoveWide(s, i) ==
  LET opc == Field(i, 30, 29)
      shift == 16 * Field(i, 22, 21)
      imm == Shl(Slice(i, 20, 5), shift)
      kept == Reg(s, Rd(i)) \ Shl(Low(16), shift)
  IN CASE opc = 0 -> Advance(SetReg(s, Rd(i), Lower(Not(imm), Bits(i))))
       [] opc = 1 -> Fault(s)
       [] opc = 2 -> Advance(SetReg(s, Rd(i), imm))
       [] opc = 3 -> Advance(SetReg(s, Rd(i), kept \cup imm))

Bitfield(s, i) ==
  LET opc == Field(i, 30, 29)
      immr == Field(i, 21, 16)
      imms == Field(i, 15, 10)
      w == Masks(i).w
      t == Masks(i).t
      src == Lower(Reg(s, Rn(i)), Bits(i))
      dst == Lower(Reg(s, Rd(i)), Bits(i))
      rotated == IF immr = 0 THEN src ELSE Lower(Rotate(src, immr, Bits(i)), Bits(i))
      top == IF imms \in src THEN Low(Bits(i)) ELSE {}
      bot == (dst \ w) \cup (rotated \cap w)
      Done(r) == Advance(SetReg(s, Rd(i), Lower(r, Bits(i))))
  IN CASE opc = 0 -> Done((top \ t) \cup (rotated \cap w \cap t))
       [] opc = 1 -> Done((dst \ t) \cup (bot \cap t))
       [] opc = 2 -> Done(rotated \cap w \cap t)
       [] opc = 3 -> Fault(s)

Extract(s, i) ==
  LET lsb == Field(i, 15, 10)
      hi == Lower(Reg(s, Rn(i)), Bits(i))
      lo == Lower(Reg(s, Rm(i)), Bits(i))
  IN Advance(SetReg(s, Rd(i),
       IF lsb = 0 THEN lo ELSE Lower(Shl(hi, Bits(i) - lsb) \cup Shr(lo, lsb), Bits(i))))

(***************************************************************************)
(* Data processing, register.                                              *)
(***************************************************************************)
Shifted(s, i) == ShiftVal(Reg(s, Rm(i)), Field(i, 23, 22), Field(i, 15, 10), Bits(i))

LogShiftReg(s, i) ==
  LET opc == Field(i, 30, 29)
      b == IF 21 \in i THEN Not(Shifted(s, i)) ELSE Shifted(s, i)
      r == Lower(Logical(opc, Reg(s, Rn(i)), b), Bits(i))
  IN Advance(SetReg(IF opc = 3 THEN SetFlags(s, LogicalFlags(i, r)) ELSE s, Rd(i), r))

AddSubShiftReg(s, i) ==
  LET a == Lower(Reg(s, Rn(i)), Bits(i))
      b == Lower(Shifted(s, i), Bits(i))
  IN IF 29 \in i
     THEN Advance(SetFlags(SetReg(s, Rd(i), AddSubSum(i, a, b).result), AddSubSum(i, a, b).nzcv))
     ELSE Advance(SetReg(s, Rd(i), AddSub(i, a, b)))

Extended(x, option) ==
  CASE option = 0 -> Lower(x, 8)
    [] option = 1 -> Lower(x, 16)
    [] option = 2 -> Lower(x, 32)
    [] option \in {3, 7} -> x
    [] option = 4 -> SignExtend(Lower(x, 8), 8)
    [] option = 5 -> SignExtend(Lower(x, 16), 16)
    [] option = 6 -> SignExtend(Lower(x, 32), 32)

AddSubExtReg(s, i) ==
  AddSubSP(s, i, Lower(RegSP(s, Rn(i)), Bits(i)),
           Lower(Shl(Extended(Reg(s, Rm(i)), Field(i, 15, 13)), Field(i, 12, 10)), Bits(i)))

CondCompare(s, i) ==
  LET a == Lower(Reg(s, Rn(i)), Bits(i))
      b == IF 11 \in i THEN Slice(i, 20, 16) ELSE Lower(Reg(s, Rm(i)), Bits(i))
      nzcv == <<3 \in i, 2 \in i, 1 \in i, 0 \in i>>
  IN Advance(SetFlags(s,
       IF CondHolds(s, Field(i, 15, 12)) THEN AddSubSum(i, a, b).nzcv ELSE nzcv))

CondSelect(s, i) ==
  LET b == Reg(s, Rm(i))
      other == CASE ~Q(i) /\ 10 \notin i -> b
                 [] ~Q(i) /\ 10 \in i -> Plus(b, {0})
                 [] Q(i) /\ 10 \notin i -> Not(b)
                 [] Q(i) /\ 10 \in i -> Negated(b)
      r == IF CondHolds(s, Field(i, 15, 12)) THEN Reg(s, Rn(i)) ELSE other
  IN Advance(SetReg(s, Rd(i), Lower(r, Bits(i))))

DP2Src(s, i) ==
  LET opcode == Field(i, 15, 10)
      a == Lower(Reg(s, Rn(i)), Bits(i))
      b == Lower(Reg(s, Rm(i)), Bits(i))
      k == Number(Lower(b, IF 31 \in i THEN 6 ELSE 5))
      Done(r) == Advance(SetReg(s, Rd(i), Lower(r, Bits(i))))
  IN CASE opcode = 2 -> Done(IF b = {} THEN {} ELSE Quotient(a, b))
       [] opcode = 3 -> Done(IF b = {} THEN {}
                             ELSE SignedQuotient(SignExtend(a, Bits(i)), SignExtend(b, Bits(i))))
       [] opcode = 8 -> Done(Shl(a, k))
       [] opcode = 9 -> Done(Shr(a, k))
       [] opcode = 10 -> Done(Arithmetic(a, k, Bits(i)))
       [] opcode = 11 -> Done(IF k = 0 THEN a ELSE Rotate(a, k, Bits(i)))
       [] OTHER -> Fault(s)

DP1Src(s, i) ==
  LET opcode == Field(i, 15, 10)
      x == Reg(s, Rn(i))
      Done(r) == Advance(SetReg(s, Rd(i), Lower(r, Bits(i))))
  IN CASE opcode = 0 -> Done(Rbit(x, Bits(i)))
       [] opcode = 1 -> Done(Rev16(x))
       [] opcode = 2 -> Done(Rev32(x))
       [] opcode = 3 -> Done(Rev64(x))
       [] opcode = 4 -> Done(Word(Clz(x, Bits(i))))
       [] OTHER -> Fault(s)

DP3Src(s, i) ==
  LET op31 == Field(i, 23, 21)
      a == Reg(s, Rn(i))
      b == Reg(s, Rm(i))
      Accumulate(product) ==
        IF 15 \in i THEN Minus(Reg(s, Ra(i)), product) ELSE Plus(Reg(s, Ra(i)), product)
      Done(r) == Advance(SetReg(s, Rd(i), r))
  IN CASE op31 = 0 -> Done(Lower(Accumulate(Times(Lower(a, Bits(i)), Lower(b, Bits(i)))), Bits(i)))
       [] op31 = 1 -> Done(Accumulate(Times(SignExtend(Lower(a, 32), 32), SignExtend(Lower(b, 32), 32))))
       [] op31 = 2 -> Done(Smulhi(a, b))
       [] op31 = 5 -> Done(Accumulate(Times(Lower(a, 32), Lower(b, 32))))
       [] op31 = 6 -> Done(Mulhi(a, b))
       [] OTHER -> Fault(s)

(***************************************************************************)
(* Loads and stores.                                                       *)
(***************************************************************************)
Size(i) == Field(i, 31, 30)

\* fpDoLoadStore: size 3 of the signed loads is a prefetch.
DoLoadStore(s, i, address) ==
  LET opc == Field(i, 23, 22)
      bytes == 2^Size(i)
      loaded == Load(s, address, bytes)
      signed == SignExtend(loaded, 8 * bytes)
  IN Advance(
       CASE opc = 0 -> Store(s, address, bytes, Reg(s, Rd(i)))
         [] opc = 1 -> SetReg(s, Rd(i), loaded)
         [] opc = 2 -> IF Size(i) = 3 THEN s ELSE SetReg(s, Rd(i), signed)
         [] opc = 3 -> IF Size(i) \in {2, 3} THEN s ELSE SetReg(s, Rd(i), Lower(signed, 32)))

LdStUnsigned(s, i) ==
  DoLoadStore(s, i, Plus(RegSP(s, Rn(i)), Shl(Slice(i, 21, 10), Size(i))))

\* The address of the forms with 9 signed bits of offset, and the processor
\* after it was written back, which is before the access.  Type 2 is refused.
Imm9(i) == SignExtend(Slice(i, 20, 12), 9)

\* Mutant: an access that indexes afterwards uses the new address.
Imm9AddressLate(s, i) == Plus(RegSP(s, Rn(i)), Imm9(i))

Imm9Address(s, i) ==
  IF Field(i, 11, 10) = 1 THEN RegSP(s, Rn(i)) ELSE Plus(RegSP(s, Rn(i)), Imm9(i))
Imm9Written(s, i) ==
  IF Field(i, 11, 10) = 0 THEN s ELSE SetRegSP(s, Rn(i), Plus(RegSP(s, Rn(i)), Imm9(i)))

LdStImm9(s, i) ==
  IF Field(i, 11, 10) = 2 THEN Fault(s)
  ELSE DoLoadStore(Imm9Written(s, i), i, Imm9Address(s, i))

LdStRegOff(s, i) ==
  LET option == Field(i, 15, 13)
      x == Reg(s, Rm(i))
      offset == CASE option = 2 -> Lower(x, 32)
                  [] option = 6 -> SignExtend(Lower(x, 32), 32)
                  [] OTHER -> x
  IN DoLoadStore(s, i,
       Plus(RegSP(s, Rn(i)), IF 12 \in i THEN Shl(offset, Size(i)) ELSE offset))

\* Pairs: the offset in units of 2^scale bytes, and where it is applied.
PairOffset(i, scale) == Shl(SignExtend(Slice(i, 21, 15), 7), scale)
PairRefused(i) == Size(i) = 3 \/ Field(i, 25, 23) \notin {1, 2, 3}
PairAddress(s, i, scale) ==
  IF Field(i, 25, 23) = 1 THEN RegSP(s, Rn(i))
  ELSE Plus(RegSP(s, Rn(i)), PairOffset(i, scale))
PairWritten(s, i, scale) ==
  IF Field(i, 25, 23) = 2 THEN s
  ELSE SetRegSP(s, Rn(i), Plus(RegSP(s, Rn(i)), PairOffset(i, scale)))

LdStPair(s, i) ==
  LET opc == Size(i)
      scale == IF opc = 2 THEN 3 ELSE 2
      bytes == 2^scale
      first == PairAddress(s, i, scale)
      second == Plus(first, Word(bytes))
      w == PairWritten(s, i, scale)
      Loaded(address) ==
        IF opc = 1 THEN SignExtend(Load(s, address, 4), 32) ELSE Load(s, address, bytes)
  IN IF PairRefused(i) THEN Fault(s)
     ELSE Advance(
       CASE 22 \in i -> SetReg(SetReg(w, Rd(i), Loaded(first)), Ra(i), Loaded(second))
         [] 22 \notin i /\ opc = 1 -> w
         [] 22 \notin i /\ opc # 1 ->
              Store(Store(w, first, bytes, Reg(w, Rd(i))), second, bytes, Reg(w, Ra(i))))

LdrLiteral(s, i) ==
  LET address == Plus(s.pc, Shl(SignExtend(Slice(i, 23, 5), 19), 2))
  IN Advance(CASE Size(i) = 0 -> SetReg(s, Rd(i), Load(s, address, 4))
               [] Size(i) = 1 -> SetReg(s, Rd(i), Load(s, address, 8))
               [] Size(i) = 2 -> SetReg(s, Rd(i), SignExtend(Load(s, address, 4), 32))
               [] Size(i) = 3 -> s)

(***************************************************************************)
(* Branches.                                                               *)
(***************************************************************************)

\* pc + imm * 4, where imm is the signed field of bits h..l.
Target(s, i, h, l) == Plus(s.pc, Shl(SignExtend(Slice(i, h, l), h - l + 1), 2))
Jump(s, target) == [s EXCEPT !.pc = target]
Link(s) == SetReg(s, 30, Plus(s.pc, {2}))

BUncond(s, i) == Jump(IF 31 \in i THEN Link(s) ELSE s, Target(s, i, 25, 0))

BCond(s, i) ==
  IF CondHolds(s, Field(i, 3, 0)) THEN Jump(s, Target(s, i, 23, 5)) ELSE Advance(s)

CBx(s, i) ==
  LET zero == Lower(Reg(s, Rd(i)), Bits(i)) = {}
  IN IF zero = (24 \notin i) THEN Jump(s, Target(s, i, 23, 5)) ELSE Advance(s)

BranchReg(s, i) ==
  LET opc == Field(i, 24, 21)
  IN CASE opc \in {0, 2} -> Jump(s, Reg(s, Rn(i)))
       [] opc = 1 -> Jump(Link(s), Reg(s, Rn(i)))
       [] OTHER -> Fault(s)

TBx(s, i) ==
  LET bit == 32 * Field(i, 31, 31) + Field(i, 23, 19)
  IN IF (bit \in Reg(s, Rd(i))) = (24 \in i) THEN Jump(s, Target(s, i, 18, 5)) ELSE Advance(s)

=============================================================================
