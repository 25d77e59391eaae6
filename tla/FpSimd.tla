------------------------------ MODULE FpSimd ------------------------------
(***************************************************************************)
(* The vector instructions of the ARM64 interpreter                        *)
(* (tools/fpsap-helper/fpemu/fpexchange_interp.go), continuing FpExecute,  *)
(* and fpStep, which executes any instruction.  A vector register is a     *)
(* pair of words <<low, high>>.                                            *)
(***************************************************************************)
EXTENDS FpExecute

LowV(s, r) == s.v[r][1]
HighV(s, r) == s.v[r][2]

\* A result of one word, doubled if Q and else with zeros above.
SetVectorQ(s, i, lo, hi) == SetVector(s, Rd(i), lo, IF Q(i) THEN hi ELSE {})

(***************************************************************************)
(* Moves between registers.                                                *)
(***************************************************************************)
FmovDX(s, i) == Advance(SetVector(s, Rd(i), Reg(s, Rn(i)), {}))
FmovXD(s, i) == Advance(SetReg(s, Rd(i), LowV(s, Rn(i))))
FmovTopX(s, i) == Advance(SetVector(s, Rd(i), LowV(s, Rd(i)), Reg(s, Rn(i))))
FmovXTop(s, i) == Advance(SetReg(s, Rd(i), HighV(s, Rn(i))))
FmovSW(s, i) == Advance(SetVector(s, Rd(i), Lower(Reg(s, Rn(i)), 32), {}))
FmovWS(s, i) == Advance(SetReg(s, Rd(i), Lower(LowV(s, Rn(i)), 32)))
FmovImm(s, i) == Advance(SetVector(s, Rd(i), VfpExpandImm(Slice(i, 20, 13), 64, 8), {}))

\* imm5 has the size of an element in its lowest bit and the index above it.
\* Without a bit there is no element, and its size is 0.
Element(i) ==
  LET imm5 == Slice(i, 20, 16) \cap Low(4)
  IN IF imm5 = {} THEN 0 ELSE 8 * 2^Min(imm5)
ElementAt(i) ==                 \* the position of its lowest bit
  (Field(i, 20, 16) \div (Element(i) \div 4)) * Element(i)

DUP(s, i) ==
  LET e == Element(i)
      r == IF e = 0 THEN {} ELSE Replicate(Lower(Reg(s, Rn(i)), e), e)
  IN Advance(SetVectorQ(s, i, r, r))

UMOV(s, i) ==
  LET e == Element(i)
      from == IF ElementAt(i) < 64 THEN LowV(s, Rn(i)) ELSE HighV(s, Rn(i))
  IN Advance(SetReg(s, Rd(i), IF e = 0 THEN {} ELSE Lower(Shr(from, ElementAt(i) % 64), e)))

INS(s, i) ==
  LET e == Element(i)
      shift == ElementAt(i) % 64
      Inserted(w) == (w \ Shl(Low(e), shift)) \cup Shl(Lower(Reg(s, Rn(i)), e), shift)
  IN Advance(
       CASE e = 0 -> s
         [] e > 0 /\ ElementAt(i) < 64 ->
              SetVector(s, Rd(i), Inserted(LowV(s, Rd(i))), HighV(s, Rd(i)))
         [] e > 0 /\ ElementAt(i) >= 64 ->
              SetVector(s, Rd(i), LowV(s, Rd(i)), Inserted(HighV(s, Rd(i)))))

(***************************************************************************)
(* Shifts and immediates.                                                  *)
(***************************************************************************)

\* Every element of e bits shifted up in its place.
ShiftElements(w, e, shift) == {b + shift : b \in {d \in w : (d % e) + shift < e}}

\* immh has the size of an element in its highest bit.
SHL(s, i) ==
  LET immh == Slice(i, 22, 19)
      e == 8 * 2^Max(immh)
      Elements(w) == IF immh = {} THEN {} ELSE ShiftElements(w, e, Field(i, 22, 16) - e)
  IN Advance(SetVectorQ(s, i, Elements(LowV(s, Rn(i))), Elements(HighV(s, Rn(i)))))

\* The immediate of 64 bits that cmode makes of 8; op complements some.
MoviImm(i) ==
  LET cmode == Field(i, 15, 12)
      op == 29 \in i
      imm8 == Shl(Slice(i, 18, 16), 5) \cup Slice(i, 9, 5)
      Repeated(elem, e) == Replicate(IF op THEN Low(e) \ elem ELSE elem, e)
      ones == IF cmode % 2 = 0 THEN 8 ELSE 16
  IN CASE cmode \in 0..7 -> Repeated(Shl(imm8, 8 * (cmode \div 2)), 32)
       [] cmode \in {8, 9} -> Repeated(Shl(imm8, 8 * (cmode % 2)), 16)
       [] cmode \in {10, 11, 12, 13} -> Repeated(Shl(imm8, ones) \cup Low(ones), 32)
       [] cmode = 14 /\ ~op -> Replicate(imm8, 8)
       [] cmode = 14 /\ op -> {b \in Positions : b \div 8 \in imm8}
       [] cmode = 15 /\ ~op -> Replicate(VfpExpandImm(imm8, 32, 5), 32)
       [] cmode = 15 /\ op -> VfpExpandImm(imm8, 64, 8)

MOVI(s, i) == Advance(SetVectorQ(s, i, MoviImm(i), MoviImm(i)))

(***************************************************************************)
(* Permutations.                                                           *)
(***************************************************************************)

\* The lower half of every element of 2e bits, side by side.
Narrowed(w, e) == {(b \div (2*e)) * e + (b % (2*e)) : b \in {d \in w : d % (2*e) < e}}

XTN(s, i) ==
  LET size == Field(i, 23, 22)
      e == 8 * 2^size
      narrow == IF size = 3 THEN {}
                ELSE Narrowed(LowV(s, Rn(i)), e) \cup Shl(Narrowed(HighV(s, Rn(i)), e), 32)
  IN Advance(IF Q(i) THEN SetVector(s, Rd(i), LowV(s, Rd(i)), narrow)
             ELSE SetVector(s, Rd(i), narrow, {}))

\* 32 bytes of two registers, of which it takes 16 from byte imm4, whatever Q.
EXT(s, i) ==
  LET src == LowV(s, Rn(i)) \cup {b + 64 : b \in HighV(s, Rn(i))} \cup
             {b + 128 : b \in LowV(s, Rm(i))} \cup {b + 192 : b \in HighV(s, Rm(i))}
      start == 8 * Field(i, 14, 11)
  IN Advance(SetVector(s, Rd(i), Shr(src, start), Shr(src, start + 64)))

REV64Vec(s, i) ==
  LET size == Field(i, 23, 22)
      Reversed(w) == CASE size = 0 -> Rev64(w)
                       [] size = 1 -> Swap(Swap(w, 16), 32)
                       [] size = 2 -> Swap(w, 32)
                       [] size = 3 -> w
  IN Advance(SetVectorQ(s, i, Reversed(LowV(s, Rn(i))), Reversed(HighV(s, Rn(i)))))

(***************************************************************************)
(* Three registers of the same kind.                                       *)
(***************************************************************************)
Simd3SameLogical(op, a, b, d) ==
  CASE op = 0 -> a \cap b
    [] op = 1 -> a \ b
    [] op = 2 -> a \cup b
    [] op = 3 -> a \cup Not(b)
    [] op = 4 -> Xor(a, b)
    [] op = 5 -> (a \cap d) \cup (b \ d)
    [] op = 6 -> (a \cap b) \cup (d \ b)
    [] op = 7 -> (a \ b) \cup (d \cap b)

Simd3SameArith(a, b, e, isSub) ==
  UNION {LET x == Slice(a, k + e - 1, k)
             y == Slice(b, k + e - 1, k)
         IN Shl(Lower(IF isSub THEN Minus(x, y) ELSE Plus(x, y), e), k)
           : k \in {e * lane : lane \in 0..(64 \div e - 1)}}

AdvSIMD3Same(s, i) ==
  LET opcode == Field(i, 15, 11)
      op == 4 * Field(i, 29, 29) + Field(i, 23, 22)
      Half(h) ==
        LET a == s.v[Rn(i)][h]
            b == s.v[Rm(i)][h]
            d == s.v[Rd(i)][h]
        IN IF opcode = 3 THEN Simd3SameLogical(op, a, b, d)
           ELSE Simd3SameArith(a, b, 8 * 2^(op % 4), 29 \in i)
  IN IF opcode \in {3, 16} THEN Advance(SetVectorQ(s, i, Half(1), Half(2))) ELSE Fault(s)

(***************************************************************************)
(* Loads and stores.  Those of 16 bytes are two of 8.                      *)
(***************************************************************************)
SimdScale(i) == IF Size(i) = 0 /\ 23 \in i THEN 4 ELSE Size(i)

DoSIMDStore(s, address, r, bytes) ==
  IF bytes = 16
  THEN Store(Store(s, address, 8, LowV(s, r)), Plus(address, {3}), 8, HighV(s, r))
  ELSE Store(s, address, bytes, LowV(s, r))

DoSIMDLoad(s, address, r, bytes) ==
  IF bytes = 16
  THEN SetVector(s, r, Load(s, address, 8), Load(s, Plus(address, {3}), 8))
  ELSE SetVector(s, r, Load(s, address, bytes), {})

LdStSIMD(s, i, address) ==
  IF 22 \in i THEN Advance(DoSIMDLoad(s, address, Rd(i), 2^SimdScale(i)))
  ELSE Advance(DoSIMDStore(s, address, Rd(i), 2^SimdScale(i)))

LdStSIMDUnsigned(s, i) ==
  LdStSIMD(s, i, Plus(RegSP(s, Rn(i)), Shl(Slice(i, 21, 10), SimdScale(i))))

LdStSIMDImm9(s, i) ==
  IF Field(i, 11, 10) = 2 THEN Fault(s)
  ELSE LdStSIMD(Imm9Written(s, i), i, Imm9Address(s, i))

LdStPairSIMD(s, i) ==
  LET scale == Size(i) + 2
      bytes == 2^scale
      first == PairAddress(s, i, scale)
      second == Plus(first, Word(bytes))
      w == PairWritten(s, i, scale)
  IN IF PairRefused(i) THEN Fault(s)
     ELSE IF 22 \in i
          THEN Advance(DoSIMDLoad(DoSIMDLoad(w, first, Rd(i), bytes), second, Ra(i), bytes))
          ELSE Advance(DoSIMDStore(DoSIMDStore(w, first, Rd(i), bytes), second, Ra(i), bytes))

LdrSIMDLiteral(s, i) ==
  LET address == Plus(s.pc, Shl(SignExtend(Slice(i, 23, 5), 19), 2))
      bytes == IF Size(i) = 3 THEN 0 ELSE 4 * 2^Size(i)
  IN Advance(DoSIMDLoad(s, address, Rd(i), bytes))

(***************************************************************************)
(* fpStep, but for BRK, which is the call of a stub (FpExchange).          *)
(***************************************************************************)
Executed(s, i) ==
  LET h == Handler(i)
  IN CASE h = "PCRel" -> PCRel(s, i)
       [] h = "AddSubImm" -> AddSubImm(s, i)
       [] h = "LogImm" -> LogImm(s, i)
       [] h = "MoveWide" -> MoveWide(s, i)
       [] h = "Bitfield" -> Bitfield(s, i)
       [] h = "Extract" -> Extract(s, i)
       [] h = "LogShiftReg" -> LogShiftReg(s, i)
       [] h = "AddSubShiftReg" -> AddSubShiftReg(s, i)
       [] h = "AddSubExtReg" -> AddSubExtReg(s, i)
       [] h = "CondCompare" -> CondCompare(s, i)
       [] h = "CondSelect" -> CondSelect(s, i)
       [] h = "DP1Src" -> DP1Src(s, i)
       [] h = "DP2Src" -> DP2Src(s, i)
       [] h = "DP3Src" -> DP3Src(s, i)
       [] h = "LdStPair" -> LdStPair(s, i)
       [] h = "LdStPairSIMD" -> LdStPairSIMD(s, i)
       [] h = "LdStUnsigned" -> LdStUnsigned(s, i)
       [] h = "LdStSIMDUnsigned" -> LdStSIMDUnsigned(s, i)
       [] h = "LdStImm9" -> LdStImm9(s, i)
       [] h = "LdStSIMDImm9" -> LdStSIMDImm9(s, i)
       [] h = "LdStRegOff" -> LdStRegOff(s, i)
       [] h = "LdrLiteral" -> LdrLiteral(s, i)
       [] h = "LdrSIMDLiteral" -> LdrSIMDLiteral(s, i)
       [] h = "BUncond" -> BUncond(s, i)
       [] h = "BCond" -> BCond(s, i)
       [] h = "CBx" -> CBx(s, i)
       [] h = "BranchReg" -> BranchReg(s, i)
       [] h = "TBx" -> TBx(s, i)
       [] h = "FmovDX" -> FmovDX(s, i)
       [] h = "FmovXD" -> FmovXD(s, i)
       [] h = "FmovTopX" -> FmovTopX(s, i)
       [] h = "FmovXTop" -> FmovXTop(s, i)
       [] h = "FmovSW" -> FmovSW(s, i)
       [] h = "FmovWS" -> FmovWS(s, i)
       [] h = "FmovImm" -> FmovImm(s, i)
       [] h = "DUP" -> DUP(s, i)
       [] h = "UMOV" -> UMOV(s, i)
       [] h = "INS" -> INS(s, i)
       [] h = "SHL" -> SHL(s, i)
       [] h = "MOVI" -> MOVI(s, i)
       [] h = "XTN" -> XTN(s, i)
       [] h = "EXT" -> EXT(s, i)
       [] h = "REV64Vec" -> REV64Vec(s, i)
       [] h = "AdvSIMD3Same" -> AdvSIMD3Same(s, i)
       [] h = "unhandled" -> Fault(s)
=============================================================================
