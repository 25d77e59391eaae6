------------------------------- MODULE FpArm -------------------------------
(***************************************************************************)
(* What the ARM architecture says the instructions do that the interpreter *)
(* of FpSimd executes: the reference its results are compared with.  It    *)
(* takes none of the ways of the code: a result is given bit by bit, sums  *)
(* and products by the columns of written arithmetic, a mask by which bits *)
(* lie in the run, a vector as one word of 128 bits, and an address as a   *)
(* sum of signed numbers.                                                  *)
(*                                                                         *)
(* A processor is one of FpExecute.                                        *)
(***************************************************************************)
EXTENDS FpSimd

VARIABLE handler        \* what the interpreter took the instruction for

(***************************************************************************)
(* Written arithmetic with digits of 12 bits: what a column holds beyond   *)
(* one digit is carried to the next.                                       *)
(***************************************************************************)
Digit(x, k) == Number({b - 12 * k : b \in x \cap (12*k..12*k+11)})

\* The word of `width` bits in whose column k stands weight(k).
FromColumns(weight(_), width) ==
  LET column[k \in 0..10] == weight(k) + IF k = 0 THEN 0 ELSE column[k-1] \div 4096
      ones == UNION {{b + 12 * k : b \in Word(column[k] % 4096)} : k \in 0..(width-1) \div 12}
  IN {b \in 0..width-1 : b \in ones}

One(p) == IF p THEN 1 ELSE 0

\* x + y + carry
ArmSum(x, y, carry, width) ==
  FromColumns(LAMBDA k : Digit(x, k) + Digit(y, k) + (IF k = 0 THEN carry ELSE 0), width)

\* x * y
ArmProduct(x, y, width) ==
  LET digits(w) == <<Digit(w, 0), Digit(w, 1), Digit(w, 2), Digit(w, 3), Digit(w, 4), Digit(w, 5),
                     Digit(w, 6), Digit(w, 7), Digit(w, 8), Digit(w, 9), Digit(w, 10)>>
      xs == digits(x)
      ys == digits(y)
  IN FromColumns(LAMBDA k : MapThenSumSet(LAMBDA j : xs[j+1] * ys[k-j+1], 0..k), width)

\* Bits 0..width-1 of the signed or unsigned number that the low len bits of
\* x are.
ArmExtend(x, len, signed, width) ==
  {b \in 0..width-1 : IF b < len THEN b \in x ELSE signed /\ len - 1 \in x}

Complement(x, width) == (0..width-1) \ x

(***************************************************************************)
(* Operands.                                                               *)
(***************************************************************************)
N(i) == IF 31 \in i THEN 64 ELSE 32
ArmReg(s, r) == IF r = 31 THEN {} ELSE s.x[r]
Operand(s, i, r) == ArmReg(s, r) \cap (0..N(i)-1)

\* A vector register, and the bits of it that an instruction works on.
VectorBits(s, r) == s.v[r][1] \cup {b + 64 : b \in s.v[r][2]}
Width(i) == IF 30 \in i THEN 128 ELSE 64

ArmShift(x, type, k, n) ==
  {b \in 0..n-1 : CASE type = 0 -> b - k \in x
                    [] type = 1 -> b + k < n /\ b + k \in x
                    [] type = 2 -> (IF b + k < n THEN b + k ELSE n - 1) \in x
                    [] type = 3 -> (b + k) % n \in x}

\* ExtendReg: of 8, 16, 32 or 64 bits, shifted up.
ArmExtended(x, option, k, n) ==
  LET extended == ArmExtend(x, 8 * 2^(option % 4), option >= 4, 64)
  IN {b \in 0..n-1 : b - k \in extended}

\* DecodeBitMasks for logical immediates: elements of the largest power of 2
\* for which the leading ones of N:NOT(imms) make room, and in each a run of
\* S+1 ones that was rotated right by R.
ArmMask(i) ==
  LET imms == Field(i, 15, 10)
      e == IF 22 \in i THEN 64
           ELSE CASE imms < 32 -> 32
                  [] imms \in 32..47 -> 16
                  [] imms \in 48..55 -> 8
                  [] imms \in 56..59 -> 4
                  [] imms \in 60..61 -> 2
  IN {b \in 0..N(i)-1 : (b + Field(i, 21, 16)) % e <= imms % e}

\* SBFM, BFM and UBFM by their aliases: a field is taken out of the source
\* (SBFX, BFXIL, UBFX) or put in at a position (SBFIZ, BFI, UBFIZ).
ArmBitfield(s, i) ==
  LET opc == Field(i, 30, 29)
      immr == Field(i, 21, 16)
      imms == Field(i, 15, 10)
      src == Operand(s, i, Rn(i))
      dst == Operand(s, i, Rd(i))
      extracts == imms >= immr
      lsb == IF extracts THEN 0 ELSE N(i) - immr
      width == IF extracts THEN imms - immr + 1 ELSE imms + 1
      from == IF extracts THEN immr ELSE 0
  IN {b \in 0..N(i)-1 :
        CASE b < lsb -> opc = 1 /\ b \in dst
          [] lsb <= b /\ b < lsb + width -> b - lsb + from \in src
          [] b >= lsb + width -> \/ opc = 0 /\ imms \in src
                                 \/ opc = 1 /\ b \in dst}

\* Bytes, halfwords or words of `element` bits in reverse in every container.
ArmReversed(x, element, container, n) ==
  LET last == container \div element - 1
  IN {b \in 0..n-1 :
        LET inside == b % container
        IN (b - inside) + (last - inside \div element) * element + (inside % element) \in x}

(***************************************************************************)
(* Sums, differences and their flags.                                      *)
(***************************************************************************)
Subtracts(i) == 30 \in i
Second(i, b) == IF Subtracts(i) THEN Complement(b, N(i)) ELSE b
CarryIn(i) == IF Subtracts(i) THEN 1 ELSE 0

ArmTotal(i, a, b) == ArmSum(a, Second(i, b), CarryIn(i), N(i))

\* Carry: the unsigned total needs another digit.  Overflow: the signed total
\* of one digit more has another sign.
ArmSumFlags(i, a, b) ==
  LET n == N(i)
      total == ArmTotal(i, a, b)
      longer == ArmSum(ArmExtend(a, n, TRUE, n+1), ArmExtend(Second(i, b), n, TRUE, n+1),
                       CarryIn(i), n+1)
  IN <<n - 1 \in total, total = {},
       n \in ArmSum(a, Second(i, b), CarryIn(i), n+1),
       (n \in longer) # (n - 1 \in longer)>>

\* The operands of ADD, ADDS, SUB, SUBS in their three forms.
SumHandlers == {"AddSubImm", "AddSubShiftReg", "AddSubExtReg"}
SumLeft(s, i) ==
  (IF handler = "AddSubShiftReg" THEN ArmReg(s, Rn(i)) ELSE s.x[Rn(i)]) \cap (0..N(i)-1)
SumRight(s, i) ==
  CASE handler = "AddSubImm" ->
         {IF 22 \in i THEN b + 2 ELSE b - 10 : b \in i \cap (10..21)}
    [] handler = "AddSubShiftReg" ->
         ArmShift(Operand(s, i, Rm(i)), Field(i, 23, 22), Field(i, 15, 10), N(i))
    [] handler = "AddSubExtReg" ->
         ArmExtended(ArmReg(s, Rm(i)), Field(i, 15, 13), Field(i, 12, 10), N(i))

LogicalRight(s, i) ==
  IF handler = "LogImm" THEN ArmMask(i)
  ELSE LET b == ArmShift(Operand(s, i, Rm(i)), Field(i, 23, 22), Field(i, 15, 10), N(i))
       IN IF 21 \in i THEN Complement(b, N(i)) ELSE b

ArmLogical(s, i) ==
  {b \in 0..N(i)-1 :
     LET l == b \in Operand(s, i, Rn(i))
         r == b \in LogicalRight(s, i)
     IN CASE Field(i, 30, 29) \in {0, 3} -> l /\ r
          [] Field(i, 30, 29) = 1 -> l \/ r
          [] Field(i, 30, 29) = 2 -> l # r}

\* CSEL, CSINC, CSINV, CSNEG: the second operand, inverted and incremented.
ArmSelected(s, i) ==
  LET b == Operand(s, i, Rm(i))
      inverted == IF 30 \in i THEN Complement(b, N(i)) ELSE b
  IN IF CondHolds(s, Field(i, 15, 12)) THEN Operand(s, i, Rn(i))
     ELSE ArmSum(inverted, {}, One(10 \in i), N(i))

(***************************************************************************)
(* Products, quotients and the instructions of one operand.                *)
(***************************************************************************)
ArmMultiplied(s, i) ==
  LET op31 == Field(i, 23, 21)
      signed == op31 \in {1, 2}
      len == IF op31 \in {1, 5} THEN 32 ELSE 64
      product == ArmProduct(ArmExtend(ArmReg(s, Rn(i)), len, signed, 128),
                            ArmExtend(ArmReg(s, Rm(i)), len, signed, 128), 128)
      low == product \cap (0..N(i)-1)
  IN IF op31 \in {2, 6} THEN {b - 64 : b \in product \cap (64..127)}
     ELSE IF 15 \in i THEN ArmSum(Operand(s, i, Ra(i)), Complement(low, N(i)), 1, N(i))
     ELSE ArmSum(Operand(s, i, Ra(i)), low, 0, N(i))

\* q is the quotient of a by b: the rest a - q * b is smaller than b and, if it
\* is not 0, has the sign of a.  The one quotient that does not fit wraps.
Magnitude(x, n) == IF n - 1 \in x THEN ArmSum(Complement(x, n), {}, 1, n) ELSE x
IsUnsignedQuotient(q, a, b) ==
  IF b = {} THEN q = {}
  ELSE LET product == ArmProduct(q, b, 128)
           rest == ArmSum(a, Complement(product, 128), 1, 128)
       IN /\ product \subseteq 0..63
          /\ rest \subseteq 0..63           \* not negative
          /\ rest # b /\ Max(SymDiff(rest, b)) \in b
IsQuotient(q, a, b, signed, n) ==
  IF ~signed THEN IsUnsignedQuotient(q, a, b)
  ELSE LET opposite == (n - 1 \in a) # (n - 1 \in b)
           size == IF opposite THEN ArmSum(Complement(q, n), {}, 1, n) ELSE q
       IN IsUnsignedQuotient(size, Magnitude(a, n), Magnitude(b, n))

ArmDP1(s, i) ==
  LET x == Operand(s, i, Rn(i))
      n == N(i)
  IN CASE Field(i, 12, 10) = 0 -> {b \in 0..n-1 : n - 1 - b \in x}
       [] Field(i, 12, 10) = 1 -> ArmReversed(x, 8, 16, n)
       [] Field(i, 12, 10) = 2 -> ArmReversed(x, 8, 32, n)
       [] Field(i, 12, 10) = 3 -> ArmReversed(x, 8, 64, n)
       [] Field(i, 12, 10) = 4 -> Word(Cardinality({b \in 0..n-1 : b..(n-1) \cap x = {}}))

ArmVariableShift(s, i) ==
  ArmShift(Operand(s, i, Rn(i)), Field(i, 11, 10),
           Number(ArmReg(s, Rm(i)) \cap (0..(IF 31 \in i THEN 5 ELSE 4))), N(i))

(***************************************************************************)
(* Addresses and memory.                                                   *)
(***************************************************************************)
Vectors == {"LdStPairSIMD", "LdStSIMDUnsigned", "LdStSIMDImm9", "LdrSIMDLiteral"}
Pairs == {"LdStPair", "LdStPairSIMD"}
Literals == {"LdrLiteral", "LdrSIMDLiteral"}
Accesses == {"LdStUnsigned", "LdStImm9", "LdStRegOff"} \cup Vectors \cup Pairs \cup Literals

\* An access has one element, or two for a pair, of 2^Scale bytes.
Scale(i) ==
  LET size == Field(i, 31, 30)
      h == handler
  IN CASE h = "LdStPair" -> IF size = 2 THEN 3 ELSE 2
       [] h = "LdrLiteral" -> IF size = 1 THEN 3 ELSE 2
       [] h \in {"LdStPairSIMD", "LdrSIMDLiteral"} -> size + 2
       [] h \in {"LdStSIMDUnsigned", "LdStSIMDImm9"} -> IF size = 0 /\ 23 \in i THEN 4 ELSE size
       [] h \in {"LdStUnsigned", "LdStImm9", "LdStRegOff"} -> size

\* The field of bits h..l as a signed number, times 2^scale.
SignedField(i, h, l, scale) ==
  {b + scale : b \in ArmExtend({d - l : d \in i \cap (l..h)}, h - l + 1, TRUE, 64 - scale)}

Offset(s, i) ==
  LET h == handler
  IN CASE h \in Literals -> SignedField(i, 23, 5, 2)
       [] h \in Pairs -> SignedField(i, 21, 15, Scale(i))
       [] h \in {"LdStUnsigned", "LdStSIMDUnsigned"} -> {b - 10 + Scale(i) : b \in i \cap (10..21)}
       [] h \in {"LdStImm9", "LdStSIMDImm9"} -> SignedField(i, 20, 12, 0)
       [] h = "LdStRegOff" ->
            ArmExtended(ArmReg(s, Rm(i)), Field(i, 15, 13), IF 12 \in i THEN Scale(i) ELSE 0, 64)

Base(s, i) == IF handler \in Literals THEN s.pc ELSE s.x[Rn(i)]
Indexed(s, i) == ArmSum(Base(s, i), Offset(s, i), 0, 64)

\* Post-indexed forms access the old address; they and pre-indexed forms
\* leave the new one in the base register.
PostIndexed(i) ==
  \/ handler \in Pairs /\ Field(i, 25, 23) = 1
  \/ handler \in {"LdStImm9", "LdStSIMDImm9"} /\ Field(i, 11, 10) = 1
WritesBack(i) ==
  \/ PostIndexed(i)
  \/ handler \in Pairs /\ Field(i, 25, 23) = 3
  \/ handler \in {"LdStImm9", "LdStSIMDImm9"} /\ Field(i, 11, 10) = 3

\* The address of element k, k \in {0, 1}.
ArmAddress(s, i, k) ==
  ArmSum(IF PostIndexed(i) THEN Base(s, i) ELSE Indexed(s, i), Word(k * 2^Scale(i)), 0, 64)

Loads(i) ==
  LET h == handler
  IN CASE h \in Literals -> TRUE
       [] h \in (Pairs \cup Vectors) \ Literals -> 22 \in i
       [] h \in Accesses \ (Literals \cup Pairs \cup Vectors) -> Field(i, 23, 22) # 0

\* PRFM: a hint that nothing depends on.
Prefetches(i) ==
  \/ handler \in {"LdStUnsigned", "LdStImm9", "LdStRegOff"} /\ Size(i) = 3 /\ 23 \in i
  \/ handler = "LdrLiteral" /\ Size(i) = 3

ArmLoad(s, i, k) ==
  UNION {{8 * m + b : b \in ByteAt(s.fill, ArmSum(ArmAddress(s, i, k), Word(m), 0, 64))}
           : m \in 0..2^Scale(i)-1}

\* Signed loads extend to 64 bits, or to 32 if opc is 3.
SignedLoad(i) ==
  \/ handler \in {"LdStUnsigned", "LdStImm9", "LdStRegOff"} /\ 23 \in i
  \/ handler = "LdStPair" /\ Size(i) = 1
  \/ handler = "LdrLiteral" /\ Size(i) = 2
ArmLoaded(s, i, k) ==
  ArmExtend(ArmLoad(s, i, k), 8 * 2^Scale(i), SignedLoad(i),
            IF handler \notin Pairs \cup Literals /\ Field(i, 23, 22) = 3 THEN 32 ELSE 64)

Element2(i) == IF handler \in Pairs THEN {0, 1} ELSE {0}
Transferred(i, k) == IF k = 0 THEN Rd(i) ELSE Ra(i)

\* The bytes in memory that the instruction writes.
ArmStores(s, i) ==
  IF handler \notin Accesses \/ Loads(i) THEN {}
  ELSE UNION {LET r == Transferred(i, k)
                  data == IF handler \in Vectors THEN VectorBits(s, r) ELSE ArmReg(s, r)
              IN {<<ArmSum(ArmAddress(s, i, k), Word(m), 0, 64),
                    {b - 8 * m : b \in data \cap (8*m..8*m+7)}>> : m \in 0..2^Scale(i)-1}
                : k \in Element2(i)}

(***************************************************************************)
(* Vectors, as words of 128 bits.                                          *)
(***************************************************************************)
\* MOVI, MVNI and FMOV: the immediate of every element (AdvSIMDExpandImm).
ArmImmBit(i, b) ==
  LET cmode == Field(i, 15, 12)
      imm == {d - 5 : d \in i \cap (5..9)} \cup {d - 11 : d \in i \cap (16..18)}
      op == 29 \in i
      Shifted8(e, shift, below) ==
        LET d == (b % e) - shift
        IN op # (IF d < 0 THEN below ELSE d \in imm)
      Float(e, exponent) ==          \* sign, exponent bits, then the fraction
        LET d == e - 1 - (b % e)
        IN CASE d = 0 -> 7 \in imm
             [] d = 1 -> 6 \notin imm
             [] d \in 2..exponent-2 -> 6 \in imm
             [] d > exponent-2 -> 5 - (d - exponent + 1) \in imm
  IN CASE cmode \in {0, 2, 4, 6} -> Shifted8(32, 4 * cmode, FALSE)
       [] cmode \in {8, 10} -> Shifted8(16, 4 * (cmode - 8), FALSE)
       [] cmode = 12 -> Shifted8(32, 8, TRUE)
       [] cmode = 13 -> Shifted8(32, 16, TRUE)
       [] cmode = 14 -> IF op THEN (b % 64) \div 8 \in imm ELSE b % 8 \in imm
       [] cmode = 15 -> IF op THEN Float(64, 11) ELSE Float(32, 8)

\* The size of an element in bits, and its index in DUP, UMOV and INS.
LaneSize(i) == 8 * 2^Min({b \in 0..3 : b + 16 \in i})
LaneIndex(i) == Number({b - 17 : b \in i \cap (17..20)}) \div (LaneSize(i) \div 8)

LaneSum(a, b, e, subtract, p) ==
  LET low == p - (p % e)
      Lane(x) == {d - low : d \in x \cap (low..low+e-1)}
  IN p - low \in ArmSum(Lane(a), IF subtract THEN Complement(Lane(b), e) ELSE Lane(b),
                        One(subtract), e)

\* The vector that the instruction leaves in Rd.
ArmVector(s, i) ==
  LET h == handler
      old == VectorBits(s, Rd(i))
      v == VectorBits(s, Rn(i))
      w == VectorBits(s, Rm(i))
      x == ArmReg(s, Rn(i))
      all == 0..Width(i)-1
      e == 8 * 2^Field(i, 23, 22)
  IN CASE h = "FmovDX" -> x
       [] h = "FmovTopX" -> (old \cap (0..63)) \cup {b + 64 : b \in x}
       [] h = "FmovSW" -> x \cap (0..31)
       [] h = "DUP" -> {b \in all : b % LaneSize(i) \in x}
       [] h = "INS" ->
            LET low == LaneSize(i) * LaneIndex(i)
            IN {b \in 0..127 : IF b \in low..low+LaneSize(i)-1 THEN b - low \in x ELSE b \in old}
       [] h = "SHL" ->
            LET size == 8 * 2^Max({b \in 0..3 : b + 19 \in i})
                shift == Field(i, 22, 16) - size
            IN {b \in all : b % size >= shift /\ b - shift \in v}
       [] h = "MOVI" -> {b \in all : ArmImmBit(i, b)}
       [] h = "XTN" ->
            LET narrow == {b \in 0..63 : b + (b \div e) * e \in v}
            IN IF 30 \in i THEN (old \cap (0..63)) \cup {b + 64 : b \in narrow} ELSE narrow
       [] h = "EXT" ->
            LET p == 8 * Field(i, 14, 11)
                n == Width(i)
            IN {b \in all : IF b + p < n THEN b + p \in v ELSE b + p - n \in w}
       [] h = "REV64Vec" -> ArmReversed(v, e, 64, Width(i))
       [] h = "AdvSIMD3Same" ->
            {b \in all :
               IF Field(i, 15, 11) = 16 THEN LaneSum(v, w, e, 29 \in i, b)
               ELSE CASE 29 \notin i /\ e = 8 -> b \in v /\ b \in w
                      [] 29 \notin i /\ e = 16 -> b \in v /\ b \notin w
                      [] 29 \notin i /\ e = 32 -> b \in v \/ b \in w
                      [] 29 \notin i /\ e = 64 -> b \in v \/ b \notin w
                      [] 29 \in i /\ e = 8 -> (b \in v) # (b \in w)
                      [] 29 \in i /\ e = 16 -> IF b \in old THEN b \in v ELSE b \in w
                      [] 29 \in i /\ e = 32 -> IF b \in w THEN b \in v ELSE b \in old
                      [] 29 \in i /\ e = 64 -> IF b \in w THEN b \in old ELSE b \in v}

VectorResults == {"FmovDX", "FmovTopX", "FmovSW", "DUP", "INS", "SHL", "MOVI", "XTN", "EXT",
                  "REV64Vec", "AdvSIMD3Same"}

\* Every vector register after the instruction.
ArmV(s, i) ==
  LET results == IF handler \in VectorResults THEN {Rd(i)} ELSE {}
      loads == IF handler \in Vectors /\ Loads(i)
               THEN {Transferred(i, k) : k \in Element2(i)} ELSE {}
  IN [r \in 0..31 |->
        CASE r \in results -> ArmVector(s, i)
          [] r \in loads -> ArmLoad(s, i, CHOOSE k \in Element2(i) : r = Transferred(i, k))
          [] OTHER -> VectorBits(s, r)]

(***************************************************************************)
(* The processor after the instruction.                                    *)
(***************************************************************************)
Results == SumHandlers \cup {"PCRel", "LogImm", "LogShiftReg", "MoveWide", "Bitfield", "Extract",
             "CondSelect", "DP1Src", "DP2Src", "DP3Src", "FmovXD", "FmovXTop", "FmovWS", "UMOV"}

\* What it leaves in Rd.  q is what the code left there, checked where the
\* architecture says what a quotient is and not how it is found.
ArmResult(s, i, q) ==
  LET h == handler
      n == N(i)
      v == VectorBits(s, Rn(i))
      imm16 == {b - 5 + 16 * Field(i, 22, 21) : b \in i \cap (5..20)}
      lsb == Field(i, 15, 10)
  IN CASE h \in SumHandlers -> ArmTotal(i, SumLeft(s, i), SumRight(s, i))
       [] h \in {"LogImm", "LogShiftReg"} -> ArmLogical(s, i)
       [] h = "PCRel" ->
            LET imm == {b - 29 : b \in i \cap {29, 30}} \cup {b - 3 : b \in i \cap (5..23)}
            IN IF 31 \in i
               THEN ArmSum(s.pc \cap (12..63), {b + 12 : b \in ArmExtend(imm, 21, TRUE, 52)}, 0, 64)
               ELSE ArmSum(s.pc, ArmExtend(imm, 21, TRUE, 64), 0, 64)
       [] h = "MoveWide" ->
            {b \in 0..n-1 :
               IF b \div 16 = Field(i, 22, 21) THEN (b \in imm16) # (30 \notin i)
               ELSE IF 29 \in i THEN b \in ArmReg(s, Rd(i)) ELSE 30 \notin i}
       [] h = "Bitfield" -> ArmBitfield(s, i)
       [] h = "Extract" ->
            {b \in 0..n-1 : IF b + lsb < n THEN b + lsb \in ArmReg(s, Rm(i))
                            ELSE b + lsb - n \in ArmReg(s, Rn(i))}
       [] h = "CondSelect" -> ArmSelected(s, i)
       [] h = "DP1Src" -> ArmDP1(s, i)
       [] h = "DP2Src" ->
            IF Field(i, 15, 10) >= 8 THEN ArmVariableShift(s, i)
            ELSE IF IsQuotient(q, Operand(s, i, Rn(i)), Operand(s, i, Rm(i)), 10 \in i, n)
                 THEN q ELSE Complement(q, n)
       [] h = "DP3Src" -> ArmMultiplied(s, i)
       [] h = "FmovXD" -> v \cap (0..63)
       [] h = "FmovXTop" -> {b - 64 : b \in v \cap (64..127)}
       [] h = "FmovWS" -> v \cap (0..31)
       [] h = "UMOV" ->
            LET low == LaneSize(i) * LaneIndex(i)
            IN {b - low : b \in v \cap (low..low+LaneSize(i)-1)}

\* Register 31 is the stack pointer for these, else it is the zero register.
WritesSP(i) ==
  \/ handler \in {"AddSubImm", "AddSubExtReg"} /\ 29 \notin i
  \/ handler = "LogImm" /\ Field(i, 30, 29) # 3

Links(i) ==
  \/ handler = "BUncond" /\ 31 \in i
  \/ handler = "BranchReg" /\ Field(i, 24, 21) = 1

LoadsRegisters(i) == handler \in Accesses \ Vectors /\ Loads(i) /\ ~Prefetches(i)

ArmX(s, i, q) ==
  LET results == IF handler \in Results THEN {Rd(i)} ELSE {}
      links == IF Links(i) THEN {30} ELSE {}
      loads == IF LoadsRegisters(i) THEN {Transferred(i, k) : k \in Element2(i)} ELSE {}
      indexes == IF WritesBack(i) THEN {Rn(i)} ELSE {}
      sp == WritesSP(i)
  IN [r \in 0..31 |->
        CASE r \in results /\ (r # 31 \/ sp) -> ArmResult(s, i, q)
          [] r \in links -> ArmSum(s.pc, {2}, 0, 64)
          [] r \in loads /\ r # 31 ->
               ArmLoaded(s, i, CHOOSE k \in Element2(i) : r = Transferred(i, k))
          [] r \in indexes /\ (r = 31 \/ r \notin loads) -> Indexed(s, i)
          [] OTHER -> s.x[r]]

ArmFlags(s, i) ==
  CASE handler \in SumHandlers /\ 29 \in i -> ArmSumFlags(i, SumLeft(s, i), SumRight(s, i))
    [] handler \in {"LogImm", "LogShiftReg"} /\ Field(i, 30, 29) = 3 ->
         <<N(i) - 1 \in ArmLogical(s, i), ArmLogical(s, i) = {}, FALSE, FALSE>>
    [] handler = "CondCompare" ->
         IF CondHolds(s, Field(i, 15, 12))
         THEN ArmSumFlags(i, Operand(s, i, Rn(i)),
                IF 11 \in i THEN {b - 16 : b \in i \cap (16..20)} ELSE Operand(s, i, Rm(i)))
         ELSE <<3 \in i, 2 \in i, 1 \in i, 0 \in i>>
    [] OTHER -> s.nzcv

\* Whether it branches, and where to.
Branches(s, i) ==
  CASE handler \in {"BUncond", "BranchReg"} -> TRUE
    [] handler = "BCond" -> CondHolds(s, Field(i, 3, 0))
    [] handler = "CBx" -> (Operand(s, i, Rd(i)) # {}) = (24 \in i)
    [] handler = "TBx" ->
         (Number({b - 19 : b \in i \cap (19..23)} \cup {b - 26 : b \in i \cap {31}})
            \in ArmReg(s, Rd(i))) = (24 \in i)
    [] OTHER -> FALSE

ArmPC(s, i) ==
  IF ~Branches(s, i) THEN ArmSum(s.pc, {2}, 0, 64)
  ELSE CASE handler = "BranchReg" -> ArmReg(s, Rn(i))
         [] handler = "BUncond" -> ArmSum(s.pc, SignedField(i, 25, 0, 2), 0, 64)
         [] handler \in {"BCond", "CBx"} -> ArmSum(s.pc, SignedField(i, 23, 5, 2), 0, 64)
         [] handler = "TBx" -> ArmSum(s.pc, SignedField(i, 18, 5, 2), 0, 64)

(***************************************************************************)
(* Where the code is known to do something else: instructions it takes for *)
(* others, and one that forgets to clear the upper half.                   *)
(***************************************************************************)
TakenForOthers(i) ==
  \* ORR and BIC of a vector with an immediate are taken for MOVI or, shifted
  \* by 16, for SHL; MOVI of halfwords shifted by 8 for one of words.
  \/ Matches(i, Halves(\h9ff8, \h1400), Halves(\h0f00, \h1400)) /\ ~{14, 15} \subseteq i
  \/ Matches(i, Halves(\h9ff8, \hf400), Halves(\h0f00, \ha400))
  \* EXT of 64 bits goes on into the upper half.
  \/ handler = "EXT" /\ 30 \notin i
  \* Atomic operations on memory are taken for accesses at a register offset.
  \/ handler = "LdStRegOff" /\ Field(i, 11, 10) # 2

\* Encodings that the architecture leaves open: a base register that is written
\* back and loaded or stored, a pair loaded into one register, and what is not
\* allocated: a register offset of a byte or a halfword, a store for LDPSW, a
\* shift of 32 bits by more, a mask of 32 bits of one element of 64 or of an
\* element that no size is given for.
LeftOpen(i) ==
  \/ Handler(i) = "LdStImm9" /\ 10 \in i /\ Rn(i) = Rd(i) /\ Rn(i) # 31
  \/ Handler(i) = "LdStPair" /\ 23 \in i /\ Rn(i) \in {Rd(i), Ra(i)} /\ Rn(i) # 31
  \/ Handler(i) \in {"LdStPair", "LdStPairSIMD"} /\ 22 \in i /\ Rd(i) = Ra(i)
  \/ Handler(i) = "LdStRegOff" /\ 14 \notin i
  \/ Handler(i) = "LdStPair" /\ Size(i) = 1 /\ 22 \notin i
  \/ Handler(i) \in {"AddSubShiftReg", "LogShiftReg"} /\ 31 \notin i /\ 15 \in i
  \/ Handler(i) = "LogImm" /\ 31 \notin i /\ 22 \in i
  \/ Handler(i) = "LogImm" /\ 22 \notin i /\ 11..15 \subseteq i

\* MOVK of 32 bits into a register that holds more.
KeepsUpperHalf(s, i) ==
  /\ handler = "MoveWide" /\ Field(i, 30, 29) = 3 /\ 31 \notin i
  /\ ~(ArmReg(s, Rd(i)) \subseteq 0..31)
=============================================================================
