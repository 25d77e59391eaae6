----------------------------- MODULE FpDecode -----------------------------
(***************************************************************************)
(* How the ARM64 interpreter (tools/fpsap-helper/fpemu/                    *)
(* fpexchange_interp.go) finds the function that executes an instruction:  *)
(* the switches of fpStep, fpExecDPImm, fpExecDPReg, fpExecDP11010,        *)
(* fpExecLoadStore, fpExecBranch and fpExecSIMD.  An instruction is a word *)
(* of FpWords; "unhandled" is the error that each switch ends in.          *)
(***************************************************************************)
EXTENDS FpWords

\* (i >> l) & mask: the field of bits h..l as a word and as a number.
Field(i, h, l) == Number(Slice(i, h, l))

\* i & mask = value
Matches(i, mask, value) == i \cap mask = value

IsBrk(i) == Matches(i, Halves(\hffe0, \h001f), Halves(\hd420, 0))

DPImmHandler(i) ==
  LET op0 == Field(i, 25, 23)
  IN CASE op0 \in {0, 1} -> "PCRel"
       [] op0 = 2 -> "AddSubImm"
       [] op0 = 3 -> "unhandled"
       [] op0 = 4 -> "LogImm"
       [] op0 = 5 -> "MoveWide"
       [] op0 = 6 -> "Bitfield"
       [] op0 = 7 -> "Extract"

DP11010Handler(i) ==
  LET sub == Field(i, 23, 21)
  IN CASE sub \in {2, 3} -> "CondCompare"
       [] sub = 4 -> "CondSelect"
       [] sub = 6 -> IF 30 \in i THEN "DP1Src" ELSE "DP2Src"
       [] sub \in {0, 1, 5, 7} -> "unhandled"

DPRegHandler(i) ==
  LET top5 == Field(i, 28, 24)
  IN CASE top5 = 10 -> "LogShiftReg"
       [] top5 = 11 -> IF 21 \in i THEN "AddSubExtReg" ELSE "AddSubShiftReg"
       [] top5 = 26 -> DP11010Handler(i)
       [] top5 = 27 -> "DP3Src"

\* Mutant: offsets in a register are not told from those of 9 bits.
LoadStoreHandlerImm9(i) ==
  LET op1 == Field(i, 29, 27)
      v == 26 \in i
  IN CASE op1 = 5 -> IF v THEN "LdStPairSIMD" ELSE "LdStPair"
       [] op1 = 7 /\ 24 \in i -> IF v THEN "LdStSIMDUnsigned" ELSE "LdStUnsigned"
       [] op1 = 7 /\ 24 \notin i -> IF v THEN "LdStSIMDImm9" ELSE "LdStImm9"
       [] op1 = 3 -> IF v THEN "LdrSIMDLiteral" ELSE "LdrLiteral"
       [] op1 = 1 -> "unhandled"

LoadStoreHandler(i) ==
  LET op1 == Field(i, 29, 27)
      v == 26 \in i
  IN CASE op1 = 5 -> IF v THEN "LdStPairSIMD" ELSE "LdStPair"
       [] op1 = 7 /\ 24 \in i -> IF v THEN "LdStSIMDUnsigned" ELSE "LdStUnsigned"
       [] op1 = 7 /\ 24 \notin i ->
            IF v THEN "LdStSIMDImm9" ELSE IF 21 \in i THEN "LdStRegOff" ELSE "LdStImm9"
       [] op1 = 3 -> IF v THEN "LdrSIMDLiteral" ELSE "LdrLiteral"
       [] op1 = 1 -> "unhandled"

BranchHandler(i) ==
  LET top7 == Field(i, 31, 25)
  IN CASE top7 \in {10, 11, 74, 75} -> "BUncond"
       [] top7 \in {26, 90} -> "CBx"
       [] top7 = 42 -> "BCond"
       [] top7 = 107 -> "BranchReg"
       [] top7 \in {27, 91} -> "TBx"
       [] OTHER -> "unhandled"

\* The tests of fpExecSIMD in their order: mask, value, what executes it.
SimdTests ==
  << <<Halves(\hffff, \hfc00), Halves(\h9e67, 0), "FmovDX">>,
     <<Halves(\hffff, \hfc00), Halves(\h9e66, 0), "FmovXD">>,
     <<Halves(\hffff, \hfc00), Halves(\h9eaf, 0), "FmovTopX">>,
     <<Halves(\hffff, \hfc00), Halves(\h9eae, 0), "FmovXTop">>,
     <<Halves(\hffff, \hfc00), Halves(\h1e27, 0), "FmovSW">>,
     <<Halves(\hffff, \hfc00), Halves(\h1e26, 0), "FmovWS">>,
     <<Halves(\hbfe0, \hfc00), Halves(\h0e00, \h0c00), "DUP">>,
     <<Halves(\hbfe0, \hfc00), Halves(\h0e00, \h3c00), "UMOV">>,
     <<Halves(\hbfe0, \hfc00), Halves(\h0e00, \h1c00), "INS">>,
     <<Halves(\hbf80, \hfc00), Halves(\h0f00, \h5400), "SHL">>,
     <<Halves(\h9ff8, \h0400), Halves(\h0f00, \h0400), "MOVI">>,
     <<Halves(\hbf3f, \hfc00), Halves(\h0e21, \h2800), "XTN">>,
     <<Halves(\hbfe0, \h8400), Halves(\h2e00, 0), "EXT">>,
     <<Halves(\hbf3f, \hfc00), Halves(\h0e20, \h0800), "REV64Vec">>,
     <<Halves(\h9f20, \h0400), Halves(\h0e20, \h0400), "AdvSIMD3Same">>,
     <<Halves(\h9f01, \hfc00), Halves(\h1e20, \h1000), "FmovImm">> >>

FirstMatch(i, tests) ==
  LET matching == {k \in DOMAIN tests : Matches(i, tests[k][1], tests[k][2])}
  IN IF matching = {} THEN "unhandled" ELSE tests[Min(matching)][3]

SimdHandler(i) == FirstMatch(i, SimdTests)

\* The switch of fpStep on op0.
Handler(i) ==
  LET op0 == Field(i, 28, 25)
  IN CASE op0 \in {8, 9} -> DPImmHandler(i)
       [] op0 \in {10, 11} -> BranchHandler(i)
       [] op0 \in {4, 6, 12, 14} -> LoadStoreHandler(i)
       [] op0 \in {5, 13} -> DPRegHandler(i)
       [] op0 \in {7, 15} -> SimdHandler(i)
       [] op0 \in {0, 1, 2, 3} -> "unhandled"
=============================================================================
