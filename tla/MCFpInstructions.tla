-------------------------- MODULE MCFpInstructions --------------------------
(* FpInstructions on the instructions of the guest's code and, to reach the  *)
(* rest of what the interpreter knows, on encodings of the architecture      *)
(* with every combination of the bits that choose an operation, a size or a  *)
(* form.  The fills differ in their signs and carries; the third has the     *)
(* words at the edges: 0, -1, the smallest and the largest numbers.          *)
EXTENDS FpInstructions

\* The encoding hi lo with every combination of further bits.
With(hi, lo, bits) == {A!Halves(hi, lo) \cup b : b \in SUBSET bits}

Immediates ==
  With(\h10ff, \hffe1, {31, 29, 4}) \cup                \* ADR, ADRP
  With(\h113f, \hfc41, {31, 30, 29, 22}) \cup           \* ADD, SUB, immediate
  With(\h1100, \h0fff, {31, 30, 29}) \cup               \* ... of SP or zero
  With(\h1203, \h0c41, {31, 30, 29, 12}) \cup           \* AND, ORR, EOR, ANDS
  With(\h120a, \hb041, {31, 30, 29, 14}) \cup
  With(\h9267, \h745f, {30, 29, 11}) \cup
  With(\h1290, \h8421, {30, 21}) \cup With(\h9290, \h8421, {30, 21, 22}) \cup \* MOVN, MOVZ
  With(\h7290, \h8421, {21}) \cup With(\hf290, \h8421, {21, 22}) \cup        \* MOVK
  With(\h1305, \h3c41, {30, 20}) \cup With(\h9345, \h9c41, {30, 21, 20}) \cup
  With(\h3305, \h3c41, {20}) \cup With(\hb345, \h9c41, {21, 20}) \cup  \* BFM
  With(\h1383, \h1c41, {5}) \cup With(\h93c3, \h9c41, {5}) \cup       \* EXTR
  With(\h1383, \h0041, {}) \cup With(\h93c3, \h0041, {})

Registers ==
  With(\h0a03, \h1c41, {31, 30, 29, 23, 22, 21}) \cup   \* logical, shifted
  With(\h0a03, \h03e1, {31, 30, 29, 21}) \cup
  With(\h0b03, \h1c41, {31, 30, 29, 22}) \cup           \* ADD, SUB, shifted
  With(\h0b83, \h1c5f, {31, 30, 29}) \cup
  With(\h0b03, \h0041, {31, 30, 29}) \cup
  With(\h0b23, \h0841, {31, 30, 29, 15, 14, 13}) \cup   \* ... extended
  With(\h0b23, \h43ff, {31, 30, 29}) \cup
  With(\h3a43, \hb045, {31, 30, 11}) \cup       \* CCMN, CCMP
  With(\h1a83, \hc041, {31, 30, 10}) \cup       \* CSEL ...
  With(\h1ac3, \h0841, {31, 10}) \cup With(\h1ac2, \h0861, {31, 10}) \cup \* UDIV, SDIV
  With(\h1ac5, \h0821, {31, 10, 6}) \cup With(\h1ac4, \h0841, {31, 10}) \cup
  With(\h1ac3, \h2041, {31, 11, 10}) \cup               \* LSLV, LSRV, ASRV, RORV
  With(\h5ac0, \h0041, {31, 10}) \cup With(\h5ac0, \h0841, {31}) \cup \* RBIT, REV16
  With(\hdac0, \h0c41, {}) \cup With(\h5ac0, \h1041, {31}) \cup       \* REV, CLZ
  With(\h1b03, \h1041, {31, 15}) \cup With(\h9b23, \h1041, {23, 15}) \cup \* MADD ...
  With(\h9b43, \h7c41, {23}) \cup With(\h9b42, \h7c61, {23})          \* SMULH, UMULH

LoadsAndStores ==
  With(\h3903, \hfc41, {31, 30, 22}) \cup               \* unsigned offset
  With(\h3983, \hfc41, {31, 30}) \cup With(\h39c3, \hfc41, {30}) \cup
  With(\h3900, \h07ff, {31, 30, 22}) \cup
  With(\h381f, \h8041, {31, 30, 22}) \cup               \* 9 bits of offset
  With(\h389f, \h8041, {31, 30}) \cup With(\h38df, \h8041, {30}) \cup
  With(\h381f, \h8441, {31, 30, 22, 11}) \cup
  With(\h3823, \h4841, {31, 30, 22, 15, 13, 12}) \cup   \* register offset
  With(\h28bf, \h0c41, {31, 22, 24}) \cup               \* pairs
  With(\h293f, \h0c41, {31, 22}) \cup
  With(\h68c1, \h0c41, {24}) \cup With(\h6941, \h0c41, {}) \cup       \* LDPSW
  With(\h1880, \h0081, {31, 30}) \cup                   \* literals
  With(\h1c80, \h0081, {30}) \cup With(\h9c80, \h0081, {}) \cup
  With(\h3d03, \hfc41, {31, 30, 22}) \cup With(\h3d83, \hfc41, {22}) \cup
  With(\h3c1f, \h8041, {31, 30, 22}) \cup With(\h3c9f, \h8041, {22}) \cup
  With(\h3c1f, \h8441, {31, 22, 11}) \cup With(\h3c9f, \h8441, {22, 11}) \cup
  With(\h2cbf, \h0c41, {30, 22, 24}) \cup With(\hacbf, \h0c41, {22, 24}) \cup
  With(\h2d3f, \h0c41, {30, 22}) \cup With(\had3f, \h0c41, {22})

Branches ==
  With(\h1400, \h0041, {31, 25}) \cup                   \* B, BL
  With(\h5480, \h0040, {3, 2, 1, 0}) \cup               \* B.cond
  With(\h3480, \h0041, {31, 24}) \cup                   \* CBZ, CBNZ
  With(\h3644, \h0041, {31, 24, 20}) \cup               \* TBZ, TBNZ
  With(\hd61f, \h0040, {21}) \cup With(\hd65f, \h0040, {}) \cup        \* BR, BLR, RET
  With(\hd63f, \h03c0, {})

VectorOperations ==
  With(\h9e66, \h0041, {16}) \cup With(\h9eae, \h0041, {16}) \cup     \* FMOV
  With(\h1e26, \h0041, {16}) \cup
  With(\h0e01, \h0c41, {30}) \cup With(\h0e02, \h0c41, {30}) \cup     \* DUP
  With(\h0e04, \h0c41, {30}) \cup With(\h4e08, \h0c41, {}) \cup
  With(\h0e05, \h3c41, {20}) \cup With(\h0e06, \h3c41, {20}) \cup     \* UMOV
  With(\h0e0c, \h3c41, {20}) \cup With(\h4e08, \h3c41, {20}) \cup
  With(\h4e05, \h1c41, {20}) \cup With(\h4e06, \h1c41, {20}) \cup     \* INS
  With(\h4e0c, \h1c41, {20}) \cup With(\h4e08, \h1c41, {20}) \cup
  With(\h0f0b, \h5441, {30}) \cup With(\h0f15, \h5441, {30}) \cup     \* SHL
  With(\h0f2b, \h5441, {30}) \cup With(\h4f5b, \h5441, {}) \cup
  With(\h0f05, \h0541, {30, 29, 14, 13}) \cup With(\h0f05, \h8541, {30, 29}) \cup \* MOVI
  With(\h0f05, \hc541, {30, 29, 12}) \cup With(\h0f05, \he541, {30, 29}) \cup
  With(\h0f05, \hf541, {30, 17}) \cup With(\h6f05, \hf541, {17}) \cup \* FMOV
  With(\h0e21, \h2841, {30, 22}) \cup With(\h0ea1, \h2841, {30}) \cup \* XTN
  With(\h6e03, \h1841, {14}) \cup                       \* EXT
  With(\h0e20, \h0841, {30, 22}) \cup With(\h0ea0, \h0841, {30}) \cup \* REV64
  With(\h0e23, \h1c41, {30, 29, 23, 22}) \cup           \* AND, BIC, ORR, EOR, BSL ...
  With(\h0e23, \h8441, {30, 29, 22}) \cup With(\h4ea3, \h8441, {29, 22})  \* ADD, SUB

MCOthers == Immediates \cup Registers \cup LoadsAndStores \cup Branches \cup VectorOperations

MCGuestFills == {1, 3}
MCOtherFills == {2, 3}

Mixed == [seed \in 0..6 |-> {b \in 0..63 : (b * b + 3 * b * seed + seed) % 7 < 3}]
Edge(k) ==
  CASE k % 5 = 0 -> 0..63
    [] k % 5 = 1 -> {63}
    [] k % 5 = 2 -> 0..62
    [] k % 5 = 3 -> {31}
    [] k % 5 = 4 -> {}
MCRegister(fill, r) ==
  CASE r = 32 -> {2, 5, 6, 11, 13, 20, 29, 31, 32, 36}
    [] r # 32 /\ fill = 3 -> Edge(r)
    [] r # 32 /\ fill # 3 -> Mixed[(r * fill + 1) % 7]
MCVector(fill, r) ==
  IF fill = 3 THEN <<Edge(r), Edge(r \div 2)>> ELSE <<Mixed[(2 * r + fill) % 7], Mixed[(3 * r + fill + 1) % 7]>>
MCByteAt(fill, address) == {b \in 0..7 : (A!Number(address \cap (0..9)) * (b + 3) + fill) % 11 < 5}
=============================================================================
