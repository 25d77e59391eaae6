-------------------------- MODULE VideoPacketsProofs --------------------------
(***************************************************************************)
(* Proofs about VideoPackets and its cipher, MirrorAes: for every block    *)
(* size, every length of payload, every unit and offset of the clock, and  *)
(* all access units that H.264 allows.                                     *)
(*                                                                         *)
(* What a recursive function computes is shown from the least-number       *)
(* principle (WFMin): Induct, and with it ReaderExists and BuilderExists,  *)
(* without which CHOOSE says nothing of the function.                      *)
(***************************************************************************)
EXTENDS VideoPackets, SequenceTheorems, WellFoundedInduction, TLAPS

\* A payload splits into the carried bytes, whole blocks and a rest that is
\* shorter than a block.
LEMMA Split ==
  ASSUME TypeOK, NEW len \in 0..MaxLength
  PROVE  /\ Carried(len) \in Nat
         /\ Carried(len) <= len
         /\ Carried(len) <= nextCryptCount
         /\ Rest(len) \in 0..Block-1
         /\ FullBlocks(len) \in Int
         /\ Carried(len) + FullBlocks(len) + Rest(len) = len
         /\ FullBlocks(len) >= 0
<1>1. /\ Block \in Nat \ {0}
      /\ nextCryptCount \in 0..Block-1
      /\ len \in Nat
  BY BlockAssumption DEF TypeOK
<1>2. /\ Carried(len) \in Nat
      /\ Carried(len) <= len
      /\ Carried(len) <= nextCryptCount
      /\ Remaining(len) \in Nat
  BY <1>1 DEF Carried, Remaining
<1>3. Rest(len) \in 0..Block-1 /\ Rest(len) <= Remaining(len)
  <2>1. \A a \in Nat, b \in Nat \ {0} : a % b \in 0..b-1 /\ a % b <= a
    OBVIOUS
  <2> QED
    BY <1>1, <1>2, <2>1 DEF Rest
<1> QED
  BY <1>2, <1>3 DEF FullBlocks, Remaining

\* Nothing has been encrypted, and nothing is kept.
LEMMA InitIInv == Init => IInv
  BY BlockAssumption DEF Init, IInv, TypeOK, KeptIsTail, NothingAhead, InStep, OneStream

\* What a frame does to the position of the cipher, in one formula for both of
\* its ends.
LEMMA Advance ==
  ASSUME TypeOK, NEW len \in 0..MaxLength, EncryptFrame(len)
  PROVE  /\ generated' \in Nat
         /\ og' \in Nat
         /\ nextCryptCount' \in 0..Block-1
         /\ generated' - nextCryptCount' = generated + len - Carried(len)
         /\ nextCryptCount' > 0 => og' + Block = generated'
<1>1. /\ Block \in Nat \ {0}
      /\ generated \in Nat
      /\ og \in Nat
  BY BlockAssumption DEF TypeOK
<1>2. KeepRest(len)
  BY DEF EncryptFrame
<1> QED
  BY <1>1, <1>2, Split DEF KeepRest

\* Byte i of a payload: a kept byte of the last block, or a new one.
LEMMA KeystreamIs ==
  ASSUME TypeOK, KeptIsTail, NEW len \in 0..MaxLength, NEW i \in 1..len
  PROVE  /\ Keystream(len, i) \in Int
         /\ i <= Carried(len) => Keystream(len, i) = generated - nextCryptCount + i - 1
         /\ i > Carried(len) => Keystream(len, i) = generated + i - Carried(len) - 1
<1>1. /\ Block \in Nat \ {0}
      /\ generated \in Nat
      /\ og \in Nat
      /\ nextCryptCount \in 0..Block-1
      /\ len \in Nat
      /\ i \in Nat /\ i > 0
  BY BlockAssumption DEF TypeOK
<1>2. Carried(len) \in Nat /\ Carried(len) <= nextCryptCount
  BY Split
<1>3. CASE i <= Carried(len)
  <2>1. og + Block = generated
    BY <1>1, <1>2, <1>3 DEF KeptIsTail
  <2> QED
    BY <1>1, <1>2, <1>3, <2>1 DEF Keystream
<1>4. CASE i > Carried(len)
  BY <1>1, <1>2, <1>4 DEF Keystream
<1> QED
  BY <1>1, <1>2, <1>3, <1>4

\* A frame of any length preserves the inductive invariant.
LEMMA StepIInv ==
  ASSUME IInv, NEW len \in 0..MaxLength, EncryptFrame(len)
  PROVE  IInv'
<1> USE DEF IInv
<1>1. /\ len \in Nat
      /\ total \in Nat /\ shorts \in Nat
      /\ generated \in Nat
      /\ Block \in Nat \ {0}
      /\ nextCryptCount \in 0..Block-1
      /\ MaxLength \in Nat
  BY BlockAssumption DEF TypeOK
<1>2. /\ generated' \in Nat
      /\ og' \in Nat
      /\ nextCryptCount' \in 0..Block-1
      /\ generated' - nextCryptCount' = generated + len - Carried(len)
      /\ KeptIsTail'
  BY Advance DEF KeptIsTail
<1>3. /\ Carried(len) \in Nat
      /\ Carried(len) <= len
      /\ Carried(len) <= nextCryptCount
  BY Split
<1>4. /\ size' = len
      /\ cipher' = [i \in 1..len |-> Keystream(len, i)]
      /\ total' = total + len
      /\ used' = IF len = 0 THEN used ELSE Keystream(len, len) + 1
      /\ shorts' = IF len < nextCryptCount THEN shorts + 1 ELSE shorts
  BY DEF EncryptFrame
<1>5. \A i \in 1..len :
        /\ Keystream(len, i) \in Int
        /\ i <= Carried(len) => Keystream(len, i) = generated - nextCryptCount + i - 1
        /\ i > Carried(len) => Keystream(len, i) = generated + i - Carried(len) - 1
  BY KeystreamIs
<1>6. TypeOK'
  <2>1. /\ size' \in 0..MaxLength
        /\ total' \in Nat
        /\ shorts' \in Nat
    BY <1>1, <1>4
  <2>2. used' \in Int
    <3>1. len # 0 => len \in 1..len
      BY <1>1
    <3> QED
      BY <1>4, <1>5, <3>1 DEF TypeOK
  <2>3. cipher' \in [1..size' -> Int]
    BY <1>4, <1>5
  <2> QED
    BY <1>2, <2>1, <2>2, <2>3 DEF TypeOK
<1>7. NothingAhead'
  <2>0. CASE len = 0
    <3>1. used' = used /\ Carried(len) = 0
      BY <2>0, <1>3, <1>4
    <3>2. used \in Int /\ used <= generated - nextCryptCount
      BY DEF TypeOK, NothingAhead
    <3> HIDE DEF IInv
    <3>3. generated' - nextCryptCount' = generated
      <4>1. generated' - nextCryptCount' = generated + 0 - 0
        BY <2>0, <1>2, <3>1
      <4> QED
        BY <1>1, <4>1
    <3> QED
      BY <1>1, <3>1, <3>2, <3>3 DEF NothingAhead
  <2> SUFFICES ASSUME len # 0 PROVE NothingAhead'
    BY <2>0
  <2>1. len \in 1..len
    BY <1>1
  <2>2. /\ Keystream(len, len) \in Int
        /\ len <= Carried(len) =>
             Keystream(len, len) = generated - nextCryptCount + len - 1
        /\ len > Carried(len) =>
             Keystream(len, len) = generated + len - Carried(len) - 1
    BY <1>5, <2>1
  <2>3. used' = Keystream(len, len) + 1
    BY <1>4
  <2>4. generated' - nextCryptCount' = generated + len - Carried(len)
    BY <1>2
  <2> HIDE DEF IInv
  <2>5. CASE len <= Carried(len)
    <3>1. used' = generated - nextCryptCount + len
      BY <1>1, <2>2, <2>3, <2>5
    <3> QED
      BY <1>1, <1>3, <2>4, <3>1 DEF NothingAhead
  <2>6. CASE len > Carried(len)
    <3>1. used' = generated + len - Carried(len)
      BY <1>1, <1>3, <2>2, <2>3, <2>6
    <3> QED
      BY <1>1, <1>3, <2>4, <3>1 DEF NothingAhead
  <2> QED
    BY <1>1, <1>3, <2>5, <2>6
<1>8. shorts' = 0 => /\ Carried(len) = nextCryptCount
                     /\ generated - nextCryptCount = total
  BY <1>1, <1>4 DEF Carried, InStep
<1>9. InStep'
  <2>1. shorts' = 0 => generated' - nextCryptCount' = total'
    <3> SUFFICES ASSUME shorts' = 0
                 PROVE  generated' - nextCryptCount' = total'
      OBVIOUS
    <3>1. generated' - nextCryptCount' = generated + len - nextCryptCount
      BY <1>2, <1>8
    <3>2. total' = total + len /\ generated - nextCryptCount = total
      BY <1>4, <1>8
    <3> HIDE DEF IInv
    <3> QED
      BY <1>1, <3>1, <3>2
  <2> QED
    BY <2>1 DEF InStep
<1>10. OneStream'
  <2> SUFFICES ASSUME shorts' = 0, NEW i \in 1..len
               PROVE  cipher'[i] = total' - size' + i - 1
    BY <1>4 DEF OneStream
  <2>1. cipher'[i] = Keystream(len, i)
    BY <1>4
  <2>2. Keystream(len, i) = total + i - 1
    <3>1. i \in Nat
      BY <1>1
    <3>2. CASE i <= Carried(len)
      BY <1>1, <1>5, <1>8, <3>1, <3>2
    <3>3. CASE i > Carried(len)
      BY <1>1, <1>5, <1>8, <3>1, <3>3
    <3> QED
      BY <1>3, <3>1, <3>2, <3>3
  <2> QED
    BY <1>1, <1>4, <2>1, <2>2
<1> QED
  BY <1>2, <1>6, <1>7, <1>9, <1>10

\* Every step preserves the inductive invariant.
LEMMA NextIInv == IInv /\ [Next]_vars => IInv'
<1> SUFFICES ASSUME IInv, [Next]_vars
             PROVE  IInv'
  OBVIOUS
<1>1. CASE Next
  BY <1>1, StepIInv DEF Next
<1>2. CASE UNCHANGED vars
  BY <1>2 DEF vars, IInv, TypeOK, KeptIsTail, NothingAhead, InStep, OneStream
<1> QED
  BY <1>1, <1>2

\* A step of the cipher uses keystream bytes in order, behind all used before.
LEMMA StepKeystreamOnce ==
  ASSUME IInv, NEW len \in 0..MaxLength, EncryptFrame(len)
  PROVE  /\ \A i \in 1..size' : cipher'[i] >= used
         /\ \A i, j \in 1..size' : i < j => cipher'[i] < cipher'[j]
<1>1. /\ size' = len
      /\ cipher' = [i \in 1..len |-> Keystream(len, i)]
  BY DEF EncryptFrame
<1>2. /\ len \in Nat
      /\ generated \in Nat
      /\ nextCryptCount \in Nat
      /\ used \in Int
      /\ used <= generated - nextCryptCount
  BY BlockAssumption DEF IInv, TypeOK, NothingAhead
<1>3. Carried(len) \in Nat /\ Carried(len) <= nextCryptCount
  BY Split DEF IInv
<1>4. \A i \in 1..len :
        /\ Keystream(len, i) \in Int
        /\ i <= Carried(len) => Keystream(len, i) = generated - nextCryptCount + i - 1
        /\ i > Carried(len) => Keystream(len, i) = generated + i - Carried(len) - 1
  BY KeystreamIs DEF IInv
<1>5. \A i \in 1..len : Keystream(len, i) >= used
  BY <1>2, <1>3, <1>4
<1>6. \A i, j \in 1..len : i < j => Keystream(len, i) < Keystream(len, j)
  BY <1>2, <1>3, <1>4
<1> QED
  BY <1>1, <1>5, <1>6

-----------------------------------------------------------------------------
(***************************************************************************)
(* The packets, and their stamps.                                          *)
(***************************************************************************)

\* Division by the units of a second: quotient and remainder.
LEMMA DivMod ==
  ASSUME NEW x \in Nat
  PROVE  /\ x \div Second \in Nat
         /\ x % Second \in 0..Second-1
         /\ x = (x \div Second) * Second + (x % Second)
BY ClockAssumption

\* A quotient is the only number that leaves less than a second.
LEMMA QuotientIs ==
  ASSUME NEW q \in Nat, NEW r \in 0..Second-1
  PROVE  (q * Second + r) \div Second = q
BY ClockAssumption

\* A number of whole seconds can be taken out of a quotient.
LEMMA WholeOut ==
  ASSUME NEW k \in Nat, NEW x \in Nat
  PROVE  (k * Second + x) \div Second = k + x \div Second
<1>1. ClockAssumption!1
  BY ClockAssumption
<1> DEFINE q == x \div Second
           r == x % Second
<1>2. q \in Nat /\ r \in 0..Second-1 /\ x = q * Second + r
  BY DivMod
<1> HIDE DEF q, r
<1>3. k * Second + x = (k + q) * Second + r
  BY <1>1, <1>2
<1>4. (k + q) \in Nat
  BY <1>2
<1>5. ((k + q) * Second + r) \div Second = k + q
  BY <1>2, <1>4, QuotientIs
<1> QED
  BY <1>3, <1>5 DEF q

\* A whole product by a fraction of a second.
LEMMA FixedPointIs ==
  ASSUME NEW t \in Nat, NEW o \in Nat
  PROVE  /\ (t * Fraction) \div Second \in Nat
         /\ FixedPoint(t, o) = o * Fraction + (t * Fraction) \div Second
<1>1. Fraction \in Nat /\ Second \in Nat \ {0}
  BY ClockAssumption
<1> DEFINE q == t \div Second
           r == t % Second
<1>2. q \in Nat /\ r \in Nat /\ t = q * Second + r
  BY DivMod
<1>3. FixedPoint(t, o) = (q + o) * Fraction + (r * Fraction) \div Second
  BY DEF FixedPoint
<1> HIDE DEF q, r
<1>4. t * Fraction = (q * Fraction) * Second + r * Fraction
  BY <1>1, <1>2
<1>5. q * Fraction \in Nat /\ r * Fraction \in Nat /\ o * Fraction \in Nat
  BY <1>1, <1>2
<1>6. (t * Fraction) \div Second = q * Fraction + (r * Fraction) \div Second
  BY <1>4, <1>5, WholeOut
<1>7. (r * Fraction) \div Second \in Nat
  BY <1>5, DivMod
<1>8. (q + o) * Fraction = q * Fraction + o * Fraction
  BY <1>1, <1>2
<1> QED
  BY <1>3, <1>5, <1>6, <1>7, <1>8

\* Two remainders make at most one second more.
LEMMA RemaindersCarry ==
  ASSUME NEW r \in 0..Second-1, NEW s \in 0..Second-1
  PROVE  (r + s) \div Second \in {0, 1}
<1>1. Second \in Nat \ {0}
  BY ClockAssumption
<1>2. CASE r + s < Second
  <2>1. r + s \in 0..Second-1 /\ 0 * Second + (r + s) = r + s
    BY <1>1, <1>2
  <2> QED
    BY <2>1, QuotientIs
<1>3. CASE r + s >= Second
  <2>1. r + s - Second \in 0..Second-1 /\ 1 * Second + (r + s - Second) = r + s
    BY <1>1, <1>3
  <2> QED
    BY <2>1, QuotientIs
<1> QED
  BY <1>1, <1>2, <1>3

\* The quotient of a sum is that of its parts, or one more.
LEMMA QuotientOfSum ==
  ASSUME NEW x \in Nat, NEW y \in Nat
  PROVE  (x + y) \div Second - x \div Second - y \div Second \in {0, 1}
<1>1. Second \in Nat \ {0}
  BY ClockAssumption
<1> DEFINE q == x \div Second
           r == x % Second
<1>2. q \in Nat /\ r \in 0..Second-1 /\ x = q * Second + r
  BY DivMod
<1> HIDE DEF q, r
<1> DEFINE p == y \div Second
           s == y % Second
<1>3. p \in Nat /\ s \in 0..Second-1 /\ y = p * Second + s
  BY DivMod
<1> HIDE DEF p, s
<1>4. x + y = (q + p) * Second + (r + s) /\ q + p \in Nat /\ r + s \in Nat
  BY <1>1, <1>2, <1>3
<1>5. (x + y) \div Second = (q + p) + (r + s) \div Second
  BY <1>4, WholeOut
<1>6. (r + s) \div Second \in {0, 1}
  BY <1>2, <1>3, RemaindersCarry
<1>7. (x + y) \div Second - q - p \in {0, 1}
  BY <1>2, <1>3, <1>5, <1>6
<1> QED
  BY <1>7 DEF q, p

\* Stamps gain no more than a fraction on the time, whatever the offset.
LEMMA StampsKeepPace ==
  ASSUME NEW t \in Nat, NEW d \in Nat, NEW o \in Nat
  PROVE  /\ FixedPoint(t, o) \in Nat
         /\ FixedPoint(t + d, o) - FixedPoint(t, o) - (d * Fraction) \div Second \in {0, 1}
<1>1. Fraction \in Nat
  BY ClockAssumption
<1> DEFINE x == t * Fraction
           y == d * Fraction
           z == o * Fraction
<1>2. x \in Nat /\ y \in Nat /\ z \in Nat /\ (t + d) * Fraction = x + y
  BY <1>1
<1>3. /\ FixedPoint(t, o) = z + x \div Second
      /\ FixedPoint(t + d, o) = z + (x + y) \div Second
  BY <1>2, FixedPointIs
<1> HIDE DEF x, y, z
<1>4. /\ x \div Second \in Nat
      /\ y \div Second \in Nat
      /\ (x + y) \div Second \in Nat
  BY <1>2, DivMod
<1>5. (x + y) \div Second - x \div Second - y \div Second \in {0, 1}
  BY <1>2, QuotientOfSum
<1> QED
  BY <1>2, <1>3, <1>4, <1>5 DEF y

\* The stamp of its kind that is made at a time.
StampOf(kind, time) ==
  IF kind = "reply" THEN FixedPoint(time, Epoch) ELSE FixedPoint(time + Bias, 0)

\* The last stamp of each kind is the one of its time.
StampsOK ==
  /\ elapsed \in Nat
  /\ stamped \in [Stamps -> [at : Int, stamp : Int]]
  /\ \A kind \in Stamps :
       stamped[kind].at # -1 => /\ stamped[kind].at \in 0..elapsed
                                /\ stamped[kind].stamp = StampOf(kind, stamped[kind].at)

\* The inductive invariant of the packets.
PacketIInv == IInv /\ StampsOK

\* Nothing is sent at the start, and no probe was answered.
LEMMA InitPacketIInv == PacketInit => PacketIInv
<1> SUFFICES ASSUME PacketInit PROVE PacketIInv
  OBVIOUS
<1>1. StampsOK
  BY DEF PacketInit, StampsOK, NoStamp
<1> QED
  BY <1>1, InitIInv DEF PacketInit, PacketIInv

\* Any two stamps of a kind are as far apart as their times.
LEMMA KindsKeepPace ==
  ASSUME NEW kind \in Stamps, NEW t \in Nat, NEW u \in Nat, u >= t
  PROVE  /\ StampOf(kind, t) \in Nat
         /\ StampOf(kind, u) - StampOf(kind, t) - ((u - t) * Fraction) \div Second \in {0, 1}
<1> DEFINE d == u - t
<1>1. Epoch \in Nat /\ Bias \in Nat
  BY ClockAssumption DEF Bias
<1>2. d \in Nat /\ t + d = u /\ (t + Bias) + d = u + Bias /\ t + Bias \in Nat
  BY <1>1
<1> HIDE DEF d
<1>3. CASE kind = "reply"
  BY <1>1, <1>2, <1>3, StampsKeepPace DEF StampOf, d
<1>4. CASE kind # "reply"
  <2>1. /\ FixedPoint(t + Bias, 0) \in Nat
        /\ FixedPoint(u + Bias, 0) - FixedPoint(t + Bias, 0) - (d * Fraction) \div Second \in {0, 1}
    BY <1>2, StampsKeepPace
  <2> QED
    BY <1>4, <2>1 DEF StampOf, d
<1> QED
  BY <1>3, <1>4

\* A stamp that is made now is right now.
LEMMA StampStep ==
  ASSUME StampsOK, elapsed' = elapsed, NEW made \in Stamps,
         Stamp(made, StampOf(made, elapsed))
  PROVE  StampsOK' /\ \A kind \in Stamps : stamped'[kind] = stamped[kind]
                                             \/ stamped'[kind].at = elapsed
<1>1. elapsed \in Nat /\ stamped \in [Stamps -> [at : Int, stamp : Int]]
  BY DEF StampsOK
<1>2. StampOf(made, elapsed) \in Nat
  BY <1>1, KindsKeepPace
<1> DEFINE new == [at |-> elapsed, stamp |-> StampOf(made, elapsed)]
<1>3. new \in [at : Int, stamp : Int] /\ new.at = elapsed /\ new.stamp = StampOf(made, elapsed)
  BY <1>1, <1>2
<1>4. stamped' = [stamped EXCEPT ![made] = new]
  BY DEF Stamp
<1> HIDE DEF new
<1>5. /\ stamped' \in [Stamps -> [at : Int, stamp : Int]]
      /\ stamped'[made] = new
      /\ \A kind \in Stamps : kind # made => stamped'[kind] = stamped[kind]
  BY <1>1, <1>3, <1>4
<1>6. ASSUME NEW kind \in Stamps, stamped'[kind].at # -1
      PROVE  /\ stamped'[kind].at \in 0..elapsed'
             /\ stamped'[kind].stamp = StampOf(kind, stamped'[kind].at)
  <2>1. CASE kind = made
    BY <1>1, <1>3, <1>5, <2>1
  <2>2. CASE kind # made
    BY <1>5, <1>6, <2>2 DEF StampsOK
  <2> QED
    BY <2>1, <2>2
<1>7. StampsOK'
  BY <1>1, <1>5, <1>6 DEF StampsOK, StampOf, FixedPoint
<1> QED
  BY <1>3, <1>5, <1>7

\* Every step of the clock, the responder and the stream keeps the invariant, and
\* a stamp it makes has the time it is made at.
LEMMA NextPacketIInv ==
  ASSUME PacketIInv, [PacketNext]_allVars
  PROVE  /\ PacketIInv'
         /\ \A kind \in Stamps : stamped'[kind] = stamped[kind] \/ stamped'[kind].at = elapsed
<1> DEFINE MadeNow == \A kind \in Stamps : stamped'[kind] = stamped[kind]
                                             \/ stamped'[kind].at = elapsed
<1>1. IInv /\ StampsOK /\ elapsed \in Nat
  BY DEF PacketIInv, StampsOK
<1>2. ASSUME UNCHANGED stamped, elapsed' \in {elapsed, elapsed + 1}
      PROVE  StampsOK' /\ MadeNow
  <2>1. \A kind \in Stamps : stamped'[kind].at # -1 =>
          /\ stamped'[kind].at \in 0..elapsed'
          /\ stamped'[kind].stamp = StampOf(kind, stamped'[kind].at)
    BY <1>1, <1>2 DEF StampsOK
  <2> QED
    BY <1>1, <1>2, <2>1 DEF StampsOK, StampOf, FixedPoint
<1>3. CASE TimePasses
  <2>1. UNCHANGED <<vars, stamped>> /\ elapsed' = elapsed + 1
    BY <1>3 DEF TimePasses
  <2>2. IInv'
    BY <1>1, <2>1, NextIInv
  <2> QED
    BY <1>2, <2>1, <2>2 DEF PacketIInv
<1>4. CASE AnswerProbe
  <2>1. UNCHANGED <<vars, elapsed>> /\ Stamp("reply", StampOf("reply", elapsed))
    BY <1>4 DEF AnswerProbe, NtpEpochNow, StampOf
  <2>2. IInv'
    BY <1>1, <2>1, NextIInv
  <2>3. "reply" \in Stamps
    BY DEF Stamps
  <2> QED
    BY <1>1, <2>1, <2>2, <2>3, StampStep DEF PacketIInv
<1>5. CASE SendSome
  <2>1. elapsed' = elapsed
    BY <1>5 DEF SendSome, SendAccessUnit
  <2>2. NoPicture \/ \E vcl, key : SendPicture(vcl, key)
    BY <1>5 DEF SendSome, SendAccessUnit
  <2>3. CASE NoPicture
    <3>1. UNCHANGED <<vars, stamped>>
      BY <2>3 DEF NoPicture
    <3>2. IInv'
      BY <1>1, <3>1, NextIInv
    <3> QED
      BY <1>2, <2>1, <3>1, <3>2 DEF PacketIInv
  <2>4. ASSUME NEW vcl, NEW key, SendPicture(vcl, key)
        PROVE  PacketIInv' /\ MadeNow
    <3>1. /\ EncryptFrame(Len(payload'))
          /\ header' = [len |-> Len(payload'), key |-> key, stamp |-> NtpTimeWithBias]
          /\ Stamp("picture", header'.stamp)
      BY <2>4 DEF SendPicture
    <3>2. IInv'
      BY <1>1, <3>1, StepIInv DEF EncryptFrame
    <3>3. header'.stamp = NtpTimeWithBias
      BY <3>1
    <3>4. Stamp("picture", StampOf("picture", elapsed)) /\ "picture" \in Stamps
      BY <3>1, <3>3 DEF NtpTimeWithBias, StampOf, Stamps
    <3> QED
      BY <1>1, <2>1, <3>2, <3>4, StampStep DEF PacketIInv
  <2> QED
    BY <2>2, <2>3, <2>4
<1>6. CASE UNCHANGED allVars
  <2>1. UNCHANGED <<vars, elapsed, stamped>>
    BY <1>6 DEF allVars, clockVars
  <2>2. IInv'
    BY <1>1, <2>1, NextIInv
  <2> QED
    BY <1>2, <2>1, <2>2 DEF PacketIInv
<1> QED
  BY <1>3, <1>4, <1>5, <1>6 DEF PacketNext

\* The inductive invariant holds for every block size, every unit of time and
\* every access unit the encoder may emit.
THEOREM Invariance == PacketSpec => []PacketIInv
<1>1. PacketIInv /\ [PacketNext]_allVars => PacketIInv'
  BY NextPacketIInv
<1> QED
  BY <1>1, InitPacketIInv, PTL DEF PacketSpec

\* The state of the cipher keeps its types; next_crypt_count stays below a
\* block, so og is never indexed out of its bounds (encrypt_frame).
THEOREM TypeCorrect == PacketSpec => []TypeOK
<1>1. PacketIInv => TypeOK
  BY DEF PacketIInv, IInv
<1> QED
  BY <1>1, Invariance, PTL

\* The payloads are encrypted as one stream until one is shorter than what was
\* kept of the last block (encrypt_frame).
THEOREM StreamsAsOne == PacketSpec => []OneStream
<1>1. PacketIInv => OneStream
  BY DEF PacketIInv, IInv
<1> QED
  BY <1>1, Invariance, PTL

\* No keystream byte is ever used twice (encrypt_frame).
THEOREM KeystreamNotReused == PacketSpec => KeystreamOnce
<1>1. ASSUME IInv, [PacketNext]_allVars
      PROVE  [/\ \A i \in 1..size' : cipher'[i] >= used
              /\ \A i, j \in 1..size' : i < j => cipher'[i] < cipher'[j]]_vars
  <2>1. UNCHANGED vars \/ \E vcl, key : SendPicture(vcl, key)
    BY <1>1 DEF PacketNext, TimePasses, AnswerProbe, SendSome, SendAccessUnit,
                NoPicture, allVars
  <2>2. UNCHANGED vars \/ \E len \in 0..MaxLength : EncryptFrame(len)
    BY <2>1 DEF SendPicture, EncryptFrame
  <2> QED
    BY <1>1, <2>2, StepKeystreamOnce
<1>2. PacketIInv => IInv
  BY DEF PacketIInv
<1> QED
  BY <1>1, <1>2, Invariance, PTL DEF PacketSpec, KeystreamOnce

\* Stamps of pictures, and of timing replies, are as far apart as the pictures
\* and the replies, to one fraction, for every epoch, bias and unit of time
\* (to_fixed_point, ntp_time_with_bias, ntp_timing_responder).
THEOREM StampsKeepTime == PacketSpec => StampsPaced
<1>1. ASSUME PacketIInv, [PacketNext]_allVars
      PROVE  [\A kind \in Stamps : stamped[kind].at # -1 =>
                Gained(stamped[kind], stamped'[kind]) \in {0, 1}]_allVars
  <2> SUFFICES ASSUME NEW kind \in Stamps, stamped[kind].at # -1
               PROVE  Gained(stamped[kind], stamped'[kind]) \in {0, 1}
    OBVIOUS
  <2> DEFINE a == stamped[kind]
             b == stamped'[kind]
  <2>1. /\ elapsed \in Nat /\ a.at \in 0..elapsed /\ a.stamp = StampOf(kind, a.at)
    BY <1>1 DEF PacketIInv, StampsOK
  <2>2. StampsOK' /\ (b = a \/ b.at = elapsed)
    BY <1>1, NextPacketIInv DEF PacketIInv
  <2>3. b.at \in Nat /\ b.at >= a.at /\ b.at # -1
    BY <2>1, <2>2
  <2>4. b.stamp = StampOf(kind, b.at)
    BY <2>2, <2>3 DEF StampsOK, StampOf, FixedPoint
  <2>5. StampOf(kind, b.at) - StampOf(kind, a.at) - ((b.at - a.at) * Fraction) \div Second \in {0, 1}
    BY <2>1, <2>3, KindsKeepPace
  <2> QED
    BY <2>1, <2>4, <2>5 DEF Gained
<1> QED
  BY <1>1, Invariance, PTL DEF PacketSpec, StampsPaced

(***************************************************************************)
(* The parameter sets in the avcC record.                                  *)
(***************************************************************************)

\* Two bytes make up a length.
LEMMA TwoBytes ==
  ASSUME NEW n \in Nat
  PROVE  n \div 256 \in Nat /\ n % 256 \in Nat /\ 256 * (n \div 256) + (n % 256) = n
OBVIOUS

\* Bytes in front of what is appended stay where they are.
LEMMA StaysInFront ==
  ASSUME NEW s \in Seq(Nat), NEW t \in Seq(Nat), NEW i \in 1..Len(s)
  PROVE  (s \o t)[i] = s[i]
<1>1. Len(s) \in Nat /\ Len(t) \in Nat
  BY LenProperties
<1>2. i \in 1..Len(s) + Len(t) /\ i <= Len(s)
  BY <1>1
<1> QED
  BY <1>2, ConcatProperties

\* What lies between two parts of a packet is cut out by their lengths.
LEMMA Middle ==
  ASSUME NEW s \in Seq(Nat), NEW t \in Seq(Nat), NEW u \in Seq(Nat)
  PROVE  SubSeq((s \o t) \o u, Len(s) + 1, Len(s) + Len(t)) = t
<1> DEFINE st == s \o t
           x == st \o u
           m == Len(s) + 1
           n == Len(s) + Len(t)
           y == SubSeq(x, m, n)
<1>1. Len(s) \in Nat /\ Len(t) \in Nat /\ Len(u) \in Nat
  BY LenProperties
<1>2. /\ st \in Seq(Nat) /\ Len(st) = Len(s) + Len(t)
      /\ \A i \in 1..Len(s) + Len(t) : st[i] = IF i <= Len(s) THEN s[i] ELSE t[i - Len(s)]
  BY ConcatProperties
<1> HIDE DEF st
<1>3. ASSUME NEW i \in 1..Len(t)
      PROVE  x[Len(s) + i] = t[i]
  <2>1. Len(s) + i \in 1..Len(st)
    BY <1>1, <1>2
  <2>2. x[Len(s) + i] = st[Len(s) + i]
    BY <1>2, <2>1, StaysInFront
  <2>3. /\ Len(s) + i \in 1..Len(s) + Len(t)
        /\ ~(Len(s) + i <= Len(s)) /\ (Len(s) + i) - Len(s) = i
    BY <1>1
  <2>4. st[Len(s) + i] = t[i]
    BY <1>2, <2>3
  <2> QED
    BY <2>2, <2>4
<1>4. m \in Int /\ n \in Int /\ n - m + 1 = Len(t) /\ (m <= n \/ Len(t) = 0)
  BY <1>1
<1>5. \A i \in m..n : x[i] \in Nat
  <2> TAKE i \in m..n
  <2>1. i - Len(s) \in 1..Len(t) /\ Len(s) + (i - Len(s)) = i
    BY <1>1
  <2> QED
    BY <1>3, <2>1, ElementOfSeq
<1> HIDE DEF x, m, n
<1>6. /\ y \in Seq(Nat)
      /\ Len(y) = Len(t)
      /\ \A i \in 1..Len(t) : y[i] = x[m + i - 1]
  <2>1. /\ y \in Seq(Nat)
        /\ Len(y) = IF m <= n THEN n - m + 1 ELSE 0
        /\ \A i \in 1..n - m + 1 : y[i] = x[m + i - 1]
    BY <1>4, <1>5, SubSeqProperties
  <2> QED
    BY <1>1, <1>4, <2>1
<1>7. \A i \in 1..Len(t) : y[i] = t[i]
  <2> TAKE i \in 1..Len(t)
  <2>1. m + i - 1 = Len(s) + i
    BY <1>1 DEF m
  <2> QED
    BY <1>3, <1>6, <2>1
<1> HIDE DEF y
<1>8. y = t
  BY <1>6, <1>7, SeqEqual
<1> QED
  BY <1>8 DEF x, y, m, n, st

\* The two bytes behind a part, and what they count.
LEMMA Counted ==
  ASSUME NEW s \in Seq(Nat), NEW n \in Nat,
         NEW t \in Seq(Nat)
  PROVE  LET x == (s \o <<n \div 256, n % 256>>) \o t
         IN  256 * x[Len(s) + 1] + x[Len(s) + 2] = n
<1> DEFINE p == <<n \div 256, n % 256>>
           sp == s \o p
           x == sp \o t
<1>1. /\ Len(s) \in Nat /\ Len(p) = 2 /\ p \in Seq(Nat)
      /\ p[1] = n \div 256 /\ p[2] = n % 256
      /\ 256 * p[1] + p[2] = n
  BY TwoBytes, LenProperties
<1> HIDE DEF p
<1>2. /\ sp \in Seq(Nat) /\ Len(sp) = Len(s) + 2
      /\ \A i \in 1..Len(s) + 2 : sp[i] = IF i <= Len(s) THEN s[i] ELSE p[i - Len(s)]
  <2>1. /\ sp \in Seq(Nat) /\ Len(sp) = Len(s) + Len(p)
        /\ \A i \in 1..Len(s) + Len(p) : sp[i] = IF i <= Len(s) THEN s[i] ELSE p[i - Len(s)]
    <3>1. p \in Seq(Nat)
      BY <1>1
    <3> QED
      BY <3>1, ConcatProperties
  <2> QED
    BY <1>1, <2>1
<1> HIDE DEF sp
<1>3. /\ Len(s) + 1 \in 1..Len(s) + 2 /\ Len(s) + 2 \in 1..Len(s) + 2
      /\ ~(Len(s) + 1 <= Len(s)) /\ ~(Len(s) + 2 <= Len(s))
      /\ (Len(s) + 1) - Len(s) = 1 /\ (Len(s) + 2) - Len(s) = 2
  BY <1>1
<1>4. sp[Len(s) + 1] = p[1] /\ sp[Len(s) + 2] = p[2]
  BY <1>2, <1>3
<1>5. x[Len(s) + 1] = p[1] /\ x[Len(s) + 2] = p[2]
  BY <1>2, <1>3, <1>4, StaysInFront
<1> QED
  BY <1>1, <1>5 DEF p, sp

\* Concatenation, as it is used here.
LEMMA Joined ==
  ASSUME NEW s \in Seq(Nat), NEW t \in Seq(Nat)
  PROVE  s \o t \in Seq(Nat) /\ Len(s \o t) = Len(s) + Len(t)
BY ConcatProperties

LEMMA Regrouped ==
  ASSUME NEW s \in Seq(Nat), NEW t \in Seq(Nat), NEW u \in Seq(Nat)
  PROVE  (s \o t) \o u = s \o (t \o u)
BY ConcatAssociative

\* Behind the first k bytes of a packet are the length of s and s.
AnnouncedAt(x, k, s) ==
  /\ 256 * x[k + 1] + x[k + 2] = Len(s)
  /\ SubSeq(x, k + 3, k + Len(s) + 2) = s

LEMMA Announced ==
  ASSUME NEW a \in Seq(Nat), NEW s \in Seq(Nat), NEW t \in Seq(Nat)
  PROVE  AnnouncedAt(((a \o Length16(s)) \o s) \o t, Len(a), s)
<1> DEFINE p == Length16(s)
           ap == a \o p
           x == (ap \o s) \o t
<1>1. Len(s) \in Nat /\ Len(a) \in Nat
  BY LenProperties
<1>2. p = <<Len(s) \div 256, Len(s) % 256>> /\ p \in Seq(Nat) /\ Len(p) = 2
  BY <1>1, TwoBytes DEF Length16
<1> HIDE DEF p
<1>3. ap \in Seq(Nat) /\ Len(ap) = Len(a) + 2
  <2>1. p \in Seq(Nat)
    BY <1>2
  <2>2. ap \in Seq(Nat) /\ Len(ap) = Len(a) + Len(p)
    BY <2>1, ConcatProperties
  <2> QED
    BY <1>2, <2>2
<1>4. s \o t \in Seq(Nat)
  BY ConcatProperties
<1>5. x = ap \o (s \o t)
  <2>1. ap \in Seq(Nat)
    BY <1>3
  <2> HIDE DEF ap
  <2>2. (ap \o s) \o t = ap \o (s \o t)
    BY <2>1, Regrouped, Zenon
  <2> QED
    BY <2>2 DEF x
<1>6. 256 * x[Len(a) + 1] + x[Len(a) + 2] = Len(s)
  <2> DEFINE u == s \o t
             n == Len(s)
             y == (a \o <<n \div 256, n % 256>>) \o u
  <2>1. n \in Nat /\ u \in Seq(Nat) /\ x = y
    BY <1>1, <1>2, <1>4, <1>5
  <2> HIDE DEF u, n, x
  <2>2. 256 * y[Len(a) + 1] + y[Len(a) + 2] = n
    BY <2>1, Counted
  <2> HIDE DEF y
  <2> QED
    BY <2>1, <2>2 DEF n
<1>7. SubSeq(x, Len(ap) + 1, Len(ap) + Len(s)) = s
  <2> HIDE DEF ap
  <2> QED
    BY <1>3, Middle DEF x
<1> HIDE DEF x, ap
<1>8. SubSeq(x, Len(a) + 3, Len(a) + Len(s) + 2) = s
  <2>1. Len(ap) + 1 = Len(a) + 3 /\ Len(ap) + Len(s) = Len(a) + Len(s) + 2
    BY <1>1, <1>3
  <2> QED
    BY <1>7, <2>1
<1> QED
  BY <1>6, <1>8 DEF AnnouncedAt, x, ap, p

\* What a packet begins with does not change when something is put behind it.
Begins(x, q) == x \in Seq(Nat) /\ \E r \in Seq(Nat) : x = q \o r

LEMMA BeginsWithIt ==
  ASSUME NEW q \in Seq(Nat), NEW o \in Seq(Nat)
  PROVE  Begins(q \o o, q)
BY Joined DEF Begins

LEMMA StillBegins ==
  ASSUME NEW x, NEW q \in Seq(Nat), NEW e \in Seq(Nat), Begins(x, q)
  PROVE  Begins(x \o e, q)
<1>1. PICK r \in Seq(Nat) : x = q \o r
  BY DEF Begins
<1>2. x \o e \in Seq(Nat) /\ r \o e \in Seq(Nat)
  BY Joined DEF Begins
<1>3. (q \o r) \o e = q \o (r \o e)
  BY Regrouped
<1>4. x \o e = q \o (r \o e)
  BY <1>1, <1>3
<1> QED
  BY <1>2, <1>4 DEF Begins

\* The TV finds the parameter sets in the avcC record, whatever they contain
\* and however long they are (build_avcc_config, which keeps two bytes of each
\* length: from 65536 on the first of them would be no byte here).
THEOREM ParameterSetsFound ==
  ASSUME NEW sps \in Seq(Nat), NEW pps \in Seq(Nat)
  PROVE  TvParameterSets(BuildAvccConfig(sps, pps)) = <<sps, pps>>
<1> DEFINE a == <<1>> \o Profile(sps) \o <<255, 225>>
           al == a \o Length16(sps)
           q == al \o sps
           one == <<1>>
           b == q \o one
           end == <<2, 0, 0, 0>>
           n == Len(sps)
           m == Len(pps)
           x == ((b \o Length16(pps)) \o pps) \o end
<1>1. n \in Nat /\ m \in Nat
  BY LenProperties
<1>2. Profile(sps) \in Seq(Nat) /\ Len(Profile(sps)) = 3
  <2>1. CASE Len(sps) >= 4
    <3>1. \A i \in 2..4 : sps[i] \in Nat
      <4> TAKE i \in 2..4
      <4>1. i \in 1..Len(sps)
        BY <1>1, <2>1
      <4> QED
        BY <4>1, ElementOfSeq
    <3>2. SubSeq(sps, 2, 4) \in Seq(Nat) /\ Len(SubSeq(sps, 2, 4)) = 3
      BY <3>1, SubSeqProperties
    <3> QED
      BY <2>1, <3>2 DEF Profile
  <2>2. CASE ~(Len(sps) >= 4)
    BY <2>2 DEF Profile
  <2> QED
    BY <2>1, <2>2
<1>3. a \in Seq(Nat) /\ Len(a) = 6
  <2> DEFINE f == Profile(sps)
             first == <<1>>
             g == first \o f
             last == <<255, 225>>
  <2>1. first \in Seq(Nat) /\ Len(first) = 1 /\ last \in Seq(Nat) /\ Len(last) = 2
    OBVIOUS
  <2>2. f \in Seq(Nat) /\ Len(f) = 3
    BY <1>2
  <2> HIDE DEF first, f, last
  <2>3. g \in Seq(Nat) /\ Len(g) = Len(first) + Len(f)
    BY <2>1, <2>2, ConcatProperties
  <2>4. Len(g) = 4
    BY <2>1, <2>2, <2>3
  <2> HIDE DEF g
  <2>5. g \o last \in Seq(Nat) /\ Len(g \o last) = Len(g) + Len(last)
    BY <2>1, <2>3, ConcatProperties
  <2> QED
    BY <2>1, <2>4, <2>5 DEF g, last, f, first
<1>4. /\ Length16(sps) \in Seq(Nat) /\ Len(Length16(sps)) = 2
      /\ Length16(pps) \in Seq(Nat) /\ Len(Length16(pps)) = 2
  BY <1>1, TwoBytes DEF Length16
<1>5. end \in Seq(Nat) /\ one \in Seq(Nat) /\ Len(one) = 1
  OBVIOUS
<1>6. BuildAvccConfig(sps, pps) = x
  BY DEF BuildAvccConfig
<1> HIDE DEF a, one, end
<1>7. al \in Seq(Nat) /\ Len(al) = 8
  <2>1. al \in Seq(Nat) /\ Len(al) = Len(a) + Len(Length16(sps))
    BY <1>3, <1>4, ConcatProperties
  <2> QED
    BY <1>3, <1>4, <2>1
<1> HIDE DEF al
<1>8. q \in Seq(Nat) /\ Len(q) = 8 + n
  <2>1. q \in Seq(Nat) /\ Len(q) = Len(al) + Len(sps)
    BY <1>7, ConcatProperties
  <2> QED
    BY <1>7, <2>1
<1> HIDE DEF q
<1>9. b \in Seq(Nat) /\ Len(b) = n + 9
  <2>1. b \in Seq(Nat) /\ Len(b) = Len(q) + Len(one)
    BY <1>5, <1>8, ConcatProperties
  <2> QED
    BY <1>1, <1>5, <1>8, <2>1
<1>10. AnnouncedAt(x, 6, sps)
  <2>1. PICK r \in Seq(Nat) : x = q \o r
    <3>1. Length16(pps) \in Seq(Nat) /\ end \in Seq(Nat) /\ one \in Seq(Nat) /\ q \in Seq(Nat)
      BY <1>4, <1>5, <1>8
    <3>2. Begins(b, q)
      BY <3>1, BeginsWithIt
    <3> HIDE DEF b
    <3>3. Begins(b \o Length16(pps), q)
      BY <3>1, <3>2, StillBegins
    <3>4. Begins((b \o Length16(pps)) \o pps, q)
      BY <3>1, <3>3, StillBegins
    <3>5. Begins(x, q)
      BY <3>1, <3>4, StillBegins
    <3> QED
      BY <3>5 DEF Begins
  <2> HIDE DEF x
  <2>2. AnnouncedAt(((a \o Length16(sps)) \o sps) \o r, Len(a), sps)
    <3>1. a \in Seq(Nat) /\ r \in Seq(Nat)
      BY <1>3, <2>1
    <3> QED
      BY <3>1, Announced
  <2> QED
    BY <1>3, <2>1, <2>2 DEF q, al
<1> HIDE DEF b
<1>11. AnnouncedAt(x, n + 9, pps)
  <2>1. b \in Seq(Nat) /\ end \in Seq(Nat)
    BY <1>5, <1>9
  <2>2. AnnouncedAt(x, Len(b), pps)
    BY <2>1, Announced
  <2> QED
    BY <1>9, <2>2
<1> HIDE DEF x
<1>12. 256 * x[7] + x[8] = n /\ SubSeq(x, 9, n + 8) = sps
  <2>1. 6 + 1 = 7 /\ 6 + 2 = 8 /\ 6 + 3 = 9 /\ 6 + n + 2 = n + 8
    BY <1>1
  <2> QED
    BY <1>10, <2>1 DEF AnnouncedAt
<1>13. 256 * x[n + 10] + x[n + 11] = m /\ SubSeq(x, n + 12, n + m + 11) = pps
  <2>1. /\ (n + 9) + 1 = n + 10 /\ (n + 9) + 2 = n + 11 /\ (n + 9) + 3 = n + 12
        /\ (n + 9) + m + 2 = n + m + 11
    BY <1>1
  <2> QED
    BY <1>11, <2>1 DEF AnnouncedAt
<1> HIDE DEF n, m
<1> QED
  BY <1>6, <1>12, <1>13, Zenon DEF TvParameterSets

(***************************************************************************)
(* Reading and putting together, one position after the other.             *)
(***************************************************************************)

\* What holds of zero, and of every number that follows one of which it holds,
\* holds of all.
LEMMA Induct ==
  ASSUME NEW S, 0 \in S, \A n \in Nat : n \in S => n + 1 \in S
  PROVE  Nat \subseteq S
<1> DEFINE R == OpToRel(<, Nat)
           T == Nat \ S
<1>1. IsWellFoundedOn(R, Nat)
  BY NatLessThanWellFounded
<1>2. SUFFICES ASSUME T # {} PROVE FALSE
  OBVIOUS
<1>3. T \subseteq Nat
  OBVIOUS
<1>4. \E x \in T : \A y \in T : ~ (<<y, x>> \in R)
  <2> HIDE DEF R, T
  <2> QED
    BY <1>1, <1>2, <1>3, WFMin
<1>5. PICK x \in T : \A y \in T : ~ (<<y, x>> \in R)
  BY <1>4
<1>6. x \in Nat /\ x # 0 /\ x - 1 \in Nat /\ x - 1 < x
  OBVIOUS
<1>7. <<x - 1, x>> \in R
  BY <1>6 DEF OpToRel
<1>8. x - 1 \in S
  BY <1>5, <1>6, <1>7
<1> QED
  BY <1>6, <1>8

\* f reads a packet of which the positions are 1..N: it ends at a position of
\* stop, goes on at nxt from one of skip, and takes head from any other.
Reads(f, N, stop, skip, head, nxt) ==
  f = [i \in 1..N |-> IF i \in stop THEN <<>>
                      ELSE IF i \in skip THEN f[nxt[i]]
                      ELSE <<head[i]>> \o f[nxt[i]]]

\* There is such a reader when every position is followed by a later one.
LEMMA ReaderExists ==
  ASSUME NEW N \in Nat, NEW stop, NEW skip, NEW head, NEW nxt,
         \A i \in 1..N : i \notin stop => nxt[i] \in i+1..N
  PROVE  \E f : Reads(f, N, stop, skip, head, nxt)
<1> DEFINE Step(f, i) == IF i \in stop THEN <<>>
                         ELSE IF i \in skip THEN f[nxt[i]]
                         ELSE <<head[i]>> \o f[nxt[i]]
           S == {m \in Nat : \E g : \A i \in 1..N : i > N - m => g[i] = Step(g, i)}
<1>1. 0 \in S
  OBVIOUS
<1>2. ASSUME NEW m \in Nat, m \in S
      PROVE  m + 1 \in S
  <2>1. PICK g : \A i \in 1..N : i > N - m => g[i] = Step(g, i)
    BY <1>2
  <2> DEFINE j == N - m
             h == [i \in 1..N |-> IF i = j THEN Step(g, j) ELSE g[i]]
  <2>2. j \in Int
    OBVIOUS
  <2>3. ASSUME NEW i \in 1..N, i >= j
        PROVE  h[i] = Step(h, i)
    <3>1. h[i] = Step(g, i)
      <4>1. CASE i = j
        BY <4>1
      <4>2. CASE i # j
        <5>1. i > N - m
          BY <4>2, <2>3, <2>2
        <5>2. h[i] = g[i] /\ g[i] = Step(g, i)
          BY <4>2, <5>1, <2>1
        <5> QED
          BY <5>2
      <4> QED
        BY <4>1, <4>2
    <3>2. CASE i \in stop
      BY <3>1, <3>2
    <3>3. CASE i \notin stop
      <4>1. nxt[i] \in i+1..N
        BY <3>3
      <4>2. nxt[i] \in 1..N /\ nxt[i] # j
        BY <4>1, <2>2, <2>3
      <4>3. h[nxt[i]] = g[nxt[i]]
        BY <4>2
      <4> QED
        BY <3>1, <3>3, <4>3
    <3> QED
      BY <3>2, <3>3
  <2>4. \A i \in 1..N : i > N - (m + 1) => h[i] = Step(h, i)
    <3> HIDE DEF Step, h
    <3> SUFFICES ASSUME NEW i \in 1..N, i > N - (m + 1) PROVE h[i] = Step(h, i)
      OBVIOUS
    <3>1. i >= j
      OBVIOUS
    <3> QED
      BY <3>1, <2>3
  <2>5. m + 1 \in Nat /\ \E gg : \A i \in 1..N : i > N - (m + 1) => gg[i] = Step(gg, i)
    <3> HIDE DEF Step, h
    <3> QED
      BY <2>4
  <2> QED
    BY <2>5
<1>3. N \in S
  <2> HIDE DEF S
  <2> QED
    BY <1>1, <1>2, Induct
<1>4. PICK g : \A i \in 1..N : i > N - N => g[i] = Step(g, i)
  BY <1>3
<1> DEFINE f == [i \in 1..N |-> g[i]]
<1>5. ASSUME NEW i \in 1..N
      PROVE  f[i] = Step(f, i)
  <2>1. f[i] = Step(g, i)
    BY <1>4
  <2>2. i \notin stop => f[nxt[i]] = g[nxt[i]]
    <3>1. i \notin stop => nxt[i] \in 1..N
      OBVIOUS
    <3> QED
      BY <3>1
  <2> QED
    BY <2>1, <2>2
<1>6. f = [i \in 1..N |-> Step(f, i)]
  <2>1. f = [i \in 1..N |-> f[i]]
    OBVIOUS
  <2> HIDE DEF f, Step
  <2>2. [i \in 1..N |-> f[i]] = [i \in 1..N |-> Step(f, i)]
    BY <1>5
  <2> QED
    BY <2>1, <2>2
<1>7. Reads(f, N, stop, skip, head, nxt)
  <2> HIDE DEF f
  <2> QED
    BY <1>6 DEF Reads
<1> QED
  BY <1>7

\* A reader that goes from the position of each unit to that of the next, and
\* stops behind the last, reads the units.
Path(nals, N, stop, skip, head, nxt, off) ==
  /\ off \in [1..Len(nals) + 1 -> 1..N]
  /\ off[Len(nals) + 1] \in stop
  /\ \A k \in 1..Len(nals) :
       /\ off[k] \notin stop /\ off[k] \notin skip
       /\ head[off[k]] = nals[k] /\ nxt[off[k]] = off[k + 1]

LEMMA ReadsUnits ==
  ASSUME NEW U, NEW nals \in Seq(U), NEW N \in Nat, NEW stop, NEW skip, NEW head, NEW nxt,
         NEW f, Reads(f, N, stop, skip, head, nxt),
         NEW off, Path(nals, N, stop, skip, head, nxt, off)
  PROVE  f[off[1]] = nals
<1> DEFINE n == Len(nals)
           Left(k) == SubSeq(nals, k, n)
           S == {m \in Nat : m <= n => f[off[n + 1 - m]] = Left(n + 1 - m)}
<1>0. /\ off \in [1..n + 1 -> 1..N]
      /\ off[n + 1] \in stop
      /\ \A k \in 1..n :
           /\ off[k] \notin stop /\ off[k] \notin skip
           /\ head[off[k]] = nals[k] /\ nxt[off[k]] = off[k + 1]
  BY DEF Path
<1>1. n \in Nat
  BY LenProperties
<1>2. \A i \in 1..N : f[i] = IF i \in stop THEN <<>>
                             ELSE IF i \in skip THEN f[nxt[i]]
                             ELSE <<head[i]>> \o f[nxt[i]]
  BY DEF Reads
<1>3. 0 \in S
  <2>1. off[n + 1] \in 1..N
    BY <1>0, <1>1
  <2>2. f[off[n + 1]] = <<>>
    BY <2>1, <1>0, <1>2
  <2>3. n + 1 - 0 = n + 1
    BY <1>1
  <2>4. Left(n + 1) = <<>>
    BY <1>1, SubSeqEmpty
  <2> QED
    BY <2>2, <2>3, <2>4
<1>4. ASSUME NEW m \in Nat, m \in S
      PROVE  m + 1 \in S
  <2> HIDE DEF Left
  <2> SUFFICES ASSUME m + 1 <= n
               PROVE  f[off[n + 1 - (m + 1)]] = Left(n + 1 - (m + 1))
    OBVIOUS
  <2> DEFINE k == n - m
  <2>1. /\ k \in 1..n /\ n + 1 - (m + 1) = k /\ n + 1 - m = k + 1 /\ k \in 1..n + 1
    BY <1>1
  <2>2. f[off[k + 1]] = Left(k + 1)
    BY <1>4, <2>1
  <2> HIDE DEF k
  <2>3. /\ off[k] \in 1..N /\ off[k] \notin stop /\ off[k] \notin skip
        /\ head[off[k]] = nals[k] /\ nxt[off[k]] = off[k + 1]
    BY <1>0, <2>1
  <2>4. f[off[k]] = <<nals[k]>> \o f[off[k + 1]]
    BY <2>3, <1>2
  <2>5. Left(k) = <<nals[k]>> \o Left(k + 1)
    <3>1. k \in 1..Len(nals) /\ Len(nals) \in k..Len(nals)
      BY <1>1, <2>1
    <3> QED
      BY <3>1, SubSeqRecursiveFirst DEF Left
  <2> QED
    BY <2>1, <2>2, <2>4, <2>5
<1>5. n \in S
  <2> HIDE DEF S
  <2> QED
    BY <1>1, <1>3, <1>4, Induct
<1>6. n + 1 - n = 1 /\ n <= n
  BY <1>1
<1>7. f[off[1]] = Left(1)
  BY <1>5, <1>6
<1> QED
  BY <1>7, SubSeqFull

\* f puts a sequence together: it begins with base, and each i of T adds part[i].
Builds(f, lo, n, base, T, part) ==
  f = [i \in lo..n |-> IF i = lo THEN base
                       ELSE IF i \in T THEN f[i - 1] \o part[i]
                       ELSE f[i - 1]]

LEMMA BuilderExists ==
  ASSUME NEW lo \in Nat, NEW n \in Nat, NEW base, NEW T, NEW part
  PROVE  \E f : Builds(f, lo, n, base, T, part)
<1> DEFINE Step(f, i) == IF i = lo THEN base
                         ELSE IF i \in T THEN f[i - 1] \o part[i]
                         ELSE f[i - 1]
           S == {m \in Nat : \E g : \A i \in lo..n : i < lo + m => g[i] = Step(g, i)}
<1>1. 0 \in S
  OBVIOUS
<1>2. ASSUME NEW m \in Nat, m \in S
      PROVE  m + 1 \in S
  <2>1. PICK g : \A i \in lo..n : i < lo + m => g[i] = Step(g, i)
    BY <1>2
  <2> DEFINE j == lo + m
             h == [i \in lo..n |-> IF i = j THEN Step(g, j) ELSE g[i]]
  <2>2. j \in Nat
    OBVIOUS
  <2>3. ASSUME NEW i \in lo..n, i <= j
        PROVE  h[i] = Step(h, i)
    <3>1. h[i] = Step(g, i)
      <4>1. CASE i = j
        BY <4>1
      <4>2. CASE i # j
        <5>1. i < lo + m
          BY <4>2, <2>3, <2>2
        <5>2. h[i] = g[i] /\ g[i] = Step(g, i)
          BY <4>2, <5>1, <2>1
        <5> QED
          BY <5>2
      <4> QED
        BY <4>1, <4>2
    <3>2. CASE i = lo
      BY <3>1, <3>2
    <3>3. CASE i # lo
      <4>1. i - 1 \in lo..n /\ i - 1 # j
        BY <2>2, <2>3, <3>3
      <4>2. h[i - 1] = g[i - 1]
        BY <4>1
      <4> QED
        BY <3>1, <3>3, <4>2
    <3> QED
      BY <3>2, <3>3
  <2>4. \A i \in lo..n : i < lo + (m + 1) => h[i] = Step(h, i)
    <3> HIDE DEF Step, h
    <3> SUFFICES ASSUME NEW i \in lo..n, i < lo + (m + 1) PROVE h[i] = Step(h, i)
      OBVIOUS
    <3>1. i <= j
      OBVIOUS
    <3> QED
      BY <3>1, <2>3
  <2>5. m + 1 \in Nat /\ \E gg : \A i \in lo..n : i < lo + (m + 1) => gg[i] = Step(gg, i)
    <3> HIDE DEF Step, h
    <3> QED
      BY <2>4
  <2> QED
    BY <2>5
<1>3. n + 1 \in S
  <2> HIDE DEF S
  <2> QED
    BY <1>1, <1>2, Induct
<1>4. PICK g : \A i \in lo..n : i < lo + (n + 1) => g[i] = Step(g, i)
  BY <1>3
<1> DEFINE f == [i \in lo..n |-> g[i]]
<1>5. ASSUME NEW i \in lo..n
      PROVE  f[i] = Step(f, i)
  <2>1. f[i] = Step(g, i)
    BY <1>4
  <2>2. i # lo => f[i - 1] = g[i - 1]
    <3>1. i # lo => i - 1 \in lo..n
      OBVIOUS
    <3> QED
      BY <3>1
  <2> QED
    BY <2>1, <2>2
<1>6. f = [i \in lo..n |-> Step(f, i)]
  <2>1. f = [i \in lo..n |-> f[i]]
    OBVIOUS
  <2> HIDE DEF f, Step
  <2>2. [i \in lo..n |-> f[i]] = [i \in lo..n |-> Step(f, i)]
    BY <1>5
  <2> QED
    BY <2>1, <2>2
<1>7. Builds(f, lo, n, base, T, part)
  <2> HIDE DEF f
  <2> QED
    BY <1>6 DEF Builds
<1> QED
  BY <1>7

\* What is put together is a sequence, of which every stage is the beginning.
Material(U, lo, n, base, T, part) ==
  base \in Seq(U) /\ \A i \in lo + 1..n : i \in T => part[i] \in Seq(U)

InOrder(U, f, lo, n) ==
  \A k \in lo..n : f[k] \in Seq(U) /\ \E r \in Seq(U) : f[n] = f[k] \o r

LEMMA BuiltInOrder ==
  ASSUME NEW U, NEW lo \in Nat, NEW n \in Nat, NEW base, NEW T, NEW part, NEW f,
         Material(U, lo, n, base, T, part), Builds(f, lo, n, base, T, part)
  PROVE  InOrder(U, f, lo, n)
<1>0. base \in Seq(U) /\ \A i \in lo + 1..n : i \in T => part[i] \in Seq(U)
  BY DEF Material
<1>1. \A i \in lo..n : f[i] = IF i = lo THEN base
                              ELSE IF i \in T THEN f[i - 1] \o part[i]
                              ELSE f[i - 1]
  BY DEF Builds
<1> DEFINE S == {m \in Nat : lo + m <= n => f[lo + m] \in Seq(U)}
<1>2. 0 \in S
  <2>1. lo + 0 = lo /\ (lo + 0 <= n => lo \in lo..n)
    OBVIOUS
  <2> QED
    BY <2>1, <1>0, <1>1
<1>3. ASSUME NEW m \in Nat, m \in S
      PROVE  m + 1 \in S
  <2> SUFFICES ASSUME lo + (m + 1) <= n
               PROVE  f[lo + (m + 1)] \in Seq(U)
    OBVIOUS
  <2> DEFINE i == lo + (m + 1)
  <2>1. i \in lo..n /\ i # lo /\ i - 1 = lo + m /\ lo + m <= n
    OBVIOUS
  <2>2. f[i - 1] \in Seq(U)
    BY <1>3, <2>1
  <2> HIDE DEF i
  <2>3. CASE i \in T
    <3>1. f[i] = f[i - 1] \o part[i] /\ part[i] \in Seq(U)
      <4>1. i \in lo + 1..n
        BY <2>1
      <4> QED
        BY <1>0, <1>1, <2>1, <2>3, <4>1
    <3>2. f[i - 1] \o part[i] \in Seq(U)
      BY <2>2, <3>1, ConcatProperties
    <3> QED
      BY <3>1, <3>2 DEF i
  <2>4. CASE i \notin T
    BY <1>1, <2>1, <2>2, <2>4 DEF i
  <2> QED
    BY <2>3, <2>4
<1>4. ASSUME NEW k \in lo..n
      PROVE  f[k] \in Seq(U)
  <2>1. Nat \subseteq S
    <3> HIDE DEF S
    <3> QED
      BY <1>2, <1>3, Induct
  <2>2. k - lo \in Nat /\ lo + (k - lo) = k /\ k <= n
    OBVIOUS
  <2>3. k - lo \in S
    <3> HIDE DEF S
    <3> QED
      BY <2>1, <2>2
  <2> QED
    BY <2>2, <2>3
<1> DEFINE Begins2(k) == \E r \in Seq(U) : f[n] = f[k] \o r
           D == {m \in Nat : lo <= n - m => Begins2(n - m)}
<1>5. 0 \in D
  <2> SUFFICES ASSUME lo <= n - 0
               PROVE  Begins2(n - 0)
    OBVIOUS
  <2>1. n - 0 = n /\ n \in lo..n
    OBVIOUS
  <2>2. f[n] = f[n] \o <<>> /\ <<>> \in Seq(U)
    BY <2>1, <1>4, ConcatEmptySeq, EmptySeq
  <2> QED
    BY <2>1, <2>2
<1>6. ASSUME NEW m \in Nat, m \in D
      PROVE  m + 1 \in D
  <2> SUFFICES ASSUME lo <= n - (m + 1)
               PROVE  Begins2(n - (m + 1))
    OBVIOUS
  <2> DEFINE i == n - m
  <2>1. i \in lo..n /\ i # lo /\ n - (m + 1) = i - 1 /\ i - 1 \in lo..n /\ lo <= n - m
    OBVIOUS
  <2>2. Begins2(i)
    BY <1>6, <2>1
  <2> HIDE DEF i
  <2>3. PICK r \in Seq(U) : f[n] = f[i] \o r
    BY <2>2
  <2>4. f[i - 1] \in Seq(U)
    BY <2>1, <1>4
  <2>5. CASE i \in T
    <3>1. f[i] = f[i - 1] \o part[i] /\ part[i] \in Seq(U)
      <4>1. i \in lo + 1..n
        BY <2>1
      <4> QED
        BY <1>0, <1>1, <2>1, <2>5, <4>1
    <3>2. (f[i - 1] \o part[i]) \o r = f[i - 1] \o (part[i] \o r)
      <4> DEFINE p == part[i]
                 q == f[i - 1]
      <4>1. q \in Seq(U) /\ p \in Seq(U) /\ r \in Seq(U)
        BY <2>4, <3>1, <2>3
      <4> HIDE DEF p, q
      <4>2. (q \o p) \o r = q \o (p \o r)
        BY <4>1, ConcatAssociative
      <4> QED
        BY <4>2 DEF p, q
    <3>3. part[i] \o r \in Seq(U)
      BY <3>1, <2>3, ConcatProperties
    <3>4. f[n] = f[i - 1] \o (part[i] \o r)
      BY <2>3, <3>1, <3>2
    <3>5. Begins2(i - 1)
      BY <3>3, <3>4
    <3> QED
      BY <3>5, <2>1
  <2>6. CASE i \notin T
    <3>1. f[i] = f[i - 1]
      BY <1>1, <2>1, <2>6
    <3>2. Begins2(i - 1)
      BY <2>3, <3>1
    <3> QED
      BY <3>2, <2>1
  <2> QED
    BY <2>5, <2>6
<1>7. ASSUME NEW k \in lo..n
      PROVE  Begins2(k)
  <2>1. Nat \subseteq D
    <3> HIDE DEF D
    <3> QED
      BY <1>5, <1>6, Induct
  <2>2. n - k \in Nat /\ n - (n - k) = k /\ lo <= n - (n - k)
    OBVIOUS
  <2> HIDE DEF Begins2
  <2>3. n - k \in D
    <3> HIDE DEF D
    <3> QED
      BY <2>1, <2>2
  <2> QED
    BY <2>2, <2>3
<1> QED
  BY <1>4, <1>7 DEF InOrder

\* The part lies in data between a and r.
Between(data, a, part, r) == data = (a \o part) \o r

\* parts lie one behind the other in data, part k from off[k] on.
LaidOut(data, parts, off) ==
  /\ data \in Seq(Nat)
  /\ off \in [1..Len(parts) + 1 -> Nat \ {0}]
  /\ off[1] = 1
  /\ off[Len(parts) + 1] = Len(data) + 1
  /\ \A k \in 1..Len(parts) :
       /\ off[k + 1] = off[k] + Len(parts[k])
       /\ \E a \in Seq(Nat), r \in Seq(Nat) :
            Len(a) + 1 = off[k] /\ Between(data, a, parts[k], r)

LEMMA Flattened ==
  ASSUME NEW parts \in Seq(Seq(Nat))
  PROVE  \E off : LaidOut(FlattenSeq(parts), parts, off)
<1> DEFINE n == Len(parts)
           data == FlattenSeq(parts)
<1>1. n \in Nat /\ \A k \in 1..n : parts[k] \in Seq(Nat)
  BY LenProperties, ElementOfSeq
<1>2. CASE n = 0
  <2> DEFINE off == [k \in 1..1 |-> 1]
  <2>1. data = parts /\ parts = <<>>
    BY <1>2, EmptySeq DEF FlattenSeq
  <2>2. data \in Seq(Nat) /\ Len(data) = 0
    BY <2>1, <1>2
  <2>3. off[1] = 1 /\ off \in [1..1 -> Nat \ {0}]
    OBVIOUS
  <2> HIDE DEF off, data
  <2>4. LaidOut(data, parts, off)
    BY <1>2, <2>2, <2>3 DEF LaidOut
  <2> QED
    BY <2>4 DEF data
<1>3. CASE n # 0
  <2> DEFINE f == CHOOSE f : f = [i \in 1..n |-> IF i = 1 THEN parts[i] ELSE f[i - 1] \o parts[i]]
             off == [k \in 1..n + 1 |-> IF k = 1 THEN 1 ELSE Len(f[k - 1]) + 1]
  <2>1. data = f[n]
    BY <1>3 DEF FlattenSeq
  <2>2. f = [i \in 1..n |-> IF i = 1 THEN parts[i] ELSE f[i - 1] \o parts[i]]
    <3>1. PICK g : Builds(g, 1, n, parts[1], 1..n, parts)
      BY <1>1, BuilderExists
    <3>2. g = [i \in 1..n |-> IF i = 1 THEN parts[i] ELSE g[i - 1] \o parts[i]]
      BY <3>1 DEF Builds
    <3> QED
      BY <3>2
  <2> HIDE DEF f
  <2>3. Builds(f, 1, n, parts[1], 1..n, parts)
    BY <2>2 DEF Builds
  <2>4. \A i \in 1..n : f[i] = IF i = 1 THEN parts[i] ELSE f[i - 1] \o parts[i]
    BY <2>2
  <2>5. \A k \in 1..n : f[k] \in Seq(Nat) /\ \E r \in Seq(Nat) : f[n] = f[k] \o r
    <3>1. parts[1] \in Seq(Nat) /\ \A i \in 1..n : i \in 1..n => parts[i] \in Seq(Nat)
      BY <1>1, <1>3
    <3>2. Material(Nat, 1, n, parts[1], 1..n, parts)
      BY <3>1 DEF Material
    <3>3. InOrder(Nat, f, 1, n)
      <4> HIDE DEF n
      <4> QED
        BY <1>1, <2>3, <3>2, BuiltInOrder
    <3> QED
      BY <3>3 DEF InOrder
  <2>6. \A k \in 1..n : Len(f[k]) \in Nat
    BY <2>5, LenProperties
  <2>7. /\ off \in [1..n + 1 -> Nat \ {0}]
        /\ off[1] = 1
        /\ \A k \in 1..n : off[k + 1] = Len(f[k]) + 1
    <3>1. ASSUME NEW k \in 1..n + 1
          PROVE  off[k] \in Nat \ {0}
      <4>1. CASE k = 1
        BY <4>1
      <4>2. CASE k # 1
        <5>1. k - 1 \in 1..n /\ off[k] = Len(f[k - 1]) + 1
          BY <4>2, <1>1
        <5> QED
          BY <5>1, <2>6
      <4> QED
        BY <4>1, <4>2
    <3>2. ASSUME NEW k \in 1..n
          PROVE  off[k + 1] = Len(f[k]) + 1
      <4>1. k + 1 \in 1..n + 1 /\ k + 1 # 1 /\ (k + 1) - 1 = k
        BY <1>1
      <4> QED
        BY <4>1
    <3>3. 1 \in 1..n + 1
      BY <1>1
    <3> QED
      BY <3>1, <3>2, <3>3
  <2> HIDE DEF off, data
  <2>8. data \in Seq(Nat) /\ off[n + 1] = Len(data) + 1
    <3>1. n \in 1..n
      BY <1>1, <1>3
    <3> QED
      BY <2>1, <2>5, <2>7, <3>1
  <2>9. ASSUME NEW k \in 1..n
        PROVE  /\ off[k + 1] = off[k] + Len(parts[k])
               /\ \E a \in Seq(Nat), r \in Seq(Nat) :
                    Len(a) + 1 = off[k] /\ Between(data, a, parts[k], r)
    <3>1. PICK r \in Seq(Nat) : data = f[k] \o r
      BY <2>1, <2>5
    <3>2. parts[k] \in Seq(Nat)
      BY <1>1
    <3>3. \E a \in Seq(Nat) : f[k] = a \o parts[k] /\ off[k] = Len(a) + 1
      <4>1. CASE k = 1
        <5>1. f[k] = parts[k]
          BY <4>1, <2>4
        <5>2. f[k] = <<>> \o parts[k] /\ <<>> \in Seq(Nat) /\ Len(<<>>) = 0
          BY <5>1, <3>2, ConcatEmptySeq, EmptySeq
        <5>3. off[k] = Len(<<>>) + 1
          BY <4>1, <5>2, <2>7
        <5> QED
          BY <5>2, <5>3
      <4>2. CASE k # 1
        <5>1. k - 1 \in 1..n /\ (k - 1) + 1 = k
          BY <4>2, <1>1
        <5>2. f[k] = f[k - 1] \o parts[k]
          BY <4>2, <2>4
        <5>3. f[k - 1] \in Seq(Nat) /\ off[k] = Len(f[k - 1]) + 1
          BY <5>1, <2>5, <2>7
        <5> QED
          BY <5>2, <5>3
      <4> QED
        BY <4>1, <4>2
    <3>4. PICK a \in Seq(Nat) : f[k] = a \o parts[k] /\ off[k] = Len(a) + 1
      BY <3>3
    <3>5. Len(f[k]) = Len(a) + Len(parts[k])
      BY <3>2, <3>4, Joined
    <3>6. Len(a) \in Nat /\ Len(parts[k]) \in Nat
      BY <3>2, LenProperties
    <3>7. off[k + 1] = off[k] + Len(parts[k])
      <4>1. off[k + 1] = Len(f[k]) + 1
        BY <2>7
      <4>2. off[k] = Len(a) + 1
        BY <3>4
      <4> DEFINE x == Len(a)
                 y == Len(parts[k])
      <4>3. x \in Nat /\ y \in Nat /\ Len(f[k]) = x + y /\ off[k] = x + 1
        BY <4>2, <3>5, <3>6
      <4> HIDE DEF x, y
      <4>4. (x + y) + 1 = (x + 1) + y
        BY <4>3
      <4>5. off[k + 1] = off[k] + y
        BY <4>1, <4>3, <4>4
      <4> QED
        BY <4>5 DEF y
    <3> QED
      BY <3>1, <3>4, <3>7 DEF Between
  <2>10. LaidOut(data, parts, off)
    BY <2>7, <2>8, <2>9 DEF LaidOut
  <2> QED
    BY <2>10 DEF data
<1> QED
  BY <1>1, <1>2, <1>3

(***************************************************************************)
(* Units behind their lengths.                                             *)
(***************************************************************************)

\* A length of four bytes and what it announces, behind a and in front of r.
LEMMA PrefixedAt ==
  ASSUME NEW a \in Seq(Nat), NEW s \in Seq(Nat), NEW r \in Seq(Nat), NEW x,
         Between(x, a, Length32(s) \o s, r)
  PROVE  /\ x[Len(a) + 1] = 0 /\ x[Len(a) + 2] = 0
         /\ AnnouncedAt(x, Len(a) + 2, s)
         /\ Len(x) = Len(a) + 4 + Len(s) + Len(r)
<1> DEFINE z == <<0, 0>>
           p == Length16(s)
           az == a \o z
           azp == az \o p
           azps == azp \o s
<1>1. z \in Seq(Nat) /\ Len(z) = 2 /\ z[1] = 0 /\ z[2] = 0
  OBVIOUS
<1>2. p \in Seq(Nat) /\ Len(p) = 2
  BY TwoBytes, LenProperties DEF Length16
<1>3. Length32(s) = z \o p
  BY DEF Length32
<1> HIDE DEF z, p
<1>4. az \in Seq(Nat) /\ Len(az) = Len(a) + 2
  <2>1. z \in Seq(Nat)
    BY <1>1
  <2>2. az \in Seq(Nat) /\ Len(az) = Len(a) + Len(z)
    BY <2>1, Joined
  <2> QED
    BY <2>2, <1>1
<1> HIDE DEF az
<1>5. azp \in Seq(Nat) /\ Len(azp) = Len(a) + 2 + 2
  <2>1. azp \in Seq(Nat) /\ Len(azp) = Len(az) + Len(p)
    BY <1>2, <1>4, Joined
  <2> QED
    BY <2>1, <1>2, <1>4
<1> HIDE DEF azp
<1>6. azps \in Seq(Nat) /\ Len(azps) = Len(azp) + Len(s)
  BY <1>5, Joined
<1> HIDE DEF azps
<1>7. a \o (Length32(s) \o s) = azps
  <2>1. p \o s \in Seq(Nat) /\ (z \o p) \o s = z \o (p \o s)
    <3>1. p \in Seq(Nat) /\ z \in Seq(Nat)
      BY <1>1, <1>2
    <3>2. p \o s \in Seq(Nat)
      BY <3>1, Joined
    <3>3. (z \o p) \o s = z \o (p \o s)
      BY <3>1, Regrouped
    <3> QED
      BY <3>2, <3>3
  <2> DEFINE ps == p \o s
  <2> HIDE DEF ps
  <2>2. ps \in Seq(Nat)
    BY <2>1 DEF ps
  <2>3. (a \o z) \o ps = a \o (z \o ps)
    BY <1>1, <2>2, Regrouped
  <2>4. (az \o p) \o s = az \o (p \o s)
    BY <1>4, <1>2, Regrouped
  <2> QED
    BY <1>3, <2>1, <2>3, <2>4 DEF azps, azp, az, ps
<1>8. x = azps \o r
  BY <1>7 DEF Between
<1>9. Len(x) = Len(azps) + Len(r)
  BY <1>6, <1>8, Joined
<1>10. Len(a) \in Nat /\ Len(s) \in Nat /\ Len(r) \in Nat
  BY LenProperties
<1>11. AnnouncedAt(x, Len(a) + 2, s)
  <2>1. AnnouncedAt(((az \o Length16(s)) \o s) \o r, Len(az), s)
    BY <1>4, Announced
  <2> QED
    BY <2>1, <1>4, <1>8 DEF azps, azp, p
<1>12. ASSUME NEW i \in 1..2
       PROVE  x[Len(a) + i] = 0
  <2>1. x = az \o (p \o (s \o r))
    <3> DEFINE sr == s \o r
    <3>1. sr \in Seq(Nat)
      BY Joined
    <3>2. (azp \o s) \o r = azp \o (s \o r)
      BY <1>5, Regrouped
    <3> HIDE DEF sr
    <3>3. (az \o p) \o sr = az \o (p \o sr)
      BY <1>2, <1>4, <3>1, Regrouped
    <3> QED
      BY <1>8, <3>2, <3>3 DEF azps, azp, sr
  <2>2. p \o (s \o r) \in Seq(Nat)
    <3>1. s \o r \in Seq(Nat)
      BY Joined
    <3> QED
      BY <3>1, <1>2, Joined
  <2>3. Len(a) + i \in 1..Len(az)
    BY <1>4, <1>10
  <2>4. x[Len(a) + i] = az[Len(a) + i]
    <3> DEFINE q == p \o (s \o r)
               j == Len(a) + i
    <3>1. q \in Seq(Nat) /\ j \in 1..Len(az) /\ x = az \o q
      BY <2>1, <2>2, <2>3
    <3> HIDE DEF q, j
    <3>2. (az \o q)[j] = az[j]
      BY <1>4, <3>1, StaysInFront
    <3> QED
      BY <3>1, <3>2 DEF j
  <2>5. az[Len(a) + i] = z[i]
    <3>1. \A j \in 1..Len(a) + Len(z) : az[j] = IF j <= Len(a) THEN a[j] ELSE z[j - Len(a)]
      BY <1>1, ConcatProperties DEF az
    <3>2. Len(a) + i \in 1..Len(a) + Len(z) /\ ~(Len(a) + i <= Len(a)) /\ (Len(a) + i) - Len(a) = i
      BY <1>1, <1>10
    <3> QED
      BY <3>1, <3>2
  <2> QED
    BY <2>4, <2>5, <1>1
<1>13. Len(x) = Len(a) + 4 + Len(s) + Len(r)
  BY <1>5, <1>6, <1>9, <1>10
<1>14. x[Len(a) + 1] = 0 /\ x[Len(a) + 2] = 0
  <2>1. 1 \in 1..2 /\ 2 \in 1..2
    OBVIOUS
  <2> QED
    BY <2>1, <1>12
<1> QED
  BY <1>11, <1>13, <1>14

\* The units lie in data, each behind its length, unit k from off[k] on.
Prefixed(data, nals, off) ==
  /\ data \in Seq(Nat)
  /\ off \in [1..Len(nals) + 1 -> 1..Len(data) + 1]
  /\ off[1] = 1
  /\ off[Len(nals) + 1] = Len(data) + 1
  /\ \A k \in 1..Len(nals) :
       /\ off[k] + 3 <= Len(data)
       /\ data[off[k]] = 0 /\ data[off[k] + 1] = 0
       /\ 256 * data[off[k] + 2] + data[off[k] + 3] = Len(nals[k])
       /\ off[k + 1] = off[k] + 4 + Len(nals[k])
       /\ SubSeq(data, off[k] + 4, off[k + 1] - 1) = nals[k]

LEMMA AvccPrefixed ==
  ASSUME NEW nals \in Seq(Seq(Nat))
  PROVE  \E off : Prefixed(NalsToAvcc(nals), nals, off)
<1> DEFINE n == Len(nals)
           parts == [k \in DOMAIN nals |-> Length32(nals[k]) \o nals[k]]
           data == NalsToAvcc(nals)
<1>1. n \in Nat /\ DOMAIN nals = 1..n /\ \A k \in 1..n : nals[k] \in Seq(Nat)
  BY LenProperties, ElementOfSeq
<1>2. ASSUME NEW s \in Seq(Nat)
      PROVE  /\ Length32(s) \o s \in Seq(Nat)
             /\ Len(Length32(s) \o s) = 4 + Len(s)
  <2>1. Length32(s) \in Seq(Nat) /\ Len(Length32(s)) = 4
    <3>1. Len(s) \div 256 \in Nat /\ Len(s) % 256 \in Nat
      BY TwoBytes, LenProperties
    <3>2. Length16(s) \in Seq(Nat) /\ Len(Length16(s)) = 2
      BY <3>1 DEF Length16
    <3>3. <<0, 0>> \in Seq(Nat) /\ Len(<<0, 0>>) = 2
      OBVIOUS
    <3> QED
      <4> DEFINE z == <<0, 0>>
                 p == Length16(s)
      <4> HIDE DEF z, p
      <4>1. z \o p \in Seq(Nat) /\ Len(z \o p) = Len(z) + Len(p)
        <5>1. z \in Seq(Nat) /\ p \in Seq(Nat)
          BY <3>2, <3>3 DEF z, p
        <5> QED
          BY <5>1, Joined
      <4>2. Len(z) = 2 /\ Len(p) = 2
        BY <3>2, <3>3 DEF z, p
      <4>3. Length32(s) = z \o p
        BY DEF Length32, z, p
      <4> QED
        BY <4>1, <4>2, <4>3
  <2> QED
    BY <2>1, Joined
<1>3. parts \in Seq(Seq(Nat)) /\ Len(parts) = n /\ DOMAIN parts = 1..n
  <2>1. parts = [k \in 1..n |-> Length32(nals[k]) \o nals[k]]
    BY <1>1
  <2>2. \A k \in 1..n : Length32(nals[k]) \o nals[k] \in Seq(Nat)
    BY <1>1, <1>2
  <2> HIDE DEF n
  <2> QED
    BY <1>1, <2>1, <2>2
<1>4. data = FlattenSeq(parts)
  BY DEF NalsToAvcc
<1>5. \A k \in 1..n : parts[k] = Length32(nals[k]) \o nals[k]
  BY <1>1
<1> HIDE DEF parts, data
<1>6. PICK off : LaidOut(data, parts, off)
  BY <1>3, <1>4, Flattened
<1>7. /\ data \in Seq(Nat) /\ Len(data) \in Nat
      /\ off \in [1..n + 1 -> Nat \ {0}]
      /\ off[1] = 1 /\ off[n + 1] = Len(data) + 1
      /\ \A k \in 1..n :
           /\ off[k + 1] = off[k] + Len(parts[k])
           /\ \E a \in Seq(Nat), r \in Seq(Nat) :
                Len(a) + 1 = off[k] /\ Between(data, a, parts[k], r)
  BY <1>3, <1>6, LenProperties DEF LaidOut
<1>8. ASSUME NEW k \in 1..n
      PROVE  /\ off[k] + 3 <= Len(data)
             /\ data[off[k]] = 0 /\ data[off[k] + 1] = 0
             /\ 256 * data[off[k] + 2] + data[off[k] + 3] = Len(nals[k])
             /\ off[k + 1] = off[k] + 4 + Len(nals[k])
             /\ SubSeq(data, off[k] + 4, off[k + 1] - 1) = nals[k]
  <2> DEFINE s == nals[k]
             i == off[k]
  <2>1. PICK a \in Seq(Nat), r \in Seq(Nat) : Len(a) + 1 = i /\ Between(data, a, parts[k], r)
    BY <1>7
  <2>2. s \in Seq(Nat) /\ parts[k] = Length32(s) \o s
    BY <1>1, <1>5
  <2>3. Between(data, a, Length32(s) \o s, r)
    BY <2>1, <2>2
  <2>4. Len(a) \in Nat /\ Len(s) \in Nat /\ Len(r) \in Nat
    BY <2>2, LenProperties
  <2>5. off[k + 1] = i + (4 + Len(s))
    <3>1. Len(parts[k]) = 4 + Len(s)
      BY <2>2, <1>2
    <3> QED
      BY <3>1, <1>7
  <2> HIDE DEF s, i
  <2>6. /\ data[Len(a) + 1] = 0 /\ data[Len(a) + 2] = 0
        /\ AnnouncedAt(data, Len(a) + 2, s)
        /\ Len(data) = Len(a) + 4 + Len(s) + Len(r)
    BY <2>2, <2>3, PrefixedAt
  <2>7. /\ 256 * data[(Len(a) + 2) + 1] + data[(Len(a) + 2) + 2] = Len(s)
        /\ SubSeq(data, (Len(a) + 2) + 3, (Len(a) + 2) + Len(s) + 2) = s
    BY <2>6 DEF AnnouncedAt
  <2>8. /\ (Len(a) + 2) + 1 = i + 2 /\ (Len(a) + 2) + 2 = i + 3 /\ (Len(a) + 2) + 3 = i + 4
        /\ Len(a) + 2 = i + 1 /\ i \in Nat
        /\ (Len(a) + 2) + Len(s) + 2 = off[k + 1] - 1
        /\ off[k + 1] = i + 4 + Len(s)
        /\ i + 3 <= Len(data)
    <3>1. i \in Nat /\ i = Len(a) + 1 /\ off[k + 1] = i + 4 + Len(s)
      <4>1. i = Len(a) + 1
        BY <2>1
      <4>2. i \in Nat
        BY <4>1, <2>4
      <4>3. i + (4 + Len(s)) = i + 4 + Len(s)
        BY <4>2, <2>4
      <4> QED
        BY <2>5, <4>1, <4>2, <4>3
    <3>2. i + 3 <= Len(data)
      BY <3>1, <2>4, <2>6
    <3> QED
      BY <3>1, <3>2, <2>4
  <2>9. /\ i + 3 <= Len(data)
        /\ data[i] = 0 /\ data[i + 1] = 0
        /\ 256 * data[i + 2] + data[i + 3] = Len(s)
        /\ off[k + 1] = i + 4 + Len(s)
        /\ SubSeq(data, i + 4, off[k + 1] - 1) = s
    BY <2>1, <2>6, <2>7, <2>8
  <2> QED
    BY <2>9 DEF s, i
<1>9. off \in [1..n + 1 -> 1..Len(data) + 1]
  <2>1. ASSUME NEW k \in 1..n + 1
        PROVE  off[k] \in 1..Len(data) + 1
    <3>1. off[k] \in Nat \ {0}
      BY <1>7
    <3>2. CASE k = n + 1
      BY <3>1, <3>2, <1>7
    <3>3. CASE k # n + 1
      <4>1. k \in 1..n
        BY <3>3, <1>1
      <4>2. off[k] + 3 <= Len(data)
        BY <4>1, <1>8
      <4> QED
        BY <3>1, <4>2, <1>7
    <3> QED
      BY <3>2, <3>3
  <2> QED
    BY <2>1, <1>7
<1>10. Prefixed(data, nals, off)
  <2> HIDE DEF n
  <2> QED
    BY <1>7, <1>8, <1>9 DEF Prefixed, n
<1> QED
  BY <1>10 DEF data

\* Units behind their lengths are found by them (the TV).
LEMMA TvReads ==
  ASSUME NEW nals \in Seq(Seq(Nat)), NEW data, NEW off, Prefixed(data, nals, off)
  PROVE  TvUnits(data) = nals
<1> DEFINE N == Len(data) + 1
           End(i) == i + 4 + 256 * data[i + 2] + data[i + 3]
           Body(f, i) == IF i + 3 > Len(data) THEN <<>>
                         ELSE IF End(i) > N THEN <<>>
                         ELSE <<SubSeq(data, i + 4, End(i) - 1)>> \o f[End(i)]
           stop == {i \in 1..N : i + 3 > Len(data) \/ End(i) > N}
           head == [i \in 1..N |-> SubSeq(data, i + 4, End(i) - 1)]
           nxt == [i \in 1..N |-> End(i)]
           from == CHOOSE f : f = [i \in 1..N |-> Body(f, i)]
<1>1. /\ data \in Seq(Nat) /\ Len(data) \in Nat /\ N \in Nat
      /\ \A i \in 1..Len(data) : data[i] \in Nat
  BY LenProperties, ElementOfSeq DEF Prefixed
<1>2. TvUnits(data) = from[1]
  BY DEF TvUnits
<1>3. \A f, i : i \in 1..N =>
        Body(f, i) = IF i \in stop THEN <<>>
                     ELSE IF i \in {} THEN f[nxt[i]]
                     ELSE <<head[i]>> \o f[nxt[i]]
  <2> SUFFICES ASSUME NEW f, NEW i \in 1..N
               PROVE  Body(f, i) = IF i \in stop THEN <<>>
                                   ELSE <<head[i]>> \o f[nxt[i]]
    OBVIOUS
  <2>1. nxt[i] = End(i) /\ head[i] = SubSeq(data, i + 4, End(i) - 1)
    OBVIOUS
  <2>2. i \in stop <=> (i + 3 > Len(data) \/ End(i) > N)
    OBVIOUS
  <2> HIDE DEF stop, head, nxt, End
  <2> QED
    BY <2>1, <2>2
<1>4. \A i \in 1..N : i \notin stop => nxt[i] \in i+1..N
  <2> SUFFICES ASSUME NEW i \in 1..N, i \notin stop
               PROVE  End(i) \in i+1..N
    OBVIOUS
  <2>1. i + 3 <= Len(data) /\ End(i) <= N
    BY <1>1
  <2>2. data[i + 2] \in Nat /\ data[i + 3] \in Nat
    BY <1>1, <2>1
  <2> DEFINE x == 256 * data[i + 2]
             y == data[i + 3]
  <2>3. x \in Nat /\ y \in Nat /\ End(i) = i + 4 + x + y
    BY <2>2
  <2> HIDE DEF x, y, End
  <2> QED
    BY <1>1, <2>1, <2>3
<1> HIDE DEF Body, stop, head, nxt, N
<1>5. \A f : f = [i \in 1..N |-> Body(f, i)] <=> Reads(f, N, stop, {}, head, nxt)
  BY <1>3 DEF Reads
<1>6. \E f : Reads(f, N, stop, {}, head, nxt)
  BY <1>1, <1>4, ReaderExists
<1>7. Reads(from, N, stop, {}, head, nxt)
  BY <1>5, <1>6
<1> HIDE DEF from
<1> DEFINE n == Len(nals)
<1>8. n \in Nat
  BY LenProperties
<1>9. off \in [1..n + 1 -> 1..N] /\ off[1] = 1 /\ off[n + 1] = N
  BY DEF Prefixed, N
<1>10. off[n + 1] \in stop
  BY <1>1, <1>9 DEF stop, N
<1>11. ASSUME NEW k \in 1..n
       PROVE  /\ off[k] \notin stop /\ off[k] \notin {}
              /\ head[off[k]] = nals[k] /\ nxt[off[k]] = off[k + 1]
  <2> DEFINE i == off[k]
             e == off[k + 1]
  <2>1. /\ i \in 1..N /\ e \in 1..N
    <3>1. k \in 1..n + 1 /\ k + 1 \in 1..n + 1
      BY <1>8
    <3> HIDE DEF n
    <3> QED
      BY <3>1, <1>9
  <2>2. /\ i + 3 <= Len(data)
        /\ 256 * data[i + 2] + data[i + 3] = Len(nals[k])
        /\ e = i + 4 + Len(nals[k])
        /\ SubSeq(data, i + 4, e - 1) = nals[k]
    BY DEF Prefixed
  <2> HIDE DEF i, e
  <2>3. data[i + 2] \in Nat /\ data[i + 3] \in Nat
    BY <1>1, <2>1, <2>2
  <2>4. End(i) = e
    <3> DEFINE x == 256 * data[i + 2]
    <3>1. x \in Nat /\ i \in Nat
      BY <2>1, <2>3
    <3>2. i + 4 + x + data[i + 3] = i + 4 + (x + data[i + 3])
      <4> HIDE DEF x
      <4> QED
        BY <3>1, <2>3
    <3> QED
      BY <3>2, <2>2
  <2> HIDE DEF End
  <2>5. nxt[i] = e /\ head[i] = nals[k]
    BY <2>1, <2>2, <2>4 DEF nxt, head
  <2>6. i \notin stop
    <3>1. i \in stop => i + 3 > Len(data) \/ e > N
      BY <2>4 DEF stop
    <3>2. e <= N /\ i \in Nat /\ e \in Nat
      BY <1>1, <2>1
    <3>3. ~(e > N)
      BY <1>1, <3>2
    <3>4. ~(i + 3 > Len(data))
      BY <1>1, <2>2, <3>2
    <3> QED
      BY <3>1, <3>3, <3>4
  <2> QED
    BY <2>5, <2>6 DEF i, e
<1>12. from[off[1]] = nals
  <2>1. Path(nals, N, stop, {}, head, nxt, off)
    BY <1>9, <1>10, <1>11 DEF Path
  <2> QED
    BY <1>1, <1>7, <2>1, ReadsUnits
<1> QED
  BY <1>2, <1>9, <1>12

\* split_length_prefixed as a reader: where it ends, what it takes, where it goes on.
PrefixedEnd(data, i) == i + 4 + LengthAt(data, i)
PrefixedStop(data) ==
  {i \in 1..Len(data) + 1 :
     i + 3 > Len(data) \/ LengthAt(data, i) = 0 \/ PrefixedEnd(data, i) > Len(data) + 1}
PrefixedHead(data) ==
  [i \in 1..Len(data) + 1 |-> SubSeq(data, i + 4, PrefixedEnd(data, i) - 1)]
PrefixedNext(data) == [i \in 1..Len(data) + 1 |-> PrefixedEnd(data, i)]

LEMMA SplitPrefixedIs ==
  ASSUME NEW data \in Seq(Nat)
  PROVE  \E f : /\ SplitPrefixed(data) = f[1]
                /\ Reads(f, Len(data) + 1, PrefixedStop(data), {},
                         PrefixedHead(data), PrefixedNext(data))
<1> DEFINE N == Len(data) + 1
           End(i) == PrefixedEnd(data, i)
           Body(f, i) == IF i + 3 > Len(data) THEN <<>>
                         ELSE IF LengthAt(data, i) = 0 \/ End(i) > N THEN <<>>
                         ELSE <<SubSeq(data, i + 4, End(i) - 1)>> \o f[End(i)]
           stop == PrefixedStop(data)
           head == PrefixedHead(data)
           nxt == PrefixedNext(data)
           from == CHOOSE f : f = [i \in 1..N |-> Body(f, i)]
<1>1. /\ data \in Seq(Nat) /\ Len(data) \in Nat /\ N \in Nat
      /\ \A i \in 1..Len(data) : data[i] \in Nat
  BY LenProperties, ElementOfSeq
<1>2. SplitPrefixed(data) = from[1]
  BY DEF SplitPrefixed, PrefixedEnd
<1>3. \A f, i : i \in 1..N =>
        Body(f, i) = IF i \in stop THEN <<>>
                     ELSE IF i \in {} THEN f[nxt[i]]
                     ELSE <<head[i]>> \o f[nxt[i]]
  <2> SUFFICES ASSUME NEW f, NEW i \in 1..N
               PROVE  Body(f, i) = IF i \in stop THEN <<>>
                                   ELSE <<head[i]>> \o f[nxt[i]]
    OBVIOUS
  <2>1. nxt[i] = End(i) /\ head[i] = SubSeq(data, i + 4, End(i) - 1)
    BY DEF PrefixedNext, PrefixedHead
  <2>2. i \in stop <=> (i + 3 > Len(data) \/ LengthAt(data, i) = 0 \/ End(i) > N)
    BY DEF PrefixedStop
  <2> HIDE DEF stop, head, nxt, End
  <2> QED
    BY <2>1, <2>2
<1>4. \A i \in 1..N : i \notin stop => nxt[i] \in i+1..N
  <2> SUFFICES ASSUME NEW i \in 1..N, i \notin stop
               PROVE  End(i) \in i+1..N
    BY DEF PrefixedNext
  <2>0. ~(i + 3 > Len(data) \/ LengthAt(data, i) = 0 \/ End(i) > N)
    BY DEF PrefixedStop
  <2>1. i + 3 <= Len(data)
    <3> HIDE DEF stop, End
    <3> QED
      BY <1>1, <2>0
  <2>2. LengthAt(data, i) \in Nat
    <3> DEFINE x == 256 * data[i + 2]
               y == data[i + 3]
    <3>1. data[i + 2] \in Nat /\ data[i + 3] \in Nat
      BY <1>1, <2>1
    <3>2. x \in Nat /\ y \in Nat /\ LengthAt(data, i) \in {x + y, Len(data)}
      BY <3>1 DEF LengthAt
    <3> HIDE DEF x, y
    <3> QED
      BY <3>2, <1>1
  <2>3. i \in Nat /\ LengthAt(data, i) > 0 /\ End(i) = i + 4 + LengthAt(data, i)
    <3>1. End(i) = i + 4 + LengthAt(data, i)
      BY DEF PrefixedEnd
    <3> HIDE DEF stop, End
    <3> QED
      BY <1>1, <2>0, <2>2, <3>1
  <2> HIDE DEF stop, End
  <2> QED
    BY <1>1, <2>0, <2>2, <2>3
<1> HIDE DEF Body, stop, head, nxt, N
<1>5. \A f : f = [i \in 1..N |-> Body(f, i)] <=> Reads(f, N, stop, {}, head, nxt)
  BY <1>3 DEF Reads
<1>6. \E f : Reads(f, N, stop, {}, head, nxt)
  BY <1>1, <1>4, ReaderExists
<1>7. Reads(from, N, stop, {}, head, nxt)
  BY <1>5, <1>6
<1> HIDE DEF from
<1> QED
  BY <1>2, <1>7 DEF stop, head, nxt, N

\* Units behind their lengths are found by them (split_length_prefixed), when
\* none is empty.
LEMMA SplitsPrefixed ==
  ASSUME NEW nals \in Seq(Seq(Nat)), NEW data, NEW off, Prefixed(data, nals, off),
         \A k \in 1..Len(nals) : Len(nals[k]) # 0
  PROVE  SplitPrefixed(data) = nals
<1> DEFINE N == Len(data) + 1
           End(i) == PrefixedEnd(data, i)
           stop == PrefixedStop(data)
           head == PrefixedHead(data)
           nxt == PrefixedNext(data)
<1>1. /\ data \in Seq(Nat) /\ Len(data) \in Nat /\ N \in Nat
  BY LenProperties DEF Prefixed
<1>2. PICK from : SplitPrefixed(data) = from[1] /\ Reads(from, N, stop, {}, head, nxt)
  BY <1>1, SplitPrefixedIs
<1>7. Reads(from, N, stop, {}, head, nxt)
  BY <1>2
<1> HIDE DEF stop, head, nxt, N
<1> DEFINE n == Len(nals)
<1>8. n \in Nat
  BY LenProperties
<1>9. off \in [1..n + 1 -> 1..N] /\ off[1] = 1 /\ off[n + 1] = N
  BY DEF Prefixed, N
<1>10. off[n + 1] \in stop
  BY <1>1, <1>9 DEF stop, N, PrefixedStop
<1>11. ASSUME NEW k \in 1..n
       PROVE  /\ off[k] \notin stop /\ off[k] \notin {}
              /\ head[off[k]] = nals[k] /\ nxt[off[k]] = off[k + 1]
  <2> DEFINE i == off[k]
             e == off[k + 1]
  <2>1. /\ i \in 1..N /\ e \in 1..N
    <3>1. k \in 1..n + 1 /\ k + 1 \in 1..n + 1
      BY <1>8
    <3> HIDE DEF n
    <3> QED
      BY <3>1, <1>9
  <2>2. /\ i + 3 <= Len(data)
        /\ data[i] = 0 /\ data[i + 1] = 0
        /\ 256 * data[i + 2] + data[i + 3] = Len(nals[k])
        /\ e = i + 4 + Len(nals[k])
        /\ SubSeq(data, i + 4, e - 1) = nals[k]
    BY DEF Prefixed
  <2> HIDE DEF i, e
  <2>3. LengthAt(data, i) = Len(nals[k])
    BY <2>2 DEF LengthAt
  <2>4. End(i) = e /\ LengthAt(data, i) # 0
    BY <2>2, <2>3 DEF PrefixedEnd
  <2> HIDE DEF End
  <2>5. nxt[i] = e /\ head[i] = nals[k]
    BY <2>1, <2>2, <2>4 DEF nxt, head, N, End, PrefixedNext, PrefixedHead
  <2>6. i \notin stop
    <3>1. i \in stop => i + 3 > Len(data) \/ e > N
      BY <2>4 DEF stop, N, End, PrefixedStop
    <3>2. e <= N /\ i \in Nat /\ e \in Nat
      BY <1>1, <2>1
    <3>3. ~(e > N)
      BY <1>1, <3>2
    <3>4. ~(i + 3 > Len(data))
      BY <1>1, <2>2, <3>2
    <3> QED
      BY <3>1, <3>3, <3>4
  <2> QED
    BY <2>5, <2>6 DEF i, e
<1>12. from[off[1]] = nals
  <2>1. Path(nals, N, stop, {}, head, nxt, off)
    BY <1>9, <1>10, <1>11 DEF Path
  <2> QED
    BY <1>1, <1>7, <2>1, ReadsUnits
<1> QED
  BY <1>2, <1>9, <1>12

(***************************************************************************)
(* Units behind start codes.                                               *)
(***************************************************************************)

\* Min finds the least of a set of numbers.
LEMMA Least ==
  ASSUME NEW S \in SUBSET Nat, S # {}
  PROVE  Min(S) \in S /\ \A y \in S : Min(S) <= y
<1> DEFINE R == OpToRel(<, Nat)
<1>1. IsWellFoundedOn(R, Nat)
  BY NatLessThanWellFounded
<1>2. \E x \in S : \A y \in S : ~ (<<y, x>> \in R)
  <2> HIDE DEF R
  <2>1. S \subseteq Nat
    OBVIOUS
  <2> QED
    BY <1>1, <2>1, WFMin
<1>3. PICK x \in S : \A y \in S : ~ (<<y, x>> \in R)
  BY <1>2
<1>4. ASSUME NEW y \in S
      PROVE  x <= y
  <2>1. ~ (<<y, x>> \in R)
    BY <1>3
  <2>2. x \in Nat /\ y \in Nat
    OBVIOUS
  <2>3. ~(y < x)
    BY <2>1, <2>2 DEF OpToRel
  <2> QED
    BY <2>2, <2>3
<1> QED
  BY <1>4 DEF Min

\* A part lies where what is in front of it ends.
LEMMA PartAt ==
  ASSUME NEW a \in Seq(Nat), NEW p \in Seq(Nat), NEW r \in Seq(Nat), NEW data,
         Between(data, a, p, r)
  PROVE  /\ Len(data) = Len(a) + Len(p) + Len(r)
         /\ \A j \in 1..Len(p) : data[Len(a) + j] = p[j]
         /\ SubSeq(data, Len(a) + 1, Len(a) + Len(p)) = p
<1> DEFINE ap == a \o p
<1>1. Len(a) \in Nat /\ Len(p) \in Nat /\ Len(r) \in Nat
  BY LenProperties
<1>2. ap \in Seq(Nat) /\ Len(ap) = Len(a) + Len(p)
  BY Joined
<1>3. \A j \in 1..Len(a) + Len(p) : ap[j] = IF j <= Len(a) THEN a[j] ELSE p[j - Len(a)]
  BY ConcatProperties
<1>4. SubSeq(data, Len(a) + 1, Len(a) + Len(p)) = p
  BY Middle DEF Between
<1> HIDE DEF ap
<1>5. data = ap \o r
  BY DEF Between, ap
<1>6. Len(data) = Len(ap) + Len(r)
  BY <1>2, <1>5, Joined
<1>7. ASSUME NEW j \in 1..Len(p)
      PROVE  data[Len(a) + j] = p[j]
  <2> DEFINE m == Len(a) + j
  <2>1. m \in 1..Len(ap) /\ m \in 1..Len(a) + Len(p) /\ ~(m <= Len(a)) /\ m - Len(a) = j
    BY <1>1, <1>2
  <2> HIDE DEF m
  <2>2. data[m] = ap[m]
    BY <1>2, <1>5, <2>1, StaysInFront
  <2>3. ap[m] = p[j]
    BY <1>3, <2>1
  <2> QED
    BY <2>2, <2>3 DEF m
<1> QED
  BY <1>1, <1>2, <1>4, <1>6, <1>7

\* The bytes of the two start codes.
Short(data, i) ==
  i + 2 <= Len(data) /\ data[i] = 0 /\ data[i + 1] = 0 /\ data[i + 2] = 1
Long(data, i) ==
  i + 3 <= Len(data) /\ data[i] = 0 /\ data[i + 1] = 0 /\ data[i + 2] = 0 /\ data[i + 3] = 1

LEMMA StartCodeIs ==
  ASSUME NEW data \in Seq(Nat), NEW i \in Nat \ {0}
  PROVE  StartCode(data, i) = IF Short(data, i) THEN 3 ELSE IF Long(data, i) THEN 4 ELSE 0
<1>1. Len(data) \in Nat /\ \A j \in 1..Len(data) : data[j] \in Nat
  BY LenProperties, ElementOfSeq
<1>2. ASSUME i + 2 <= Len(data)
      PROVE  SubSeq(data, i, i + 2) = Code3 <=> Short(data, i)
  <2> DEFINE s == SubSeq(data, i, i + 2)
  <2>1. \A j \in i..i + 2 : data[j] \in Nat
    BY <1>1, <1>2
  <2>2. /\ s \in Seq(Nat) /\ Len(s) = 3
        /\ s[1] = data[i] /\ s[2] = data[i + 1] /\ s[3] = data[i + 2]
    BY <2>1, SubSeqProperties
  <2> HIDE DEF s
  <2>3. Code3 \in Seq(Nat) /\ Len(Code3) = 3 /\ Code3[1] = 0 /\ Code3[2] = 0 /\ Code3[3] = 1
    BY DEF Code3
  <2>4. s = Code3 <=> s[1] = 0 /\ s[2] = 0 /\ s[3] = 1
    <3>1. ASSUME s[1] = 0, s[2] = 0, s[3] = 1
          PROVE  s = Code3
      <4>1. \A j \in 1..Len(s) : s[j] = Code3[j]
        BY <3>1, <2>2, <2>3
      <4> QED
        BY <4>1, <2>2, <2>3, SeqEqual
    <3> QED
      BY <3>1, <2>3
  <2> QED
    BY <1>2, <2>2, <2>4 DEF Short, s
<1>3. ASSUME i + 3 <= Len(data)
      PROVE  SubSeq(data, i, i + 3) = Code4 <=> Long(data, i)
  <2> DEFINE s == SubSeq(data, i, i + 3)
  <2>1. \A j \in i..i + 3 : data[j] \in Nat
    BY <1>1, <1>3
  <2>2. /\ s \in Seq(Nat) /\ Len(s) = 4
        /\ s[1] = data[i] /\ s[2] = data[i + 1] /\ s[3] = data[i + 2] /\ s[4] = data[i + 3]
    BY <2>1, SubSeqProperties
  <2> HIDE DEF s
  <2>3. /\ Code4 \in Seq(Nat) /\ Len(Code4) = 4
        /\ Code4[1] = 0 /\ Code4[2] = 0 /\ Code4[3] = 0 /\ Code4[4] = 1
    BY DEF Code4
  <2>4. s = Code4 <=> s[1] = 0 /\ s[2] = 0 /\ s[3] = 0 /\ s[4] = 1
    <3>1. ASSUME s[1] = 0, s[2] = 0, s[3] = 0, s[4] = 1
          PROVE  s = Code4
      <4>1. \A j \in 1..Len(s) : s[j] = Code4[j]
        BY <3>1, <2>2, <2>3
      <4> QED
        BY <4>1, <2>2, <2>3, SeqEqual
    <3> QED
      BY <3>1, <2>3
  <2> QED
    BY <1>3, <2>2, <2>4 DEF Long, s
<1>4. (i + 2 <= Len(data) /\ SubSeq(data, i, i + 2) = Code3) <=> Short(data, i)
  BY <1>2 DEF Short
<1>5. (i + 3 <= Len(data) /\ SubSeq(data, i, i + 3) = Code4) <=> Long(data, i)
  BY <1>3 DEF Long
<1> QED
  BY <1>4, <1>5 DEF StartCode

\* What is said of a unit.
LEMMA UnitIs ==
  ASSUME NEW nal \in Unit
  PROVE  /\ nal \in Seq(Nat)
         /\ Len(nal) \in Nat /\ Len(nal) > 0
         /\ nal[1] # 0 /\ nal[Len(nal)] # 0
         /\ \A i \in 1..Len(nal) : StartCode(nal, i) = 0
<1>1. nal \in Seq(Byte)
  BY DEF Unit
<1>2. nal \in Seq(Nat)
  <2>1. Byte \subseteq Nat
    BY DEF Byte
  <2> QED
    BY <1>1, <2>1, SeqMonotonic
<1>3. Len(nal) > 0
  BY DEF Unit
<1>4. nal[1] # 0 /\ nal[Len(nal)] # 0
  BY DEF Unit
<1>5. \A i \in 1..Len(nal) : StartCode(nal, i) = 0
  BY DEF Unit
<1>6. Len(nal) \in Nat /\ Len(nal) > 0
  BY <1>2, <1>3, LenProperties
<1> QED
  BY <1>2, <1>4, <1>5, <1>6

\* nal lies in data from b to e - 1.
Lies(data, nal, b, e) ==
  /\ b \in Nat \ {0} /\ e = b + Len(nal) /\ e <= Len(data) + 1
  /\ \A j \in 1..Len(nal) : data[(b - 1) + j] = nal[j]

\* No start code begins within a unit, whatever follows it.
LEMMA NoneWithin ==
  ASSUME NEW data \in Seq(Nat), NEW nal \in Unit, NEW b, NEW e, Lies(data, nal, b, e),
         NEW j \in b..e - 1
  PROVE  StartCode(data, j) = 0
<1> DEFINE m == Len(nal)
<1>1. /\ nal \in Seq(Nat) /\ m \in Nat /\ m > 0
      /\ nal[m] # 0
      /\ \A i \in 1..m : StartCode(nal, i) = 0
  BY UnitIs
<1> HIDE DEF m
<1>2. /\ b \in Nat /\ b > 0 /\ e = b + m /\ e <= Len(data) + 1 /\ Len(data) \in Nat
      /\ \A i \in 1..m : data[(b - 1) + i] = nal[i]
  BY LenProperties DEF Lies, m
<1> DEFINE i == j - (b - 1)
<1>3. j \in Nat \ {0} /\ i \in 1..m /\ i \in Nat \ {0}
  BY <1>1, <1>2
<1>4. ~Short(nal, i) /\ ~Long(nal, i)
  <2>1. StartCode(nal, i) = 0
    BY <1>1, <1>3
  <2> HIDE DEF i
  <2>2. StartCode(nal, i) = IF Short(nal, i) THEN 3 ELSE IF Long(nal, i) THEN 4 ELSE 0
    BY <1>1, <1>3, StartCodeIs
  <2> QED
    BY <2>1, <2>2
<1>5. ASSUME NEW d \in 0..3
      PROVE  /\ i + d <= m => data[j + d] = nal[i + d]
             /\ i + d = m => data[j + d] # 0
  <2>1. (b - 1) + (i + d) = j + d /\ i + d \in Nat /\ i + d > 0
    BY <1>2, <1>3
  <2>2. i + d <= m => i + d \in 1..m
    BY <1>1, <2>1
  <2> HIDE DEF i
  <2>3. i + d <= m => data[j + d] = nal[i + d]
    BY <1>2, <2>1, <2>2
  <2>4. i + d = m => data[j + d] # 0
    BY <1>1, <2>1, <2>3
  <2> QED
    BY <2>3, <2>4
<1> HIDE DEF i
<1>6. /\ i <= m => data[j] = nal[i]
      /\ i = m => data[j] # 0
      /\ i + 1 <= m => data[j + 1] = nal[i + 1]
      /\ i + 1 = m => data[j + 1] # 0
      /\ i + 2 <= m => data[j + 2] = nal[i + 2]
      /\ i + 2 = m => data[j + 2] # 0
      /\ i + 3 <= m => data[j + 3] = nal[i + 3]
  <2>1. 0 \in 0..3 /\ 1 \in 0..3 /\ 2 \in 0..3 /\ 3 \in 0..3 /\ i + 0 = i /\ j + 0 = j
    BY <1>3
  <2> QED
    BY <1>5, <2>1
<1>7. ~Short(data, j)
  <2> SUFFICES ASSUME Short(data, j) PROVE FALSE
    OBVIOUS
  <2>1. data[j] = 0 /\ data[j + 1] = 0 /\ data[j + 2] = 1
    BY DEF Short
  <2>2. i + 2 <= m
    BY <2>1, <1>1, <1>3, <1>6
  <2>3. nal[i] = 0 /\ nal[i + 1] = 0 /\ nal[i + 2] = 1
    BY <2>1, <2>2, <1>1, <1>3, <1>6
  <2>4. Short(nal, i)
    BY <2>2, <2>3 DEF Short, m
  <2> QED
    BY <2>4, <1>4
<1>8. ~Long(data, j)
  <2> SUFFICES ASSUME Long(data, j) PROVE FALSE
    OBVIOUS
  <2>1. data[j] = 0 /\ data[j + 1] = 0 /\ data[j + 2] = 0 /\ data[j + 3] = 1
    BY DEF Long
  <2>2. i + 3 <= m
    BY <2>1, <1>1, <1>3, <1>6
  <2>3. i <= m /\ i + 1 <= m /\ i + 2 <= m
    BY <2>2, <1>1, <1>3
  <2>4. nal[i] = 0 /\ nal[i + 1] = 0 /\ nal[i + 2] = 0 /\ nal[i + 3] = 1
    BY <2>1, <2>2, <2>3, <1>6
  <2>5. Long(nal, i)
    BY <2>2, <2>4 DEF Long, m
  <2> QED
    BY <2>5, <1>4
<1> QED
  BY <1>3, <1>7, <1>8, StartCodeIs

\* A unit ends where the data do, or at a start code behind which there is a
\* byte.
LEMMA EndFound ==
  ASSUME NEW data \in Seq(Nat), NEW nal \in Unit, NEW b, NEW e, Lies(data, nal, b, e),
         e = Len(data) + 1 \/ (e <= Len(data) - 3 /\ StartCode(data, e) # 0)
  PROVE  NalEnd(data, b) = e
<1> DEFINE ends == {j \in b..Len(data) - 3 : StartCode(data, j) # 0}
<1>1. /\ b \in Nat /\ b > 0 /\ e = b + Len(nal) /\ Len(data) \in Nat /\ Len(nal) \in Nat
  BY UnitIs, LenProperties DEF Lies
<1>2. e \in Nat /\ b <= e
  BY <1>1
<1>3. \A j \in ends : ~(j < e)
  <2> SUFFICES ASSUME NEW j \in ends, j < e PROVE FALSE
    OBVIOUS
  <2>1. j \in b..e - 1
    BY <1>1, <1>2
  <2>2. StartCode(data, j) = 0
    BY <2>1, NoneWithin
  <2> QED
    BY <2>2
<1>4. CASE e = Len(data) + 1
  <2>1. ends = {}
    BY <1>1, <1>2, <1>3, <1>4
  <2> QED
    BY <1>4, <2>1 DEF NalEnd
<1>5. CASE e <= Len(data) - 3 /\ StartCode(data, e) # 0
  <2>1. e \in ends
    BY <1>1, <1>2, <1>5
  <2>2. ends \in SUBSET Nat /\ ends # {}
    BY <1>1, <2>1
  <2>3. NalEnd(data, b) = Min(ends)
    BY <2>2 DEF NalEnd
  <2> HIDE DEF ends
  <2>4. Min(ends) \in ends /\ Min(ends) <= e
    BY <2>1, <2>2, Least
  <2>5. Min(ends) \in Nat /\ ~(Min(ends) < e)
    BY <2>2, <2>4, <1>3
  <2> QED
    BY <1>2, <2>3, <2>4, <2>5
<1> QED
  BY <1>4, <1>5

\* Any end that is found lies in the data or behind them.
LEMMA EndInData ==
  ASSUME NEW data \in Seq(Nat), NEW b \in Nat, b <= Len(data) + 1
  PROVE  NalEnd(data, b) \in b..Len(data) + 1
<1> DEFINE ends == {j \in b..Len(data) - 3 : StartCode(data, j) # 0}
<1>1. Len(data) \in Nat
  BY LenProperties
<1>2. CASE ends = {}
  BY <1>1, <1>2 DEF NalEnd
<1>3. CASE ends # {}
  <2>1. ends \in SUBSET Nat /\ ends \subseteq b..Len(data) + 1
    BY <1>1
  <2>2. NalEnd(data, b) = Min(ends)
    BY <1>3 DEF NalEnd
  <2> HIDE DEF ends
  <2>3. Min(ends) \in ends
    BY <1>3, <2>1, Least
  <2> QED
    BY <2>1, <2>2, <2>3
<1> QED
  BY <1>2, <1>3

\* A start code and the unit that follows it, behind a and in front of r.
LEMMA DelimitedAt ==
  ASSUME NEW a \in Seq(Nat), NEW s \in Unit, NEW r \in Seq(Nat), NEW data \in Seq(Nat),
         NEW code \in {Code3, Code4}, Between(data, a, code \o s, r)
  PROVE  LET c == StartCode(data, Len(a) + 1)
             b == Len(a) + 1 + c
         IN  /\ c = Len(code) /\ c \in {3, 4}
             /\ Lies(data, s, b, b + Len(s))
             /\ SubSeq(data, b, (b + Len(s)) - 1) = s
<1> DEFINE i == Len(a) + 1
           l == Len(code)
           b == i + l
           cs == code \o s
           ac == a \o code
<1>1. s \in Seq(Nat) /\ Len(s) \in Nat /\ Len(a) \in Nat /\ Len(r) \in Nat /\ Len(data) \in Nat
  BY UnitIs, LenProperties
<1>2. /\ code \in Seq(Nat) /\ l \in {3, 4}
      /\ l = 3 => code[1] = 0 /\ code[2] = 0 /\ code[3] = 1
      /\ l = 4 => code[1] = 0 /\ code[2] = 0 /\ code[3] = 0 /\ code[4] = 1
  <2>1. CASE code = Code3
    BY <2>1 DEF Code3
  <2>2. CASE code = Code4
    BY <2>2 DEF Code4
  <2> QED
    BY <2>1, <2>2
<1>3. /\ cs \in Seq(Nat) /\ Len(cs) = l + Len(s)
      /\ \A j \in 1..l + Len(s) : cs[j] = IF j <= l THEN code[j] ELSE s[j - l]
  BY <1>1, <1>2, ConcatProperties
<1>4. ac \in Seq(Nat) /\ Len(ac) = Len(a) + l
  BY <1>2, Joined
<1>5. Between(data, ac, s, r)
  <2>1. (a \o code) \o s = a \o (code \o s)
    BY <1>1, <1>2, Regrouped
  <2> QED
    BY <2>1 DEF Between, ac
<1>6. /\ Len(data) = Len(a) + Len(cs) + Len(r)
      /\ \A j \in 1..Len(cs) : data[Len(a) + j] = cs[j]
  <2>1. cs \in Seq(Nat) /\ Between(data, a, cs, r)
    BY <1>3
  <2> HIDE DEF cs
  <2> QED
    BY <2>1, PartAt
<1>7. /\ \A j \in 1..Len(s) : data[Len(ac) + j] = s[j]
      /\ SubSeq(data, Len(ac) + 1, Len(ac) + Len(s)) = s
  <2>1. ac \in Seq(Nat) /\ s \in Seq(Nat)
    BY <1>1, <1>4
  <2> HIDE DEF ac
  <2> QED
    BY <2>1, <1>5, PartAt
<1> HIDE DEF cs, ac, l
<1>8. \A j \in 1..l : data[Len(a) + j] = code[j]
  <2> SUFFICES ASSUME NEW j \in 1..l PROVE data[Len(a) + j] = code[j]
    OBVIOUS
  <2>1. j \in 1..l + Len(s) /\ j <= l
    BY <1>1, <1>2
  <2> QED
    BY <2>1, <1>3, <1>6
<1>9. StartCode(data, i) = l
  <2>1. StartCode(data, i) = IF Short(data, i) THEN 3 ELSE IF Long(data, i) THEN 4 ELSE 0
    BY <1>1, StartCodeIs
  <2>2. i = Len(a) + 1 /\ i + 1 = Len(a) + 2 /\ i + 2 = Len(a) + 3 /\ i + 3 = Len(a) + 4
    BY <1>1
  <2>3. Len(data) = Len(a) + (l + Len(s)) + Len(r)
    BY <1>3, <1>6
  <2>4. CASE l = 3
    <3>1. data[i] = 0 /\ data[i + 1] = 0 /\ data[i + 2] = 1
      <4>1. 1 \in 1..l /\ 2 \in 1..l /\ 3 \in 1..l
        BY <2>4
      <4>2. data[Len(a) + 1] = code[1] /\ data[Len(a) + 2] = code[2] /\ data[Len(a) + 3] = code[3]
        BY <4>1, <1>8
      <4> QED
        BY <1>2, <2>2, <2>4, <4>2
    <3>2. i + 2 <= Len(data)
      BY <1>1, <2>2, <2>3, <2>4
    <3> QED
      BY <2>1, <2>4, <3>1, <3>2 DEF Short
  <2>5. CASE l = 4
    <3>1. data[i] = 0 /\ data[i + 1] = 0 /\ data[i + 2] = 0 /\ data[i + 3] = 1
      <4>1. 1 \in 1..l /\ 2 \in 1..l /\ 3 \in 1..l /\ 4 \in 1..l
        BY <2>5
      <4>2. /\ data[Len(a) + 1] = code[1] /\ data[Len(a) + 2] = code[2]
            /\ data[Len(a) + 3] = code[3] /\ data[Len(a) + 4] = code[4]
        BY <4>1, <1>8
      <4> QED
        BY <1>2, <2>2, <2>5, <4>2
    <3>2. i + 3 <= Len(data)
      BY <1>1, <2>2, <2>3, <2>5
    <3> QED
      BY <2>1, <2>5, <3>1, <3>2 DEF Short, Long
  <2> QED
    BY <1>2, <2>4, <2>5
<1>10. /\ Len(ac) + 1 = b /\ Len(ac) + Len(s) = (b + Len(s)) - 1 /\ b - 1 = Len(ac)
       /\ b \in Nat \ {0} /\ b + Len(s) <= Len(data) + 1
  <2>1. l \in Nat
    BY <1>2
  <2> QED
    BY <1>1, <1>3, <1>4, <1>6, <2>1
<1>11. Lies(data, s, b, b + Len(s))
  BY <1>7, <1>10 DEF Lies
<1>12. SubSeq(data, b, (b + Len(s)) - 1) = s
  BY <1>7, <1>10
<1> QED
  BY <1>2, <1>9, <1>11, <1>12 DEF l

\* The units lie in data, each behind a start code, unit k from off[k] on.
Delimited(data, nals, off) ==
  /\ data \in Seq(Nat)
  /\ off \in [1..Len(nals) + 1 -> 1..Len(data) + 1]
  /\ off[1] = 1
  /\ off[Len(nals) + 1] = Len(data) + 1
  /\ \A k \in 1..Len(nals) :
       LET c == StartCode(data, off[k])
       IN  /\ c \in {3, 4}
           /\ Lies(data, nals[k], off[k] + c, off[k + 1])
           /\ SubSeq(data, off[k] + c, off[k + 1] - 1) = nals[k]

LEMMA AnnexBDelimited ==
  ASSUME NEW nals \in Seq(Unit), NEW code \in {Code3, Code4}
  PROVE  \E off :
           Delimited(FlattenSeq([k \in DOMAIN nals |->
                                   (IF k = 1 THEN Code4 ELSE code) \o nals[k]]),
                     nals, off)
<1> DEFINE n == Len(nals)
           Code(k) == IF k = 1 THEN Code4 ELSE code
           parts == [k \in DOMAIN nals |-> Code(k) \o nals[k]]
           data == FlattenSeq(parts)
<1>1. n \in Nat /\ DOMAIN nals = 1..n /\ \A k \in 1..n : nals[k] \in Unit
  BY LenProperties, ElementOfSeq
<1>2. \A k \in 1..n : Code(k) \in {Code3, Code4}
  OBVIOUS
<1>3. \A k \in 1..n : parts[k] = Code(k) \o nals[k]
  BY <1>1
<1>4. ASSUME NEW k \in 1..n
      PROVE  /\ parts[k] \in Seq(Nat) /\ Len(parts[k]) = Len(Code(k)) + Len(nals[k])
             /\ Len(Code(k)) \in Nat
  <2>1. Code3 \in Seq(Nat) /\ Code4 \in Seq(Nat)
    BY DEF Code3, Code4
  <2>2. Code(k) \in Seq(Nat)
    BY <1>2, <2>1
  <2>3. nals[k] \in Seq(Nat)
    BY <1>1, UnitIs
  <2> HIDE DEF Code, parts
  <2> QED
    BY <1>3, <2>2, <2>3, Joined, LenProperties
<1>5. parts \in Seq(Seq(Nat)) /\ Len(parts) = n
  <2>1. parts = [k \in 1..n |-> Code(k) \o nals[k]]
    BY <1>1
  <2>2. \A k \in 1..n : Code(k) \o nals[k] \in Seq(Nat)
    BY <1>3, <1>4
  <2> HIDE DEF n, Code
  <2> QED
    BY <1>1, <2>1, <2>2
<1> HIDE DEF parts, Code, data
<1>6. PICK off : LaidOut(data, parts, off)
  BY <1>5, Flattened DEF data
<1>7. /\ data \in Seq(Nat) /\ Len(data) \in Nat
      /\ off \in [1..n + 1 -> Nat \ {0}]
      /\ off[1] = 1 /\ off[n + 1] = Len(data) + 1
      /\ \A k \in 1..n :
           /\ off[k + 1] = off[k] + Len(parts[k])
           /\ \E a \in Seq(Nat), r \in Seq(Nat) :
                Len(a) + 1 = off[k] /\ Between(data, a, parts[k], r)
  BY <1>5, <1>6, LenProperties DEF LaidOut
<1>8. ASSUME NEW k \in 1..n
      PROVE  LET c == StartCode(data, off[k])
             IN  /\ c \in {3, 4}
                 /\ Lies(data, nals[k], off[k] + c, off[k + 1])
                 /\ SubSeq(data, off[k] + c, off[k + 1] - 1) = nals[k]
  <2> DEFINE s == nals[k]
             i == off[k]
             c == StartCode(data, i)
             d == Code(k)
  <2>1. PICK a \in Seq(Nat), r \in Seq(Nat) : Len(a) + 1 = i /\ Between(data, a, parts[k], r)
    BY <1>7
  <2>2. s \in Unit /\ d \in {Code3, Code4} /\ Between(data, a, d \o s, r) /\ data \in Seq(Nat)
    BY <1>1, <1>2, <1>3, <1>7, <2>1
  <2>3. Len(d) \in Nat /\ Len(s) \in Nat /\ Len(parts[k]) = Len(d) + Len(s) /\ i \in Nat
    <3>1. Len(s) \in Nat
      BY <2>2, UnitIs
    <3>2. i \in Nat
      BY <2>1, LenProperties
    <3> QED
      BY <1>4, <3>1, <3>2
  <2>4. off[k + 1] = i + (Len(d) + Len(s))
    BY <1>7, <2>3
  <2> HIDE DEF s, d
  <2>5. LET cc == StartCode(data, Len(a) + 1)
            b == Len(a) + 1 + cc
        IN  /\ cc = Len(d) /\ cc \in {3, 4}
            /\ Lies(data, s, b, b + Len(s))
            /\ SubSeq(data, b, (b + Len(s)) - 1) = s
    BY <2>1, <2>2, DelimitedAt
  <2>6. /\ c = Len(d) /\ c \in {3, 4}
        /\ Lies(data, s, i + c, i + c + Len(s))
        /\ SubSeq(data, i + c, (i + c + Len(s)) - 1) = s
    BY <2>1, <2>5
  <2> HIDE DEF i, c
  <2>7. off[k + 1] = i + c + Len(s)
    <3>1. i + (Len(d) + Len(s)) = i + Len(d) + Len(s)
      BY <2>3
    <3> QED
      BY <2>4, <2>6, <3>1
  <2>8. /\ c \in {3, 4}
        /\ Lies(data, s, i + c, off[k + 1])
        /\ SubSeq(data, i + c, off[k + 1] - 1) = s
    BY <2>6, <2>7
  <2> QED
    BY <2>8 DEF c, i, s
<1>9. off \in [1..n + 1 -> 1..Len(data) + 1]
  <2>1. ASSUME NEW k \in 1..n + 1
        PROVE  off[k] \in 1..Len(data) + 1
    <3>1. off[k] \in Nat \ {0}
      BY <1>7
    <3>2. CASE k = n + 1
      BY <3>1, <3>2, <1>7
    <3>3. CASE k # n + 1
      <4>1. k \in 1..n
        BY <3>3, <1>1
      <4> DEFINE c == StartCode(data, off[k])
                 l == Len(nals[k])
      <4>2. c \in {3, 4} /\ Lies(data, nals[k], off[k] + c, off[k + 1])
        BY <4>1, <1>8
      <4>3. off[k + 1] = (off[k] + c) + l /\ off[k + 1] <= Len(data) + 1
        BY <4>2 DEF Lies
      <4>4. l \in Nat
        BY <4>1, <1>1, UnitIs
      <4> HIDE DEF c, l
      <4> QED
        BY <3>1, <4>2, <4>3, <4>4, <1>7
    <3> QED
      BY <3>2, <3>3
  <2> QED
    BY <2>1, <1>7
<1>10. Delimited(data, nals, off)
  <2> HIDE DEF n
  <2> QED
    BY <1>7, <1>8, <1>9 DEF Delimited, n
<1> QED
  BY <1>10 DEF data, parts, Code

\* Units behind start codes are found by them (split_annex_b).
LEMMA SplitsAnnexB ==
  ASSUME NEW nals \in Seq(Unit), NEW data, NEW off, Delimited(data, nals, off)
  PROVE  SplitAnnexB(data) = nals
<1> DEFINE N == Len(data) + 2
           Begin(i) == i + StartCode(data, i)
           End(i) == NalEnd(data, Begin(i))
           Body(f, i) == IF i > Len(data) THEN <<>>
                         ELSE IF StartCode(data, i) = 0 THEN f[i + 1]
                         ELSE IF Begin(i) < End(i)
                              THEN <<SubSeq(data, Begin(i), End(i) - 1)>> \o f[End(i)]
                              ELSE f[Begin(i) + 1]
           stop == {i \in 1..N : i > Len(data)}
           skip == {i \in 1..N : StartCode(data, i) = 0 \/ ~(Begin(i) < End(i))}
           head == [i \in 1..N |-> SubSeq(data, Begin(i), End(i) - 1)]
           nxt == [i \in 1..N |-> IF StartCode(data, i) = 0 THEN i + 1
                                  ELSE IF Begin(i) < End(i) THEN End(i)
                                  ELSE Begin(i) + 1]
           from == CHOOSE f : f = [i \in 1..N |-> Body(f, i)]
<1>1. /\ data \in Seq(Nat) /\ Len(data) \in Nat /\ N \in Nat
  BY LenProperties DEF Delimited
<1>2. SplitAnnexB(data) = from[1]
  BY DEF SplitAnnexB
<1>3. \A f, i : i \in 1..N =>
        Body(f, i) = IF i \in stop THEN <<>>
                     ELSE IF i \in skip THEN f[nxt[i]]
                     ELSE <<head[i]>> \o f[nxt[i]]
  <2> SUFFICES ASSUME NEW f, NEW i \in 1..N
               PROVE  Body(f, i) = IF i \in stop THEN <<>>
                                   ELSE IF i \in skip THEN f[nxt[i]]
                                   ELSE <<head[i]>> \o f[nxt[i]]
    OBVIOUS
  <2>1. /\ head[i] = SubSeq(data, Begin(i), End(i) - 1)
        /\ nxt[i] = IF StartCode(data, i) = 0 THEN i + 1
                    ELSE IF Begin(i) < End(i) THEN End(i) ELSE Begin(i) + 1
    OBVIOUS
  <2>2. i \in stop <=> i > Len(data)
    OBVIOUS
  <2>3. i \in skip <=> (StartCode(data, i) = 0 \/ ~(Begin(i) < End(i)))
    OBVIOUS
  <2> HIDE DEF stop, skip, head, nxt, Begin, End, N
  <2> QED
    BY <2>1, <2>2, <2>3
<1>4. \A i \in 1..N : i \notin stop => nxt[i] \in i+1..N
  <2> SUFFICES ASSUME NEW i \in 1..N, i \notin stop
               PROVE  nxt[i] \in i+1..N
    OBVIOUS
  <2>1. i \in Nat \ {0} /\ i <= Len(data)
    BY <1>1
  <2>2. nxt[i] = IF StartCode(data, i) = 0 THEN i + 1
                 ELSE IF Begin(i) < End(i) THEN End(i) ELSE Begin(i) + 1
    OBVIOUS
  <2> HIDE DEF stop, nxt, End
  <2>3. \/ StartCode(data, i) = 0
        \/ StartCode(data, i) = 3 /\ i + 2 <= Len(data)
        \/ StartCode(data, i) = 4 /\ i + 3 <= Len(data)
    <3>1. StartCode(data, i) = IF Short(data, i) THEN 3 ELSE IF Long(data, i) THEN 4 ELSE 0
      BY <1>1, <2>1, StartCodeIs
    <3> QED
      BY <3>1 DEF Short, Long
  <2>4. CASE StartCode(data, i) = 0
    BY <1>1, <2>1, <2>2, <2>4
  <2>5. CASE StartCode(data, i) # 0
    <3>1. /\ Begin(i) \in Nat /\ Begin(i) > i /\ Begin(i) <= Len(data) + 1
      BY <1>1, <2>1, <2>3, <2>5
    <3> HIDE DEF Begin
    <3>2. End(i) \in Begin(i)..Len(data) + 1
      BY <1>1, <3>1, EndInData DEF End
    <3> QED
      BY <1>1, <2>1, <2>2, <2>5, <3>1, <3>2
  <2> QED
    BY <2>4, <2>5
<1> HIDE DEF Body, stop, skip, head, nxt, N
<1>5. \A f : f = [i \in 1..N |-> Body(f, i)] <=> Reads(f, N, stop, skip, head, nxt)
  BY <1>3 DEF Reads
<1>6. \E f : Reads(f, N, stop, skip, head, nxt)
  BY <1>1, <1>4, ReaderExists
<1>7. Reads(from, N, stop, skip, head, nxt)
  BY <1>5, <1>6
<1> HIDE DEF from
<1> DEFINE n == Len(nals)
<1>8. n \in Nat /\ \A k \in 1..n : nals[k] \in Unit /\ Len(nals[k]) \in Nat /\ Len(nals[k]) > 0
  BY LenProperties, ElementOfSeq, UnitIs
<1>9. off \in [1..n + 1 -> 1..Len(data) + 1] /\ off[1] = 1 /\ off[n + 1] = Len(data) + 1
  BY DEF Delimited
<1>10. off[n + 1] \in stop /\ off \in [1..n + 1 -> 1..N]
  <2>1. 1..Len(data) + 1 \subseteq 1..N /\ Len(data) + 1 \in 1..N /\ Len(data) + 1 > Len(data)
    BY <1>1 DEF N
  <2> HIDE DEF n
  <2> QED
    BY <1>9, <2>1 DEF stop
<1>d. \A k \in 1..n :
        /\ StartCode(data, off[k]) \in {3, 4}
        /\ Lies(data, nals[k], off[k] + StartCode(data, off[k]), off[k + 1])
        /\ SubSeq(data, off[k] + StartCode(data, off[k]), off[k + 1] - 1) = nals[k]
  BY DEF Delimited
<1>11. ASSUME NEW k \in 1..n
       PROVE  /\ off[k] \notin stop /\ off[k] \notin skip
              /\ head[off[k]] = nals[k] /\ nxt[off[k]] = off[k + 1]
  <2> DEFINE i == off[k]
             e == off[k + 1]
             c == StartCode(data, i)
             l == Len(nals[k])
  <2>1. /\ i \in 1..Len(data) + 1 /\ e \in 1..Len(data) + 1
    <3>1. k \in 1..n + 1 /\ k + 1 \in 1..n + 1
      BY <1>8
    <3> HIDE DEF n
    <3> QED
      BY <3>1, <1>9
  <2>2. /\ c \in {3, 4}
        /\ Lies(data, nals[k], i + c, e)
        /\ SubSeq(data, i + c, e - 1) = nals[k]
    BY <1>d
  <2>3. l \in Nat /\ l > 0 /\ nals[k] \in Unit
    BY <1>8
  <2>4. e = (i + c) + l
    BY <2>2 DEF Lies
  <2>5. e = Len(data) + 1 \/ (e <= Len(data) - 3 /\ StartCode(data, e) # 0)
    <3>1. CASE k = n
      <4>1. e = Len(data) + 1
        BY <3>1, <1>9
      <4> QED
        BY <4>1
    <3>2. CASE k # n
      <4> DEFINE j == k + 1
                 g == off[j + 1]
                 d == StartCode(data, e)
                 m == Len(nals[j])
      <4>1. j \in 1..n
        BY <3>2, <1>8
      <4>2. d \in {3, 4} /\ Lies(data, nals[j], e + d, g)
        BY <4>1, <1>d
      <4>3. g = (e + d) + m /\ g <= Len(data) + 1
        BY <4>2 DEF Lies
      <4>4. m \in Nat /\ m > 0
        BY <4>1, <1>8
      <4> HIDE DEF g, d, m, e
      <4>5. e <= Len(data) - 3
        BY <1>1, <2>1, <4>2, <4>3, <4>4
      <4>6. StartCode(data, e) # 0
        BY <4>2 DEF d
      <4> QED
        BY <4>5, <4>6
    <3> QED
      BY <3>1, <3>2
  <2> HIDE DEF e, l
  <2>6. NalEnd(data, i + c) = e
    <3> DEFINE b == i + c
    <3>1. Lies(data, nals[k], b, e)
      BY <2>2
    <3> HIDE DEF b, i, c
    <3>2. NalEnd(data, b) = e
      BY <1>1, <2>3, <2>5, <3>1, EndFound
    <3> QED
      BY <3>2 DEF b
  <2>7. Begin(i) = i + c /\ End(i) = e /\ c # 0
    BY <2>2, <2>6
  <2> HIDE DEF Begin, End, c, i
  <2>8. i \in 1..N /\ i <= Len(data) /\ Begin(i) < e
    BY <1>1, <2>1, <2>2, <2>3, <2>4, <2>7 DEF N
  <2>9. i \notin stop
    BY <1>1, <2>1, <2>8 DEF stop
  <2>10. i \notin skip
    BY <2>7, <2>8 DEF skip, c
  <2>11. head[i] = nals[k]
    BY <2>2, <2>7, <2>8 DEF head
  <2>12. nxt[i] = e
    BY <2>7, <2>8 DEF nxt, c
  <2> QED
    BY <2>9, <2>10, <2>11, <2>12 DEF i, e
<1>12. from[off[1]] = nals
  <2>1. Path(nals, N, stop, skip, head, nxt, off)
    BY <1>10, <1>11 DEF Path
  <2> QED
    BY <1>1, <1>7, <2>1, ReadsUnits
<1> QED
  BY <1>2, <1>9, <1>12

(***************************************************************************)
(* What the encoder emits is what the TV gets.                             *)
(***************************************************************************)

\* A unit that stands alone does not pass for lengths and units.
LEMMA BareUnit ==
  ASSUME NEW nal \in Unit
  PROVE  SplitPrefixed(nal) = <<>> /\ StartCode(nal, 1) = 0
<1>1. /\ nal \in Seq(Nat) /\ Len(nal) \in Nat /\ Len(nal) > 0
      /\ nal[1] # 0 /\ \A i \in 1..Len(nal) : StartCode(nal, i) = 0
  BY UnitIs
<1> DEFINE N == Len(nal) + 1
           stop == PrefixedStop(nal)
           head == PrefixedHead(nal)
           nxt == PrefixedNext(nal)
<1>2. PICK f : SplitPrefixed(nal) = f[1] /\ Reads(f, N, stop, {}, head, nxt)
  BY <1>1, SplitPrefixedIs
<1>3. 1 \in 1..N
  BY <1>1
<1>4. 1 \in stop
  <2>1. LengthAt(nal, 1) = Len(nal)
    BY <1>1 DEF LengthAt
  <2>2. PrefixedEnd(nal, 1) > Len(nal) + 1
    BY <1>1, <2>1 DEF PrefixedEnd
  <2> QED
    BY <1>3, <2>2 DEF PrefixedStop
<1> HIDE DEF stop, head, nxt, N
<1>5. f[1] = <<>>
  BY <1>2, <1>3, <1>4 DEF Reads
<1>6. StartCode(nal, 1) = 0
  <2>1. 1 \in 1..Len(nal)
    BY <1>1
  <2> QED
    BY <1>1, <2>1
<1> QED
  BY <1>2, <1>5, <1>6

\* However the encoder delimits the units of an access unit, they are found
\* (extract_nals).
THEOREM UnitsExtracted ==
  ASSUME NEW nals \in Seq(Unit) \ {<<>>}, NEW data \in Bitstreams(nals)
  PROVE  ExtractNals(data) = nals
<1>1. /\ nals \in Seq(Unit) /\ Len(nals) \in Nat /\ Len(nals) > 0
      /\ DOMAIN nals = 1..Len(nals)
      /\ \A k \in 1..Len(nals) : nals[k] \in Unit
  <2>1. nals \in Seq(Unit) /\ nals # <<>>
    OBVIOUS
  <2> QED
    BY <2>1, LenProperties, ElementOfSeq, EmptySeq
<1>2. CASE \E code \in {Code3, Code4} :
             data = FlattenSeq([k \in DOMAIN nals |-> (IF k = 1 THEN Code4 ELSE code) \o nals[k]])
  <2>1. PICK code \in {Code3, Code4} :
          data = FlattenSeq([k \in DOMAIN nals |-> (IF k = 1 THEN Code4 ELSE code) \o nals[k]])
    BY <1>2
  <2>2. PICK off : Delimited(data, nals, off)
    BY <1>1, <2>1, AnnexBDelimited
  <2>3. SplitAnnexB(data) = nals
    BY <1>1, <2>2, SplitsAnnexB
  <2>4. StartCode(data, 1) # 0
    <3>1. 1 \in 1..Len(nals)
      BY <1>1
    <3>2. StartCode(data, off[1]) \in {3, 4} /\ off[1] = 1
      BY <2>2, <3>1 DEF Delimited
    <3> QED
      BY <3>2
  <2> QED
    BY <2>3, <2>4 DEF ExtractNals
<1>3. CASE data = NalsToAvcc(nals) /\ StartCode(data, 1) = 0
  <2>1. nals \in Seq(Seq(Nat))
    <3>1. Unit \subseteq Seq(Nat)
      BY UnitIs
    <3> QED
      BY <1>1, <3>1, SeqMonotonic
  <2>2. PICK off : Prefixed(data, nals, off)
    BY <1>3, <2>1, AvccPrefixed
  <2>3. \A k \in 1..Len(nals) : Len(nals[k]) # 0
    <3> SUFFICES ASSUME NEW k \in 1..Len(nals) PROVE Len(nals[k]) # 0
      OBVIOUS
    <3>1. nals[k] \in Unit
      BY <1>1
    <3>2. Len(nals[k]) \in Nat /\ Len(nals[k]) > 0
      BY <3>1, UnitIs
    <3> QED
      BY <3>2
  <2>4. SplitPrefixed(data) = nals
    BY <2>1, <2>2, <2>3, SplitsPrefixed
  <2> QED
    BY <1>3, <2>4 DEF ExtractNals
<1>4. CASE Len(nals) = 1 /\ data = nals[1]
  <2>1. data \in Unit
    BY <1>1, <1>4
  <2>2. SplitPrefixed(data) = <<>> /\ StartCode(data, 1) = 0
    BY <2>1, BareUnit
  <2>3. data # <<>>
    BY <2>1, UnitIs
  <2>4. nals = <<data>>
    BY <1>1, <1>4
  <2> QED
    BY <2>2, <2>3, <2>4 DEF ExtractNals
<1>5. \/ \E code \in {Code3, Code4} :
            data = FlattenSeq([k \in DOMAIN nals |-> (IF k = 1 THEN Code4 ELSE code) \o nals[k]])
      \/ data = NalsToAvcc(nals) /\ StartCode(data, 1) = 0
      \/ \E k \in DOMAIN nals : Len(nals) = 1 /\ data = nals[k]
  BY Zenon DEF Bitstreams
<1>6. (\E k \in DOMAIN nals : Len(nals) = 1 /\ data = nals[k]) => (Len(nals) = 1 /\ data = nals[1])
  BY <1>1
<1> QED
  BY <1>2, <1>3, <1>4, <1>5, <1>6

\* The units of some types are a sequence of units.
LEMMA OfTypesIs ==
  ASSUME NEW U, NEW nals \in Seq(U), NEW types
  PROVE  OfTypes(nals, types) \in Seq(U)
<1> DEFINE n == Len(nals)
           T == {k \in 0..n : NalType(nals[k]) \in types}
           part == [k \in 0..n |-> <<nals[k]>>]
           upTo == CHOOSE f : f = [k \in 0..n |->
                     IF k = 0 THEN <<>>
                     ELSE IF NalType(nals[k]) \in types THEN f[k - 1] \o <<nals[k]>>
                     ELSE f[k - 1]]
<1>1. n \in Nat /\ \A k \in 1..n : nals[k] \in U
  BY LenProperties, ElementOfSeq
<1>2. OfTypes(nals, types) = upTo[n]
  BY DEF OfTypes
<1>3. \A f : Builds(f, 0, n, <<>>, T, part) <=>
               f = [k \in 0..n |->
                     IF k = 0 THEN <<>>
                     ELSE IF NalType(nals[k]) \in types THEN f[k - 1] \o <<nals[k]>>
                     ELSE f[k - 1]]
  <2> SUFFICES ASSUME NEW f
               PROVE  [k \in 0..n |-> IF k = 0 THEN <<>>
                                      ELSE IF k \in T THEN f[k - 1] \o part[k]
                                      ELSE f[k - 1]]
                      = [k \in 0..n |->
                           IF k = 0 THEN <<>>
                           ELSE IF NalType(nals[k]) \in types THEN f[k - 1] \o <<nals[k]>>
                           ELSE f[k - 1]]
    BY DEF Builds
  <2>1. \A k \in 0..n : (k \in T <=> NalType(nals[k]) \in types) /\ part[k] = <<nals[k]>>
    OBVIOUS
  <2> HIDE DEF T, part, n
  <2> QED
    BY <2>1
<1>4. Builds(upTo, 0, n, <<>>, T, part)
  <2>1. \E f : Builds(f, 0, n, <<>>, T, part)
    <3> HIDE DEF n, T, part
    <3> QED
      BY <1>1, BuilderExists
  <2> HIDE DEF T, part, n
  <2> QED
    BY <2>1, <1>3
<1> HIDE DEF upTo
<1>5. Material(U, 0, n, <<>>, T, part)
  <2>1. ASSUME NEW i \in 0..n, i \in T, i \in 0 + 1..n
        PROVE  part[i] \in Seq(U)
    <3>1. nals[i] \in U /\ part[i] = <<nals[i]>>
      BY <1>1, <2>1
    <3> QED
      BY <3>1
  <2> QED
    BY <2>1 DEF Material
<1>6. InOrder(U, upTo, 0, n)
  <2> HIDE DEF n, T, part
  <2> QED
    BY <1>1, <1>4, <1>5, BuiltInOrder
<1>7. n \in 0..n
  BY <1>1
<1> HIDE DEF n
<1> QED
  BY <1>2, <1>6, <1>7 DEF InOrder

\* A parameter set is a unit of the access unit, or missing.
LEMMA LastOfIs ==
  ASSUME NEW nals \in Seq(Unit), NEW types
  PROVE  LastOf(nals, types) \in Seq(Nat)
<1> DEFINE found == OfTypes(nals, types)
<1>1. found \in Seq(Unit)
  BY OfTypesIs
<1>2. CASE found = <<>>
  BY <1>2 DEF LastOf
<1>3. CASE found # <<>>
  <2>1. Len(found) \in 1..Len(found)
    BY <1>1, <1>3, EmptySeq, LenProperties
  <2>2. LastOf(nals, types) = found[Len(found)]
    BY <1>3 DEF LastOf, Last
  <2> HIDE DEF found
  <2>3. found[Len(found)] \in Unit
    BY <1>1, <2>1, ElementOfSeq
  <2> QED
    BY <2>2, <2>3, UnitIs
<1> QED
  BY <1>2, <1>3

\* Slices make a payload, and the TV finds them in it.
LEMMA SlicesArrive ==
  ASSUME NEW vcl \in Seq(Unit)
  PROVE  /\ NalsToAvcc(vcl) \in Seq(Nat)
         /\ TvUnits(NalsToAvcc(vcl)) = vcl
         /\ vcl # <<>> => NalsToAvcc(vcl) # <<>>
<1> DEFINE data == NalsToAvcc(vcl)
<1>1. vcl \in Seq(Seq(Nat))
  <2>1. Unit \subseteq Seq(Nat)
    BY UnitIs
  <2> QED
    BY <2>1, SeqMonotonic
<1>2. PICK off : Prefixed(data, vcl, off)
  BY <1>1, AvccPrefixed
<1>3. TvUnits(data) = vcl
  BY <1>1, <1>2, TvReads
<1>4. ASSUME vcl # <<>>
      PROVE  data # <<>>
  <2>1. 1 \in 1..Len(vcl)
    BY <1>4, EmptySeq
  <2>2. 1 + 3 <= Len(data)
    BY <1>2, <2>1 DEF Prefixed
  <2> QED
    BY <2>2
<1> QED
  BY <1>2, <1>3, <1>4 DEF Prefixed

\* What is on its way of the last access unit.
Arrival ==
  /\ unit \in Seq(Unit)
  /\ payload = <<>> => OfTypes(unit, VclTypes) = <<>>
  /\ payload # <<>> => /\ payload = NalsToAvcc(OfTypes(unit, VclTypes))
                       /\ header.len = Len(payload) /\ size = Len(payload)
  /\ config # <<>> =>
       config = BuildAvccConfig(LastOf(unit, SpsTypes), LastOf(unit, PpsTypes))

LEMMA InitArrival == PacketInit => Arrival
<1>1. <<>> \in Seq(Unit) /\ <<>> \in Seq({})
  OBVIOUS
<1>2. OfTypes(<<>>, VclTypes) \in Seq({})
  BY <1>1, OfTypesIs
<1>3. OfTypes(<<>>, VclTypes) = <<>>
  <2> DEFINE s == OfTypes(<<>>, VclTypes)
  <2>1. s \in Seq({})
    BY <1>2
  <2> HIDE DEF s
  <2>2. s # <<>> => 1 \in 1..Len(s)
    BY <2>1, EmptySeq
  <2>3. s # <<>> => s[1] \in {}
    BY <2>1, <2>2, ElementOfSeq
  <2> QED
    BY <2>3 DEF s
<1> QED
  BY <1>1, <1>3 DEF PacketInit, Arrival

LEMMA NextArrival == Arrival /\ [PacketNext]_allVars => Arrival'
<1> SUFFICES ASSUME Arrival, [PacketNext]_allVars
             PROVE  Arrival'
  OBVIOUS
<1>1. CASE UNCHANGED <<size, packetVars>>
  BY <1>1 DEF Arrival, packetVars
<1>2. CASE SendSome
  <2>0. PICK nals \in AccessUnits :
          \E data \in Bitstreams(nals) : \E key, resized \in BOOLEAN :
            SendAccessUnit(nals, PartitionAccessUnit(data), key, resized)
    BY <1>2 DEF SendSome
  <2>1. PICK data \in Bitstreams(nals) : \E key, resized \in BOOLEAN :
          SendAccessUnit(nals, PartitionAccessUnit(data), key, resized)
    BY <2>0
  <2>k. PICK key \in BOOLEAN, resized \in BOOLEAN :
          SendAccessUnit(nals, PartitionAccessUnit(data), key, resized)
    BY <2>1
  <2> DEFINE vcl == OfTypes(nals, VclTypes)
             sps == LastOf(nals, SpsTypes)
             pps == LastOf(nals, PpsTypes)
             parts == PartitionAccessUnit(data)
  <2>2. nals \in Seq(Unit) \ {<<>>}
    BY UnitsAssumption
  <2>3. ExtractNals(data) = nals
    BY <2>2, UnitsExtracted
  <2>4. parts.vcl = vcl /\ parts.sps = sps /\ parts.pps = pps
    BY <2>3 DEF PartitionAccessUnit
  <2>5. vcl \in Seq(Unit)
    BY <2>2, OfTypesIs
  <2> HIDE DEF parts
  <2>6. /\ unit' = nals
        /\ SendCodec(parts, key, resized)
        /\ IF parts.vcl = <<>> THEN NoPicture ELSE SendPicture(parts.vcl, key)
    BY <2>k DEF SendAccessUnit, parts
  <2>7. config' # <<>> => config' = BuildAvccConfig(sps, pps)
    BY <2>4, <2>6 DEF SendCodec
  <2> HIDE DEF vcl, sps, pps
  <2>8. CASE vcl = <<>>
    <3>1. payload' = <<>>
      BY <2>4, <2>6, <2>8 DEF NoPicture
    <3> QED
      BY <2>2, <2>6, <2>7, <2>8, <3>1 DEF Arrival, vcl, sps, pps
  <2>9. CASE vcl # <<>>
    <3>1. SendPicture(vcl, key)
      BY <2>4, <2>6, <2>9
    <3>2. payload' = NalsToAvcc(vcl) /\ EncryptFrame(Len(payload')) /\ header'.len = Len(payload')
      BY <3>1 DEF SendPicture
    <3>3. size' = Len(payload')
      BY <3>2 DEF EncryptFrame
    <3>4. payload' # <<>>
      BY <2>5, <2>9, <3>2, SlicesArrive
    <3> QED
      BY <2>2, <2>6, <2>7, <3>2, <3>3, <3>4 DEF Arrival, vcl, sps, pps
  <2> QED
    BY <2>8, <2>9
<1>3. CASE TimePasses \/ AnswerProbe \/ UNCHANGED allVars
  BY <1>1, <1>3 DEF TimePasses, AnswerProbe, allVars, vars
<1> QED
  BY <1>2, <1>3 DEF PacketNext

\* What is on its way arrives, as long as the payloads are one stream.
LEMMA ArrivalSuffices == Arrival /\ OneStream => AccessUnitArrives
<1> SUFFICES ASSUME Arrival, OneStream
             PROVE  AccessUnitArrives
  OBVIOUS
<1> DEFINE vcl == OfTypes(unit, VclTypes)
           sps == LastOf(unit, SpsTypes)
           pps == LastOf(unit, PpsTypes)
<1>1. unit \in Seq(Unit)
  BY DEF Arrival
<1>2. vcl \in Seq(Unit) /\ sps \in Seq(Nat) /\ pps \in Seq(Nat)
  BY <1>1, OfTypesIs, LastOfIs
<1>3. /\ payload = <<>> => vcl = <<>>
      /\ payload # <<>> => /\ payload = NalsToAvcc(vcl)
                           /\ header.len = Len(payload) /\ size = Len(payload)
      /\ config # <<>> => config = BuildAvccConfig(sps, pps)
  BY DEF Arrival
<1> HIDE DEF vcl, sps, pps
<1>4. config # <<>> => TvParameterSets(config) = <<sps, pps>>
  BY <1>2, <1>3, ParameterSetsFound
<1>5. ASSUME payload # <<>>, shorts = 0
      PROVE  TvUnits(Deciphered) = vcl
  <2>1. payload \in Seq(Nat) /\ TvUnits(payload) = vcl /\ size = Len(payload)
    BY <1>2, <1>3, <1>5, SlicesArrive
  <2>2. \A i \in 1..size : cipher[i] = total - size + i - 1
    BY <1>5 DEF OneStream
  <2>3. Deciphered = [i \in 1..size |-> payload[i]]
    BY <2>2 DEF Deciphered
  <2>4. payload = [i \in 1..Len(payload) |-> payload[i]]
    BY <2>1, LenProperties
  <2>5. Deciphered = payload
    BY <2>1, <2>3, <2>4
  <2> QED
    BY <2>1, <2>5
<1> QED
  BY <1>3, <1>4, <1>5 DEF AccessUnitArrives, vcl, sps, pps

\* The TV gets the slices of every access unit and no others, whole and in order,
\* and the last parameter sets of the unit if any are announced
\* (send_access_unit, partition_access_unit, nals_to_avcc, encrypt_frame).
THEOREM UnitsArrive == PacketSpec => []AccessUnitArrives
<1>1. PacketSpec => []Arrival
  BY InitArrival, NextArrival, PTL DEF PacketSpec
<1> QED
  BY <1>1, ArrivalSuffices, StreamsAsOne, PTL

=============================================================================
