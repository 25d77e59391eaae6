------------------------- MODULE CredentialsProofs -------------------------
(***************************************************************************)
(* Proofs about Credentials, for every set of commands and of TVs, with    *)
(* overlapping commands, crashes and failed writes.                        *)
(***************************************************************************)
EXTENDS Credentials, TLAPS

\* The first command finds no file and holds nothing.
LEMMA InitIInv == Init => IInv
  BY CredentialsAssumption
  DEF Init, IInv, TypeOK, CredentialsRegistered, SnapshotsRegistered,
      SavedKeyRegistered, KeyPairMade, Files, Bad, Stores, Empty, None, Steps

\* A file with nothing in it is well formed.
LEMMA BadFile == \A k \in {"missing", "empty", "garbled"} : Bad(k) \in Files
  BY CredentialsAssumption DEF Bad, Files, Stores, Empty, None

\* A write leaves either the store written or a file that is not JSON.
LEMMA OverwrittenIs ==
  ASSUME NEW f, NEW s, NEW g \in Overwritten(f, s)
  PROVE  g = Good(s) \/ g = Bad("garbled")
  BY DEF Overwritten

\* A snapshot of a file that holds registered keys holds registered keys.
LEMMA LoadStep ==
  ASSUME IInv, NEW p \in Processes, Load(p)
  PROVE  IInv'
<1> USE DEF IInv
<1>1. PICK d \in Devices, f \in BOOLEAN :
        /\ device' = [device EXCEPT ![p] = d]
        /\ force' = [force EXCEPT ![p] = f]
        /\ IF ~f /\ file.devices[d] # None
           THEN Report(d, file.devices[d]) /\ UNCHANGED pc
           ELSE Goto(p, "start") /\ UNCHANGED reported
  BY DEF Load
<1>2. /\ pc[p] = "idle"
      /\ store' = [store EXCEPT ![p] = file.devices]
      /\ UNCHANGED <<file, key, pinRight, pairings, known>>
      /\ overlaps' \in {overlaps, "some"}
  BY DEF Load
<1>3. file.devices \in Stores
  BY DEF TypeOK, Files
<1>4. TypeOK'
  BY <1>1, <1>2, <1>3 DEF TypeOK, Report, Goto, Steps, Stores
<1>5. CredentialsRegistered'
  BY <1>1, <1>2, <1>3 DEF CredentialsRegistered, TypeOK, Report, Stores
<1>6. SnapshotsRegistered'
  BY <1>2, <1>3 DEF SnapshotsRegistered, CredentialsRegistered, TypeOK
<1>7. SavedKeyRegistered'
  BY <1>1, <1>2 DEF SavedKeyRegistered, TypeOK, Goto
<1>8. KeyPairMade'
  BY <1>1, <1>2 DEF KeyPairMade, TypeOK, Goto
<1> QED
  BY <1>4, <1>5, <1>6, <1>7, <1>8

\* The steps before the TV registers the key pair.
LEMMA PairingStep ==
  ASSUME IInv, NEW p \in Processes, Start(p) \/ EnterPin(p) \/ Step1(p) \/ Step2(p)
  PROVE  IInv'
<1> USE DEF IInv
<1>1. /\ pc' = [pc EXCEPT ![p] = pc'[p]]
      /\ pc'[p] \in {"pin", "step1", "step2", "step3"}
      /\ UNCHANGED <<file, device, force, store, known, reported, overlaps>>
  BY DEF Start, EnterPin, Step1, Step2, Goto, command, TypeOK
<1>2. \A q \in Processes \ {p} : key'[q] = key[q]
  BY DEF Start, EnterPin, Step1, Step2, command, TypeOK
<1>3. TypeOK'
  <2>1. /\ pairings' \in 0..MaxPairings
        /\ key' \in [Processes -> 0..MaxPairings]
        /\ pinRight' \in [Processes -> BOOLEAN]
    BY CredentialsAssumption
    DEF Start, EnterPin, Step1, Step2, command, TypeOK
  <2> QED
    BY <1>1, <2>1 DEF TypeOK, Steps
<1>4. CredentialsRegistered' /\ SnapshotsRegistered'
  BY <1>1 DEF CredentialsRegistered, SnapshotsRegistered
<1>5. SavedKeyRegistered'
  BY <1>1, <1>2 DEF SavedKeyRegistered, TypeOK
<1>6. KeyPairMade'
  <2>1. key'[p] # None
    BY CredentialsAssumption
    DEF Start, EnterPin, Step1, Step2, command, TypeOK, KeyPairMade, None
  <2> QED
    BY <1>1, <1>2, <2>1 DEF KeyPairMade, TypeOK
<1> QED
  BY <1>3, <1>4, <1>5, <1>6

\* Step 3 registers the key on the TV before the store gets it.
LEMMA Step3Step ==
  ASSUME IInv, NEW p \in Processes, Step3(p)
  PROVE  IInv'
<1> USE DEF IInv
<1>1. /\ pc[p] = "step3"
      /\ pc' = [pc EXCEPT ![p] = "open"]
      /\ known' = [known EXCEPT ![device[p]] = known[device[p]] \cup {key[p]}]
      /\ store' = [store EXCEPT ![p] = [store[p] EXCEPT ![device[p]] = key[p]]]
      /\ UNCHANGED <<file, device, force, key, pinRight, pairings, reported, overlaps>>
  BY DEF Step3, Register, Upsert, Goto
<1>2. device[p] \in Devices /\ key[p] \in 1..MaxPairings
  BY <1>1, CredentialsAssumption DEF TypeOK, KeyPairMade, None
<1>3. \A d \in Devices : known[d] \subseteq known'[d]
  BY <1>1, <1>2 DEF TypeOK
<1>4. key[p] \in known'[device[p]]
  BY <1>1, <1>2 DEF TypeOK
<1>5. TypeOK'
  <2>1. known' \in [Devices -> SUBSET (1..MaxPairings)]
    BY <1>1, <1>2 DEF TypeOK
  <2>2. store' \in [Processes -> Stores]
    BY <1>1, <1>2 DEF TypeOK, Stores
  <2> QED
    BY <1>1, <2>1, <2>2 DEF TypeOK
<1>6. CredentialsRegistered'
  BY <1>1, <1>3 DEF CredentialsRegistered
<1>7. SnapshotsRegistered'
  BY <1>1, <1>2, <1>3, <1>4 DEF SnapshotsRegistered, TypeOK, Stores
<1>8. SavedKeyRegistered'
  BY <1>1, <1>2, <1>3, <1>4 DEF SavedKeyRegistered, TypeOK
<1>9. KeyPairMade'
  BY <1>1, <1>2 DEF KeyPairMade, TypeOK, None
<1> QED
  BY <1>5, <1>6, <1>7, <1>8, <1>9

\* A pairing that breaks off may register a key; it stores none.
LEMMA ExchangeFailsStep ==
  ASSUME IInv, NEW p \in Processes, ExchangeFails(p)
  PROVE  IInv'
<1> USE DEF IInv
<1>1. /\ pc[p] \in Steps
      /\ pc' = [pc EXCEPT ![p] = "idle"]
      /\ UNCHANGED <<file, device, force, store, key, pinRight, pairings, reported, overlaps>>
  BY DEF ExchangeFails, Goto, command
<1>2. \/ pc[p] = "step3" /\ known' = [known EXCEPT ![device[p]] = known[device[p]] \cup {key[p]}]
      \/ known' = known
  BY DEF ExchangeFails, Register
<1>3. /\ \A d \in Devices : known[d] \subseteq known'[d]
      /\ known' \in [Devices -> SUBSET (1..MaxPairings)]
  BY <1>2, CredentialsAssumption DEF TypeOK, KeyPairMade, None
<1>4. TypeOK'
  BY <1>1, <1>3 DEF TypeOK
<1>5. CredentialsRegistered' /\ SnapshotsRegistered'
  BY <1>1, <1>3 DEF CredentialsRegistered, SnapshotsRegistered
<1>6. SavedKeyRegistered' /\ KeyPairMade'
  BY <1>1, <1>3 DEF SavedKeyRegistered, KeyPairMade, TypeOK
<1> QED
  BY <1>4, <1>5, <1>6

\* A command that moves on to l, with a file that holds nothing.
LEMMA OpenStep ==
  ASSUME IInv, NEW p \in Processes, Open(p) \/ WriteFails(p) \/ Crash(p)
  PROVE  IInv'
<1> USE DEF IInv
<1>1. /\ UNCHANGED <<device, force, store, key, pinRight, pairings, known, reported, overlaps>>
      /\ file' = file \/ file' = Bad("empty") \/ file' = Bad("garbled")
  BY DEF Open, WriteFails, Crash, command
<1>2. /\ pc[p] # "idle"
      /\ \/ pc' = [pc EXCEPT ![p] = "idle"]
         \/ pc[p] = "open" /\ pc' = [pc EXCEPT ![p] = "write"]
  BY DEF Open, WriteFails, Crash, Goto
<1>3. TypeOK'
  BY <1>1, <1>2, BadFile DEF TypeOK
<1>4. CredentialsRegistered'
  BY <1>1 DEF CredentialsRegistered, Bad, Empty
<1>5. SnapshotsRegistered'
  BY <1>1 DEF SnapshotsRegistered
<1>6. SavedKeyRegistered' /\ KeyPairMade'
  BY <1>1, <1>2 DEF SavedKeyRegistered, KeyPairMade, TypeOK
<1> QED
  BY <1>3, <1>4, <1>5, <1>6

\* What a save leaves in the file is a snapshot, or nothing.
LEMMA WriteStep ==
  ASSUME IInv, NEW p \in Processes, Write(p)
  PROVE  IInv'
<1> USE DEF IInv
<1>1. /\ pc[p] = "write"
      /\ pc' = [pc EXCEPT ![p] = "idle"]
      /\ reported' = [reported EXCEPT ![device[p]] = key[p]]
      /\ UNCHANGED <<device, force, store, key, pinRight, pairings, known, overlaps>>
  BY DEF Write, Report, Goto, command
<1>2. file' = Good(store[p]) \/ file' = Bad("garbled")
  BY OverwrittenIs DEF Write
<1>3. TypeOK'
  <2>1. file' \in Files
    BY <1>2, BadFile DEF TypeOK, Files, Good
  <2>2. reported' \in Stores
    BY <1>1 DEF TypeOK, Stores
  <2> QED
    BY <1>1, <2>1, <2>2 DEF TypeOK
<1>4. CredentialsRegistered'
  <2>1. \A d \in Devices : file'.devices[d] # None => file'.devices[d] \in known'[d]
    BY <1>1, <1>2 DEF SnapshotsRegistered, Good, Bad, Empty
  <2>2. \A d \in Devices : reported'[d] # None => reported'[d] \in known'[d]
    BY <1>1 DEF CredentialsRegistered, SavedKeyRegistered, TypeOK, Stores
  <2> QED
    BY <2>1, <2>2 DEF CredentialsRegistered
<1>5. SnapshotsRegistered'
  BY <1>1 DEF SnapshotsRegistered
<1>6. SavedKeyRegistered' /\ KeyPairMade'
  BY <1>1 DEF SavedKeyRegistered, KeyPairMade, TypeOK
<1> QED
  BY <1>3, <1>4, <1>5, <1>6

\* Deleting a spoilt file takes back what was handed out.
LEMMA DeleteStep ==
  ASSUME IInv, DeleteBadFile
  PROVE  IInv'
<1> USE DEF IInv
<1>1. /\ file' = Bad("missing")
      /\ reported' = Empty
      /\ UNCHANGED <<pc, device, force, store, key, pinRight, pairings, known, overlaps>>
  BY DEF DeleteBadFile, command
<1>2. TypeOK'
  BY <1>1, BadFile, CredentialsAssumption DEF TypeOK, Stores, Empty, None
<1>3. CredentialsRegistered'
  BY <1>1 DEF CredentialsRegistered, Bad, Empty
<1>4. SnapshotsRegistered' /\ SavedKeyRegistered' /\ KeyPairMade'
  BY <1>1 DEF SnapshotsRegistered, SavedKeyRegistered, KeyPairMade
<1> QED
  BY <1>2, <1>3, <1>4

\* Every step preserves the inductive invariant.
LEMMA NextIInv == IInv /\ [Next]_vars => IInv'
<1> SUFFICES ASSUME IInv, [Next]_vars
             PROVE  IInv'
  OBVIOUS
<1>1. CASE \E p \in Processes : Command(p)
  BY <1>1, LoadStep, PairingStep, Step3Step, ExchangeFailsStep, OpenStep, WriteStep
  DEF Command
<1>2. CASE DeleteBadFile
  BY <1>2, DeleteStep
<1>3. CASE UNCHANGED vars
  BY <1>3
  DEF vars, command, IInv, TypeOK, CredentialsRegistered, SnapshotsRegistered,
      SavedKeyRegistered, KeyPairMade
<1> QED
  BY <1>1, <1>2, <1>3 DEF Next

\* The inductive invariant holds for every set of commands and TVs.
THEOREM Invariance == Spec => []IInv
<1>1. Init => IInv
  BY InitIInv
<1>2. IInv /\ [Next]_vars => IInv'
  BY NextIInv
<1> QED
  BY <1>1, <1>2, PTL DEF Spec

\* What is handed out, and what the file holds, was registered by its TV,
\* whatever overlaps, crashes or fails.
THEOREM OnlyRegistered == Spec => []CredentialsRegistered
<1>1. IInv => CredentialsRegistered
  BY DEF IInv
<1> QED
  BY <1>1, Invariance, PTL

(***************************************************************************)
(* LossIsNoticed: while commands do not overlap, the one that runs holds   *)
(* all that was handed out, and its own key pair is the newest there is.   *)
(***************************************************************************)
Made ==
  /\ \A d \in Devices : known[d] \subseteq 1..pairings
  /\ \A p \in Processes : key[p] <= pairings

Filed == \A p \in Processes : pc[p] \in {"open", "write"} => store[p][device[p]] = key[p]

Alone == \A p, q \in Processes : p # q => pc[p] = "idle" \/ pc[q] = "idle"
Held == \A p \in Processes : pc[p] # "idle" => \A d \in Devices : reported[d] <= store[p][d]
Latest == \A p \in Processes : pc[p] \notin {"idle", "start"} => key[p] = pairings
Emptied == \A p \in Processes : pc[p] = "write" => file.kind = "empty"

Undisturbed == overlaps = "none" => Alone /\ Held /\ Latest /\ Emptied

LossIInv ==
  /\ IInv
  /\ Made
  /\ Filed
  /\ Undisturbed
  /\ LossIsNoticed

\* Key pairs are numbered as they are made.
LEMMA Numbers ==
  ASSUME TypeOK, CredentialsRegistered, Made
  PROVE  /\ pairings \in Nat
         /\ \A p \in Processes : key[p] \in Nat /\ key[p] <= pairings
         /\ \A d \in Devices : /\ reported[d] \in Nat /\ file.devices[d] \in Nat
                               /\ reported[d] <= pairings
                               /\ \A p \in Processes : store[p][d] \in Nat
BY CredentialsAssumption DEF TypeOK, CredentialsRegistered, Made, Files, Stores, None

LEMMA InitLoss == Init => LossIInv
<1> SUFFICES ASSUME Init PROVE LossIInv
  OBVIOUS
<1>1. /\ \A p \in Processes : pc[p] = "idle" /\ key[p] = 0
      /\ \A d \in Devices : known[d] = {} /\ file.devices[d] = 0 /\ reported[d] = 0
      /\ pairings = 0
  BY DEF Init, Bad, Empty, None
<1> QED
  BY <1>1, InitIInv
  DEF LossIInv, Made, Filed, Undisturbed, Alone, Held, Latest, Emptied, LossIsNoticed, Kept

\* Load takes what the file holds, which is all there is: nobody is saving.
LEMMA LoadLoss ==
  ASSUME LossIInv, NEW p \in Processes, Load(p)
  PROVE  (Made /\ Filed /\ Undisturbed /\ LossIsNoticed)'
<1> USE DEF LossIInv, IInv
<1>1. PICK d \in Devices, f \in BOOLEAN :
        IF ~f /\ file.devices[d] # None
        THEN reported' = [reported EXCEPT ![d] = file.devices[d]] /\ UNCHANGED pc
        ELSE pc' = [pc EXCEPT ![p] = "start"] /\ UNCHANGED reported
  BY DEF Load, Report, Goto
<1>2. /\ pc[p] = "idle" /\ file.kind \in {"missing", "good"}
      /\ store' = [store EXCEPT ![p] = file.devices]
      /\ UNCHANGED <<file, key, pairings, known>>
      /\ \A q \in Processes \ {p} : device'[q] = device[q]
  BY DEF Load, TypeOK
<1>3. overlaps' = IF \A q \in Processes : pc[q] = "idle" THEN overlaps ELSE "some"
  BY DEF Load
<1>4. \A q \in Processes \ {p} : pc'[q] = pc[q] /\ store'[q] = store[q]
  BY <1>1, <1>2 DEF TypeOK
<1>5. pc'[p] \in {"idle", "start"} /\ store'[p] = file.devices
  BY <1>1, <1>2 DEF TypeOK
<1>6. Made'
  BY <1>2 DEF Made
<1>7. Filed'
  BY <1>2, <1>4, <1>5 DEF Filed
<1>8. ASSUME overlaps' = "none"
      PROVE  /\ \A q \in Processes : pc[q] = "idle"
             /\ \A e \in Devices : reported'[e] <= file.devices[e]
  <2>1. overlaps = "none" /\ \A q \in Processes : pc[q] = "idle"
    BY <1>3, <1>8
  <2>2. \A e \in Devices : reported[e] <= file.devices[e]
    BY <1>2, <2>1, Numbers DEF LossIsNoticed, Saving, Kept
  <2>3. \A e \in Devices : file.devices[e] <= file.devices[e]
    BY Numbers
  <2> QED
    BY <1>1, <2>1, <2>2, <2>3 DEF TypeOK, Stores
<1>9. Undisturbed'
  BY <1>4, <1>5, <1>8 DEF Undisturbed, Alone, Held, Latest, Emptied
<1>10. LossIsNoticed'
  <2> SUFFICES ASSUME overlaps' = "none" PROVE \A e \in Devices : Kept(e)'
    BY DEF LossIsNoticed
  <2>1. \A e \in Devices : reported'[e] \in Nat /\ file.devices[e] \in Nat
    BY <1>1, Numbers DEF TypeOK, Stores
  <2> QED
    BY <1>2, <1>8, <2>1 DEF Kept
<1> QED
  BY <1>6, <1>7, <1>9, <1>10

\* The key pair that is made is the newest.
LEMMA StartLoss ==
  ASSUME LossIInv, NEW p \in Processes, Start(p)
  PROVE  (Made /\ Filed /\ Undisturbed /\ LossIsNoticed)'
<1> USE DEF LossIInv, IInv
<1>1. /\ pc[p] = "start" /\ pc' = [pc EXCEPT ![p] = "pin"]
      /\ pairings' = pairings + 1 /\ key' = [key EXCEPT ![p] = pairings + 1]
      /\ UNCHANGED <<file, device, store, known, reported, overlaps>>
  BY DEF Start, Goto
<1>2. /\ pc'[p] = "pin" /\ key'[p] = pairings + 1
      /\ \A q \in Processes \ {p} : pc'[q] = pc[q] /\ key'[q] = key[q]
  BY <1>1 DEF TypeOK
<1>3. Made'
  BY <1>1, <1>2, Numbers DEF Made
<1>4. Filed'
  BY <1>1, <1>2 DEF Filed
<1>5. Undisturbed'
  BY <1>1, <1>2 DEF Undisturbed, Alone, Held, Latest, Emptied
<1>6. LossIsNoticed'
  BY <1>1, <1>2 DEF LossIsNoticed, Saving, Kept
<1> QED
  BY <1>3, <1>4, <1>5, <1>6

LEMMA PinLoss ==
  ASSUME LossIInv, NEW p \in Processes, EnterPin(p) \/ Step1(p) \/ Step2(p)
  PROVE  (Made /\ Filed /\ Undisturbed /\ LossIsNoticed)'
<1> USE DEF LossIInv, IInv
<1>1. /\ pc[p] \in {"pin", "step1", "step2"}
      /\ pc' = [pc EXCEPT ![p] = pc'[p]] /\ pc'[p] \in {"step1", "step2", "step3"}
      /\ UNCHANGED <<file, device, store, key, pairings, known, reported, overlaps>>
  BY DEF EnterPin, Step1, Step2, Goto, command, TypeOK
<1>2. \A q \in Processes \ {p} : pc'[q] = pc[q]
  BY <1>1 DEF TypeOK
<1>3. Made' /\ Filed'
  BY <1>1, <1>2 DEF Made, Filed
<1>4. Undisturbed'
  BY <1>1, <1>2 DEF Undisturbed, Alone, Held, Latest, Emptied
<1>5. LossIsNoticed'
  BY <1>1, <1>2 DEF LossIsNoticed, Saving, Kept
<1> QED
  BY <1>3, <1>4, <1>5

\* What is filed is not older than what was handed out for the TV.
LEMMA Step3Loss ==
  ASSUME LossIInv, NEW p \in Processes, Step3(p)
  PROVE  (Made /\ Filed /\ Undisturbed /\ LossIsNoticed)'
<1> USE DEF LossIInv, IInv
<1>1. /\ pc[p] = "step3" /\ pc' = [pc EXCEPT ![p] = "open"]
      /\ known' = [known EXCEPT ![device[p]] = known[device[p]] \cup {key[p]}]
      /\ store' = [store EXCEPT ![p] = [store[p] EXCEPT ![device[p]] = key[p]]]
      /\ UNCHANGED <<file, device, key, pairings, reported, overlaps>>
  BY DEF Step3, Register, Upsert, Goto
<1>2. device[p] \in Devices /\ key[p] \in 1..pairings
  <2>1. key[p] # 0
    BY <1>1 DEF KeyPairMade, None
  <2>2. key[p] \in Nat /\ key[p] <= pairings /\ pairings \in Nat
    BY Numbers
  <2> QED
    BY <2>1, <2>2 DEF TypeOK
<1>3. /\ pc'[p] = "open" /\ store'[p] = [store[p] EXCEPT ![device[p]] = key[p]]
      /\ \A q \in Processes \ {p} : pc'[q] = pc[q] /\ store'[q] = store[q]
  BY <1>1 DEF TypeOK
<1>4. /\ store'[p][device[p]] = key[p]
      /\ \A d \in Devices \ {device[p]} : store'[p][d] = store[p][d]
  BY <1>2, <1>3 DEF TypeOK, Stores
<1>5. Made'
  BY <1>1, <1>2 DEF Made, TypeOK
<1>6. Filed'
  BY <1>1, <1>3, <1>4 DEF Filed
<1>7. ASSUME overlaps = "none"
      PROVE  \A d \in Devices : reported[d] <= store'[p][d]
  <2>1. \A d \in Devices : reported[d] <= store[p][d]
    BY <1>1, <1>7 DEF Undisturbed, Held
  <2>2. reported[device[p]] <= key[p]
    BY <1>1, <1>2, <1>7, Numbers DEF Undisturbed, Latest
  <2> QED
    BY <1>4, <2>1, <2>2
<1>8. Undisturbed'
  BY <1>1, <1>3, <1>7 DEF Undisturbed, Alone, Held, Latest, Emptied
<1>9. LossIsNoticed'
  BY <1>1, <1>3 DEF LossIsNoticed, Saving, Kept
<1> QED
  BY <1>5, <1>6, <1>8, <1>9

\* A command that ends early, in a save or before it, leaves the file as it was
\* unless it has emptied it.
LEMMA BreakLoss ==
  ASSUME LossIInv, NEW p \in Processes, ExchangeFails(p) \/ WriteFails(p) \/ Crash(p)
  PROVE  (Made /\ Filed /\ Undisturbed /\ LossIsNoticed)'
<1> USE DEF LossIInv, IInv
<1>1. /\ pc[p] # "idle" /\ pc' = [pc EXCEPT ![p] = "idle"]
      /\ UNCHANGED <<device, store, key, pairings, reported, overlaps>>
  BY DEF ExchangeFails, WriteFails, Crash, Goto, command, Steps
<1>2. /\ pc'[p] = "idle"
      /\ \A q \in Processes \ {p} : pc'[q] = pc[q]
  BY <1>1 DEF TypeOK
<1>3. file' = file \/ (pc[p] = "write" /\ file' = Bad("garbled"))
  <2>1. CASE ExchangeFails(p)
    BY <2>1 DEF ExchangeFails
  <2>2. CASE WriteFails(p)
    BY <2>2 DEF WriteFails
  <2>3. CASE Crash(p)
    BY <2>3 DEF Crash
  <2> QED
    BY <2>1, <2>2, <2>3
<1>4. Made'
  <2>1. \/ known' = known
        \/ /\ pc[p] = "step3"
           /\ known' = [known EXCEPT ![device[p]] = known[device[p]] \cup {key[p]}]
    BY DEF ExchangeFails, WriteFails, Crash, Register
  <2>2. pc[p] = "step3" => key[p] \in 1..pairings
    BY Numbers DEF KeyPairMade, None
  <2>3. \A d \in Devices : known'[d] \subseteq 1..pairings
    BY <2>1, <2>2 DEF Made, TypeOK
  <2> QED
    BY <1>1, <2>3 DEF Made
<1>5. Filed'
  BY <1>1, <1>2 DEF Filed
<1>6. ASSUME overlaps = "none", NEW q \in Processes, q # p
      PROVE  pc[q] = "idle"
  BY <1>1, <1>6 DEF Undisturbed, Alone
<1>7. Undisturbed'
  BY <1>1, <1>2, <1>6 DEF Undisturbed, Alone, Held, Latest, Emptied
<1>8. LossIsNoticed'
  <2> SUFFICES ASSUME overlaps = "none", file'.kind \notin {"empty", "garbled"}
               PROVE  \A d \in Devices : Kept(d)'
    BY <1>1 DEF LossIsNoticed
  <2>1. file' = file
    BY <1>3 DEF Bad
  <2>2. pc[p] # "write"
    BY <2>1 DEF Undisturbed, Emptied
  <2>3. ~Saving
    BY <1>6, <2>2 DEF Saving
  <2> QED
    BY <1>1, <2>1, <2>3 DEF LossIsNoticed, Kept
<1> QED
  BY <1>4, <1>5, <1>7, <1>8

LEMMA OpenLoss ==
  ASSUME LossIInv, NEW p \in Processes, Open(p)
  PROVE  (Made /\ Filed /\ Undisturbed /\ LossIsNoticed)'
<1> USE DEF LossIInv, IInv
<1>1. /\ pc[p] = "open"
      /\ \/ file' = Bad("empty") /\ pc' = [pc EXCEPT ![p] = "write"]
         \/ file' = file /\ pc' = [pc EXCEPT ![p] = "idle"]
      /\ UNCHANGED <<device, store, key, pairings, known, reported, overlaps>>
  BY DEF Open, Goto, command
<1>2. /\ \/ file' = Bad("empty") /\ pc'[p] = "write"
         \/ file' = file /\ pc'[p] = "idle"
      /\ \A q \in Processes \ {p} : pc'[q] = pc[q]
  BY <1>1 DEF TypeOK
<1>3. Made' /\ Filed'
  BY <1>1, <1>2 DEF Made, Filed
<1>4. ASSUME overlaps = "none", NEW q \in Processes, q # p
      PROVE  pc[q] = "idle"
  BY <1>1, <1>4 DEF Undisturbed, Alone
<1>5. Undisturbed'
  BY <1>1, <1>2, <1>4 DEF Undisturbed, Alone, Held, Latest, Emptied, Bad
<1>6. LossIsNoticed'
  <2>1. CASE pc'[p] = "write"
    BY <2>1 DEF LossIsNoticed, Saving
  <2>2. CASE file' = file /\ overlaps = "none"
    <3>1. ~Saving
      BY <1>1, <1>4, <2>2 DEF Saving
    <3> QED
      BY <1>1, <2>2, <3>1 DEF LossIsNoticed, Kept
  <2> QED
    BY <1>1, <1>2, <2>1, <2>2 DEF LossIsNoticed
<1> QED
  BY <1>3, <1>5, <1>6

\* A save that nobody disturbs finds the file empty and leaves all it holds.
LEMMA WriteLoss ==
  ASSUME LossIInv, NEW p \in Processes, Write(p)
  PROVE  (Made /\ Filed /\ Undisturbed /\ LossIsNoticed)'
<1> USE DEF LossIInv, IInv
<1>1. /\ pc[p] = "write" /\ pc' = [pc EXCEPT ![p] = "idle"]
      /\ reported' = [reported EXCEPT ![device[p]] = key[p]]
      /\ file' \in Overwritten(file, store[p])
      /\ UNCHANGED <<device, store, key, pairings, known, overlaps>>
  BY DEF Write, Report, Goto, command
<1>2. /\ pc'[p] = "idle"
      /\ \A q \in Processes \ {p} : pc'[q] = pc[q]
  BY <1>1 DEF TypeOK
<1>3. Made' /\ Filed'
  BY <1>1, <1>2 DEF Made, Filed
<1>4. ASSUME overlaps = "none", NEW q \in Processes, q # p
      PROVE  pc[q] = "idle"
  BY <1>1, <1>4 DEF Undisturbed, Alone
<1>5. Undisturbed'
  BY <1>1, <1>2, <1>4 DEF Undisturbed, Alone, Held, Latest, Emptied
<1>6. LossIsNoticed'
  <2> SUFFICES ASSUME overlaps = "none" PROVE \A d \in Devices : Kept(d)'
    BY <1>1 DEF LossIsNoticed
  <2>1. file.kind = "empty"
    BY <1>1 DEF Undisturbed, Emptied
  <2>2. file'.devices = store[p]
    <3>1. file' # Bad("garbled")
      BY <1>1, <2>1 DEF Overwritten, Bad, Good
    <3> QED
      BY <1>1, <3>1, OverwrittenIs DEF Good
  <2>3. device[p] \in Devices /\ store[p][device[p]] = key[p]
    BY <1>1 DEF Filed, TypeOK
  <2>4. \A d \in Devices : reported[d] <= store[p][d]
    BY <1>1 DEF Undisturbed, Held
  <2>5. ASSUME NEW d \in Devices PROVE store[p][d] >= reported'[d]
    <3>1. CASE d = device[p]
      BY <3>1, <1>1, <2>3, Numbers DEF TypeOK, Stores
    <3>2. CASE d # device[p]
      BY <3>2, <1>1, <2>4, Numbers DEF TypeOK, Stores
    <3> QED
      BY <3>1, <3>2
  <2> QED
    BY <2>2, <2>5 DEF Kept
<1> QED
  BY <1>3, <1>5, <1>6

LEMMA DeleteLoss ==
  ASSUME LossIInv, DeleteBadFile
  PROVE  (Made /\ Filed /\ Undisturbed /\ LossIsNoticed)'
<1> USE DEF LossIInv, IInv
<1>1. /\ \A p \in Processes : pc[p] = "idle"
      /\ \A d \in Devices : file'.devices[d] = 0 /\ reported'[d] = 0
      /\ UNCHANGED <<pc, device, store, key, pairings, known, overlaps>>
  BY DEF DeleteBadFile, command, Bad, Empty, None
<1> QED
  BY <1>1 DEF Made, Filed, Undisturbed, Alone, Held, Latest, Emptied, LossIsNoticed, Kept

LEMMA NextLoss == LossIInv /\ [Next]_vars => LossIInv'
<1> SUFFICES ASSUME LossIInv, [Next]_vars
             PROVE  LossIInv'
  OBVIOUS
<1>1. IInv'
  BY NextIInv DEF LossIInv
<1>2. CASE \E p \in Processes : Command(p)
  BY <1>1, <1>2, LoadLoss, StartLoss, PinLoss, Step3Loss, BreakLoss, OpenLoss, WriteLoss
  DEF Command, LossIInv
<1>3. CASE DeleteBadFile
  BY <1>1, <1>3, DeleteLoss DEF LossIInv
<1>4. CASE UNCHANGED vars
  BY <1>1, <1>4
  DEF vars, LossIInv, Made, Filed, Undisturbed, Alone, Held, Latest, Emptied,
      LossIsNoticed, Saving, Kept
<1> QED
  BY <1>2, <1>3, <1>4 DEF Next

\* While commands do not overlap no credentials are lost unnoticed: the file has
\* those that were handed out, or newer ones, or cannot be read.
THEOREM NothingLostUnnoticed == Spec => []LossIsNoticed
<1>1. LossIInv => LossIsNoticed
  BY DEF LossIInv
<1> QED
  BY <1>1, InitLoss, NextLoss, PTL DEF Spec
=============================================================================
