---------------------------- MODULE Credentials ----------------------------
(***************************************************************************)
(* PairingManager (rotten-pairing/src/credentials.rs), pair-setup-pin      *)
(* (legacy_pin.rs) and CredentialsStore (rotten-core/src/config.rs): the   *)
(* commands `pair` and `mirror` load the store, pair with a TV unless the  *)
(* store knows it, and write the whole store back.                         *)
(*                                                                         *)
(* Commands are processes of their own that share one file and no lock.    *)
(* A save opens the file, which empties it, and then writes it: another    *)
(* process, or a crash, may come between the two.  Credentials are the     *)
(* number of the key pair they hold; those made later have a higher one.   *)
(***************************************************************************)
EXTENDS Integers, FiniteSets

CONSTANTS
  Processes,            \* commands that may be running
  Devices,              \* device_ids, each of a TV of its own
  MaxPairings,          \* key pairs generated (a bound of the model)
  Faults                \* may processes crash and writes fail

ASSUME CredentialsAssumption ==
  /\ IsFiniteSet(Devices)
  /\ MaxPairings \in Nat
  /\ Faults \in BOOLEAN

VARIABLES
  file,                 \* the credentials file
  pc,                   \* what each command awaits or does next
  device, force,        \* its arguments: the TV and --force
  store,                \* PairingManager.store
  key,                  \* the key pair of its pairing, 0 before start_pairing
  pinRight,             \* was the PIN given the one on the screen
  pairings,             \* key pairs generated so far
  known,                \* key pairs each TV has registered (external)
  reported,             \* history: the credentials last handed out, by TV
  overlaps              \* history: has a command been started while another ran

vars == <<file, pc, device, force, store, key, pinRight, pairings, known, reported,
          overlaps>>
command == <<device, force, store, key, pinRight>>

None == 0
Stores == [Devices -> 0..MaxPairings]
Empty == [d \in Devices |-> None]
Size(s) == Cardinality({d \in Devices : s[d] # None})

\* "empty" and "garbled" files are not JSON; devices is what a good one holds.
Files == [kind : {"missing", "empty", "garbled", "good"}, devices : Stores]
Bad(k) == [kind |-> k, devices |-> Empty]
Good(s) == [kind |-> "good", devices |-> s]

Steps == {"start", "pin", "step1", "step2", "step3"}

Init ==
  /\ file = Bad("missing")
  /\ pc = [p \in Processes |-> "idle"]
  /\ device \in [Processes -> Devices]
  /\ force = [p \in Processes |-> FALSE]
  /\ store = [p \in Processes |-> Empty]
  /\ key = [p \in Processes |-> None]
  /\ pinRight = [p \in Processes |-> FALSE]
  /\ pairings = 0
  /\ known = [d \in Devices |-> {}]
  /\ reported = Empty
  /\ overlaps = "none"

Goto(p, l) == pc' = [pc EXCEPT ![p] = l]

\* "Paired with ...", or the credentials mirror connects with.
Report(d, k) == reported' = [reported EXCEPT ![d] = k]

(***************************************************************************)
(* PairingManager::load and the beginning of pair.                         *)
(***************************************************************************)
\* A missing file is an empty store; what is not JSON is an error.
Load(p) ==
  /\ pc[p] = "idle"
  /\ file.kind \in {"missing", "good"}
  /\ \E d \in Devices, f \in BOOLEAN :
       /\ device' = [device EXCEPT ![p] = d]
       /\ force' = [force EXCEPT ![p] = f]
       /\ IF ~f /\ file.devices[d] # None
          THEN Report(d, file.devices[d]) /\ UNCHANGED pc
          ELSE Goto(p, "start") /\ UNCHANGED reported
  /\ store' = [store EXCEPT ![p] = file.devices]
  /\ overlaps' = IF \A q \in Processes : pc[q] = "idle" THEN overlaps ELSE "some"
  /\ UNCHANGED <<file, key, pinRight, pairings, known>>

(***************************************************************************)
(* start_pairing, the prompt, finish_pairing.                              *)
(***************************************************************************)
Start(p) ==
  /\ pc[p] = "start"
  /\ pairings < MaxPairings
  /\ pairings' = pairings + 1
  /\ key' = [key EXCEPT ![p] = pairings + 1]
  /\ Goto(p, "pin")
  /\ UNCHANGED <<file, device, force, store, pinRight, known, reported,
                 overlaps>>

EnterPin(p) ==
  /\ pc[p] = "pin"
  /\ \E r \in BOOLEAN : pinRight' = [pinRight EXCEPT ![p] = r]
  /\ Goto(p, "step1")
  /\ UNCHANGED <<file, device, force, store, key, pairings, known, reported,
                 overlaps>>

Step1(p) ==
  /\ pc[p] = "step1"
  /\ Goto(p, "step2")
  /\ UNCHANGED <<file, command, pairings, known, reported, overlaps>>

\* The proofs of step 2 match only when the PIN is right.
Step2(p) ==
  /\ pc[p] = "step2"
  /\ pinRight[p]
  /\ Goto(p, "step3")
  /\ UNCHANGED <<file, command, pairings, known, reported, overlaps>>

\* The TV registers the client's key when it gets step 3 (external).
Register(p) == known' = [known EXCEPT ![device[p]] = @ \cup {key[p]}]

\* Mutant: credentials that are there already are kept.
UpsertKeeping(p) ==
  store' = [store EXCEPT ![p][device[p]] = IF @ = None THEN key[p] ELSE @]

Upsert(p) == store' = [store EXCEPT ![p][device[p]] = key[p]]

\* The TV's answer to step 3 is checked: only then are there credentials.
Step3(p) ==
  /\ pc[p] = "step3"
  /\ Register(p)
  /\ Upsert(p)
  /\ Goto(p, "open")
  /\ UNCHANGED <<file, device, force, key, pinRight, pairings, reported,
                 overlaps>>

\* Mutant: a request that fails does not end the pairing.
ExchangeFailsOnward(p) ==
  /\ pc[p] = "step3"
  /\ Upsert(p)
  /\ Goto(p, "open")
  /\ UNCHANGED <<file, device, force, key, pinRight, pairings, known,
                 reported, overlaps>>

\* An error, a timeout, an empty answer or one that cannot be read ends the
\* command, also when it is the answer to a step the TV has taken.
ExchangeFails(p) ==
  /\ pc[p] \in Steps
  /\ Goto(p, "idle")
  /\ \/ pc[p] = "step3" /\ Register(p)
     \/ UNCHANGED known
  /\ UNCHANGED <<file, command, pairings, reported, overlaps>>

(***************************************************************************)
(* CredentialsStore::save.                                                 *)
(***************************************************************************)
\* ensure_private_dir, and the open that truncates.
Open(p) ==
  /\ pc[p] = "open"
  /\ \/ file' = Bad("empty") /\ Goto(p, "write")
     \/ Faults /\ Goto(p, "idle") /\ UNCHANGED file
  /\ UNCHANGED <<command, pairings, known, reported, overlaps>>

\* What is there after s is written over f, which another process has written
\* since this one opened the file: the end of a longer text stays behind.
\* Texts of equally many devices may have any length.
Overwritten(f, s) ==
  LET whole == f.kind = "good" => Size(f.devices) <= Size(s)
      longer == \/ f.kind = "garbled"
                \/ f.kind = "good" /\ f.devices # s /\ Size(f.devices) >= Size(s)
  IN  {c \in {Good(s), Bad("garbled")} : IF c.kind = "good" THEN whole ELSE longer}

Write(p) ==
  /\ pc[p] = "write"
  /\ file' \in Overwritten(file, store[p])
  /\ Report(device[p], key[p])
  /\ Goto(p, "idle")
  /\ UNCHANGED <<command, pairings, known, overlaps>>

(***************************************************************************)
(* Failures: a full disk, a process killed at any point.                   *)
(***************************************************************************)
WriteFails(p) ==
  /\ Faults
  /\ pc[p] = "write"
  /\ file' \in {file, Bad("garbled")}
  /\ Goto(p, "idle")
  /\ UNCHANGED <<command, pairings, known, reported, overlaps>>

Crash(p) ==
  /\ Faults
  /\ pc[p] # "idle"
  /\ Goto(p, "idle")
  /\ file' \in IF pc[p] = "write" THEN {file, Bad("garbled")} ELSE {file}
  /\ UNCHANGED <<command, pairings, known, reported, overlaps>>

\* Somebody deletes a file that cannot be read (external).
DeleteBadFile ==
  /\ file.kind \in {"empty", "garbled"}
  /\ \A p \in Processes : pc[p] = "idle"
  /\ file' = Bad("missing")
  /\ reported' = Empty
  /\ UNCHANGED <<pc, command, pairings, known, overlaps>>

Command(p) ==
  \/ Load(p)
  \/ Start(p)
  \/ EnterPin(p)
  \/ Step1(p)
  \/ Step2(p)
  \/ Step3(p)
  \/ ExchangeFails(p)
  \/ Open(p)
  \/ Write(p)
  \/ WriteFails(p)
  \/ Crash(p)

Next == (\E p \in Processes : Command(p)) \/ DeleteBadFile

Spec == Init /\ [][Next]_vars

(***************************************************************************)
(* Properties.                                                             *)
(***************************************************************************)

\* Types of the variables.
TypeOK ==
  /\ file \in Files
  /\ pc \in [Processes -> Steps \cup {"idle", "open", "write"}]
  /\ device \in [Processes -> Devices]
  /\ force \in [Processes -> BOOLEAN]
  /\ store \in [Processes -> Stores]
  /\ key \in [Processes -> 0..MaxPairings]
  /\ pinRight \in [Processes -> BOOLEAN]
  /\ pairings \in 0..MaxPairings
  /\ known \in [Devices -> SUBSET (1..MaxPairings)]
  /\ reported \in Stores
  /\ overlaps \in {"none", "some"}

\* Whatever is handed out or can be read from the file was registered by the
\* TV it is filed under: also after crashes, failures and overlapping saves,
\* and with a pairing that broke off.
CredentialsRegistered ==
  \A d \in Devices :
    /\ reported[d] # None => reported[d] \in known[d]
    /\ file.devices[d] # None => file.devices[d] \in known[d]

Saving == \E p \in Processes : pc[p] = "write"

\* The file holds what was handed out for d, or something newer.
Kept(d) == file.devices[d] >= reported[d]

\* As long as commands do not overlap nothing is lost silently: a file that can
\* be read has the credentials of every TV, and one that a crash or a failed
\* write has spoilt is not taken for an empty store.
LossIsNoticed ==
  ~Saving /\ overlaps = "none" =>
    file.kind \in {"empty", "garbled"} \/ \A d \in Devices : Kept(d)

(***************************************************************************)
(* The inductive invariant of CredentialsRegistered: the snapshots that    *)
(* commands hold are registered too, and so is the key a save adds.        *)
(***************************************************************************)
SnapshotsRegistered ==
  \A p \in Processes, d \in Devices :
    store[p][d] # None => store[p][d] \in known[d]

SavedKeyRegistered ==
  \A p \in Processes :
    pc[p] \in {"open", "write"} => key[p] \in known[device[p]]

KeyPairMade ==
  \A p \in Processes : pc[p] \notin {"idle", "start"} => key[p] # None

IInv ==
  /\ TypeOK
  /\ KeyPairMade
  /\ CredentialsRegistered
  /\ SnapshotsRegistered
  /\ SavedKeyRegistered
=============================================================================
