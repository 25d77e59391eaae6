-------------------------- MODULE FpInstructions --------------------------
(***************************************************************************)
(* The ARM64 interpreter as a machine (tools/fpsap-helper/fpemu/           *)
(* fpexchange_interp.go): besides the flags of FpFlags, whose operands are *)
(* open, it executes instructions bit by bit (FpSimd), each on a processor *)
(* with given contents, and what it leaves is compared with what the ARM   *)
(* architecture says (FpArm).                                              *)
(***************************************************************************)
EXTENDS FpFlags, GuestCode

CONSTANTS
  Others,               \* instructions to execute besides those of the guest
  GuestFills,           \* contents of the processor for the guest's instructions
  OtherFills,           \* and for the others (bounds of the model)
  Register(_, _),       \* a register in one of them; 31 is SP and 32 is the PC
  Vector(_, _),         \* a vector register in one of them
  ByteAt(_, _)          \* a byte of memory in one of them

VARIABLES
  cpu,                  \* the processor after the instruction
  inst,                 \* history: the instruction, or NoInstruction
  handler,              \* history: the fpExec function that executed it
  from                  \* history: the processor before it

A == INSTANCE FpArm

machine == <<cpu, inst, handler, from>>
everything == <<vars, machine>>

NoInstruction == {}

\* Registers have 64 bits, vectors two words of them.
ASSUME ContentsAssumption ==
  \A fill \in GuestFills \cup OtherFills :
    /\ \A r \in 0..32 : Register(fill, r) \subseteq 0..63
    /\ \A r \in 0..31 : Vector(fill, r) \in (SUBSET (0..63)) \X (SUBSET (0..63))

\* The instructions of the guest's code.
Guest == {A!Halves(w[1], w[2]) : w \in GuestWords}

\* Instructions are words of 32 bits that the architecture says something of.
ASSUME EncodingAssumption ==
  \A i \in Guest \cup Others : i \subseteq 0..31 /\ ~A!LeftOpen(i)

Processor(fill, nzcv) ==
  [x |-> [r \in 0..31 |-> Register(fill, r)],
   v |-> [r \in 0..31 |-> Vector(fill, r)],
   pc |-> Register(fill, 32),
   nzcv |-> nzcv,
   stores |-> <<>>,
   error |-> FALSE,
   fill |-> fill]

Idle == [error |-> FALSE]

MachineInit ==
  /\ Init
  /\ cpu = Idle
  /\ inst = NoInstruction
  /\ handler = "none"
  /\ from = Idle

nzcv == <<n = 1, z = 1, c = 1, v = 1>>

\* Only these look at the flags; the others are tried with the flags clear (a
\* bound of the model).
LooksAtFlags(i) == A!Handler(i) \in {"BCond", "CondCompare", "CondSelect"}

\* Between two examples, after instructions that set the flags anyhow and at
\* the first instruction only (bounds of the model).
Ready == inst = NoInstruction /\ kind = "none" /\ pc = 0

\* fpStep.  The flags come from instructions before, the rest from a fill.
Execute(i, fill) ==
  /\ LooksAtFlags(i) \/ nzcv = <<FALSE, FALSE, FALSE, FALSE>>
  /\ inst' = i
  /\ handler' = A!Handler(i)
  /\ from' = Processor(fill, nzcv)
  /\ cpu' = A!Executed(Processor(fill, nzcv), i)
  /\ UNCHANGED vars

\* On to another example.
Finish ==
  /\ inst # NoInstruction
  /\ inst' = NoInstruction
  /\ handler' = "none"
  /\ cpu' = Idle
  /\ from' = Idle
  /\ UNCHANGED vars

FlagsStep ==
  /\ inst = NoInstruction
  /\ Next
  /\ UNCHANGED machine

MachineNext ==
  \/ FlagsStep
  \/ Ready /\ \E i \in Guest, fill \in GuestFills : Execute(i, fill)
  \/ Ready /\ \E i \in Others, fill \in OtherFills : Execute(i, fill)
  \/ Finish

MachineSpec == MachineInit /\ [][MachineNext]_everything

(***************************************************************************)
(* Properties.                                                             *)
(***************************************************************************)
Executed == inst # NoInstruction /\ ~cpu.error
AsInArm == Executed /\ ~A!TakenForOthers(inst) /\ ~A!KeepsUpperHalf(from, inst)

\* The general registers hold what the architecture says, and others are left
\* alone: results of 32 bits are extended, register 31 is read and written as
\* what it is there, and no mask, carry or sign is lost on the way.
RegistersAsArm == AsInArm => cpu.x = A!ArmX(from, inst, cpu.x[A!Rd(inst)])

\* So do the vectors, lane by lane.
VectorsAsArm == AsInArm => [r \in 0..31 |-> A!VectorBits(cpu, r)] = A!ArmV(from, inst)

\* The flags are those of the architecture, and kept where it keeps them.
FlagsAsArm == AsInArm => cpu.nzcv = A!ArmFlags(from, inst)

\* A branch is taken when the architecture takes it, to the target it computes,
\* and any other instruction goes on to the next.
BranchesAsArm == AsInArm => cpu.pc = A!ArmPC(from, inst)

\* Every instruction leaves in the registers, the vectors, the flags and the
\* program counter what the architecture says, and nothing else.
ComputesAsArm == RegistersAsArm /\ VectorsAsArm /\ FlagsAsArm /\ BranchesAsArm

\* The bytes in memory that the stores of an instruction write.
StoredBytes(stores) ==
  UNION {{<<A!ArmSum(stores[k][1], A!Word(b), 0, 64), A!Slice(stores[k][3], 8*b + 7, 8*b)>>
            : b \in 0..stores[k][2]-1} : k \in DOMAIN stores}

\* Stores write exactly the bytes of the architecture: of as many bytes as
\* asked, from the lowest, at the old or the new address.
AddressesAsArm == AsInArm => StoredBytes(cpu.stores) = A!ArmStores(from, inst)

\* The interpreter knows the instructions of the guest, and the guest has none
\* that it takes for others.
GuestExecutes == inst \in Guest => ~cpu.error /\ ~A!TakenForOthers(inst)
=============================================================================
