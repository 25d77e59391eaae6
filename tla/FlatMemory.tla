---------------------------- MODULE FlatMemory ----------------------------
(***************************************************************************)
(* What a guest program may expect of its memory, however it is kept: a    *)
(* read gives the bytes last written, 0 where nothing was; instructions of *)
(* the code region are those that were there when it was sealed.  FpMemory *)
(* implements it.                                                          *)
(***************************************************************************)
EXTENDS Integers, Sequences

CONSTANTS
  Space,                \* number of addresses; address Space is address 0
  Starts,               \* addresses at which accesses begin
  Payloads,             \* what is written: sequences of bytes
  Lengths,              \* how much is read
  CodeAddresses         \* the code region

VARIABLES
  bytes,                \* the memory
  code,                 \* the code region when it was sealed
  sealed,               \* has it been
  result                \* what the last read or fetch returned

vars == <<bytes, code, sealed, result>>

Addresses == 0..Space-1
At(a, i) == (a + i) % Space
Zeros == [a \in Addresses |-> 0]

Init ==
  /\ bytes = Zeros
  /\ code = Zeros
  /\ sealed = FALSE
  /\ result = <<>>

\* How far b is behind a.
Distance(a, b) == (b - a) % Space

Write(a, data) ==
  /\ bytes' = [b \in Addresses |->
                 IF Distance(a, b) < Len(data) THEN data[Distance(a, b) + 1] ELSE bytes[b]]
  /\ UNCHANGED <<code, sealed, result>>

Read(a, n) ==
  /\ result' = [i \in 1..n |-> bytes[At(a, i - 1)]]
  /\ UNCHANGED <<bytes, code, sealed>>

Seal ==
  /\ ~sealed
  /\ sealed' = TRUE
  /\ code' = [a \in Addresses |-> IF a \in CodeAddresses THEN bytes[a] ELSE 0]
  /\ UNCHANGED <<bytes, result>>

Fetch(a) ==
  /\ sealed
  /\ result' = [i \in 1..4 |-> IF a \in CodeAddresses THEN code[At(a, i - 1)]
                               ELSE bytes[At(a, i - 1)]]
  /\ UNCHANGED <<bytes, code, sealed>>

Next ==
  \/ \E a \in Starts, data \in Payloads : Write(a, data)
  \/ \E a \in Starts, n \in Lengths : Read(a, n)
  \/ Seal
  \/ \E a \in Addresses : a % 4 = 0 /\ Fetch(a)

Spec == Init /\ [][Next]_vars
=============================================================================
