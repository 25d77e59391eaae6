------------------------------ MODULE MirrorAes ------------------------------
(***************************************************************************)
(* MirrorAesCtr::encrypt_frame (rotten-crypto/src/mirror_aes.rs): AES-CTR  *)
(* over a stream of frames of any length.  Only whole blocks are asked of  *)
(* the cipher; what a frame leaves of its last block is kept for the next. *)
(*                                                                         *)
(* The keystream is the sequence of bytes 0, 1, 2, ... the cipher would    *)
(* produce; a ciphertext is the sequence of keystream bytes its payload    *)
(* was combined with.  og holds a block as the position of its first byte. *)
(***************************************************************************)
EXTENDS Integers

CONSTANTS
  Block,                \* bytes in an AES block
  MaxLength,            \* bytes in the longest payload (a bound of the model)
  MaxTotal              \* bytes in all payloads (a bound of the model)

ASSUME BlockAssumption ==
  /\ Block \in Nat \ {0}
  /\ MaxLength \in Nat
  /\ MaxTotal \in Nat

VARIABLES
  generated,            \* keystream bytes the cipher has produced
  og,                   \* og
  nextCryptCount,       \* next_crypt_count
  size,                 \* history: bytes in the last payload
  cipher,               \* history: keystream byte of each byte of the last frame
  total,                \* history: payload bytes encrypted
  used,                 \* history: one more than the last keystream byte used
  shorts                \* history: payloads shorter than what og held

vars == <<generated, og, nextCryptCount, size, cipher, total, used, shorts>>

Init ==
  /\ generated = 0
  /\ og = 0
  /\ nextCryptCount = 0
  /\ size = 0
  /\ cipher = [i \in 1..0 |-> 0]
  /\ total = 0
  /\ used = 0
  /\ shorts = 0

\* Mutant: what is kept of the last block is never used.
CarriedNone(len) == 0

\* Bytes of the payload that what is kept of the last block serves.
Carried(len) == IF nextCryptCount < len THEN nextCryptCount ELSE len

Remaining(len) == len - Carried(len)
Rest(len) == Remaining(len) % Block
FullBlocks(len) == Remaining(len) - Rest(len)

\* Keystream byte of byte i of the payload.
Keystream(len, i) ==
  IF i <= Carried(len)
  THEN og + (Block - nextCryptCount) + (i - 1)
  ELSE generated + (i - Carried(len) - 1)

\* Mutant: a frame that ends with a block leaves next_crypt_count alone.
KeepRestUnreset(len) ==
  IF Rest(len) > 0
  THEN /\ generated' = generated + FullBlocks(len) + Block
       /\ og' = generated + FullBlocks(len)
       /\ nextCryptCount' = Block - Rest(len)
  ELSE /\ generated' = generated + FullBlocks(len)
       /\ UNCHANGED <<og, nextCryptCount>>

\* The cipher's position, og and next_crypt_count after the frame: a rest is
\* padded to a block, whose unused bytes are kept.
KeepRest(len) ==
  IF Rest(len) > 0
  THEN /\ generated' = generated + FullBlocks(len) + Block
       /\ og' = generated + FullBlocks(len)
       /\ nextCryptCount' = Block - Rest(len)
  ELSE /\ generated' = generated + FullBlocks(len)
       /\ nextCryptCount' = 0
       /\ UNCHANGED og

\* The bounds of the model come first.  An empty payload uses nothing.
EncryptFrame(len) ==
  /\ len \in 0..MaxLength
  /\ total + len <= MaxTotal
  /\ size' = len
  /\ cipher' = [i \in 1..len |-> Keystream(len, i)]
  /\ KeepRest(len)
  /\ total' = total + len
  /\ used' = IF len = 0 THEN used ELSE Keystream(len, len) + 1
  /\ shorts' = IF len < nextCryptCount THEN shorts + 1 ELSE shorts

Next == \E len \in 0..MaxLength : EncryptFrame(len)

Spec == Init /\ [][Next]_vars

(***************************************************************************)
(* Properties.                                                             *)
(***************************************************************************)

\* Types of the variables.
TypeOK ==
  /\ generated \in Nat
  /\ og \in Nat
  /\ nextCryptCount \in 0..Block-1
  /\ size \in 0..MaxLength
  /\ cipher \in [1..size -> Int]
  /\ total \in Nat
  /\ used \in Int
  /\ shorts \in Nat

\* No keystream byte serves two payload bytes, of one frame or of several.
KeystreamOnce ==
  [][/\ \A i \in 1..size' : cipher'[i] >= used
     /\ \A i, j \in 1..size' : i < j => cipher'[i] < cipher'[j]]_vars

\* The frames are encrypted as one stream: byte n of the payloads with byte n
\* of the keystream.  That ends with the first payload shorter than what was
\* kept, whose surplus is thrown away.
OneStream ==
  shorts = 0 => \A i \in 1..size : cipher[i] = total - size + i - 1

(***************************************************************************)
(* The inductive invariant: what is kept of the last block is its end, and *)
(* nothing behind it has been used.                                        *)
(***************************************************************************)
KeptIsTail == nextCryptCount > 0 => og + Block = generated
NothingAhead == used <= generated - nextCryptCount
InStep == shorts = 0 => generated - nextCryptCount = total

IInv == TypeOK /\ KeptIsTail /\ NothingAhead /\ InStep /\ OneStream
=============================================================================
