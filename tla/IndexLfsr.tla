------------------------------ MODULE IndexLfsr ------------------------------
(***************************************************************************)
(* The generator of peer indices (struct IndexLfsr of device/mod.rs): a    *)
(* linear-feedback shift register whose state, less one and masked, is the *)
(* index.  A number is the function of its bits, bit 0 the least.          *)
(***************************************************************************)
EXTENDS Naturals

CONSTANTS
  Width,           \* bits of the register (24)
  LFSR_POLY        \* the taps (0xd80000: bits 23, 22, 20 and 19)

Positions == 0 .. Width - 1

(* The bit that the shift empties is tapped, as bit 23 is. *)
ASSUME LfsrAssumption ==
  /\ Width \in Nat \ {0}
  /\ LFSR_POLY \in SUBSET Positions /\ Width - 1 \in LFSR_POLY

Word == [Positions -> BOOLEAN]

Zero == [i \in Positions |-> FALSE]

(* Mutant: the taps are not applied. *)
shift_NoTaps(r) == [i \in Positions |-> i + 1 < Width /\ r[i + 1]]

(* (lfsr >> 1) ^ (if the bit shifted out is set then LFSR_POLY else 0)     *)
shift(r) == [i \in Positions |-> (i + 1 < Width /\ r[i + 1]) # (r[0] /\ i \in LFSR_POLY)]

(* lfsr - 1: a bit changes if all bits below it are clear.                 *)
less_one(r) == [i \in Positions |-> r[i] # (\A j \in 0 .. i - 1 : ~r[j])]

xor(r, mask) == [i \in Positions |-> r[i] # mask[i]]

(* random_index: never zero. *)
random_index == Word \ {Zero}

(* Default for IndexLfsr *)
default(seed, mask) == [initial |-> seed, lfsr |-> seed, mask |-> mask]

(* next: the index it returns ...                                          *)
index(r, mask) == xor(less_one(r), mask)

(* ... unless the register comes back to where it started, when it panics. *)
Exhausted(r, initial) == shift(r) = initial
=============================================================================
