----------------------------- MODULE RingSizing -----------------------------
(***************************************************************************)
(* ring.New's arithmetic (ring/buffer.go): nextPowerOfTwo smears the bits  *)
(* of the requested capacity, and the mask capacity - 1 turns a sequence   *)
(* number into a slot.  RingBuffer takes both for granted: its Capacity is *)
(* the rounded one and its Slot is a remainder.                            *)
(***************************************************************************)
EXTENDS Integers, Bitwise
LOCAL INSTANCE SequencesExt

(* Mutant: one shift is missing.                                            *)
ShiftsWithGap == <<1, 2, 4, 16, 16>>

(* The shifts of nextPowerOfTwo, in order.                                  *)
Shifts == <<1, 2, 4, 8, 16>>

(* v |= v >> shift                                                          *)
Smear(v, shift) == v | (v \div 2 ^ shift)

NextPowerOfTwo(v) == IF v <= 1 THEN 1 ELSE FoldLeft(Smear, v - 1, Shifts) + 1

(* seq & mask                                                               *)
Masked(seq, capacity) == seq & (capacity - 1)
=============================================================================
