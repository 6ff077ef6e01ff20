---------------------------- MODULE MCSlotBooking ----------------------------
(* Instances of SlotBooking for TLC: a slot with one seat and, where there is *)
(* a second one, a slot with two.                                             *)
EXTENDS SlotBooking, TLC

CONSTANTS s1, s2

MCCapacity == [s \in Slots |-> IF s = s1 THEN 1 ELSE 2]

Symmetry == Permutations(Clients) \cup Permutations(Resumes)
============================================================================
