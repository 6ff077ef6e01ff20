--------------------------- MODULE MCEmailOutbox ---------------------------
(* Instances of EmailOutbox for TLC: three requests, the first two of which *)
(* report the same business fact under one dedupe key.                      *)
EXTENDS EmailOutbox, TLC

CONSTANTS q1, q2, q3, e1, e2, k1

MCEventOf == [q \in Requests |-> IF q = q3 THEN e2 ELSE e1]
MCKeyOf == [q \in Requests |-> IF q = q3 THEN NoKey ELSE k1]

Symmetry == Permutations(Workers) \cup Permutations(Admins)
============================================================================
