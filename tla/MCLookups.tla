------------------------------ MODULE MCLookups ------------------------------
(* Two coroutines, in the same process or in two.                          *)
EXTENDS Lookups

CONSTANTS p1, p2, a, b

MCLayouts == {[s \in Slots |-> p1], [s \in Slots |-> IF s = a THEN p1 ELSE p2]}
=============================================================================
