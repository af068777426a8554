---------------------------- MODULE MCPoliteness ----------------------------
(* Small instances of politeness: two domains, two addresses. *)
EXTENDS Politeness, TLC

CONSTANTS dA, dB, i1, i2, s1, s2

MCSymmetry == Permutations({s1, s2}) \cup Permutations({dA, dB}) \cup Permutations({i1, i2})
=============================================================================
