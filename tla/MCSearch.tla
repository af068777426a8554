------------------------------ MODULE MCSearch ------------------------------
(* Small segments: every list of two terms over four documents in blocks   *)
(* of two, short and long documents.                                       *)
EXTENDS Search

CONSTANTS p, q

MCIdf == [t \in Terms |-> IF t = p THEN 1 ELSE 2]
MCLengths == {[d \in 0 .. 3 |-> IF d \in {0, 3} THEN 2 ELSE 9]}
MCTombstones == {{}, {1}}
\* Another segment, of a short document or of a long one.
MCElsewhere == {[docs |-> 1, tokens |-> n] : n \in {2, 40}}
=============================================================================
