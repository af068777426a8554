----------------------------- MODULE MCFrontier -----------------------------
(* Small instances of the frontier: a host with two URLs and one with one; *)
(* a process with room for two tasks and one with room for one.            *)
EXTENDS Frontier, TLC

CONSTANTS hA, hB, a1, a2, b1, wX, wY, x1, x2, y1

MCHostOf == [u \in Urls |-> IF u = b1 THEN hB ELSE hA]
MCPriorityOf == [u \in Urls |-> IF u = a1 THEN 1000 ELSE 500]
MCWorkerOf == [s \in Slots |-> IF s = y1 THEN wY ELSE wX]

\* Slots of one process are interchangeable.
MCSymmetry == Permutations({x1, x2})
=============================================================================
