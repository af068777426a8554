----------------------------- MODULE WorkQueue ------------------------------
(***************************************************************************)
(* What the frontier promises while the seen filter admits a URL once and  *)
(* nothing crashes: a URL is offered once, is leased to one task at a      *)
(* time, and leaves the frontier only by being finished, or by being       *)
(* refused when it is offered.                                             *)
(***************************************************************************)
CONSTANTS Urls, Slots

VARIABLE status    \* of a URL: a word, or the slot that holds it

Words == {"unknown", "queued", "finished", "refused"}

Init == status = [u \in Urls |-> "unknown"]

Offer(u) ==
  /\ status[u] = "unknown"
  /\ \E word \in {"queued", "refused"} :
       status' = [status EXCEPT ![u] = word]

\* A slot takes a URL that nobody holds, and holds no other.
Take(s, u) ==
  /\ status[u] = "queued"
  /\ \A v \in Urls : status[v] # s
  /\ status' = [status EXCEPT ![u] = s]

Return(s, u) ==
  /\ status[u] = s
  /\ status' = [status EXCEPT ![u] = "queued"]

Complete(s, u) ==
  /\ status[u] = s
  /\ status' = [status EXCEPT ![u] = "finished"]

Next ==
  \E u \in Urls :
    \/ Offer(u)
    \/ \E s \in Slots : Take(s, u) \/ Return(s, u) \/ Complete(s, u)

Spec == Init /\ [][Next]_status
=============================================================================
