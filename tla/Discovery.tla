----------------------------- MODULE Discovery ------------------------------
(***************************************************************************)
(* How a URL gets into the frontier: Frontier.add_many, with the per-site  *)
(* budget and the global seen-URL filter it asks on the way (dedup.py).    *)
(*                                                                         *)
(* Several callers (crawler processes offering seeds) run add_many at the  *)
(* same time over the same Redis; each await on shared state is a step of  *)
(* its own.  A batch is what is left of the offered URLs once malformed    *)
(* and trap-demoted ones are dropped, which reads Redis and writes         *)
(* nothing.  The back queues are seen here only as the set of URLs in      *)
(* them; module Frontier has the rest.                                     *)
(***************************************************************************)
EXTENDS Integers, Sequences, FiniteSets

CONSTANTS
  Callers,    \* processes that may be inside add_many
  Urls,       \* canonical URLs
  Spellings,  \* what URLs are offered as
  Canonical,  \* canonicalise, of a spelling and of what it makes of one
  Sites,      \* registrable domains
  SiteOf,     \* registrable_domain
  BitsOf,     \* the Bloom filter's positions for a URL's fingerprint
  Limit,      \* limit_for: what a site's authority earns it
  QueueCap,   \* 10_000 in _enqueue_one
  MaxBatch,   \* bound: the longest batch offered
  None

ASSUME CanonicalType ==
  /\ Urls \cup Spellings \subseteq DOMAIN Canonical
  /\ \A r \in Spellings : Canonical[r] \in DOMAIN Canonical /\ Canonical[Canonical[r]] \in Urls
  /\ \A u \in Urls : Canonical[u] = u
ASSUME SiteOfType == SiteOf \in [DOMAIN Canonical -> Sites]
\* canonicalise normalises the host the first time; the second leaves the site alone.
ASSUME SiteIsStable ==
  \A r \in Spellings : SiteOf[Canonical[Canonical[r]]] = SiteOf[Canonical[r]]
ASSUME BitsOfType == BitsOf \in [Urls -> SUBSET Nat]
ASSUME LimitType == Limit \in [Sites -> Nat]
ASSUME BoundsType == QueueCap \in Nat \ {0} /\ MaxBatch \in Nat \ {0}
ASSUME CallersFinite == IsFiniteSet(Callers)
ASSUME NoneIsNoValue == None \notin Urls \cup Nat

VARIABLES
  spent,      \* budget:{domain}
  expiring,   \* the sites whose budget key has a TTL
  bloom,      \* the bits that are set
  exact,      \* the exact store
  queue,      \* the URLs in a back queue
  at,         \* where a caller is in add_many
  batch,      \* the URLs its budget loop has yet to look at, in order
  allow,      \* its `remaining`; None for a site it has not read
  todo,       \* the URLs its current loop has yet to treat
  fresh,      \* the URLs it takes for new
  maybe,      \* the URLs the Bloom filter may have seen, then `present`
  cur,        \* the URL being charged for
  admitted,   \* history: how often filter_new returned a URL
  filtered,   \* history: the URLs filter_new has given its answer on
  accounted,  \* history: the URLs ever queued, turned away by a full queue or taken
              \* by a crash once they were marked seen
  stuck       \* history: the sites whose EXPIRE a crash cut off

budgetVars == <<spent, expiring>>
seenVars == <<bloom, exact>>
callVars == <<at, batch, allow, todo, fresh, maybe, cur>>
history == <<admitted, filtered, accounted, stuck>>
vars == <<budgetVars, seenVars, queue, callVars, history>>

-----------------------------------------------------------------------------
Steps ==
  {"idle", "budget", "bloom", "lookup", "mark", "enqueue", "spend", "expire"}

\* What Redis and the locals of add_many hold; a site's remaining allowance is
\* never below nothing (frontier.py, dedup.py).
TypeOK ==
  /\ spent \in [Sites -> Nat]
  /\ expiring \subseteq Sites
  /\ bloom \subseteq Nat
  /\ exact \subseteq Urls
  /\ queue \subseteq Urls
  /\ at \in [Callers -> Steps]
  /\ batch \in [Callers -> Seq(DOMAIN Canonical)]
  /\ allow \in [Callers -> [Sites -> Nat \cup {None}]]
  /\ todo \in [Callers -> SUBSET DOMAIN Canonical]
  /\ fresh \in [Callers -> SUBSET Urls]
  /\ maybe \in [Callers -> SUBSET Urls]
  /\ cur \in [Callers -> Urls \cup {None}]
  /\ admitted \in [Urls -> Nat]
  /\ filtered \subseteq Urls
  /\ accounted \subseteq Urls
  /\ stuck \subseteq Sites

Init ==
  /\ spent = [d \in Sites |-> 0]
  /\ expiring = {}
  /\ bloom = {}
  /\ exact = {}
  /\ queue = {}
  /\ at = [c \in Callers |-> "idle"]
  /\ batch = [c \in Callers |-> <<>>]
  /\ allow = [c \in Callers |-> [d \in Sites |-> None]]
  /\ todo = [c \in Callers |-> {}]
  /\ fresh = [c \in Callers |-> {}]
  /\ maybe = [c \in Callers |-> {}]
  /\ cur = [c \in Callers |-> None]
  /\ admitted = [u \in Urls |-> 0]
  /\ filtered = {}
  /\ accounted = {}
  /\ stuck = {}

GoTo(c, step) == at' = [at EXCEPT ![c] = step]
Skip(c, u) == todo' = [todo EXCEPT ![c] = @ \ {u}]

-----------------------------------------------------------------------------
(* add_many: the budget loop.                                              *)

Batches == UNION {[1 .. n -> Spellings] : n \in 1 .. MaxBatch}

\* add_many canonicalises what it is offered.
Offer(c, urls) ==
  /\ at[c] = "idle"
  /\ GoTo(c, "budget")
  /\ batch' = [batch EXCEPT ![c] = [n \in DOMAIN urls |-> Canonical[urls[n]]]]
  /\ UNCHANGED <<budgetVars, seenVars, queue, allow, todo, fresh, maybe, cur,
                 history>>

\* The site's allowance: read from Redis when the batch first meets it.
Remaining(c, d) ==
  IF allow[c][d] # None THEN allow[c][d]
  ELSE IF Limit[d] > spent[d] THEN Limit[d] - spent[d] ELSE 0

\* Faulty variant: the allowance is not carried across the batch.
PeekBudgetUncharged(c) ==
  LET u == Head(batch[c])
      r == Remaining(c, SiteOf[u])
  IN  /\ at[c] = "budget"
      /\ batch[c] # <<>>
      /\ batch' = [batch EXCEPT ![c] = Tail(@)]
      /\ allow' = [allow EXCEPT ![c][SiteOf[u]] = r]
      /\ todo' = [todo EXCEPT ![c] = IF r > 0 THEN @ \cup {u} ELSE @]
      /\ UNCHANGED <<budgetVars, seenVars, queue, at, fresh, maybe, cur, history>>

PeekBudget(c) ==
  LET u == Head(batch[c])
      r == Remaining(c, SiteOf[u])
  IN  /\ at[c] = "budget"
      /\ batch[c] # <<>>
      /\ batch' = [batch EXCEPT ![c] = Tail(@)]
      /\ allow' = [allow EXCEPT ![c][SiteOf[u]] = IF r > 0 THEN r - 1 ELSE 0]
      /\ todo' = [todo EXCEPT ![c] = IF r > 0 THEN @ \cup {u} ELSE @]
      /\ UNCHANGED <<budgetVars, seenVars, queue, at, fresh, maybe, cur, history>>

\* filter_new canonicalises the affordable URLs once more and keys them by
\* fingerprint, so each is there once; with none it returns at once.
BudgetDone(c) ==
  /\ at[c] = "budget"
  /\ batch[c] = <<>>
  /\ GoTo(c, IF todo[c] = {} THEN "idle" ELSE "bloom")
  /\ allow' = [allow EXCEPT ![c] = [d \in Sites |-> None]]
  /\ todo' = [todo EXCEPT ![c] = {Canonical[u] : u \in @}]
  /\ UNCHANGED <<budgetVars, seenVars, queue, batch, fresh, maybe, cur, history>>

-----------------------------------------------------------------------------
(* SeenUrlFilter.filter_new.                                               *)

\* One script call per fingerprint, in fingerprint order: any order, here.
BloomTest(c, u) ==
  /\ at[c] = "bloom"
  /\ u \in todo[c]
  /\ bloom' = bloom \cup BitsOf[u]
  /\ IF BitsOf[u] \subseteq bloom
     THEN maybe' = [maybe EXCEPT ![c] = @ \cup {u}] /\ UNCHANGED fresh
     ELSE fresh' = [fresh EXCEPT ![c] = @ \cup {u}] /\ UNCHANGED maybe
  /\ Skip(c, u)
  /\ GoTo(c, IF todo[c] = {u} THEN "lookup" ELSE "bloom")
  /\ UNCHANGED <<budgetVars, exact, queue, batch, allow, cur, history>>

\* Faulty variant: what the Bloom filter may have seen counts as seen.
ExactLookupTrustsBloom(c) ==
  /\ at[c] = "lookup"
  /\ GoTo(c, "mark")
  /\ UNCHANGED <<budgetVars, seenVars, queue, batch, allow, todo, fresh, maybe,
                 cur, history>>

\* contains_many: the exact store has the last word on the maybe-seen ones.
ExactLookup(c) ==
  /\ at[c] = "lookup"
  /\ fresh' = [fresh EXCEPT ![c] = @ \cup (maybe[c] \ exact)]
  /\ maybe' = [maybe EXCEPT ![c] = @ \cap exact]
  /\ GoTo(c, "mark")
  /\ UNCHANGED <<budgetVars, seenVars, queue, batch, allow, todo, cur, history>>

\* The return of filter_new.
ReturnFresh(c) ==
  /\ todo' = [todo EXCEPT ![c] = fresh[c]]
  /\ fresh' = [fresh EXCEPT ![c] = {}]
  /\ maybe' = [maybe EXCEPT ![c] = {}]
  /\ GoTo(c, IF fresh[c] = {} THEN "idle" ELSE "enqueue")
  /\ admitted' = [u \in Urls |-> IF u \in fresh[c] THEN admitted[u] + 1
                                                   ELSE admitted[u]]
  /\ filtered' = filtered \cup fresh[c] \cup maybe[c]

\* Faulty variant: a new URL is recorded in the Bloom filter alone.
MarkSeenInBloomOnly(c) ==
  /\ at[c] = "mark"
  /\ ReturnFresh(c)
  /\ UNCHANGED <<budgetVars, seenVars, queue, batch, allow, cur, accounted, stuck>>

\* exact.add_many, which cannot be taken back.
MarkSeen(c) ==
  /\ at[c] = "mark"
  /\ exact' = exact \cup fresh[c]
  /\ ReturnFresh(c)
  /\ UNCHANGED <<budgetVars, bloom, queue, batch, allow, cur, accounted, stuck>>

-----------------------------------------------------------------------------
(* add_many: the enqueue loop, with _enqueue_one's script and spend().     *)

QueueOf(d) == {u \in queue : SiteOf[u] = d}

\* Where the loop goes after a URL that was not queued, or was paid for.
AfterUrl(c, rest) == IF rest = {} THEN "idle" ELSE "enqueue"

EnqueueOne(c, u) ==
  /\ at[c] = "enqueue"
  /\ u \in todo[c]
  /\ Skip(c, u)
  /\ \/ /\ u \in queue
        /\ GoTo(c, AfterUrl(c, todo[c] \ {u}))
        /\ UNCHANGED <<queue, cur, accounted>>
     \/ /\ u \notin queue
        /\ Cardinality(QueueOf(SiteOf[u])) >= QueueCap
        /\ GoTo(c, AfterUrl(c, todo[c] \ {u}))
        /\ accounted' = accounted \cup {u}
        /\ UNCHANGED <<queue, cur>>
     \/ /\ u \notin queue
        /\ Cardinality(QueueOf(SiteOf[u])) < QueueCap
        /\ queue' = queue \cup {u}
        /\ accounted' = accounted \cup {u}
        /\ cur' = [cur EXCEPT ![c] = u]
        /\ GoTo(c, "spend")
  /\ UNCHANGED <<budgetVars, seenVars, batch, allow, fresh, maybe, admitted,
                 filtered, stuck>>

\* Faulty variant: the counter is compared as it was before the increment.
SpendExpiresLate(c) ==
  LET d == SiteOf[cur[c]]
  IN  /\ at[c] = "spend"
      /\ spent' = [spent EXCEPT ![d] = @ + 1]
      /\ GoTo(c, IF spent[d] = 1 THEN "expire" ELSE AfterUrl(c, todo[c]))
      /\ cur' = IF spent[d] = 1 THEN cur ELSE [cur EXCEPT ![c] = None]
      /\ UNCHANGED <<expiring, seenVars, queue, batch, allow, todo, fresh,
                     maybe, history>>

\* INCRBY; the first charge of a window goes on to start it.
Spend(c) ==
  LET d == SiteOf[cur[c]]
  IN  /\ at[c] = "spend"
      /\ spent' = [spent EXCEPT ![d] = @ + 1]
      /\ GoTo(c, IF spent[d] = 0 THEN "expire" ELSE AfterUrl(c, todo[c]))
      /\ cur' = IF spent[d] = 0 THEN cur ELSE [cur EXCEPT ![c] = None]
      /\ UNCHANGED <<expiring, seenVars, queue, batch, allow, todo, fresh,
                     maybe, history>>

StartWindow(c) ==
  /\ at[c] = "expire"
  /\ expiring' = expiring \cup {SiteOf[cur[c]]}
  /\ GoTo(c, AfterUrl(c, todo[c]))
  /\ cur' = [cur EXCEPT ![c] = None]
  /\ UNCHANGED <<spent, seenVars, queue, batch, allow, todo, fresh, maybe,
                 history>>

-----------------------------------------------------------------------------
(* What goes on around the callers.                                        *)

\* Seven days are over: the budget key is gone.
WindowEnds(d) ==
  /\ d \in expiring
  /\ spent' = [spent EXCEPT ![d] = 0]
  /\ expiring' = expiring \ {d}
  /\ UNCHANGED <<seenVars, queue, callVars, history>>

\* A worker leases the URL (Frontier).
Leased(u) ==
  /\ u \in queue
  /\ queue' = queue \ {u}
  /\ UNCHANGED <<budgetVars, seenVars, callVars, history>>

Enqueuing(c) == at[c] \in {"enqueue", "spend", "expire"}

\* The process dies inside add_many and starts again.
Crash(c) ==
  /\ at[c] # "idle"
  /\ GoTo(c, "idle")
  /\ batch' = [batch EXCEPT ![c] = <<>>]
  /\ allow' = [allow EXCEPT ![c] = [d \in Sites |-> None]]
  /\ todo' = [todo EXCEPT ![c] = {}]
  /\ fresh' = [fresh EXCEPT ![c] = {}]
  /\ maybe' = [maybe EXCEPT ![c] = {}]
  /\ cur' = [cur EXCEPT ![c] = None]
  /\ accounted' = IF Enqueuing(c) THEN accounted \cup todo[c] ELSE accounted
  /\ stuck' = IF at[c] = "expire" THEN stuck \cup {SiteOf[cur[c]]} ELSE stuck
  /\ UNCHANGED <<budgetVars, seenVars, queue, admitted, filtered>>

Step(c) ==
  \/ PeekBudget(c) \/ BudgetDone(c)
  \/ \E u \in Urls : BloomTest(c, u) \/ EnqueueOne(c, u)
  \/ ExactLookup(c) \/ MarkSeen(c)
  \/ Spend(c) \/ StartWindow(c)

Next ==
  \/ \E c \in Callers : Step(c) \/ Crash(c) \/ \E b \in Batches : Offer(c, b)
  \/ \E d \in Sites : WindowEnds(d)
  \/ \E u \in Urls : Leased(u)

Spec == Init /\ [][Next]_vars

-----------------------------------------------------------------------------
\* A URL the filter has answered on was queued, or is about to be by a caller,
\* unless the full queue or a crash was in the way: no Bloom collision and no
\* budget refusal costs a URL, because the budget is peeked before the filter.
FilteredIsQueued ==
  \A u \in filtered \cup exact :
    \/ u \in accounted
    \/ \E c \in Callers : Enqueuing(c) /\ u \in todo[c]

\* The filter's unlocked steps admit a URL at most once per caller: callers
\* whose calls overlap may each admit it, later ones never do.
AdmittedPerCaller == \A u \in Urls : admitted[u] <= Cardinality(Callers)

\* However the peeks and charges of the callers interleave, and windows end, a
\* site is charged at most its limit once per caller; alone, exactly its limit.
BudgetBound ==
  \A d \in Sites : spent[d] <= Cardinality(Callers) * Limit[d]

\* A charged budget has a window that will end, or a caller is about to start
\* it, unless a crash came between INCRBY and EXPIRE: no site stays exhausted.
WindowWillEnd ==
  \A d \in Sites :
    spent[d] > 0 =>
      \/ d \in expiring \cup stuck
      \/ \E c \in Callers : at[c] = "expire" /\ SiteOf[cur[c]] = d
=============================================================================
