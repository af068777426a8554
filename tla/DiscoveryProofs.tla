-------------------------- MODULE DiscoveryProofs --------------------------
(***************************************************************************)
(* Proofs about module Discovery, for any set of URLs, spellings and       *)
(* sites, any finite set of callers, any Bloom hash and any limits; and    *)
(* about the names UrlNorm gives to paths of any length.                   *)
(***************************************************************************)
EXTENDS Discovery, UrlNorm, FiniteSetTheorems, SequenceTheorems, WellFoundedInduction, TLAPS

-----------------------------------------------------------------------------
(* Type correctness.                                                       *)

\* What one call of canonicalise makes of what is offered.
Once == {Canonical[r] : r \in Spellings}

\* Which local of add_many holds what, from place to place.
Place(c) ==
  /\ batch[c] \in Seq(Once)
  /\ at[c] = "idle" => todo[c] = {}
  /\ at[c] = "budget" => todo[c] \subseteq Once
  /\ at[c] # "budget" => todo[c] \subseteq Urls
  /\ at[c] \in {"spend", "expire"} => cur[c] \in Urls
  /\ at[c] \notin {"bloom", "lookup", "mark"} => fresh[c] = {} /\ maybe[c] = {}

Places == \A c \in Callers : Place(c)

TypeInv == TypeOK /\ Places

\* A caller's step leaves the locals of the others alone.
Same(p) ==
  /\ at'[p] = at[p]
  /\ batch'[p] = batch[p]
  /\ allow'[p] = allow[p]
  /\ todo'[p] = todo[p]
  /\ fresh'[p] = fresh[p]
  /\ maybe'[p] = maybe[p]
  /\ cur'[p] = cur[p]

\* A step of one caller leaves the private state of every other as it is.
LEMMA OthersStay ==
  ASSUME TypeOK, NEW c \in Callers,
         Step(c) \/ Crash(c) \/ \E b \in Batches : Offer(c, b)
  PROVE  \A p \in Callers \ {c} : Same(p)
<1> SUFFICES ASSUME NEW p \in Callers \ {c} PROVE Same(p)
  OBVIOUS
<1> USE DEF TypeOK, Same, GoTo, Skip
<1>1. CASE PeekBudget(c)
  BY <1>1 DEF PeekBudget
<1>2. CASE BudgetDone(c)
  BY <1>2 DEF BudgetDone
<1>3. ASSUME NEW u \in Urls, BloomTest(c, u) PROVE Same(p)
  BY <1>3 DEF BloomTest
<1>4. ASSUME NEW u \in Urls, EnqueueOne(c, u) PROVE Same(p)
  BY <1>4 DEF EnqueueOne
<1>5. CASE ExactLookup(c)
  BY <1>5 DEF ExactLookup
<1>6. CASE MarkSeen(c)
  BY <1>6 DEF MarkSeen, ReturnFresh
<1>7. CASE Spend(c)
  BY <1>7 DEF Spend
<1>8. CASE StartWindow(c)
  BY <1>8 DEF StartWindow
<1>9. CASE Crash(c)
  BY <1>9 DEF Crash
<1>10. ASSUME NEW b \in Batches, Offer(c, b) PROVE Same(p)
  BY <1>10 DEF Offer
<1> QED BY <1>1, <1>2, <1>3, <1>4, <1>5, <1>6, <1>7, <1>8, <1>9, <1>10 DEF Step

\* The URLs of one canonicalise are where the second takes its argument from.
LEMMA OnceIsSpelling ==
  /\ Once \subseteq DOMAIN Canonical
  /\ \A u \in Once : Canonical[u] \in Urls /\ SiteOf[Canonical[u]] = SiteOf[u]
  /\ \A u \in Urls \cup Once : u \in DOMAIN Canonical /\ SiteOf[u] \in Sites
BY CanonicalType, SiteOfType, SiteIsStable DEF Once

\* A batch that is offered is made of spellings.
LEMMA BatchType ==
  ASSUME NEW b \in Batches
  PROVE  [n \in DOMAIN b |-> Canonical[b[n]]] \in Seq(Once)
<1>1. PICK n \in 1 .. MaxBatch : b \in [1 .. n -> Spellings]
  BY DEF Batches
<1>2. [i \in DOMAIN b |-> Canonical[b[i]]] \in [1 .. n -> Once]
  BY <1>1 DEF Once
<1> QED BY <1>1, <1>2, BoundsType

\* No caller has begun, and nothing is stored.
LEMMA TypeInit == Init => TypeInv
<1> SUFFICES ASSUME Init PROVE TypeInv
  OBVIOUS
<1>1. TypeOK
  BY DEF Init, TypeOK, Steps
<1>2. Places
  BY DEF Init, Places, Place
<1> QED BY <1>1, <1>2 DEF TypeInv

\* A caller's step only has to look after its own place.
LEMMA PlacesStep ==
  ASSUME TypeInv, NEW c \in Callers, Place(c)',
         Step(c) \/ Crash(c) \/ \E b \in Batches : Offer(c, b)
  PROVE  Places'
<1>1. \A p \in Callers \ {c} : Same(p)
  BY OthersStay DEF TypeInv
<1>2. ASSUME NEW p \in Callers \ {c} PROVE Place(p)'
  BY <1>1, <1>2 DEF Same, TypeInv, Places, Place
<1> QED BY <1>2 DEF Places, Place

\* The budget loop keeps the types and the places.
LEMMA TypeBudget ==
  ASSUME TypeInv, NEW c \in Callers,
         PeekBudget(c) \/ BudgetDone(c) \/ \E b \in Batches : Offer(c, b)
  PROVE  TypeOK' /\ Place(c)'
<1> USE DEF TypeInv, TypeOK
<1>0. Place(c)
  BY DEF Places, Place
<1>1. CASE PeekBudget(c)
  <2> DEFINE u == Head(batch[c])
             r == Remaining(c, SiteOf[u])
  <2>1. u \in Once /\ Tail(batch[c]) \in Seq(Once)
    BY <1>0, <1>1 DEF PeekBudget, Place
  <2>2. SiteOf[u] \in Sites /\ u \in DOMAIN Canonical
    BY <2>1, OnceIsSpelling
  <2>3. r \in Nat
    <3>1. Limit[SiteOf[u]] \in Nat /\ spent[SiteOf[u]] \in Nat
      BY <2>2, LimitType
    <3>2. allow[c][SiteOf[u]] \in Nat \cup {None}
      BY <2>2
    <3> HIDE DEF u
    <3> QED BY <3>1, <3>2 DEF Remaining
  <2>4. (IF r > 0 THEN r - 1 ELSE 0) \in Nat
    BY <2>3
  <2>5. batch' \in [Callers -> Seq(DOMAIN Canonical)] /\ batch'[c] \in Seq(Once)
    <3>1. Tail(batch[c]) \in Seq(DOMAIN Canonical)
      BY <2>1, OnceIsSpelling
    <3> QED BY <1>1, <2>1, <3>1 DEF PeekBudget
  <2>6. allow' \in [Callers -> [Sites -> Nat \cup {None}]]
    <3> DEFINE v == IF r > 0 THEN r - 1 ELSE 0
               row == [allow[c] EXCEPT ![SiteOf[u]] = v]
    <3>1. row \in [Sites -> Nat \cup {None}]
      BY <2>2, <2>4
    <3>2. allow' = [allow EXCEPT ![c] = row]
      BY <1>1 DEF PeekBudget
    <3> HIDE DEF row
    <3> QED BY <3>1, <3>2
  <2>7. /\ todo' \in [Callers -> SUBSET DOMAIN Canonical]
        /\ todo'[c] \subseteq todo[c] \cup {u}
    BY <1>1, <2>2 DEF PeekBudget
  <2> HIDE DEF u, r
  <2>8. Place(c)'
    BY <1>0, <1>1, <2>1, <2>5, <2>7 DEF PeekBudget, Place
  <2> QED BY <1>1, <2>5, <2>6, <2>7, <2>8
          DEF PeekBudget, budgetVars, seenVars, history
<1>2. CASE BudgetDone(c)
  <2>1. {Canonical[u] : u \in todo[c]} \subseteq Urls
    BY <1>0, <1>2, OnceIsSpelling DEF BudgetDone, Place
  <2>2. Urls \subseteq DOMAIN Canonical
    BY CanonicalType
  <2>3. at' \in [Callers -> Steps] /\ at'[c] \in {"idle", "bloom"}
    BY <1>2 DEF BudgetDone, GoTo, Steps
  <2>4. /\ todo' \in [Callers -> SUBSET DOMAIN Canonical]
        /\ todo'[c] \subseteq Urls
        /\ at'[c] = "idle" => todo'[c] = {}
    BY <1>2, <2>1, <2>2 DEF BudgetDone, GoTo, Steps
  <2>5. allow' \in [Callers -> [Sites -> Nat \cup {None}]]
    BY <1>2 DEF BudgetDone
  <2>6. Place(c)'
    BY <1>0, <1>2, <2>3, <2>4 DEF BudgetDone, Place
  <2> QED BY <1>2, <2>3, <2>4, <2>5, <2>6 DEF BudgetDone, budgetVars, seenVars, history
<1>3. ASSUME NEW b \in Batches, Offer(c, b) PROVE TypeOK' /\ Place(c)'
  <2> DEFINE s == [n \in DOMAIN b |-> Canonical[b[n]]]
  <2>1. s \in Seq(Once)
    BY BatchType
  <2>2. batch' = [batch EXCEPT ![c] = s]
    BY <1>3 DEF Offer
  <2> HIDE DEF s
  <2>3. s \in Seq(DOMAIN Canonical)
    BY <2>1, OnceIsSpelling
  <2>4. batch' \in [Callers -> Seq(DOMAIN Canonical)] /\ batch'[c] \in Seq(Once)
    BY <2>1, <2>2, <2>3
  <2>5. at' \in [Callers -> Steps] /\ at'[c] = "budget"
    BY <1>3 DEF Offer, GoTo, Steps
  <2>6. Place(c)'
    BY <1>0, <1>3, <2>4, <2>5 DEF Offer, Place
  <2> QED BY <1>3, <2>4, <2>5, <2>6 DEF Offer, budgetVars, seenVars, history
<1> QED BY <1>1, <1>2, <1>3

\* filter_new keeps the types and the places.
LEMMA TypeFilter ==
  ASSUME TypeInv, NEW c \in Callers,
         (\E u \in Urls : BloomTest(c, u)) \/ ExactLookup(c) \/ MarkSeen(c)
  PROVE  TypeOK' /\ Place(c)'
<1> USE DEF TypeInv, TypeOK
<1>0. Place(c) /\ Urls \subseteq DOMAIN Canonical
  BY CanonicalType DEF Places, Place
<1>1. ASSUME NEW u \in Urls, BloomTest(c, u) PROVE TypeOK' /\ Place(c)'
  <2>1. at' \in [Callers -> Steps] /\ at'[c] \in {"bloom", "lookup"}
    BY <1>1 DEF BloomTest, GoTo, Steps
  <2>2. /\ todo' \in [Callers -> SUBSET DOMAIN Canonical]
        /\ todo'[c] \subseteq todo[c]
    BY <1>1 DEF BloomTest, Skip
  <2>3. fresh' \in [Callers -> SUBSET Urls] /\ maybe' \in [Callers -> SUBSET Urls]
    <3>1. CASE BitsOf[u] \subseteq bloom
      BY <1>1, <3>1 DEF BloomTest
    <3>2. CASE ~(BitsOf[u] \subseteq bloom)
      <4>1. fresh' = [fresh EXCEPT ![c] = @ \cup {u}] /\ maybe' = maybe
        BY <1>1, <3>2 DEF BloomTest
      <4> QED BY <4>1
    <3> QED BY <3>1, <3>2
  <2>4. bloom' \subseteq Nat
    BY <1>1, BitsOfType DEF BloomTest
  <2>5. Place(c)'
    BY <1>0, <1>1, <2>1, <2>2 DEF BloomTest, Place
  <2> QED BY <1>1, <2>1, <2>2, <2>3, <2>4, <2>5 DEF BloomTest, budgetVars, history
<1>2. CASE ExactLookup(c)
  <2>1. at' \in [Callers -> Steps] /\ at'[c] = "mark"
    BY <1>2 DEF ExactLookup, GoTo, Steps
  <2>2. fresh' \in [Callers -> SUBSET Urls] /\ maybe' \in [Callers -> SUBSET Urls]
    BY <1>2 DEF ExactLookup
  <2>3. Place(c)'
    BY <1>0, <1>2, <2>1 DEF ExactLookup, Place
  <2> QED BY <1>2, <2>1, <2>2, <2>3 DEF ExactLookup, budgetVars, seenVars, history
<1>3. CASE MarkSeen(c)
  <2> USE <1>3 DEF MarkSeen, ReturnFresh
  <2>1. at' \in [Callers -> Steps] /\ at'[c] = IF fresh[c] = {} THEN "idle" ELSE "enqueue"
    BY DEF GoTo, Steps
  <2>2. /\ todo' \in [Callers -> SUBSET DOMAIN Canonical]
        /\ todo'[c] = fresh[c]
    BY <1>0
  <2>3. /\ fresh' \in [Callers -> SUBSET Urls] /\ maybe' \in [Callers -> SUBSET Urls]
        /\ fresh'[c] = {} /\ maybe'[c] = {}
    OBVIOUS
  <2>4. admitted' \in [Urls -> Nat]
    OBVIOUS
  <2>5. exact' \subseteq Urls /\ filtered' \subseteq Urls
    OBVIOUS
  <2>6. Place(c)'
    BY <1>0, <2>1, <2>2, <2>3 DEF Place
  <2> QED BY <2>1, <2>2, <2>3, <2>4, <2>5, <2>6 DEF budgetVars
<1> QED BY <1>1, <1>2, <1>3

\* The enqueue loop and a crash keep the types and the places.
LEMMA TypeEnqueue ==
  ASSUME TypeInv, NEW c \in Callers,
         \/ \E u \in Urls : EnqueueOne(c, u)
         \/ Spend(c) \/ StartWindow(c) \/ Crash(c)
  PROVE  TypeOK' /\ Place(c)'
<1> USE DEF TypeInv, TypeOK
<1>0. Place(c) /\ Urls \subseteq DOMAIN Canonical
  BY CanonicalType DEF Places, Place
<1>s. \A u \in Urls : SiteOf[u] \in Sites
  BY OnceIsSpelling
<1>1. ASSUME NEW u \in Urls, EnqueueOne(c, u) PROVE TypeOK' /\ Place(c)'
  <2>1. /\ todo' \in [Callers -> SUBSET DOMAIN Canonical]
        /\ todo'[c] = todo[c] \ {u}
    BY <1>1 DEF EnqueueOne, Skip
  <2>2. \/ at' = [at EXCEPT ![c] = AfterUrl(c, todo[c] \ {u})] /\ cur' = cur
        \/ at' = [at EXCEPT ![c] = "spend"] /\ cur' = [cur EXCEPT ![c] = u]
    BY <1>1 DEF EnqueueOne, GoTo
  <2>3. AfterUrl(c, todo[c] \ {u}) = IF todo[c] \ {u} = {} THEN "idle" ELSE "enqueue"
    BY DEF AfterUrl
  <2>4. /\ at' \in [Callers -> Steps] /\ cur' \in [Callers -> Urls \cup {None}]
        /\ at'[c] \in {"idle", "enqueue", "spend"}
        /\ at'[c] = "idle" => todo[c] \ {u} = {}
        /\ at'[c] = "spend" => cur'[c] = u
    BY <2>2, <2>3 DEF Steps
  <2>5. queue' \subseteq Urls /\ accounted' \subseteq Urls
    BY <1>1 DEF EnqueueOne
  <2>6. Place(c)'
    BY <1>0, <1>1, <2>1, <2>4 DEF EnqueueOne, Place
  <2> QED BY <1>1, <2>1, <2>4, <2>5, <2>6 DEF EnqueueOne, budgetVars, seenVars
<1>2. CASE Spend(c)
  <2> DEFINE d == SiteOf[cur[c]]
  <2>1. d \in Sites /\ cur[c] \in Urls
    BY <1>0, <1>2, <1>s DEF Spend, Place
  <2>2. spent' \in [Sites -> Nat]
    BY <1>2, <2>1 DEF Spend
  <2>3. \/ at' = [at EXCEPT ![c] = "expire"] /\ cur' = cur
        \/ at' = [at EXCEPT ![c] = AfterUrl(c, todo[c])] /\ cur' = [cur EXCEPT ![c] = None]
    BY <1>2 DEF Spend, GoTo
  <2>4. /\ at' \in [Callers -> Steps] /\ cur' \in [Callers -> Urls \cup {None}]
        /\ at'[c] \in {"idle", "enqueue", "expire"}
        /\ at'[c] = "idle" => todo[c] = {}
        /\ at'[c] = "expire" => cur'[c] = cur[c]
    BY <2>3 DEF AfterUrl, Steps
  <2>5. Place(c)'
    BY <1>0, <1>2, <2>1, <2>4 DEF Spend, Place
  <2> QED BY <1>2, <2>2, <2>4, <2>5 DEF Spend, seenVars, history
<1>3. CASE StartWindow(c)
  <2>1. expiring' \subseteq Sites
    BY <1>0, <1>3, <1>s DEF StartWindow, Place
  <2>2. /\ at' \in [Callers -> Steps] /\ cur' \in [Callers -> Urls \cup {None}]
        /\ at'[c] \in {"idle", "enqueue"}
        /\ at'[c] = "idle" => todo[c] = {}
    BY <1>3 DEF StartWindow, GoTo, AfterUrl, Steps
  <2>3. Place(c)'
    BY <1>0, <1>3, <2>2 DEF StartWindow, Place
  <2> QED BY <1>3, <2>1, <2>2, <2>3 DEF StartWindow, seenVars, history
<1>4. CASE Crash(c)
  <2> USE <1>4 DEF Crash
  <2>1. at' \in [Callers -> Steps] /\ at'[c] = "idle"
    BY DEF GoTo, Steps
  <2>2. /\ batch' \in [Callers -> Seq(DOMAIN Canonical)] /\ batch'[c] = <<>>
        /\ allow' \in [Callers -> [Sites -> Nat \cup {None}]]
    OBVIOUS
  <2>3. /\ todo' \in [Callers -> SUBSET DOMAIN Canonical] /\ todo'[c] = {}
        /\ fresh' \in [Callers -> SUBSET Urls] /\ fresh'[c] = {}
        /\ maybe' \in [Callers -> SUBSET Urls] /\ maybe'[c] = {}
        /\ cur' \in [Callers -> Urls \cup {None}]
    OBVIOUS
  <2>4. accounted' \subseteq Urls
    BY <1>0 DEF Enqueuing, Place
  <2>5. stuck' \subseteq Sites
    BY <1>0, <1>s DEF Place
  <2>6. Place(c)'
    BY <2>1, <2>2, <2>3 DEF Place
  <2> QED BY <2>1, <2>2, <2>3, <2>4, <2>5, <2>6 DEF budgetVars, seenVars
<1> QED BY <1>1, <1>2, <1>3, <1>4

\* Every step keeps the types and each caller's place in enqueue().
LEMMA TypeStep == TypeInv /\ [Next]_vars => TypeInv'
<1> SUFFICES ASSUME TypeInv, [Next]_vars PROVE TypeInv'
  OBVIOUS
<1>1. ASSUME NEW c \in Callers,
             Step(c) \/ Crash(c) \/ \E b \in Batches : Offer(c, b)
      PROVE  TypeInv'
  <2>1. TypeOK' /\ Place(c)'
    BY <1>1, TypeBudget, TypeFilter, TypeEnqueue DEF Step
  <2> QED BY <1>1, <2>1, PlacesStep DEF TypeInv
<1>2. ASSUME NEW d \in Sites, WindowEnds(d) PROVE TypeInv'
  <2>1. TypeOK'
    BY <1>2 DEF TypeInv, TypeOK, WindowEnds, seenVars, callVars, history
  <2> QED BY <1>2, <2>1 DEF TypeInv, Places, Place, WindowEnds, callVars
<1>3. ASSUME NEW u \in Urls, Leased(u) PROVE TypeInv'
  <2>1. TypeOK'
    BY <1>3 DEF TypeInv, TypeOK, Leased, budgetVars, seenVars, callVars, history
  <2> QED BY <1>3, <2>1 DEF TypeInv, Places, Place, Leased, callVars
<1>4. CASE UNCHANGED vars
  BY <1>4 DEF TypeInv, TypeOK, Places, Place, vars, budgetVars, seenVars, callVars, history
<1> QED BY <1>1, <1>2, <1>3, <1>4 DEF Next

\* What Redis and add_many's locals hold keeps its type through any interleaving
\* of the callers, crashes and windows.
THEOREM TypeCorrect == Spec => []TypeOK
<1>1. Spec => []TypeInv
  BY TypeInit, TypeStep, PTL DEF Spec
<1>2. TypeInv => TypeOK
  BY DEF TypeInv
<1> QED BY <1>1, <1>2, PTL

-----------------------------------------------------------------------------
(* No URL the filter has answered on is lost.                              *)

\* A queued URL is accounted for, and what is left of the maybe-seen ones after
\* the lookup was in the exact store.
FilterInv ==
  /\ FilteredIsQueued
  /\ queue \subseteq accounted
  /\ \A c \in Callers : at[c] = "mark" => maybe[c] \subseteq exact

\* Nothing is filtered yet.
LEMMA FilterInit == Init => FilterInv
BY DEF Init, FilterInv, FilteredIsQueued

\* A caller that is not enqueuing, and does not mark, cannot disturb it.
LEMMA FilterQuiet ==
  ASSUME TypeInv, FilterInv, NEW c \in Callers,
         Step(c) \/ Crash(c) \/ \E b \in Batches : Offer(c, b),
         ~Enqueuing(c),
         at'[c] = "mark" => maybe'[c] \subseteq exact,
         UNCHANGED <<exact, queue, accounted, filtered>>
  PROVE  FilterInv'
<1>1. \A p \in Callers \ {c} : Same(p)
  BY OthersStay DEF TypeInv
<1>2. FilteredIsQueued'
  BY <1>1 DEF FilterInv, FilteredIsQueued, Enqueuing, Same
<1>3. (\A p \in Callers : at[p] = "mark" => maybe[p] \subseteq exact)'
  BY <1>1 DEF FilterInv, Same
<1> QED BY <1>2, <1>3 DEF FilterInv

\* A URL enters the filters only when its caller is done with the queue, so every
\* step keeps what is filtered accounted for.
LEMMA FilterStep == TypeInv /\ FilterInv /\ [Next]_vars => FilterInv'
<1> SUFFICES ASSUME TypeInv, FilterInv, [Next]_vars PROVE FilterInv'
  OBVIOUS
<1> USE DEF TypeInv, TypeOK, GoTo
<1>1. ASSUME NEW c \in Callers, Step(c) \/ Crash(c) \/ \E b \in Batches : Offer(c, b)
      PROVE  FilterInv'
  <2>0. /\ \A p \in Callers \ {c} : Same(p)
        /\ Place(c)
    BY <1>1, OthersStay DEF Places
  <2>1. CASE PeekBudget(c) \/ BudgetDone(c) \/ \E b \in Batches : Offer(c, b)
    BY <1>1, <2>1, FilterQuiet
       DEF PeekBudget, BudgetDone, Offer, Enqueuing, history, seenVars
  <2>2. ASSUME NEW u \in Urls, BloomTest(c, u) PROVE FilterInv'
    BY <1>1, <2>2, FilterQuiet DEF BloomTest, Enqueuing, history
  <2>3. CASE ExactLookup(c)
    BY <1>1, <2>3, FilterQuiet DEF ExactLookup, Enqueuing, history, seenVars
  <2>4. CASE MarkSeen(c)
    <3>1. /\ exact' = exact \cup fresh[c] /\ filtered' = filtered \cup fresh[c] \cup maybe[c]
          /\ maybe[c] \subseteq exact /\ UNCHANGED <<queue, accounted>>
      BY <2>4 DEF MarkSeen, ReturnFresh, FilterInv
    <3>2. todo'[c] = fresh[c] /\ (fresh[c] # {} => at'[c] = "enqueue") /\ at'[c] # "mark"
      BY <2>4 DEF MarkSeen, ReturnFresh
    <3>3. FilteredIsQueued'
      <4> SUFFICES ASSUME NEW u \in filtered' \cup exact', u \notin accounted
                   PROVE  \E p \in Callers : (Enqueuing(p) /\ u \in todo[p])'
        BY <3>1 DEF FilteredIsQueued
      <4>1. CASE u \in fresh[c]
        BY <3>2, <4>1 DEF Enqueuing
      <4>2. CASE u \notin fresh[c]
        <5>1. PICK p \in Callers : Enqueuing(p) /\ u \in todo[p]
          BY <3>1, <4>2 DEF FilterInv, FilteredIsQueued
        <5>2. p # c
          BY <2>4, <5>1 DEF MarkSeen, Enqueuing
        <5> QED BY <2>0, <5>1, <5>2 DEF Same, Enqueuing
      <4> QED BY <4>1, <4>2
    <3>4. (\A p \in Callers : at[p] = "mark" => maybe[p] \subseteq exact)'
      BY <2>0, <3>1, <3>2 DEF Same, FilterInv
    <3> QED BY <3>1, <3>3, <3>4 DEF FilterInv
  <2>5. ASSUME exact' = exact, filtered' = filtered, accounted \subseteq accounted',
               queue' \subseteq accounted', at'[c] # "mark",
               \A u \in todo[c] :
                 Enqueuing(c) => u \in accounted' \/ (Enqueuing(c)' /\ u \in todo'[c])
        PROVE  FilterInv'
    <3>1. FilteredIsQueued'
      <4> SUFFICES ASSUME NEW u \in filtered \cup exact, u \notin accounted'
                   PROVE  \E p \in Callers : (Enqueuing(p) /\ u \in todo[p])'
        BY <2>5 DEF FilteredIsQueued
      <4>1. PICK p \in Callers : Enqueuing(p) /\ u \in todo[p]
        BY <2>5 DEF FilterInv, FilteredIsQueued
      <4>2. CASE p = c
        BY <2>5, <4>1, <4>2
      <4>3. CASE p # c
        BY <2>0, <4>1, <4>3 DEF Same, Enqueuing
      <4> QED BY <4>2, <4>3
    <3>2. (\A p \in Callers : at[p] = "mark" => maybe[p] \subseteq exact)'
      BY <2>0, <2>5 DEF Same, FilterInv
    <3> QED BY <2>5, <3>1, <3>2 DEF FilterInv
  <2>6. ASSUME NEW u \in Urls, EnqueueOne(c, u) PROVE FilterInv'
    <3>1. exact' = exact /\ filtered' = filtered /\ todo'[c] = todo[c] \ {u}
      BY <2>6 DEF EnqueueOne, Skip, seenVars
    <3>2. /\ accounted \subseteq accounted' /\ queue' \subseteq accounted'
          /\ u \in accounted'
      BY <2>6 DEF EnqueueOne, FilterInv
    <3>3. at'[c] # "mark" /\ (todo[c] \ {u} # {} => at'[c] \in {"enqueue", "spend"})
      BY <2>6 DEF EnqueueOne, AfterUrl
    <3> QED BY <2>5, <3>1, <3>2, <3>3 DEF Enqueuing
  <2>7. CASE Spend(c)
    <3>1. /\ UNCHANGED <<exact, filtered, accounted, queue, todo>> /\ at'[c] # "mark"
          /\ todo[c] # {} => at'[c] \in {"enqueue", "expire"}
      BY <2>7 DEF Spend, AfterUrl, seenVars, history
    <3> QED BY <2>5, <3>1 DEF Enqueuing, FilterInv
  <2>8. CASE StartWindow(c)
    <3>1. /\ UNCHANGED <<exact, filtered, accounted, queue, todo>> /\ at'[c] # "mark"
          /\ todo[c] # {} => at'[c] = "enqueue"
      BY <2>8 DEF StartWindow, AfterUrl, seenVars, history
    <3> QED BY <2>5, <3>1 DEF Enqueuing, FilterInv
  <2>9. CASE Crash(c)
    <3>1. UNCHANGED <<exact, filtered, queue>> /\ at'[c] = "idle"
      BY <2>9 DEF Crash, seenVars
    <3>2. /\ accounted \subseteq accounted'
          /\ Enqueuing(c) => todo[c] \subseteq accounted'
      BY <2>9 DEF Crash
    <3> QED BY <2>5, <3>1, <3>2 DEF FilterInv
  <2> QED BY <1>1, <2>1, <2>2, <2>3, <2>4, <2>6, <2>7, <2>8, <2>9 DEF Step
<1>2. ASSUME NEW d \in Sites, WindowEnds(d) PROVE FilterInv'
  BY <1>2 DEF WindowEnds, FilterInv, FilteredIsQueued, Enqueuing, seenVars, callVars, history
<1>3. ASSUME NEW u \in Urls, Leased(u) PROVE FilterInv'
  BY <1>3 DEF Leased, FilterInv, FilteredIsQueued, Enqueuing, seenVars, callVars, history
<1>4. CASE UNCHANGED vars
  BY <1>4 DEF FilterInv, FilteredIsQueued, Enqueuing, vars, seenVars, callVars, history
<1> QED BY <1>1, <1>2, <1>3, <1>4 DEF Next

\* No URL the seen filter has answered on is lost, however many callers overlap
\* and whatever the Bloom bits collide on: it was queued, turned away by a full
\* queue or a crash, or a caller is still about to queue it.
THEOREM NoAnswerLost == Spec => []FilteredIsQueued
<1>1. Spec => []TypeInv
  BY TypeInit, TypeStep, PTL DEF Spec
<1>2. Spec => []FilterInv
  BY <1>1, FilterInit, FilterStep, PTL DEF Spec
<1>3. FilterInv => FilteredIsQueued
  BY DEF FilterInv
<1> QED BY <1>2, <1>3, PTL

-----------------------------------------------------------------------------
(* A charged budget gets a window.                                         *)

\* A caller is about to start the site's window.
Starting(d) == \E c \in Callers : at[c] = "expire" /\ SiteOf[cur[c]] = d

\* No window is open.
LEMMA WindowInit == Init => WindowWillEnd
BY DEF Init, WindowWillEnd

\* A charged counter runs out, or its caller is between INCRBY and EXPIRE, or a
\* crash came there; each step hands this over.
LEMMA WindowStep == TypeInv /\ WindowWillEnd /\ [Next]_vars => WindowWillEnd'
<1> SUFFICES ASSUME TypeInv, WindowWillEnd, [Next]_vars PROVE WindowWillEnd'
  OBVIOUS
<1> USE DEF TypeInv, TypeOK, GoTo
<1>1. ASSUME NEW c \in Callers, Step(c) \/ Crash(c) \/ \E b \in Batches : Offer(c, b)
      PROVE  WindowWillEnd'
  <2>0. (\A p \in Callers \ {c} : Same(p)) /\ Place(c)
    BY <1>1, OthersStay DEF Places
  <2>w. ASSUME NEW e \in Sites, Starting(e), at[c] = "expire" => SiteOf[cur[c]] # e
        PROVE  Starting(e)'
    <3>1. PICK p \in Callers : at[p] = "expire" /\ SiteOf[cur[p]] = e
      BY <2>w DEF Starting
    <3>2. p # c
      BY <2>w, <3>1
    <3> QED BY <2>0, <3>1, <3>2 DEF Same, Starting
  <2>x. \A e \in Sites : spent[e] > 0 => e \in expiring \cup stuck \/ Starting(e)
    BY DEF WindowWillEnd, Starting
  <2>y. (\A e \in Sites : spent'[e] > 0 => e \in expiring' \cup stuck' \/ Starting(e)')
          => WindowWillEnd'
    BY DEF WindowWillEnd, Starting
  <2>1. ASSUME at[c] # "expire", UNCHANGED <<spent, expiring, stuck>> PROVE WindowWillEnd'
    BY <2>1, <2>w, <2>x, <2>y
  <2>2. CASE PeekBudget(c) \/ BudgetDone(c) \/ \E b \in Batches : Offer(c, b)
    BY <2>1, <2>2 DEF PeekBudget, BudgetDone, Offer, history, budgetVars
  <2>3. CASE (\E u \in Urls : BloomTest(c, u) \/ EnqueueOne(c, u)) \/ ExactLookup(c) \/ MarkSeen(c)
    BY <2>1, <2>3
       DEF BloomTest, EnqueueOne, ExactLookup, MarkSeen, ReturnFresh, history, budgetVars
  <2>4. CASE Spend(c)
    <3> DEFINE d == SiteOf[cur[c]]
    <3>1. d \in Sites
      BY <2>0, <2>4, OnceIsSpelling DEF Spend, Place
    <3>2. /\ spent' = [spent EXCEPT ![d] = @ + 1] /\ UNCHANGED <<expiring, stuck>>
          /\ at[c] # "expire"
          /\ spent[d] = 0 => at'[c] = "expire" /\ cur'[c] = cur[c]
      BY <2>4 DEF Spend, history
    <3> SUFFICES ASSUME NEW e \in Sites, spent'[e] > 0
                 PROVE  e \in expiring \cup stuck \/ Starting(e)'
      BY <2>y, <3>2
    <3>3. CASE spent[e] > 0
      BY <2>w, <2>x, <3>2, <3>3
    <3>4. CASE ~(spent[e] > 0)
      <4>1. e = d
        BY <3>1, <3>2, <3>4
      <4>2. spent[d] = 0
        BY <3>4, <4>1
      <4> QED BY <3>2, <4>1, <4>2 DEF Starting
    <3> QED BY <3>3, <3>4
  <2>5. CASE StartWindow(c)
    <3>1. /\ UNCHANGED <<spent, stuck>>
          /\ expiring' = expiring \cup {SiteOf[cur[c]]}
      BY <2>5 DEF StartWindow, history
    <3> QED BY <2>w, <2>x, <2>y, <3>1
  <2>6. CASE Crash(c)
    <3>1. /\ UNCHANGED <<spent, expiring>>
          /\ stuck' = IF at[c] = "expire" THEN stuck \cup {SiteOf[cur[c]]} ELSE stuck
      BY <2>6 DEF Crash, budgetVars
    <3> QED BY <2>w, <2>x, <2>y, <3>1
  <2> QED BY <1>1, <2>2, <2>3, <2>4, <2>5, <2>6 DEF Step
<1>2. ASSUME NEW d \in Sites, WindowEnds(d) PROVE WindowWillEnd'
  BY <1>2 DEF WindowEnds, WindowWillEnd, seenVars, callVars, history
<1>3. CASE UNCHANGED vars \/ \E u \in Urls : Leased(u)
  BY <1>3 DEF WindowWillEnd, Leased, vars, budgetVars, callVars, history
<1> QED BY <1>1, <1>2, <1>3 DEF Next

\* A site's charged budget runs out with a window, unless a crash came between
\* INCRBY and EXPIRE, however the charges and the windows' ends interleave.
THEOREM BudgetsExpire == Spec => []WindowWillEnd
<1>1. Spec => []TypeInv
  BY TypeInit, TypeStep, PTL DEF Spec
<1> QED BY <1>1, WindowInit, WindowStep, PTL DEF Spec

-----------------------------------------------------------------------------
(* A URL is admitted at most once per caller.                              *)

\* The callers that take a URL for new and have not marked it yet.
Claimants(u) == {c \in Callers : u \in fresh[c]}

\* Each admission and each claim on a URL is a caller's, the exact store knows
\* what was admitted, and the Bloom filter's bits cover what has passed it.
AdmitInv ==
  \A u \in Urls :
    /\ u \notin exact => admitted[u] = 0
    /\ admitted[u] + Cardinality(Claimants(u)) <= Cardinality(Callers)
    /\ u \in exact \/ (\E c \in Callers : u \in fresh[c] \cup maybe[c])
         => BitsOf[u] \subseteq bloom

\* There are at most as many claimants as callers.
LEMMA ClaimantsCount ==
  ASSUME NEW S \in SUBSET Callers
  PROVE  /\ IsFiniteSet(S)
         /\ Cardinality(S) \in Nat
         /\ Cardinality(Callers) \in Nat
         /\ Cardinality(S) <= Cardinality(Callers)
BY CallersFinite, FS_Subset, FS_CardinalityType

\* Nothing is admitted, and no caller claims anything.
LEMMA AdmitInit == Init => AdmitInv
<1> SUFFICES ASSUME Init, NEW u \in Urls
             PROVE  /\ admitted[u] = 0 /\ u \notin exact
                    /\ admitted[u] + Cardinality(Claimants(u)) <= Cardinality(Callers)
                    /\ \A c \in Callers : u \notin fresh[c] \cup maybe[c]
  BY DEF AdmitInv
<1>1. admitted[u] = 0 /\ Cardinality(Claimants(u)) <= Cardinality(Callers)
  BY ClaimantsCount, Claimants(u) \in SUBSET Callers DEF Claimants, Init
<1>2. Cardinality(Claimants(u)) \in Nat
  BY ClaimantsCount, Claimants(u) \in SUBSET Callers DEF Claimants
<1> QED BY <1>1, <1>2 DEF Init

\* A step that leaves the filter's state and answers alone, or only forgets.
LEMMA AdmitQuiet ==
  ASSUME TypeInv, AdmitInv, UNCHANGED <<exact, admitted, bloom>>,
         \A c \in Callers : fresh'[c] \subseteq fresh[c] /\ maybe'[c] \subseteq maybe[c]
  PROVE  AdmitInv'
<1> SUFFICES ASSUME NEW u \in Urls
             PROVE  /\ u \notin exact => admitted[u] = 0
                    /\ admitted[u] + Cardinality(Claimants(u)') <= Cardinality(Callers)
                    /\ u \in exact \/ (\E c \in Callers : u \in fresh'[c] \cup maybe'[c])
                         => BitsOf[u] \subseteq bloom
  BY DEF AdmitInv
<1>1. Claimants(u)' \subseteq Claimants(u) /\ Claimants(u) \in SUBSET Callers
  BY DEF Claimants
<1>2. /\ Cardinality(Claimants(u)') <= Cardinality(Claimants(u))
      /\ Cardinality(Claimants(u)') \in Nat /\ Cardinality(Claimants(u)) \in Nat
      /\ Cardinality(Callers) \in Nat
  BY <1>1, ClaimantsCount, FS_Subset
<1>3. admitted[u] \in Nat
  BY DEF TypeInv, TypeOK
<1> QED BY <1>2, <1>3 DEF AdmitInv

\* The Bloom filter takes a URL for new only if the exact store has not got it.
LEMMA AdmitBloom ==
  ASSUME TypeInv, AdmitInv, NEW c \in Callers, NEW v \in Urls, BloomTest(c, v)
  PROVE  AdmitInv'
<1> USE DEF TypeInv, TypeOK
<1>1. UNCHANGED <<exact, admitted>> /\ bloom' = bloom \cup BitsOf[v]
  BY DEF BloomTest, history
<1>2. \/ BitsOf[v] \subseteq bloom /\ fresh' = fresh /\ maybe' = [maybe EXCEPT ![c] = @ \cup {v}]
      \/ /\ ~(BitsOf[v] \subseteq bloom) /\ fresh' = [fresh EXCEPT ![c] = @ \cup {v}]
         /\ maybe' = maybe
  BY DEF BloomTest
<1>5. \A p \in Callers :
        /\ fresh'[p] \subseteq fresh[p] \cup {v} /\ maybe'[p] \subseteq maybe[p] \cup {v}
        /\ fresh[p] \subseteq fresh'[p]
  <2>1. CASE fresh' = fresh
    BY <1>2, <2>1
  <2>2. CASE fresh' = [fresh EXCEPT ![c] = @ \cup {v}] /\ maybe' = maybe
    BY <2>2
  <2> QED BY <1>2, <2>1, <2>2
<1> SUFFICES ASSUME NEW u \in Urls
             PROVE  /\ u \notin exact => admitted[u] = 0
                    /\ admitted[u] + Cardinality(Claimants(u)') <= Cardinality(Callers)
                    /\ u \in exact \/ (\E p \in Callers : u \in fresh'[p] \cup maybe'[p])
                         => BitsOf[u] \subseteq bloom \cup BitsOf[v]
  BY <1>1 DEF AdmitInv
<1>3. u \in exact \/ (\E p \in Callers : u \in fresh'[p] \cup maybe'[p])
        => BitsOf[u] \subseteq bloom \cup BitsOf[v]
  <2>1. \A p \in Callers : u \in fresh'[p] \cup maybe'[p] => u = v \/ u \in fresh[p] \cup maybe[p]
    BY <1>5
  <2> QED BY <2>1 DEF AdmitInv
<1>4. admitted[u] + Cardinality(Claimants(u)') <= Cardinality(Callers)
  <2>1. CASE Claimants(u)' = Claimants(u)
    BY <2>1 DEF AdmitInv
  <2>2. CASE Claimants(u)' # Claimants(u)
    <3>1. u = v /\ ~(BitsOf[v] \subseteq bloom)
      <4>1. fresh' # fresh
        BY <2>2 DEF Claimants
      <4>2. ~(BitsOf[v] \subseteq bloom)
        BY <1>2, <4>1
      <4>3. u = v
        BY <1>5, <2>2 DEF Claimants
      <4> QED BY <4>2, <4>3
    <3>2. admitted[u] = 0
      BY <3>1 DEF AdmitInv
    <3>3. Claimants(u)' \in SUBSET Callers
      BY DEF Claimants
    <3> QED BY <3>2, <3>3, ClaimantsCount
  <2> QED BY <2>1, <2>2
<1> QED BY <1>3, <1>4 DEF AdmitInv

\* The exact lookup takes for new what the exact store has not got.
LEMMA AdmitLookup ==
  ASSUME TypeInv, AdmitInv, NEW c \in Callers, ExactLookup(c)
  PROVE  AdmitInv'
<1> USE DEF TypeInv, TypeOK
<1>1. /\ UNCHANGED <<exact, admitted, bloom>>
      /\ fresh' = [fresh EXCEPT ![c] = @ \cup (maybe[c] \ exact)]
      /\ maybe' = [maybe EXCEPT ![c] = @ \cap exact]
  BY DEF ExactLookup, seenVars, history
<1> SUFFICES ASSUME NEW u \in Urls
             PROVE  /\ u \notin exact => admitted[u] = 0
                    /\ admitted[u] + Cardinality(Claimants(u)') <= Cardinality(Callers)
                    /\ u \in exact \/ (\E p \in Callers : u \in fresh'[p] \cup maybe'[p])
                         => BitsOf[u] \subseteq bloom
  BY <1>1 DEF AdmitInv
<1>2. \A p \in Callers : u \in fresh'[p] \cup maybe'[p] => u \in fresh[p] \cup maybe[p]
  BY <1>1
<1>3. admitted[u] + Cardinality(Claimants(u)') <= Cardinality(Callers)
  <2>1. CASE u \in exact
    <3>1. Claimants(u)' = Claimants(u)
      BY <1>1, <2>1 DEF Claimants
    <3> QED BY <3>1 DEF AdmitInv
  <2>2. CASE u \notin exact
    <3>1. admitted[u] = 0 /\ Claimants(u)' \in SUBSET Callers
      BY <2>2 DEF AdmitInv, Claimants
    <3> QED BY <3>1, ClaimantsCount
  <2> QED BY <2>1, <2>2
<1> QED BY <1>2, <1>3 DEF AdmitInv

\* Marking turns a caller's claim into an admission.
LEMMA AdmitMark ==
  ASSUME TypeInv, AdmitInv, NEW c \in Callers, MarkSeen(c)
  PROVE  AdmitInv'
<1> USE DEF TypeInv, TypeOK
<1>1. /\ exact' = exact \cup fresh[c] /\ UNCHANGED bloom
      /\ fresh' = [fresh EXCEPT ![c] = {}] /\ maybe' = [maybe EXCEPT ![c] = {}]
      /\ admitted' = [u \in Urls |-> IF u \in fresh[c] THEN admitted[u] + 1 ELSE admitted[u]]
  BY DEF MarkSeen, ReturnFresh
<1> SUFFICES ASSUME NEW u \in Urls
             PROVE  /\ u \notin exact' => admitted'[u] = 0
                    /\ admitted'[u] + Cardinality(Claimants(u)') <= Cardinality(Callers)
                    /\ u \in exact' \/ (\E p \in Callers : u \in fresh'[p] \cup maybe'[p])
                         => BitsOf[u] \subseteq bloom
  BY <1>1 DEF AdmitInv
<1>2. u \in exact' \/ (\E p \in Callers : u \in fresh'[p] \cup maybe'[p])
        => BitsOf[u] \subseteq bloom
  <2>1. \A p \in Callers : u \in fresh'[p] \cup maybe'[p] => u \in fresh[p] \cup maybe[p]
    BY <1>1
  <2>2. u \in exact' => u \in exact \/ u \in fresh[c]
    BY <1>1
  <2> QED BY <2>1, <2>2 DEF AdmitInv
<1>3. Claimants(u)' = Claimants(u) \ {c}
  BY <1>1 DEF Claimants
<1>4. IsFiniteSet(Claimants(u)) /\ Cardinality(Claimants(u)) \in Nat
  BY ClaimantsCount, Claimants(u) \in SUBSET Callers DEF Claimants
<1>5. Cardinality(Claimants(u)') =
        IF c \in Claimants(u) THEN Cardinality(Claimants(u)) - 1 ELSE Cardinality(Claimants(u))
  BY <1>3, <1>4, FS_RemoveElement
<1>6. CASE u \in fresh[c]
  <2>1. admitted'[u] = admitted[u] + 1 /\ c \in Claimants(u) /\ u \in exact'
    BY <1>1, <1>6 DEF Claimants
  <2>2. admitted'[u] + Cardinality(Claimants(u)') = admitted[u] + Cardinality(Claimants(u))
    BY <1>4, <1>5, <2>1
  <2>3. admitted[u] + Cardinality(Claimants(u)) <= Cardinality(Callers)
    BY DEF AdmitInv
  <2> QED BY <1>2, <2>1, <2>2, <2>3
<1>7. CASE u \notin fresh[c]
  <2>1. admitted'[u] = admitted[u] /\ c \notin Claimants(u) /\ (u \notin exact' => u \notin exact)
    BY <1>1, <1>7 DEF Claimants
  <2> QED BY <1>2, <1>4, <1>5, <2>1 DEF AdmitInv
<1> QED BY <1>6, <1>7

\* A claim is made before anything is admitted and becomes one admission, so a
\* step moves it from one term of the sum to the other or drops it.
LEMMA AdmitStep == TypeInv /\ AdmitInv /\ [Next]_vars => AdmitInv'
<1> SUFFICES ASSUME TypeInv, AdmitInv, [Next]_vars PROVE AdmitInv'
  OBVIOUS
<1>1. ASSUME NEW c \in Callers, Step(c) \/ Crash(c) \/ \E b \in Batches : Offer(c, b)
      PROVE  AdmitInv'
  <2>1. CASE PeekBudget(c) \/ BudgetDone(c) \/ \E b \in Batches : Offer(c, b)
    BY <2>1, AdmitQuiet DEF PeekBudget, BudgetDone, Offer, seenVars, history
  <2>2. CASE (\E u \in Urls : EnqueueOne(c, u)) \/ Spend(c) \/ StartWindow(c)
    BY <2>2, AdmitQuiet DEF EnqueueOne, Spend, StartWindow, seenVars, history
  <2>3. CASE Crash(c)
    BY <2>3, AdmitQuiet DEF Crash, TypeInv, TypeOK, seenVars
  <2> QED BY <1>1, <2>1, <2>2, <2>3, AdmitBloom, AdmitLookup, AdmitMark DEF Step
<1>2. CASE UNCHANGED vars \/ (\E d \in Sites : WindowEnds(d)) \/ \E u \in Urls : Leased(u)
  BY <1>2, AdmitQuiet DEF WindowEnds, Leased, vars, seenVars, callVars, history
<1> QED BY <1>1, <1>2 DEF Next

\* However the unlocked steps of filter_new overlap, a URL is admitted at most
\* once per caller: a later call finds it in the exact store.
THEOREM AdmissionsBounded == Spec => []AdmittedPerCaller
<1>1. Spec => []TypeInv
  BY TypeInit, TypeStep, PTL DEF Spec
<1>2. Spec => []AdmitInv
  BY <1>1, AdmitInit, AdmitStep, PTL DEF Spec
<1>3. TypeInv /\ AdmitInv => AdmittedPerCaller
  <2> SUFFICES ASSUME TypeInv, AdmitInv, NEW u \in Urls
               PROVE  admitted[u] <= Cardinality(Callers)
    BY DEF AdmittedPerCaller
  <2>1. Cardinality(Claimants(u)) \in Nat /\ Cardinality(Callers) \in Nat
    BY ClaimantsCount, Claimants(u) \in SUBSET Callers DEF Claimants
  <2>2. admitted[u] \in Nat
    BY DEF TypeInv, TypeOK
  <2> QED BY <2>1, <2>2 DEF AdmitInv
<1> QED BY <1>1, <1>2, <1>3, PTL

-----------------------------------------------------------------------------
(* What a site is charged is bounded.                                      *)

\* The URLs a caller was granted and has not paid for, all of them and a site's.
Unpaid(c) ==
  todo[c] \cup fresh[c] \cup maybe[c] \cup (IF at[c] = "spend" THEN {cur[c]} ELSE {})
Due(c, d) == {u \in Unpaid(c) : SiteOf[u] = d}

\* What is left of the allowance a caller has read for a site.
Kept(c, d) == IF at[c] = "budget" /\ allow[c][d] # None THEN allow[c][d] ELSE 0

\* The charges a caller may still make, and those of all callers, as pairs of a
\* caller and a number up to its claims.
Claims(c, d) == Cardinality(Due(c, d)) + Kept(c, d)
Owing(d) == {p \in Callers \X (1 .. Limit[d]) : p[2] <= Claims(p[1], d)}

Ledger(c) ==
  /\ IsFiniteSet(Unpaid(c))
  /\ at[c] # "budget" => \A d \in Sites : allow[c][d] = None
  /\ at[c] = "spend" => cur[c] \notin todo[c]
  /\ \A d \in Sites : at[c] = "budget" /\ allow[c][d] = None => Due(c, d) = {}

\* A caller never claims more than the limit, and charges and claims together
\* stay within one limit per caller: a peek happens at a time when the site has
\* been charged less than its limit, if it grants anything.
BudgetInv ==
  /\ \A c \in Callers : Ledger(c)
  /\ \A c \in Callers, d \in Sites : Claims(c, d) <= Limit[d]
  /\ \A d \in Sites : spent[d] + Cardinality(Owing(d)) <= Cardinality(Callers) * Limit[d]

\* The URLs of a site a caller has yet to pay for are finitely many.
LEMMA DueCount ==
  ASSUME NEW c, NEW d, IsFiniteSet(Unpaid(c))
  PROVE  IsFiniteSet(Due(c, d)) /\ Cardinality(Due(c, d)) \in Nat
BY FS_Subset, FS_CardinalityType, Due(c, d) \in SUBSET Unpaid(c) DEF Due

\* What a caller may still hand out of its allowance is a number.
LEMMA KeptType ==
  ASSUME TypeOK, NEW c \in Callers, NEW d \in Sites
  PROVE  Kept(c, d) \in Nat
<1>1. allow[c][d] \in Nat \cup {None}
  BY DEF TypeOK
<1> QED BY <1>1 DEF Kept

\* A set is one smaller without one of its elements.
LEMMA OneLess ==
  ASSUME NEW S, IsFiniteSet(S), NEW x \in S
  PROVE  IsFiniteSet(S \ {x}) /\ Cardinality(S \ {x}) = Cardinality(S) - 1
BY FS_RemoveElement

\* What a caller may still be charged for a site is a number.
LEMMA ClaimsType ==
  ASSUME TypeOK, NEW c \in Callers, NEW d \in Sites, IsFiniteSet(Unpaid(c))
  PROVE  Claims(c, d) \in Nat
BY DueCount, KeptType DEF Claims

\* The pairs in Owing are those of a finite product.
LEMMA OwingCount ==
  ASSUME NEW d \in Sites
  PROVE  /\ IsFiniteSet(Owing(d))
         /\ Cardinality(Owing(d)) \in Nat
         /\ Cardinality(Owing(d)) <= Cardinality(Callers) * Limit[d]
<1>1. Limit[d] \in Nat
  BY LimitType
<1>2. IsFiniteSet(1 .. Limit[d]) /\ Cardinality(1 .. Limit[d]) = Limit[d]
  <2>1. \A n \in Nat : IsFiniteSet(1 .. n) /\ Cardinality(1 .. n) = n
    BY FS_Interval
  <2> QED BY <1>1, <2>1
<1>3. /\ IsFiniteSet(Callers \X (1 .. Limit[d]))
      /\ Cardinality(Callers \X (1 .. Limit[d])) = Cardinality(Callers) * Limit[d]
  BY <1>2, CallersFinite, FS_Product
<1>4. Owing(d) \in SUBSET (Callers \X (1 .. Limit[d]))
  BY DEF Owing
<1> QED BY <1>3, <1>4, FS_Subset, FS_CardinalityType

\* While no caller's claims grow, what they owe together does not.
LEMMA OwingShrinks ==
  ASSUME NEW d \in Sites,
         \A p \in Callers : /\ Claims(p, d) \in Nat /\ Claims(p, d)' \in Nat
                            /\ Claims(p, d)' <= Claims(p, d)
  PROVE  /\ Cardinality(Owing(d)') \in Nat
         /\ Cardinality(Owing(d)') <= Cardinality(Owing(d))
<1>1. Limit[d] \in Nat
  BY LimitType
<1>2. Owing(d)' \in SUBSET Owing(d)
  <2> SUFFICES ASSUME NEW p \in Callers, NEW n \in 1 .. Limit[d], n <= Claims(p, d)'
               PROVE  n <= Claims(p, d)
    BY DEF Owing
  <2>1. n \in Nat
    BY <1>1
  <2> QED BY <2>1
<1> QED BY <1>2, OwingCount, FS_Subset, FS_CardinalityType

\* The claims and the ledgers of the other callers stay as they are.
LEMMA OthersClaims ==
  ASSUME NEW p \in Callers, Same(p)
  PROVE  /\ \A d : Claims(p, d)' = Claims(p, d)
         /\ Ledger(p) => Ledger(p)'
<1>1. Unpaid(p)' = Unpaid(p)
  BY DEF Unpaid, Same
<1>2. \A d : Due(p, d)' = Due(p, d) /\ Kept(p, d)' = Kept(p, d)
  BY <1>1 DEF Due, Kept, Same
<1>3. \A d : Claims(p, d)' = Claims(p, d)
  BY <1>2 DEF Claims
<1>4. Ledger(p) => Ledger(p)'
  BY <1>1, <1>2 DEF Ledger, Same
<1> QED BY <1>3, <1>4

\* Nothing is spent and nothing is owed.
LEMMA BudgetInit == Init => BudgetInv
<1> SUFFICES ASSUME Init PROVE BudgetInv
  OBVIOUS
<1>1. ASSUME NEW c \in Callers
      PROVE  /\ Unpaid(c) = {} /\ \A d \in Sites : Kept(c, d) = 0
             /\ \A d : Due(c, d) = {}
  BY DEF Init, Unpaid, Kept, Due
<1>2. \A c \in Callers : Ledger(c)
  BY <1>1, FS_EmptySet DEF Init, Ledger
<1>3. \A c \in Callers, d \in Sites : Claims(c, d) = 0
  BY <1>1, FS_EmptySet DEF Claims
<1>4. \A d \in Sites : Limit[d] \in Nat
  BY LimitType
<1>5. \A d \in Sites : spent[d] + Cardinality(Owing(d)) <= Cardinality(Callers) * Limit[d]
  BY OwingCount DEF Init
<1> QED BY <1>2, <1>3, <1>4, <1>5 DEF BudgetInv

\* A caller's step that charges nothing and grants nothing.
LEMMA BudgetQuiet ==
  ASSUME TypeInv, TypeInv', BudgetInv, NEW c \in Callers,
         Step(c) \/ Crash(c) \/ \E b \in Batches : Offer(c, b),
         spent' = spent, Ledger(c)',
         \A d \in Sites : Claims(c, d)' <= Claims(c, d)
  PROVE  BudgetInv'
<1>1. \A p \in Callers \ {c} : Same(p)
  BY OthersStay DEF TypeInv
<1>2. \A p \in Callers : Ledger(p)'
  BY <1>1, OthersClaims DEF BudgetInv
<1>3. \A p \in Callers, d \in Sites : Claims(p, d) \in Nat
  BY ClaimsType DEF BudgetInv, Ledger, TypeInv
<1>4. ASSUME NEW p \in Callers, NEW d \in Sites PROVE Claims(p, d)' \in Nat
  <2>1. TypeOK' /\ IsFiniteSet(Unpaid(p))'
    BY <1>2 DEF TypeInv, Ledger
  <2>2. IsFiniteSet(Due(p, d)') /\ Cardinality(Due(p, d)') \in Nat
    BY <2>1, FS_Subset, FS_CardinalityType, Due(p, d)' \in SUBSET Unpaid(p)' DEF Due
  <2>3. Kept(p, d)' \in Nat
    <3>1. allow'[p][d] \in Nat \cup {None}
      BY <2>1 DEF TypeOK
    <3> QED BY <3>1 DEF Kept
  <2> QED BY <2>2, <2>3 DEF Claims
<1>5. \A p \in Callers, d \in Sites : Claims(p, d)' <= Claims(p, d)
  <2> SUFFICES ASSUME NEW p \in Callers, NEW d \in Sites PROVE Claims(p, d)' <= Claims(p, d)
    OBVIOUS
  <2>1. CASE p = c
    BY <2>1
  <2>2. CASE p # c
    BY <1>1, <1>3, <2>2, OthersClaims
  <2> QED BY <2>1, <2>2
<1>6. \A p \in Callers, d \in Sites : Claims(p, d)' <= Limit[d]
  BY <1>3, <1>4, <1>5, LimitType DEF BudgetInv
<1>7. ASSUME NEW d \in Sites
      PROVE  spent'[d] + Cardinality(Owing(d)') <= Cardinality(Callers) * Limit[d]
  <2>1. /\ Cardinality(Owing(d)') \in Nat
        /\ Cardinality(Owing(d)') <= Cardinality(Owing(d))
    BY <1>3, <1>4, <1>5, OwingShrinks
  <2>2. spent[d] + Cardinality(Owing(d)) <= Cardinality(Callers) * Limit[d]
    BY DEF BudgetInv
  <2>3. /\ spent[d] \in Nat /\ Cardinality(Owing(d)) \in Nat
        /\ Cardinality(Callers) * Limit[d] \in Nat
    BY OwingCount, CallersFinite, FS_CardinalityType, LimitType DEF TypeInv, TypeOK
  <2> QED BY <2>1, <2>2, <2>3
<1> QED BY <1>2, <1>6, <1>7 DEF BudgetInv

\* A caller that treats or forgets URLs, outside the budget loop.
LEMMA ClaimsShrink ==
  ASSUME TypeOK, NEW c \in Callers, NEW d \in Sites, IsFiniteSet(Unpaid(c)),
         Unpaid(c)' \subseteq Unpaid(c), Kept(c, d)' = 0
  PROVE  IsFiniteSet(Unpaid(c)') /\ Claims(c, d)' <= Claims(c, d)
<1>1. IsFiniteSet(Unpaid(c)') /\ Due(c, d)' \in SUBSET Due(c, d)
  BY FS_Subset DEF Due
<1>2. /\ IsFiniteSet(Due(c, d)) /\ Cardinality(Due(c, d)) \in Nat
      /\ Cardinality(Due(c, d)') \in Nat
      /\ Cardinality(Due(c, d)') <= Cardinality(Due(c, d))
  BY <1>1, DueCount, FS_Subset, FS_CardinalityType
<1>3. Kept(c, d) \in Nat
  BY KeptType
<1> QED BY <1>1, <1>2, <1>3 DEF Claims

\* canonicalise makes at most as many URLs as it is given.
LEMMA CanonicalCount ==
  ASSUME NEW S, IsFiniteSet(S)
  PROVE  /\ IsFiniteSet({Canonical[u] : u \in S})
         /\ Cardinality({Canonical[u] : u \in S}) <= Cardinality(S)
<1> DEFINE T == {Canonical[u] : u \in S}
           f == [u \in S |-> Canonical[u]]
<1>1. f \in Surjection(S, T)
  BY DEF Surjection
<1> QED BY <1>1, FS_Surjection

\* The steps of the budget loop but for the peek.
LEMMA BudgetOffer ==
  ASSUME TypeInv, TypeInv', BudgetInv, NEW c \in Callers, NEW b \in Batches, Offer(c, b)
  PROVE  BudgetInv'
<1> USE DEF TypeInv, TypeOK
<1>1. Ledger(c) /\ Place(c) /\ at[c] = "idle" /\ at'[c] = "budget"
  BY DEF BudgetInv, Places, Offer, GoTo
<1>2. /\ UNCHANGED <<todo, fresh, maybe, cur, allow, spent>>
      /\ \A d \in Sites : allow'[c][d] = None
  BY <1>1 DEF Offer, budgetVars, Ledger
<1>3. Unpaid(c)' = {} /\ Unpaid(c) = {}
  BY <1>1, <1>2 DEF Unpaid, Place
<1>4. \A d \in Sites : Kept(c, d)' = 0
  BY <1>2 DEF Kept
<1>5. Ledger(c)'
  BY <1>1, <1>2, <1>3, FS_EmptySet DEF Ledger, Due
<1>6. \A d \in Sites : Claims(c, d)' <= Claims(c, d)
  BY <1>1, <1>3, <1>4, ClaimsShrink DEF Ledger
<1> QED BY <1>2, <1>5, <1>6, BudgetQuiet

\* The end of the budget loop: what was set aside becomes what is to be offered.
LEMMA BudgetLoopDone ==
  ASSUME TypeInv, TypeInv', BudgetInv, NEW c \in Callers, BudgetDone(c)
  PROVE  BudgetInv'
<1> USE DEF TypeInv, TypeOK
<1>1. Ledger(c) /\ Place(c) /\ at[c] = "budget" /\ at'[c] \in {"idle", "bloom"}
  BY DEF BudgetInv, Places, BudgetDone, GoTo
<1>2. /\ UNCHANGED <<fresh, maybe, cur, spent>>
      /\ todo'[c] = {Canonical[u] : u \in todo[c]}
      /\ \A d \in Sites : allow'[c][d] = None
  BY DEF BudgetDone, budgetVars
<1>3. Unpaid(c) = todo[c] /\ Unpaid(c)' = {Canonical[u] : u \in todo[c]}
  BY <1>1, <1>2 DEF Unpaid, Place
<1>4. Ledger(c)'
  <2>1. IsFiniteSet(todo[c])
    BY <1>1, <1>3 DEF Ledger
  <2>2. IsFiniteSet(Unpaid(c)')
    BY <1>3, <2>1, CanonicalCount
  <2> QED BY <1>1, <1>2, <2>2 DEF Ledger
<1>5. ASSUME NEW d \in Sites PROVE Claims(c, d)' <= Claims(c, d)
  <2>1. Due(c, d)' = {Canonical[u] : u \in Due(c, d)}
    <3>1. \A u \in todo[c] : SiteOf[Canonical[u]] = SiteOf[u]
      BY <1>1, OnceIsSpelling DEF Place
    <3>2. Due(c, d)' = {v \in {Canonical[u] : u \in todo[c]} : SiteOf[v] = d}
      BY <1>3 DEF Due
    <3>3. Due(c, d) = {u \in todo[c] : SiteOf[u] = d}
      BY <1>3 DEF Due
    <3>4. \A u \in todo[c] : Canonical[u] \in Due(c, d)' <=> u \in Due(c, d)
      BY <3>1, <3>2, <3>3
    <3> QED BY <3>2, <3>3, <3>4
  <2>2. IsFiniteSet(Due(c, d)) /\ Cardinality(Due(c, d)) \in Nat
    BY <1>1, DueCount DEF Ledger
  <2>3. /\ Cardinality(Due(c, d)') <= Cardinality(Due(c, d))
        /\ Cardinality(Due(c, d)') \in Nat
    BY <2>1, <2>2, CanonicalCount, FS_CardinalityType
  <2>4. Kept(c, d)' = 0 /\ Kept(c, d) \in Nat
    BY <1>1, KeptType DEF Kept
  <2> QED BY <2>2, <2>3, <2>4 DEF Claims
<1> QED BY <1>2, <1>4, <1>5, BudgetQuiet DEF Step

\* The filter and the enqueue loop hand the granted URLs on.
LEMMA BudgetHandOn ==
  ASSUME TypeInv, TypeInv', BudgetInv, NEW c \in Callers,
         \/ \E u \in Urls : BloomTest(c, u) \/ EnqueueOne(c, u)
         \/ ExactLookup(c) \/ MarkSeen(c) \/ StartWindow(c) \/ Crash(c)
  PROVE  BudgetInv'
<1> USE DEF TypeInv, TypeOK
<1>1. Ledger(c) /\ Place(c)
  BY DEF BudgetInv, Places
<1>2. ASSUME spent' = spent, at'[c] # "budget", Unpaid(c)' \subseteq Unpaid(c),
             \A d \in Sites : allow'[c][d] = None,
             at'[c] = "spend" => cur'[c] \notin todo'[c]
      PROVE  BudgetInv'
  <2>1. \A d \in Sites : Kept(c, d)' = 0
    BY <1>2 DEF Kept
  <2>2. IsFiniteSet(Unpaid(c)')
    BY <1>1, <1>2, FS_Subset DEF Ledger
  <2>3. Ledger(c)'
    BY <1>2, <2>2 DEF Ledger
  <2>4. \A d \in Sites : Claims(c, d)' <= Claims(c, d)
    BY <1>1, <1>2, <2>1, ClaimsShrink DEF Ledger
  <2> QED BY <1>2, <2>3, <2>4, BudgetQuiet DEF Step
<1>3. at[c] # "budget" => \A d \in Sites : allow[c][d] = None
  BY <1>1 DEF Ledger
<1>4. ASSUME NEW u \in Urls, BloomTest(c, u) PROVE BudgetInv'
  <2>1. /\ UNCHANGED <<spent, allow, cur>> /\ at[c] = "bloom" /\ at'[c] \in {"bloom", "lookup"}
        /\ todo'[c] = todo[c] \ {u} /\ u \in todo[c]
    BY <1>4 DEF BloomTest, Skip, GoTo, budgetVars
  <2>2. fresh'[c] \subseteq fresh[c] \cup {u} /\ maybe'[c] \subseteq maybe[c] \cup {u}
    <3>1. \/ fresh' = fresh /\ maybe' = [maybe EXCEPT ![c] = @ \cup {u}]
          \/ fresh' = [fresh EXCEPT ![c] = @ \cup {u}] /\ maybe' = maybe
      BY <1>4 DEF BloomTest
    <3> QED BY <3>1
  <2>3. Unpaid(c)' \subseteq Unpaid(c)
    BY <2>1, <2>2 DEF Unpaid
  <2> QED BY <1>2, <1>3, <2>1, <2>3
<1>5. ASSUME NEW u \in Urls, EnqueueOne(c, u) PROVE BudgetInv'
  <2>1. /\ UNCHANGED <<spent, allow, fresh, maybe>> /\ at[c] = "enqueue" /\ at'[c] # "budget"
        /\ todo'[c] = todo[c] \ {u} /\ u \in todo[c]
        /\ at'[c] = "spend" => cur'[c] = u
    BY <1>5 DEF EnqueueOne, Skip, GoTo, AfterUrl, budgetVars
  <2>2. Unpaid(c)' \subseteq Unpaid(c)
    BY <2>1 DEF Unpaid
  <2> QED BY <1>2, <1>3, <2>1, <2>2
<1>6. CASE ExactLookup(c)
  <2>1. /\ UNCHANGED <<spent, allow, todo, cur>> /\ at[c] = "lookup" /\ at'[c] = "mark"
        /\ fresh'[c] \subseteq fresh[c] \cup maybe[c] /\ maybe'[c] \subseteq maybe[c]
    BY <1>6 DEF ExactLookup, GoTo, budgetVars
  <2>2. Unpaid(c)' \subseteq Unpaid(c)
    BY <2>1 DEF Unpaid
  <2> QED BY <1>2, <1>3, <2>1, <2>2
<1>7. CASE MarkSeen(c)
  <2>1. /\ UNCHANGED <<spent, allow, cur>> /\ at[c] = "mark" /\ at'[c] \in {"idle", "enqueue"}
        /\ todo'[c] = fresh[c] /\ fresh'[c] = {} /\ maybe'[c] = {}
    BY <1>7 DEF MarkSeen, ReturnFresh, GoTo, budgetVars
  <2>2. Unpaid(c)' \subseteq Unpaid(c)
    BY <2>1 DEF Unpaid
  <2> QED BY <1>2, <1>3, <2>1, <2>2
<1>8. CASE StartWindow(c)
  <2>1. /\ UNCHANGED <<spent, allow, todo, fresh, maybe>> /\ at[c] = "expire"
        /\ at'[c] \in {"idle", "enqueue"}
    BY <1>8 DEF StartWindow, GoTo, AfterUrl
  <2>2. Unpaid(c)' \subseteq Unpaid(c)
    BY <2>1 DEF Unpaid
  <2> QED BY <1>2, <1>3, <2>1, <2>2
<1>9. CASE Crash(c)
  <2>1. /\ spent' = spent /\ at'[c] = "idle" /\ \A d \in Sites : allow'[c][d] = None
        /\ todo'[c] = {} /\ fresh'[c] = {} /\ maybe'[c] = {}
    BY <1>9 DEF Crash, GoTo, budgetVars
  <2>2. Unpaid(c)' \subseteq Unpaid(c)
    BY <2>1 DEF Unpaid
  <2> QED BY <1>2, <2>1, <2>2
<1> QED BY <1>4, <1>5, <1>6, <1>7, <1>8, <1>9

\* What the peek does to a caller's claims: it grants what it takes from the
\* allowance, or, at the first URL of a site, no more than what is left of the limit.
LEMMA PeekClaims ==
  ASSUME TypeInv, TypeInv', BudgetInv, NEW c \in Callers, PeekBudget(c),
         NEW u \in Once, NEW s \in Sites, u = Head(batch[c]), s = SiteOf[u]
  PROVE  /\ Ledger(c)'
         /\ \A d \in Sites : d # s => Claims(c, d)' = Claims(c, d)
         /\ \/ Claims(c, s)' <= Claims(c, s)
            \/ spent[s] + Claims(c, s)' <= Limit[s]
<1> DEFINE r == Remaining(c, s)
           v == IF r > 0 THEN r - 1 ELSE 0
<1> USE DEF TypeInv, TypeOK
<1>1. Ledger(c) /\ Place(c) /\ at[c] = "budget" /\ at' = at
  BY DEF BudgetInv, Places, PeekBudget
<1>4. /\ allow[c][s] \in Nat \cup {None} /\ spent[s] \in Nat /\ Limit[s] \in Nat
      /\ allow[c][s] # None => r = allow[c][s]
      /\ allow[c][s] = None => r = IF Limit[s] > spent[s] THEN Limit[s] - spent[s] ELSE 0
  BY LimitType DEF Remaining
<1>5. r \in Nat /\ v \in Nat
  BY <1>4
<1>6. /\ todo'[c] = IF r > 0 THEN todo[c] \cup {u} ELSE todo[c]
      /\ allow'[c][s] = v
      /\ \A d \in Sites : d # s => allow'[c][d] = allow[c][d]
      /\ UNCHANGED <<fresh, maybe, cur>>
  <2>1. /\ todo' = [todo EXCEPT ![c] = IF r > 0 THEN @ \cup {u} ELSE @]
        /\ allow' = [allow EXCEPT ![c][s] = v]
        /\ UNCHANGED <<fresh, maybe, cur>>
    BY DEF PeekBudget
  <2> HIDE DEF r, v
  <2> QED BY <2>1
<1> HIDE DEF r
<1>7. Unpaid(c) = todo[c] /\ Unpaid(c)' = todo'[c]
  BY <1>1, <1>6 DEF Unpaid, Place
<1>8. IsFiniteSet(Unpaid(c)) /\ IsFiniteSet(Unpaid(c)')
  <2>1. IsFiniteSet(todo[c])
    BY <1>1, <1>7 DEF Ledger
  <2>2. IsFiniteSet(todo[c] \cup {u})
    BY <2>1, FS_AddElement
  <2> QED BY <1>6, <1>7, <2>1, <2>2
<1>9. \A d \in Sites : d # s => Due(c, d)' = Due(c, d) /\ Kept(c, d)' = Kept(c, d)
  BY <1>1, <1>6, <1>7 DEF Due, Kept
<1>10. v # None
  BY <1>5, NoneIsNoValue
<1>11. Kept(c, s)' = v
  BY <1>1, <1>6, <1>10 DEF Kept
<1>12. Ledger(c)'
  BY <1>1, <1>6, <1>8, <1>9, <1>10 DEF Ledger
<1>13. Due(c, s)' = IF r > 0 THEN Due(c, s) \cup {u} ELSE Due(c, s)
  BY <1>6, <1>7 DEF Due
<1>14. /\ IsFiniteSet(Due(c, s)) /\ Cardinality(Due(c, s)) \in Nat
       /\ Cardinality(Due(c, s) \cup {u}) \in Nat
       /\ Cardinality(Due(c, s) \cup {u}) <= Cardinality(Due(c, s)) + 1
  <2>1. IsFiniteSet(Due(c, s)) /\ Cardinality(Due(c, s)) \in Nat
    BY <1>8, DueCount
  <2>2. /\ IsFiniteSet(Due(c, s) \cup {u})
        /\ Cardinality(Due(c, s) \cup {u}) =
             IF u \in Due(c, s) THEN Cardinality(Due(c, s)) ELSE Cardinality(Due(c, s)) + 1
    BY <2>1, FS_AddElement
  <2> QED BY <2>1, <2>2
<1>15. CASE allow[c][s] # None
  <2>1. Kept(c, s) = r
    BY <1>1, <1>4, <1>15 DEF Kept
  <2>2. Claims(c, s)' <= Claims(c, s)
    BY <1>5, <1>11, <1>13, <1>14, <2>1 DEF Claims
  <2> QED BY <1>9, <1>12, <2>2 DEF Claims
<1>16. CASE allow[c][s] = None
  <2>1. Due(c, s) = {} /\ Kept(c, s) = 0
    BY <1>1, <1>16 DEF Ledger, Kept
  <2>2. Cardinality(Due(c, s)) = 0 /\ Claims(c, s) = 0
    BY <2>1, FS_EmptySet DEF Claims
  <2>3. CASE r = 0
    <3>1. Claims(c, s)' <= Claims(c, s)
      BY <1>11, <1>13, <2>2, <2>3 DEF Claims
    <3> QED BY <1>9, <1>12, <3>1 DEF Claims
  <2>4. CASE r > 0
    <3>1. Claims(c, s)' <= r /\ Claims(c, s)' \in Nat
      BY <1>5, <1>11, <1>13, <1>14, <2>2, <2>4 DEF Claims
    <3>2. r = Limit[s] - spent[s]
      BY <1>4, <1>16, <2>4
    <3>3. spent[s] + Claims(c, s)' <= Limit[s]
      BY <1>4, <1>5, <3>1, <3>2
    <3> QED BY <1>9, <1>12, <3>3 DEF Claims
  <2> QED BY <1>5, <2>3, <2>4
<1> QED BY <1>15, <1>16

\* A caller that claims at most r, next to others that claim up to the limit.
LEMMA OwingOfOthers ==
  ASSUME NEW c \in Callers, NEW d \in Sites, NEW r \in Nat,
         NEW S \in SUBSET (Callers \X (1 .. Limit[d])),
         \A p \in S : p[1] = c => p[2] <= r
  PROVE  Cardinality(S) <= (Cardinality(Callers) - 1) * Limit[d] + r
<1> DEFINE A == (Callers \ {c}) \X (1 .. Limit[d])
           B == {c} \X (1 .. r)
<1>1. Limit[d] \in Nat
  BY LimitType
<1>2. /\ IsFiniteSet(1 .. Limit[d]) /\ Cardinality(1 .. Limit[d]) = Limit[d]
      /\ IsFiniteSet(1 .. r) /\ Cardinality(1 .. r) = r
  <2>1. \A n \in Nat : IsFiniteSet(1 .. n) /\ Cardinality(1 .. n) = n
    BY FS_Interval
  <2> QED BY <1>1, <2>1
<1>3. IsFiniteSet(Callers \ {c}) /\ Cardinality(Callers \ {c}) = Cardinality(Callers) - 1
  BY CallersFinite, FS_RemoveElement
<1>4. IsFiniteSet(A) /\ Cardinality(A) = (Cardinality(Callers) - 1) * Limit[d]
  <2>1. /\ IsFiniteSet(A)
        /\ Cardinality(A) = Cardinality(Callers \ {c}) * Cardinality(1 .. Limit[d])
    BY <1>2, <1>3, FS_Product
  <2> QED BY <1>2, <1>3, <2>1
<1>5. IsFiniteSet(B) /\ Cardinality(B) = r
  <2>1. IsFiniteSet({c}) /\ Cardinality({c}) = 1
    BY FS_Singleton
  <2>2. IsFiniteSet(B) /\ Cardinality(B) = Cardinality({c}) * Cardinality(1 .. r)
    BY <1>2, <2>1, FS_Product
  <2>3. 1 * r = r
    OBVIOUS
  <2> HIDE DEF B
  <2> QED BY <1>2, <2>1, <2>2, <2>3
<1>6. S \in SUBSET (A \cup B)
  <2> SUFFICES ASSUME NEW p \in S PROVE p \in A \cup B
    OBVIOUS
  <2>1. PICK q \in Callers, n \in 1 .. Limit[d] : p = <<q, n>>
    OBVIOUS
  <2>2. CASE q = c
    <3>1. n <= r
      BY <2>1, <2>2
    <3>2. n \in 1 .. r
      BY <1>1, <3>1
    <3> QED BY <2>1, <2>2, <3>2
  <2>3. CASE q # c
    BY <2>1, <2>3
  <2> QED BY <2>2, <2>3
<1> HIDE DEF A, B
<1>7. /\ IsFiniteSet(A \cup B)
      /\ Cardinality(A \cup B) = Cardinality(A) + Cardinality(B) - Cardinality(A \cap B)
  BY <1>4, <1>5, FS_Union
<1>8. Cardinality(A \cap B) \in Nat
  BY <1>4, FS_Subset, FS_CardinalityType, A \cap B \in SUBSET A
<1>9. Cardinality(S) <= Cardinality(A \cup B) /\ Cardinality(S) \in Nat
  BY <1>6, <1>7, FS_Subset, FS_CardinalityType
<1>10. Cardinality(A) \in Nat /\ Cardinality(B) \in Nat /\ Cardinality(A \cup B) \in Nat
  BY <1>4, <1>5, <1>7, FS_CardinalityType
<1> QED BY <1>4, <1>5, <1>7, <1>8, <1>9, <1>10

\* What the other conjuncts of BudgetInv ask of a step, site by site.
LEMMA BudgetSite ==
  ASSUME TypeInv, BudgetInv, NEW d \in Sites,
         \A p \in Callers : /\ Claims(p, d) \in Nat /\ Claims(p, d)' \in Nat
                            /\ Claims(p, d)' <= Claims(p, d),
         spent'[d] = spent[d]
  PROVE  spent'[d] + Cardinality(Owing(d)') <= Cardinality(Callers) * Limit[d]
<1>1. /\ Cardinality(Owing(d)') \in Nat
      /\ Cardinality(Owing(d)') <= Cardinality(Owing(d))
  BY OwingShrinks
<1>2. spent[d] + Cardinality(Owing(d)) <= Cardinality(Callers) * Limit[d]
  BY DEF BudgetInv
<1>3. /\ spent[d] \in Nat /\ Cardinality(Owing(d)) \in Nat
      /\ Cardinality(Callers) * Limit[d] \in Nat
  BY OwingCount, CallersFinite, FS_CardinalityType, LimitType DEF TypeInv, TypeOK
<1> QED BY <1>1, <1>2, <1>3

\* Every caller's claims are numbers, before a step and after it.
LEMMA ClaimsNow ==
  ASSUME TypeInv, BudgetInv, NEW c \in Callers, NEW d \in Sites
  PROVE  Claims(c, d) \in Nat
BY ClaimsType DEF BudgetInv, Ledger, TypeInv

\* What a caller claims of a site is a number after a step as well.
LEMMA ClaimsNext ==
  ASSUME TypeInv', NEW c \in Callers, NEW d \in Sites, Ledger(c)'
  PROVE  Claims(c, d)' \in Nat
<1>1. TypeOK' /\ IsFiniteSet(Unpaid(c)')
  BY DEF TypeInv, Ledger
<1>2. IsFiniteSet(Due(c, d)') /\ Cardinality(Due(c, d)') \in Nat
  BY <1>1, FS_Subset, FS_CardinalityType, Due(c, d)' \in SUBSET Unpaid(c)' DEF Due
<1>3. Kept(c, d)' \in Nat
  <2>1. allow'[c][d] \in Nat \cup {None}
    BY <1>1 DEF TypeOK
  <2> QED BY <2>1 DEF Kept
<1> QED BY <1>2, <1>3 DEF Claims

\* The budget is peeked: what is granted fits what is left of the limit.
LEMMA BudgetPeek ==
  ASSUME TypeInv, TypeInv', BudgetInv, NEW c \in Callers, PeekBudget(c)
  PROVE  BudgetInv'
<1>0. at[c] = "budget" /\ batch[c] # <<>> /\ batch[c] \in Seq(Once) /\ spent' = spent
  BY DEF PeekBudget, TypeInv, Places, Place, budgetVars
<1>1. PICK u \in Once : u = Head(batch[c])
  BY <1>0
<1>2. PICK s \in Sites : s = SiteOf[u]
  BY OnceIsSpelling
<1>3. /\ Ledger(c)'
      /\ \A d \in Sites : d # s => Claims(c, d)' = Claims(c, d)
      /\ Claims(c, s)' <= Claims(c, s) \/ spent[s] + Claims(c, s)' <= Limit[s]
  BY <1>1, <1>2, PeekClaims
<1>4. \A p \in Callers \ {c} : Same(p)
  BY OthersStay DEF TypeInv, Step
<1>5. \A p \in Callers \ {c}, d \in Sites : Claims(p, d)' = Claims(p, d)
  BY <1>4, OthersClaims
<1>6. \A p \in Callers : Ledger(p)'
  BY <1>3, <1>4, OthersClaims DEF BudgetInv
<1>7. \A p \in Callers, d \in Sites : Claims(p, d) \in Nat /\ Claims(p, d)' \in Nat
  BY <1>6, ClaimsNow, ClaimsNext
<1>8. spent[s] \in Nat /\ Limit[s] \in Nat
  BY LimitType DEF TypeInv, TypeOK
<1>9. Claims(c, s)' <= Limit[s]
  <2>1. Claims(c, s) <= Limit[s]
    BY DEF BudgetInv
  <2> QED BY <1>3, <1>7, <1>8, <2>1
<1>10. \A p \in Callers, d \in Sites : Claims(p, d)' <= Limit[d]
  <2> SUFFICES ASSUME NEW p \in Callers, NEW d \in Sites PROVE Claims(p, d)' <= Limit[d]
    OBVIOUS
  <2>1. CASE p = c /\ d = s
    BY <1>9, <2>1
  <2>2. CASE ~(p = c /\ d = s)
    <3>1. Claims(p, d)' = Claims(p, d)
      BY <1>3, <1>5, <2>2
    <3> QED BY <3>1 DEF BudgetInv
  <2> QED BY <2>1, <2>2
<1>11. ASSUME NEW d \in Sites
       PROVE  spent'[d] + Cardinality(Owing(d)') <= Cardinality(Callers) * Limit[d]
  <2>1. CASE d # s \/ Claims(c, s)' <= Claims(c, s)
    <3>1. ASSUME NEW p \in Callers PROVE Claims(p, d)' <= Claims(p, d)
      <4>1. CASE p = c /\ d = s
        BY <2>1, <4>1
      <4>2. CASE ~(p = c /\ d = s)
        <5>1. Claims(p, d)' = Claims(p, d)
          BY <1>3, <1>5, <4>2
        <5> QED BY <1>7, <5>1
      <4> QED BY <4>1, <4>2
    <3> QED BY <1>0, <1>7, <3>1, BudgetSite
  <2>2. CASE d = s /\ spent[s] + Claims(c, s)' <= Limit[s]
    <3>1. PICK r \in Nat : r = Claims(c, s)'
      BY <1>7
    <3>2. /\ Owing(s)' \in SUBSET (Callers \X (1 .. Limit[s]))
          /\ \A p \in Owing(s)' : p[1] = c => p[2] <= r
      BY <3>1 DEF Owing
    <3>3. Cardinality(Owing(s)') <= (Cardinality(Callers) - 1) * Limit[s] + r
      BY <3>2, OwingOfOthers
    <3>4. IsFiniteSet(Owing(s)') /\ Cardinality(Owing(s)') \in Nat
      <4>1. IsFiniteSet(1 .. Limit[s])
        BY <1>8, FS_Interval
      <4>2. IsFiniteSet(Callers \X (1 .. Limit[s]))
        BY <4>1, CallersFinite, FS_Product
      <4> QED BY <3>2, <4>2, FS_Subset, FS_CardinalityType
    <3>5. Cardinality(Callers) \in Nat
      BY CallersFinite, FS_CardinalityType
    <3>6. (Cardinality(Callers) - 1) * Limit[s] + Limit[s] = Cardinality(Callers) * Limit[s]
      BY <1>8, <3>5
    <3>7. spent'[s] + Cardinality(Owing(s)') <= (Cardinality(Callers) - 1) * Limit[s] + Limit[s]
      <4> DEFINE m == (Cardinality(Callers) - 1) * Limit[s]
      <4>1. m \in Int
        BY <1>8, <3>5
      <4> HIDE DEF m
      <4>2. Cardinality(Owing(s)') <= m + r
        BY <3>3 DEF m
      <4>3. spent'[s] + Cardinality(Owing(s)') <= m + Limit[s]
        BY <1>0, <1>8, <2>2, <3>1, <3>4, <4>1, <4>2
      <4> QED BY <4>3 DEF m
    <3> QED BY <2>2, <3>6, <3>7
  <2> QED BY <1>3, <2>1, <2>2
<1> QED BY <1>6, <1>10, <1>11 DEF BudgetInv

\* A charge is one claim less.
LEMMA BudgetSpend ==
  ASSUME TypeInv, TypeInv', BudgetInv, NEW c \in Callers, Spend(c)
  PROVE  BudgetInv'
<1> USE DEF TypeInv, TypeOK
<1>1. Ledger(c) /\ Place(c) /\ at[c] = "spend" /\ at'[c] \in {"idle", "enqueue", "expire"}
  BY DEF BudgetInv, Places, Spend, GoTo, AfterUrl
<1>2. PICK v \in Urls : v = cur[c] /\ v \notin todo[c]
  BY <1>1 DEF Place, Ledger
<1>3. PICK s \in Sites : s = SiteOf[v]
  BY OnceIsSpelling
<1>4. UNCHANGED <<todo, fresh, maybe, allow>> /\ spent' = [spent EXCEPT ![s] = @ + 1]
  BY <1>2, <1>3 DEF Spend
<1>5. Unpaid(c) = todo[c] \cup {v} /\ Unpaid(c)' = todo[c]
  BY <1>1, <1>2, <1>4 DEF Unpaid, Place
<1>6. IsFiniteSet(Unpaid(c)) /\ IsFiniteSet(Unpaid(c)')
  BY <1>1, <1>5, FS_Subset DEF Ledger
<1>7. \A d \in Sites : Kept(c, d) = 0 /\ Kept(c, d)' = 0
  BY <1>1 DEF Kept
<1>8. Ledger(c)'
  BY <1>1, <1>4, <1>6 DEF Ledger
<1>9. \A d \in Sites : d # s => Claims(c, d)' = Claims(c, d)
  <2> SUFFICES ASSUME NEW d \in Sites, d # s PROVE Claims(c, d)' = Claims(c, d)
    OBVIOUS
  <2>1. Due(c, d)' = Due(c, d)
    BY <1>3, <1>5 DEF Due
  <2> QED BY <1>7, <2>1 DEF Claims
<1>10. Claims(c, s)' = Claims(c, s) - 1
  <2>1. Due(c, s)' = Due(c, s) \ {v} /\ v \in Due(c, s)
    BY <1>2, <1>3, <1>5 DEF Due
  <2>2. IsFiniteSet(Due(c, s)) /\ Cardinality(Due(c, s)) \in Nat
    BY <1>6, DueCount
  <2>3. Cardinality(Due(c, s)') = Cardinality(Due(c, s)) - 1
    BY <2>1, <2>2, OneLess
  <2> QED BY <1>7, <2>2, <2>3 DEF Claims
<1>11. \A p \in Callers \ {c} : Same(p)
  BY OthersStay DEF Step
<1>12. \A p \in Callers \ {c}, d \in Sites : Claims(p, d)' = Claims(p, d)
  BY <1>11, OthersClaims
<1>13. \A p \in Callers : Ledger(p)'
  BY <1>8, <1>11, OthersClaims DEF BudgetInv
<1>14. \A p \in Callers, d \in Sites : Claims(p, d) \in Nat /\ Claims(p, d)' \in Nat
  BY <1>13, ClaimsNow, ClaimsNext
<1>15. \A p \in Callers, d \in Sites : Claims(p, d)' <= Claims(p, d)
  <2> SUFFICES ASSUME NEW p \in Callers, NEW d \in Sites PROVE Claims(p, d)' <= Claims(p, d)
    OBVIOUS
  <2>1. CASE p = c /\ d = s
    BY <1>10, <1>14, <2>1
  <2>2. CASE ~(p = c /\ d = s)
    <3>1. Claims(p, d)' = Claims(p, d)
      BY <1>9, <1>12, <2>2
    <3> QED BY <1>14, <3>1
  <2> QED BY <2>1, <2>2
<1>16. \A p \in Callers, d \in Sites : Claims(p, d)' <= Limit[d]
  <2> SUFFICES ASSUME NEW p \in Callers, NEW d \in Sites PROVE Claims(p, d)' <= Limit[d]
    OBVIOUS
  <2>1. Claims(p, d) <= Limit[d] /\ Limit[d] \in Nat
    BY LimitType DEF BudgetInv
  <2>2. Claims(p, d)' <= Claims(p, d) /\ Claims(p, d)' \in Nat /\ Claims(p, d) \in Nat
    BY <1>14, <1>15
  <2> QED BY <2>1, <2>2
<1>17. ASSUME NEW d \in Sites
       PROVE  spent'[d] + Cardinality(Owing(d)') <= Cardinality(Callers) * Limit[d]
  <2>1. CASE d # s
    <3>1. spent'[d] = spent[d]
      BY <1>4, <2>1
    <3> QED BY <1>14, <1>15, <3>1, BudgetSite
  <2>2. CASE d = s
    <3>1. PICK n \in Nat : n = Claims(c, s)
      BY <1>14
    <3>2. Limit[s] \in Nat /\ n <= Limit[s] /\ n >= 1
      BY <1>10, <1>14, <3>1, LimitType DEF BudgetInv
    <3>3. <<c, n>> \in Owing(s)
      BY <3>1, <3>2 DEF Owing
    <3>4. Owing(s)' \in SUBSET (Owing(s) \ {<<c, n>>})
      <4> SUFFICES ASSUME NEW p \in Callers, NEW m \in 1 .. Limit[s], m <= Claims(p, s)'
                   PROVE  <<p, m>> \in Owing(s) /\ <<p, m>> # <<c, n>>
        BY DEF Owing
      <4>1. m <= Claims(p, s)
        <5>1. Claims(p, s)' \in Nat /\ Claims(p, s) \in Nat /\ Claims(p, s)' <= Claims(p, s)
          BY <1>14, <1>15
        <5>2. m \in Nat
          BY <3>2
        <5> HIDE DEF TypeInv
        <5> QED BY <5>1, <5>2
      <4>2. p = c => m # n
        BY <1>10, <3>1, <3>2
      <4> QED BY <4>1, <4>2 DEF Owing
    <3>5. IsFiniteSet(Owing(s)) /\ Cardinality(Owing(s)) \in Nat
      BY OwingCount
    <3>6. /\ IsFiniteSet(Owing(s) \ {<<c, n>>})
          /\ Cardinality(Owing(s) \ {<<c, n>>}) = Cardinality(Owing(s)) - 1
      BY <3>3, <3>5, OneLess
    <3>7. /\ Cardinality(Owing(s)') <= Cardinality(Owing(s)) - 1
          /\ Cardinality(Owing(s)') \in Nat
      BY <3>4, <3>6, FS_Subset, FS_CardinalityType
    <3>8. spent[s] \in Nat /\ spent'[s] = spent[s] + 1
      BY <1>4
    <3>9. /\ spent[s] + Cardinality(Owing(s)) <= Cardinality(Callers) * Limit[s]
          /\ Cardinality(Callers) * Limit[s] \in Nat
      BY <3>2, CallersFinite, FS_CardinalityType DEF BudgetInv
    <3> QED BY <2>2, <3>5, <3>7, <3>8, <3>9
  <2> QED BY <2>1, <2>2
<1> QED BY <1>13, <1>16, <1>17 DEF BudgetInv

\* What a site was charged, with what callers owe it, never exceeds a limit each.
LEMMA BudgetStep == TypeInv /\ BudgetInv /\ [Next]_vars => BudgetInv'
<1> SUFFICES ASSUME TypeInv, BudgetInv, [Next]_vars PROVE BudgetInv'
  OBVIOUS
<1>0. TypeInv'
  BY TypeStep
<1>1. ASSUME NEW c \in Callers, Step(c) \/ Crash(c) \/ \E b \in Batches : Offer(c, b)
      PROVE  BudgetInv'
  BY <1>0, <1>1, BudgetOffer, BudgetLoopDone, BudgetHandOn, BudgetPeek, BudgetSpend DEF Step
<1>2. ASSUME UNCHANGED callVars, \A d \in Sites : spent'[d] = spent[d] \/ spent'[d] = 0
      PROVE  BudgetInv'
  <2>1. \A p \in Callers : Same(p)
    BY <1>2 DEF Same, callVars
  <2>2. \A p \in Callers : Ledger(p)'
    BY <2>1, OthersClaims DEF BudgetInv
  <2>3. \A p \in Callers, d \in Sites : Claims(p, d)' = Claims(p, d)
    BY <2>1, OthersClaims
  <2>4. \A d \in Sites : Owing(d)' = Owing(d)
    BY <2>3 DEF Owing
  <2>5. ASSUME NEW d \in Sites
        PROVE  spent'[d] + Cardinality(Owing(d)') <= Cardinality(Callers) * Limit[d]
    <3>1. spent[d] \in Nat
      BY DEF TypeInv, TypeOK
    <3>2. spent[d] + Cardinality(Owing(d)) <= Cardinality(Callers) * Limit[d]
      BY DEF BudgetInv
    <3>3. Cardinality(Owing(d)) <= Cardinality(Callers) * Limit[d]
      BY OwingCount
    <3>4. Cardinality(Owing(d)) \in Nat
      BY OwingCount
    <3> QED BY <1>2, <2>4, <3>1, <3>2, <3>3, <3>4
  <2> QED BY <2>2, <2>3, <2>5 DEF BudgetInv
<1>3. ASSUME NEW d \in Sites, WindowEnds(d) PROVE BudgetInv'
  BY <1>2, <1>3 DEF WindowEnds, TypeInv, TypeOK
<1>4. CASE UNCHANGED vars \/ \E u \in Urls : Leased(u)
  BY <1>2, <1>4 DEF Leased, vars, budgetVars
<1> QED BY <1>1, <1>3, <1>4 DEF Next

\* However the peeks, the charges, crashes and ends of windows interleave, a site
\* is never charged more than its limit once per caller in one window.
THEOREM ChargesBounded == Spec => []BudgetBound
<1>1. Spec => []TypeInv
  BY TypeInit, TypeStep, PTL DEF Spec
<1>2. Spec => []BudgetInv
  BY <1>1, BudgetInit, BudgetStep, PTL DEF Spec
<1>3. TypeInv /\ BudgetInv => BudgetBound
  <2> SUFFICES ASSUME TypeInv, BudgetInv, NEW d \in Sites
               PROVE  spent[d] <= Cardinality(Callers) * Limit[d]
    BY DEF BudgetBound
  <2>1. /\ spent[d] \in Nat /\ Cardinality(Owing(d)) \in Nat
        /\ Cardinality(Callers) * Limit[d] \in Nat
    BY OwingCount, CallersFinite, FS_CardinalityType, LimitType DEF TypeInv, TypeOK
  <2>2. spent[d] + Cardinality(Owing(d)) <= Cardinality(Callers) * Limit[d]
    BY DEF BudgetInv
  <2> QED BY <2>1, <2>2
<1> QED BY <1>1, <1>2, <1>3, PTL

-----------------------------------------------------------------------------
(* The canonical form of a path: a needless escape changes nothing.        *)

\* Among sets of naturals that are not empty, one has a least element.
LEMMA LeastNatural ==
  ASSUME NEW S \in SUBSET Nat, S # {}
  PROVE  \E n \in S : \A m \in S : n <= m
<1>1. PICK n \in S : \A m \in S : ~(<<m, n>> \in OpToRel(<, Nat))
  BY WFMin, NatLessThanWellFounded
<1>2. \A m \in S : ~(m < n)
  BY <1>1 DEF OpToRel
<1> QED BY <1>2

\* What _UNRESERVED.sub makes of a text from i on, if g has what it makes of the rest.
FromThere(g, s, i) ==
  IF i > Len(s) THEN <<>>
  ELSE IF Needless(s, i) THEN <<Octet(s, i)>> \o g[i + 3]
  ELSE <<s[i]>> \o g[i + 1]

\* g has what it makes of every end of a text.
Decodes(g, s) == g = [i \in 1 .. Len(s) + 1 |-> FromThere(g, s, i)]

\* There is such a function: take the shortest end of the text for which none is.
LEMMA DecodingExists ==
  ASSUME NEW s, Len(s) \in Nat
  PROVE  \E g : Decodes(g, s)
<1> DEFINE L == Len(s)
           Good(g, n) == \A i \in 1 .. L + 1 : i > L + 1 - n => g[i] = FromThere(g, s, i)
           Bad == {n \in Nat : ~ \E g : Good(g, n)}
<1>1. \A i \in 1 .. L : Needless(s, i) => i + 3 \in 1 .. L + 1
  BY DEF Needless, Escape
<1>2. ASSUME NEW g, NEW h, NEW i \in 1 .. L + 1,
             \A j \in 1 .. L + 1 : j > i => g[j] = h[j]
      PROVE  FromThere(g, s, i) = FromThere(h, s, i)
  <2>1. CASE i > L
    BY <2>1 DEF FromThere
  <2>2. CASE i <= L /\ Needless(s, i)
    <3>1. g[i + 3] = h[i + 3]
      BY <1>1, <1>2, <2>2
    <3> QED BY <2>2, <3>1 DEF FromThere
  <2>3. CASE i <= L /\ ~Needless(s, i)
    <3>1. g[i + 1] = h[i + 1]
      BY <1>2, <2>3
    <3> QED BY <2>3, <3>1 DEF FromThere
  <2> QED BY <2>1, <2>2, <2>3
<1>3. Bad = {}
  <2> SUFFICES ASSUME Bad # {} PROVE FALSE
    OBVIOUS
  <2>a. Bad \subseteq Nat
    OBVIOUS
  <2>1. PICK n \in Bad : \A m \in Bad : n <= m
    <3> HIDE DEF Bad
    <3> QED BY <2>a, LeastNatural
  <2>2. n # 0
    <3>1. Good(<<>>, 0)
      OBVIOUS
    <3>2. 0 \notin Bad
      BY <3>1
    <3> HIDE DEF Bad
    <3> QED BY <2>1, <3>2
  <2>3. n - 1 \in Nat /\ n - 1 \notin Bad
    <3> HIDE DEF Bad
    <3> QED BY <2>1, <2>2, <2>a
  <2>4. PICK g : Good(g, n - 1)
    BY <2>3
  <2> DEFINE h == [i \in 1 .. L + 1 |-> FromThere(g, s, i)]
  <2>5. \A i \in 1 .. L + 1 : i > L + 1 - (n - 1) => h[i] = g[i]
    BY <2>4
  <2>6. Good(h, n)
    <3> SUFFICES ASSUME NEW i \in 1 .. L + 1, i > L + 1 - n PROVE h[i] = FromThere(h, s, i)
      OBVIOUS
    <3>1. n \in Nat
      BY <2>1
    <3>2. \A j \in 1 .. L + 1 : j > i => g[j] = h[j]
      BY <2>5, <3>1
    <3>3. h[i] = FromThere(g, s, i)
      OBVIOUS
    <3> HIDE DEF h
    <3> QED BY <1>2, <3>2, <3>3
  <2> HIDE DEF h
  <2>8. n \in Nat /\ ~ \E g1 : Good(g1, n)
    BY <2>1
  <2> QED BY <2>6, <2>8
<1>4. PICK g : Good(g, L + 1)
  <2>1. L + 1 \in Nat
    OBVIOUS
  <2> QED BY <1>3, <2>1
<1> DEFINE h == [i \in 1 .. L + 1 |-> g[i]]
<1>5. ASSUME NEW i \in 1 .. L + 1 PROVE h[i] = FromThere(h, s, i)
  <2>1. g[i] = FromThere(g, s, i)
    BY <1>4
  <2>2. h[i] = g[i] /\ \A j \in 1 .. L + 1 : g[j] = h[j]
    OBVIOUS
  <2> HIDE DEF h
  <2> QED BY <1>2, <2>1, <2>2
<1>6. h = [i \in 1 .. L + 1 |-> h[i]]
  OBVIOUS
<1> HIDE DEF h
<1> QED BY <1>5, <1>6 DEF Decodes

\* So what is decoded is what such a function has of the whole text.
LEMMA DecodedIs ==
  ASSUME NEW s, Len(s) \in Nat
  PROVE  \E g : /\ \A i \in 1 .. Len(s) + 1 : g[i] = FromThere(g, s, i)
                /\ Decoded(s) = g[1]
<1> DEFINE f == CHOOSE g : Decodes(g, s)
<1>1. Decoded(s) = f[1]
  BY DEF Decoded, Decodes, FromThere
<1>2. Decodes(f, s)
  BY DecodingExists
<1> HIDE DEF f
<1>3. \A i \in 1 .. Len(s) + 1 : f[i] = FromThere(f, s, i)
  BY <1>2 DEF Decodes
<1> QED BY <1>1, <1>3

\* s is link with its i-th character escaped.
Spelled(s, text, i, d, e) ==
  /\ Len(s) = Len(text) + 2
  /\ \A j \in 1 .. i - 1 : s[j] = text[j]
  /\ s[i] = "%" /\ s[i + 1] = d /\ s[i + 2] = e
  /\ \A j \in i + 1 .. Len(text) : s[j + 2] = text[j]

\* Decoding takes the escape back, unless the text before it is a part of an escape.
LEMMA DecodedAlike ==
  ASSUME NEW text, Len(text) \in Nat, NEW s, NEW i \in 1 .. Len(text), NEW d \in Hex, NEW e \in Hex,
         Spelled(s, text, i, d, e), DOMAIN s = 1 .. Len(s), ~Nested(s),
         text[i] \in Unreserved, OctetOf[<<UpperOf[d], UpperOf[e]>>] = text[i]
  PROVE  Decoded(s) = Decoded(text)
<1> DEFINE L == Len(text)
<1>1. Len(s) = L + 2 /\ Len(s) \in Nat
  BY DEF Spelled
<1>2. Needless(s, i) /\ Octet(s, i) = text[i]
  BY <1>1 DEF Needless, Escape, Octet, Spelled
<1>3. ~Needless(text, i)
  BY PercentType DEF Needless, Escape
<1>4. ASSUME NEW j \in i + 1 .. L
      PROVE  /\ Needless(s, j + 2) <=> Needless(text, j)
             /\ Needless(text, j) => Octet(s, j + 2) = Octet(text, j)
             /\ s[j + 2] = text[j]
  <2>1. \A n \in i + 1 .. L : s[n + 2] = text[n]
    BY DEF Spelled
  <2>2. j + 2 + 1 = j + 1 + 2 /\ j + 2 + 2 = j + 2 + 2
    OBVIOUS
  <2>3. Escape(s, j + 2) <=> Escape(text, j)
    BY <1>1, <2>1, <2>2 DEF Escape
  <2>4. Escape(text, j) => Octet(s, j + 2) = Octet(text, j)
    <3> SUFFICES ASSUME Escape(text, j) PROVE Octet(s, j + 2) = Octet(text, j)
      OBVIOUS
    <3>1. j + 1 \in i + 1 .. L /\ j + 2 \in i + 1 .. L
      BY DEF Escape
    <3>2. s[j + 1 + 2] = text[j + 1] /\ s[j + 2 + 2] = text[j + 2]
      BY <2>1, <3>1
    <3> QED BY <2>2, <3>2 DEF Octet
  <2> QED BY <2>1, <2>3, <2>4 DEF Needless
<1>5. ASSUME NEW j \in 1 .. i - 1
      PROVE  /\ Needless(s, j) <=> Needless(text, j)
             /\ Needless(text, j) => Octet(s, j) = Octet(text, j) /\ j + 3 <= i
             /\ s[j] = text[j]
  <2>1. \A n \in 1 .. i - 1 : s[n] = text[n]
    BY DEF Spelled
  <2>2. s[i] = "%" /\ "%" \notin Hex
    BY PercentType DEF Spelled
  <2>3. ~Escape(s, j) \/ j + 2 < i
    <3> SUFFICES ASSUME Escape(s, j), j + 2 >= i PROVE FALSE
      OBVIOUS
    <3>1. i = j + 1 \/ i = j + 2
      OBVIOUS
    <3> QED BY <2>2, <3>1 DEF Escape
  <2>4. ~Escape(text, j) \/ j + 2 < i
    <3> SUFFICES ASSUME Escape(text, j), j + 2 >= i PROVE FALSE
      OBVIOUS
    <3>1. i \in {j + 1, j + 2}
      OBVIOUS
    <3>2. j \in DOMAIN s /\ s[j] = "%"
      BY <1>1, <2>1 DEF Escape
    <3>3. i = j + 2 => s[j + 1] \in Hex
      BY <2>1 DEF Escape
    <3> QED BY <1>2, <3>1, <3>2, <3>3 DEF Nested
  <2>5. Escape(s, j) <=> Escape(text, j)
    BY <1>1, <2>1, <2>3, <2>4 DEF Escape
  <2>6. Escape(text, j) => Octet(s, j) = Octet(text, j)
    BY <2>1, <2>4 DEF Octet
  <2> QED BY <2>1, <2>4, <2>5, <2>6 DEF Needless
<1>6. PICK g : (\A j \in 1 .. L + 1 : g[j] = FromThere(g, text, j)) /\ Decoded(text) = g[1]
  BY DecodedIs
<1>7. PICK h : (\A j \in 1 .. L + 3 : h[j] = FromThere(h, s, j)) /\ Decoded(s) = h[1]
  <2>1. PICK h : (\A j \in 1 .. Len(s) + 1 : h[j] = FromThere(h, s, j)) /\ Decoded(s) = h[1]
    BY <1>1, DecodedIs
  <2>2. 1 .. Len(s) + 1 = 1 .. L + 3
    BY <1>1
  <2> QED BY <2>1, <2>2
<1>8. ASSUME NEW j \in i + 1 .. L + 1, \A n \in i + 1 .. L + 1 : n > j => h[n + 2] = g[n]
      PROVE  h[j + 2] = g[j]
  <2>1. g[j] = FromThere(g, text, j) /\ h[j + 2] = FromThere(h, s, j + 2)
    BY <1>6, <1>7
  <2>2. CASE j = L + 1
    BY <1>1, <2>1, <2>2 DEF FromThere
  <2>3. CASE j <= L /\ Needless(text, j)
    <3>1. Needless(s, j + 2) /\ Octet(s, j + 2) = Octet(text, j)
      BY <1>4, <2>3
    <3>2. j + 3 \in i + 1 .. L + 1 /\ j + 2 + 3 = j + 3 + 2
      BY <2>3 DEF Needless, Escape
    <3>3. h[j + 2 + 3] = g[j + 3]
      BY <1>8, <3>2
    <3> QED BY <1>1, <2>1, <2>3, <3>1, <3>3 DEF FromThere
  <2>4. CASE j <= L /\ ~Needless(text, j)
    <3>1. ~Needless(s, j + 2) /\ s[j + 2] = text[j]
      BY <1>4, <2>4
    <3>2. j + 1 \in i + 1 .. L + 1 /\ j + 2 + 1 = j + 1 + 2
      BY <2>4
    <3>3. h[j + 2 + 1] = g[j + 1]
      BY <1>8, <3>2
    <3> QED BY <1>1, <2>1, <2>4, <3>1, <3>3 DEF FromThere
  <2>5. j = L + 1 \/ j <= L
    OBVIOUS
  <2> QED BY Zenon, <2>2, <2>3, <2>4, <2>5
<1>9. \A j \in i + 1 .. L + 1 : h[j + 2] = g[j]
  <2> DEFINE Bad == {n \in Nat : L + 1 - n \in i + 1 .. L + 1 /\ h[L + 1 - n + 2] # g[L + 1 - n]}
  <2> SUFFICES ASSUME NEW j \in i + 1 .. L + 1, h[j + 2] # g[j] PROVE FALSE
    OBVIOUS
  <2>1. L + 1 - j \in Nat /\ L + 1 - (L + 1 - j) = j
    OBVIOUS
  <2>2. L + 1 - j \in Bad
    BY <2>1
  <2>3. Bad \in SUBSET Nat
    OBVIOUS
  <2>4. PICK n \in Bad : \A m \in Bad : n <= m
    <3> HIDE DEF Bad
    <3> QED BY <2>2, <2>3, LeastNatural
  <2>5. PICK q \in i + 1 .. L + 1 : q = L + 1 - n /\ h[q + 2] # g[q] /\ n \in Nat
    BY <2>4
  <2>6. ASSUME NEW p \in i + 1 .. L + 1, p > q PROVE h[p + 2] = g[p]
    <3>1. L + 1 - p \in Nat /\ L + 1 - (L + 1 - p) = p /\ ~(n <= L + 1 - p)
      BY <2>5, <2>6
    <3>2. L + 1 - p \notin Bad
      <4> HIDE DEF Bad
      <4> QED BY <2>4, <3>1
    <3> QED BY <3>1, <3>2
  <2> QED BY <1>8, <2>5, <2>6
<1>10. h[i] = g[i]
  <2>1. g[i] = FromThere(g, text, i) /\ h[i] = FromThere(h, s, i)
    BY <1>6, <1>7
  <2>2. h[i + 3] = g[i + 1]
    <3>1. i + 1 \in i + 1 .. L + 1 /\ i + 1 + 2 = i + 3
      OBVIOUS
    <3> QED BY <1>9, <3>1
  <2> QED BY <1>1, <1>2, <1>3, <2>1, <2>2 DEF FromThere
<1>11. ASSUME NEW j \in 1 .. i - 1, \A n \in 1 .. i : n > j => h[n] = g[n]
       PROVE  h[j] = g[j]
  <2>1. g[j] = FromThere(g, text, j) /\ h[j] = FromThere(h, s, j) /\ j <= L /\ j <= Len(s)
    BY <1>1, <1>6, <1>7
  <2>2. CASE Needless(text, j)
    <3>1. Needless(s, j) /\ Octet(s, j) = Octet(text, j) /\ j + 3 \in 1 .. i
      BY <1>5, <2>2
    <3>2. h[j + 3] = g[j + 3]
      BY <1>11, <3>1
    <3> QED BY <2>1, <2>2, <3>1, <3>2 DEF FromThere
  <2>3. CASE ~Needless(text, j)
    <3>1. ~Needless(s, j) /\ s[j] = text[j]
      BY <1>5, <2>3
    <3>2. h[j + 1] = g[j + 1]
      BY <1>11
    <3> QED BY <2>1, <2>3, <3>1, <3>2 DEF FromThere
  <2> QED BY <2>2, <2>3
<1>12. \A j \in 1 .. i : h[j] = g[j]
  <2> DEFINE Bad == {n \in Nat : i - n \in 1 .. i /\ h[i - n] # g[i - n]}
  <2> SUFFICES ASSUME NEW j \in 1 .. i, h[j] # g[j] PROVE FALSE
    OBVIOUS
  <2>1. i - j \in Nat /\ i - (i - j) = j
    OBVIOUS
  <2>2. i - j \in Bad
    BY <2>1
  <2>3. Bad \in SUBSET Nat
    OBVIOUS
  <2>4. PICK n \in Bad : \A m \in Bad : n <= m
    <3> HIDE DEF Bad
    <3> QED BY <2>2, <2>3, LeastNatural
  <2>5. PICK q \in 1 .. i : q = i - n /\ h[q] # g[q] /\ n \in Nat
    BY <2>4
  <2>6. ASSUME NEW p \in 1 .. i, p > q PROVE h[p] = g[p]
    <3>1. i - p \in Nat /\ i - (i - p) = p /\ ~(n <= i - p)
      BY <2>5, <2>6
    <3>2. i - p \notin Bad
      <4> HIDE DEF Bad
      <4> QED BY <2>4, <3>1
    <3> QED BY <3>1, <3>2
  <2>7. q # i
    BY <1>10, <2>5
  <2> QED BY <1>11, <2>5, <2>6, <2>7
<1> QED BY <1>6, <1>7, <1>12

\* What one text with another's i-th character escaped has where.
LEMMA SpelledIs ==
  ASSUME NEW S, NEW text \in Seq(S), NEW L \in Nat, L = Len(text), NEW i \in 1 .. L, NEW d, NEW e
  PROVE  LET s == SubSeq(text, 1, i - 1) \o <<"%">> \o <<d, e>> \o SubSeq(text, i + 1, L)
         IN  Spelled(s, text, i, d, e) /\ DOMAIN s = 1 .. Len(s)
<1>a. PICK C : C = S \cup {"%", d, e}
  OBVIOUS
<1>b. PICK a : a = SubSeq(text, 1, i - 1)
  OBVIOUS
<1>c. PICK b : b = SubSeq(text, i + 1, L)
  OBVIOUS
<1>d. PICK m : m = <<"%">>
  OBVIOUS
<1>e. PICK p : p = <<d, e>>
  OBVIOUS
<1>f. PICK u : u = a \o m
  OBVIOUS
<1>g. PICK v : v = u \o p
  OBVIOUS
<1>h. PICK s : s = v \o b
  OBVIOUS
<1>1. \A j \in 1 .. L : text[j] \in C
  BY <1>a, ElementOfSeq
<1>2. a \in Seq(C) /\ Len(a) = i - 1 /\ \A j \in 1 .. i - 1 : a[j] = text[j]
  <2>1. \A j \in 1 .. i - 1 : text[j] \in C
    BY <1>1
  <2>2. 1 \in Int /\ i - 1 \in Int
    OBVIOUS
  <2>3. /\ a \in Seq(C) /\ Len(a) = IF 1 <= i - 1 THEN i - 1 - 1 + 1 ELSE 0
        /\ \A j \in 1 .. i - 1 - 1 + 1 : a[j] = text[1 + j - 1]
    BY <1>b, <2>1, <2>2, SubSeqProperties
  <2>4. ASSUME NEW j \in 1 .. i - 1 PROVE a[j] = text[j]
    <3>1. j \in 1 .. i - 1 - 1 + 1 /\ 1 + j - 1 = j
      OBVIOUS
    <3> QED BY <2>3, <3>1
  <2>5. Len(a) = i - 1
    BY <2>3
  <2> QED BY <2>3, <2>4, <2>5
<1>3. b \in Seq(C) /\ Len(b) = L - i /\ \A j \in 1 .. L - i : b[j] = text[j + i]
  <2>1. \A j \in i + 1 .. L : text[j] \in C
    BY <1>1
  <2>2. i + 1 \in Int /\ L \in Int
    OBVIOUS
  <2>3. /\ b \in Seq(C) /\ Len(b) = IF i + 1 <= L THEN L - (i + 1) + 1 ELSE 0
        /\ \A j \in 1 .. L - (i + 1) + 1 : b[j] = text[i + 1 + j - 1]
    BY <1>c, <2>1, <2>2, SubSeqProperties
  <2>4. ASSUME NEW j \in 1 .. L - i PROVE b[j] = text[j + i]
    <3>1. j \in 1 .. L - (i + 1) + 1 /\ i + 1 + j - 1 = j + i
      OBVIOUS
    <3> QED BY <2>3, <3>1
  <2>5. Len(b) = L - i
    BY <2>3
  <2> QED BY <2>3, <2>4, <2>5
<1>4. m \in Seq(C) /\ Len(m) = 1 /\ m[1] = "%" /\ p \in Seq(C) /\ Len(p) = 2 /\ p[1] = d /\ p[2] = e
  BY <1>a, <1>d, <1>e
<1>5. u \in Seq(C) /\ Len(u) = i /\ u[i] = "%" /\ \A j \in 1 .. i - 1 : u[j] = text[j]
  <2>1. /\ u \in Seq(C) /\ Len(u) = Len(a) + Len(m)
        /\ \A j \in 1 .. Len(a) + Len(m) : u[j] = IF j <= Len(a) THEN a[j] ELSE m[j - Len(a)]
    BY <1>f, <1>2, <1>4, ConcatProperties
  <2>2. Len(u) = i /\ \A j \in 1 .. i : u[j] = IF j <= i - 1 THEN a[j] ELSE m[j - (i - 1)]
    <3>1. Len(a) + Len(m) = i
      BY <1>2, <1>4
    <3> QED BY <1>2, <2>1, <3>1
  <2>3. u[i] = "%"
    <3>1. i \in 1 .. i /\ ~(i <= i - 1) /\ i - (i - 1) = 1
      OBVIOUS
    <3> QED BY <1>4, <2>2, <3>1
  <2>4. ASSUME NEW j \in 1 .. i - 1 PROVE u[j] = text[j]
    <3>1. j \in 1 .. i /\ j <= i - 1
      OBVIOUS
    <3> QED BY <1>2, <2>2, <3>1
  <2> QED BY <2>1, <2>2, <2>3, <2>4
<1>6. v \in Seq(C) /\ Len(v) = i + 2 /\ v[i + 1] = d /\ v[i + 2] = e /\ \A j \in 1 .. i : v[j] = u[j]
  <2>1. /\ v \in Seq(C) /\ Len(v) = Len(u) + Len(p)
        /\ \A j \in 1 .. Len(u) + Len(p) : v[j] = IF j <= Len(u) THEN u[j] ELSE p[j - Len(u)]
    BY <1>g, <1>4, <1>5, ConcatProperties
  <2>2. Len(v) = i + 2 /\ \A j \in 1 .. i + 2 : v[j] = IF j <= i THEN u[j] ELSE p[j - i]
    BY <1>4, <1>5, <2>1
  <2>3. \A j \in 1 .. i : v[j] = u[j]
    BY <2>2
  <2>4. v[i + 1] = d /\ v[i + 2] = e
    <3>1. i + 1 - i = 1 /\ i + 2 - i = 2 /\ ~(i + 1 <= i) /\ ~(i + 2 <= i)
      OBVIOUS
    <3>2. i + 1 \in 1 .. i + 2 /\ i + 2 \in 1 .. i + 2
      OBVIOUS
    <3> QED BY <1>4, <2>2, <3>1, <3>2
  <2> QED BY <2>1, <2>2, <2>3, <2>4
<1>7. /\ s \in Seq(C) /\ Len(s) = L + 2
      /\ \A j \in 1 .. i + 2 : s[j] = v[j]
      /\ \A j \in i + 1 .. L : s[j + 2] = text[j]
  <2>1. /\ s \in Seq(C) /\ Len(s) = Len(v) + Len(b)
        /\ \A j \in 1 .. Len(v) + Len(b) : s[j] = IF j <= Len(v) THEN v[j] ELSE b[j - Len(v)]
    BY <1>h, <1>3, <1>6, ConcatProperties
  <2>2. Len(s) = L + 2 /\ \A j \in 1 .. L + 2 : s[j] = IF j <= i + 2 THEN v[j] ELSE b[j - (i + 2)]
    <3>1. Len(v) = i + 2 /\ Len(b) = L - i
      BY <1>3, <1>6
    <3>2. i + 2 + (L - i) = L + 2
      OBVIOUS
    <3>3. Len(v) + Len(b) = L + 2
      BY <3>1, <3>2
    <3> QED BY <2>1, <3>1, <3>3
  <2>3. \A j \in 1 .. i + 2 : s[j] = v[j]
    BY <2>2
  <2>4. ASSUME NEW j \in i + 1 .. L PROVE s[j + 2] = text[j]
    <3>1. j + 2 \in 1 .. L + 2 /\ ~(j + 2 <= i + 2) /\ j + 2 - (i + 2) = j - i
      OBVIOUS
    <3>2. j - i \in 1 .. L - i /\ j - i + i = j
      OBVIOUS
    <3> QED BY <1>3, <2>2, <3>1, <3>2
  <2> QED BY <2>1, <2>2, <2>3, <2>4
<1>8. \A j \in 1 .. i - 1 : s[j] = text[j]
  BY <1>5, <1>6, <1>7
<1>9. s[i] = "%" /\ s[i + 1] = d /\ s[i + 2] = e
  <2>1. {i, i + 1, i + 2} \subseteq 1 .. i + 2 /\ i \in 1 .. i
    OBVIOUS
  <2> QED BY <1>5, <1>6, <1>7, <2>1
<1>10. Spelled(s, text, i, d, e)
  BY <1>7, <1>8, <1>9 DEF Spelled
<1>11. DOMAIN s = 1 .. Len(s)
  BY <1>7, LenProperties
<1>12. s = SubSeq(text, 1, i - 1) \o <<"%">> \o <<d, e>> \o SubSeq(text, i + 1, L)
  BY <1>b, <1>c, <1>d, <1>e, <1>f, <1>g, <1>h
<1> QED BY <1>10, <1>11, <1>12

\* Every path, of any length, has one canonical form however its characters are
\* escaped that need not be, in digits of any case; an escape within an escape is
\* exempt (urlnorm.py:48).
THEOREM EscapesUnited == \A S : link \in Seq(S) => SpellingsAgree
<1>1. SUFFICES ASSUME NEW S, link \in Seq(S), NEW i \in DOMAIN link,
                      link[i] \in Unreserved \cap DOMAIN DigitsOf,
                      NEW p \in Hex \X Hex, <<UpperOf[p[1]], UpperOf[p[2]]>> = DigitsOf[link[i]],
                      NEW s, s = SubSeq(link, 1, i - 1) \o <<"%">> \o p \o SubSeq(link, i + 1, Len(link)),
                      ~Nested(s)
               PROVE  CanonicalPath(link) = CanonicalPath(s)
  BY DEF SpellingsAgree
<1>2. Len(link) \in Nat /\ i \in 1 .. Len(link)
  BY <1>1, LenProperties
<1>3. p[1] \in Hex /\ p[2] \in Hex /\ p = <<p[1], p[2]>>
  OBVIOUS
<1>4. Spelled(s, link, i, p[1], p[2]) /\ DOMAIN s = 1 .. Len(s)
  BY <1>1, <1>2, <1>3, SpelledIs
<1>5. OctetOf[<<UpperOf[p[1]], UpperOf[p[2]]>>] = link[i]
  BY <1>1, PercentType
<1>6. Decoded(s) = Decoded(link)
  <2>1. PICK text : text = link
    OBVIOUS
  <2>2. PICK d, e : d = p[1] /\ e = p[2]
    OBVIOUS
  <2> QED BY <1>1, <1>2, <1>3, <1>4, <1>5, <2>1, <2>2, DecodedAlike
<1> QED BY <1>6 DEF CanonicalPath

-----------------------------------------------------------------------------
(* Folds over sequences.                                                   *)

\* If some sequences are bad, then one is that is empty or whose front is good.
LEMMA ShortestBad ==
  ASSUME NEW S, NEW B \in SUBSET Seq(S), B # {}
  PROVE  \E s \in B : s = <<>> \/ \E t \in Seq(S), e \in S : s = Append(t, e) /\ t \notin B
<1> DEFINE Lengths == {Len(s) : s \in B}
<1>1. Lengths \in SUBSET Nat /\ Lengths # {}
  BY LenProperties
<1>2. PICK n \in Lengths : \A m \in Lengths : n <= m
  <2> HIDE DEF Lengths
  <2> QED BY <1>1, LeastNatural
<1>3. PICK s \in B : Len(s) = n
  BY <1>2
<1>4. ASSUME s # <<>> PROVE \E t \in Seq(S), e \in S : s = Append(t, e) /\ t \notin B
  <2>1. PICK t \in Seq(S), e \in S : s = Append(t, e)
    BY <1>3, <1>4, SequenceEmptyOrAppend
  <2>2. Len(s) = Len(t) + 1 /\ Len(t) \in Nat
    BY <2>1, AppendProperties, LenProperties
  <2>3. t \notin B
    BY <1>2, <1>3, <2>2
  <2> QED BY <2>1, <2>3
<1> QED BY <1>4

\* The numbers up to n have n for their greatest, and a set of such has one.
LEMMA MaxOf ==
  ASSUME NEW n \in Nat, NEW x \in SUBSET (1 .. n), x # {}
  PROVE  Max(x) \in x /\ \A y \in x : y <= Max(x)
<1> DEFINE Below == {n - y : y \in x}
<1>1. Below \in SUBSET Nat /\ Below # {}
  <2>1. \A y \in x : n - y \in Nat
    OBVIOUS
  <2> QED BY <2>1
<1>2. PICK m \in Below : \A k \in Below : m <= k
  <2> HIDE DEF Below
  <2> QED BY <1>1, LeastNatural
<1>3. PICK z \in x : m = n - z
  BY <1>2
<1>4. \A y \in x : z >= y
  BY <1>2, <1>3
<1>5. Max(x) \in x /\ \A y \in x : Max(x) >= y
  BY <1>4, Zenon DEF Max
<1> QED BY <1>5

\* F takes a value and an element to a value.
StepsIn(F, V, S) == F \in [V \X S -> V]

\* A fold with the steps of F, as the library's: over sets of places, the last one last.
Folding(g, F, b, s, V) ==
  /\ g \in [SUBSET DOMAIN s -> V]
  /\ g = [x \in SUBSET DOMAIN s |->
            IF x = {} THEN b ELSE F[<<g[x \ {Max(x)}], s[Max(x)]>>]]

\* There is such a function: take the shortest piece of s up to which none is.
LEMMA FoldingExists ==
  ASSUME NEW S, NEW V, NEW b \in V, NEW F, StepsIn(F, V, S), NEW s \in Seq(S)
  PROVE  \E g : Folding(g, F, b, s, V)
<1>1. PICK L \in Nat : L = Len(s) /\ DOMAIN s = 1 .. L /\ \A i \in 1 .. L : s[i] \in S
  BY LenProperties, ElementOfSeq
<1> DEFINE Fun == [SUBSET (1 .. L) -> V]
           Next1(g, x) == IF x = {} THEN b ELSE F[<<g[x \ {Max(x)}], s[Max(x)]>>]
           Good(g, n) == \A x \in SUBSET (1 .. L) : x \subseteq 1 .. n => g[x] = Next1(g, x)
           Bad == {n \in Nat : ~ \E g \in Fun : Good(g, n)}
<1>2. \A x \in SUBSET (1 .. L) : x # {} => /\ Max(x) \in x /\ s[Max(x)] \in S
                                           /\ x \ {Max(x)} \in SUBSET (1 .. L)
                                           /\ \A y \in x : y <= Max(x)
  BY <1>1, MaxOf
<1>3. ASSUME NEW g \in Fun PROVE [x \in SUBSET (1 .. L) |-> Next1(g, x)] \in Fun
  <2>1. ASSUME NEW x \in SUBSET (1 .. L), x # {} PROVE Next1(g, x) \in V
    <3>1. g[x \ {Max(x)}] \in V /\ s[Max(x)] \in S
      BY <1>2, <2>1
    <3> QED BY <2>1, <3>1 DEF StepsIn
  <2>2. \A x \in SUBSET (1 .. L) : Next1(g, x) \in V
    BY <2>1
  <2> HIDE DEF Next1
  <2> QED BY <2>2
<1>4. Bad = {}
  <2> SUFFICES ASSUME Bad # {} PROVE FALSE
    OBVIOUS
  <2>a. Bad \subseteq Nat
    OBVIOUS
  <2>1. PICK n \in Bad : \A m \in Bad : n <= m
    <3> HIDE DEF Bad
    <3> QED BY <2>a, LeastNatural
  <2>2. n # 0
    <3>1. [x \in SUBSET (1 .. L) |-> b] \in Fun /\ Good([x \in SUBSET (1 .. L) |-> b], 0)
      OBVIOUS
    <3>2. 0 \notin Bad
      BY <3>1
    <3> HIDE DEF Bad
    <3> QED BY <2>1, <3>2
  <2>3. n - 1 \in Nat /\ n - 1 \notin Bad
    <3> HIDE DEF Bad
    <3> QED BY <2>1, <2>2, <2>a
  <2>4. PICK g \in Fun : Good(g, n - 1)
    BY <2>3
  <2>5. PICK h : h = [x \in SUBSET (1 .. L) |-> Next1(g, x)]
    OBVIOUS
  <2>6. ASSUME NEW x \in SUBSET (1 .. L), x \subseteq 1 .. n - 1 PROVE h[x] = g[x]
    BY <2>4, <2>5, <2>6
  <2>7. ASSUME NEW x \in SUBSET (1 .. L), x \subseteq 1 .. n, x # {}
        PROVE  h[x] = F[<<h[x \ {Max(x)}], s[Max(x)]>>]
    <3>1. x \ {Max(x)} \in SUBSET (1 .. L) /\ x \ {Max(x)} \subseteq 1 .. n - 1
      <4>1. PICK m : m = Max(x)
        OBVIOUS
      <4>2. m \in x /\ \A y \in x : y <= m
        BY <1>2, <2>7, <4>1
      <4>3. \A y \in x \ {m} : y \in 1 .. n - 1
        BY <2>3, <2>7, <4>2
      <4> QED BY <1>2, <2>7, <4>1, <4>3
    <3>2. h[x \ {Max(x)}] = g[x \ {Max(x)}]
      BY <2>6, <3>1
    <3> QED BY <2>5, <2>7, <3>2
  <2>8. Good(h, n) /\ h \in Fun
    BY <1>3, <2>5, <2>7
  <2> QED BY <2>1, <2>8
<1>5. PICK g \in Fun : Good(g, L)
  BY <1>4
<1>6. g = [x \in SUBSET (1 .. L) |-> Next1(g, x)]
  BY <1>5
<1>7. Folding(g, F, b, s, V)
  BY <1>1, <1>6 DEF Folding
<1> QED BY <1>7

\* What starts alike and goes on alike is alike.
LEMMA AlikeThroughout ==
  ASSUME NEW L \in Nat, NEW u, NEW v, u[0] = v[0],
         \A n \in 1 .. L : u[n - 1] = v[n - 1] => u[n] = v[n]
  PROVE  u[L] = v[L]
<1> DEFINE B == {n \in 0 .. L : u[n] # v[n]}
<1>1. ASSUME B # {} PROVE FALSE
  <2>1. B \in SUBSET Nat
    OBVIOUS
  <2> HIDE DEF B
  <2>2. PICK n \in B : \A m \in B : n <= m
    BY <1>1, <2>1, LeastNatural
  <2>3. n \in 0 .. L /\ u[n] # v[n]
    BY <2>2 DEF B
  <2>4. n # 0
    BY <2>3
  <2>5. n \in 1 .. L /\ n - 1 \in 0 .. L /\ ~(n <= n - 1)
    BY <2>3, <2>4
  <2>6. n - 1 \notin B
    BY <2>2, <2>5
  <2>7. u[n - 1] = v[n - 1]
    BY <2>5, <2>6 DEF B
  <2> QED BY <2>3, <2>5, <2>7
<1>2. L \in 0 .. L
  OBVIOUS
<1> QED BY <1>1, <1>2

\* The places up to n, less the last, are those up to n - 1.
LEMMA UpTo ==
  ASSUME NEW L \in Nat, NEW n \in 1 .. L
  PROVE  /\ 1 .. n \in SUBSET (1 .. L) /\ 1 .. n # {}
         /\ Max(1 .. n) = n /\ (1 .. n) \ {Max(1 .. n)} = 1 .. n - 1
<1>1. 1 .. n \in SUBSET (1 .. L) /\ n \in 1 .. n
  OBVIOUS
<1>2. PICK m : m = Max(1 .. n)
  OBVIOUS
<1>3. m \in 1 .. n /\ \A y \in 1 .. n : y <= m
  BY <1>1, <1>2, MaxOf
<1>4. m = n
  BY <1>1, <1>3
<1> QED BY <1>1, <1>2, <1>4

\* h is a fold of s as far as its values are in V.
FoldOf(h, F, b, s, V) ==
  /\ h[{}] = b
  /\ \A x \in SUBSET DOMAIN s :
       x # {} /\ h[x \ {Max(x)}] \in V => h[x] = F[<<h[x \ {Max(x)}], s[Max(x)]>>]

\* t goes on as s.
Begins(s, t) == Len(s) <= Len(t) /\ \A i \in 1 .. Len(s) : s[i] = t[i]

\* Up to an element folds have the same value, whatever follows.
LEMMA FoldsAgree ==
  ASSUME NEW S, NEW V, NEW b \in V, NEW F, StepsIn(F, V, S), NEW s \in Seq(S), NEW t \in Seq(S),
         Begins(s, t),
         NEW g, Folding(g, F, b, s, V), NEW h, FoldOf(h, F, b, t, V)
  PROVE  h[DOMAIN s] = g[DOMAIN s]
<1>0. PICK L \in Nat : L = Len(s)
  BY LenProperties
<1>1. DOMAIN s = 1 .. L /\ DOMAIN t = 1 .. Len(t) /\ Len(t) \in Nat
  BY <1>0, LenProperties
<1>a. L <= Len(t) /\ \A i \in 1 .. L : s[i] = t[i]
  BY <1>0 DEF Begins
<1> DEFINE u == [n \in 0 .. L |-> g[1 .. n]]
           v == [n \in 0 .. L |-> h[1 .. n]]
<1>2. g[{}] = b /\ h[{}] = b
  BY {} \in SUBSET DOMAIN s DEF Folding, FoldOf
<1>3. ASSUME NEW n \in 1 .. L, g[1 .. n - 1] = h[1 .. n - 1] PROVE g[1 .. n] = h[1 .. n]
  <2>0. n \in 1 .. Len(t)
    BY <1>1, <1>a
  <2>a. 1 .. n - 1 \in SUBSET DOMAIN s
    BY <1>1
  <2>1. /\ 1 .. n \in SUBSET DOMAIN s /\ 1 .. n # {}
        /\ Max(1 .. n) = n /\ (1 .. n) \ {Max(1 .. n)} = 1 .. n - 1
    BY <1>1, UpTo
  <2>2. 1 .. n \in SUBSET DOMAIN t
    BY <1>1, <2>0, UpTo
  <2>3. g[1 .. n] = F[<<g[1 .. n - 1], s[n]>>]
    BY <2>1 DEF Folding
  <2>4. h[1 .. n - 1] \in V
    BY <1>3, <2>a DEF Folding
  <2>5. h[1 .. n] = F[<<h[1 .. n - 1], t[n]>>]
    BY <2>1, <2>2, <2>4 DEF FoldOf
  <2> QED BY <1>3, <1>a, <2>3, <2>5
<1>4. PICK p, q : p = u /\ q = v
  OBVIOUS
<1>5. p[0] = q[0]
  <2>1. 1 .. 0 = {} /\ 0 \in 0 .. L
    OBVIOUS
  <2> QED BY <1>2, <1>4, <2>1
<1>6. \A n \in 1 .. L : p[n - 1] = q[n - 1] => p[n] = q[n]
  <2> TAKE n \in 1 .. L
  <2>1. n \in 0 .. L /\ n - 1 \in 0 .. L
    OBVIOUS
  <2>2. p[n] = g[1 .. n] /\ q[n] = h[1 .. n] /\ p[n - 1] = g[1 .. n - 1] /\ q[n - 1] = h[1 .. n - 1]
    BY <1>4, <2>1
  <2> QED BY <1>3, <2>2
<1>7. p[L] = q[L]
  BY <1>5, <1>6, AlikeThroughout
<1>8. L \in 0 .. L
  OBVIOUS
<1> QED BY <1>1, <1>4, <1>7, <1>8

\* One more element is one more step.
LEMMA FoldSteps ==
  ASSUME NEW S, NEW V, NEW b \in V, NEW F, StepsIn(F, V, S), NEW s \in Seq(S), NEW e \in S,
         NEW h, FoldOf(h, F, b, s, V), NEW l, FoldOf(l, F, b, Append(s, e), V)
  PROVE  /\ h[DOMAIN s] \in V
         /\ l[DOMAIN Append(s, e)] = F[<<h[DOMAIN s], e>>]
<1>1. PICK L \in Nat : L = Len(s) /\ DOMAIN s = 1 .. L
  BY LenProperties
<1>2. PICK t : t = Append(s, e)
  OBVIOUS
<1>3. t \in Seq(S) /\ Len(t) = L + 1 /\ t[L + 1] = e /\ \A i \in 1 .. L : t[i] = s[i]
  BY <1>1, <1>2, AppendProperties
<1>4. DOMAIN t = 1 .. L + 1
  BY <1>3, LenProperties
<1>5. PICK g : Folding(g, F, b, s, V)
  BY FoldingExists
<1>6. h[1 .. L] = g[1 .. L] /\ g[1 .. L] \in V
  <2>1. Begins(s, s)
    BY <1>1 DEF Begins
  <2>2. h[DOMAIN s] = g[DOMAIN s]
    BY <1>5, <2>1, FoldsAgree
  <2> QED BY <1>1, <1>5, <2>2 DEF Folding
<1>7. l[1 .. L] = g[1 .. L]
  <2>1. Begins(s, t)
    BY <1>1, <1>3 DEF Begins
  <2>2. FoldOf(l, F, b, t, V)
    BY <1>2
  <2>3. l[DOMAIN s] = g[DOMAIN s]
    BY <1>3, <1>5, <2>1, <2>2, FoldsAgree
  <2> QED BY <1>1, <2>3
<1>8. l[1 .. L + 1] = F[<<l[1 .. L], e>>]
  <2>1. PICK m \in Nat : m = L + 1
    OBVIOUS
  <2>2. m \in 1 .. m /\ m - 1 = L
    BY <2>1
  <2>3. /\ 1 .. m \in SUBSET (1 .. m) /\ 1 .. m # {}
        /\ Max(1 .. m) = m /\ (1 .. m) \ {Max(1 .. m)} = 1 .. m - 1
    BY <2>2, UpTo
  <2>4. FoldOf(l, F, b, t, V) /\ DOMAIN t = 1 .. m /\ t[m] = e
    BY <1>2, <1>3, <1>4, <2>1
  <2>5. l[1 .. L] \in V
    BY <1>6, <1>7
  <2>6. 1 .. m \in SUBSET DOMAIN t /\ l[(1 .. m) \ {Max(1 .. m)}] \in V
    BY <2>2, <2>3, <2>4, <2>5
  <2>7. l[1 .. m] = F[<<l[(1 .. m) \ {Max(1 .. m)}], t[Max(1 .. m)]>>]
    BY <2>3, <2>4, <2>6, Zenon DEF FoldOf
  <2> QED BY <2>1, <2>2, <2>3, <2>4, <2>7
<1> QED BY <1>1, <1>2, <1>4, <1>6, <1>7, <1>8

-----------------------------------------------------------------------------
(* Segments, one character at a time.                                      *)

\* What a character makes of the segments before it.
Cut(parts, c) ==
  IF c = "/" THEN Append(parts, <<>>) ELSE [parts EXCEPT ![Len(parts)] = Append(@, c)]

\* g has what the library's fold makes of the characters at every set of places.
Cutting(g, s) ==
  g = [x \in SUBSET DOMAIN s |->
         IF x = {} THEN << <<>> >> ELSE Cut(g[x \ {Max(x)}], s[Max(x)])]

\* The lists of texts with one text at least.
Lists(C) == Seq(Seq(C)) \ {<<>>}

\* It is a list of segments, whose last one has the character unless that is a slash.
LEMMA CutType ==
  ASSUME NEW C, NEW parts \in Lists(C), NEW c \in C
  PROVE  /\ Cut(parts, c) \in Lists(C)
         /\ \A t \in Seq(Seq(C)), y \in Seq(C) : parts = Append(t, y) /\ c # "/"
              => Cut(parts, c) = Append(t, Append(y, c))
<1>1. parts \in Seq(Seq(C)) /\ parts # <<>>
  BY DEF Lists
<1>2. CASE c = "/"
  <2>1. <<>> \in Seq(C)
    OBVIOUS
  <2>2. Append(parts, <<>>) \in Seq(Seq(C)) /\ Append(parts, <<>>) # <<>>
    BY <1>1, <2>1, AppendProperties
  <2> QED BY <1>2, <2>2 DEF Cut, Lists
<1>3. CASE c # "/"
  <2>1. ASSUME NEW t \in Seq(Seq(C)), NEW y \in Seq(C), parts = Append(t, y)
        PROVE  Cut(parts, c) = Append(t, Append(y, c)) /\ Cut(parts, c) \in Lists(C)
    <3>1. PICK S, z, n : S = Seq(C) /\ z = Append(y, c) /\ n = Len(t)
      OBVIOUS
    <3>2. z \in S /\ y \in S /\ t \in Seq(S) /\ n \in Nat
      BY <3>1, AppendProperties, LenProperties
    <3>a. \A e \in S : /\ Append(t, e) \in Seq(S) /\ Len(Append(t, e)) = n + 1
                      /\ Append(t, e)[n + 1] = e /\ Append(t, e) # <<>>
                      /\ \A i \in 1 .. n : Append(t, e)[i] = t[i]
      <4> TAKE e \in S
      <4>1. /\ Append(t, e) \in Seq(S) /\ Len(Append(t, e)) = Len(t) + 1
            /\ Append(t, e)[Len(t) + 1] = e /\ Append(t, e) # <<>>
            /\ \A i \in 1 .. Len(t) : Append(t, e)[i] = t[i]
        BY <3>2, AppendProperties
      <4> QED BY <3>1, <4>1
    <3>3. /\ Append(t, y) \in Seq(S) /\ Len(Append(t, y)) = n + 1 /\ Append(t, y)[n + 1] = y
          /\ Append(t, z) \in Seq(S) /\ Len(Append(t, z)) = n + 1 /\ Append(t, z)[n + 1] = z
          /\ \A i \in 1 .. n : Append(t, y)[i] = t[i] /\ Append(t, z)[i] = t[i]
          /\ Append(t, z) # <<>>
      BY <3>2, <3>a
    <3>4. Cut(parts, c) = [parts EXCEPT ![n + 1] = z]
      BY <1>3, <2>1, <3>1, <3>3 DEF Cut
    <3>5. n + 1 \in 1 .. n + 1
      BY <3>2
    <3>b. PICK w : w = [parts EXCEPT ![n + 1] = z]
      OBVIOUS
    <3>c. parts \in Seq(S) /\ Len(parts) = n + 1 /\ parts = [i \in 1 .. n + 1 |-> parts[i]]
      <4>1. parts \in Seq(S) /\ Len(parts) = n + 1
        BY <2>1, <3>3
      <4> QED BY <4>1, LenProperties
    <3>d. w = [i \in 1 .. n + 1 |-> IF i = n + 1 THEN z ELSE parts[i]]
      BY <3>b, <3>c
    <3>e. \A i \in 1 .. n + 1 : w[i] \in S
      <4>1. \A i \in 1 .. n + 1 : parts[i] \in S
        BY <3>c, ElementOfSeq
      <4> QED BY <3>2, <3>d, <4>1
    <3>6. /\ w \in Seq(S) /\ Len(w) = n + 1
          /\ \A j \in 1 .. n + 1 : w[j] = IF j = n + 1 THEN z ELSE parts[j]
      <4>1. PICK m \in Nat : m = n + 1
        BY <3>2
      <4>2. w \in [1 .. m -> S]
        BY <3>d, <3>e, <4>1
      <4>3. w \in Seq(S) /\ Len(w) = m
        BY <4>2
      <4> QED BY <3>d, <4>1, <4>3
    <3>7. \A j \in 1 .. n + 1 : w[j] = Append(t, z)[j]
      <4> TAKE j \in 1 .. n + 1
      <4>1. CASE j = n + 1
        BY <3>3, <3>6, <4>1
      <4>2. CASE j # n + 1
        <5>1. j \in 1 .. n
          BY <3>2, <4>2
        <5> QED BY <2>1, <3>3, <3>6, <4>2, <5>1
      <4> QED BY <4>1, <4>2
    <3>8. w = Append(t, z)
      <4>1. PICK a : a = Append(t, z)
        OBVIOUS
      <4>2. a \in Seq(S) /\ w \in Seq(S) /\ Len(w) = Len(a) /\ \A j \in 1 .. Len(w) : w[j] = a[j]
        BY <3>3, <3>6, <3>7, <4>1
      <4>3. w = a
        BY <4>2, SeqEqual
      <4> QED BY <4>1, <4>3
    <3> QED BY <3>1, <3>3, <3>4, <3>8, <3>b DEF Lists
  <2>2. PICK t \in Seq(Seq(C)), y \in Seq(C) : parts = Append(t, y)
    BY <1>1, SequenceEmptyOrAppend
  <2> QED BY <1>3, <2>1, <2>2
<1> QED BY <1>2, <1>3

\* So it is, of a list that ends in y.
LEMMA CutLast ==
  ASSUME NEW C, NEW t \in Seq(Seq(C)), NEW y \in Seq(C), NEW c \in C, c # "/"
  PROVE  Cut(Append(t, y), c) = Append(t, Append(y, c))
<1>1. PICK p : p = Append(t, y)
  OBVIOUS
<1>2. p \in Lists(C)
  <2>1. PICK S : S = Seq(C)
    OBVIOUS
  <2>2. p \in Seq(S) /\ p # <<>>
    BY <1>1, <2>1, AppendProperties
  <2> QED BY <2>1, <2>2 DEF Lists
<1>3. \A u \in Seq(Seq(C)), x \in Seq(C) : p = Append(u, x) /\ c # "/" => Cut(p, c) = Append(u, Append(x, c))
  BY <1>2, CutType
<1>4. Cut(p, c) = Append(t, Append(y, c))
  BY <1>1, <1>3
<1> QED BY <1>1, <1>4

\* The library's fold over the characters exists and is one.
LEMMA CuttingExists ==
  ASSUME NEW C, NEW F, F = [q \in Lists(C) \X C |-> Cut(q[1], q[2])]
  PROVE  /\ << <<>> >> \in Lists(C) /\ StepsIn(F, Lists(C), C)
         /\ \A s \in Seq(C) : /\ \E g : Cutting(g, s)
                              /\ \A h : Cutting(h, s) => FoldOf(h, F, << <<>> >>, s, Lists(C))
<1>1. << <<>> >> \in Lists(C)
  <2>1. <<>> \in Seq(C)
    OBVIOUS
  <2>2. PICK S : S = Seq(C)
    OBVIOUS
  <2>3. << <<>> >> \in Seq(S) /\ << <<>> >> # <<>>
    BY <2>1, <2>2
  <2> QED BY <2>2, <2>3 DEF Lists
<1>2. StepsIn(F, Lists(C), C) /\ \A p \in Lists(C), c \in C : F[<<p, c>>] = Cut(p, c)
  <2>1. \A p \in Lists(C), c \in C : Cut(p, c) \in Lists(C)
    BY CutType
  <2> QED BY <2>1 DEF StepsIn
<1>3. ASSUME NEW s \in Seq(C)
      PROVE  /\ \E g : Cutting(g, s)
             /\ \A h : Cutting(h, s) => FoldOf(h, F, << <<>> >>, s, Lists(C))
  <2>1. \A x \in SUBSET DOMAIN s : x # {} => Max(x) \in DOMAIN s /\ s[Max(x)] \in C
    <3>1. PICK L \in Nat : DOMAIN s = 1 .. L /\ \A i \in 1 .. L : s[i] \in C
      BY LenProperties, ElementOfSeq
    <3> QED BY <3>1, MaxOf
  <2>2. PICK g : Folding(g, F, << <<>> >>, s, Lists(C))
    BY <1>1, <1>2, FoldingExists
  <2>3. ASSUME NEW x \in SUBSET DOMAIN s, x # {}
        PROVE  g[x] = Cut(g[x \ {Max(x)}], s[Max(x)])
    <3>1. g[x \ {Max(x)}] \in Lists(C)
      BY <2>2 DEF Folding
    <3>2. g[x] = F[<<g[x \ {Max(x)}], s[Max(x)]>>]
      BY <2>2, <2>3 DEF Folding
    <3> QED BY <1>2, <2>1, <2>3, <3>1, <3>2
  <2>4. g[{}] = << <<>> >>
    BY <2>2, {} \in SUBSET DOMAIN s DEF Folding
  <2>5. g = [x \in SUBSET DOMAIN s |-> g[x]]
    BY <2>2 DEF Folding
  <2>6. Cutting(g, s)
    <3>1. g = [x \in SUBSET DOMAIN s |->
                 IF x = {} THEN << <<>> >> ELSE Cut(g[x \ {Max(x)}], s[Max(x)])]
      BY <2>3, <2>4, <2>5
    <3> QED BY <3>1 DEF Cutting
  <2>7. ASSUME NEW h, Cutting(h, s) PROVE FoldOf(h, F, << <<>> >>, s, Lists(C))
    <3>1. h[{}] = << <<>> >>
      BY <2>7, {} \in SUBSET DOMAIN s DEF Cutting
    <3>2. ASSUME NEW x \in SUBSET DOMAIN s, x # {}, h[x \ {Max(x)}] \in Lists(C)
          PROVE  h[x] = F[<<h[x \ {Max(x)}], s[Max(x)]>>]
      <4>1. h[x] = Cut(h[x \ {Max(x)}], s[Max(x)])
        BY <2>7, <3>2 DEF Cutting
      <4> QED BY <1>2, <2>1, <3>2, <4>1
    <3> QED BY <3>1, <3>2 DEF FoldOf
  <2> QED BY <2>6, <2>7
<1> QED BY <1>1, <1>2, <1>3

\* split("/"), from character to character.
LEMMA SegmentsUnfold ==
  ASSUME NEW C
  PROVE  /\ Segments(<<>>) = << <<>> >>
         /\ \A s \in Seq(C) : Segments(s) \in Lists(C)
         /\ \A s \in Seq(C), c \in C : Segments(Append(s, c)) = Cut(Segments(s), c)
<1> DEFINE chosen(t) == CHOOSE g : Cutting(g, t)
<1>1. \A t : Segments(t) = chosen(t)[DOMAIN t]
  BY DEF Segments, FoldLeft, MapThenFoldSet, Cutting, Cut
<1>2. PICK F : F = [q \in Lists(C) \X C |-> Cut(q[1], q[2])]
  OBVIOUS
<1>3. << <<>> >> \in Lists(C) /\ StepsIn(F, Lists(C), C)
  BY <1>2, CuttingExists
<1>b. \A p \in Lists(C), c \in C : F[<<p, c>>] = Cut(p, c)
  BY <1>2
<1>4. \A t \in Seq(C) : FoldOf(chosen(t), F, << <<>> >>, t, Lists(C))
  BY <1>2, CuttingExists
<1> HIDE DEF chosen
<1>5. Segments(<<>>) = << <<>> >>
  <2>1. <<>> \in Seq(C) /\ DOMAIN <<>> = {}
    OBVIOUS
  <2> QED BY <1>1, <1>4, <2>1 DEF FoldOf
<1>6. ASSUME NEW s \in Seq(C), NEW c \in C
      PROVE  Segments(s) \in Lists(C) /\ Segments(Append(s, c)) = Cut(Segments(s), c)
  <2>1. Append(s, c) \in Seq(C)
    BY AppendProperties
  <2>2. PICK b, h, l, V : b = << <<>> >> /\ h = chosen(s) /\ l = chosen(Append(s, c)) /\ V = Lists(C)
    OBVIOUS
  <2>3. FoldOf(h, F, b, s, V) /\ FoldOf(l, F, b, Append(s, c), V) /\ b \in V /\ StepsIn(F, V, C)
    BY <1>3, <1>4, <2>1, <2>2
  <2>4. h[DOMAIN s] \in V /\ l[DOMAIN Append(s, c)] = F[<<h[DOMAIN s], c>>]
    BY <2>3, FoldSteps
  <2>5. Segments(s) = h[DOMAIN s] /\ Segments(Append(s, c)) = l[DOMAIN Append(s, c)]
    BY <1>1, <2>2
  <2>6. Segments(s) \in Lists(C) /\ Segments(Append(s, c)) = F[<<Segments(s), c>>]
    BY <2>2, <2>4, <2>5
  <2> QED BY <1>b, <2>6
<1>7. ASSUME NEW s \in Seq(C) PROVE Segments(s) \in Lists(C)
  <2>1. CASE s = <<>>
    BY <1>3, <1>5, <2>1
  <2>2. CASE s # <<>>
    <3>1. PICK t \in Seq(C), c \in C : s = Append(t, c)
      BY <2>2, SequenceEmptyOrAppend
    <3>2. Segments(s) = Cut(Segments(t), c) /\ Segments(t) \in Lists(C)
      BY <1>6, <3>1
    <3> QED BY <3>2, CutType
  <2> QED BY <2>1, <2>2
<1> QED BY <1>5, <1>6, <1>7

-----------------------------------------------------------------------------
(* Dot segments, one segment at a time.                                    *)

\* What a segment makes of what is left of those before it.
Turn(out, part) ==
  IF part = <<".">> THEN out
  ELSE IF part = <<".", ".">>
  THEN IF out # <<>> /\ Last(out) # <<>> THEN Front(out) ELSE out
  ELSE Append(out, part)

\* g has what the library's fold makes of the segments at every set of places.
Turning(g, p) ==
  g = [x \in SUBSET DOMAIN p |->
         IF x = {} THEN <<>> ELSE Turn(g[x \ {Max(x)}], p[Max(x)])]

\* What is left of a list of segments.
Left(p) == (CHOOSE g : Turning(g, p))[DOMAIN p]

\* The last of a list and what comes before it.
LEMMA FrontIs ==
  ASSUME NEW D, NEW out \in Seq(D), out # <<>>
  PROVE  /\ Front(out) \in Seq(D) /\ Last(out) \in D
         /\ out = Append(Front(out), Last(out))
         /\ \A t \in Seq(D), e \in D : out = Append(t, e) => Front(out) = t /\ Last(out) = e
<1>1. ASSUME NEW t \in Seq(D), NEW e \in D, out = Append(t, e)
      PROVE  Front(out) = t /\ Last(out) = e
  <2>1. PICK n \in Nat : n = Len(t)
    BY LenProperties
  <2>2. Len(out) = n + 1 /\ out[n + 1] = e /\ \A i \in 1 .. n : out[i] = t[i]
    BY <1>1, <2>1, AppendProperties
  <2>3. Last(out) = e
    BY <2>2 DEF Last
  <2>4. \A i \in 1 .. n : out[i] \in D
    BY <2>1, <2>2, ElementOfSeq
  <2>5. PICK f : f = SubSeq(out, 1, n)
    OBVIOUS
  <2>6. f \in Seq(D) /\ Len(f) = n /\ \A i \in 1 .. n : f[i] = out[i]
    <3>1. 1 \in Int /\ n \in Int /\ n - 1 + 1 = n
      OBVIOUS
    <3>2. /\ f \in Seq(D) /\ Len(f) = IF 1 <= n THEN n - 1 + 1 ELSE 0
          /\ \A i \in 1 .. n - 1 + 1 : f[i] = out[1 + i - 1]
      BY <2>4, <2>5, <3>1, SubSeqProperties
    <3>3. \A i \in 1 .. n : 1 + i - 1 = i
      OBVIOUS
    <3>4. Len(f) = n
      BY <3>2
    <3> QED BY <3>1, <3>2, <3>3, <3>4
  <2>7. f = t
    BY <2>1, <2>2, <2>6, SeqEqual
  <2>8. Front(out) = f
    BY <2>2, <2>5 DEF Front
  <2> QED BY <2>3, <2>7, <2>8
<1>2. PICK t \in Seq(D), e \in D : out = Append(t, e)
  BY SequenceEmptyOrAppend
<1> QED BY <1>1, <1>2

\* It is a list of segments still.
LEMMA TurnType ==
  ASSUME NEW D, NEW out \in Seq(D), NEW part \in D
  PROVE  Turn(out, part) \in Seq(D)
BY FrontIs, AppendProperties DEF Turn

\* The library's fold over the segments exists and is one.
LEMMA TurningExists ==
  ASSUME NEW D, NEW F, F = [q \in Seq(D) \X D |-> Turn(q[1], q[2])]
  PROVE  /\ <<>> \in Seq(D) /\ StepsIn(F, Seq(D), D)
         /\ \A s \in Seq(D) : /\ \E g : Turning(g, s)
                              /\ \A h : Turning(h, s) => FoldOf(h, F, <<>>, s, Seq(D))
<1>1. <<>> \in Seq(D)
  OBVIOUS
<1>2. StepsIn(F, Seq(D), D) /\ \A p \in Seq(D), c \in D : F[<<p, c>>] = Turn(p, c)
  <2>1. \A p \in Seq(D), c \in D : Turn(p, c) \in Seq(D)
    BY TurnType
  <2> QED BY <2>1 DEF StepsIn
<1>3. ASSUME NEW s \in Seq(D)
      PROVE  /\ \E g : Turning(g, s)
             /\ \A h : Turning(h, s) => FoldOf(h, F, <<>>, s, Seq(D))
  <2>1. \A x \in SUBSET DOMAIN s : x # {} => Max(x) \in DOMAIN s /\ s[Max(x)] \in D
    <3>1. PICK L \in Nat : DOMAIN s = 1 .. L /\ \A i \in 1 .. L : s[i] \in D
      BY LenProperties, ElementOfSeq
    <3> QED BY <3>1, MaxOf
  <2>2. PICK g : Folding(g, F, <<>>, s, Seq(D))
    BY <1>1, <1>2, FoldingExists
  <2>3. ASSUME NEW x \in SUBSET DOMAIN s, x # {}
        PROVE  g[x] = Turn(g[x \ {Max(x)}], s[Max(x)])
    <3>1. g[x \ {Max(x)}] \in Seq(D)
      BY <2>2 DEF Folding
    <3>2. g[x] = F[<<g[x \ {Max(x)}], s[Max(x)]>>]
      BY <2>2, <2>3 DEF Folding
    <3> QED BY <1>2, <2>1, <2>3, <3>1, <3>2
  <2>4. g[{}] = <<>>
    BY <2>2, {} \in SUBSET DOMAIN s DEF Folding
  <2>5. g = [x \in SUBSET DOMAIN s |-> g[x]]
    BY <2>2 DEF Folding
  <2>6. Turning(g, s)
    <3>1. g = [x \in SUBSET DOMAIN s |->
                 IF x = {} THEN <<>> ELSE Turn(g[x \ {Max(x)}], s[Max(x)])]
      BY <2>3, <2>4, <2>5
    <3> QED BY <3>1 DEF Turning
  <2>7. ASSUME NEW h, Turning(h, s) PROVE FoldOf(h, F, <<>>, s, Seq(D))
    <3>1. h[{}] = <<>>
      BY <2>7, {} \in SUBSET DOMAIN s DEF Turning
    <3>2. ASSUME NEW x \in SUBSET DOMAIN s, x # {}, h[x \ {Max(x)}] \in Seq(D)
          PROVE  h[x] = F[<<h[x \ {Max(x)}], s[Max(x)]>>]
      <4>1. h[x] = Turn(h[x \ {Max(x)}], s[Max(x)])
        BY <2>7, <3>2 DEF Turning
      <4> QED BY <1>2, <2>1, <3>2, <4>1
    <3> QED BY <3>1, <3>2 DEF FoldOf
  <2> QED BY <2>6, <2>7
<1> QED BY <1>1, <1>2, <1>3

\* The segments left, from segment to segment.
LEMMA LeftUnfold ==
  ASSUME NEW D
  PROVE  /\ Left(<<>>) = <<>>
         /\ \A s \in Seq(D) : Left(s) \in Seq(D)
         /\ \A s \in Seq(D), c \in D : Left(Append(s, c)) = Turn(Left(s), c)
<1> DEFINE chosen(t) == CHOOSE g : Turning(g, t)
<1>1. \A t : Left(t) = chosen(t)[DOMAIN t]
  BY DEF Left
<1>2. PICK F : F = [q \in Seq(D) \X D |-> Turn(q[1], q[2])]
  OBVIOUS
<1>3. <<>> \in Seq(D) /\ StepsIn(F, Seq(D), D)
  BY <1>2, TurningExists
<1>b. \A p \in Seq(D), c \in D : F[<<p, c>>] = Turn(p, c)
  BY <1>2
<1>4. \A t \in Seq(D) : FoldOf(chosen(t), F, <<>>, t, Seq(D))
  BY <1>2, TurningExists
<1> HIDE DEF chosen
<1>5. Left(<<>>) = <<>>
  <2>1. <<>> \in Seq(D) /\ DOMAIN <<>> = {}
    OBVIOUS
  <2> QED BY <1>1, <1>4, <2>1 DEF FoldOf
<1>6. ASSUME NEW s \in Seq(D), NEW c \in D
      PROVE  Left(s) \in Seq(D) /\ Left(Append(s, c)) = Turn(Left(s), c)
  <2>1. Append(s, c) \in Seq(D)
    BY AppendProperties
  <2>2. PICK b, h, l, V : b = <<>> /\ h = chosen(s) /\ l = chosen(Append(s, c)) /\ V = Seq(D)
    OBVIOUS
  <2>3. FoldOf(h, F, b, s, V) /\ FoldOf(l, F, b, Append(s, c), V) /\ b \in V /\ StepsIn(F, V, D)
    BY <1>3, <1>4, <2>1, <2>2
  <2>4. h[DOMAIN s] \in V /\ l[DOMAIN Append(s, c)] = F[<<h[DOMAIN s], c>>]
    BY <2>3, FoldSteps
  <2>5. Left(s) = h[DOMAIN s] /\ Left(Append(s, c)) = l[DOMAIN Append(s, c)]
    BY <1>1, <2>2
  <2>6. Left(s) \in Seq(D) /\ Left(Append(s, c)) = F[<<Left(s), c>>]
    BY <2>2, <2>4, <2>5
  <2> QED BY <1>b, <2>6
<1>7. ASSUME NEW s \in Seq(D) PROVE Left(s) \in Seq(D)
  <2>1. CASE s = <<>>
    BY <1>3, <1>5, <2>1
  <2>2. CASE s # <<>>
    <3>1. PICK t \in Seq(D), c \in D : s = Append(t, c)
      BY <2>2, SequenceEmptyOrAppend
    <3>2. Left(s) = Turn(Left(t), c) /\ Left(t) \in Seq(D)
      BY <1>6, <3>1
    <3> QED BY <3>2, TurnType
  <2> QED BY <2>1, <2>2
<1> QED BY <1>5, <1>6, <1>7

-----------------------------------------------------------------------------
(* Joining lists.                                                          *)

\* f has what the library makes of every beginning of p.
Flattening(f, p) ==
  f = [i \in 1 .. Len(p) |-> IF i = 1 THEN p[i] ELSE f[i - 1] \o p[i]]

\* There is such a function.
LEMMA FlatteningExists ==
  ASSUME NEW C, NEW p \in Seq(Seq(C))
  PROVE  \E f : Flattening(f, p)
<1>1. PICK S : S = Seq(C)
  OBVIOUS
<1>2. PICK F : F = [q \in S \X S |-> q[1] \o q[2]]
  OBVIOUS
<1>3. StepsIn(F, S, S) /\ <<>> \in S
  <2>1. \A v, x \in S : v \o x \in S
    BY <1>1, ConcatProperties
  <2> QED BY <1>1, <1>2, <2>1 DEF StepsIn
<1>4. PICK b : b = <<>>
  OBVIOUS
<1>5. PICK g : Folding(g, F, b, p, S)
  BY <1>1, <1>3, <1>4, FoldingExists
<1>6. PICK L \in Nat : L = Len(p) /\ DOMAIN p = 1 .. L /\ \A i \in 1 .. L : p[i] \in S
  BY <1>1, LenProperties, ElementOfSeq
<1>7. \A n \in 1 .. L : g[1 .. n] = g[1 .. n - 1] \o p[n] /\ g[1 .. n - 1] \in S
  <2> TAKE n \in 1 .. L
  <2>1. /\ 1 .. n \in SUBSET DOMAIN p /\ 1 .. n # {}
        /\ Max(1 .. n) = n /\ (1 .. n) \ {Max(1 .. n)} = 1 .. n - 1
    BY <1>6, UpTo
  <2>2. 1 .. n - 1 \in SUBSET DOMAIN p
    BY <1>6
  <2>3. g[1 .. n] = F[<<g[1 .. n - 1], p[n]>>]
    BY <1>5, <2>1 DEF Folding
  <2>4. g[1 .. n - 1] \in S
    BY <1>5, <2>2 DEF Folding
  <2> QED BY <1>2, <1>6, <2>3, <2>4
<1>8. g[{}] = <<>>
  BY <1>4, <1>5, {} \in SUBSET DOMAIN p DEF Folding
<1> DEFINE f == [i \in 1 .. L |-> g[1 .. i]]
<1>9. ASSUME NEW i \in 1 .. L PROVE f[i] = IF i = 1 THEN p[i] ELSE f[i - 1] \o p[i]
  <2>1. CASE i = 1
    <3>1. 1 .. i - 1 = {}
      BY <2>1
    <3>2. g[1 .. i] = <<>> \o p[i] /\ p[i] \in S
      BY <1>6, <1>7, <1>8, <3>1
    <3>3. <<>> \o p[i] = p[i]
      BY <1>1, <3>2, ConcatEmptySeq
    <3> QED BY <2>1, <3>2, <3>3
  <2>2. CASE i # 1
    <3>1. i - 1 \in 1 .. L
      BY <2>2
    <3>2. f[i] = g[1 .. i] /\ f[i - 1] = g[1 .. i - 1]
      BY <3>1
    <3> HIDE DEF f
    <3> QED BY <1>7, <2>2, <3>2
  <2> QED BY <2>1, <2>2
<1>10. f = [i \in 1 .. L |-> f[i]]
  OBVIOUS
<1>11. Flattening(f, p)
  <2> HIDE DEF f
  <2>1. f = [i \in 1 .. L |-> IF i = 1 THEN p[i] ELSE f[i - 1] \o p[i]]
    BY <1>9, <1>10
  <2> QED BY <1>6, <2>1 DEF Flattening
<1> QED BY <1>11

\* A list and one more are what the list is, and then that one.
LEMMA FlattenAppend ==
  ASSUME NEW C, NEW p \in Seq(Seq(C)), NEW x \in Seq(C)
  PROVE  FlattenSeq(Append(p, x)) = IF p = <<>> THEN x ELSE FlattenSeq(p) \o x
<1> DEFINE chosen(q) == CHOOSE f : Flattening(f, q)
<1>1. \A q : FlattenSeq(q) = IF Len(q) = 0 THEN q ELSE chosen(q)[Len(q)]
  BY DEF FlattenSeq, Flattening
<1>2. \A q \in Seq(Seq(C)) : Flattening(chosen(q), q)
  BY FlatteningExists
<1> HIDE DEF chosen
<1>3. PICK S : S = Seq(C)
  OBVIOUS
<1>4. PICK L \in Nat : L = Len(p)
  BY LenProperties
<1>5. PICK q : q = Append(p, x)
  OBVIOUS
<1>6. q \in Seq(S) /\ Len(q) = L + 1 /\ q[L + 1] = x /\ \A i \in 1 .. L : q[i] = p[i]
  BY <1>3, <1>4, <1>5, AppendProperties
<1>7. PICK f, h : f = chosen(p) /\ h = chosen(q)
  OBVIOUS
<1>8. Flattening(f, p) /\ Flattening(h, q)
  BY <1>2, <1>3, <1>6, <1>7
<1>9. \A i \in 1 .. L : f[i] = IF i = 1 THEN p[i] ELSE f[i - 1] \o p[i]
  BY <1>4, <1>8 DEF Flattening
<1>10. \A i \in 1 .. L + 1 : h[i] = IF i = 1 THEN q[i] ELSE h[i - 1] \o q[i]
  BY <1>6, <1>8 DEF Flattening
<1>11. FlattenSeq(q) = h[L + 1]
  BY <1>1, <1>6, <1>7
<1>12. CASE L = 0
  <2>1. p = <<>>
    BY <1>4, <1>12, EmptySeq
  <2>2. h[1] = q[1]
    BY <1>10, <1>12
  <2> QED BY <1>5, <1>6, <1>11, <1>12, <2>1, <2>2
<1>13. CASE L # 0
  <2>1. p # <<>>
    BY <1>4, <1>13
  <2>2. FlattenSeq(p) = f[L]
    BY <1>1, <1>4, <1>7, <1>13
  <2> DEFINE u == [n \in 0 .. L |-> IF n = 0 THEN <<>> ELSE f[n]]
             v == [n \in 0 .. L |-> IF n = 0 THEN <<>> ELSE h[n]]
  <2>3. PICK a, b : a = u /\ b = v
    OBVIOUS
  <2>4. a[0] = b[0] /\ \A n \in 1 .. L : a[n] = f[n] /\ b[n] = h[n]
    BY <2>3
  <2> HIDE DEF u, v
  <2>5. \A n \in 1 .. L : a[n - 1] = b[n - 1] => a[n] = b[n]
    <3> TAKE n \in 1 .. L
    <3>1. CASE n = 1
      BY <1>6, <1>9, <1>10, <2>4, <3>1
    <3>2. CASE n # 1
      <4>1. n - 1 \in 1 .. L /\ n \in 1 .. L + 1
        BY <3>2
      <4>2. f[n] = f[n - 1] \o p[n] /\ h[n] = h[n - 1] \o q[n] /\ q[n] = p[n]
        BY <1>6, <1>9, <1>10, <3>2, <4>1
      <4> QED BY <2>4, <4>1, <4>2
    <3> QED BY <3>1, <3>2
  <2>6. a[L] = b[L]
    BY <2>4, <2>5, AlikeThroughout
  <2>7. L \in 1 .. L /\ L + 1 \in 1 .. L + 1 /\ L + 1 # 1 /\ L + 1 - 1 = L
    BY <1>13
  <2>8. f[L] = h[L]
    BY <2>4, <2>6, <2>7
  <2>9. h[L + 1] = h[L] \o x
    <3>1. PICK m : m = L + 1
      OBVIOUS
    <3>2. m \in 1 .. L + 1 /\ m # 1 /\ m - 1 = L
      BY <2>7, <3>1
    <3>3. h[m] = h[m - 1] \o q[m]
      BY <1>10, <3>2
    <3> QED BY <1>6, <3>1, <3>2, <3>3
  <2> QED BY <1>5, <1>11, <2>1, <2>2, <2>8, <2>9
<1> QED BY <1>12, <1>13

\* What a list of texts is joined to is a text.
LEMMA FlattenType ==
  ASSUME NEW C, NEW p \in Seq(Seq(C))
  PROVE  FlattenSeq(p) \in Seq(C) /\ FlattenSeq(<<>>) = <<>>
<1> DEFINE B == {q \in Seq(Seq(C)) : FlattenSeq(q) \notin Seq(C)}
<1>1. FlattenSeq(<<>>) = <<>>
  BY DEF FlattenSeq
<1>2. ASSUME B # {} PROVE FALSE
  <2>1. PICK S : S = Seq(C)
    OBVIOUS
  <2>2. B \in SUBSET Seq(S)
    BY <2>1
  <2> HIDE DEF B
  <2>3. PICK q \in B : q = <<>> \/ \E t \in Seq(S), e \in S : q = Append(t, e) /\ t \notin B
    BY <1>2, <2>2, ShortestBad
  <2>4. q \in Seq(S) /\ FlattenSeq(q) \notin S
    BY <2>1, <2>3 DEF B
  <2>5. CASE q = <<>>
    <3>1. FlattenSeq(q) = <<>>
      BY <1>1, <2>5
    <3>2. <<>> \in S
      BY <2>1, EmptySeq
    <3> QED BY <2>4, <3>1, <3>2
  <2>6. CASE \E t \in Seq(S), e \in S : q = Append(t, e) /\ t \notin B
    <3>1. PICK t \in Seq(S), e \in S : q = Append(t, e) /\ t \notin B
      BY <2>6
    <3>2. FlattenSeq(t) \in S
      BY <2>1, <3>1 DEF B
    <3>3. FlattenSeq(q) = IF t = <<>> THEN e ELSE FlattenSeq(t) \o e
      BY <2>1, <3>1, FlattenAppend
    <3>4. FlattenSeq(t) \o e \in S
      BY <2>1, <3>2, ConcatProperties
    <3> QED BY <2>4, <3>3, <3>4
  <2> QED BY <2>3, <2>5, <2>6
<1> QED BY <1>1, <1>2

\* What has the elements of f and then e is f with e appended.
LEMMA IsAppend ==
  ASSUME NEW S, NEW f \in Seq(S), NEW e \in S, NEW L \in Nat, L = Len(f),
         NEW q \in [1 .. L + 1 -> S], \A i \in 1 .. L : q[i] = f[i], q[L + 1] = e
  PROVE  q = Append(f, e)
<1>1. PICK a : a = Append(f, e)
  OBVIOUS
<1>2. PICK m \in Nat : m = L + 1
  OBVIOUS
<1>3. a \in Seq(S) /\ Len(a) = m /\ a[m] = e /\ \A i \in 1 .. L : a[i] = f[i]
  BY <1>1, <1>2, AppendProperties
<1>4. q \in Seq(S) /\ Len(q) = m
  BY <1>2
<1>5. \A i \in 1 .. m : q[i] = a[i]
  <2> TAKE i \in 1 .. m
  <2>1. CASE i = m
    BY <1>2, <1>3, <2>1
  <2>2. CASE i # m
    <3>1. i \in 1 .. L
      BY <1>2, <2>2
    <3> QED BY <1>3, <3>1
  <2> QED BY <2>1, <2>2
<1>6. q = a
  BY <1>3, <1>4, <1>5, SeqEqual
<1> QED BY <1>1, <1>6

\* The characters of a path, those of its escapes and those quote() adds among them.
Alphabet(C) == Hex \cup Unreserved \cup {"%", "/"} \subseteq C

\* "/".join, from part to part.
LEMMA JoinedUnfold ==
  ASSUME NEW C, Alphabet(C), NEW p \in Seq(Seq(C)), NEW x \in Seq(C)
  PROVE  /\ Joined(<<>>) = <<>> /\ Joined(p) \in Seq(C)
         /\ Joined(Append(p, x)) = IF p = <<>> THEN x ELSE Append(Joined(p), "/") \o x
<1>1. PICK S : S = Seq(C)
  OBVIOUS
<1> DEFINE M(q) == [n \in DOMAIN q |-> IF n = 1 THEN q[n] ELSE <<"/">> \o q[n]]
<1>2. <<"/">> \in S /\ "/" \in C
  BY <1>1 DEF Alphabet
<1>3. \A y \in S : <<"/">> \o y \in S
  BY <1>1, <1>2, ConcatProperties
<1>4. ASSUME NEW q \in Seq(S), NEW n \in Nat, n = Len(q)
      PROVE  /\ M(q) \in [1 .. n -> S] /\ M(q) \in Seq(S) /\ Len(M(q)) = n
             /\ \A i \in 1 .. n : M(q)[i] = IF i = 1 THEN q[i] ELSE <<"/">> \o q[i]
  <2>1. DOMAIN q = 1 .. n /\ \A i \in 1 .. n : q[i] \in S
    BY <1>4, LenProperties, ElementOfSeq
  <2>2. M(q) \in [1 .. n -> S]
    BY <1>3, <2>1
  <2>3. M(q) \in Seq(S) /\ Len(M(q)) = n
    <3> HIDE DEF M
    <3> QED BY <2>2
  <2> QED BY <2>1, <2>2, <2>3
<1>5. \A q : Joined(q) = FlattenSeq(M(q))
  BY DEF Joined
<1>6. Joined(<<>>) = <<>>
  <2>1. M(<<>>) = <<>>
    OBVIOUS
  <2> HIDE DEF M
  <2> QED BY <1>5, <2>1 DEF FlattenSeq
<1> HIDE DEF M
<1>7. PICK L \in Nat : L = Len(p)
  BY LenProperties
<1>8. PICK f : f = M(p)
  OBVIOUS
<1>9. f \in Seq(S) /\ Len(f) = L /\ \A i \in 1 .. L : f[i] = IF i = 1 THEN p[i] ELSE <<"/">> \o p[i]
  BY <1>1, <1>4, <1>7, <1>8
<1>10. Joined(p) \in Seq(C)
  BY <1>1, <1>5, <1>8, <1>9, FlattenType
<1>11. PICK q : q = Append(p, x)
  OBVIOUS
<1>m. PICK m \in Nat : m = L + 1
  OBVIOUS
<1>12. q \in Seq(S) /\ Len(q) = m /\ q[m] = x /\ \A i \in 1 .. L : q[i] = p[i]
  BY <1>1, <1>7, <1>11, <1>m, AppendProperties
<1>13. PICK h : h = M(q)
  OBVIOUS
<1>14. /\ h \in [1 .. m -> S]
       /\ \A i \in 1 .. m : h[i] = IF i = 1 THEN q[i] ELSE <<"/">> \o q[i]
  BY <1>4, <1>12, <1>13
<1>15. PICK e : e = IF L = 0 THEN x ELSE <<"/">> \o x
  OBVIOUS
<1>16. h = Append(f, e)
  <2>1. e \in S
    BY <1>1, <1>3, <1>15
  <2>a. m \in 1 .. m /\ (m = 1 <=> L = 0) /\ \A i \in 1 .. L : i \in 1 .. m
    BY <1>m
  <2>2. h[m] = e
    BY <1>12, <1>14, <1>15, <2>a
  <2>3. ASSUME NEW i \in 1 .. L PROVE h[i] = f[i]
    <3>1. h[i] = IF i = 1 THEN q[i] ELSE <<"/">> \o q[i]
      BY <1>14, <2>a
    <3>2. q[i] = p[i] /\ f[i] = IF i = 1 THEN p[i] ELSE <<"/">> \o p[i]
      BY <1>9, <1>12
    <3> QED BY <3>1, <3>2
  <2>4. h \in [1 .. L + 1 -> S] /\ h[L + 1] = e
    BY <1>m, <1>14, <2>2
  <2> QED BY <1>9, <2>1, <2>3, <2>4, IsAppend
<1>17. Joined(q) = IF f = <<>> THEN e ELSE Joined(p) \o e
  <2>1. e \in Seq(C)
    BY <1>1, <1>3, <1>15
  <2>2. f \in Seq(Seq(C))
    BY <1>1, <1>9
  <2>3. FlattenSeq(Append(f, e)) = IF f = <<>> THEN e ELSE FlattenSeq(f) \o e
    BY <2>1, <2>2, FlattenAppend
  <2> QED BY <1>5, <1>8, <1>13, <1>16, <2>3
<1>18. CASE L = 0
  <2>1. p = <<>> /\ f = <<>>
    BY <1>7, <1>9, <1>18, EmptySeq
  <2> QED BY <1>6, <1>10, <1>11, <1>15, <1>17, <1>18, <2>1
<1>19. CASE L # 0
  <2>1. p # <<>> /\ f # <<>>
    BY <1>7, <1>9, <1>19
  <2>2. PICK j : j = Joined(p)
    OBVIOUS
  <2>3. j \o (<<"/">> \o x) = (j \o <<"/">>) \o x
    BY <1>1, <1>2, <1>10, <2>2, ConcatAssociative
  <2>4. Append(j, "/") = j \o <<"/">>
    BY <1>2, <1>10, <2>2, AppendIsConcat
  <2>5. Joined(q) = j \o (<<"/">> \o x)
    BY <1>15, <1>17, <1>19, <2>1, <2>2
  <2> QED BY <1>6, <1>10, <1>11, <2>1, <2>2, <2>3, <2>4, <2>5
<1> QED BY <1>18, <1>19

\* What quote() makes of a character.
Mark(c) == IF c \in Unsafe THEN <<"%">> \o DigitsOf[c] ELSE <<c>>

\* It is the character, or an escape of it.
LEMMA MarkIs ==
  ASSUME NEW C, Alphabet(C), NEW c \in C
  PROVE  /\ Mark(c) \in Seq(C)
         /\ c \notin Unsafe => Mark(c) = <<c>>
         /\ c \in Unsafe => \E d, e \in Hex : /\ Mark(c) = <<"%", d, e>>
                                              /\ UpperOf[d] = d /\ UpperOf[e] = e
                                              /\ OctetOf[<<d, e>>] \notin Unreserved
<1>1. CASE c \notin Unsafe
  BY <1>1 DEF Mark
<1>2. CASE c \in Unsafe
  <2>1. PICK d, e \in Hex : DigitsOf[c] = <<d, e>>
    BY <1>2, QuoteType
  <2>2. UpperOf[d] = d /\ UpperOf[e] = e /\ OctetOf[<<d, e>>] \notin Unreserved
    BY <1>2, <2>1, QuoteType
  <2>4. <<"%", d, e>> \in Seq(C) /\ <<"%">> \in Seq(C) /\ <<d, e>> \in Seq(C)
    BY DEF Alphabet
  <2>5. PICK a, b, m, x : a = <<"%">> /\ b = <<d, e>> /\ x = <<"%", d, e>> /\ m = a \o b
    OBVIOUS
  <2>6. Len(a) = 1 /\ a[1] = "%" /\ Len(b) = 2 /\ b[1] = d /\ b[2] = e /\ Len(x) = 3
        /\ x[1] = "%" /\ x[2] = d /\ x[3] = e
    BY <2>5
  <2>7. /\ m \in Seq(C) /\ Len(m) = Len(a) + Len(b)
        /\ \A i \in 1 .. Len(a) + Len(b) : m[i] = IF i <= Len(a) THEN a[i] ELSE b[i - Len(a)]
    BY <2>4, <2>5, ConcatProperties
  <2>8. Len(m) = 3 /\ \A i \in 1 .. 3 : m[i] = x[i]
    BY <2>6, <2>7
  <2>9. m = x
    BY <2>4, <2>5, <2>6, <2>7, <2>8, SeqEqual
  <2>3. Mark(c) = <<"%", d, e>>
    BY <1>2, <2>1, <2>5, <2>9 DEF Mark
  <2> QED BY <1>2, <2>2, <2>3, <2>4
<1> QED BY <1>1, <1>2

\* quote(), from character to character.
LEMMA QuotedUnfold ==
  ASSUME NEW C, Alphabet(C), NEW s \in Seq(C), NEW c \in C
  PROVE  /\ Quoted(<<>>) = <<>> /\ Quoted(s) \in Seq(C)
         /\ Quoted(Append(s, c)) = Quoted(s) \o Mark(c)
<1>1. PICK S : S = Seq(C)
  OBVIOUS
<1> DEFINE M(q) == [n \in DOMAIN q |-> Mark(q[n])]
<1>2. \A y \in C : Mark(y) \in S
  BY <1>1, MarkIs
<1>4. ASSUME NEW q \in Seq(C), NEW n \in Nat, n = Len(q)
      PROVE  /\ M(q) \in [1 .. n -> S] /\ M(q) \in Seq(S) /\ Len(M(q)) = n
             /\ \A i \in 1 .. n : M(q)[i] = Mark(q[i])
  <2>1. DOMAIN q = 1 .. n /\ \A i \in 1 .. n : q[i] \in C
    BY <1>4, LenProperties, ElementOfSeq
  <2>2. M(q) \in [1 .. n -> S]
    BY <1>2, <2>1
  <2>3. M(q) \in Seq(S) /\ Len(M(q)) = n
    <3> HIDE DEF M
    <3> QED BY <2>2
  <2> QED BY <2>1, <2>2, <2>3
<1>5. \A q : Quoted(q) = FlattenSeq(M(q))
  BY DEF Quoted, Mark
<1>6. Quoted(<<>>) = <<>>
  <2>1. M(<<>>) = <<>>
    OBVIOUS
  <2> HIDE DEF M
  <2> QED BY <1>5, <2>1 DEF FlattenSeq
<1> HIDE DEF M
<1>7. PICK L \in Nat : L = Len(s)
  BY LenProperties
<1>8. PICK f : f = M(s)
  OBVIOUS
<1>9. f \in Seq(S) /\ Len(f) = L /\ \A i \in 1 .. L : f[i] = Mark(s[i])
  BY <1>4, <1>7, <1>8
<1>10. Quoted(s) \in Seq(C)
  BY <1>1, <1>5, <1>8, <1>9, FlattenType
<1>11. PICK q : q = Append(s, c)
  OBVIOUS
<1>m. PICK m \in Nat : m = L + 1
  OBVIOUS
<1>12. q \in Seq(C) /\ Len(q) = m /\ q[m] = c /\ \A i \in 1 .. L : q[i] = s[i]
  BY <1>7, <1>11, <1>m, AppendProperties
<1>13. PICK h : h = M(q)
  OBVIOUS
<1>14. h \in [1 .. m -> S] /\ \A i \in 1 .. m : h[i] = Mark(q[i])
  BY <1>4, <1>12, <1>13
<1>15. PICK e : e = Mark(c)
  OBVIOUS
<1>16. h = Append(f, e) /\ e \in S
  <2>1. e \in S
    BY <1>2, <1>15
  <2>2. h[m] = e
    BY <1>m, <1>12, <1>14, <1>15
  <2>3. \A i \in 1 .. L : h[i] = f[i]
    BY <1>9, <1>m, <1>12, <1>14
  <2>4. h \in [1 .. L + 1 -> S] /\ h[L + 1] = e
    BY <1>m, <1>14, <2>2
  <2> QED BY <1>9, <2>1, <2>3, <2>4, IsAppend
<1>17. Quoted(q) = IF f = <<>> THEN e ELSE Quoted(s) \o e
  <2>1. e \in Seq(C) /\ f \in Seq(Seq(C))
    BY <1>1, <1>9, <1>16
  <2>3. FlattenSeq(Append(f, e)) = IF f = <<>> THEN e ELSE FlattenSeq(f) \o e
    BY <2>1, FlattenAppend
  <2> QED BY <1>5, <1>8, <1>13, <1>16, <2>3
<1>18. f = <<>> => Quoted(s) \o e = e
  <2>1. f = <<>> => Quoted(s) = <<>>
    BY <1>5, <1>8 DEF FlattenSeq
  <2>2. <<>> \o e = e
    BY <1>1, <1>16, ConcatEmptySeq
  <2> QED BY <2>1, <2>2
<1>19. Quoted(q) = Quoted(s) \o e
  BY <1>17, <1>18
<1> QED BY <1>6, <1>10, <1>11, <1>15, <1>19

-----------------------------------------------------------------------------
(* Segments and what they are joined to.                                   *)

\* The members of a list with one more.
LEMMA MembersOf ==
  ASSUME NEW D, NEW p \in Seq(D), NEW x \in D
  PROVE  /\ ToSet(<<>>) = {} /\ ToSet(p) \in SUBSET D
         /\ ToSet(Append(p, x)) = ToSet(p) \cup {x}
<1>1. PICK n \in Nat : n = Len(p) /\ DOMAIN p = 1 .. n /\ \A i \in 1 .. n : p[i] \in D
  BY LenProperties, ElementOfSeq
<1>2. PICK m \in Nat : m = n + 1
  BY <1>1
<1>3. PICK q : q = Append(p, x)
  OBVIOUS
<1>4. q \in Seq(D) /\ Len(q) = m /\ q[m] = x /\ \A i \in 1 .. n : q[i] = p[i]
  BY <1>1, <1>2, <1>3, AppendProperties
<1>5. DOMAIN q = 1 .. m
  BY <1>4, LenProperties
<1>6. 1 .. m = (1 .. n) \cup {m}
  BY <1>2
<1>7. {q[i] : i \in DOMAIN q} = {p[i] : i \in DOMAIN p} \cup {x}
  BY <1>1, <1>4, <1>5, <1>6
<1>8. {p[i] : i \in DOMAIN p} \in SUBSET D
  BY <1>1
<1>9. ToSet(<<>>) = {}
  BY DEF ToSet
<1> QED BY <1>3, <1>7, <1>8, <1>9 DEF ToSet

\* What comes after a text comes after what it ends.
LEMMA ConcatAppend ==
  ASSUME NEW S, NEW x \in Seq(S), NEW t \in Seq(S), NEW c \in S
  PROVE  x \o Append(t, c) = Append(x \o t, c)
<1>1. PICK e : e = <<c>>
  OBVIOUS
<1>2. e \in Seq(S) /\ x \o t \in Seq(S)
  BY <1>1, ConcatProperties
<1>3. Append(t, c) = t \o e /\ Append(x \o t, c) = (x \o t) \o e
  BY <1>1, <1>2, AppendIsConcat
<1>4. (x \o t) \o e = x \o (t \o e)
  BY <1>2, ConcatAssociative
<1> QED BY <1>3, <1>4

\* No slash in it.
Clean(x) == "/" \notin ToSet(x)

\* What follows a slash is segments of its own.
LEMMA SegmentsConcat ==
  ASSUME NEW C, Alphabet(C), NEW a \in Seq(C), NEW b \in Seq(C)
  PROVE  Segments(Append(a, "/") \o b) = Segments(a) \o Segments(b)
<1>1. PICK x : x = Append(a, "/")
  OBVIOUS
<1>2. x \in Seq(C) /\ "/" \in C
  BY <1>1, AppendProperties DEF Alphabet
<1> DEFINE B == {t \in Seq(C) : Segments(x \o t) # Segments(a) \o Segments(t)}
<1>3. ASSUME B # {} PROVE FALSE
  <2>1. B \in SUBSET Seq(C)
    OBVIOUS
  <2>2. \A t : t \in B <=> t \in Seq(C) /\ Segments(x \o t) # Segments(a) \o Segments(t)
    OBVIOUS
  <2> HIDE DEF B
  <2>3. PICK t \in B : t = <<>> \/ \E u \in Seq(C), c \in C : t = Append(u, c) /\ u \notin B
    BY <1>3, <2>1, ShortestBad
  <2>4. PICK S, A : S = Seq(C) /\ A = Segments(a)
    OBVIOUS
  <2>5. A \in Seq(S) /\ A \in Lists(C)
    BY <2>4, SegmentsUnfold DEF Lists
  <2>6. CASE t = <<>>
    <3>1. x \o t = x
      BY <1>2, <2>6, ConcatEmptySeq
    <3>2. Segments(x) = Append(A, <<>>)
      BY <1>1, <1>2, <2>4, SegmentsUnfold DEF Cut
    <3>3. Segments(t) = << <<>> >>
      BY <2>6, SegmentsUnfold
    <3>4. <<>> \in S
      BY <2>4
    <3>5. Append(A, <<>>) = A \o << <<>> >>
      BY <2>5, <3>4, AppendIsConcat
    <3> QED BY <2>2, <2>3, <2>4, <3>1, <3>2, <3>3, <3>5
  <2>7. CASE \E u \in Seq(C), c \in C : t = Append(u, c) /\ u \notin B
    <3>1. PICK u \in Seq(C), c \in C : t = Append(u, c) /\ u \notin B
      BY <2>7
    <3>2. PICK U : U = Segments(u)
      OBVIOUS
    <3>3. U \in Seq(S) /\ U \in Lists(C) /\ U # <<>>
      BY <2>4, <3>2, SegmentsUnfold DEF Lists
    <3>4. Segments(x \o u) = A \o U
      BY <2>2, <2>4, <3>1, <3>2
    <3>5. x \o t = Append(x \o u, c) /\ x \o u \in Seq(C)
      BY <1>2, <3>1, ConcatAppend, ConcatProperties
    <3>6. Segments(x \o t) = Cut(A \o U, c) /\ Segments(t) = Cut(U, c)
      BY <3>1, <3>2, <3>4, <3>5, SegmentsUnfold
    <3>7. A \o U \in Lists(C)
      BY <3>4, <3>5, SegmentsUnfold
    <3>8. CASE c = "/"
      <4>1. <<>> \in S
        BY <2>4
      <4>2. A \o Append(U, <<>>) = Append(A \o U, <<>>)
        BY <2>5, <3>3, <4>1, ConcatAppend
      <4>3. Cut(A \o U, c) = A \o Cut(U, c)
        BY <3>8, <4>2 DEF Cut
      <4> QED BY <2>2, <2>3, <2>4, <3>6, <4>3
    <3>9. CASE c # "/"
      <4>1. PICK v \in Seq(S), y \in S : U = Append(v, y)
        BY <3>3, SequenceEmptyOrAppend
      <4>2. A \o U = Append(A \o v, y) /\ A \o v \in Seq(S)
        BY <2>5, <4>1, ConcatAppend, ConcatProperties
      <4>3. Cut(U, c) = Append(v, Append(y, c))
        <5>1. v \in Seq(Seq(C)) /\ y \in Seq(C)
          BY <2>4, <4>1
        <5>2. Cut(Append(v, y), c) = Append(v, Append(y, c))
          BY <3>1, <3>9, <5>1, CutLast
        <5> QED BY <4>1, <5>2
      <4>4. Cut(A \o U, c) = Append(A \o v, Append(y, c))
        <5>1. PICK w : w = A \o v
          OBVIOUS
        <5>2. w \in Seq(Seq(C)) /\ y \in Seq(C)
          BY <2>4, <4>1, <4>2, <5>1
        <5>3. Cut(Append(w, y), c) = Append(w, Append(y, c))
          BY <3>1, <3>9, <5>2, CutLast
        <5> QED BY <4>2, <5>1, <5>3
      <4>5. Append(y, c) \in S
        BY <2>4, <4>1, AppendProperties
      <4>6. A \o Append(v, Append(y, c)) = Append(A \o v, Append(y, c))
        <5>1. PICK z : z = Append(y, c)
          OBVIOUS
        <5> QED BY <2>5, <4>1, <4>5, <5>1, ConcatAppend
      <4> QED BY <2>2, <2>3, <2>4, <3>6, <4>3, <4>4, <4>6
    <3> QED BY <3>8, <3>9
  <2> QED BY <2>3, <2>6, <2>7
<1>4. b \notin B
  BY <1>3
<1> QED BY <1>1, <1>4

\* What has no slash is one segment.
LEMMA SegmentsOfClean ==
  ASSUME NEW C, NEW x \in Seq(C), Clean(x)
  PROVE  Segments(x) = <<x>>
<1> DEFINE B == {t \in Seq(C) : Clean(t) /\ Segments(t) # <<t>>}
<1>1. ASSUME B # {} PROVE FALSE
  <2>1. B \in SUBSET Seq(C)
    OBVIOUS
  <2>2. \A t : t \in B <=> t \in Seq(C) /\ Clean(t) /\ Segments(t) # <<t>>
    OBVIOUS
  <2> HIDE DEF B
  <2>3. PICK t \in B : t = <<>> \/ \E u \in Seq(C), c \in C : t = Append(u, c) /\ u \notin B
    BY <1>1, <2>1, ShortestBad
  <2>4. t # <<>>
    BY <2>2, <2>3, SegmentsUnfold
  <2>5. PICK u \in Seq(C), c \in C : t = Append(u, c) /\ u \notin B
    BY <2>3, <2>4
  <2>6. Clean(u) /\ c # "/"
    <3>1. ToSet(t) = ToSet(u) \cup {c}
      BY <2>5, MembersOf
    <3> QED BY <2>2, <2>3, <3>1 DEF Clean
  <2>7. Segments(u) = <<u>>
    BY <2>2, <2>5, <2>6
  <2>8. Segments(t) = Cut(<<u>>, c) /\ <<u>> \in Lists(C)
    BY <2>5, <2>7, SegmentsUnfold
  <2>9. <<u>> = Append(<<>>, u) /\ <<>> \in Seq(Seq(C)) /\ <<t>> = Append(<<>>, t)
    OBVIOUS
  <2>10. Cut(<<u>>, c) = Append(<<>>, t)
    <3>1. PICK p, t0 : p = <<u>> /\ t0 = <<>>
      OBVIOUS
    <3>2. p \in Lists(C) /\ t0 \in Seq(Seq(C)) /\ p = Append(t0, u)
      BY <2>8, <2>9, <3>1
    <3>3. Cut(p, c) = Append(t0, Append(u, c))
      BY <2>6, <3>2, CutType
    <3> QED BY <2>5, <3>1, <3>3
  <2> QED BY <2>2, <2>3, <2>8, <2>9, <2>10
<1>2. x \notin B
  BY <1>1
<1> QED BY <1>2

\* Segments have no slash, and joined they are the text.
LEMMA SegmentsJoin ==
  ASSUME NEW C, Alphabet(C), NEW s \in Seq(C)
  PROVE  Joined(Segments(s)) = s /\ \A y \in ToSet(Segments(s)) : Clean(y)
<1> DEFINE Fine(t) == Joined(Segments(t)) = t /\ \A y \in ToSet(Segments(t)) : Clean(y)
           B == {t \in Seq(C) : ~Fine(t)}
<1>0. PICK S : S = Seq(C)
  OBVIOUS
<1>e. <<>> \in S /\ Clean(<<>>)
  BY <1>0 DEF Clean, ToSet
<1>1. ASSUME B # {} PROVE FALSE
  <2>1. B \in SUBSET Seq(C) /\ \A t : t \in B <=> t \in Seq(C) /\ ~Fine(t)
    OBVIOUS
  <2>2. \A t : Fine(t) <=> Joined(Segments(t)) = t /\ \A y \in ToSet(Segments(t)) : Clean(y)
    OBVIOUS
  <2> HIDE DEF B, Fine
  <2>3. PICK t \in B : t = <<>> \/ \E u \in Seq(C), c \in C : t = Append(u, c) /\ u \notin B
    BY <1>1, <2>1, ShortestBad
  <2>4. CASE t = <<>>
    <3>1. PICK n, p : n = <<>> /\ p = <<n>>
      OBVIOUS
    <3>2. Segments(t) = p /\ p = Append(n, n) /\ n \in Seq(S) /\ n \in S
      BY <1>0, <2>4, <3>1, SegmentsUnfold
    <3>3. Joined(p) = n
      BY <1>0, <3>1, <3>2, JoinedUnfold
    <3>4. ToSet(p) = ToSet(n) \cup {n} /\ ToSet(n) = {}
      <4>1. ToSet(Append(n, n)) = ToSet(n) \cup {n}
        BY <3>2, MembersOf
      <4>2. ToSet(n) = {}
        BY <3>1 DEF ToSet
      <4> QED BY <3>2, <4>1, <4>2
    <3> QED BY <1>e, <2>1, <2>2, <2>3, <2>4, <3>1, <3>2, <3>3, <3>4
  <2>5. CASE \E u \in Seq(C), c \in C : t = Append(u, c) /\ u \notin B
    <3>1. PICK u \in Seq(C), c \in C : t = Append(u, c) /\ u \notin B
      BY <2>5
    <3>2. PICK U : U = Segments(u)
      OBVIOUS
    <3>3. U \in Seq(S) /\ U \in Lists(C) /\ U # <<>>
      BY <1>0, <3>2, SegmentsUnfold DEF Lists
    <3>4. Joined(U) = u /\ \A y \in ToSet(U) : Clean(y)
      BY <2>1, <2>2, <3>1, <3>2
    <3>5. Segments(t) = Cut(U, c)
      BY <3>1, <3>2, SegmentsUnfold
    <3>6. CASE c = "/"
      <4>1. Cut(U, c) = Append(U, <<>>)
        BY <3>6 DEF Cut
      <4>2. PICK n : n = <<>>
        OBVIOUS
      <4>3. Joined(Append(U, n)) = Append(Joined(U), "/") \o n
        BY <1>0, <1>e, <3>3, <4>2, JoinedUnfold
      <4>4. Append(Joined(U), "/") \o n = t
        <5>1. t \in Seq(C)
          BY <2>1, <2>3
        <5> QED BY <3>1, <3>4, <3>6, <4>2, <5>1, ConcatEmptySeq
      <4>5. ToSet(Append(U, n)) = ToSet(U) \cup {n}
        BY <1>e, <3>3, <4>2, MembersOf
      <4> QED BY <1>e, <2>1, <2>2, <2>3, <3>4, <3>5, <4>1, <4>2, <4>3, <4>4, <4>5
    <3>7. CASE c # "/"
      <4>1. PICK v \in Seq(S), y \in S : U = Append(v, y)
        BY <3>3, SequenceEmptyOrAppend
      <4>2. PICK z : z = Append(y, c)
        OBVIOUS
      <4>3. z \in S
        BY <1>0, <4>1, <4>2, AppendProperties
      <4>4. Segments(t) = Append(v, z)
        <5>1. v \in Seq(Seq(C)) /\ y \in Seq(C)
          BY <1>0, <4>1
        <5>2. Cut(U, c) = Append(v, Append(y, c))
          <6>1. Cut(Append(v, y), c) = Append(v, Append(y, c))
            BY <3>1, <3>7, <5>1, CutLast
          <6> QED BY <4>1, <6>1
        <5> QED BY <3>5, <4>2, <5>2
      <4>5. /\ Joined(U) = IF v = <<>> THEN y ELSE Append(Joined(v), "/") \o y
            /\ Joined(Append(v, z)) = IF v = <<>> THEN z ELSE Append(Joined(v), "/") \o z
            /\ Joined(v) \in Seq(C)
        <5>1. v \in Seq(Seq(C)) /\ y \in Seq(C) /\ z \in Seq(C)
          BY <1>0, <4>1, <4>3
        <5>2. /\ Joined(Append(v, y)) = IF v = <<>> THEN y ELSE Append(Joined(v), "/") \o y
              /\ Joined(v) \in Seq(C)
          BY <5>1, JoinedUnfold, SMTT(30)
        <5>3. Joined(Append(v, z)) = IF v = <<>> THEN z ELSE Append(Joined(v), "/") \o z
          BY <5>1, JoinedUnfold, SMTT(30)
        <5> QED BY <4>1, <5>2, <5>3
      <4>6. PICK j : j = Append(Joined(v), "/")
        OBVIOUS
      <4>7. j \in Seq(C)
        BY <4>5, <4>6, AppendProperties DEF Alphabet
      <4>8. j \o z = Append(j \o y, c)
        BY <1>0, <4>1, <4>2, <4>7, ConcatAppend
      <4>9. Joined(Append(v, z)) = t
        BY <3>1, <3>4, <4>2, <4>5, <4>6, <4>8
      <4>10. ToSet(U) = ToSet(v) \cup {y} /\ ToSet(Append(v, z)) = ToSet(v) \cup {z}
        BY <4>1, <4>3, MembersOf
      <4>11. Clean(z)
        <5>1. ToSet(z) = ToSet(y) \cup {c}
          BY <1>0, <4>1, <4>2, MembersOf
        <5> QED BY <3>4, <3>7, <4>10, <5>1 DEF Clean
      <4> QED BY <2>1, <2>2, <2>3, <3>4, <4>4, <4>9, <4>10, <4>11
    <3> QED BY <3>6, <3>7
  <2> QED BY <2>3, <2>4, <2>5
<1>2. s \notin B
  BY <1>1
<1> QED BY <1>2

\* A list of texts without a slash is the segments of what it is joined to.
LEMMA SegmentsOfJoined ==
  ASSUME NEW C, Alphabet(C), NEW p \in Lists(C), \A y \in ToSet(p) : Clean(y)
  PROVE  Segments(Joined(p)) = p
<1>0. PICK S : S = Seq(C)
  OBVIOUS
<1> DEFINE Slashless(q) == \A y \in ToSet(q) : Clean(y)
           B == {q \in Seq(S) : q # <<>> /\ Slashless(q) /\ Segments(Joined(q)) # q}
<1>1. ASSUME B # {} PROVE FALSE
  <2>1. /\ B \in SUBSET Seq(S)
        /\ \A q : q \in B <=> q \in Seq(S) /\ q # <<>> /\ Slashless(q) /\ Segments(Joined(q)) # q
    OBVIOUS
  <2>2. \A q : Slashless(q) <=> \A y \in ToSet(q) : Clean(y)
    OBVIOUS
  <2> HIDE DEF B, Slashless
  <2>3. PICK q \in B : q = <<>> \/ \E u \in Seq(S), x \in S : q = Append(u, x) /\ u \notin B
    BY <1>1, <2>1, ShortestBad
  <2>4. PICK u \in Seq(S), x \in S : q = Append(u, x) /\ u \notin B
    BY <2>1, <2>3
  <2>5. ToSet(q) = ToSet(u) \cup {x}
    BY <2>4, MembersOf
  <2>6. Slashless(u) /\ Clean(x)
    BY <2>1, <2>2, <2>3, <2>5
  <2>7. Segments(x) = <<x>>
    BY <1>0, <2>4, <2>6, SegmentsOfClean
  <2>8. Joined(q) = (IF u = <<>> THEN x ELSE Append(Joined(u), "/") \o x) /\ Joined(u) \in Seq(C)
    <3>1. u \in Seq(Seq(C)) /\ x \in Seq(C)
      BY <1>0, <2>4
    <3>2. /\ Joined(Append(u, x)) = IF u = <<>> THEN x ELSE Append(Joined(u), "/") \o x
          /\ Joined(u) \in Seq(C)
      BY <3>1, JoinedUnfold, SMTT(30)
    <3> QED BY <2>4, <3>2
  <2>9. CASE u = <<>>
    <3>1. Append(<<>>, x) = <<x>>
      OBVIOUS
    <3> QED BY <2>1, <2>3, <2>4, <2>7, <2>8, <2>9, <3>1
  <2>10. CASE u # <<>>
    <3>1. Segments(Joined(u)) = u
      BY <2>1, <2>4, <2>6, <2>10
    <3>2. Segments(Append(Joined(u), "/") \o x) = Segments(Joined(u)) \o Segments(x)
      <4>1. PICK j : j = Joined(u)
        OBVIOUS
      <4>2. Segments(Append(j, "/") \o x) = Segments(j) \o Segments(x)
        BY <1>0, <2>4, <2>8, <4>1, SegmentsConcat
      <4> QED BY <4>1, <4>2
    <3>3. u \o <<x>> = Append(u, x)
      BY <2>4, AppendIsConcat
    <3> QED BY <2>1, <2>3, <2>4, <2>7, <2>8, <2>10, <3>1, <3>2, <3>3
  <2> QED BY <2>9, <2>10
<1>2. p \in Seq(S) /\ p # <<>> /\ p \notin B
  BY <1>0, <1>1 DEF Lists
<1> QED BY <1>2

-----------------------------------------------------------------------------
(* Canonical escapes.                                                      *)

\* The digits of an escape that every pass leaves.
Fine(d, e) == UpperOf[d] = d /\ UpperOf[e] = e /\ OctetOf[<<d, e>>] \notin Unreserved

\* Every escape in s is canonical.
FineEscapes(s) == \A i \in 1 .. Len(s) : Escape(s, i) => Fine(s[i + 1], s[i + 2])

\* A character more completes one escape at most.
LEMMA FineAppend ==
  ASSUME NEW C, NEW q \in Seq(C), NEW c \in C
  PROVE  /\ FineEscapes(Append(q, c)) => FineEscapes(q)
         /\ FineEscapes(q)
              /\ (\A u \in Seq(C), b \in C, a \in C :
                    q = Append(Append(u, b), a) /\ b = "%" /\ a \in Hex /\ c \in Hex => Fine(a, c))
              => FineEscapes(Append(q, c))
<1>1. PICK n \in Nat : n = Len(q)
  BY LenProperties
<1>2. PICK m \in Nat : m = n + 1
  OBVIOUS
<1>3. PICK x : x = Append(q, c)
  OBVIOUS
<1>4. Len(x) = m /\ x[m] = c /\ \A i \in 1 .. n : x[i] = q[i]
  BY <1>1, <1>2, <1>3, AppendProperties
<1>5. ASSUME NEW i \in 1 .. n, i + 2 <= n
      PROVE  x[i] = q[i] /\ x[i + 1] = q[i + 1] /\ x[i + 2] = q[i + 2] /\ i \in 1 .. m /\ i + 2 <= m
  <2>1. i + 1 \in 1 .. n /\ i + 2 \in 1 .. n
    BY <1>5
  <2> QED BY <1>2, <1>4, <1>5, <2>1
<1>6. ASSUME FineEscapes(x) PROVE FineEscapes(q)
  <2> SUFFICES ASSUME NEW i \in 1 .. n, Escape(q, i) PROVE Fine(q[i + 1], q[i + 2])
    BY <1>1 DEF FineEscapes
  <2>1. i + 2 <= n
    BY <1>1 DEF Escape
  <2>2. Escape(x, i)
    BY <1>4, <1>5, <2>1 DEF Escape
  <2> QED BY <1>4, <1>5, <1>6, <2>1, <2>2 DEF FineEscapes
<1>7. ASSUME FineEscapes(q),
             \A u \in Seq(C), b \in C, a \in C :
               q = Append(Append(u, b), a) /\ b = "%" /\ a \in Hex /\ c \in Hex => Fine(a, c)
      PROVE  FineEscapes(x)
  <2> SUFFICES ASSUME NEW i \in 1 .. m, Escape(x, i) PROVE Fine(x[i + 1], x[i + 2])
    BY <1>4 DEF FineEscapes
  <2>1. i + 2 <= m
    BY <1>4 DEF Escape
  <2>2. CASE i + 2 <= n
    <3>1. i \in 1 .. n
      BY <2>2
    <3>2. Escape(q, i)
      BY <1>1, <1>5, <2>2, <3>1 DEF Escape
    <3> QED BY <1>1, <1>5, <1>7, <2>2, <3>1, <3>2 DEF FineEscapes
  <2>3. CASE i + 2 = m
    <3>1. i \in 1 .. n /\ i + 1 = n /\ n \in 1 .. n
      BY <1>2, <2>3
    <3>2. q[i] = "%" /\ q[n] \in Hex /\ c \in Hex /\ x[i + 1] = q[n] /\ x[i + 2] = c
      BY <1>4, <2>3, <3>1 DEF Escape
    <3>3. q # <<>>
      BY <1>1, <3>1
    <3>4. PICK r \in Seq(C), a \in C : q = Append(r, a)
      BY <3>3, SequenceEmptyOrAppend
    <3>5. Len(r) = i /\ q[n] = a /\ \A j \in 1 .. i : q[j] = r[j]
      <4>1. PICK k \in Nat : k = Len(r)
        BY LenProperties
      <4>2. Len(q) = k + 1 /\ q[k + 1] = a /\ \A j \in 1 .. k : q[j] = r[j]
        BY <3>4, <4>1, AppendProperties
      <4>3. k = i /\ k + 1 = n
        BY <1>1, <3>1, <4>1, <4>2
      <4> QED BY <4>1, <4>2, <4>3
    <3>6. r # <<>>
      BY <3>5
    <3>7. PICK u \in Seq(C), b \in C : r = Append(u, b)
      BY <3>6, SequenceEmptyOrAppend
    <3>8. r[i] = b
      <4>1. PICK k \in Nat : k = Len(u)
        BY LenProperties
      <4>2. Len(r) = k + 1 /\ r[k + 1] = b
        BY <3>7, <4>1, AppendProperties
      <4> QED BY <3>5, <4>2
    <3>9. b = "%" /\ a \in Hex
      BY <3>2, <3>5, <3>8
    <3>10. Fine(a, c)
      BY <1>7, <3>2, <3>4, <3>7, <3>9
    <3> QED BY <3>2, <3>5, <3>10
  <2> QED BY <1>2, <2>1, <2>2, <2>3
<1> QED BY <1>3, <1>6, <1>7

\* The escape that it may complete.
LEMMA FineLast ==
  ASSUME NEW C, NEW u \in Seq(C), NEW b \in C, NEW a \in C, NEW c \in C,
         b = "%", a \in Hex, c \in Hex, FineEscapes(Append(Append(Append(u, b), a), c))
  PROVE  Fine(a, c)
<1>1. PICK n \in Nat : n = Len(u)
  BY LenProperties
<1>2. PICK v, w, x : v = Append(u, b) /\ w = Append(v, a) /\ x = Append(w, c)
  OBVIOUS
<1>3. v \in Seq(C) /\ Len(v) = n + 1 /\ v[n + 1] = b
  BY <1>1, <1>2, AppendProperties
<1>4. w \in Seq(C) /\ Len(w) = n + 2 /\ w[n + 2] = a /\ w[n + 1] = b
  <2>1. PICK k \in Nat : k = n + 1
    OBVIOUS
  <2>2. w \in Seq(C) /\ Len(w) = k + 1 /\ w[k + 1] = a /\ \A i \in 1 .. k : w[i] = v[i]
    BY <1>2, <1>3, <2>1, AppendProperties
  <2>3. k \in 1 .. k /\ k + 1 = n + 2
    BY <2>1
  <2> QED BY <1>3, <2>1, <2>2, <2>3
<1>5. Len(x) = n + 3 /\ x[n + 3] = c /\ x[n + 2] = a /\ x[n + 1] = b
  <2>1. PICK k \in Nat : k = n + 2
    OBVIOUS
  <2>2. Len(x) = k + 1 /\ x[k + 1] = c /\ \A i \in 1 .. k : x[i] = w[i]
    BY <1>2, <1>4, <2>1, AppendProperties
  <2>3. k \in 1 .. k /\ k + 1 = n + 3 /\ n + 1 \in 1 .. k
    BY <2>1
  <2> QED BY <1>4, <2>1, <2>2, <2>3
<1>6. PICK i : i = n + 1
  OBVIOUS
<1>7. i \in 1 .. Len(x) /\ i + 1 = n + 2 /\ i + 2 = n + 3 /\ i + 2 <= Len(x)
  BY <1>5, <1>6
<1>8. Escape(x, i)
  BY <1>5, <1>6, <1>7 DEF Escape
<1> QED BY <1>2, <1>5, <1>7, <1>8 DEF FineEscapes

\* No escape reaches across a slash.
LEMMA FineConcat ==
  ASSUME NEW C, Alphabet(C), NEW a \in Seq(C), NEW b \in Seq(C)
  PROVE  FineEscapes(Append(a, "/") \o b) <=> FineEscapes(a) /\ FineEscapes(b)
<1>1. PICK n, k \in Nat : n = Len(a) /\ k = Len(b) /\ n \in Nat
  BY LenProperties
<1>2. PICK u, x : u = Append(a, "/") /\ x = u \o b
  OBVIOUS
<1>3. u \in Seq(C) /\ Len(u) = n + 1 /\ u[n + 1] = "/" /\ \A i \in 1 .. n : u[i] = a[i]
  BY <1>1, <1>2, AppendProperties DEF Alphabet
<1>4. /\ Len(x) = n + 1 + k
      /\ \A i \in 1 .. n + 1 + k : x[i] = IF i <= n + 1 THEN u[i] ELSE b[i - (n + 1)]
  <2>1. /\ Len(x) = Len(u) + Len(b)
        /\ \A i \in 1 .. Len(u) + Len(b) : x[i] = IF i <= Len(u) THEN u[i] ELSE b[i - Len(u)]
    BY <1>2, <1>3, ConcatProperties
  <2> QED BY <1>1, <1>3, <2>1
<1>5. \A i \in 1 .. n : x[i] = a[i]
  BY <1>1, <1>3, <1>4
<1>6. x[n + 1] = "/"
  BY <1>1, <1>3, <1>4
<1>7. ASSUME NEW j \in 1 .. k PROVE x[n + 1 + j] = b[j]
  <2>1. n + 1 + j \in 1 .. n + 1 + k /\ ~(n + 1 + j <= n + 1) /\ n + 1 + j - (n + 1) = j
    BY <1>1
  <2> QED BY <1>4, <2>1
<1>8. "/" \notin Hex
  BY QuoteType
<1>9. ASSUME NEW i \in 1 .. n, Escape(a, i)
      PROVE  Escape(x, i) /\ a[i + 1] = x[i + 1] /\ a[i + 2] = x[i + 2]
  <2>1. i + 1 \in 1 .. n /\ i + 2 \in 1 .. n /\ i + 2 <= n + 1 + k
    BY <1>1, <1>9 DEF Escape
  <2> QED BY <1>1, <1>4, <1>5, <1>9, <2>1 DEF Escape
<1>10. ASSUME NEW j \in 1 .. k, Escape(b, j)
       PROVE  Escape(x, n + 1 + j) /\ b[j + 1] = x[n + 1 + j + 1] /\ b[j + 2] = x[n + 1 + j + 2]
  <2>1. j + 1 \in 1 .. k /\ j + 2 \in 1 .. k
    BY <1>1, <1>10 DEF Escape
  <2>2. /\ n + 1 + j + 1 = n + 1 + (j + 1) /\ n + 1 + j + 2 = n + 1 + (j + 2)
        /\ n + 1 + j + 2 <= n + 1 + k
    BY <1>1, <2>1
  <2> QED BY <1>1, <1>4, <1>7, <1>10, <2>1, <2>2 DEF Escape
<1>11. ASSUME NEW i \in 1 .. n + 1 + k, Escape(x, i)
       PROVE  \/ i \in 1 .. n /\ Escape(a, i) /\ a[i + 1] = x[i + 1] /\ a[i + 2] = x[i + 2]
              \/ \E j \in 1 .. k : i = n + 1 + j /\ Escape(b, j)
                                   /\ b[j + 1] = x[i + 1] /\ b[j + 2] = x[i + 2]
  <2>1. i + 2 <= n + 1 + k /\ x[i] = "%" /\ x[i + 1] \in Hex /\ x[i + 2] \in Hex
    BY <1>4, <1>11 DEF Escape
  <2>2. i # n + 1 /\ i + 1 # n + 1 /\ i + 2 # n + 1
    BY <1>6, <1>8, <2>1
  <2>3. CASE i + 2 <= n
    <3>1. i \in 1 .. n /\ i + 1 \in 1 .. n /\ i + 2 \in 1 .. n
      BY <1>1, <2>3
    <3> QED BY <1>1, <1>5, <2>1, <2>3, <3>1 DEF Escape
  <2>4. CASE i > n + 1
    <3>1. PICK j \in 1 .. k : i = n + 1 + j
      <4>1. i - (n + 1) \in 1 .. k /\ i = n + 1 + (i - (n + 1))
        BY <1>1, <2>4
      <4> QED BY <4>1
    <3>2. j + 1 \in 1 .. k /\ j + 2 \in 1 .. k
      BY <1>1, <2>1, <3>1
    <3>3. i + 1 = n + 1 + (j + 1) /\ i + 2 = n + 1 + (j + 2)
      BY <1>1, <3>1
    <3>4. Escape(b, j) /\ b[j + 1] = x[i + 1] /\ b[j + 2] = x[i + 2]
      BY <1>1, <1>7, <2>1, <3>1, <3>2, <3>3 DEF Escape
    <3> QED BY <3>1, <3>4
  <2> QED BY <1>1, <2>2, <2>3, <2>4
<1>12. FineEscapes(x) => FineEscapes(a) /\ FineEscapes(b)
  <2> SUFFICES ASSUME FineEscapes(x) PROVE FineEscapes(a) /\ FineEscapes(b)
    OBVIOUS
  <2>1. FineEscapes(a)
    <3>1. \A i \in 1 .. n : i \in 1 .. n + 1 + k
      BY <1>1
    <3> QED BY <1>1, <1>4, <1>9, <3>1 DEF FineEscapes
  <2>2. FineEscapes(b)
    <3>1. \A j \in 1 .. k : n + 1 + j \in 1 .. n + 1 + k
      BY <1>1
    <3>2. ASSUME NEW j \in 1 .. k, Escape(b, j) PROVE Fine(b[j + 1], b[j + 2])
      <4>1. n + 1 + j \in 1 .. Len(x) /\ Escape(x, n + 1 + j)
        BY <1>4, <1>10, <3>1, <3>2
      <4>2. Fine(x[n + 1 + j + 1], x[n + 1 + j + 2])
        BY <4>1 DEF FineEscapes
      <4> QED BY <1>10, <3>2, <4>2
    <3> QED BY <1>1, <3>2 DEF FineEscapes
  <2> QED BY <2>1, <2>2
<1>13. FineEscapes(a) /\ FineEscapes(b) => FineEscapes(x)
  BY <1>1, <1>4, <1>11 DEF FineEscapes
<1> QED BY <1>2, <1>12, <1>13

\* So a list joined has the escapes of its members.
LEMMA FineJoined ==
  ASSUME NEW C, Alphabet(C), NEW p \in Seq(Seq(C))
  PROVE  FineEscapes(Joined(p)) <=> \A y \in ToSet(p) : FineEscapes(y)
<1>0. PICK S : S = Seq(C)
  OBVIOUS
<1>e. FineEscapes(<<>>) /\ ToSet(<<>>) = {} /\ Joined(<<>>) = <<>>
  <2>1. FineEscapes(<<>>)
    BY DEF FineEscapes
  <2>2. ToSet(<<>>) = {}
    BY DEF ToSet
  <2>3. Joined(<<>>) = <<>>
    BY EmptySeq, JoinedUnfold
  <2> QED BY <2>1, <2>2, <2>3
<1> DEFINE Holds(q) == FineEscapes(Joined(q)) <=> \A y \in ToSet(q) : FineEscapes(y)
           B == {q \in Seq(S) : ~Holds(q)}
<1>1. ASSUME B # {} PROVE FALSE
  <2>1. B \in SUBSET Seq(S) /\ \A q : q \in B <=> q \in Seq(S) /\ ~Holds(q)
    OBVIOUS
  <2>2. \A q : Holds(q) <=> (FineEscapes(Joined(q)) <=> \A y \in ToSet(q) : FineEscapes(y))
    OBVIOUS
  <2> HIDE DEF B, Holds
  <2>3. PICK q \in B : q = <<>> \/ \E u \in Seq(S), x \in S : q = Append(u, x) /\ u \notin B
    BY <1>1, <2>1, ShortestBad
  <2>4. q # <<>>
    BY <1>e, <2>1, <2>2, <2>3
  <2>5. PICK u \in Seq(S), x \in S : q = Append(u, x) /\ u \notin B
    BY <2>3, <2>4
  <2>6. ToSet(q) = ToSet(u) \cup {x}
    BY <2>5, MembersOf
  <2>7. /\ Joined(Append(u, x)) = IF u = <<>> THEN x ELSE Append(Joined(u), "/") \o x
        /\ Joined(u) \in Seq(C)
    <3>1. u \in Seq(Seq(C)) /\ x \in Seq(C)
      BY <1>0, <2>5
    <3>2. Joined(Append(u, x)) = IF u = <<>> THEN x ELSE Append(Joined(u), "/") \o x
      BY <3>1, JoinedUnfold, SMTT(30)
    <3>3. Joined(u) \in Seq(C)
      BY <3>1, JoinedUnfold, SMTT(30)
    <3> QED BY <3>2, <3>3
  <2>8. FineEscapes(Joined(u)) <=> \A y \in ToSet(u) : FineEscapes(y)
    BY <2>1, <2>2, <2>5
  <2>9. CASE u = <<>>
    BY <1>e, <2>1, <2>2, <2>3, <2>5, <2>6, <2>7, <2>9
  <2>10. CASE u # <<>>
    <3>1. FineEscapes(Append(Joined(u), "/") \o x) <=> FineEscapes(Joined(u)) /\ FineEscapes(x)
      <4>1. PICK j : j = Joined(u)
        OBVIOUS
      <4>2. FineEscapes(Append(j, "/") \o x) <=> FineEscapes(j) /\ FineEscapes(x)
        BY <1>0, <2>5, <2>7, <4>1, FineConcat
      <4> QED BY <4>1, <4>2
    <3> QED BY <2>1, <2>2, <2>3, <2>5, <2>6, <2>7, <2>8, <2>10, <3>1
  <2> QED BY <2>9, <2>10
<1>2. p \in Seq(S) /\ p \notin B
  BY <1>0, <1>1
<1> QED BY <1>2

-----------------------------------------------------------------------------
(* quote().                                                                *)

\* A character more is itself, or its escape, character by character.
LEMMA QuotedSafe ==
  ASSUME NEW C, Alphabet(C), NEW s \in Seq(C), NEW c \in C, c \notin Unsafe
  PROVE  Quoted(Append(s, c)) = Append(Quoted(s), c)
<1>1. PICK q : q = Quoted(s)
  OBVIOUS
<1>2. q \in Seq(C) /\ Quoted(Append(s, c)) = q \o Mark(c)
  BY <1>1, QuotedUnfold
<1>3. Mark(c) = <<c>>
  BY MarkIs
<1> QED BY <1>1, <1>2, <1>3, AppendIsConcat

\* An unsafe one is an escape that is canonical.
LEMMA QuotedUnsafe ==
  ASSUME NEW C, Alphabet(C), NEW s \in Seq(C), NEW c \in C, c \in Unsafe
  PROVE  \E d, e \in Hex : /\ Quoted(Append(s, c)) = Append(Append(Append(Quoted(s), "%"), d), e)
                           /\ Fine(d, e) /\ {"%", d, e} \subseteq C
<1>1. PICK q : q = Quoted(s)
  OBVIOUS
<1>2. q \in Seq(C) /\ Quoted(Append(s, c)) = q \o Mark(c)
  BY <1>1, QuotedUnfold
<1>3. PICK d, e \in Hex : /\ Mark(c) = <<"%", d, e>>
                          /\ UpperOf[d] = d /\ UpperOf[e] = e
                          /\ OctetOf[<<d, e>>] \notin Unreserved
  BY MarkIs
<1>4. "%" \in C /\ d \in C /\ e \in C
  BY DEF Alphabet
<1>5. PICK m, n : m = <<"%">> /\ n = <<"%", d>>
  OBVIOUS
<1>6. m \in Seq(C) /\ n \in Seq(C) /\ n = Append(m, d) /\ <<"%", d, e>> = Append(n, e)
  BY <1>4, <1>5
<1>7. q \o m = Append(q, "%")
  BY <1>2, <1>4, <1>5, AppendIsConcat
<1>8. q \o n = Append(q \o m, d)
  BY <1>2, <1>4, <1>6, ConcatAppend
<1>9. q \o Append(n, e) = Append(q \o n, e)
  BY <1>2, <1>4, <1>6, ConcatAppend
<1>10. q \o Mark(c) = Append(Append(Append(q, "%"), d), e)
  BY <1>3, <1>6, <1>7, <1>8, <1>9
<1>11. Fine(d, e)
  BY <1>3 DEF Fine
<1>12. Quoted(Append(s, c)) = Append(Append(Append(Quoted(s), "%"), d), e)
  BY <1>1, <1>2, <1>10
<1> QED BY <1>4, <1>11, <1>12

\* It escapes what is unsafe and nothing else.
LEMMA QuotedIs ==
  ASSUME NEW C, Alphabet(C), NEW s \in Seq(C)
  PROVE  /\ ToSet(Quoted(s)) \cap Unsafe = {}
         /\ ToSet(s) \cap Unsafe = {} => Quoted(s) = s
         /\ Quoted(s) = s \/ "%" \in ToSet(Quoted(s))
<1> DEFINE Holds(t) == /\ ToSet(Quoted(t)) \cap Unsafe = {}
                       /\ ToSet(t) \cap Unsafe = {} => Quoted(t) = t
                       /\ Quoted(t) = t \/ "%" \in ToSet(Quoted(t))
           B == {t \in Seq(C) : ~Holds(t)}
<1>1. ASSUME B # {} PROVE FALSE
  <2>1. B \in SUBSET Seq(C) /\ \A t : t \in B <=> t \in Seq(C) /\ ~Holds(t)
    OBVIOUS
  <2>2. \A t : Holds(t) <=> /\ ToSet(Quoted(t)) \cap Unsafe = {}
                            /\ ToSet(t) \cap Unsafe = {} => Quoted(t) = t
                            /\ Quoted(t) = t \/ "%" \in ToSet(Quoted(t))
    OBVIOUS
  <2> HIDE DEF B, Holds
  <2>3. PICK t \in B : t = <<>> \/ \E u \in Seq(C), c \in C : t = Append(u, c) /\ u \notin B
    BY <1>1, <2>1, ShortestBad
  <2>4. t # <<>>
    <3>1. PICK n, c : n = <<>> /\ c = "%"
      OBVIOUS
    <3>2. n \in Seq(C) /\ c \in C
      BY <3>1 DEF Alphabet
    <3>3. Quoted(n) = n
      BY <3>1, <3>2, QuotedUnfold
    <3>4. ToSet(n) = {}
      BY <3>1 DEF ToSet
    <3>5. Holds(n)
      BY <2>2, <3>3, <3>4
    <3> QED BY <2>1, <2>3, <3>1, <3>5
  <2>5. PICK u \in Seq(C), c \in C : t = Append(u, c) /\ u \notin B
    BY <2>3, <2>4
  <2>6. /\ ToSet(Quoted(u)) \cap Unsafe = {}
        /\ ToSet(u) \cap Unsafe = {} => Quoted(u) = u
        /\ Quoted(u) = u \/ "%" \in ToSet(Quoted(u))
    BY <2>1, <2>2, <2>5
  <2>7. PICK q : q = Quoted(u)
    OBVIOUS
  <2>8. q \in Seq(C) /\ ToSet(t) = ToSet(u) \cup {c}
    BY <2>5, <2>7, MembersOf, QuotedUnfold
  <2>9. CASE c \notin Unsafe
    <3>1. Quoted(t) = Append(q, c)
      BY <2>5, <2>7, <2>9, QuotedSafe
    <3>2. ToSet(Quoted(t)) = ToSet(q) \cup {c}
      BY <2>8, <3>1, MembersOf
    <3>3. Quoted(u) = u => Quoted(t) = t
      BY <2>5, <2>7, <3>1
    <3>4. Holds(t)
      BY <2>2, <2>6, <2>7, <2>8, <2>9, <3>2, <3>3
    <3> QED BY <2>1, <2>3, <3>4
  <2>10. CASE c \in Unsafe
    <3>0. \E d, e \in Hex : /\ Quoted(Append(u, c)) = Append(Append(Append(Quoted(u), "%"), d), e)
                            /\ Fine(d, e) /\ {"%", d, e} \subseteq C
      BY <2>5, <2>10, QuotedUnsafe
    <3>1. PICK d, e \in Hex : Quoted(t) = Append(Append(Append(q, "%"), d), e)
      BY <2>5, <2>7, <3>0
    <3>2. PICK v, w : v = Append(q, "%") /\ w = Append(v, d)
      OBVIOUS
    <3>3. "%" \in C /\ d \in C /\ e \in C
      BY DEF Alphabet
    <3>4. v \in Seq(C) /\ ToSet(v) = ToSet(q) \cup {"%"}
      BY <2>8, <3>2, <3>3, MembersOf, AppendProperties
    <3>a. w \in Seq(C)
      BY <3>2, <3>3, <3>4, AppendProperties
    <3>b. ToSet(Append(v, d)) = ToSet(v) \cup {d}
      BY <3>3, <3>4, MembersOf
    <3>5. w \in Seq(C) /\ ToSet(w) = ToSet(v) \cup {d}
      BY <3>2, <3>a, <3>b
    <3>6. ToSet(Append(w, e)) = ToSet(w) \cup {e}
      BY <3>3, <3>5, MembersOf
    <3>7. ToSet(Quoted(t)) = ToSet(q) \cup {"%", d, e}
      BY <3>1, <3>2, <3>4, <3>5, <3>6
    <3>8. {"%", d, e} \cap Unsafe = {}
      BY QuoteType
    <3> QED BY <2>1, <2>2, <2>3, <2>6, <2>7, <2>8, <2>10, <3>7, <3>8
  <2> QED BY <2>9, <2>10
<1>2. s \notin B
  BY <1>1
<1> QED BY <1>2

\* Its escapes are canonical and it completes none.
LEMMA QuotedFine ==
  ASSUME NEW C, Alphabet(C), NEW s \in Seq(C), FineEscapes(s)
  PROVE  FineEscapes(Quoted(s))
<1>p. "%" \notin Hex
  BY PercentType
<1> DEFINE B == {t \in Seq(C) : FineEscapes(t) /\ ~FineEscapes(Quoted(t))}
<1>1. ASSUME B # {} PROVE FALSE
  <2>1. /\ B \in SUBSET Seq(C)
        /\ \A t : t \in B <=> t \in Seq(C) /\ FineEscapes(t) /\ ~FineEscapes(Quoted(t))
    OBVIOUS
  <2> HIDE DEF B
  <2>3. PICK t \in B : t = <<>> \/ \E u \in Seq(C), c \in C : t = Append(u, c) /\ u \notin B
    BY <1>1, <2>1, ShortestBad
  <2>e. Quoted(<<>>) = <<>>
    <3>1. PICK n, c : n = <<>> /\ c = "%"
      OBVIOUS
    <3>2. n \in Seq(C) /\ c \in C
      BY <3>1 DEF Alphabet
    <3> QED BY <3>2, QuotedUnfold
  <2>4. t # <<>>
    BY <2>1, <2>3, <2>e
  <2>5. PICK u \in Seq(C), c \in C : t = Append(u, c) /\ u \notin B
    BY <2>3, <2>4
  <2>6. FineEscapes(t) /\ FineEscapes(u)
    BY <2>1, <2>3, <2>5, FineAppend
  <2>7. PICK q : q = Quoted(u)
    OBVIOUS
  <2>8. q \in Seq(C) /\ FineEscapes(q)
    BY <2>1, <2>5, <2>6, <2>7, QuotedUnfold
  <2>9. CASE c \notin Unsafe
    <3>1. Quoted(t) = Append(q, c)
      BY <2>5, <2>7, <2>9, QuotedSafe
    <3>2. ASSUME NEW u1 \in Seq(C), NEW b \in C, NEW a \in C, q = Append(Append(u1, b), a),
                 b = "%", a \in Hex, c \in Hex
          PROVE  Fine(a, c)
      <4>1. PICK r : r = Append(u1, b)
        OBVIOUS
      <4>2. r \in Seq(C) /\ r # <<>> /\ q = Append(r, a) /\ q # <<>>
        BY <3>2, <4>1, AppendProperties
      <4>3. PICK v \in Seq(C), y \in C : u = Append(v, y)
        <5>1. u # <<>>
          BY <2>7, <2>e, <4>2
        <5> QED BY <5>1, SequenceEmptyOrAppend
      <4>4. PICK z : z = Quoted(v)
        OBVIOUS
      <4>5. z \in Seq(C)
        BY <4>3, <4>4, QuotedUnfold
      <4>6. y \notin Unsafe
        <5> SUFFICES ASSUME y \in Unsafe PROVE FALSE
          OBVIOUS
        <5>0. \E d, e \in Hex : /\ Quoted(Append(v, y)) = Append(Append(Append(Quoted(v), "%"), d), e)
                                /\ Fine(d, e) /\ {"%", d, e} \subseteq C
          BY <4>3, QuotedUnsafe
        <5>1. PICK d, e \in Hex : q = Append(Append(Append(z, "%"), d), e)
          BY <2>7, <4>3, <4>4, <5>0
        <5>2. PICK v1, w1 : v1 = Append(z, "%") /\ w1 = Append(v1, d)
          OBVIOUS
        <5>3. "%" \in C /\ d \in C /\ e \in C
          BY DEF Alphabet
        <5>4. v1 \in Seq(C) /\ w1 \in Seq(C)
          BY <4>5, <5>2, <5>3, AppendProperties
        <5>5. Append(w1, e) = Append(r, a)
          BY <4>2, <5>1, <5>2
        <5>6. w1 = r
          BY <4>2, <5>3, <5>4, <5>5, AppendInjective
        <5>7. d = b
          BY <4>1, <5>2, <5>3, <5>4, <5>6, AppendInjective
        <5> QED BY <1>p, <3>2, <5>7
      <4>7. r = z /\ y = a
        <5>1. Append(z, y) = Append(r, a)
          BY <2>7, <4>2, <4>3, <4>4, <4>6, QuotedSafe
        <5> QED BY <4>2, <4>3, <4>5, <5>1, AppendInjective
      <4>8. PICK v2 \in Seq(C), x \in C : v = Append(v2, x)
        <5>1. v # <<>>
          BY <2>e, <4>2, <4>4, <4>7
        <5> QED BY <5>1, SequenceEmptyOrAppend
      <4>9. PICK z2 : z2 = Quoted(v2)
        OBVIOUS
      <4>10. z2 \in Seq(C)
        BY <4>8, <4>9, QuotedUnfold
      <4>11. x \notin Unsafe
        <5> SUFFICES ASSUME x \in Unsafe PROVE FALSE
          OBVIOUS
        <5>0. \E d, e \in Hex : /\ Quoted(Append(v2, x)) = Append(Append(Append(Quoted(v2), "%"), d), e)
                                /\ Fine(d, e) /\ {"%", d, e} \subseteq C
          BY <4>8, QuotedUnsafe
        <5>1. PICK d, e \in Hex : z = Append(Append(Append(z2, "%"), d), e)
          BY <4>4, <4>8, <4>9, <5>0
        <5>2. PICK w1 : w1 = Append(Append(z2, "%"), d)
          OBVIOUS
        <5>3. "%" \in C /\ d \in C /\ e \in C
          BY DEF Alphabet
        <5>4. w1 \in Seq(C)
          BY <4>10, <5>2, <5>3, AppendProperties
        <5>5. Append(w1, e) = Append(u1, b)
          BY <4>1, <4>7, <5>1, <5>2
        <5>6. e = b
          BY <5>3, <5>4, <5>5, AppendInjective
        <5> QED BY <1>p, <3>2, <5>6
      <4>12. x = b
        <5>1. z = Append(z2, x)
          BY <4>4, <4>8, <4>9, <4>11, QuotedSafe
        <5>2. Append(z2, x) = Append(u1, b)
          BY <4>1, <4>7, <5>1
        <5> QED BY <4>8, <4>10, <5>2, AppendInjective
      <4>13. t = Append(Append(Append(v2, x), a), c)
        BY <2>5, <4>3, <4>7, <4>8
      <4> QED BY <2>6, <3>2, <4>12, <4>13, FineLast
    <3>3. FineEscapes(Append(q, c))
      BY <2>8, <3>2, FineAppend
    <3> QED BY <2>1, <2>3, <3>1, <3>3
  <2>10. CASE c \in Unsafe
    <3>0. \E d, e \in Hex : /\ Quoted(Append(u, c)) = Append(Append(Append(Quoted(u), "%"), d), e)
                            /\ Fine(d, e) /\ {"%", d, e} \subseteq C
      BY <2>5, <2>10, QuotedUnsafe
    <3>1. PICK d, e \in Hex : Quoted(t) = Append(Append(Append(q, "%"), d), e) /\ Fine(d, e)
      BY <2>5, <2>7, <3>0
    <3>2. PICK v, w : v = Append(q, "%") /\ w = Append(v, d)
      OBVIOUS
    <3>3. "%" \in C /\ d \in C /\ e \in C
      BY DEF Alphabet
    <3>4. v \in Seq(C) /\ w \in Seq(C)
      BY <2>8, <3>2, <3>3, AppendProperties
    <3>5. FineEscapes(v)
      BY <1>p, <2>8, <3>2, <3>3, FineAppend
    <3>6. FineEscapes(w)
      <4>1. ASSUME NEW u1 \in Seq(C), NEW b \in C, NEW a \in C, v = Append(Append(u1, b), a), a \in Hex
            PROVE  FALSE
        <5>1. PICK r : r = Append(u1, b)
          OBVIOUS
        <5>2. r \in Seq(C)
          BY <5>1, AppendProperties
        <5>3. a = "%"
          BY <2>8, <3>2, <3>3, <4>1, <5>1, <5>2, AppendInjective
        <5> QED BY <1>p, <4>1, <5>3
      <4>2. FineEscapes(Append(v, d))
        BY <3>3, <3>4, <3>5, <4>1, FineAppend
      <4> QED BY <3>2, <4>2
    <3>7. FineEscapes(Append(w, e))
      <4>1. ASSUME NEW u1 \in Seq(C), NEW b \in C, NEW a \in C, w = Append(Append(u1, b), a)
            PROVE  Fine(a, e)
        <5>1. PICK r : r = Append(u1, b)
          OBVIOUS
        <5>2. r \in Seq(C)
          BY <5>1, AppendProperties
        <5>3. a = d
          BY <3>2, <3>3, <3>4, <4>1, <5>1, <5>2, AppendInjective
        <5> QED BY <3>1, <5>3
      <4> QED BY <3>3, <3>4, <3>6, <4>1, FineAppend
    <3> QED BY <2>1, <2>3, <3>1, <3>2, <3>7
  <2> QED BY <2>9, <2>10
<1>2. s \notin B
  BY <1>1
<1> QED BY <1>2

-----------------------------------------------------------------------------
(* The passes over the segments.                                           *)

\* The segments, each quoted.
AllQuoted(p) == [n \in DOMAIN p |-> Quoted(p[n])]

\* From segment to segment.
LEMMA AllQuotedUnfold ==
  ASSUME NEW C, Alphabet(C), NEW p \in Seq(Seq(C)), NEW x \in Seq(C)
  PROVE  /\ AllQuoted(p) \in Seq(Seq(C))
         /\ AllQuoted(Append(p, x)) = Append(AllQuoted(p), Quoted(x))
         /\ ToSet(AllQuoted(p)) = {Quoted(y) : y \in ToSet(p)}
<1>1. PICK S : S = Seq(C)
  OBVIOUS
<1>2. \A y \in S : Quoted(y) \in S
  BY <1>1, QuotedUnfold DEF Alphabet
<1>3. PICK L \in Nat : L = Len(p) /\ DOMAIN p = 1 .. L /\ \A i \in 1 .. L : p[i] \in S
  BY <1>1, LenProperties, ElementOfSeq
<1>4. PICK f : f = AllQuoted(p)
  OBVIOUS
<1>5. f = [i \in 1 .. L |-> Quoted(p[i])]
  BY <1>3, <1>4 DEF AllQuoted
<1>6. f \in [1 .. L -> S]
  BY <1>2, <1>3, <1>5
<1>7. f \in Seq(S) /\ Len(f) = L /\ DOMAIN f = 1 .. L
  BY <1>6
<1>8. PICK m \in Nat : m = L + 1
  OBVIOUS
<1>9. PICK q : q = Append(p, x)
  OBVIOUS
<1>10. q \in Seq(S) /\ Len(q) = m /\ q[m] = x /\ \A i \in 1 .. L : q[i] = p[i]
  BY <1>1, <1>3, <1>8, <1>9, AppendProperties
<1>11. PICK h : h = AllQuoted(q)
  OBVIOUS
<1>12. h = [i \in 1 .. m |-> Quoted(q[i])] /\ \A i \in 1 .. m : q[i] \in S
  <2>1. DOMAIN q = 1 .. m /\ \A i \in 1 .. m : q[i] \in S
    BY <1>10, LenProperties, ElementOfSeq
  <2> QED BY <1>11, <2>1 DEF AllQuoted
<1>13. h \in [1 .. L + 1 -> S] /\ h[L + 1] = Quoted(x) /\ \A i \in 1 .. L : h[i] = f[i]
  <2>1. m \in 1 .. m /\ \A i \in 1 .. L : i \in 1 .. m
    BY <1>8
  <2>2. h \in [1 .. m -> S]
    BY <1>2, <1>12
  <2> QED BY <1>5, <1>8, <1>10, <1>12, <2>1, <2>2
<1>14. Quoted(x) \in S
  BY <1>1, <1>2
<1>15. h = Append(f, Quoted(x))
  <2>1. PICK e : e = Quoted(x)
    OBVIOUS
  <2> QED BY <1>7, <1>13, <1>14, <2>1, IsAppend
<1>16. ToSet(f) = {Quoted(y) : y \in ToSet(p)}
  <2>1. ToSet(f) = {f[i] : i \in 1 .. L} /\ ToSet(p) = {p[i] : i \in 1 .. L}
    BY <1>3, <1>7 DEF ToSet
  <2> QED BY <1>5, <2>1
<1> QED BY <1>1, <1>4, <1>7, <1>9, <1>11, <1>15, <1>16

\* quote() leaves slashes: its segments are those of the text, each quoted.
LEMMA SegmentsQuoted ==
  ASSUME NEW C, Alphabet(C), NEW s \in Seq(C)
  PROVE  Segments(Quoted(s)) = AllQuoted(Segments(s))
<1>0. PICK S : S = Seq(C)
  OBVIOUS
<1>h. "/" \notin Unsafe /\ "/" \notin Hex /\ "/" \in C /\ <<>> \in S
  BY <1>0, QuoteType DEF Alphabet
<1>e. Quoted(<<>>) = <<>>
  <2>1. PICK n : n = <<>>
    OBVIOUS
  <2> QED BY <1>0, <1>h, <2>1, QuotedUnfold
<1> DEFINE B == {t \in Seq(C) : Segments(Quoted(t)) # AllQuoted(Segments(t))}
<1>1. ASSUME B # {} PROVE FALSE
  <2>1. /\ B \in SUBSET Seq(C)
        /\ \A t : t \in B <=> t \in Seq(C) /\ Segments(Quoted(t)) # AllQuoted(Segments(t))
    OBVIOUS
  <2> HIDE DEF B
  <2>3. PICK t \in B : t = <<>> \/ \E u \in Seq(C), c \in C : t = Append(u, c) /\ u \notin B
    BY <1>1, <2>1, ShortestBad
  <2>4. t # <<>>
    <3> SUFFICES ASSUME t = <<>> PROVE FALSE
      OBVIOUS
    <3>1. PICK n, p : n = <<>> /\ p = <<n>>
      OBVIOUS
    <3>2. Segments(n) = p /\ Quoted(n) = n
      BY <1>e, <3>1, SegmentsUnfold
    <3>3. AllQuoted(p) = <<Quoted(n)>>
      BY <3>1 DEF AllQuoted
    <3> QED BY <2>1, <2>3, <3>1, <3>2, <3>3
  <2>5. PICK u \in Seq(C), c \in C : t = Append(u, c) /\ u \notin B
    BY <2>3, <2>4
  <2>6. PICK U, q, M : U = Segments(u) /\ q = Quoted(u) /\ M = AllQuoted(U)
    OBVIOUS
  <2>7. U \in Lists(C) /\ U \in Seq(S) /\ U # <<>>
    BY <1>0, <2>5, <2>6, SegmentsUnfold DEF Lists
  <2>8. q \in Seq(C) /\ Segments(q) = M /\ Segments(t) = Cut(U, c)
    BY <2>1, <2>5, <2>6, QuotedUnfold, SegmentsUnfold
  <2>9. M \in Lists(C)
    BY <2>8, SegmentsUnfold
  <2>10. CASE c = "/"
    <3>1. Quoted(t) = Append(q, c)
      BY <1>h, <2>5, <2>6, <2>10, QuotedSafe
    <3>2. Segments(Quoted(t)) = Cut(M, c)
      BY <2>8, <3>1, SegmentsUnfold
    <3>3. PICK n : n = <<>>
      OBVIOUS
    <3>4. n \in Seq(C) /\ U \in Seq(Seq(C)) /\ Quoted(n) = n
      BY <1>0, <1>e, <1>h, <2>7, <3>3
    <3>5. AllQuoted(Append(U, n)) = Append(AllQuoted(U), Quoted(n))
      BY <3>4, AllQuotedUnfold
    <3>6. Cut(M, c) = Append(M, n) /\ Cut(U, c) = Append(U, n)
      BY <2>10, <3>3 DEF Cut
    <3> QED BY <2>1, <2>3, <2>6, <2>8, <3>2, <3>4, <3>5, <3>6
  <2>11. CASE c # "/"
    <3>1. PICK v \in Seq(S), y \in S : U = Append(v, y)
      BY <2>7, SequenceEmptyOrAppend
    <3>2. v \in Seq(Seq(C)) /\ y \in Seq(C)
      BY <1>0, <3>1
    <3>3. Cut(U, c) = Append(v, Append(y, c)) /\ Append(y, c) \in Seq(C)
      <4>1. Cut(U, c) = Append(v, Append(y, c))
        <5>1. Cut(Append(v, y), c) = Append(v, Append(y, c))
          BY <2>5, <2>11, <3>2, CutLast
        <5> QED BY <3>1, <5>1
      <4>2. Append(y, c) \in Seq(C)
        BY <2>5, <3>2, AppendProperties
      <4> QED BY <4>1, <4>2
    <3>4. PICK V, Y : V = AllQuoted(v) /\ Y = Quoted(y)
      OBVIOUS
    <3>5. V \in Seq(Seq(C)) /\ Y \in Seq(C)
      BY <2>5, <3>2, <3>4, AllQuotedUnfold, QuotedUnfold
    <3>6. M = Append(V, Y)
      <4>1. AllQuoted(Append(v, y)) = Append(AllQuoted(v), Quoted(y))
        BY <3>2, AllQuotedUnfold
      <4> QED BY <2>6, <3>1, <3>4, <4>1
    <3>7. AllQuoted(Segments(t)) = Append(V, Quoted(Append(y, c)))
      <4>1. PICK z : z = Append(y, c)
        OBVIOUS
      <4>2. AllQuoted(Append(v, z)) = Append(AllQuoted(v), Quoted(z))
        BY <3>2, <3>3, <4>1, AllQuotedUnfold
      <4> QED BY <2>8, <3>3, <3>4, <4>1, <4>2
    <3>8. CASE c \notin Unsafe
      <4>1. Quoted(t) = Append(q, c)
        BY <2>5, <2>6, <3>8, QuotedSafe
      <4>2. Segments(Quoted(t)) = Cut(M, c)
        BY <2>8, <4>1, SegmentsUnfold
      <4>3. Cut(M, c) = Append(V, Append(Y, c))
        BY <2>5, <2>11, <3>5, <3>6, CutLast
      <4>4. Quoted(Append(y, c)) = Append(Y, c)
        BY <3>2, <3>4, <3>8, QuotedSafe
      <4> QED BY <2>1, <2>3, <3>7, <4>2, <4>3, <4>4
    <3>9. CASE c \in Unsafe
      <4>1. Mark(c) \in Seq(C)
        BY MarkIs
      <4>a. PICK d, e \in Hex : Mark(c) = <<"%", d, e>>
        BY <3>9, MarkIs
      <4>2. PICK a : a = "%"
        OBVIOUS
      <4>3. a \in C /\ d \in C /\ e \in C /\ a # "/" /\ d # "/" /\ e # "/"
        BY <1>h, <4>2 DEF Alphabet
      <4>4. ASSUME NEW x \in Seq(C) PROVE x \o Mark(c) = Append(Append(Append(x, a), d), e)
        <5>1. PICK m, n : m = <<a>> /\ n = <<a, d>>
          OBVIOUS
        <5>2. m \in Seq(C) /\ n \in Seq(C) /\ n = Append(m, d) /\ <<a, d, e>> = Append(n, e)
          BY <4>3, <5>1
        <5>3. x \o m = Append(x, a)
          BY <4>3, <5>1, AppendIsConcat
        <5>4. x \o n = Append(x \o m, d)
          BY <4>3, <5>2, ConcatAppend
        <5>5. x \o Append(n, e) = Append(x \o n, e)
          BY <4>3, <5>2, ConcatAppend
        <5> QED BY <4>2, <4>a, <5>2, <5>3, <5>4, <5>5
      <4>5. Quoted(t) = Append(Append(Append(q, a), d), e)
        <5>1. Quoted(Append(u, c)) = Quoted(u) \o Mark(c)
          BY <2>5, QuotedUnfold
        <5> QED BY <2>5, <2>6, <2>8, <4>4, <5>1
      <4>6. Quoted(Append(y, c)) = Append(Append(Append(Y, a), d), e)
        <5>1. Quoted(Append(y, c)) = Quoted(y) \o Mark(c)
          BY <3>2, QuotedUnfold
        <5> QED BY <3>4, <3>5, <4>4, <5>1
      <4>7. PICK q1, q2, Y1, Y2, M1, M2 :
              /\ q1 = Append(q, a) /\ q2 = Append(q1, d) /\ Y1 = Append(Y, a) /\ Y2 = Append(Y1, d)
              /\ M1 = Append(V, Y1) /\ M2 = Append(V, Y2)
        OBVIOUS
      <4>8. q1 \in Seq(C) /\ q2 \in Seq(C) /\ Y1 \in Seq(C) /\ Y2 \in Seq(C)
        BY <2>8, <3>5, <4>3, <4>7, AppendProperties
      <4>9. Segments(q1) = M1 /\ M1 \in Lists(C)
        <5>1. Segments(q1) = Cut(M, a) /\ Segments(q1) \in Lists(C)
          BY <2>8, <4>3, <4>7, <4>8, SegmentsUnfold
        <5>2. Cut(M, a) = Append(V, Append(Y, a))
          BY <3>5, <3>6, <4>3, CutLast
        <5> QED BY <4>7, <5>1, <5>2
      <4>10. Segments(q2) = M2 /\ M2 \in Lists(C)
        <5>1. Segments(q2) = Cut(M1, d) /\ Segments(q2) \in Lists(C)
          BY <4>3, <4>7, <4>8, <4>9, SegmentsUnfold
        <5>2. Cut(Append(V, Y1), d) = Append(V, Append(Y1, d))
          BY <3>5, <4>3, <4>8, CutLast
        <5> QED BY <4>7, <5>1, <5>2
      <4>11. Segments(Append(q2, e)) = Append(V, Append(Y2, e))
        <5>1. Segments(Append(q2, e)) = Cut(M2, e)
          BY <4>3, <4>8, <4>10, SegmentsUnfold
        <5>2. Cut(Append(V, Y2), e) = Append(V, Append(Y2, e))
          BY <3>5, <4>3, <4>8, CutLast
        <5> QED BY <4>7, <5>1, <5>2
      <4> QED BY <2>1, <2>3, <3>7, <4>5, <4>6, <4>7, <4>11
    <3> QED BY <3>8, <3>9
  <2> QED BY <2>10, <2>11
<1>2. s \notin B
  BY <1>1
<1> QED BY <1>2

\* The dot segments.
Dots == {<<".">>, <<".", ".">>}

\* No dot segment is left, and nothing that was not there; without one all is left.
LEMMA LeftIs ==
  ASSUME NEW D, NEW p \in Seq(D)
  PROVE  /\ ToSet(Left(p)) \subseteq ToSet(p) \ Dots
         /\ ToSet(p) \cap Dots = {} => Left(p) = p
<1> DEFINE Holds(q) == /\ ToSet(Left(q)) \subseteq ToSet(q) \ Dots
                       /\ ToSet(q) \cap Dots = {} => Left(q) = q
           B == {q \in Seq(D) : ~Holds(q)}
<1>1. ASSUME B # {} PROVE FALSE
  <2>1. B \in SUBSET Seq(D) /\ \A q : q \in B <=> q \in Seq(D) /\ ~Holds(q)
    OBVIOUS
  <2>2. \A q : Holds(q) <=> /\ ToSet(Left(q)) \subseteq ToSet(q) \ Dots
                            /\ ToSet(q) \cap Dots = {} => Left(q) = q
    OBVIOUS
  <2> HIDE DEF B, Holds
  <2>3. PICK q \in B : q = <<>> \/ \E u \in Seq(D), x \in D : q = Append(u, x) /\ u \notin B
    BY <1>1, <2>1, ShortestBad
  <2>4. q # <<>>
    <3>1. Left(<<>>) = <<>>
      BY LeftUnfold
    <3>2. ToSet(<<>>) = {}
      BY DEF ToSet
    <3> QED BY <2>1, <2>2, <2>3, <3>1, <3>2
  <2>5. PICK u \in Seq(D), x \in D : q = Append(u, x) /\ u \notin B
    BY <2>3, <2>4
  <2>6. PICK l : l = Left(u)
    OBVIOUS
  <2>7. l \in Seq(D) /\ Left(q) = Turn(l, x)
    BY <2>5, <2>6, LeftUnfold
  <2>8. ToSet(l) \subseteq ToSet(u) \ Dots /\ (ToSet(u) \cap Dots = {} => l = u)
    BY <2>1, <2>2, <2>5, <2>6
  <2>9. ToSet(q) = ToSet(u) \cup {x}
    BY <2>5, MembersOf
  <2>10. CASE x \in Dots
    <3>1. Turn(l, x) = l \/ (l # <<>> /\ Turn(l, x) = Front(l))
      BY <2>10 DEF Turn, Dots
    <3>2. l # <<>> => ToSet(Front(l)) \subseteq ToSet(l)
      <4> SUFFICES ASSUME l # <<>> PROVE ToSet(Front(l)) \subseteq ToSet(l)
        OBVIOUS
      <4>1. PICK f, e : f = Front(l) /\ e = Last(l)
        OBVIOUS
      <4>2. f \in Seq(D) /\ e \in D /\ l = Append(f, e)
        BY <2>7, <4>1, FrontIs
      <4>3. ToSet(Append(f, e)) = ToSet(f) \cup {e}
        BY <4>2, MembersOf
      <4> QED BY <4>1, <4>2, <4>3
    <3>3. ToSet(Left(q)) \subseteq ToSet(q) \ Dots
      BY <2>7, <2>8, <2>9, <3>1, <3>2
    <3> QED BY <2>1, <2>2, <2>3, <2>9, <2>10, <3>3
  <2>11. CASE x \notin Dots
    <3>1. Left(q) = Append(l, x)
      BY <2>7, <2>11 DEF Turn, Dots
    <3>2. ToSet(Append(l, x)) = ToSet(l) \cup {x}
      BY <2>5, <2>7, MembersOf
    <3>3. ToSet(Left(q)) \subseteq ToSet(q) \ Dots
      BY <2>8, <2>9, <2>11, <3>1, <3>2
    <3>4. ToSet(q) \cap Dots = {} => Left(q) = q
      BY <2>5, <2>8, <2>9, <3>1
    <3> QED BY <2>1, <2>2, <2>3, <3>3, <3>4
  <2> QED BY <2>10, <2>11
<1>2. p \notin B
  BY <1>1
<1> QED BY <1>2

\* No segment of s is "." or "..".
Dotless(s) == ToSet(Segments(s)) \cap Dots = {}

\* The slash that _remove_dot_segments puts back.
WithoutDotsDef(s, result) ==
  IF result = <<>> \/ (s # <<>> /\ Head(s) = "/" /\ Head(result) # "/")
  THEN <<"/">> \o result ELSE result

\* So it is that of what is left of the segments.
LEMMA WithoutDotsAre ==
  \A s : WithoutDots(s) = WithoutDotsDef(s, Joined(Left(Segments(s))))
BY DEF WithoutDots, WithoutDotsDef, Left, Turning, Turn, FoldLeft, MapThenFoldSet

\* What _remove_dot_segments returns has none, has a character and the escapes of s.
LEMMA WithoutDotsIs ==
  ASSUME NEW C, Alphabet(C), NEW s \in Seq(C), FineEscapes(s)
  PROVE  LET y == WithoutDots(s)
         IN  y \in Seq(C) /\ y # <<>> /\ FineEscapes(y) /\ Dotless(y)
<1>0. PICK S : S = Seq(C)
  OBVIOUS
<1>1. PICK U, w, r, n : U = Segments(s) /\ w = Left(U) /\ r = Joined(w) /\ n = <<>>
  OBVIOUS
<1>2. n \in Seq(C) /\ "/" \in C /\ Clean(n) /\ n \notin Dots /\ FineEscapes(n)
  BY <1>1 DEF Alphabet, Clean, ToSet, Dots, FineEscapes
<1>3. U \in Seq(Seq(C)) /\ \A y \in ToSet(U) : Clean(y) /\ FineEscapes(y)
  <2>1. U \in Seq(Seq(C)) /\ Joined(U) = s /\ \A y \in ToSet(U) : Clean(y)
    BY <1>1, SegmentsUnfold, SegmentsJoin DEF Lists
  <2>2. FineEscapes(Joined(U)) <=> \A y \in ToSet(U) : FineEscapes(y)
    BY <2>1, FineJoined
  <2> QED BY <2>1, <2>2
<1>4. w \in Seq(S) /\ ToSet(w) \subseteq ToSet(U) \ Dots
  <2>1. U \in Seq(S)
    BY <1>0, <1>3
  <2> QED BY <1>1, <2>1, LeftUnfold, LeftIs
<1>5. r \in Seq(C) /\ FineEscapes(r)
  <2>1. w \in Seq(Seq(C))
    BY <1>0, <1>4
  <2>2. FineEscapes(Joined(w)) <=> \A y \in ToSet(w) : FineEscapes(y)
    BY <2>1, FineJoined
  <2>3. Joined(w) \in Seq(C)
    BY <1>2, <2>1, JoinedUnfold, SMTT(30)
  <2> QED BY <1>1, <1>3, <1>4, <2>2, <2>3
<1>6. Dotless(r)
  <2>1. CASE w = <<>>
    <3>1. r = n
      <4>1. Joined(<<>>) = <<>>
        BY <1>2, EmptySeq, JoinedUnfold
      <4> QED BY <1>1, <2>1, <4>1
    <3>2. Segments(r) = <<r>>
      BY <1>2, <3>1, SegmentsOfClean
    <3>3. ToSet(<<r>>) = {r}
      BY DEF ToSet
    <3> QED BY <1>2, <3>1, <3>2, <3>3 DEF Dotless
  <2>2. CASE w # <<>>
    <3>1. w \in Lists(C) /\ \A y \in ToSet(w) : Clean(y)
      BY <1>0, <1>3, <1>4, <2>2 DEF Lists
    <3>2. Segments(r) = w
      BY <1>1, <3>1, SegmentsOfJoined
    <3> QED BY <1>4, <3>2 DEF Dotless
  <2> QED BY <2>1, <2>2
<1>7. PICK x : x = <<"/">> \o r
  OBVIOUS
<1>8. x \in Seq(C) /\ x # <<>> /\ FineEscapes(x) /\ Dotless(x)
  <2>1. <<"/">> = Append(n, "/") /\ <<"/">> \in Seq(C)
    BY <1>1, <1>2
  <2>2. x = Append(n, "/") \o r
    BY <1>7, <2>1
  <2>3. x \in Seq(C) /\ x # <<>>
    <3>1. x \in Seq(C) /\ Len(x) = Len(<<"/">>) + Len(r)
      BY <1>5, <1>7, <2>1, ConcatProperties
    <3>2. Len(x) = 1 + Len(r) /\ Len(r) \in Nat
      BY <1>5, <3>1, LenProperties
    <3> QED BY <3>1, <3>2
  <2>4. FineEscapes(x)
    BY <1>2, <1>5, <2>2, FineConcat
  <2>5. PICK M, V : M = Segments(n) /\ V = Segments(r)
    OBVIOUS
  <2>6. Segments(x) = M \o V
    BY <1>2, <1>5, <2>2, <2>5, SegmentsConcat
  <2>7. M = <<n>> /\ V \in Seq(S)
    BY <1>0, <1>1, <1>5, <2>5, SegmentsUnfold DEF Lists
  <2>8. ToSet(M \o V) = {n} \cup ToSet(V)
    <3>1. M \in Seq(S) /\ Len(M) = 1 /\ M[1] = n
      BY <1>0, <1>2, <2>7
    <3>2. PICK k \in Nat : k = Len(V)
      BY <2>7, LenProperties
    <3>3. PICK m \in Nat : m = k + 1
      OBVIOUS
    <3>4. PICK z : z = M \o V
      OBVIOUS
    <3>5. /\ z \in Seq(S) /\ Len(z) = m
          /\ \A i \in 1 .. m : z[i] = IF i <= 1 THEN M[i] ELSE V[i - 1]
      <4>1. /\ z \in Seq(S) /\ Len(z) = Len(M) + Len(V)
            /\ \A i \in 1 .. Len(M) + Len(V) : z[i] = IF i <= Len(M) THEN M[i] ELSE V[i - Len(M)]
        BY <2>7, <3>1, <3>4, ConcatProperties
      <4>2. Len(M) + Len(V) = m
        BY <3>1, <3>2, <3>3
      <4> QED BY <3>1, <4>1, <4>2
    <3>6. DOMAIN z = 1 .. m /\ DOMAIN V = 1 .. k
      BY <2>7, <3>2, <3>5, LenProperties
    <3>7. \A i \in 1 .. m : z[i] \in {n} \cup {V[j] : j \in 1 .. k}
      <4> TAKE i \in 1 .. m
      <4>1. CASE i = 1
        BY <3>1, <3>5, <4>1
      <4>2. CASE i # 1
        <5>1. i - 1 \in 1 .. k /\ ~(i <= 1)
          BY <3>3, <4>2
        <5> QED BY <3>5, <5>1
      <4> QED BY <4>1, <4>2
    <3>8. z[1] = n /\ 1 \in 1 .. m
      BY <3>1, <3>3, <3>5
    <3>9. ASSUME NEW j \in 1 .. k PROVE \E i \in 1 .. m : z[i] = V[j]
      <4>1. PICK i \in Nat : i = j + 1
        OBVIOUS
      <4>2. i \in 1 .. m /\ ~(i <= 1) /\ i - 1 = j
        BY <3>3, <4>1
      <4> QED BY <3>5, <4>2
    <3>10. ToSet(z) = {z[i] : i \in 1 .. m} /\ ToSet(V) = {V[j] : j \in 1 .. k}
      BY <3>6 DEF ToSet
    <3>11. {z[i] : i \in 1 .. m} = {n} \cup {V[j] : j \in 1 .. k}
      BY <3>7, <3>8, <3>9
    <3> QED BY <3>4, <3>10, <3>11
  <2>9. Dotless(x)
    BY <1>2, <1>6, <2>5, <2>6, <2>8 DEF Dotless
  <2> QED BY <2>3, <2>4, <2>9
<1>9. WithoutDots(s) = WithoutDotsDef(s, r)
  BY <1>1, WithoutDotsAre
<1>10. WithoutDots(s) = x \/ (WithoutDots(s) = r /\ r # <<>>)
  BY <1>7, <1>9 DEF WithoutDotsDef
<1> QED BY <1>5, <1>6, <1>8, <1>10

\* It leaves what has none.
LEMMA WithoutDotsSame ==
  ASSUME NEW C, Alphabet(C), NEW y \in Seq(C), y # <<>>, Dotless(y)
  PROVE  WithoutDots(y) = y
<1>1. PICK U, S : U = Segments(y) /\ S = Seq(C)
  OBVIOUS
<1>2. U \in Seq(S) /\ Joined(U) = y /\ ToSet(U) \cap Dots = {}
  BY <1>1, SegmentsUnfold, SegmentsJoin DEF Lists, Dotless
<1>3. Left(U) = U
  BY <1>2, LeftIs
<1>4. WithoutDots(y) = WithoutDotsDef(y, y)
  <2>1. WithoutDots(y) = WithoutDotsDef(y, Joined(Left(Segments(y))))
    BY WithoutDotsAre
  <2> QED BY <1>1, <1>2, <1>3, <2>1
<1> QED BY <1>4 DEF WithoutDotsDef

\* quote() makes no dot segment.
LEMMA QuotedDotless ==
  ASSUME NEW C, Alphabet(C), NEW s \in Seq(C), s # <<>>, Dotless(s)
  PROVE  Quoted(s) # <<>> /\ Dotless(Quoted(s))
<1>1. Quoted(s) # <<>>
  <2>1. ToSet(<<>>) = {}
    BY DEF ToSet
  <2> QED BY <2>1, QuotedIs
<1>2. PICK U : U = Segments(s)
  OBVIOUS
<1>3. U \in Seq(Seq(C)) /\ ToSet(U) \cap Dots = {}
  BY <1>2, SegmentsUnfold DEF Lists, Dotless
<1>4. <<>> \in Seq(C)
  OBVIOUS
<1>5. ToSet(AllQuoted(U)) = {Quoted(y) : y \in ToSet(U)}
  BY <1>3, <1>4, AllQuotedUnfold
<1>6. Segments(Quoted(s)) = AllQuoted(U)
  BY <1>2, SegmentsQuoted
<1>7. ASSUME NEW y \in ToSet(U) PROVE Quoted(y) \notin Dots
  <2>1. y \in Seq(C)
    <3>1. PICK S : S = Seq(C)
      OBVIOUS
    <3>2. ToSet(U) \in SUBSET S
      BY <1>3, <1>4, <3>1, MembersOf
    <3> QED BY <3>1, <3>2
  <2>2. Quoted(y) = y \/ "%" \in ToSet(Quoted(y))
    BY <2>1, QuotedIs
  <2>3. \A z \in Dots : "%" \notin ToSet(z)
    BY DEF Dots, ToSet
  <2> QED BY <1>3, <2>2, <2>3
<1> QED BY <1>1, <1>5, <1>6, <1>7 DEF Dotless

\* A trailing slash goes once.
LEMMA TrimmedIs ==
  ASSUME NEW C, Alphabet(C), NEW z \in Seq(C), z # <<>>, Dotless(z), FineEscapes(z),
         ToSet(z) \cap Unsafe = {}
  PROVE  LET r == Trimmed(z)
         IN  /\ r \in Seq(C) /\ r # <<>> /\ Dotless(r) /\ FineEscapes(r)
             /\ ToSet(r) \cap Unsafe = {} /\ Trimmed(r) = r
<1>0. PICK S : S = Seq(C)
  OBVIOUS
<1> DEFINE Trims(s) == LET parts == Segments(s)
                       IN  /\ Len(parts) > 1 /\ Last(parts) = <<>>
                           /\ "." \in ToSet(parts[Len(parts) - 1])
<1>1. \A s : Trimmed(s) = IF Trims(s) THEN Front(s) ELSE s
  BY DEF Trimmed
<1>2. CASE ~Trims(z)
  <2> HIDE DEF Trims
  <2> QED BY <1>1, <1>2
<1>3. CASE Trims(z)
  <2>1. PICK u \in Seq(C), c \in C : z = Append(u, c)
    BY SequenceEmptyOrAppend
  <2>2. PICK P, U : P = Segments(z) /\ U = Segments(u)
    OBVIOUS
  <2>3. P = Cut(U, c) /\ U \in Lists(C) /\ U \in Seq(S) /\ U # <<>> /\ P \in Seq(S)
    BY <1>0, <2>1, <2>2, SegmentsUnfold DEF Lists
  <2>4. Len(P) > 1 /\ Last(P) = <<>> /\ "." \in ToSet(P[Len(P) - 1])
    BY <1>3, <2>2
  <2>5. c = "/"
    <3>0. SUFFICES ASSUME c # "/" PROVE FALSE
      OBVIOUS
    <3>1. PICK v \in Seq(S), y \in S : U = Append(v, y)
      BY <2>3, SequenceEmptyOrAppend
    <3>2. PICK x : x = Append(y, c)
      OBVIOUS
    <3>3. v \in Seq(Seq(C)) /\ y \in Seq(C)
      BY <1>0, <3>1
    <3>a. x \in Seq(C) /\ x # <<>>
      BY <2>1, <3>2, <3>3, AppendProperties
    <3>b. x \in S
      BY <1>0, <3>a
    <3>4. P = Append(v, x)
      <4>1. U \in Lists(C) /\ c # "/"
        BY <2>3, <3>0
      <4>2. Cut(U, c) = Append(v, Append(y, c))
        <5>1. Cut(Append(v, y), c) = Append(v, Append(y, c))
          BY <2>1, <3>3, <4>1, CutLast
        <5> QED BY <3>1, <5>1
      <4> QED BY <2>3, <3>2, <4>2
    <3>5. P # <<>>
      BY <2>3, <2>4, LenProperties
    <3>6. Last(P) = x
      <4>1. \A t \in Seq(S), e \in S : P = Append(t, e) => Front(P) = t /\ Last(P) = e
        <5>1. P \in Seq(S) /\ P # <<>>
          BY <2>3, <3>5
        <5> QED BY <5>1, FrontIs
      <4> QED BY <3>1, <3>b, <3>4, <4>1
    <3> QED BY <2>4, <3>a, <3>6
  <2>6. PICK n : n = <<>>
    OBVIOUS
  <2>7. P = Append(U, n) /\ n \in S
    BY <1>0, <2>3, <2>5, <2>6 DEF Cut
  <2>8. PICK k \in Nat : k = Len(U)
    BY <2>3, LenProperties
  <2>9. Len(P) = k + 1 /\ \A i \in 1 .. k : P[i] = U[i]
    BY <2>3, <2>7, <2>8, AppendProperties
  <2>10. "." \in ToSet(Last(U))
    <3>1. k \in 1 .. k /\ Len(P) - 1 = k
      BY <2>4, <2>9
    <3> QED BY <2>4, <2>8, <2>9, <3>1 DEF Last
  <2>11. Last(U) # <<>>
    BY <2>10 DEF ToSet
  <2>12. Trimmed(z) = u
    <3>1. z \in Seq(C) /\ z # <<>>
      OBVIOUS
    <3>2. Front(z) = u
      BY <2>1, <3>1, FrontIs
    <3> QED BY <1>1, <1>3, <3>2
  <2>13. u # <<>>
    <3> SUFFICES ASSUME u = <<>> PROVE FALSE
      OBVIOUS
    <3>1. U = << <<>> >>
      BY <2>2, SegmentsUnfold
    <3>2. Last(U) = <<>>
      BY <3>1 DEF Last
    <3> QED BY <2>11, <3>2
  <2>14. Trimmed(u) = u
    BY <1>1, <2>2, <2>11
  <2>15. Dotless(u)
    <3>1. ToSet(Append(U, n)) = ToSet(U) \cup {n}
      BY <2>3, <2>7, MembersOf
    <3> QED BY <2>2, <2>7, <3>1 DEF Dotless
  <2>16. ToSet(u) \cap Unsafe = {}
    <3>1. ToSet(z) = ToSet(u) \cup {c}
      BY <2>1, MembersOf
    <3> QED BY <3>1
  <2>17. FineEscapes(u)
    BY <2>1, FineAppend
  <2> QED BY <2>12, <2>13, <2>14, <2>15, <2>16, <2>17
<1> QED BY <1>2, <1>3

-----------------------------------------------------------------------------
(* The passes over the escapes.                                            *)

\* With a further one for every bad place there is none.
LEMMA FromTheRight ==
  ASSUME NEW n \in Nat, NEW B \in SUBSET (1 .. n), \A i \in B : \E j \in B : j > i
  PROVE  B = {}
<1>1. ASSUME B # {} PROVE FALSE
  <2>1. PICK m : m = Max(B)
    OBVIOUS
  <2>2. m \in B /\ \A y \in B : y <= m
    BY <1>1, <2>1, MaxOf
  <2> QED BY <2>2
<1> QED BY <1>1

\* What a character in front makes of a text.
LEMMA PrependIs ==
  ASSUME NEW C, NEW c \in C, NEW t \in Seq(C), NEW x, x = <<c>> \o t
  PROVE  /\ x \in Seq(C) /\ Len(x) = Len(t) + 1 /\ Len(t) \in Nat
         /\ x[1] = c /\ \A i \in 1 .. Len(t) : x[i + 1] = t[i]
<1>1. PICK k \in Nat : k = Len(t)
  BY LenProperties
<1>2. PICK e : e = <<c>>
  OBVIOUS
<1>3. e \in Seq(C) /\ Len(e) = 1 /\ e[1] = c
  BY <1>2
<1>4. /\ x \in Seq(C) /\ Len(x) = Len(e) + Len(t)
      /\ \A i \in 1 .. Len(e) + Len(t) : x[i] = IF i <= Len(e) THEN e[i] ELSE t[i - Len(e)]
  BY <1>2, <1>3, ConcatProperties
<1>5. Len(x) = k + 1 /\ \A i \in 1 .. k + 1 : x[i] = IF i <= 1 THEN e[i] ELSE t[i - 1]
  BY <1>1, <1>3, <1>4
<1>6. x[1] = c
  BY <1>3, <1>5
<1>7. ASSUME NEW i \in 1 .. k PROVE x[i + 1] = t[i]
  <2>1. i + 1 \in 1 .. k + 1 /\ ~(i + 1 <= 1) /\ i + 1 - 1 = i
    OBVIOUS
  <2> QED BY <1>5, <2>1
<1> QED BY <1>1, <1>4, <1>5, <1>6, <1>7

\* No escape in t is needless.
NoneNeedless(t) == \A i \in 1 .. Len(t) : ~Needless(t, i)

\* A character in front completes one needless escape at most.
LEMMA NoneNeedlessPrepended ==
  ASSUME NEW C, NEW c \in C, NEW t \in Seq(C), NEW x, x = <<c>> \o t, NoneNeedless(t),
         ~ (/\ c = "%" /\ Len(t) >= 2 /\ t[1] \in Hex /\ t[2] \in Hex
            /\ OctetOf[<<UpperOf[t[1]], UpperOf[t[2]]>>] \in Unreserved)
  PROVE  NoneNeedless(x)
<1>1. PICK k \in Nat : k = Len(t)
  BY LenProperties
<1>2. Len(x) = k + 1 /\ x[1] = c /\ \A i \in 1 .. k : x[i + 1] = t[i]
  BY <1>1, PrependIs
<1>3. SUFFICES ASSUME NEW i \in 1 .. k + 1, Needless(x, i) PROVE FALSE
  BY <1>2 DEF NoneNeedless
<1>4. /\ i + 2 <= k + 1 /\ x[i] = "%" /\ x[i + 1] \in Hex /\ x[i + 2] \in Hex
      /\ OctetOf[<<UpperOf[x[i + 1]], UpperOf[x[i + 2]]>>] \in Unreserved
  BY <1>2, <1>3 DEF Needless, Escape, Octet
<1>5. CASE i = 1
  <2>1. 1 \in 1 .. k /\ 2 \in 1 .. k /\ i + 1 = 1 + 1 /\ i + 2 = 2 + 1
    BY <1>4, <1>5
  <2>2. x[i + 1] = t[1] /\ x[i + 2] = t[2]
    BY <1>2, <2>1
  <2>3. c = "%" /\ Len(t) >= 2 /\ t[1] \in Hex /\ t[2] \in Hex
    BY <1>1, <1>2, <1>4, <1>5, <2>2
  <2>4. OctetOf[<<UpperOf[t[1]], UpperOf[t[2]]>>] \in Unreserved
    BY <1>4, <2>2
  <2> QED BY <2>3, <2>4
<1>6. CASE i # 1
  <2>1. PICK j \in 1 .. k : i = j + 1
    <3>1. i - 1 \in 1 .. k /\ i = i - 1 + 1
      BY <1>6
    <3> QED BY <3>1
  <2>2. j + 1 \in 1 .. k /\ j + 2 \in 1 .. k /\ i + 1 = (j + 1) + 1 /\ i + 2 = (j + 2) + 1
    BY <1>4, <2>1
  <2>3. x[i] = t[j] /\ x[i + 1] = t[j + 1] /\ x[i + 2] = t[j + 2]
    BY <1>2, <2>1, <2>2
  <2>4. Needless(t, j)
    <3>1. Escape(t, j)
      <4>1. j + 2 <= Len(t)
        BY <1>1, <2>2
      <4> QED BY <1>4, <2>3, <4>1 DEF Escape
    <3>2. Octet(t, j) \in Unreserved
      BY <1>4, <2>3 DEF Octet
    <3> QED BY <3>1, <3>2 DEF Needless
  <2> QED BY <1>1, <2>4 DEF NoneNeedless
<1> QED BY <1>5, <1>6

\* Once decoded, a text that is not nested has no needless escape.
LEMMA DecodedOnce ==
  ASSUME NEW C, Alphabet(C), NEW s \in Seq(C), ~Nested(s)
  PROVE  Decoded(s) \in Seq(C) /\ NoneNeedless(Decoded(s))
<1>1. PICK L \in Nat : L = Len(s) /\ DOMAIN s = 1 .. L /\ \A i \in 1 .. L : s[i] \in C
  BY LenProperties, ElementOfSeq
<1>2. PICK g : /\ \A i \in 1 .. L + 1 : g[i] = FromThere(g, s, i)
               /\ Decoded(s) = g[1]
  BY <1>1, DecodedIs
<1> DEFINE Plain(i) == g[i] \in Seq(C) /\ NoneNeedless(g[i])
           B == {i \in 1 .. L + 1 : ~Plain(i)}
<1>3. Plain(L + 1) /\ g[L + 1] = <<>>
  <2>1. PICK m : m = L + 1
    OBVIOUS
  <2>2. m \in 1 .. L + 1 /\ m > L
    BY <2>1
  <2>3. g[m] = <<>>
    BY <1>1, <1>2, <2>2 DEF FromThere
  <2> QED BY <2>1, <2>3 DEF NoneNeedless
<1>4. ASSUME NEW i \in B PROVE \E j \in B : j > i
  <2>0. SUFFICES ASSUME \A j \in 1 .. L + 1 : j > i => Plain(j) PROVE Plain(i)
    OBVIOUS
  <2>a. i \in 1 .. L + 1 /\ ~Plain(i)
    OBVIOUS
  <2>1. i \in 1 .. L
    <3> HIDE DEF Plain, B
    <3> QED BY <1>3, <2>a
  <2> HIDE DEF B
  <2>b. g[i] = FromThere(g, s, i) /\ i <= Len(s)
    BY <1>1, <1>2, <2>1, <2>a
  <2>2. CASE Needless(s, i)
    <3>1. i + 2 <= L /\ Octet(s, i) \in Unreserved
      BY <1>1, <2>2 DEF Needless, Escape
    <3>2. i + 3 \in 1 .. L + 1 /\ i + 3 > i /\ i \in 1 .. L + 1
      BY <2>1, <3>1
    <3>3. PICK c, t : c = Octet(s, i) /\ t = g[i + 3]
      OBVIOUS
    <3>4. c \in C /\ c # "%" /\ t \in Seq(C) /\ NoneNeedless(t)
      BY <2>0, <3>1, <3>2, <3>3, PercentType DEF Alphabet
    <3>5. g[i] = <<c>> \o t
      BY <1>1, <2>1, <2>2, <2>b, <3>3 DEF FromThere
    <3>6. g[i] \in Seq(C)
      BY <3>4, <3>5, PrependIs
    <3>7. NoneNeedless(g[i])
      BY <3>4, <3>5, NoneNeedlessPrepended
    <3> QED BY <3>6, <3>7
  <2>3. CASE ~Needless(s, i)
    <3>1. i + 1 \in 1 .. L + 1 /\ i + 1 > i /\ i \in 1 .. L + 1
      BY <2>1
    <3>2. PICK c, t : c = s[i] /\ t = g[i + 1]
      OBVIOUS
    <3>3. c \in C /\ t \in Seq(C) /\ NoneNeedless(t)
      BY <1>1, <2>0, <2>1, <3>1, <3>2
    <3>4. g[i] = <<c>> \o t
      BY <1>1, <2>1, <2>3, <2>b, <3>2 DEF FromThere
    <3>5. ASSUME c = "%", Len(t) >= 2, t[1] \in Hex, t[2] \in Hex,
                 OctetOf[<<UpperOf[t[1]], UpperOf[t[2]]>>] \in Unreserved
          PROVE  FALSE
      <4>1. i + 1 \in 1 .. L
        <5>1. t # <<>>
          BY <3>5
        <5>2. i + 1 # L + 1
          BY <1>3, <3>2, <5>1
        <5> QED BY <3>1, <5>2
      <4>2. ~Needless(s, i + 1)
        <5>1. i \in DOMAIN s /\ s[i] = "%" /\ i + 1 \in {i + 1, i + 2} /\ i + 1 # i + 2
          BY <1>1, <2>1, <3>2, <3>5
        <5> QED BY <5>1 DEF Nested
      <4>3. i + 2 \in 1 .. L + 1 /\ i + 2 > i /\ i + 1 + 1 = i + 2
        BY <2>1, <4>1
      <4>4. PICK c1, t1 : c1 = s[i + 1] /\ t1 = g[i + 2]
        OBVIOUS
      <4>5. c1 \in C /\ t1 \in Seq(C)
        BY <1>1, <2>0, <4>1, <4>3, <4>4
      <4>6. t = <<c1>> \o t1
        <5>1. g[i + 1] = FromThere(g, s, i + 1)
          BY <1>2, <3>1
        <5>2. i + 1 \in Int /\ i + 1 <= L
          BY <2>1, <4>1
        <5> QED BY <1>1, <3>2, <4>2, <4>3, <4>4, <5>1, <5>2 DEF FromThere
      <4>7. t[1] = c1 /\ Len(t) = Len(t1) + 1 /\ Len(t1) \in Nat /\ \A k \in 1 .. Len(t1) : t[k + 1] = t1[k]
        BY <4>5, <4>6, PrependIs
      <4>8. Len(t1) >= 1 /\ t[2] = t1[1] /\ c1 \in Hex
        <5>1. Len(t1) >= 1
          BY <3>5, <4>7
        <5>2. 1 \in 1 .. Len(t1) /\ 1 + 1 = 2
          BY <4>7, <5>1
        <5>3. t[1 + 1] = t1[1]
          BY <4>7, <5>2
        <5> QED BY <3>5, <4>7, <5>1, <5>3
      <4>9. i + 2 \in 1 .. L
        <5>1. t1 # <<>>
          BY <4>8
        <5>2. i + 2 # L + 1
          BY <1>3, <4>4, <5>1
        <5> QED BY <4>3, <5>2
      <4>10. ~Needless(s, i + 2)
        <5>1. i \in DOMAIN s /\ s[i] = "%" /\ i + 2 \in {i + 1, i + 2} /\ s[i + 1] \in Hex
          BY <1>1, <2>1, <3>2, <3>5, <4>4, <4>8
        <5> QED BY <5>1 DEF Nested
      <4>11. i + 3 \in 1 .. L + 1 /\ i + 3 > i /\ i + 2 + 1 = i + 3
        BY <2>1, <4>9
      <4>12. PICK c2, t2 : c2 = s[i + 2] /\ t2 = g[i + 3]
        OBVIOUS
      <4>13. c2 \in C /\ t2 \in Seq(C)
        BY <1>1, <2>0, <4>9, <4>11, <4>12
      <4>14. t1 = <<c2>> \o t2
        <5>1. g[i + 2] = FromThere(g, s, i + 2)
          BY <1>2, <4>3
        <5>2. i + 2 \in Int /\ i + 2 <= L
          BY <2>1, <4>9
        <5> QED BY <1>1, <4>4, <4>10, <4>11, <4>12, <5>1, <5>2 DEF FromThere
      <4>15. t1[1] = c2
        BY <4>13, <4>14, PrependIs
      <4>16. s[i + 1] = t[1] /\ s[i + 2] = t[2] /\ s[i] = "%"
        BY <3>2, <3>5, <4>4, <4>7, <4>8, <4>12, <4>15
      <4>17. Needless(s, i)
        BY <1>1, <3>5, <4>9, <4>16 DEF Needless, Escape, Octet
      <4> QED BY <2>3, <4>17
    <3>6. g[i] \in Seq(C)
      BY <3>3, <3>4, PrependIs
    <3>7. NoneNeedless(g[i])
      BY <3>3, <3>4, <3>5, NoneNeedlessPrepended
    <3> QED BY <3>6, <3>7
  <2> QED BY <2>2, <2>3
<1>5. B = {}
  <2>1. PICK n \in Nat : n = L + 1
    OBVIOUS
  <2>2. B \in SUBSET (1 .. n)
    BY <2>1
  <2> HIDE DEF B
  <2> QED BY <1>4, <2>2, FromTheRight
<1>6. 1 \in 1 .. L + 1
  OBVIOUS
<1> QED BY <1>2, <1>5, <1>6

\* Where every escape is canonical there is nothing to decode.
LEMMA DecodedSame ==
  ASSUME NEW C, NEW r \in Seq(C), FineEscapes(r)
  PROVE  Decoded(r) = r
<1>1. PICK L \in Nat : L = Len(r) /\ DOMAIN r = 1 .. L /\ \A i \in 1 .. L : r[i] \in C
  BY LenProperties, ElementOfSeq
<1>2. PICK g : /\ \A i \in 1 .. L + 1 : g[i] = FromThere(g, r, i)
               /\ Decoded(r) = g[1]
  BY <1>1, DecodedIs
<1>3. ASSUME NEW i \in 1 .. L PROVE g[i] = <<r[i]>> \o g[i + 1]
  <2>1. ~Needless(r, i)
    <3> SUFFICES ASSUME Needless(r, i) PROVE FALSE
      OBVIOUS
    <3>1. Escape(r, i) /\ OctetOf[<<UpperOf[r[i + 1]], UpperOf[r[i + 2]]>>] \in Unreserved
      BY DEF Needless, Octet
    <3>2. Fine(r[i + 1], r[i + 2])
      BY <1>1, <3>1 DEF FineEscapes
    <3> QED BY <3>1, <3>2 DEF Fine
  <2>2. i \in 1 .. L + 1
    OBVIOUS
  <2>3. g[i] = FromThere(g, r, i) /\ ~(i > Len(r))
    BY <1>1, <1>2, <2>2
  <2> QED BY <2>1, <2>3 DEF FromThere
<1>4. g[L + 1] = <<>>
  <2>1. L + 1 \in 1 .. L + 1 /\ L + 1 > L
    OBVIOUS
  <2>2. g[L + 1] = FromThere(g, r, L + 1)
    BY <1>2, <2>1
  <2> QED BY <1>1, <2>1, <2>2 DEF FromThere
<1> DEFINE Rest(i) == /\ g[i] \in Seq(C) /\ Len(g[i]) = L + 1 - i
                      /\ \A k \in 1 .. L + 1 - i : g[i][k] = r[i + k - 1]
           B == {i \in 1 .. L + 1 : ~Rest(i)}
<1>5. Rest(L + 1)
  <2>1. PICK m : m = L + 1
    OBVIOUS
  <2>2. L + 1 - m = 0 /\ g[m] = <<>>
    BY <1>4, <2>1
  <2> QED BY <2>1, <2>2
<1>6. ASSUME NEW i \in B PROVE \E j \in B : j > i
  <2>0. SUFFICES ASSUME \A j \in 1 .. L + 1 : j > i => Rest(j) PROVE Rest(i)
    OBVIOUS
  <2>1. i \in 1 .. L /\ i + 1 \in 1 .. L + 1 /\ i + 1 > i
    BY <1>5
  <2> HIDE DEF B
  <2>2. PICK t, x : t = g[i + 1] /\ x = g[i]
    OBVIOUS
  <2>3. Rest(i + 1)
    BY <2>0, <2>1
  <2>4. t \in Seq(C) /\ Len(t) = L - i /\ \A k \in 1 .. L - i : t[k] = r[i + k]
    <3>1. L + 1 - (i + 1) = L - i /\ \A k \in 1 .. L - i : i + 1 + k - 1 = i + k
      BY <2>1
    <3> QED BY <2>2, <2>3, <3>1
  <2>5. x = <<r[i]>> \o t /\ r[i] \in C
    BY <1>1, <1>3, <2>1, <2>2
  <2>6. x \in Seq(C) /\ Len(x) = Len(t) + 1 /\ x[1] = r[i] /\ \A k \in 1 .. Len(t) : x[k + 1] = t[k]
    BY <2>4, <2>5, PrependIs
  <2>7. Len(x) = L + 1 - i
    BY <2>1, <2>4, <2>6
  <2>8. ASSUME NEW k \in 1 .. L + 1 - i PROVE x[k] = r[i + k - 1]
    <3>1. CASE k = 1
      <4>1. i + k - 1 = i
        BY <2>1, <3>1
      <4> QED BY <2>6, <3>1, <4>1
    <3>2. CASE k # 1
      <4>1. PICK j \in 1 .. L - i : k = j + 1
        <5>1. k - 1 \in 1 .. L - i /\ k = k - 1 + 1
          BY <2>1, <3>2
        <5> QED BY <5>1
      <4>2. i + k - 1 = i + j
        BY <2>1, <4>1
      <4> QED BY <2>4, <2>6, <4>1, <4>2
    <3> QED BY <3>1, <3>2
  <2> QED BY <2>2, <2>6, <2>7, <2>8
<1>7. B = {}
  <2>1. PICK n \in Nat : n = L + 1
    OBVIOUS
  <2>2. B \in SUBSET (1 .. n)
    BY <2>1
  <2> HIDE DEF B
  <2> QED BY <1>6, <2>2, FromTheRight
<1>8. Rest(1)
  BY <1>7
<1>9. PICK d : d = Decoded(r)
  OBVIOUS
<1>10. d \in Seq(C) /\ Len(d) = L /\ \A k \in 1 .. L : d[k] = r[k]
  <2>1. L + 1 - 1 = L /\ \A k \in 1 .. L : 1 + k - 1 = k
    OBVIOUS
  <2> QED BY <1>2, <1>8, <1>9, <2>1
<1>11. d = r
  BY <1>1, <1>10, SeqEqual
<1> QED BY <1>9, <1>11

\* Upper case makes the escapes left canonical.
LEMMA UpperHexIs ==
  ASSUME NEW C, Alphabet(C), NEW s \in Seq(C), NoneNeedless(s)
  PROVE  UpperHex(s) \in Seq(C) /\ FineEscapes(UpperHex(s))
<1>1. PICK L \in Nat : L = Len(s) /\ DOMAIN s = 1 .. L /\ \A i \in 1 .. L : s[i] \in C
  BY LenProperties, ElementOfSeq
<1> DEFINE In(i) == \E j \in {i - 1, i - 2} : j >= 1 /\ Escape(s, j)
<1>2. PICK x : x = UpperHex(s)
  OBVIOUS
<1>3. x = [i \in 1 .. L |-> IF In(i) THEN UpperOf[s[i]] ELSE s[i]]
  BY <1>1, <1>2 DEF UpperHex
<1>4. ASSUME NEW i \in 1 .. L, In(i) PROVE s[i] \in Hex /\ UpperOf[s[i]] \in Hex
  <2>1. PICK j \in {i - 1, i - 2} : j >= 1 /\ Escape(s, j)
    BY <1>4
  <2>2. s[j + 1] \in Hex /\ s[j + 2] \in Hex /\ (i = j + 1 \/ i = j + 2)
    BY <2>1 DEF Escape
  <2>3. s[i] \in Hex
    BY <2>2
  <2> QED BY <2>3, UpperType
<1>5. x \in Seq(C) /\ Len(x) = L
  <2>1. \A i \in 1 .. L : In(i) => UpperOf[s[i]] \in C
    BY <1>4 DEF Alphabet
  <2> HIDE DEF In
  <2>2. x \in [1 .. L -> C]
    BY <1>1, <1>3, <2>1
  <2> QED BY <2>2
<1>6. SUFFICES ASSUME NEW i \in 1 .. L, Escape(x, i) PROVE Fine(x[i + 1], x[i + 2])
  BY <1>2, <1>5 DEF FineEscapes
<1>7. i + 2 <= L /\ x[i] = "%" /\ x[i + 1] \in Hex /\ x[i + 2] \in Hex
  BY <1>5, <1>6 DEF Escape
<1>8. i + 1 \in 1 .. L /\ i + 2 \in 1 .. L
  BY <1>7
<1>9. Escape(s, i)
  <2>1. \A j \in 1 .. L : /\ In(j) => x[j] = UpperOf[s[j]]
                          /\ ~In(j) => x[j] = s[j]
    <3> HIDE DEF In
    <3> QED BY <1>3
  <2> HIDE DEF In
  <2>2. s[i] = "%"
    BY <1>4, <1>7, <2>1, PercentType
  <2>3. s[i + 1] \in Hex /\ s[i + 2] \in Hex
    BY <1>4, <1>7, <1>8, <2>1
  <2> QED BY <1>1, <1>7, <2>2, <2>3 DEF Escape
<1>10. In(i + 1) /\ In(i + 2)
  BY <1>9
<1>11. x[i + 1] = UpperOf[s[i + 1]] /\ x[i + 2] = UpperOf[s[i + 2]]
  <2> HIDE DEF In
  <2> QED BY <1>3, <1>8, <1>10
<1>12. s[i + 1] \in Hex /\ s[i + 2] \in Hex
  BY <1>9 DEF Escape
<1>13. OctetOf[<<UpperOf[s[i + 1]], UpperOf[s[i + 2]]>>] \notin Unreserved
  BY <1>1, <1>9 DEF NoneNeedless, Needless, Octet
<1>14. \A d \in Hex : UpperOf[UpperOf[d]] = UpperOf[d]
  BY QuoteType
<1> QED BY <1>11, <1>12, <1>13, <1>14 DEF Fine

\* And leaves those that are.
LEMMA UpperHexSame ==
  ASSUME NEW C, NEW r \in Seq(C), FineEscapes(r)
  PROVE  UpperHex(r) = r
<1>1. PICK L \in Nat : L = Len(r) /\ DOMAIN r = 1 .. L
  BY LenProperties
<1> DEFINE In(i) == \E j \in {i - 1, i - 2} : j >= 1 /\ Escape(r, j)
<1>2. ASSUME NEW i \in 1 .. L, In(i) PROVE UpperOf[r[i]] = r[i]
  <2>1. PICK j \in {i - 1, i - 2} : j >= 1 /\ Escape(r, j)
    BY <1>2
  <2>2. j \in 1 .. L /\ (i = j + 1 \/ i = j + 2)
    BY <2>1
  <2>3. Fine(r[j + 1], r[j + 2])
    BY <1>1, <2>1, <2>2 DEF FineEscapes
  <2> QED BY <2>2, <2>3 DEF Fine
<1>3. UpperHex(r) = [i \in 1 .. L |-> IF In(i) THEN UpperOf[r[i]] ELSE r[i]]
  BY <1>1 DEF UpperHex
<1> HIDE DEF In
<1>4. UpperHex(r) = [i \in 1 .. L |-> r[i]]
  BY <1>2, <1>3
<1>5. r = [i \in 1 .. L |-> r[i]]
  BY <1>1, LenProperties
<1> QED BY <1>4, <1>5

-----------------------------------------------------------------------------
(* A canonical path.                                                       *)

\* The canonical path of any path, of any length, is canonical: every pass leaves what
\* all of them made.  An escape within an escape is exempt (urlnorm.py:8).
THEOREM PathsStayCanonical == \A S : link \in Seq(S) => CanonicalIsStable
<1>1. SUFFICES ASSUME NEW S, link \in Seq(S), ~Nested(link)
               PROVE  CanonicalPath(CanonicalPath(link)) = CanonicalPath(link)
  BY DEF CanonicalIsStable
<1>2. PICK C : C = S \cup Hex \cup Unreserved \cup {"%", "/"}
  OBVIOUS
<1>3. Alphabet(C) /\ link \in Seq(C)
  <2>1. S \subseteq C /\ Hex \cup Unreserved \cup {"%", "/"} \subseteq C
    BY <1>2
  <2>2. link \in Seq(C)
    <3>1. PICK n \in Nat : n = Len(link) /\ DOMAIN link = 1 .. n /\ \A i \in 1 .. n : link[i] \in S
      BY <1>1, LenProperties, ElementOfSeq
    <3>2. link = [i \in 1 .. n |-> link[i]]
      BY <1>1, <3>1, LenProperties
    <3>3. link \in [1 .. n -> C]
      BY <2>1, <3>1, <3>2
    <3> QED BY <3>3
  <2> QED BY <2>1, <2>2 DEF Alphabet
<1>4. PICK d, u, w, q, r : /\ d = Decoded(link) /\ u = UpperHex(d) /\ w = WithoutDots(u)
                           /\ q = Quoted(w) /\ r = Trimmed(q)
  OBVIOUS
<1>5. d \in Seq(C) /\ NoneNeedless(d)
  BY <1>1, <1>3, <1>4, DecodedOnce
<1>6. u \in Seq(C) /\ FineEscapes(u)
  BY <1>3, <1>4, <1>5, UpperHexIs
<1>7. w \in Seq(C) /\ w # <<>> /\ FineEscapes(w) /\ Dotless(w)
  BY <1>3, <1>4, <1>6, WithoutDotsIs
<1>8. q \in Seq(C) /\ q # <<>> /\ FineEscapes(q) /\ Dotless(q) /\ ToSet(q) \cap Unsafe = {}
  <2>1. "/" \in C
    BY <1>2
  <2>2. q \in Seq(C)
    BY <1>3, <1>4, <1>7, <2>1, QuotedUnfold
  <2>3. FineEscapes(q)
    BY <1>3, <1>4, <1>7, QuotedFine
  <2>4. q # <<>> /\ Dotless(q)
    BY <1>3, <1>4, <1>7, QuotedDotless
  <2>5. ToSet(q) \cap Unsafe = {}
    BY <1>3, <1>4, <1>7, QuotedIs
  <2> QED BY <2>2, <2>3, <2>4, <2>5
<1>9. /\ r \in Seq(C) /\ r # <<>> /\ Dotless(r) /\ FineEscapes(r)
      /\ ToSet(r) \cap Unsafe = {} /\ Trimmed(r) = r
  BY <1>3, <1>4, <1>8, TrimmedIs
<1>10. Decoded(r) = r /\ UpperHex(r) = r
  BY <1>9, DecodedSame, UpperHexSame
<1>11. WithoutDots(r) = r
  BY <1>3, <1>9, WithoutDotsSame
<1>12. Quoted(r) = r
  BY <1>3, <1>9, QuotedIs
<1>13. CanonicalPath(r) = r
  BY <1>9, <1>10, <1>11, <1>12 DEF CanonicalPath
<1>14. CanonicalPath(link) = r
  BY <1>4 DEF CanonicalPath
<1> QED BY <1>13, <1>14
=============================================================================
