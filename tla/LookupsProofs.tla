---------------------------- MODULE LookupsProofs ----------------------------
(***************************************************************************)
(* Proofs about module Lookups, for any coroutines, processes, lifetimes   *)
(* and timeouts, and whatever coroutines a process has.                    *)
(***************************************************************************)
EXTENDS Lookups, TLAPS

-----------------------------------------------------------------------------
(* Types.                                                                  *)

Rules == [reachable : BOOLEAN, allows : BOOLEAN]
GivenRules == [rules : Rules, seen : Nat]
LocalRules == [rules : Rules, seen : Nat, age : Nat]
SharedRules == [rules : Rules, seen : Nat, left : Nat \ {0}]

\* A coroutine that has what the site answered.
Saves(s) == pc[s] \in {"saving", "saved"}

\* What the caches and the coroutines hold: rules with the time since the site
\* gave them, and no fetch beyond its total timeout.
LookupTypes ==
  /\ inflight \in [Processes -> Slots \cup {None}]
  /\ local \in [Processes -> LocalRules \cup {None}]
  /\ shared \in SharedRules \cup {None}
  /\ pc \in [Slots -> Places]
  /\ home \in [Slots -> Processes]
  /\ age \in [Slots -> 0 .. TotalTimeout]
  /\ since \in [Slots -> Nat]
  /\ held \in [Slots -> GivenRules \cup {None}]
  /\ \A s \in Slots : Saves(s) => held[s] \in GivenRules
  /\ used \in GivenRules \cup {None}

\* The lifetimes are positive.
LEMMA TtlType ==
  ASSUME NEW r
  PROVE  Ttl(r) \in Nat \ {0}
BY TimesType DEF Ttl

\* What the site's answer means is a pair of verdicts.
LEMMA RulesOfType ==
  ASSUME NEW reply
  PROVE  RulesOf(reply) \in Rules
<1>1. (reply \in {"open", "closed", "missing"}) \in BOOLEAN
  OBVIOUS
<1>2. (reply \in {"open", "missing"}) \in BOOLEAN
  OBVIOUS
<1> QED BY <1>1, <1>2 DEF RulesOf, Rules

\* What a tick makes of the rules that are held, in the process and in Redis.
LEMMA OlderType ==
  /\ \A e \in GivenRules :
       /\ Older(e) \in GivenRules
       /\ Older(e).rules = e.rules /\ Older(e).seen = e.seen + 1
  /\ \A e \in LocalRules :
       LET f == [Older(e) EXCEPT !.age = @ + 1]
       IN  /\ f \in LocalRules
           /\ f.rules = e.rules /\ f.seen = e.seen + 1 /\ f.age = e.age + 1
  /\ \A e \in SharedRules : e.left # 1 =>
       LET f == Older([e EXCEPT !.left = @ - 1])
       IN  /\ f \in SharedRules
           /\ f.rules = e.rules /\ f.seen = e.seen + 1 /\ f.left = e.left - 1
<1>1. ASSUME NEW e \in GivenRules
      PROVE  /\ Older(e) \in GivenRules
             /\ Older(e).rules = e.rules /\ Older(e).seen = e.seen + 1
  BY DEF Older, GivenRules
<1>2. ASSUME NEW e \in LocalRules
      PROVE  LET f == [Older(e) EXCEPT !.age = @ + 1]
             IN  /\ f \in LocalRules
                 /\ f.rules = e.rules /\ f.seen = e.seen + 1 /\ f.age = e.age + 1
  <2>1. Older(e) = [rules |-> e.rules, seen |-> e.seen + 1, age |-> e.age]
    BY DEF Older, LocalRules
  <2>2. [Older(e) EXCEPT !.age = @ + 1] = [rules |-> e.rules, seen |-> e.seen + 1, age |-> e.age + 1]
    BY <2>1
  <2> QED BY <2>2 DEF LocalRules
<1>3. ASSUME NEW e \in SharedRules, e.left # 1
      PROVE  LET f == Older([e EXCEPT !.left = @ - 1])
             IN  /\ f \in SharedRules
                 /\ f.rules = e.rules /\ f.seen = e.seen + 1 /\ f.left = e.left - 1
  <2>1. [e EXCEPT !.left = @ - 1] = [rules |-> e.rules, seen |-> e.seen, left |-> e.left - 1]
    BY DEF SharedRules
  <2>2. Older([e EXCEPT !.left = @ - 1]) = [rules |-> e.rules, seen |-> e.seen + 1, left |-> e.left - 1]
    <3>1. \A f : f = [rules |-> e.rules, seen |-> e.seen, left |-> e.left - 1] =>
            Older(f) = [rules |-> e.rules, seen |-> e.seen + 1, left |-> e.left - 1]
      BY DEF Older
    <3> QED BY <2>1, <3>1
  <2>3. e.left - 1 \in Nat \ {0} /\ e.seen + 1 \in Nat /\ e.rules \in Rules
    BY <1>3 DEF SharedRules
  <2> QED BY <2>2, <2>3 DEF SharedRules
<1> QED BY <1>1, <1>2, <1>3

\* A tick ages the rules in Redis, or lets them expire.
LEMMA SharedTick ==
  ASSUME shared \in SharedRules \cup {None}, Tick
  PROVE  \/ shared' = None
         \/ /\ shared # None /\ shared.left # 1
            /\ shared' = Older([shared EXCEPT !.left = @ - 1])
BY DEF Tick

\* Empty caches are of the right type.
LEMMA TypeInit == Init => LookupTypes
BY TimesType, LayoutsType DEF Init, LookupTypes, Saves, Places

\* Coroutines that end leave no time and no rules behind.
LEMMA EndType ==
  ASSUME LookupTypes, NEW S, End(S)
  PROVE  /\ age' \in [Slots -> 0 .. TotalTimeout] /\ since' \in [Slots -> Nat]
         /\ held' \in [Slots -> GivenRules \cup {None}]
         /\ \A s \in Slots \ S : age'[s] = age[s] /\ held'[s] = held[s]
         /\ \A s \in S : held'[s] = None \/ s \notin Slots
BY TimesType DEF LookupTypes, End

\* Every lookup, fetch, timeout, restart and tick keeps the types.
LEMMA TypeStep == LookupTypes /\ [Next]_vars => LookupTypes'
<1> SUFFICES ASSUME LookupTypes, [Next]_vars PROVE LookupTypes'
  OBVIOUS
<1> USE DEF Saves, LookupTypes, Places, GivenRules, LocalRules, SharedRules
<1>1. ASSUME NEW s \in Slots, Resolve(s) PROVE LookupTypes'
  <2>1. age' \in [Slots -> 0 .. TotalTimeout]
    BY <1>1, TimesType DEF Resolve
  <2>2. inflight' \in [Processes -> Slots \cup {None}]
    BY <1>1 DEF Resolve
  <2>3. pc' \in [Slots -> Places] /\ \A w \in Slots : Saves(w)' => Saves(w)
    BY <1>1 DEF Resolve
  <2> QED BY <1>1, <2>1, <2>2, <2>3 DEF Resolve, robotsVars
<1>2. ASSUME NEW s \in Slots, NEW ok \in BOOLEAN, Answer(s, ok) PROVE LookupTypes'
  <2>1. inflight' \in [Processes -> Slots \cup {None}]
    BY <1>2 DEF Answer, Pop
  <2>2. pc' \in [Slots -> Places] /\ \A w \in Slots : Saves(w)' =>
          Saves(w) /\ w \notin Waiting(s) \cup {s}
    BY <1>2 DEF Answer
  <2>3. CASE ok
    BY <1>2, <2>1, <2>2, <2>3 DEF Answer, robotsVars
  <2>4. CASE ~ok
    BY <1>2, <2>1, <2>2, <2>4, EndType DEF Answer, robotsVars
  <2> QED BY <2>3, <2>4
<1>3. ASSUME NEW s \in Slots, NEW given \in GivenRules, Judge(s, given)
      PROVE  /\ pc' \in [Slots -> Places] /\ used' \in GivenRules \cup {None}
             /\ \A w \in Slots : Saves(w)' => Saves(w) /\ w # s
             /\ age' \in [Slots -> 0 .. TotalTimeout] /\ since' \in [Slots -> Nat]
             /\ held' \in [Slots -> GivenRules \cup {None}]
             /\ \A w \in Slots : Saves(w)' => held'[w] \in GivenRules
  BY <1>3, EndType DEF Judge
<1>4. ASSUME NEW s \in Slots, AskProcess(s) PROVE LookupTypes'
  <2>1. CASE local[home[s]] # None
    <3>1. Given(local[home[s]]) \in GivenRules
      BY <2>1 DEF Given
    <3> QED BY <1>3, <1>4, <2>1, <3>1 DEF AskProcess, dnsVars, robotsVars
  <2>2. CASE local[home[s]] = None
    BY <1>4, <2>2 DEF AskProcess, Goes, dnsVars, robotsVars
  <2> QED BY <2>1, <2>2
<1>5. ASSUME NEW s \in Slots, AskRedis(s) PROVE LookupTypes'
  <2>1. held' \in [Slots -> GivenRules \cup {None}]
    <3>1. shared # None => Given(shared) \in GivenRules
      BY DEF Given
    <3> QED BY <1>5, <3>1 DEF AskRedis
  <2>2. pc' \in [Slots -> Places] /\ \A w \in Slots : Saves(w)' => Saves(w) /\ held'[w] = held[w]
    BY <1>5 DEF AskRedis
  <2> QED BY <1>5, <2>1, <2>2 DEF AskRedis, dnsVars, robotsVars
<1>12. ASSUME NEW s \in Slots, RedisAnswers(s) PROVE LookupTypes'
  <2>1. CASE held[s] # None
    <3>1. held[s] \in GivenRules
      BY <2>1
    <3>2. local' \in [Processes -> LocalRules \cup {None}]
      BY <1>12, <2>1, <3>1 DEF RedisAnswers
    <3> QED BY <1>3, <1>12, <2>1, <3>1, <3>2 DEF RedisAnswers, dnsVars
  <2>2. CASE held[s] = None
    BY <1>12, <2>2 DEF RedisAnswers, Goes, dnsVars
  <2> QED BY <2>1, <2>2
<1>6. ASSUME NEW s \in Slots, Fetched(s) PROVE LookupTypes'
  <2>1. PICK reply \in Replies :
          LET e == [rules |-> RulesOf(reply), seen |-> since[s], age |-> since[s]]
          IN  /\ local' = [local EXCEPT ![home[s]] = IF e.age > Ttl(e.rules) THEN None ELSE e]
              /\ held' = [held EXCEPT ![s] = Given(e)]
    BY <1>6 DEF Fetched
  <2>2. RulesOf(reply) \in Rules
    BY RulesOfType
  <2>3. local' \in [Processes -> LocalRules \cup {None}]
    BY <2>1, <2>2
  <2>4. held' \in [Slots -> GivenRules \cup {None}]
    BY <2>1, <2>2 DEF Given
  <2>5. Given([rules |-> RulesOf(reply), seen |-> since[s], age |-> since[s]]) \in GivenRules
    BY <2>2 DEF Given
  <2>6. \A w \in Slots : Saves(w)' => held'[w] \in GivenRules
    BY <1>6, <2>1, <2>5 DEF Fetched
  <2> QED BY <1>6, <2>3, <2>4, <2>6 DEF Fetched, dnsVars
<1>7. ASSUME NEW s \in Slots, Save(s) PROVE LookupTypes'
  <2>1. held[s] \in GivenRules
    BY <1>7 DEF Save
  <2>2. shared' \in SharedRules
    BY <1>7, <2>1, TtlType DEF Save
  <2>3. pc' \in [Slots -> Places] /\ \A w \in Slots : Saves(w)' => Saves(w)
    BY <1>7 DEF Save, Goes
  <2> QED BY <1>7, <2>1, <2>2, <2>3 DEF Save, Goes, dnsVars
<1>13. ASSUME NEW s \in Slots, Saved(s) PROVE LookupTypes'
  <2>1. held[s] \in GivenRules
    BY <1>13 DEF Saved
  <2> QED BY <1>3, <1>13, <2>1 DEF Saved, dnsVars, robotsVars
<1>8. ASSUME NEW s \in Slots, Expire(s) PROVE LookupTypes'
  <2>1. inflight' \in [Processes -> Slots \cup {None}]
    BY <1>8 DEF Expire, Pop
  <2>2. pc' \in [Slots -> Places] /\ \A w \in Slots : Saves(w)' => Saves(w) /\ w # s
    BY <1>8 DEF Expire
  <2> QED BY <1>8, <2>1, <2>2, EndType DEF Expire, robotsVars
<1>9. ASSUME NEW p \in Processes, Restart(p) PROVE LookupTypes'
  <2> DEFINE ended == {s \in Slots : home[s] = p}
  <2>1. inflight' \in [Processes -> Slots \cup {None}]
    BY <1>9 DEF Restart
  <2>2. pc' \in [Slots -> Places] /\ \A w \in Slots : Saves(w)' => Saves(w) /\ w \notin ended
    BY <1>9 DEF Restart
  <2>3. End(ended)
    BY <1>9 DEF Restart
  <2> QED BY <1>9, <2>1, <2>2, <2>3, EndType DEF Restart
<1>10. ASSUME Tick PROVE LookupTypes'
  <2>1. age' \in [Slots -> 0 .. TotalTimeout] /\ since' \in [Slots -> Nat]
    BY <1>10, TimesType DEF Tick
  <2>2. local' \in [Processes -> LocalRules \cup {None}]
    <3>1. \A p \in Processes :
            local'[p] = IF local[p] = None \/ local[p].age = Ttl(local[p].rules) THEN None
                        ELSE [Older(local[p]) EXCEPT !.age = @ + 1]
      BY <1>10 DEF Tick
    <3>2. ASSUME NEW p \in Processes PROVE local'[p] \in LocalRules \cup {None}
      <4>1. CASE local[p] = None \/ local[p].age = Ttl(local[p].rules)
        BY <3>1, <4>1
      <4>2. CASE ~(local[p] = None \/ local[p].age = Ttl(local[p].rules))
        <5>1. local[p] \in LocalRules
          BY <4>2
        <5>2. local'[p] = [Older(local[p]) EXCEPT !.age = @ + 1]
          BY <3>1, <4>2
        <5> QED BY <5>1, <5>2, OlderType
      <4> QED BY <4>1, <4>2
    <3>3. local' = [p \in Processes |-> local'[p]]
      BY <1>10 DEF Tick
    <3> QED BY <3>2, <3>3
  <2>3. shared' \in SharedRules \cup {None}
    BY <1>10, SharedTick, OlderType
  <2>4. /\ held' \in [Slots -> GivenRules \cup {None}]
        /\ \A s \in Slots : Saves(s)' => held'[s] \in GivenRules
    BY <1>10, OlderType DEF Tick
  <2> QED BY <1>10, <2>1, <2>2, <2>3, <2>4 DEF Tick
<1>11. ASSUME UNCHANGED vars PROVE LookupTypes'
  BY <1>11 DEF vars, dnsVars, robotsVars, slotVars
<1> QED
  BY <1>1, <1>2, <1>4, <1>5, <1>6, <1>7, <1>8, <1>9, <1>10, <1>11, <1>12, <1>13
  DEF Next, Step

\* The caches and the coroutines keep their types.
THEOREM TypeCorrect == FairSpec => []LookupTypes
BY TypeInit, TypeStep, PTL DEF FairSpec

-----------------------------------------------------------------------------
(* CollapsedLookups.  What makes it inductive is that a registered future  *)
(* is that of a coroutine of this process that is still looking up, and    *)
(* the only one that is.                                                   *)

Registered ==
  /\ \A p \in Processes : inflight[p] # None => pc[inflight[p]] = "leading" /\ home[inflight[p]] = p
  /\ \A s \in Slots : pc[s] = "leading" => inflight[home[s]] = s
  /\ \A s \in Slots : pc[s] = "waiting" => inflight[home[s]] # None

\* It gives what is claimed of concurrent lookups.
LEMMA RegisteredCollapses == LookupTypes /\ Registered => CollapsedLookups
BY DEF LookupTypes, Registered, CollapsedLookups

\* A coroutine that neither leads nor waits may go anywhere but there.
LEMMA MovesOn ==
  ASSUME LookupTypes, Registered, NEW s \in Slots, pc[s] \notin {"leading", "waiting"},
         UNCHANGED <<inflight, home>>,
         \/ UNCHANGED pc
         \/ \E place \in Places \ {"leading", "waiting"} : pc' = [pc EXCEPT ![s] = place]
  PROVE  Registered'
<1>1. \A w \in Slots : pc'[w] = pc[w] \/ (w = s /\ pc'[w] \notin {"leading", "waiting"})
  BY DEF LookupTypes
<1> QED BY <1>1, NoneDiffers DEF LookupTypes, Registered

\* A future is registered by the coroutine that looks up and taken out with it,
\* however that one ends.
LEMMA RegisteredStep == LookupTypes /\ Registered /\ [Next]_vars => Registered'
<1> SUFFICES ASSUME LookupTypes, Registered, [Next]_vars PROVE Registered'
  OBVIOUS
<1>0. /\ inflight \in [Processes -> Slots \cup {None}] /\ pc \in [Slots -> Places]
      /\ home \in [Slots -> Processes] /\ None \notin Slots
  BY NoneDiffers DEF LookupTypes
<1>1. ASSUME NEW s \in Slots, Resolve(s) PROVE Registered'
  <2>1. PICK place \in {"resolved", "waiting", "leading"} :
          /\ pc' = [pc EXCEPT ![s] = place]
          /\ inflight' = [inflight EXCEPT ![home[s]] = IF place = "leading" THEN s ELSE @]
          /\ place = "leading" => inflight[home[s]] = None
          /\ place = "waiting" => inflight[home[s]] # None
    BY <1>1 DEF Resolve
  <2>2. home' = home /\ pc[s] = "idle"
    BY <1>1 DEF Resolve, Busy
  <2> QED BY <1>0, <2>1, <2>2 DEF Registered
<1>2. ASSUME NEW s \in Slots, NEW ok \in BOOLEAN, Answer(s, ok) PROVE Registered'
  <2>1. /\ pc[s] = "leading" /\ home' = home /\ inflight' = [inflight EXCEPT ![home[s]] = None]
        /\ inflight[home[s]] = s
    BY <1>2 DEF Answer, Pop, Registered
  <2>2. \A w \in Slots : \/ w \in Waiting(s) \cup {s} /\ pc'[w] \notin {"leading", "waiting"}
                         \/ w \notin Waiting(s) \cup {s} /\ pc'[w] = pc[w]
    BY <1>0, <1>2 DEF Answer
  <2>3. \A w \in Slots : pc[w] = "waiting" /\ home[w] = home[s] => w \in Waiting(s)
    BY <2>1 DEF Waiting
  <2>4. \A w \in Slots : pc[w] = "leading" /\ w # s => home[w] # home[s] /\ w \notin Waiting(s)
    BY <2>1 DEF Registered, Waiting
  <2> QED BY <1>0, <2>1, <2>2, <2>3, <2>4 DEF Registered
<1>3. ASSUME NEW s \in Slots, AskProcess(s) \/ AskRedis(s) \/ RedisAnswers(s) \/ Fetched(s)
                                   \/ Save(s) \/ Saved(s)
      PROVE  Registered'
  <2>1. /\ pc[s] \notin {"leading", "waiting"} /\ UNCHANGED <<inflight, home>>
        /\ \E place \in Places \ {"leading", "waiting"} : pc' = [pc EXCEPT ![s] = place]
    BY <1>3 DEF AskProcess, AskRedis, RedisAnswers, Fetched, Save, Saved, Judge, Goes, dnsVars, Places
  <2> QED BY <2>1, MovesOn
<1>4. ASSUME NEW s \in Slots, Expire(s) PROVE Registered'
  <2>0. home' = home /\ \A w \in Slots : w = s \/ w \in Waiting(s) => pc'[w] \in {"idle", "orphaned"}
    BY <1>0, <1>4 DEF Expire
  <2>1. \A w \in Slots : w # s /\ w \notin Waiting(s) => pc'[w] = pc[w]
    BY <1>0, <1>4 DEF Expire
  <2>2. CASE pc[s] = "leading"
    <3>1. inflight' = [inflight EXCEPT ![home[s]] = None] /\ inflight[home[s]] = s
      BY <1>4, <2>2 DEF Expire, Pop, Registered
    <3>2. \A w \in Slots : pc[w] = "waiting" /\ home[w] = home[s] => w \in Waiting(s)
      BY <3>1 DEF Waiting
    <3>3. \A w \in Slots : pc[w] = "leading" /\ w # s => home[w] # home[s]
      BY <3>1 DEF Registered
    <3> QED BY <1>0, <2>0, <2>1, <3>1, <3>2, <3>3 DEF Registered, Waiting
  <2>3. CASE pc[s] # "leading"
    <3>1. inflight' = inflight
      BY <1>4, <2>3 DEF Expire
    <3>2. Waiting(s) = {}
      BY <1>0, <2>3 DEF Waiting, Registered
    <3> QED BY <1>0, <2>0, <2>1, <2>3, <3>1, <3>2 DEF Registered
  <2> QED BY <2>2, <2>3
<1>5. ASSUME NEW p \in Processes, Restart(p) PROVE Registered'
  <2>1. /\ home' = home /\ inflight' = [inflight EXCEPT ![p] = None]
        /\ \A s \in Slots : pc'[s] = IF home[s] = p THEN "idle" ELSE pc[s]
    BY <1>5 DEF Restart
  <2> QED BY <1>0, <2>1 DEF Registered
<1>6. ASSUME Tick PROVE Registered'
  BY <1>6 DEF Tick, Registered
<1>7. ASSUME UNCHANGED vars PROVE Registered'
  BY <1>7 DEF vars, dnsVars, slotVars, Registered
<1> QED BY <1>1, <1>2, <1>3, <1>4, <1>5, <1>6, <1>7 DEF Next, Step

\* Whoever waits for a lookup waits for one that is under way, and a process has
\* one at a time of a host, for any number of coroutines and processes.
THEOREM LookupsCollapse == FairSpec => []CollapsedLookups
<1>1. Init => Registered
  BY LayoutsType DEF Init, Registered
<1> QED BY <1>1, RegisteredStep, RegisteredCollapses, TypeInit, TypeStep, PTL DEF FairSpec

-----------------------------------------------------------------------------
(* RulesLiveTwice.  Rules grow old in three places one after the other,    *)
(* and each place is bounded by what is left of the time before it.        *)

\* A request has lasted no longer than the fetch it belongs to.
SinceAge == \A s \in Slots : since[s] <= age[s] /\ (pc[s] = "idle" => since[s] = 0)

\* What the site answered is held no longer than the fetch may last, what Redis
\* answered no longer than that after it was read.
HeldAge ==
  \A s \in Slots :
    /\ Saves(s) => held[s].seen <= age[s]
    /\ pc[s] = "answered" /\ held[s] # None =>
         held[s].seen < age[s] + TotalTimeout + Ttl(held[s].rules)

\* In Redis a lifetime more.
SharedAge == shared # None => shared.seen + shared.left <= TotalTimeout + Ttl(shared.rules)

\* In a process a lifetime from when they came there.
LocalFresh(e) ==
  /\ e.age <= Ttl(e.rules)
  /\ e.seen < e.age + 2 * TotalTimeout + Ttl(e.rules)

LocalAge == \A p \in Processes : local[p] # None => LocalFresh(local[p])

UsedFresh(e) == e.seen < 2 * TotalTimeout + 2 * Ttl(e.rules)

UsedAge == used # None => UsedFresh(used)

RulesInv == HeldAge /\ SharedAge /\ LocalAge /\ UsedAge

\* Timers count together, and a coroutine that ends resets both.
LEMMA SinceStep == LookupTypes /\ SinceAge /\ [Next]_vars => SinceAge'
<1> SUFFICES ASSUME LookupTypes, SinceAge, [Next]_vars, NEW w \in Slots
             PROVE  since'[w] <= age'[w] /\ (pc'[w] = "idle" => since'[w] = 0)
  BY DEF SinceAge
<1>0. /\ pc \in [Slots -> Places] /\ age \in [Slots -> 0 .. TotalTimeout]
      /\ since \in [Slots -> Nat] /\ TotalTimeout \in Nat \ {0}
      /\ since[w] <= age[w] /\ (pc[w] = "idle" => since[w] = 0)
  BY TimesType DEF LookupTypes, SinceAge
<1> DEFINE Goal == since'[w] <= age'[w] /\ (pc'[w] = "idle" => since'[w] = 0)
<1>1. ASSUME NEW s \in Slots, Resolve(s) PROVE Goal
  <2>1. CASE w = s
    BY <1>0, <1>1, <2>1 DEF Resolve, Busy
  <2>2. CASE w # s
    BY <1>0, <1>1, <2>2 DEF Resolve
  <2> QED BY <2>1, <2>2
<1>2. ASSUME NEW s \in Slots, NEW ok \in BOOLEAN, Answer(s, ok) PROVE Goal
  <2>1. CASE ok
    BY <1>0, <1>2, <2>1 DEF Answer
  <2>2. CASE ~ok
    BY <1>0, <1>2, <2>2 DEF Answer, End
  <2> QED BY <2>1, <2>2
<1>3. ASSUME NEW s \in Slots, NEW given, Judge(s, given) PROVE Goal
  BY <1>0, <1>3 DEF Judge, End
<1>4. ASSUME NEW s \in Slots, NEW place \in Places \ {"idle"}, Goes(s, place) PROVE Goal
  BY <1>0, <1>4 DEF Goes
<1>5. ASSUME NEW s \in Slots, AskProcess(s) \/ RedisAnswers(s) \/ Save(s) \/ Saved(s) PROVE Goal
  BY <1>3, <1>4, <1>5 DEF AskProcess, RedisAnswers, Save, Saved, Places
<1>6. ASSUME NEW s \in Slots, AskRedis(s) \/ Fetched(s) PROVE Goal
  BY <1>0, <1>6 DEF AskRedis, Fetched
<1>7. ASSUME NEW s \in Slots, Expire(s) PROVE Goal
  BY <1>0, <1>7 DEF Expire, End
<1>8. ASSUME NEW p \in Processes, Restart(p) PROVE Goal
  BY <1>0, <1>8 DEF Restart, End
<1>9. ASSUME Tick PROVE Goal
  <2>1. pc'[w] = pc[w] /\ (Busy(w) => age[w] # TotalTimeout)
    BY <1>9 DEF Tick, Overdue
  <2>2. age'[w] = IF Busy(w) THEN age[w] + 1 ELSE age[w]
    <3>1. age'[w] = IF Busy(w) /\ age[w] < TotalTimeout THEN age[w] + 1 ELSE age[w]
      BY <1>9 DEF Tick
    <3>2. age[w] \in 0 .. TotalTimeout
      BY <1>0
    <3> QED BY <1>0, <2>1, <3>1, <3>2
  <2>3. since'[w] = IF pc[w] \in {"leading", "fetching"} THEN since[w] + 1 ELSE since[w]
    BY <1>9 DEF Tick
  <2> QED BY <1>0, <2>1, <2>2, <2>3 DEF Busy
<1>10. ASSUME UNCHANGED vars PROVE Goal
  BY <1>0, <1>10 DEF vars, slotVars
<1> QED BY <1>1, <1>2, <1>5, <1>6, <1>7, <1>8, <1>9, <1>10 DEF Next, Step

\* A coroutine that saves is within its fetch's time.
LEMMA SavingTypes ==
  ASSUME LookupTypes, NEW s \in Slots, Saves(s)
  PROVE  held[s] \in GivenRules /\ age[s] \in Nat /\ age[s] <= TotalTimeout
BY TimesType DEF LookupTypes

\* Who holds rules after a step held them before it, as long.
Kept(w) ==
  /\ Saves(w)' => Saves(w) /\ held'[w] = held[w] /\ age'[w] = age[w]
  /\ pc'[w] = "answered" => pc[w] = "answered" /\ held'[w] = held[w] /\ age'[w] = age[w]

\* When a coroutine ends or goes on, the others still hold what they held.
LEMMA HeldStep ==
  ASSUME HeldAge, \A w \in Slots : Kept(w)
  PROVE  HeldAge'
BY DEF HeldAge, Kept, Ttl

\* No step lets rules outlive the bound of the place they are in.
LEMMA RulesStep == LookupTypes /\ LookupTypes' /\ SinceAge /\ RulesInv /\ [Next]_vars => RulesInv'
<1> SUFFICES ASSUME LookupTypes, LookupTypes', SinceAge, RulesInv, [Next]_vars PROVE RulesInv'
  OBVIOUS
<1>0. /\ pc \in [Slots -> Places] /\ home \in [Slots -> Processes]
      /\ age \in [Slots -> 0 .. TotalTimeout]
      /\ local \in [Processes -> LocalRules \cup {None}] /\ shared \in SharedRules \cup {None}
      /\ since \in [Slots -> Nat] /\ held \in [Slots -> GivenRules \cup {None}]
      /\ TotalTimeout \in Nat \ {0} /\ HeldAge /\ SharedAge /\ LocalAge /\ UsedAge
  BY TimesType DEF LookupTypes, RulesInv
<1> DEFINE Quiet == UNCHANGED <<local, shared>> /\ used' = None /\ \A w \in Slots : Kept(w)
<1>q. ASSUME Quiet PROVE RulesInv'
  BY <1>0, <1>q, HeldStep DEF RulesInv, SharedAge, LocalAge, LocalFresh, UsedAge, UsedFresh, Ttl
<1>j. ASSUME NEW s \in Slots, NEW given, Judge(s, given)
      PROVE  used' = given /\ HeldAge'
  <2>1. used' = given /\ \A w \in Slots : Kept(w)
    BY <1>0, <1>j DEF Judge, End, Kept, Saves
  <2> QED BY <1>0, <2>1, HeldStep
<1>g. ASSUME NEW s \in Slots, NEW place \in Places \ {"saving", "saved", "answered"}, Goes(s, place)
      PROVE  used' = None /\ \A w \in Slots : Kept(w)
  BY <1>0, <1>g DEF Goes, Kept, Saves
<1>1. ASSUME NEW s \in Slots, Resolve(s) PROVE RulesInv'
  <2>1. Quiet
    BY <1>0, <1>1 DEF Resolve, robotsVars, Busy, Kept, Saves
  <2> QED BY <2>1, <1>q
<1>2. ASSUME NEW s \in Slots, NEW ok \in BOOLEAN, Answer(s, ok) PROVE RulesInv'
  <2>1. UNCHANGED <<local, shared>> /\ used' = None
    BY <1>2 DEF Answer, robotsVars
  <2>2. ASSUME NEW w \in Slots PROVE Kept(w)
    <3>1. CASE w \in Waiting(s) \cup {s}
      BY <1>0, <1>2, <3>1 DEF Answer, Kept, Saves
    <3>2. CASE w \notin Waiting(s) \cup {s}
      BY <1>0, <1>2, <3>2 DEF Answer, End, Kept, Saves
    <3> QED BY <3>1, <3>2
  <2> QED BY <2>1, <2>2, <1>q
<1>3. ASSUME NEW s \in Slots, AskProcess(s) PROVE RulesInv'
  <2>1. CASE local[home[s]] # None
    <3>1. used' = Given(local[home[s]]) /\ HeldAge' /\ UNCHANGED <<local, shared>>
      BY <1>0, <1>3, <1>j, <2>1 DEF AskProcess, robotsVars
    <3>2. local[home[s]] \in LocalRules /\ LocalFresh(local[home[s]])
      BY <1>0, <2>1 DEF LocalAge
    <3>3. UsedFresh(Given(local[home[s]]))
      BY <1>0, <3>2, TtlType DEF LocalFresh, UsedFresh, Given, LocalRules
    <3> QED BY <1>0, <3>1, <3>3 DEF RulesInv, SharedAge, LocalAge, LocalFresh, UsedAge, UsedFresh,
            Ttl
  <2>2. CASE local[home[s]] = None
    <3>1. Goes(s, "asking") /\ UNCHANGED <<local, shared>>
      BY <1>3, <2>2 DEF AskProcess, robotsVars
    <3> QED BY <3>1, <1>g, <1>q DEF Places
  <2> QED BY <2>1, <2>2
<1>4. ASSUME NEW s \in Slots, AskRedis(s) PROVE RulesInv'
  <2>1. /\ UNCHANGED <<local, shared, age>> /\ used' = None /\ pc' = [pc EXCEPT ![s] = "answered"]
        /\ held' = [held EXCEPT ![s] = IF shared = None THEN None ELSE Given(shared)]
    BY <1>4 DEF AskRedis, robotsVars
  <2>2. held'[s] # None => held'[s].seen < age[s] + TotalTimeout + Ttl(held'[s].rules)
    <3>1. CASE shared # None
      <4>1. shared \in SharedRules /\ shared.seen + shared.left <= TotalTimeout + Ttl(shared.rules)
        BY <1>0, <3>1 DEF SharedAge
      <4>2. shared.seen < age[s] + TotalTimeout + Ttl(shared.rules)
        BY <1>0, <4>1, TtlType DEF SharedRules
      <4>3. held'[s].seen = shared.seen /\ held'[s].rules = shared.rules
        BY <1>0, <2>1, <3>1 DEF Given
      <4> QED BY <4>2, <4>3
    <3> QED BY <1>0, <2>1, <3>1
  <2>3. ASSUME NEW w \in Slots
        PROVE  /\ Saves(w)' => held'[w].seen <= age'[w]
               /\ pc'[w] = "answered" /\ held'[w] # None =>
                    held'[w].seen < age'[w] + TotalTimeout + Ttl(held'[w].rules)
    <3>1. CASE w = s
      BY <1>0, <2>1, <2>2, <3>1 DEF Saves
    <3>2. CASE w # s
      BY <1>0, <2>1, <3>2 DEF HeldAge, Saves
    <3> QED BY <3>1, <3>2
  <2>4. HeldAge'
    BY <2>3 DEF HeldAge, Ttl
  <2> QED BY <1>0, <2>1, <2>4 DEF RulesInv, SharedAge, LocalAge, LocalFresh, UsedAge, UsedFresh, Ttl
<1>11. ASSUME NEW s \in Slots, RedisAnswers(s) PROVE RulesInv'
  <2>1. CASE held[s] # None
    <3>1. /\ used' = held[s] /\ HeldAge' /\ shared' = shared
          /\ local' = [local EXCEPT ![home[s]] =
                         [rules |-> held[s].rules, seen |-> held[s].seen, age |-> 0]]
      BY <1>0, <1>11, <1>j, <2>1 DEF RedisAnswers
    <3>2. held[s] \in GivenRules
      BY <1>0, <2>1
    <3>3. held[s].seen < age[s] + TotalTimeout + Ttl(held[s].rules)
      BY <1>0, <1>11, <2>1 DEF RedisAnswers, HeldAge
    <3>4. held[s].seen \in Nat /\ held[s].seen < 2 * TotalTimeout + Ttl(held[s].rules)
      BY <1>0, <3>2, <3>3, TtlType DEF GivenRules
    <3>5. UsedFresh(held[s])
      BY <1>0, <3>4, TtlType DEF UsedFresh
    <3>6. LocalAge'
      <4> SUFFICES ASSUME NEW p \in Processes, local'[p] # None PROVE LocalFresh(local'[p])
        BY DEF LocalAge, LocalFresh, Ttl
      <4>1. CASE p = home[s]
        BY <1>0, <3>1, <3>4, <4>1, TtlType DEF LocalFresh
      <4>2. CASE p # home[s]
        BY <1>0, <3>1, <4>2 DEF LocalAge
      <4> QED BY <4>1, <4>2
    <3> QED BY <1>0, <3>1, <3>5, <3>6 DEF RulesInv, SharedAge, UsedAge, UsedFresh, Ttl
  <2>2. CASE held[s] = None
    <3>1. Goes(s, "fetching") /\ UNCHANGED <<local, shared>>
      BY <1>11, <2>2 DEF RedisAnswers
    <3> QED BY <3>1, <1>g, <1>q DEF Places
  <2> QED BY <2>1, <2>2
<1>5. ASSUME NEW s \in Slots, Fetched(s) PROVE RulesInv'
  <2>1. PICK reply \in Replies :
          LET e == [rules |-> RulesOf(reply), seen |-> since[s], age |-> since[s]]
          IN  /\ local' = [local EXCEPT ![home[s]] = IF e.age > Ttl(e.rules) THEN None ELSE e]
              /\ held' = [held EXCEPT ![s] = Given(e)]
    BY <1>5 DEF Fetched
  <2>2. UNCHANGED <<shared, age>> /\ used' = None /\ pc' = [pc EXCEPT ![s] = "saving"]
    BY <1>5 DEF Fetched
  <2>3. HeldAge'
    <3>1. held'[s].seen = since[s] /\ since[s] <= age[s]
      BY <1>0, <2>1 DEF Given, SinceAge
    <3>2. \A w \in Slots \ {s} : pc'[w] = pc[w] /\ held'[w] = held[w] /\ age'[w] = age[w]
      BY <1>0, <2>1, <2>2
    <3> QED BY <1>0, <2>2, <3>1, <3>2 DEF HeldAge, Saves, Ttl
  <2>4. LocalAge'
    <3> SUFFICES ASSUME NEW p \in Processes, local'[p] # None PROVE LocalFresh(local'[p])
      BY DEF LocalAge, LocalFresh, Ttl
    <3>1. CASE p = home[s]
      <4>1. local'[p] = [rules |-> RulesOf(reply), seen |-> since[s], age |-> since[s]]
            /\ since[s] <= Ttl(RulesOf(reply))
        BY <1>0, <2>1, <3>1, TtlType
      <4> QED BY <1>0, <4>1, TtlType DEF LocalFresh
    <3>2. CASE p # home[s]
      BY <1>0, <2>1, <3>2 DEF LocalAge
    <3> QED BY <3>1, <3>2
  <2> QED BY <1>0, <2>2, <2>3, <2>4 DEF RulesInv, SharedAge, UsedAge, Ttl
<1>12. ASSUME NEW s \in Slots, Saves(s) PROVE held[s] \in GivenRules /\ held[s].seen <= TotalTimeout
  <2>1. held[s] \in GivenRules /\ age[s] \in Nat /\ age[s] <= TotalTimeout
    BY <1>12, SavingTypes
  <2>2. held[s].seen <= age[s]
    BY <1>0, <1>12 DEF HeldAge
  <2> QED BY <1>0, <2>1, <2>2 DEF GivenRules
<1>6. ASSUME NEW s \in Slots, Save(s) PROVE RulesInv'
  <2>1. /\ UNCHANGED <<local, held, age>> /\ used' = None /\ pc[s] = "saving"
        /\ pc' = [pc EXCEPT ![s] = "saved"]
        /\ shared' = [rules |-> held[s].rules, seen |-> held[s].seen, left |-> Ttl(held[s].rules)]
    BY <1>6 DEF Save, Goes
  <2>2. HeldAge'
    <3>1. \A w \in Slots : (Saves(w)' => Saves(w)) /\ (pc'[w] = "answered" => pc[w] = "answered")
      BY <1>0, <2>1 DEF Saves
    <3> QED BY <1>0, <2>1, <3>1 DEF HeldAge, Ttl
  <2>3. SharedAge'
    BY <1>0, <1>12, <2>1, TtlType DEF SharedAge, GivenRules, Ttl, Saves
  <2> QED BY <1>0, <2>1, <2>2, <2>3 DEF RulesInv, LocalAge, LocalFresh, UsedAge, Ttl
<1>13. ASSUME NEW s \in Slots, Saved(s) PROVE RulesInv'
  <2>1. used' = held[s] /\ HeldAge' /\ UNCHANGED <<local, shared>> /\ Saves(s)
    BY <1>0, <1>13, <1>j DEF Saved, Saves, robotsVars
  <2>2. UsedFresh(held[s])
    BY <1>0, <1>12, <2>1, TtlType DEF UsedFresh, GivenRules
  <2> QED BY <1>0, <2>1, <2>2 DEF RulesInv, SharedAge, LocalAge, LocalFresh, UsedAge, UsedFresh, Ttl
<1>7. ASSUME NEW s \in Slots, Expire(s) PROVE RulesInv'
  <2>1. Quiet
    BY <1>0, <1>7 DEF Expire, End, robotsVars, Kept, Saves
  <2> QED BY <2>1, <1>q
<1>8. ASSUME NEW p \in Processes, Restart(p) PROVE RulesInv'
  <2>1. HeldAge'
    <3>1. \A w \in Slots : Kept(w)
      BY <1>0, <1>8 DEF Restart, End, Kept, Saves
    <3> QED BY <1>0, <3>1, HeldStep
  <2>2. /\ shared' = shared /\ used' = None
        /\ \A q \in Processes : local'[q] = local[q] \/ local'[q] = None
    BY <1>0, <1>8 DEF Restart
  <2> QED BY <1>0, <2>1, <2>2 DEF RulesInv, SharedAge, LocalAge, LocalFresh, UsedAge, Ttl
<1>9. ASSUME Tick PROVE RulesInv'
  <2>1. HeldAge'
    <3> SUFFICES ASSUME NEW s \in Slots
                 PROVE  /\ Saves(s)' => held'[s].seen <= age'[s]
                        /\ pc'[s] = "answered" /\ held'[s] # None =>
                             held'[s].seen < age'[s] + TotalTimeout + Ttl(held'[s].rules)
      BY DEF HeldAge, Ttl
    <3>1. pc'[s] = pc[s] /\ (Busy(s) => age'[s] = age[s] + 1)
      <4>1. Busy(s) => age[s] # TotalTimeout
        BY <1>9 DEF Tick, Overdue
      <4>2. age'[s] = IF Busy(s) /\ age[s] < TotalTimeout THEN age[s] + 1 ELSE age[s]
        BY <1>9 DEF Tick
      <4>3. age[s] \in 0 .. TotalTimeout /\ pc'[s] = pc[s]
        BY <1>0, <1>9 DEF Tick
      <4> QED BY <1>0, <4>1, <4>2, <4>3
    <3>2. /\ held[s] = None => held'[s] = held[s]
          /\ held[s] # None => held'[s].seen = held[s].seen + 1 /\ held'[s].rules = held[s].rules
      BY <1>0, <1>9, OlderType DEF Tick
    <3>3. held[s] # None => held[s].seen \in Nat /\ Ttl(held[s].rules) \in Nat
      BY <1>0, TtlType DEF GivenRules
    <3>4. CASE Saves(s)
      <4>1. held[s].seen \in Nat /\ held[s].seen <= age[s] /\ Busy(s) /\ pc[s] # "answered"
        BY <1>0, <3>4, SavingTypes DEF HeldAge, Saves, Busy, GivenRules
      <4> QED BY <1>0, <3>1, <3>2, <4>1
    <3>5. CASE pc[s] = "answered" /\ held[s] # None
      <4>1. held[s].seen < age[s] + TotalTimeout + Ttl(held[s].rules) /\ Busy(s) /\ ~Saves(s)
        BY <1>0, <3>5 DEF HeldAge, Saves, Busy
      <4>2. ~Saves(s)'
        BY <3>1, <4>1 DEF Saves
      <4> QED BY <1>0, <3>1, <3>2, <3>3, <3>5, <4>1, <4>2
    <3>6. CASE ~Saves(s) /\ ~(pc[s] = "answered" /\ held[s] # None)
      BY <3>1, <3>2, <3>6 DEF Saves
    <3> QED BY <3>4, <3>5, <3>6
  <2>2. SharedAge'
    <3>1. CASE shared' = None
      BY <3>1 DEF SharedAge
    <3>2. CASE /\ shared # None /\ shared.left # 1
               /\ shared' = Older([shared EXCEPT !.left = @ - 1])
      <4>1. shared \in SharedRules
        BY <1>0, <3>2
      <4>2. /\ shared'.rules = shared.rules /\ shared'.seen = shared.seen + 1
            /\ shared'.left = shared.left - 1
        BY <3>2, <4>1, OlderType
      <4>3. shared.seen + shared.left <= TotalTimeout + Ttl(shared.rules)
        BY <1>0, <3>2 DEF SharedAge
      <4> QED BY <1>0, <4>1, <4>2, <4>3, TtlType DEF SharedAge, SharedRules
    <3> QED BY <1>0, <1>9, <3>1, <3>2, SharedTick
  <2>3. LocalAge'
    <3> SUFFICES ASSUME NEW p \in Processes, local'[p] # None PROVE LocalFresh(local'[p])
      BY DEF LocalAge, LocalFresh, Ttl
    <3>1. /\ local[p] # None /\ local[p].age # Ttl(local[p].rules)
          /\ local'[p] = [Older(local[p]) EXCEPT !.age = @ + 1]
      BY <1>9 DEF Tick
    <3>2. local[p] \in LocalRules
      BY <1>0, <3>1
    <3>3. /\ local'[p].rules = local[p].rules /\ local'[p].seen = local[p].seen + 1
          /\ local'[p].age = local[p].age + 1
      BY <3>1, <3>2, OlderType
    <3>4. LocalFresh(local[p])
      BY <1>0, <3>1 DEF LocalAge
    <3> QED BY <1>0, <3>1, <3>2, <3>3, <3>4, TtlType DEF LocalRules, LocalFresh
  <2>4. UsedAge'
    BY <1>9 DEF Tick, UsedAge
  <2> QED BY <2>1, <2>2, <2>3, <2>4 DEF RulesInv
<1>10. ASSUME UNCHANGED vars PROVE RulesInv'
  BY <1>0, <1>10 DEF vars, robotsVars, slotVars, RulesInv, HeldAge, Saves, SharedAge,
     LocalAge, LocalFresh, UsedAge, UsedFresh, Ttl
<1> QED
  BY <1>1, <1>2, <1>3, <1>4, <1>5, <1>6, <1>7, <1>8, <1>9, <1>10, <1>11, <1>13
  DEF Next, Step

\* No URL is ever judged by rules the site was asked for more than two fetches
\* and two lifetimes ago, that of a site that could not be asked being the shorter.
THEOREM RulesAreFresh == FairSpec => []RulesLiveTwice
<1>1. Init => SinceAge /\ RulesInv
  BY LayoutsType DEF Init, SinceAge, RulesInv, HeldAge, Saves, SharedAge, LocalAge, UsedAge
<1>2. RulesInv => RulesLiveTwice
  BY DEF RulesInv, UsedAge, UsedFresh, RulesLiveTwice, Ttl
<1> QED BY <1>1, <1>2, SinceStep, RulesStep, TypeInit, TypeStep, PTL DEF FairSpec
=============================================================================
