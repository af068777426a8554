--------------------------- MODULE FrontierProofs ---------------------------
(***************************************************************************)
(* Proofs about module Frontier, for any set of hosts, URLs, processes and *)
(* slots and any values of the bounds.                                     *)
(***************************************************************************)
EXTENDS Frontier, FiniteSetTheorems, SequenceTheorems, TLAPS

-----------------------------------------------------------------------------
(* Lemmas about the operators of the model.                                *)

\* A process has a number of free slots.
LEMMA FreeSlotsCount ==
  ASSUME NEW w
  PROVE  Cardinality(FreeSlots(w)) \in Nat
<1>1. IsFiniteSet(FreeSlots(w))
  BY SlotsFinite, FS_Subset, FreeSlots(w) \in SUBSET Slots DEF FreeSlots, SlotsOf
<1> QED BY <1>1, FS_CardinalityType

\* What the Redis commands leave behind has the right type.
HeapType == heap \subseteq Hosts /\ due \in [Hosts -> Int] /\ cut \subseteq Hosts

\* Registering a host keeps the heap a set of hosts with their due times.
LEMMA ZAddType ==
  ASSUME HeapType, NEW h \in Hosts, NEW d \in Int, ZAdd(h, d)
  PROVE  HeapType'
BY DEF ZAdd, HeapType

\* Dropping a host from the heap does, too.
LEMMA ZRemType ==
  ASSUME HeapType, NEW h \in Hosts, ZRem(h)
  PROVE  HeapType'
BY DEF ZRem, HeapType

\* A push keeps every back queue a sequence of URLs.
LEMMA RPushType ==
  ASSUME bq \in [Hosts -> Seq(Urls)], NEW u \in Urls, RPush(u)
  PROVE  bq' \in [Hosts -> Seq(Urls)]
BY HostOfType DEF RPush

\* The front band's ZADD writes a band there is: _band_for stays in range.
LEMMA ZAddFrontType ==
  ASSUME front \subseteq (0 .. NBands - 1) \X Urls, NEW u \in Urls,
         ZAddFront(u)
  PROVE  front' \subseteq (0 .. NBands - 1) \X Urls
<1>1. BandFor(PriorityOf[u]) \in 0 .. NBands - 1
  <2>1. (PriorityOf[u] * NBands) \div 1000 \in Int
    BY PriorityOfType DEF NBands
  <2> QED BY <2>1 DEF BandFor, NBands
<1> QED BY <1>1 DEF ZAddFront

-----------------------------------------------------------------------------
(* Type correctness.                                                       *)

\* An empty Redis and idle workers are of the right type.
LEMMA TypeInit == Init => TypeOK
BY DEF Init, TypeOK, SlotStates, NoRecrawl, KeyFates

\* Every step of a worker, a refresh, a crash or the clock keeps the types.
LEMMA TypeStep == TypeOK /\ [Next]_vars => TypeOK'
<1> SUFFICES ASSUME TypeOK, [Next]_vars PROVE TypeOK'
  OBVIOUS
<1> USE HostOfType, WorkerOfType, BoundsType DEF TypeOK, SlotStates
<1>1. ASSUME NEW u \in Urls, Enqueue(u) PROVE TypeOK'
  <2>1. front' \subseteq (0 .. NBands - 1) \X Urls
    BY <1>1, ZAddFrontType DEF Enqueue
  <2>2. bq' = bq \/ RPush(u)
    BY <1>1 DEF Enqueue
  <2>3. HeapType'
    <3>1. UNCHANGED heapVars \/ ZAdd(HostOf[u], 0)
      BY <1>1 DEF Enqueue
    <3> QED BY <3>1, ZAddType, HostOf[u] \in Hosts DEF HeapType, heapVars
  <2>4. fate' = fate \/ \E how \in {"none", "refused"} : Leaves(u, how)
    BY <1>1 DEF Enqueue
  <2>5. fate' \in [Urls -> {"none", "finished", "refused", "lost"}]
    BY <2>4 DEF Leaves
  <2>6. inq' \subseteq Urls
    <3>1. inq' = inq \/ inq' = inq \cup {u}
      BY <1>1 DEF Enqueue
    <3> QED BY <3>1
  <2>7. admitted' \in [Urls -> Nat]
    <3>1. admitted' = [admitted EXCEPT ![u] = @ + 1]
      BY <1>1 DEF Enqueue
    <3> QED BY <3>1
  <2> QED BY <1>1, <2>1, <2>2, <2>3, <2>5, <2>6, <2>7, RPushType
          DEF Enqueue, HeapType, keyVars, callVars, taskVars
<1>2. ASSUME NEW w \in Workers, StartLease(w) PROVE TypeOK'
  BY <1>2, FreeSlotsCount DEF StartLease, redisVars, heapVars, keyVars, taskVars
<1>3. ASSUME NEW w \in Workers, LeaseNone(w) PROVE TypeOK'
  BY <1>3 DEF LeaseNone, EndCall, redisVars, heapVars, keyVars, taskVars
<1>4. ASSUME NEW w \in Workers, LeaseStale(w) PROVE TypeOK'
  <2>1. HeapType'
    BY <1>4, ZRemType DEF LeaseStale, Ripest, DueHosts, HeapType
  <2>2. left' \in [Workers -> Nat] /\ age' \in [Workers -> Nat]
    BY <1>4 DEF LeaseStale, EndCall
  <2>3. /\ st' \in [Slots -> SlotStates]
        /\ \A s \in Slots : st'[s] # "free" => st[s] # "free"
    BY <1>4 DEF LeaseStale, EndCall
  <2> QED BY <1>4, <2>1, <2>2, <2>3 DEF LeaseStale, HeapType, keyVars
<1>5. ASSUME NEW w \in Workers, LeaseTake(w) PROVE TypeOK'
  <2>1. PICK h \in Ripest(w), s \in FreeSlots(w) :
          /\ bq[h] # <<>>
          /\ bq' = [bq EXCEPT ![h] = Tail(@)]
          /\ Reschedule(w, h)
          /\ st' = [st EXCEPT ![s] = "popped"]
          /\ url' = [url EXCEPT ![s] = Head(bq[h])]
    BY <1>5 DEF LeaseTake
  <2>2. h \in Hosts /\ s \in Slots
    BY DEF Ripest, DueHosts, FreeSlots, SlotsOf
  <2>3. Head(bq[h]) \in Urls /\ Tail(bq[h]) \in Seq(Urls)
    BY <2>1, <2>2
  <2>4. HeapType'
    <3>1. LeaseDelay - age[w] \in Int
      OBVIOUS
    <3> QED BY <2>1, <2>2, <3>1, ZAddType, ZRemType DEF Reschedule, HeapType
  <2>5. bq' \in [Hosts -> Seq(Urls)]
    BY <2>1, <2>2, <2>3
  <2>6. /\ st' \in [Slots -> SlotStates] /\ url' \in [Slots -> Urls \cup {None}]
        /\ \A t \in Slots : st'[t] # "free" => url'[t] \in Urls
    BY <2>1, <2>2, <2>3
  <2> QED BY <1>5, <2>4, <2>5, <2>6 DEF LeaseTake, HeapType, keyVars, callVars
<1>6. ASSUME NEW s \in Slots, SetToken(s) PROVE TypeOK'
  BY <1>6 DEF SetToken, KeyFates, heapVars, callVars
<1>7. ASSUME NEW s \in Slots, SRemTask(s) PROVE TypeOK'
  <2>1. WorkerOf[s] \in Workers
    OBVIOUS
  <2>2. left' \in [Workers -> Nat]
    <3>1. \/ left' = [left EXCEPT ![WorkerOf[s]] = @ - 1] /\ left[WorkerOf[s]] > 1
          \/ left' = [left EXCEPT ![WorkerOf[s]] = 0]
      BY <1>7 DEF SRemTask, EndCall
    <3>2. left[WorkerOf[s]] \in Nat
      BY <2>1
    <3>3. left[WorkerOf[s]] > 1 => left[WorkerOf[s]] - 1 \in Nat
      BY <3>2
    <3>4. CASE left' = [left EXCEPT ![WorkerOf[s]] = 0]
      BY <3>4
    <3>5. CASE left' = [left EXCEPT ![WorkerOf[s]] = @ - 1] /\ left[WorkerOf[s]] > 1
      BY <3>3, <3>5
    <3> QED BY <3>1, <3>4, <3>5
  <2>5. age' \in [Workers -> Nat]
    <3>1. CASE age' = age
      BY <3>1
    <3>2. CASE age' = [age EXCEPT ![WorkerOf[s]] = 0]
      BY <3>2
    <3> QED BY <1>7, <3>1, <3>2 DEF SRemTask, EndCall
  <2>3. /\ st' \in [Slots -> SlotStates]
        /\ \A t \in Slots : st'[t] # "free" => st[t] # "free"
    BY <1>7 DEF SRemTask, EndCall
  <2>4. inq' \subseteq Urls
    BY <1>7 DEF SRemTask
  <2> QED BY <1>7, <2>2, <2>3, <2>4, <2>5 DEF SRemTask, heapVars, keyVars
<1>8. ASSUME NEW s \in Slots, Finish(s) PROVE TypeOK'
  BY <1>8 DEF Finish, Leaves, redisVars, heapVars, keyVars, callVars
<1>9. ASSUME NEW s \in Slots, Defer(s) PROVE TypeOK'
  <2>1. PICK d \in Delays : back' = [back EXCEPT ![s] = d]
    BY <1>9 DEF Defer
  <2>2. back' \in [Slots -> Int]
    BY <2>1
  <2>3. /\ st' \in [Slots -> SlotStates]
        /\ \A t \in Slots : st'[t] # "free" => st[t] # "free"
    BY <1>9 DEF Defer
  <2> QED BY <1>9, <2>2, <2>3 DEF Defer, redisVars, heapVars, keyVars, callVars
<1>10. ASSUME NEW s \in Slots, ReleaseGet(s) PROVE TypeOK'
  BY <1>10 DEF ReleaseGet, MoveTo, AfterRelease, redisVars, heapVars, keyVars, callVars
<1>11. ASSUME NEW s \in Slots, ReleaseDel(s) PROVE TypeOK'
  BY <1>11 DEF ReleaseDel, MoveTo, AfterRelease, KeyFates, heapVars, callVars
<1>12. ASSUME NEW s \in Slots, RequeuePush(s) PROVE TypeOK'
  <2>1. bq' \in [Hosts -> Seq(Urls)]
    BY <1>12 DEF RequeuePush, RPush
  <2>2. /\ st' \in [Slots -> SlotStates] /\ url' = url /\ back' = back
        /\ \A t \in Slots : st'[t] # "free" => st[t] # "free"
    BY <1>12 DEF RequeuePush, MoveTo
  <2> QED BY <1>12, <2>1, <2>2 DEF RequeuePush, Leaves, heapVars, keyVars, callVars
<1>13. ASSUME NEW s \in Slots, RequeueSAdd(s) PROVE TypeOK'
  BY <1>13 DEF RequeueSAdd, MoveTo, heapVars, keyVars, callVars
<1>14. ASSUME NEW s \in Slots, RequeueZAdd(s) PROVE TypeOK'
  <2>1. url[s] \in Urls /\ back[s] \in Int
    BY <1>14 DEF RequeueZAdd
  <2>2. HeapType'
    BY <1>14, <2>1, ZAddType DEF RequeueZAdd, HeapType
  <2>3. /\ st' = [st EXCEPT ![s] = "free"] /\ url' = [url EXCEPT ![s] = None]
        /\ back' = [back EXCEPT ![s] = 0]
    BY <1>14 DEF RequeueZAdd, MoveTo
  <2>4. /\ st' \in [Slots -> SlotStates] /\ url' \in [Slots -> Urls \cup {None}]
        /\ back' \in [Slots -> Int] /\ \A t \in Slots : st'[t] # "free" => url'[t] \in Urls
    BY <2>3
  <2> QED BY <1>14, <2>2, <2>4 DEF RequeueZAdd, HeapType, keyVars, callVars
<1>15. ASSUME NEW u \in Urls, NEW d \in Delays \cup {0}, RecrawlPush(u, d) PROVE TypeOK'
  <2>1. front' \subseteq (0 .. NBands - 1) \X Urls /\ bq' \in [Hosts -> Seq(Urls)]
    BY <1>15, ZAddFrontType, RPushType DEF RecrawlPush
  <2>2. rec' = [at |-> "sadd", url |-> u, due |-> d] /\ d \in Int
    BY <1>15 DEF RecrawlPush
  <2>3. fate' \in [Urls -> {"none", "finished", "refused", "lost"}]
    BY <1>15 DEF RecrawlPush, Leaves
  <2>4. UNCHANGED <<inq, heapVars, keyVars, admitted, callVars, taskVars>>
    BY <1>15 DEF RecrawlPush
  <2> QED BY <2>1, <2>2, <2>3, <2>4 DEF heapVars, keyVars, callVars, taskVars
<1>16. ASSUME RecrawlSAdd PROVE TypeOK'
  BY <1>16 DEF RecrawlSAdd, heapVars, keyVars, callVars, taskVars
<1>17. ASSUME RecrawlZAdd PROVE TypeOK'
  BY <1>17 DEF RecrawlZAdd, ZAdd, NoRecrawl, keyVars, callVars, taskVars
<1>18. ASSUME Tick PROVE TypeOK'
  <2>1. due' \in [Hosts -> Int] /\ back' \in [Slots -> Int]
    BY <1>18 DEF Tick
  <2>2. ttl' \in [Urls -> Nat]
    BY <1>18 DEF Tick
  <2>6. leaseOf' \in [Urls -> Slots \cup {None}] /\ keyFate' \in [Urls -> KeyFates]
    BY <1>18 DEF Tick, RunOut, KeyFates
  <2>3. age' \in [Workers -> Nat]
    BY <1>18 DEF Tick
  <2>4. rec' = rec \/ rec' = [at |-> rec.at, url |-> rec.url, due |-> rec.due - 1]
    BY <1>18 DEF Tick
  <2>5. /\ rec' \in [at : {"idle", "sadd", "zadd"}, url : Urls \cup {None}, due : Int]
        /\ rec'.at = rec.at /\ rec'.url = rec.url
    BY <2>4
  <2> QED BY <1>18, <2>1, <2>2, <2>3, <2>5, <2>6 DEF Tick
<1>19. ASSUME NEW w \in Workers, Crash(w) PROVE TypeOK'
  <2>1. keyFate' \in [Urls -> KeyFates]
    BY <1>19 DEF Crash, KeyFates
  <2>2. cut' \subseteq Hosts
    BY <1>19 DEF Crash, CutWith
  <2>3. fate' \in [Urls -> {"none", "finished", "refused", "lost"}]
    BY <1>19 DEF Crash
  <2>4. left' \in [Workers -> Nat] /\ age' \in [Workers -> Nat]
    BY <1>19 DEF Crash
  <2>5. st' \in [Slots -> SlotStates] /\ back' \in [Slots -> Int]
    BY <1>19 DEF Crash
  <2>6. url' \in [Slots -> Urls \cup {None}]
    BY <1>19 DEF Crash
  <2>7. \A s \in Slots : st'[s] # "free" => url'[s] \in Urls
    BY <1>19 DEF Crash
  <2>8. UNCHANGED <<front, bq, inq, heap, due, leaseOf, ttl, admitted, rec>>
    BY <1>19 DEF Crash
  <2> QED BY <2>1, <2>2, <2>3, <2>4, <2>5, <2>6, <2>7, <2>8
<1>20. ASSUME UNCHANGED vars PROVE TypeOK'
  BY <1>20 DEF vars, heapVars, keyVars, callVars, taskVars
<1> QED
  BY <1>1, <1>2, <1>3, <1>4, <1>5, <1>6, <1>7, <1>8, <1>9, <1>10, <1>11, <1>12,
     <1>13, <1>14, <1>15, <1>16, <1>17, <1>18, <1>19, <1>20
  DEF Next, Core, LeaseStep, TaskStep, Recrawl, Crashing

\* The variables keep their types whatever the processes do, crashes and
\* refreshes included.
THEOREM TypeCorrect == Spec => []TypeOK
BY TypeInit, TypeStep, PTL DEF Spec

-----------------------------------------------------------------------------
(* Scheduled: it is inductive given the types.                             *)

Registering(s) == st[s] \in {"sadd", "zadd"}

\* A step that takes no registration away and pushes nothing keeps Scheduled.
QuietStep ==
  /\ \A h \in Hosts : bq'[h] # <<>> => bq[h] # <<>>
  /\ \A h \in Hosts : h \in heap => h \in heap'
  /\ \A h \in Hosts : h \in cut => h \in cut' \cup heap'
  /\ \A s \in Slots : Registering(s) => Registering(s)' /\ url'[s] = url[s]
  /\ rec.at # "idle" => rec'.at # "idle" /\ rec'.url = rec.url

\* A quiet step leaves every pending host where lease or a registration finds it.
LEMMA QuietStepScheduled == Scheduled /\ QuietStep => Scheduled'
BY DEF Scheduled, QuietStep, Pending, Registering

\* No step takes a non-empty back queue off the heap without a push that will
\* put it back.
LEMMA ScheduledStep == TypeOK /\ Scheduled /\ [Next]_vars => Scheduled'
<1> SUFFICES ASSUME TypeOK, Scheduled, [Next]_vars PROVE Scheduled'
  OBVIOUS
<1>a. /\ HeapType /\ bq \in [Hosts -> Seq(Urls)] /\ HostOf \in [Urls -> Hosts]
      /\ st \in [Slots -> SlotStates] /\ url \in [Slots -> Urls \cup {None}]
  BY HostOfType DEF TypeOK, HeapType
<1>1. ASSUME NEW u \in Urls, Enqueue(u) PROVE Scheduled'
  <2>1. CASE bq' = bq /\ UNCHANGED heapVars
    <3>1. QuietStep
      BY <1>1, <2>1 DEF QuietStep, Enqueue, heapVars, taskVars, Registering
    <3> QED BY <3>1, QuietStepScheduled
  <2>2. CASE RPush(u) /\ IF HostOf[u] \in heap THEN UNCHANGED heapVars
                         ELSE ZAdd(HostOf[u], 0)
    <3>1. ASSUME NEW h \in Hosts, bq'[h] # <<>>, h # HostOf[u]
          PROVE  bq[h] # <<>>
      BY <1>a, <2>2, <3>1 DEF RPush
    <3>2. HostOf[u] \in heap'
      BY <2>2 DEF heapVars, ZAdd
    <3>3. heap \subseteq heap' /\ cut \subseteq cut' \cup heap'
      BY <2>2 DEF heapVars, ZAdd
    <3>4. \A h \in Hosts : Pending(h) => Pending(h)'
      BY <1>1 DEF Enqueue, Pending, taskVars
    <3> QED BY <3>1, <3>2, <3>3, <3>4 DEF Scheduled
  <2> QED BY <1>1, <2>1, <2>2 DEF Enqueue
<1>2. ASSUME NEW w \in Workers, StartLease(w) PROVE Scheduled'
  <2>1. QuietStep
    BY <1>2 DEF StartLease, QuietStep, redisVars, heapVars, taskVars, Registering
  <2> QED BY <2>1, QuietStepScheduled
<1>3. ASSUME NEW w \in Workers, LeaseNone(w) PROVE Scheduled'
  <2>1. QuietStep
    BY <1>3, <1>a DEF LeaseNone, EndCall, QuietStep, redisVars, heapVars, Registering
  <2> QED BY <2>1, QuietStepScheduled
<1>4. ASSUME NEW w \in Workers, LeaseStale(w) PROVE Scheduled'
  <2>1. PICK h \in Hosts : bq[h] = <<>> /\ ZRem(h)
    BY <1>4, <1>a DEF LeaseStale, Ripest, DueHosts, HeapType
  <2>2. \A g \in Hosts : Pending(g) => Pending(g)'
    BY <1>4, <1>a DEF LeaseStale, EndCall, Pending
  <2> QED BY <1>4, <2>1, <2>2 DEF LeaseStale, ZRem, Scheduled
<1>5. ASSUME NEW w \in Workers, LeaseTake(w) PROVE Scheduled'
  <2>1. PICK h \in Ripest(w), s \in FreeSlots(w) :
          /\ bq[h] # <<>>
          /\ bq' = [bq EXCEPT ![h] = Tail(@)]
          /\ Reschedule(w, h)
          /\ st' = [st EXCEPT ![s] = "popped"]
          /\ url' = [url EXCEPT ![s] = Head(bq[h])]
    BY <1>5 DEF LeaseTake
  <2>2. h \in Hosts /\ s \in Slots /\ st[s] = "free"
    BY <1>a DEF Ripest, DueHosts, FreeSlots, SlotsOf, HeapType
  <2>3. \A g \in Hosts : Pending(g) => Pending(g)'
    <3>1. \A t \in Slots : st[t] \in {"sadd", "zadd"} => st'[t] = st[t] /\ url'[t] = url[t]
      BY <1>a, <2>1, <2>2
    <3>2. rec' = rec
      BY <1>5 DEF LeaseTake
    <3> QED BY <3>1, <3>2 DEF Pending
  <2>4. \A g \in Hosts : g # h => bq'[g] = bq[g]
    BY <1>a, <2>1
  <2>5. \A g \in Hosts : g # h => (g \in heap => g \in heap') /\ (g \in cut => g \in cut')
    BY <2>1 DEF Reschedule, ZRem, ZAdd
  <2>6. h \in heap' \/ bq'[h] = <<>>
    <3>1. CASE Len(bq[h]) = 1
      <4>1. Tail(bq[h]) \in Seq(Urls) /\ Len(Tail(bq[h])) = 0
        BY <1>a, <2>1, <2>2, <3>1, HeadTailProperties
      <4>2. Tail(bq[h]) = <<>>
        BY <4>1, EmptySeq
      <4> QED BY <1>a, <2>1, <2>2, <4>2
    <3>2. CASE Len(bq[h]) # 1
      BY <2>1, <3>2 DEF Reschedule, ZAdd
    <3> QED BY <3>1, <3>2
  <2> QED BY <2>3, <2>4, <2>5, <2>6 DEF Scheduled
<1>6. ASSUME NEW s \in Slots, SetToken(s) PROVE Scheduled'
  <2>1. QuietStep
    BY <1>6, <1>a DEF SetToken, QuietStep, heapVars, Registering
  <2> QED BY <2>1, QuietStepScheduled
<1>7. ASSUME NEW s \in Slots, SRemTask(s) PROVE Scheduled'
  <2>1. QuietStep
    BY <1>7, <1>a DEF SRemTask, EndCall, QuietStep, heapVars, Registering
  <2> QED BY <2>1, QuietStepScheduled
<1>8. ASSUME NEW s \in Slots, Finish(s) PROVE Scheduled'
  <2>1. QuietStep
    BY <1>8, <1>a DEF Finish, QuietStep, redisVars, heapVars, Registering
  <2> QED BY <2>1, QuietStepScheduled
<1>9. ASSUME NEW s \in Slots, Defer(s) PROVE Scheduled'
  <2>1. QuietStep
    BY <1>9, <1>a DEF Defer, QuietStep, redisVars, heapVars, Registering
  <2> QED BY <2>1, QuietStepScheduled
<1>10. ASSUME NEW s \in Slots, ReleaseGet(s) PROVE Scheduled'
  <2>1. QuietStep
    BY <1>10, <1>a DEF ReleaseGet, MoveTo, AfterRelease, QuietStep, redisVars,
       heapVars, Registering
  <2> QED BY <2>1, QuietStepScheduled
<1>11. ASSUME NEW s \in Slots, ReleaseDel(s) PROVE Scheduled'
  <2>1. QuietStep
    BY <1>11, <1>a DEF ReleaseDel, MoveTo, AfterRelease, QuietStep, heapVars,
       Registering
  <2> QED BY <2>1, QuietStepScheduled
<1>12. ASSUME NEW s \in Slots, RequeuePush(s) PROVE Scheduled'
  <2>1. url[s] \in Urls
    BY <1>12 DEF RequeuePush, TypeOK
  <2>2. \A h \in Hosts : h # HostOf[url[s]] => bq'[h] = bq[h]
    BY <1>12, <1>a, <2>1 DEF RequeuePush, RPush
  <2>3. \A h \in Hosts : h = HostOf[url[s]] => Pending(h)'
    BY <1>12, <1>a DEF RequeuePush, MoveTo, Pending
  <2>4. \A h \in Hosts : Pending(h) => Pending(h)'
    BY <1>12, <1>a DEF RequeuePush, MoveTo, Pending
  <2>5. heap' = heap /\ cut' = cut
    BY <1>12 DEF RequeuePush, heapVars
  <2> QED BY <2>2, <2>3, <2>4, <2>5 DEF Scheduled
<1>13. ASSUME NEW s \in Slots, RequeueSAdd(s) PROVE Scheduled'
  <2>1. QuietStep
    BY <1>13, <1>a DEF RequeueSAdd, MoveTo, QuietStep, heapVars, Registering
  <2> QED BY <2>1, QuietStepScheduled
<1>14. ASSUME NEW s \in Slots, RequeueZAdd(s) PROVE Scheduled'
  <2>1. ZAdd(HostOf[url[s]], back[s]) /\ bq' = bq
    BY <1>14 DEF RequeueZAdd
  <2>2. \A h \in Hosts : Pending(h) => Pending(h)' \/ h = HostOf[url[s]]
    BY <1>14, <1>a DEF RequeueZAdd, MoveTo, Pending
  <2> QED BY <2>1, <2>2 DEF ZAdd, Scheduled
<1>15. ASSUME NEW u \in Urls, NEW d \in Delays \cup {0}, RecrawlPush(u, d)
       PROVE  Scheduled'
  <2>1. \A h \in Hosts : h # HostOf[u] => bq'[h] = bq[h]
    BY <1>15, <1>a DEF RecrawlPush, RPush
  <2>2. Pending(HostOf[u])'
    BY <1>15 DEF RecrawlPush, Pending
  <2>3. \A h \in Hosts : Pending(h) => Pending(h)'
    BY <1>15 DEF RecrawlPush, Pending, taskVars
  <2> QED BY <1>15, <2>1, <2>2, <2>3 DEF RecrawlPush, Scheduled, heapVars
<1>16. ASSUME RecrawlSAdd PROVE Scheduled'
  <2>1. QuietStep
    BY <1>16, <1>a DEF RecrawlSAdd, QuietStep, heapVars, taskVars, Registering, TypeOK
  <2> QED BY <2>1, QuietStepScheduled
<1>17. ASSUME RecrawlZAdd PROVE Scheduled'
  <2>1. ZAdd(HostOf[rec.url], rec.due) /\ bq' = bq
    BY <1>17 DEF RecrawlZAdd
  <2>2. \A h \in Hosts : Pending(h) => Pending(h)' \/ h = HostOf[rec.url]
    BY <1>17, <1>a DEF RecrawlZAdd, Pending, taskVars
  <2> QED BY <2>1, <2>2 DEF ZAdd, Scheduled
<1>18. ASSUME Tick PROVE Scheduled'
  <2>1. QuietStep
    BY <1>18, <1>a DEF Tick, QuietStep, Registering
  <2> QED BY <2>1, QuietStepScheduled
<1>19. ASSUME NEW w \in Workers, Crash(w) PROVE Scheduled'
  <2>1. ASSUME NEW h \in Hosts, Pending(h), h \notin heap
        PROVE  Pending(h)' \/ h \in cut'
    BY <1>19, <1>a, <2>1 DEF Crash, CutWith, SlotsOf, Pending
  <2> QED BY <1>19, <2>1 DEF Crash, Scheduled
<1>20. ASSUME UNCHANGED vars PROVE Scheduled'
  BY <1>20 DEF vars, heapVars, taskVars, Scheduled, Pending
<1> QED
  BY <1>1, <1>2, <1>3, <1>4, <1>5, <1>6, <1>7, <1>8, <1>9, <1>10, <1>11, <1>12,
     <1>13, <1>14, <1>15, <1>16, <1>17, <1>18, <1>19, <1>20
  DEF Next, Core, LeaseStep, TaskStep, Recrawl, Crashing

\* A host with queued URLs is on the due heap, or a push to it is about to
\* register it, or a crash cut that push off: requeue(), schedule_recrawl(),
\* lease() and _enqueue_one never strand a back queue between them.
THEOREM HostsScheduled == Spec => []Scheduled
<1>1. Init => Scheduled
  BY DEF Init, Scheduled
<1> QED BY <1>1, TypeCorrect, ScheduledStep, PTL DEF Spec

-----------------------------------------------------------------------------
(* Offered: whatever the frontier holds went through _enqueue_one before.  *)

Known(u) ==
  \/ u \in inq
  \/ \E h \in Hosts : \E i \in 1 .. Len(bq[h]) : bq[h][i] = u
  \/ \E s \in Slots : st[s] # "free" /\ url[s] = u
  \/ rec.at # "idle" /\ rec.url = u

Offered == \A u \in Urls : Known(u) => admitted[u] > 0

\* What a host's queue holds after a push, and after a pop.
LEMMA PushedQueue ==
  ASSUME bq \in [Hosts -> Seq(Urls)], NEW u \in Urls, RPush(u),
         NEW h \in Hosts, NEW i \in 1 .. Len(bq'[h])
  PROVE  \/ h = HostOf[u] /\ i = Len(bq[h]) + 1 /\ bq'[h][i] = u
         \/ i \in 1 .. Len(bq[h]) /\ bq'[h][i] = bq[h][i]
<1>1. CASE h = HostOf[u]
  <2>1. bq'[h] = Append(bq[h], u) /\ bq[h] \in Seq(Urls)
    BY <1>1 DEF RPush
  <2> QED BY <1>1, <2>1, AppendProperties
<1>2. CASE h # HostOf[u]
  BY <1>2 DEF RPush
<1> QED BY <1>1, <1>2

\* An LPOP moves the entries of its queue up by one and leaves the others.
LEMMA PoppedQueue ==
  ASSUME bq \in [Hosts -> Seq(Urls)], NEW h \in Hosts, bq[h] # <<>>,
         bq' = [bq EXCEPT ![h] = Tail(@)],
         NEW g \in Hosts, NEW i \in 1 .. Len(bq'[g])
  PROVE  IF g = h THEN i + 1 \in 1 .. Len(bq[h]) /\ bq'[h][i] = bq[h][i + 1]
         ELSE i \in 1 .. Len(bq[g]) /\ bq'[g][i] = bq[g][i]
<1>1. CASE g = h
  <2>1. bq'[h] = Tail(bq[h]) /\ bq[h] \in Seq(Urls)
    OBVIOUS
  <2> QED BY <1>1, <2>1, HeadTailProperties
<1>2. CASE g # h
  BY <1>2
<1> QED BY <1>1, <1>2

\* The head of a queue is its first entry.
LEMMA HeadIsFirst ==
  ASSUME NEW q \in Seq(Urls), q # <<>>
  PROVE  1 \in 1 .. Len(q) /\ Head(q) = q[1]
BY HeadTailProperties, EmptySeq

\* A step that brings in no URL keeps Offered.
LEMMA NothingNew ==
  ASSUME Offered, admitted' = admitted,
         \A u \in Urls : Known(u)' => Known(u) \/ admitted[u] > 0
  PROVE  Offered'
BY DEF Offered

\* No step brings in a URL that was not offered before.
LEMMA OfferedStep == TypeOK /\ Offered /\ [Next]_vars => Offered'
<1> SUFFICES ASSUME TypeOK, Offered, [Next]_vars PROVE Offered'
  OBVIOUS
<1>a. /\ bq \in [Hosts -> Seq(Urls)] /\ HostOf \in [Urls -> Hosts]
      /\ st \in [Slots -> SlotStates] /\ url \in [Slots -> Urls \cup {None}]
      /\ \A s \in Slots : st[s] # "free" => url[s] \in Urls
      /\ admitted \in [Urls -> Nat]
  BY HostOfType DEF TypeOK
<1>1. ASSUME NEW u \in Urls, Enqueue(u) PROVE Offered'
  <2>1. admitted' = [admitted EXCEPT ![u] = @ + 1]
    BY <1>1 DEF Enqueue
  <2>2. admitted'[u] > 0 /\ \A v \in Urls : v # u => admitted'[v] = admitted[v]
    BY <1>a, <2>1
  <2>3. ASSUME NEW v \in Urls, v # u, Known(v)' PROVE Known(v)
    <3>1. inq' = inq \/ inq' = inq \cup {u}
      BY <1>1 DEF Enqueue
    <3>2. bq' = bq \/ RPush(u)
      BY <1>1 DEF Enqueue
    <3>3. ASSUME NEW h \in Hosts, NEW i \in 1 .. Len(bq'[h]), bq'[h][i] = v
          PROVE  \E j \in 1 .. Len(bq[h]) : bq[h][j] = v
      BY <1>a, <2>3, <3>2, <3>3, PushedQueue
    <3> QED BY <1>1, <2>3, <3>1, <3>3 DEF Known, Enqueue, taskVars
  <2> QED BY <2>2, <2>3 DEF Offered
<1>2. ASSUME NEW w \in Workers, StartLease(w) PROVE Offered'
  BY <1>2, NothingNew DEF StartLease, Known, redisVars, taskVars
<1>3. ASSUME NEW w \in Workers, LeaseNone(w) PROVE Offered'
  BY <1>3, <1>a, NothingNew DEF LeaseNone, EndCall, Known, redisVars
<1>4. ASSUME NEW w \in Workers, LeaseStale(w) PROVE Offered'
  BY <1>4, <1>a, NothingNew DEF LeaseStale, EndCall, Known
<1>5. ASSUME NEW w \in Workers, LeaseTake(w) PROVE Offered'
  <2>1. PICK h \in Ripest(w), s \in FreeSlots(w) :
          /\ bq[h] # <<>>
          /\ bq' = [bq EXCEPT ![h] = Tail(@)]
          /\ Reschedule(w, h)
          /\ st' = [st EXCEPT ![s] = "popped"]
          /\ url' = [url EXCEPT ![s] = Head(bq[h])]
    BY <1>5 DEF LeaseTake
  <2>2. h \in Hosts /\ s \in Slots
    BY DEF TypeOK, Ripest, DueHosts, FreeSlots, SlotsOf
  <2>3. ASSUME NEW v \in Urls, Known(v)' PROVE Known(v)
    <3>1. ASSUME NEW g \in Hosts, NEW i \in 1 .. Len(bq'[g]), bq'[g][i] = v
          PROVE  \E j \in 1 .. Len(bq[g]) : bq[g][j] = v
      BY <1>a, <2>1, <2>2, <3>1, PoppedQueue
    <3>2. \E j \in 1 .. Len(bq[h]) : bq[h][j] = Head(bq[h])
      BY <1>a, <2>1, <2>2, HeadIsFirst
    <3>3. ASSUME NEW t \in Slots, st'[t] # "free", url'[t] = v
          PROVE  Known(v)
      BY <1>a, <2>1, <2>2, <3>2, <3>3 DEF Known
    <3> QED BY <1>5, <2>3, <3>1, <3>3 DEF Known, LeaseTake
  <2> QED BY <1>5, <2>3, NothingNew DEF LeaseTake
<1>6. ASSUME NEW s \in Slots, SetToken(s) PROVE Offered'
  BY <1>6, <1>a, NothingNew DEF SetToken, Known
<1>7. ASSUME NEW s \in Slots, SRemTask(s) PROVE Offered'
  BY <1>7, <1>a, NothingNew DEF SRemTask, EndCall, Known
<1>8. ASSUME NEW s \in Slots, Finish(s) PROVE Offered'
  BY <1>8, <1>a, NothingNew DEF Finish, Known, redisVars
<1>9. ASSUME NEW s \in Slots, Defer(s) PROVE Offered'
  BY <1>9, <1>a, NothingNew DEF Defer, Known, redisVars
<1>10. ASSUME NEW s \in Slots, ReleaseGet(s) PROVE Offered'
  BY <1>10, <1>a, NothingNew DEF ReleaseGet, MoveTo, AfterRelease, Known, redisVars
<1>11. ASSUME NEW s \in Slots, ReleaseDel(s) PROVE Offered'
  BY <1>11, <1>a, NothingNew DEF ReleaseDel, MoveTo, AfterRelease, Known
<1>12. ASSUME NEW s \in Slots, RequeuePush(s) PROVE Offered'
  <2>1. url[s] \in Urls /\ RPush(url[s]) /\ Known(url[s])
    BY <1>12, <1>a DEF RequeuePush, Known
  <2>2. ASSUME NEW v \in Urls, Known(v)' PROVE Known(v)
    <3>1. ASSUME NEW h \in Hosts, NEW i \in 1 .. Len(bq'[h]), bq'[h][i] = v
          PROVE  v = url[s] \/ \E j \in 1 .. Len(bq[h]) : bq[h][j] = v
      BY <1>a, <2>1, <3>1, PushedQueue
    <3>2. /\ inq' = inq /\ rec' = rec /\ url' = url
          /\ \A t \in Slots : st'[t] # "free" => st[t] # "free"
      BY <1>12, <1>a DEF RequeuePush, MoveTo
    <3> QED BY <2>1, <2>2, <3>1, <3>2 DEF Known
  <2> QED BY <1>12, <2>2, NothingNew DEF RequeuePush
<1>13. ASSUME NEW s \in Slots, RequeueSAdd(s) PROVE Offered'
  BY <1>13, <1>a, NothingNew DEF RequeueSAdd, MoveTo, Known
<1>14. ASSUME NEW s \in Slots, RequeueZAdd(s) PROVE Offered'
  BY <1>14, <1>a, NothingNew DEF RequeueZAdd, MoveTo, Known
<1>15. ASSUME NEW u \in Urls, NEW d \in Delays \cup {0}, RecrawlPush(u, d)
       PROVE  Offered'
  <2>1. RPush(u) /\ admitted[u] > 0 /\ admitted' = admitted
    BY <1>15 DEF RecrawlPush
  <2>2. ASSUME NEW v \in Urls, Known(v)' PROVE Known(v) \/ v = u
    <3>1. ASSUME NEW h \in Hosts, NEW i \in 1 .. Len(bq'[h]), bq'[h][i] = v
          PROVE  v = u \/ \E j \in 1 .. Len(bq[h]) : bq[h][j] = v
      BY <1>a, <2>1, <3>1, PushedQueue
    <3>2. rec'.url = u
      BY <1>15 DEF RecrawlPush
    <3> QED BY <1>15, <2>2, <3>1, <3>2 DEF Known, RecrawlPush, taskVars
  <2> QED BY <2>1, <2>2, NothingNew
<1>16. ASSUME RecrawlSAdd PROVE Offered'
  BY <1>16, NothingNew DEF RecrawlSAdd, Known, taskVars, TypeOK
<1>17. ASSUME RecrawlZAdd PROVE Offered'
  BY <1>17, NothingNew DEF RecrawlZAdd, NoRecrawl, Known, taskVars
<1>18. ASSUME Tick PROVE Offered'
  BY <1>18, NothingNew DEF Tick, Known
<1>19. ASSUME NEW w \in Workers, Crash(w) PROVE Offered'
  BY <1>19, <1>a, NothingNew DEF Crash, Known
<1>20. ASSUME UNCHANGED vars PROVE Offered'
  BY <1>20 DEF vars, taskVars, Offered, Known
<1> QED
  BY <1>1, <1>2, <1>3, <1>4, <1>5, <1>6, <1>7, <1>8, <1>9, <1>10, <1>11, <1>12,
     <1>13, <1>14, <1>15, <1>16, <1>17, <1>18, <1>19, <1>20
  DEF Next, Core, LeaseStep, TaskStep, Recrawl, Crashing

\* Nothing is in a queue, a set or a task that was not offered first.
LEMMA OnlyOffered == Spec => []Offered
<1>1. Init => Offered
  BY DEF Init, Offered, Known, NoRecrawl
<1> QED BY <1>1, TypeCorrect, OfferedStep, PTL DEF Spec

-----------------------------------------------------------------------------
(* NothingLost: it is inductive given the types and Offered.               *)

\* Steps that leave the queues alone and no URL less held.
LEMMA QueuesAlone ==
  ASSUME bq' = bq,
         NEW v \in Urls, Held(v) => Held(v)'
  PROVE  Alive(v) => Alive(v)'
BY DEF Alive, InQueue

\* A step of one slot leaves what the others hold.
LEMMA OthersHold ==
  ASSUME NEW s \in Slots,
         \A t \in Slots \ {s} :
           st'[t] = st[t] /\ url'[t] = url[t] /\ back'[t] = back[t],
         NEW v \in Urls, Holds(s, v) => Holds(s, v)'
  PROVE  Held(v) => Held(v)'
BY DEF Held, Holds, Over

\* An RPUSH queues its URL and leaves the queued ones queued.
LEMMA PushKeepsQueued ==
  ASSUME bq \in [Hosts -> Seq(Urls)], NEW u \in Urls, RPush(u)
  PROVE  /\ InQueue(u)'
         /\ \A v \in Urls : InQueue(v) => InQueue(v)'
<1>1. HostOf[u] \in Hosts /\ bq[HostOf[u]] \in Seq(Urls)
  BY HostOfType
<1>2. bq'[HostOf[u]] = Append(bq[HostOf[u]], u)
  BY <1>1 DEF RPush
<1>3. /\ Len(bq'[HostOf[u]]) = Len(bq[HostOf[u]]) + 1
      /\ bq'[HostOf[u]][Len(bq[HostOf[u]]) + 1] = u
      /\ \A i \in 1 .. Len(bq[HostOf[u]]) : bq'[HostOf[u]][i] = bq[HostOf[u]][i]
  BY <1>1, <1>2, AppendProperties
<1>4. Len(bq[HostOf[u]]) \in Nat
  BY <1>1, LenProperties
<1>5. InQueue(u)'
  BY <1>3, <1>4 DEF InQueue
<1>6. ASSUME NEW v \in Urls, InQueue(v) PROVE InQueue(v)'
  <2>1. CASE HostOf[v] = HostOf[u]
    BY <1>3, <1>4, <1>6, <2>1 DEF InQueue
  <2>2. CASE HostOf[v] # HostOf[u]
    BY <1>6, <2>2, HostOfType DEF InQueue, RPush
  <2> QED BY <2>1, <2>2
<1> QED BY <1>5, <1>6

\* An LPOP takes the head of its queue only.
LEMMA PopKeepsQueued ==
  ASSUME bq \in [Hosts -> Seq(Urls)], NEW h \in Hosts, bq[h] # <<>>,
         bq' = [bq EXCEPT ![h] = Tail(@)],
         NEW v \in Urls, v # Head(bq[h]), InQueue(v)
  PROVE  InQueue(v)'
<1>1. CASE HostOf[v] = h
  <2>1. PICK i \in 1 .. Len(bq[h]) : bq[h][i] = v
    BY <1>1 DEF InQueue
  <2>2. bq[h] \in Seq(Urls) /\ bq'[h] = Tail(bq[h]) /\ Len(bq[h]) \in Nat
    BY LenProperties
  <2>3. i # 1
    BY <2>1, <2>2, HeadIsFirst
  <2>4. i - 1 \in 1 .. Len(bq'[h]) /\ bq'[h][i - 1] = bq[h][i]
    BY <2>1, <2>2, <2>3, HeadTailProperties
  <2> QED BY <1>1, <2>1, <2>4 DEF InQueue
<1>2. CASE HostOf[v] # h
  BY <1>2, HostOfType DEF InQueue
<1> QED BY <1>1, <1>2

\* Steps that lose nothing.
LEMMA KeepsAlive ==
  ASSUME NothingLost,
         \A v \in Urls :
           fate'[v] = "none" /\ admitted'[v] > 0 =>
             \/ Alive(v)'
             \/ fate[v] = "none" /\ admitted[v] > 0 /\ (Alive(v) => Alive(v)')
  PROVE  NothingLost'
BY DEF NothingLost

\* No step loses an offered URL that is neither finished, refused nor crashed
\* with.
LEMMA NothingLostStep ==
  TypeOK /\ Offered /\ NothingLost /\ [Next]_vars => NothingLost'
<1> SUFFICES ASSUME TypeOK, Offered, NothingLost, [Next]_vars PROVE NothingLost'
  OBVIOUS
<1>a. /\ bq \in [Hosts -> Seq(Urls)] /\ HostOf \in [Urls -> Hosts]
      /\ st \in [Slots -> SlotStates] /\ url \in [Slots -> Urls \cup {None}]
      /\ back \in [Slots -> Int]
      /\ \A s \in Slots : st[s] # "free" => url[s] \in Urls
      /\ admitted \in [Urls -> Nat]
      /\ fate \in [Urls -> {"none", "finished", "refused", "lost"}]
  BY HostOfType DEF TypeOK
<1>1. ASSUME NEW u \in Urls, Enqueue(u) PROVE NothingLost'
  <2>1. /\ admitted' = [admitted EXCEPT ![u] = @ + 1]
        /\ UNCHANGED <<st, url, back>>
    BY <1>1 DEF Enqueue, taskVars
  <2>2. \A v \in Urls : v # u => admitted'[v] = admitted[v]
    BY <1>a, <2>1
  <2>3. \A v \in Urls : Held(v) => Held(v)'
    BY <2>1 DEF Held, Holds, Over
  <2>4. CASE u \in inq /\ UNCHANGED <<bq, fate>>
    <3>1. admitted[u] > 0
      BY <2>4 DEF Offered, Known
    <3> QED BY <2>2, <2>3, <2>4, <3>1, QueuesAlone, KeepsAlive
  <2>5. CASE bq' = bq /\ IF Alive(u) THEN UNCHANGED fate ELSE Leaves(u, "refused")
    <3>1. \A v \in Urls : v # u => fate'[v] = fate[v]
      BY <1>a, <2>5 DEF Leaves
    <3>2. Alive(u) \/ fate'[u] = "refused"
      BY <1>a, <2>5 DEF Leaves
    <3> QED BY <2>2, <2>3, <2>5, <3>1, <3>2, QueuesAlone, KeepsAlive
  <2>6. CASE RPush(u) /\ Leaves(u, "none")
    <3>1. InQueue(u)' /\ \A v \in Urls : Alive(v) => Alive(v)'
      BY <1>a, <2>3, <2>6, PushKeepsQueued DEF Alive
    <3>2. \A v \in Urls : v # u => fate'[v] = fate[v]
      BY <1>a, <2>6 DEF Leaves
    <3>3. Alive(u)'
      BY <3>1 DEF Alive
    <3> QED BY <2>2, <3>1, <3>2, <3>3, KeepsAlive
  <2> QED BY <1>1, <2>4, <2>5, <2>6 DEF Enqueue
<1>2. ASSUME NEW w \in Workers, StartLease(w) PROVE NothingLost'
  BY <1>2 DEF StartLease, redisVars, taskVars, NothingLost, Alive, InQueue, Held,
     Holds, Over
<1>3. ASSUME NEW w \in Workers, EndCall(w, st), UNCHANGED <<bq, admitted, url, back, fate>>
      PROVE  NothingLost'
  <2>1. \A v \in Urls : Held(v) => Held(v)'
    BY <1>3, <1>a DEF EndCall, Held, Holds, Over, Holding, Leasing
  <2> QED BY <1>3, <2>1, QueuesAlone, KeepsAlive
<1>4. ASSUME NEW w \in Workers, LeaseNone(w) \/ LeaseStale(w) PROVE NothingLost'
  BY <1>3, <1>4 DEF LeaseNone, LeaseStale, redisVars
<1>5. ASSUME NEW w \in Workers, LeaseTake(w) PROVE NothingLost'
  <2>1. PICK h \in Ripest(w), s \in FreeSlots(w) :
          /\ bq[h] # <<>>
          /\ bq' = [bq EXCEPT ![h] = Tail(@)]
          /\ Reschedule(w, h)
          /\ st' = [st EXCEPT ![s] = "popped"]
          /\ url' = [url EXCEPT ![s] = Head(bq[h])]
    BY <1>5 DEF LeaseTake
  <2>2. h \in Hosts /\ s \in Slots /\ st[s] = "free"
    BY DEF TypeOK, Ripest, DueHosts, FreeSlots, SlotsOf
  <2>3. st'[s] = "popped" /\ url'[s] = Head(bq[h]) /\ back' = back
    BY <1>5, <1>a, <2>1, <2>2 DEF LeaseTake
  <2>4. \A v \in Urls : v = Head(bq[h]) => Holds(s, v)'
    BY <2>3 DEF Holds, Over, Holding, Leasing
  <2>5. \A v \in Urls : Held(v) => Held(v)'
    <3>1. \A v \in Urls : ~Holds(s, v)
      BY <2>2 DEF Holds, Holding, Leasing
    <3>2. \A t \in Slots \ {s} : st'[t] = st[t] /\ url'[t] = url[t] /\ back'[t] = back[t]
      BY <1>a, <2>1, <2>2, <2>3
    <3> QED BY <2>2, <3>1, <3>2, OthersHold
  <2>6. ASSUME NEW v \in Urls, Alive(v) PROVE Alive(v)'
    <3>1. CASE v = Head(bq[h])
      BY <2>2, <2>4, <3>1 DEF Alive, Held
    <3>2. CASE v # Head(bq[h])
      BY <1>a, <2>1, <2>2, <2>5, <2>6, <3>2, PopKeepsQueued DEF Alive
    <3> QED BY <3>1, <3>2
  <2> QED BY <1>5, <2>6, KeepsAlive DEF LeaseTake
<1>6. ASSUME NEW s \in Slots, SetToken(s) PROVE NothingLost'
  <2>1. \A v \in Urls : Held(v) => Held(v)'
    BY <1>6, <1>a DEF SetToken, Held, Holds, Over, Holding, Leasing
  <2> QED BY <1>6, <2>1, QueuesAlone, KeepsAlive DEF SetToken
<1>7. ASSUME NEW s \in Slots, SRemTask(s) PROVE NothingLost'
  <2>1. \A v \in Urls : Held(v) => Held(v)'
    BY <1>7, <1>a DEF SRemTask, EndCall, Held, Holds, Over, Holding, Leasing
  <2> QED BY <1>7, <2>1, QueuesAlone, KeepsAlive DEF SRemTask
<1>8. ASSUME NEW s \in Slots, Finish(s) PROVE NothingLost'
  <2>1. url[s] \in Urls /\ fate'[url[s]] = "finished"
        /\ \A v \in Urls : v # url[s] => fate'[v] = fate[v]
    BY <1>8, <1>a DEF Finish, Leaves
  <2>2. \A t \in Slots \ {s} : st'[t] = st[t] /\ url'[t] = url[t] /\ back'[t] = back[t]
    BY <1>8, <1>a DEF Finish
  <2>3. \A v \in Urls : v # url[s] => ~Holds(s, v)
    BY DEF Holds
  <2> QED BY <1>8, <2>1, <2>2, <2>3, OthersHold, QueuesAlone, KeepsAlive
          DEF Finish, redisVars
<1>9. ASSUME NEW s \in Slots, Defer(s) PROVE NothingLost'
  <2>1. PICK d \in Delays : back' = [back EXCEPT ![s] = d]
    BY <1>9 DEF Defer
  <2>2. back'[s] # 0
    BY <1>a, <2>1, BoundsType
  <2>3. \A v \in Urls : Holds(s, v) => Holds(s, v)'
    BY <1>9, <1>a, <2>2 DEF Defer, Holds, Over, Holding, Leasing
  <2>4. \A t \in Slots \ {s} : st'[t] = st[t] /\ url'[t] = url[t] /\ back'[t] = back[t]
    BY <1>9, <1>a, <2>1 DEF Defer
  <2> QED BY <1>9, <2>3, <2>4, OthersHold, QueuesAlone, KeepsAlive DEF Defer, redisVars
<1>10. ASSUME NEW s \in Slots, ReleaseGet(s) PROVE NothingLost'
  <2>1. \A v \in Urls : Holds(s, v) => Holds(s, v)'
    BY <1>10, <1>a DEF ReleaseGet, MoveTo, AfterRelease, Holds, Over, Holding, Leasing
  <2>2. \A t \in Slots \ {s} : st'[t] = st[t] /\ url'[t] = url[t] /\ back'[t] = back[t]
    BY <1>10, <1>a DEF ReleaseGet, MoveTo
  <2> QED BY <1>10, <2>1, <2>2, OthersHold, QueuesAlone, KeepsAlive
          DEF ReleaseGet, redisVars
<1>11. ASSUME NEW s \in Slots, ReleaseDel(s) PROVE NothingLost'
  <2>1. \A v \in Urls : Holds(s, v) => Holds(s, v)'
    BY <1>11, <1>a DEF ReleaseDel, MoveTo, AfterRelease, Holds, Over, Holding, Leasing
  <2>2. \A t \in Slots \ {s} : st'[t] = st[t] /\ url'[t] = url[t] /\ back'[t] = back[t]
    BY <1>11, <1>a DEF ReleaseDel, MoveTo
  <2> QED BY <1>11, <2>1, <2>2, OthersHold, QueuesAlone, KeepsAlive DEF ReleaseDel
<1>12. ASSUME NEW s \in Slots, RequeuePush(s) PROVE NothingLost'
  <2>1. url[s] \in Urls /\ RPush(url[s]) /\ admitted' = admitted
    BY <1>12, <1>a DEF RequeuePush
  <2>2. \A v \in Urls : InQueue(v) => InQueue(v)'
    BY <1>a, <2>1, PushKeepsQueued
  <2>3. \A v \in Urls : v = url[s] => InQueue(v)'
    BY <1>a, <2>1, PushKeepsQueued
  <2>4. \A t \in Slots \ {s} : st'[t] = st[t] /\ url'[t] = url[t] /\ back'[t] = back[t]
    BY <1>12, <1>a DEF RequeuePush, MoveTo
  <2>5. \A v \in Urls : v # url[s] => (Held(v) => Held(v)') /\ fate'[v] = fate[v]
    BY <1>12, <1>a, <2>4, OthersHold DEF RequeuePush, Leaves, Holds
  <2> QED BY <2>1, <2>2, <2>3, <2>5, KeepsAlive DEF Alive
<1>13. ASSUME NEW s \in Slots, RequeueSAdd(s) \/ RequeueZAdd(s) PROVE NothingLost'
  <2>1. \A v \in Urls : ~Holds(s, v)
    BY <1>13 DEF RequeueSAdd, RequeueZAdd, Holds, Holding, Leasing
  <2>2. \A t \in Slots \ {s} : st'[t] = st[t] /\ url'[t] = url[t] /\ back'[t] = back[t]
    BY <1>13, <1>a DEF RequeueSAdd, RequeueZAdd, MoveTo
  <2> QED BY <1>13, <2>1, <2>2, OthersHold, QueuesAlone, KeepsAlive
          DEF RequeueSAdd, RequeueZAdd
<1>15. ASSUME NEW u \in Urls, NEW d \in Delays \cup {0}, RecrawlPush(u, d)
       PROVE  NothingLost'
  <2>1. RPush(u) /\ admitted' = admitted /\ Leaves(u, "none")
        /\ UNCHANGED <<st, url, back>>
    BY <1>15 DEF RecrawlPush, taskVars
  <2>2. InQueue(u)' /\ \A v \in Urls : InQueue(v) => InQueue(v)'
    BY <1>a, <2>1, PushKeepsQueued
  <2>3. \A v \in Urls : Held(v) => Held(v)'
    BY <2>1 DEF Held, Holds, Over
  <2>4. \A v \in Urls : v # u => fate'[v] = fate[v]
    BY <1>a, <2>1 DEF Leaves
  <2>5. Alive(u)'
    BY <2>2 DEF Alive
  <2>6. \A v \in Urls : Alive(v) => Alive(v)'
    BY <2>2, <2>3 DEF Alive
  <2> QED BY <2>1, <2>4, <2>5, <2>6, KeepsAlive
<1>16. ASSUME RecrawlSAdd \/ RecrawlZAdd PROVE NothingLost'
  BY <1>16 DEF RecrawlSAdd, RecrawlZAdd, taskVars, NothingLost, Alive, InQueue,
     Held, Holds, Over
<1>18. ASSUME Tick PROVE NothingLost'
  <2>1. \A v \in Urls : Held(v) => Held(v)'
    BY <1>18, <1>a DEF Tick, Held, Holds, Over, Holding, Leasing
  <2> QED BY <1>18, <2>1, QueuesAlone, KeepsAlive DEF Tick
<1>19. ASSUME NEW w \in Workers, Crash(w) PROVE NothingLost'
  <2>1. ASSUME NEW v \in Urls, fate'[v] = "none", Alive(v)
        PROVE  fate[v] = "none" /\ Alive(v)'
    <3>1. fate[v] = "none" /\ v \notin LostWith(w)
      BY <1>19, <1>a, <2>1 DEF Crash
    <3>2. CASE InQueue(v)
      BY <1>19, <3>1, <3>2 DEF Crash, Alive, InQueue
    <3>3. CASE ~InQueue(v)
      <4>1. PICK s \in Slots : Holds(s, v)
        BY <2>1, <3>3 DEF Alive, Held
      <4>2. PICK t \in Slots : Holds(t, v) /\ WorkerOf[t] # w
        BY <3>1, <3>3, <4>1 DEF LostWith, SlotsOf
      <4>3. Holds(t, v)'
        BY <1>19, <1>a, <4>2 DEF Crash, Holds, Over
      <4> QED BY <3>1, <4>3 DEF Alive, Held
    <3> QED BY <3>1, <3>2, <3>3
  <2>2. \A v \in Urls : fate'[v] = "none" => fate[v] = "none"
    BY <1>19, <1>a DEF Crash
  <2> QED BY <1>19, <2>1, <2>2, KeepsAlive DEF Crash
<1>20. ASSUME UNCHANGED vars PROVE NothingLost'
  BY <1>20 DEF vars, taskVars, NothingLost, Alive, InQueue, Held, Holds, Over
<1> QED
  BY <1>1, <1>2, <1>4, <1>5, <1>6, <1>7, <1>8, <1>9, <1>10, <1>11, <1>12,
     <1>13, <1>15, <1>16, <1>18, <1>19, <1>20
  DEF Next, Core, LeaseStep, TaskStep, Recrawl, Crashing

\* An offered URL is queued or with a task until it is finished, refused by a
\* full queue, or taken by a crash, however the calls of any number of
\* processes, refreshes and crashes overlap.
THEOREM NoUrlLost == Spec => []NothingLost
<1>1. Init => NothingLost
  BY DEF Init, NothingLost
<1> QED BY <1>1, TypeCorrect, OnlyOffered, NothingLostStep, PTL DEF Spec

-----------------------------------------------------------------------------
(* NoLeaseLeak: it is inductive given the types.                           *)

\* A task only gets past its release after its key was found to be another's or
\* was deleted; a key is written for a task that was just popped.
LEMMA NoLeaseLeakStep == TypeOK /\ NoLeaseLeak /\ [Next]_vars => NoLeaseLeak'
<1> SUFFICES ASSUME TypeOK, NoLeaseLeak, [Next]_vars PROVE NoLeaseLeak'
  OBVIOUS
<1>a. /\ st \in [Slots -> SlotStates] /\ url \in [Slots -> Urls \cup {None}]
      /\ \A s \in Slots : st[s] # "free" => url[s] \in Urls
      /\ leaseOf \in [Urls -> Slots \cup {None}]
      /\ None \notin Slots
  BY NoneIsNoSlot DEF TypeOK
<1>b. ASSUME leaseOf' = leaseOf, keyFate' = keyFate,
             \A s \in Slots : st[s] \in Keyed /\ leaseOf[url[s]] = s =>
                st'[s] \in Keyed /\ url'[s] = url[s]
      PROVE  NoLeaseLeak'
  BY <1>a, <1>b DEF NoLeaseLeak
<1>1. CASE \E u \in Urls : Enqueue(u)
  BY <1>1, <1>b DEF Enqueue, keyVars, taskVars
<1>2. CASE \E w \in Workers : StartLease(w)
  BY <1>2, <1>b DEF StartLease, redisVars, keyVars, taskVars
<1>3. ASSUME NEW w \in Workers, LeaseNone(w) \/ LeaseStale(w) PROVE NoLeaseLeak'
  BY <1>3, <1>a, <1>b DEF LeaseNone, LeaseStale, EndCall, Keyed, redisVars, keyVars
<1>4. ASSUME NEW w \in Workers, LeaseTake(w) PROVE NoLeaseLeak'
  <2>1. PICK s, v : /\ s \in FreeSlots(w)
                    /\ st' = [st EXCEPT ![s] = "popped"]
                    /\ url' = [url EXCEPT ![s] = v]
    BY <1>4 DEF LeaseTake
  <2>2. s \in Slots /\ st[s] = "free"
    BY <2>1 DEF FreeSlots, SlotsOf
  <2> QED BY <1>4, <1>a, <1>b, <2>1, <2>2 DEF LeaseTake, Keyed, keyVars
<1>5. ASSUME NEW s \in Slots, SetToken(s) PROVE NoLeaseLeak'
  <2>1. /\ leaseOf' = [leaseOf EXCEPT ![url[s]] = s] /\ url' = url
        /\ st' = [st EXCEPT ![s] = "tokened"] /\ url[s] \in Urls
        /\ \A u \in Urls : u # url[s] /\ keyFate[u] = "orphaned" =>
             keyFate'[u] = "orphaned"
        /\ st[s] \notin Keyed
    BY <1>5, <1>a DEF SetToken, TypeOK, Keyed
  <2> SUFFICES ASSUME NEW u \in Urls, leaseOf'[u] # None, keyFate'[u] # "orphaned"
               PROVE  st'[leaseOf'[u]] \in Keyed /\ url'[leaseOf'[u]] = u
    BY DEF NoLeaseLeak
  <2>2. CASE u = url[s]
    BY <1>a, <2>1, <2>2 DEF Keyed
  <2>3. CASE u # url[s]
    <3>1. leaseOf'[u] = leaseOf[u] /\ leaseOf[u] \in Slots /\ keyFate[u] # "orphaned"
      BY <1>a, <2>1, <2>3
    <3>2. st[leaseOf[u]] \in Keyed /\ url[leaseOf[u]] = u
      BY <3>1, <1>a DEF NoLeaseLeak
    <3> QED BY <1>a, <2>1, <3>1, <3>2
  <2> QED BY <2>2, <2>3
<1>6. ASSUME NEW s \in Slots, SRemTask(s) PROVE NoLeaseLeak'
  BY <1>6, <1>a, <1>b DEF SRemTask, EndCall, Keyed, keyVars
<1>7. ASSUME NEW s \in Slots, Finish(s) \/ Defer(s) PROVE NoLeaseLeak'
  BY <1>7, <1>a, <1>b DEF Finish, Defer, Keyed, redisVars, keyVars
<1>8. ASSUME NEW s \in Slots, ReleaseGet(s) PROVE NoLeaseLeak'
  BY <1>8, <1>a, <1>b DEF ReleaseGet, MoveTo, Keyed, redisVars, keyVars
<1>9. ASSUME NEW s \in Slots, ReleaseDel(s) PROVE NoLeaseLeak'
  <2>1. /\ leaseOf' = [leaseOf EXCEPT ![url[s]] = None] /\ url[s] \in Urls
        /\ \A t \in Slots \ {s} : st'[t] = st[t] /\ url'[t] = url[t]
        /\ \A u \in Urls : u # url[s] => keyFate'[u] = keyFate[u]
    BY <1>9, <1>a DEF ReleaseDel, MoveTo, AfterRelease, TypeOK
  <2> SUFFICES ASSUME NEW u \in Urls, leaseOf'[u] # None, keyFate'[u] # "orphaned"
               PROVE  st'[leaseOf'[u]] \in Keyed /\ url'[leaseOf'[u]] = u
    BY DEF NoLeaseLeak
  <2>2. u # url[s] /\ leaseOf'[u] = leaseOf[u] /\ leaseOf[u] \in Slots
    BY <1>a, <2>1
  <2>3. st[leaseOf[u]] \in Keyed /\ url[leaseOf[u]] = u
    BY <1>a, <2>1, <2>2 DEF NoLeaseLeak
  <2> QED BY <2>1, <2>2, <2>3
<1>10. ASSUME NEW s \in Slots, RequeuePush(s) \/ RequeueSAdd(s) \/ RequeueZAdd(s)
       PROVE  NoLeaseLeak'
  BY <1>10, <1>a, <1>b DEF RequeuePush, RequeueSAdd, RequeueZAdd, MoveTo, Keyed, keyVars
<1>11. CASE Recrawl
  BY <1>11, <1>b DEF Recrawl, RecrawlPush, RecrawlSAdd, RecrawlZAdd, keyVars, taskVars
<1>12. CASE Tick
  <2>1. /\ st' = st /\ url' = url
        /\ \A u \in Urls : leaseOf'[u] # None =>
             leaseOf'[u] = leaseOf[u] /\ keyFate'[u] = keyFate[u]
    BY <1>12 DEF Tick, TypeOK
  <2> QED BY <2>1 DEF NoLeaseLeak
<1>13. CASE Crashing
  <2>1. PICK w \in Workers : Crash(w)
    BY <1>13 DEF Crashing
  <2>2. /\ leaseOf' = leaseOf
        /\ \A u \in Urls : keyFate'[u] = IF leaseOf[u] \in SlotsOf(w) THEN "orphaned"
                                         ELSE keyFate[u]
        /\ \A t \in Slots \ SlotsOf(w) : st'[t] = st[t] /\ url'[t] = url[t]
    BY <2>1 DEF Crash, SlotsOf
  <2> QED BY <1>a, <2>2 DEF NoLeaseLeak
<1>14. CASE UNCHANGED vars
  BY <1>14, <1>b DEF vars, keyVars, taskVars
<1> QED
  BY <1>1, <1>2, <1>3, <1>4, <1>5, <1>6, <1>7, <1>8, <1>9, <1>10, <1>11, <1>12,
     <1>13, <1>14
  DEF Next, Core, LeaseStep, TaskStep

\* A lease key names a task that still has its URL and has not released it, or
\* one a crash took: no task that ended or put its URL back has left a key.
THEOREM KeysFreed == Spec => []NoLeaseLeak
<1>1. Init => NoLeaseLeak
  BY DEF Init, NoLeaseLeak
<1> QED BY <1>1, TypeCorrect, NoLeaseLeakStep, PTL DEF Spec

-----------------------------------------------------------------------------
(* OneHome, while the seen filter admits a URL once and nothing is         *)
(* refreshed.                                                              *)

\* Discovery and crawling, with crashes: the steps of CrashSpec.
CrashNext == Core \/ Crashing

\* The URLs of a host's queue are that host's.
Homed == \A h \in Hosts : \A i \in 1 .. Len(bq[h]) : HostOf[bq[h][i]] = h

OneHomeInv == Homed /\ OneHome

\* A step that queues nothing, and after which no other slot holds a URL.
LEMMA OneHomeQuiet ==
  ASSUME OneHomeInv, bq' = bq,
         \A s \in Slots : st'[s] \in Holding => st[s] \in Holding /\ url'[s] = url[s]
  PROVE  OneHomeInv'
BY DEF OneHomeInv, OneHome, Homed, InQueue

\* A push of a URL that was in no queue queues it once, and that URL only.
LEMMA PushOneHome ==
  ASSUME bq \in [Hosts -> Seq(Urls)], NEW u \in Urls, RPush(u), OneHomeInv, ~InQueue(u)
  PROVE  /\ Homed'
         /\ \A h \in Hosts : \A i, j \in 1 .. Len(bq'[h]) : bq'[h][i] = bq'[h][j] => i = j
         /\ \A v \in Urls : InQueue(v)' => v = u \/ InQueue(v)
<1>1. \A h \in Hosts : \A i \in 1 .. Len(bq'[h]) :
        \/ h = HostOf[u] /\ i = Len(bq[h]) + 1 /\ bq'[h][i] = u
        \/ i \in 1 .. Len(bq[h]) /\ bq'[h][i] = bq[h][i]
  BY PushedQueue
<1>2. Homed'
  BY <1>1 DEF OneHomeInv, Homed
<1>3. ASSUME NEW h \in Hosts, NEW i \in 1 .. Len(bq'[h]), NEW j \in 1 .. Len(bq'[h]),
             bq'[h][i] = bq'[h][j]
      PROVE  i = j
  <2>1. \A k \in 1 .. Len(bq[h]) : h = HostOf[u] => bq[h][k] # u
    BY DEF InQueue
  <2>2. \A k, l \in 1 .. Len(bq[h]) : bq[h][k] = bq[h][l] => k = l
    BY DEF OneHomeInv, OneHome
  <2> QED BY <1>1, <1>3, <2>1, <2>2
<1>4. \A v \in Urls : InQueue(v)' => v = u \/ InQueue(v)
  BY <1>1, HostOfType DEF InQueue
<1> QED BY <1>2, <1>3, <1>4

\* A pop takes its URL out of the queues altogether.
LEMMA PopOneHome ==
  ASSUME bq \in [Hosts -> Seq(Urls)], NEW h \in Hosts, bq[h] # <<>>, OneHomeInv,
         bq' = [bq EXCEPT ![h] = Tail(@)]
  PROVE  /\ Homed'
         /\ \A g \in Hosts : \A i, j \in 1 .. Len(bq'[g]) : bq'[g][i] = bq'[g][j] => i = j
         /\ Head(bq[h]) \in Urls /\ HostOf[Head(bq[h])] = h
         /\ InQueue(Head(bq[h]))
         /\ \A v \in Urls : InQueue(v)' => v # Head(bq[h]) /\ InQueue(v)
<1>1. \A g \in Hosts : \A i \in 1 .. Len(bq'[g]) :
        IF g = h THEN i + 1 \in 1 .. Len(bq[h]) /\ bq'[h][i] = bq[h][i + 1]
        ELSE i \in 1 .. Len(bq[g]) /\ bq'[g][i] = bq[g][i]
  BY PoppedQueue
<1>2. /\ 1 \in 1 .. Len(bq[h]) /\ Head(bq[h]) = bq[h][1]
      /\ bq[h] \in Seq(Urls)
  BY HeadIsFirst
<1>3. Head(bq[h]) \in Urls /\ HostOf[Head(bq[h])] = h
  BY <1>2 DEF OneHomeInv, Homed
<1>4. InQueue(Head(bq[h]))
  BY <1>2, <1>3 DEF InQueue
<1>5. Homed'
  <2> SUFFICES ASSUME NEW g \in Hosts, NEW i \in 1 .. Len(bq'[g])
               PROVE  HostOf[bq'[g][i]] = g
    BY DEF Homed
  <2> QED BY <1>1 DEF OneHomeInv, Homed
<1>6. ASSUME NEW g \in Hosts, NEW i \in 1 .. Len(bq'[g]), NEW j \in 1 .. Len(bq'[g]),
             bq'[g][i] = bq'[g][j]
      PROVE  i = j
  <2>1. \A k, l \in 1 .. Len(bq[g]) : bq[g][k] = bq[g][l] => k = l
    BY DEF OneHomeInv, OneHome
  <2>2. i \in Int /\ j \in Int
    OBVIOUS
  <2>3. CASE g = h
    <3>1. /\ i + 1 \in 1 .. Len(bq[h]) /\ j + 1 \in 1 .. Len(bq[h])
          /\ bq[h][i + 1] = bq[h][j + 1]
      BY <1>1, <1>6, <2>3
    <3>2. i + 1 = j + 1
      BY <2>1, <2>3, <3>1
    <3> QED BY <2>2, <3>2
  <2>4. CASE g # h
    BY <1>1, <1>6, <2>1, <2>4
  <2> QED BY <2>3, <2>4
<1>7. ASSUME NEW v \in Urls, InQueue(v)' PROVE v # Head(bq[h]) /\ InQueue(v)
  <2>1. PICK i \in 1 .. Len(bq'[HostOf[v]]) : bq'[HostOf[v]][i] = v
    BY <1>7 DEF InQueue
  <2>2. HostOf[v] \in Hosts
    BY HostOfType
  <2>3. CASE HostOf[v] = h
    <3>1. i + 1 \in 1 .. Len(bq[h]) /\ bq[h][i + 1] = v /\ i \in Int /\ i >= 1
      BY <1>1, <2>1, <2>2, <2>3
    <3>2. i + 1 # 1
      BY <3>1
    <3>3. bq[h][i + 1] # bq[h][1]
      BY <1>2, <3>1, <3>2 DEF OneHomeInv, OneHome
    <3> QED BY <1>2, <2>3, <3>1, <3>3 DEF InQueue
  <2>4. CASE HostOf[v] # h
    <3>1. i \in 1 .. Len(bq[HostOf[v]]) /\ bq[HostOf[v]][i] = v
      BY <1>1, <2>1, <2>2, <2>4
    <3> QED BY <1>3, <2>4, <3>1 DEF InQueue
  <2> QED BY <2>3, <2>4
<1> QED BY <1>3, <1>4, <1>5, <1>6, <1>7

\* A URL that was never admitted is neither queued nor with a task.
LEMMA NeverAdmitted ==
  ASSUME TypeOK, Offered, NEW u \in Urls, admitted[u] = 0
  PROVE  /\ ~InQueue(u) /\ u \notin inq
         /\ \A s \in Slots : st[s] # "free" => url[s] # u
BY HostOfType DEF Offered, Known, InQueue

\* No step gives a URL that is admitted once a second home.
LEMMA OneHomeStep ==
  ASSUME Admissions = 1
  PROVE  TypeOK /\ Offered /\ OneHomeInv /\ [CrashNext]_vars => OneHomeInv'
<1> SUFFICES ASSUME TypeOK, Offered, OneHomeInv, [CrashNext]_vars PROVE OneHomeInv'
  OBVIOUS
<1>a. /\ bq \in [Hosts -> Seq(Urls)] /\ HostOf \in [Urls -> Hosts]
      /\ st \in [Slots -> SlotStates] /\ url \in [Slots -> Urls \cup {None}]
      /\ \A s \in Slots : st[s] # "free" => url[s] \in Urls
      /\ admitted \in [Urls -> Nat]
  BY HostOfType DEF TypeOK
<1>1. ASSUME NEW u \in Urls, Enqueue(u) PROVE OneHomeInv'
  <2>1. admitted[u] = 0 /\ UNCHANGED <<st, url>>
    BY <1>1, <1>a DEF Enqueue, taskVars
  <2>2. ~InQueue(u) /\ \A s \in Slots : st[s] # "free" => url[s] # u
    BY <2>1, NeverAdmitted
  <2>3. CASE bq' = bq
    BY <2>1, <2>3, OneHomeQuiet
  <2>4. CASE RPush(u)
    <3>1. /\ Homed'
          /\ \A h \in Hosts : \A i, j \in 1 .. Len(bq'[h]) : bq'[h][i] = bq'[h][j] => i = j
          /\ \A v \in Urls : InQueue(v)' => v = u \/ InQueue(v)
      BY <1>a, <2>2, <2>4, PushOneHome
    <3>2. \A s \in Slots, v \in Urls : st[s] \in Holding /\ v = url[s] => ~InQueue(v)'
      BY <2>2, <3>1 DEF OneHomeInv, OneHome, Holding, Leasing
    <3>3. \A s \in Slots : (st[s] \in Holding => ~InQueue(url[s]))'
      BY <1>a, <2>1, <3>2 DEF InQueue, Holding, Leasing
    <3> QED BY <2>1, <3>1, <3>3 DEF OneHomeInv, OneHome
  <2> QED BY <1>1, <2>3, <2>4 DEF Enqueue
<1>2. CASE \E w \in Workers : StartLease(w)
  BY <1>2, OneHomeQuiet DEF StartLease, redisVars, taskVars
<1>3. ASSUME NEW w \in Workers, LeaseNone(w) \/ LeaseStale(w) PROVE OneHomeInv'
  <2>1. bq' = bq
    BY <1>3 DEF LeaseNone, LeaseStale, redisVars
  <2>2. \A s \in Slots : st'[s] \in Holding => st[s] \in Holding /\ url'[s] = url[s]
    BY <1>3, <1>a DEF LeaseNone, LeaseStale, EndCall, Holding, Leasing
  <2> QED BY <2>1, <2>2, OneHomeQuiet
<1>4. ASSUME NEW w \in Workers, LeaseTake(w) PROVE OneHomeInv'
  <2>1. PICK h \in Ripest(w), s \in FreeSlots(w) :
          /\ bq[h] # <<>>
          /\ bq' = [bq EXCEPT ![h] = Tail(@)]
          /\ Reschedule(w, h)
          /\ st' = [st EXCEPT ![s] = "popped"]
          /\ url' = [url EXCEPT ![s] = Head(bq[h])]
    BY <1>4 DEF LeaseTake
  <2>2. h \in Hosts /\ s \in Slots /\ st[s] = "free"
    BY DEF TypeOK, Ripest, DueHosts, FreeSlots, SlotsOf
  <2>3. /\ Homed'
        /\ \A g \in Hosts : \A i, j \in 1 .. Len(bq'[g]) : bq'[g][i] = bq'[g][j] => i = j
        /\ Head(bq[h]) \in Urls /\ InQueue(Head(bq[h]))
        /\ \A v \in Urls : InQueue(v)' => v # Head(bq[h]) /\ InQueue(v)
    BY <1>a, <2>1, <2>2, PopOneHome
  <2>4. /\ st'[s] = "popped" /\ url'[s] = Head(bq[h])
        /\ \A t \in Slots \ {s} : st'[t] = st[t] /\ url'[t] = url[t]
    BY <1>a, <2>1, <2>2
  <2>5. \A t \in Slots \ {s} : st'[t] \in Holding => url'[t] # Head(bq[h])
    BY <2>3, <2>4 DEF OneHomeInv, OneHome
  <2>6. \A t \in Slots : st[t] \in Holding => url[t] \in Urls
    BY <1>a DEF Holding, Leasing
  <2>7. \A t \in Slots : (st[t] \in Holding => ~InQueue(url[t]))'
    <3> SUFFICES ASSUME NEW t \in Slots, st'[t] \in Holding, NEW v \in Urls, v = url'[t]
                 PROVE  ~InQueue(v)'
      BY <2>3, <2>4, <2>6 DEF InQueue
    <3>1. CASE t = s
      BY <2>3, <2>4, <3>1
    <3>2. CASE t # s
      <4>1. v = url[t] /\ ~InQueue(url[t])
        BY <2>4, <3>2 DEF OneHomeInv, OneHome
      <4> QED BY <2>3, <4>1
    <3> QED BY <3>1, <3>2
  <2>8. \A t, r \in Slots :
          st'[t] \in Holding /\ st'[r] \in Holding /\ url'[t] = url'[r] => t = r
    <3>1. \A t, r \in Slots \ {s} :
            st'[t] \in Holding /\ st'[r] \in Holding /\ url'[t] = url'[r] => t = r
      BY <2>4 DEF OneHomeInv, OneHome
    <3> QED BY <2>4, <2>5, <3>1
  <2> QED BY <2>3, <2>7, <2>8 DEF OneHomeInv, OneHome
<1>5. ASSUME NEW s \in Slots, SetToken(s) PROVE OneHomeInv'
  BY <1>5, <1>a, OneHomeQuiet DEF SetToken, Holding, Leasing
<1>6. ASSUME NEW s \in Slots, SRemTask(s) PROVE OneHomeInv'
  BY <1>6, <1>a, OneHomeQuiet DEF SRemTask, EndCall, Holding, Leasing
<1>7. ASSUME NEW s \in Slots, Finish(s) \/ Defer(s) PROVE OneHomeInv'
  BY <1>7, <1>a, OneHomeQuiet DEF Finish, Defer, redisVars, Holding, Leasing
<1>8. ASSUME NEW s \in Slots, ReleaseGet(s) PROVE OneHomeInv'
  BY <1>8, <1>a, OneHomeQuiet DEF ReleaseGet, MoveTo, AfterRelease, redisVars, Holding, Leasing
<1>9. ASSUME NEW s \in Slots, ReleaseDel(s) PROVE OneHomeInv'
  BY <1>9, <1>a, OneHomeQuiet DEF ReleaseDel, MoveTo, AfterRelease, Holding, Leasing
<1>10. ASSUME NEW s \in Slots, RequeuePush(s) PROVE OneHomeInv'
  <2>1. /\ RPush(url[s]) /\ st[s] = "push" /\ url' = url
        /\ st' = [st EXCEPT ![s] = "sadd"] /\ url[s] \in Urls
    BY <1>10, <1>a DEF RequeuePush, MoveTo
  <2>2. ~InQueue(url[s])
    BY <2>1 DEF OneHomeInv, OneHome, Holding, Leasing
  <2>3. /\ Homed'
        /\ \A h \in Hosts : \A i, j \in 1 .. Len(bq'[h]) : bq'[h][i] = bq'[h][j] => i = j
        /\ \A v \in Urls : InQueue(v)' => v = url[s] \/ InQueue(v)
    BY <1>a, <2>1, <2>2, PushOneHome
  <2>4. \A t \in Slots : st'[t] \in Holding => t # s /\ st[t] \in Holding
    BY <1>a, <2>1 DEF Holding, Leasing
  <2>5. \A t \in Slots : st'[t] \in Holding => ~InQueue(url[t])'
    <3> SUFFICES ASSUME NEW t \in Slots, st'[t] \in Holding PROVE ~InQueue(url[t])'
      OBVIOUS
    <3>1. t # s /\ st[t] \in Holding /\ st[s] \in Holding
      BY <2>1, <2>4 DEF Holding
    <3>2. url[t] \in Urls /\ url[t] # url[s] /\ ~InQueue(url[t])
      BY <1>a, <3>1 DEF OneHomeInv, OneHome, Holding, Leasing
    <3>3. PICK v \in Urls : v = url[t]
      BY <3>2
    <3>4. ~InQueue(v)'
      BY <2>3, <3>2, <3>3
    <3> QED BY <2>1, <3>3, <3>4 DEF InQueue
  <2> QED BY <2>1, <2>3, <2>4, <2>5 DEF OneHomeInv, OneHome
<1>11. ASSUME NEW s \in Slots, RequeueSAdd(s) \/ RequeueZAdd(s) PROVE OneHomeInv'
  BY <1>11, <1>a, OneHomeQuiet DEF RequeueSAdd, RequeueZAdd, MoveTo, Holding, Leasing
<1>12. CASE Tick
  BY <1>12, OneHomeQuiet DEF Tick
<1>13. CASE Crashing
  BY <1>13, <1>a, OneHomeQuiet DEF Crashing, Crash, Holding, Leasing
<1>14. CASE UNCHANGED vars
  BY <1>14, OneHomeQuiet DEF vars, taskVars
<1> QED
  BY <1>1, <1>2, <1>3, <1>4, <1>5, <1>6, <1>7, <1>8, <1>9, <1>10, <1>11, <1>12,
     <1>13, <1>14
  DEF CrashNext, Core, LeaseStep, TaskStep

\* Runs without refresh are runs of the whole: what holds of those holds here.
LEMMA CrashIsSpec == CrashSpec => Spec
<1>1. [Core \/ Crashing]_vars => [Next]_vars
  BY DEF Next
<1> QED BY <1>1, PTL DEF CrashSpec, Spec

\* What the workers do without crashes they may do with them.
LEMMA CoreIsCrash == CoreSpec => CrashSpec
<1>1. [Core]_vars => [Core \/ Crashing]_vars
  OBVIOUS
<1> QED BY <1>1, PTL DEF CrashSpec, CoreSpec

\* The inductive invariant holds throughout, if a URL is offered once.
LEMMA OneHomeAlways ==
  ASSUME Admissions = 1
  PROVE  CrashSpec => []OneHomeInv
<1>1. Init => OneHomeInv
  BY DEF Init, OneHomeInv, OneHome, Homed, InQueue, Holding, Leasing
<1>2. CrashSpec => [](TypeOK /\ Offered)
  BY CrashIsSpec, TypeCorrect, OnlyOffered, PTL
<1>3. TypeOK /\ Offered /\ OneHomeInv /\ [Core \/ Crashing]_vars => OneHomeInv'
  BY OneHomeStep DEF CrashNext
<1> QED BY <1>1, <1>2, <1>3, PTL DEF CrashSpec

\* While the seen filter admits a URL once and nothing is refreshed, a URL is in
\* one back queue once, or with one task, however lease(), release(), requeue(),
\* _enqueue_one and crashes of any number of processes overlap.
THEOREM OnePlace ==
  ASSUME Admissions = 1
  PROVE  CrashSpec => []OneHome
<1>1. OneHomeInv => OneHome
  BY DEF OneHomeInv
<1> QED BY <1>1, OneHomeAlways, PTL

-----------------------------------------------------------------------------
(* LeaseHeld, from OneHome.                                                *)

\* A task's key is there, with time left, or it ran out and there is none.
KeyInv ==
  \A s \in Slots : st[s] \in Keyed =>
    \/ /\ leaseOf[url[s]] = s
       /\ ttl[url[s]] > 0
       /\ keyFate[url[s]] = "current"
    \/ leaseOf[url[s]] = None /\ keyFate[url[s]] = "lapsed"

\* Only the one task of a URL sets and deletes its key; time and crashes of
\* others do the rest.
LEMMA KeyInvStep ==
  TypeOK /\ OneHome /\ KeyInv /\ [CrashNext]_vars => KeyInv'
<1> SUFFICES ASSUME TypeOK, OneHome, KeyInv, [CrashNext]_vars PROVE KeyInv'
  OBVIOUS
<1>a. /\ st \in [Slots -> SlotStates] /\ url \in [Slots -> Urls \cup {None}]
      /\ \A s \in Slots : st[s] # "free" => url[s] \in Urls
      /\ leaseOf \in [Urls -> Slots \cup {None}] /\ ttl \in [Urls -> Nat]
      /\ keyFate \in [Urls -> KeyFates]
      /\ None \notin Slots
  BY NoneIsNoSlot DEF TypeOK
<1>b. ASSUME UNCHANGED keyVars,
             \A s \in Slots : st'[s] \in Keyed => st[s] \in Keyed /\ url'[s] = url[s]
      PROVE  KeyInv'
  BY <1>b DEF KeyInv, keyVars
<1>c. \A s, t \in Slots :
        st[s] \in Keyed \cup {"popped"} /\ st[t] \in Keyed /\ url[s] = url[t] => s = t
  BY DEF OneHome, Holding, Leasing, Keyed
<1>1. CASE \E u \in Urls : Enqueue(u)
  BY <1>1, <1>b DEF Enqueue, taskVars
<1>2. CASE \E w \in Workers : StartLease(w)
  BY <1>2, <1>b DEF StartLease, redisVars, taskVars
<1>3. ASSUME NEW w \in Workers, LeaseNone(w) \/ LeaseStale(w) PROVE KeyInv'
  BY <1>3, <1>a, <1>b DEF LeaseNone, LeaseStale, EndCall, Keyed, redisVars
<1>4. ASSUME NEW w \in Workers, LeaseTake(w) PROVE KeyInv'
  <2>1. PICK s, v : /\ s \in FreeSlots(w)
                    /\ st' = [st EXCEPT ![s] = "popped"]
                    /\ url' = [url EXCEPT ![s] = v]
    BY <1>4 DEF LeaseTake
  <2>2. s \in Slots
    BY <2>1 DEF FreeSlots, SlotsOf
  <2> QED BY <1>4, <1>a, <1>b, <2>1, <2>2 DEF LeaseTake, Keyed
<1>5. ASSUME NEW s \in Slots, SetToken(s) PROVE KeyInv'
  <2>1. /\ leaseOf' = [leaseOf EXCEPT ![url[s]] = s] /\ url' = url
        /\ ttl' = [ttl EXCEPT ![url[s]] = LeaseTTL]
        /\ keyFate' = [keyFate EXCEPT ![url[s]] = "current"]
        /\ st' = [st EXCEPT ![s] = "tokened"] /\ url[s] \in Urls /\ st[s] = "popped"
    BY <1>5, <1>a DEF SetToken
  <2> SUFFICES ASSUME NEW t \in Slots, st'[t] \in Keyed
               PROVE  \/ /\ leaseOf'[url'[t]] = t /\ ttl'[url'[t]] > 0
                         /\ keyFate'[url'[t]] = "current"
                      \/ leaseOf'[url'[t]] = None /\ keyFate'[url'[t]] = "lapsed"
    BY DEF KeyInv
  <2>2. CASE t = s
    BY <1>a, <2>1, <2>2, BoundsType
  <2>3. CASE t # s
    <3>1. st[t] \in Keyed /\ url[t] \in Urls
      BY <1>a, <2>1, <2>3 DEF Keyed
    <3>2. url[t] # url[s]
      BY <1>c, <2>1, <2>3, <3>1
    <3> QED BY <1>a, <2>1, <3>1, <3>2 DEF KeyInv
  <2> QED BY <2>2, <2>3
<1>6. ASSUME NEW s \in Slots, SRemTask(s) PROVE KeyInv'
  BY <1>6, <1>a, <1>b DEF SRemTask, EndCall, Keyed
<1>7. ASSUME NEW s \in Slots, Finish(s) \/ Defer(s) PROVE KeyInv'
  BY <1>7, <1>a, <1>b DEF Finish, Defer, Keyed, redisVars
<1>8. ASSUME NEW s \in Slots, ReleaseGet(s) PROVE KeyInv'
  BY <1>8, <1>a, <1>b DEF ReleaseGet, MoveTo, AfterRelease, Keyed, redisVars
<1>9. ASSUME NEW s \in Slots, ReleaseDel(s) PROVE KeyInv'
  <2>1. /\ leaseOf' = [leaseOf EXCEPT ![url[s]] = None]
        /\ ttl' = [ttl EXCEPT ![url[s]] = 0]
        /\ keyFate' = [keyFate EXCEPT ![url[s]] = "current"]
        /\ url[s] \in Urls /\ st[s] = "del"
        /\ \A t \in Slots \ {s} : st'[t] = st[t] /\ url'[t] = url[t]
        /\ st'[s] \notin Keyed
    BY <1>9, <1>a DEF ReleaseDel, MoveTo, AfterRelease, Keyed
  <2> SUFFICES ASSUME NEW t \in Slots, st'[t] \in Keyed
               PROVE  \/ /\ leaseOf'[url'[t]] = t /\ ttl'[url'[t]] > 0
                         /\ keyFate'[url'[t]] = "current"
                      \/ leaseOf'[url'[t]] = None /\ keyFate'[url'[t]] = "lapsed"
    BY DEF KeyInv
  <2>2. t # s /\ st[t] \in Keyed /\ st'[t] = st[t] /\ url'[t] = url[t]
    BY <2>1
  <2>3. url[t] \in Urls /\ url[t] # url[s]
    BY <1>a, <1>c, <2>1, <2>2 DEF Keyed
  <2> QED BY <1>a, <2>1, <2>2, <2>3 DEF KeyInv
<1>10. ASSUME NEW s \in Slots, RequeuePush(s) \/ RequeueSAdd(s) \/ RequeueZAdd(s)
       PROVE  KeyInv'
  BY <1>10, <1>a, <1>b DEF RequeuePush, RequeueSAdd, RequeueZAdd, MoveTo, Keyed
<1>11. CASE Tick
  <2> SUFFICES ASSUME NEW s \in Slots, st'[s] \in Keyed
               PROVE  \/ /\ leaseOf'[url'[s]] = s /\ ttl'[url'[s]] > 0
                         /\ keyFate'[url'[s]] = "current"
                      \/ leaseOf'[url'[s]] = None /\ keyFate'[url'[s]] = "lapsed"
    BY DEF KeyInv
  <2>1. /\ st' = st /\ url' = url
        /\ leaseOf' = [u \in Urls |-> IF ttl[u] > 1 THEN leaseOf[u] ELSE None]
        /\ ttl' = [u \in Urls |-> IF ttl[u] > 0 THEN ttl[u] - 1 ELSE 0]
        /\ keyFate' = [u \in Urls |-> IF ttl[u] = 1 THEN RunOut(keyFate[u])
                                      ELSE keyFate[u]]
    BY <1>11 DEF Tick
  <2>2. url[s] \in Urls /\ ttl[url[s]] \in Nat
    BY <1>a, <2>1 DEF Keyed
  <2> QED BY <2>1, <2>2 DEF KeyInv, RunOut
<1>12. CASE Crashing
  <2>1. PICK w \in Workers : Crash(w)
    BY <1>12 DEF Crashing
  <2>2. /\ leaseOf' = leaseOf /\ ttl' = ttl
        /\ \A u \in Urls : leaseOf[u] \notin SlotsOf(w) => keyFate'[u] = keyFate[u]
        /\ \A t \in Slots : st'[t] \in Keyed =>
             t \notin SlotsOf(w) /\ st'[t] = st[t] /\ url'[t] = url[t]
    BY <2>1 DEF Crash, SlotsOf, Keyed
  <2>3. None \notin SlotsOf(w)
    BY <1>a DEF SlotsOf
  <2>4. \A t \in Slots : st[t] \in Keyed => url[t] \in Urls
    BY <1>a DEF Keyed
  <2> QED BY <2>2, <2>3, <2>4 DEF KeyInv
<1>13. CASE UNCHANGED vars
  BY <1>13, <1>b DEF vars, taskVars
<1> QED
  BY <1>1, <1>2, <1>3, <1>4, <1>5, <1>6, <1>7, <1>8, <1>9, <1>10, <1>11, <1>12, <1>13
  DEF CrashNext, Core, LeaseStep, TaskStep

\* While the seen filter admits a URL once and nothing is refreshed, a task has
\* its lease key from SET to DEL unless the TTL ran out: neither another task's
\* release() nor a key left by a crash gets in its way.
THEOREM LeasesHeld ==
  ASSUME Admissions = 1
  PROVE  CrashSpec => []LeaseHeld
<1>1. Init => KeyInv
  BY DEF Init, KeyInv, Keyed
<1>2. CrashSpec => [](TypeOK /\ OneHome)
  BY CrashIsSpec, TypeCorrect, OnePlace, PTL
<1>3. TypeOK /\ OneHome /\ KeyInv /\ [Core \/ Crashing]_vars => KeyInv'
  BY KeyInvStep DEF CrashNext
<1>4. KeyInv => LeaseHeld
  BY DEF KeyInv, LeaseHeld
<1> QED BY <1>1, <1>2, <1>3, <1>4, PTL DEF CrashSpec

-----------------------------------------------------------------------------
(* QueuedIsMember, without crashes as well.                                *)

\* A step that queues nothing and takes no queued URL out of the set.
LEMMA MemberQuiet ==
  ASSUME QueuedIsMember,
         \A u \in Urls : InQueue(u)' => InQueue(u),
         \A u \in Urls : InQueue(u) /\ u \in inq => u \in inq',
         \A s \in Slots : st[s] = "sadd" => st'[s] = "sadd" /\ url'[s] = url[s]
  PROVE  QueuedIsMember'
BY DEF QueuedIsMember

\* A push is followed by its SADD, and SREM only takes out what is not queued.
LEMMA MemberStep ==
  TypeOK /\ OneHomeInv /\ QueuedIsMember /\ [Core]_vars => QueuedIsMember'
<1> SUFFICES ASSUME TypeOK, OneHomeInv, QueuedIsMember, [Core]_vars PROVE QueuedIsMember'
  OBVIOUS
<1>a. /\ bq \in [Hosts -> Seq(Urls)] /\ HostOf \in [Urls -> Hosts]
      /\ st \in [Slots -> SlotStates] /\ url \in [Slots -> Urls \cup {None}]
      /\ \A s \in Slots : st[s] # "free" => url[s] \in Urls
  BY HostOfType DEF TypeOK
<1>b. ASSUME bq' = bq, inq \subseteq inq',
             \A s \in Slots : st[s] = "sadd" => st'[s] = "sadd" /\ url'[s] = url[s]
      PROVE  QueuedIsMember'
  BY <1>b, MemberQuiet DEF InQueue
<1>1. ASSUME NEW u \in Urls, Enqueue(u) PROVE QueuedIsMember'
  <2>1. UNCHANGED <<st, url>>
    BY <1>1 DEF Enqueue, taskVars
  <2>2. CASE bq' = bq /\ inq' = inq
    BY <1>b, <2>1, <2>2
  <2>3. CASE RPush(u) /\ inq' = inq \cup {u}
    <3>1. \A h \in Hosts : \A i \in 1 .. Len(bq'[h]) :
            \/ h = HostOf[u] /\ i = Len(bq[h]) + 1 /\ bq'[h][i] = u
            \/ i \in 1 .. Len(bq[h]) /\ bq'[h][i] = bq[h][i]
      BY <1>a, <2>3, PushedQueue
    <3>2. \A v \in Urls : InQueue(v)' => v = u \/ InQueue(v)
      BY <1>a, <3>1 DEF InQueue
    <3> QED BY <2>1, <2>3, <3>2 DEF QueuedIsMember
  <2> QED BY <1>1, <2>2, <2>3 DEF Enqueue
<1>2. CASE \E w \in Workers : StartLease(w)
  BY <1>2, <1>b DEF StartLease, redisVars, taskVars
<1>3. ASSUME NEW w \in Workers, LeaseNone(w) \/ LeaseStale(w) PROVE QueuedIsMember'
  <2>1. bq' = bq /\ inq' = inq
    BY <1>3 DEF LeaseNone, LeaseStale, redisVars
  <2>2. \A s \in Slots : st[s] = "sadd" => st'[s] = "sadd" /\ url'[s] = url[s]
    BY <1>3, <1>a DEF LeaseNone, LeaseStale, EndCall
  <2> QED BY <1>b, <2>1, <2>2
<1>4. ASSUME NEW w \in Workers, LeaseTake(w) PROVE QueuedIsMember'
  <2>1. PICK h \in Ripest(w), s \in FreeSlots(w) :
          /\ bq[h] # <<>>
          /\ bq' = [bq EXCEPT ![h] = Tail(@)]
          /\ Reschedule(w, h)
          /\ st' = [st EXCEPT ![s] = "popped"]
          /\ url' = [url EXCEPT ![s] = Head(bq[h])]
    BY <1>4 DEF LeaseTake
  <2>2. h \in Hosts /\ s \in Slots /\ st[s] = "free"
    BY DEF TypeOK, Ripest, DueHosts, FreeSlots, SlotsOf
  <2>3. \A v \in Urls : InQueue(v)' => InQueue(v)
    BY <1>a, <2>1, <2>2, PopOneHome
  <2>4. \A t \in Slots : st[t] = "sadd" => st'[t] = "sadd" /\ url'[t] = url[t]
    BY <1>a, <2>1, <2>2
  <2>5. inq' = inq
    BY <1>4 DEF LeaseTake
  <2> QED BY <2>3, <2>4, <2>5, MemberQuiet
<1>5. ASSUME NEW s \in Slots, SetToken(s) \/ Finish(s) \/ Defer(s) PROVE QueuedIsMember'
  BY <1>5, <1>a, <1>b DEF SetToken, Finish, Defer, redisVars
<1>6. ASSUME NEW s \in Slots, SRemTask(s) PROVE QueuedIsMember'
  <2>1. st[s] = "tokened" /\ inq' = inq \ {url[s]} /\ bq' = bq /\ url' = url
    BY <1>6 DEF SRemTask
  <2>2. ~InQueue(url[s])
    BY <2>1 DEF OneHomeInv, OneHome, Holding, Leasing
  <2>3. \A t \in Slots : st[t] = "sadd" => st'[t] = "sadd"
    BY <1>6, <1>a DEF SRemTask, EndCall
  <2>4. \A u \in Urls : (InQueue(u)' => InQueue(u)) /\ (InQueue(u) /\ u \in inq => u \in inq')
    BY <2>1, <2>2 DEF InQueue
  <2> QED BY <2>1, <2>3, <2>4, MemberQuiet
<1>7. ASSUME NEW s \in Slots, ReleaseGet(s) PROVE QueuedIsMember'
  BY <1>7, <1>a, <1>b DEF ReleaseGet, MoveTo, AfterRelease, redisVars
<1>8. ASSUME NEW s \in Slots, ReleaseDel(s) PROVE QueuedIsMember'
  BY <1>8, <1>a, <1>b DEF ReleaseDel, MoveTo, AfterRelease
<1>9. ASSUME NEW s \in Slots, RequeuePush(s) PROVE QueuedIsMember'
  <2>1. /\ RPush(url[s]) /\ url' = url /\ inq' = inq
        /\ st' = [st EXCEPT ![s] = "sadd"] /\ url[s] \in Urls
    BY <1>9, <1>a DEF RequeuePush, MoveTo
  <2>2. \A h \in Hosts : \A i \in 1 .. Len(bq'[h]) :
          \/ h = HostOf[url[s]] /\ i = Len(bq[h]) + 1 /\ bq'[h][i] = url[s]
          \/ i \in 1 .. Len(bq[h]) /\ bq'[h][i] = bq[h][i]
    BY <1>a, <2>1, PushedQueue
  <2>3. \A v \in Urls : InQueue(v)' => v = url[s] \/ InQueue(v)
    BY <1>a, <2>2 DEF InQueue
  <2>4. st'[s] = "sadd" /\ \A t \in Slots : st[t] = "sadd" => st'[t] = "sadd"
    BY <1>a, <2>1
  <2> QED BY <2>1, <2>3, <2>4 DEF QueuedIsMember
<1>10. ASSUME NEW s \in Slots, RequeueSAdd(s) PROVE QueuedIsMember'
  <2>1. bq' = bq /\ inq' = inq \cup {url[s]} /\ url' = url
        /\ \A t \in Slots \ {s} : st'[t] = st[t]
    BY <1>10, <1>a DEF RequeueSAdd, MoveTo
  <2>2. \A u \in Urls : InQueue(u)' => InQueue(u)
    BY <2>1 DEF InQueue
  <2> QED BY <2>1, <2>2 DEF QueuedIsMember
<1>11. ASSUME NEW s \in Slots, RequeueZAdd(s) PROVE QueuedIsMember'
  BY <1>11, <1>a, <1>b DEF RequeueZAdd, MoveTo
<1>12. CASE Tick
  BY <1>12, <1>b DEF Tick
<1>13. CASE UNCHANGED vars
  BY <1>13, <1>b DEF vars, taskVars
<1> QED
  BY <1>1, <1>2, <1>3, <1>4, <1>5, <1>6, <1>7, <1>8, <1>9, <1>10, <1>11, <1>12,
     <1>13
  DEF Core, LeaseStep, TaskStep

\* Without crashes, a queued URL is in the in-queue set, or the requeue() that
\* pushed it is about to say so: _enqueue_one never queues a URL twice.
THEOREM QueuedOnce ==
  ASSUME Admissions = 1
  PROVE  CoreSpec => []QueuedIsMember
<1>1. Init => QueuedIsMember
  <2> SUFFICES ASSUME Init, NEW u \in Urls PROVE ~InQueue(u)
    BY DEF QueuedIsMember
  <2>1. bq[HostOf[u]] = <<>>
    BY HostOfType DEF Init
  <2> QED BY <2>1 DEF InQueue
<1>2. CoreSpec => [](TypeOK /\ OneHomeInv)
  BY CoreIsCrash, CrashIsSpec, TypeCorrect, OneHomeAlways, PTL
<1> QED BY <1>1, <1>2, MemberStep, PTL DEF CoreSpec

-----------------------------------------------------------------------------
(* IsWorkQueue: the frontier implements WorkQueue, step by step.           *)

\* Only a release() or requeue() in progress remembers a delay.
BackIdle ==
  \A s \in Slots : st[s] \notin {"get", "del", "push", "sadd", "zadd"} => back[s] = 0

\* A slot that gives nothing back remembers no delay.
LEMMA BackIdleStep == TypeOK /\ BackIdle /\ [Core]_vars => BackIdle'
<1> SUFFICES ASSUME TypeOK, BackIdle, [Core]_vars PROVE BackIdle'
  OBVIOUS
<1>a. st \in [Slots -> SlotStates] /\ back \in [Slots -> Int]
  BY DEF TypeOK
<1>b. ASSUME back' = back, \A s \in Slots : st[s] \in {"get", "del", "push", "sadd", "zadd"}
                              => st'[s] \in {"get", "del", "push", "sadd", "zadd"}
      PROVE  BackIdle'
  BY <1>b DEF BackIdle
<1>1. CASE \E u \in Urls : Enqueue(u)
  BY <1>1, <1>b DEF Enqueue, taskVars
<1>2. CASE \E w \in Workers : StartLease(w)
  BY <1>2, <1>b DEF StartLease, taskVars
<1>3. ASSUME NEW w \in Workers, LeaseNone(w) \/ LeaseStale(w) PROVE BackIdle'
  BY <1>3, <1>a, <1>b DEF LeaseNone, LeaseStale, EndCall
<1>4. ASSUME NEW w \in Workers, LeaseTake(w) PROVE BackIdle'
  BY <1>4, <1>a, <1>b DEF LeaseTake, FreeSlots, SlotsOf
<1>5. ASSUME NEW s \in Slots, SetToken(s) \/ SRemTask(s) \/ Finish(s) PROVE BackIdle'
  BY <1>5, <1>a, <1>b DEF SetToken, SRemTask, EndCall, Finish
<1>6. ASSUME NEW s \in Slots, Defer(s) PROVE BackIdle'
  BY <1>6, <1>a DEF Defer, BackIdle
<1>7. ASSUME NEW s \in Slots,
             \/ ReleaseGet(s) \/ ReleaseDel(s)
             \/ RequeuePush(s) \/ RequeueSAdd(s) \/ RequeueZAdd(s)
      PROVE  BackIdle'
  <2>1. PICK state \in {"free", "del", "push", "sadd", "zadd"} : MoveTo(s, state)
    BY <1>7 DEF ReleaseGet, ReleaseDel, RequeuePush, RequeueSAdd, RequeueZAdd, AfterRelease
  <2> QED BY <1>a, <2>1 DEF MoveTo, BackIdle
<1>8. CASE Tick
  BY <1>8 DEF Tick, BackIdle
<1>9. CASE UNCHANGED vars
  BY <1>9, <1>b DEF vars, taskVars
<1> QED BY <1>1, <1>2, <1>3, <1>4, <1>5, <1>6, <1>7, <1>8, <1>9
        DEF Core, LeaseStep, TaskStep

\* The one slot that holds a URL is its status, before a step and after it.
LEMMA StatusHeld ==
  ASSUME OneHome, NEW u \in Urls, NEW s \in Slots, Holds(s, u)
  PROVE  Status(u) = s /\ ~InQueue(u)
<1>1. \A t \in Slots : Holds(t, u) => t = s
  BY DEF OneHome, Holds
<1>2. ~InQueue(u)
  BY DEF OneHome, Holds
<1>3. (CHOOSE t \in Slots : Holds(t, u)) = s
  BY <1>1
<1> QED BY <1>2, <1>3 DEF Status, Held

\* A URL that a slot holds after a step is in no queue then.
LEMMA StatusHeldNext ==
  ASSUME OneHome', NEW u \in Urls, NEW s \in Slots, Holds(s, u)'
  PROVE  Status(u)' = s /\ ~InQueue(u)'
<1>1. \A t \in Slots : Holds(t, u)' => t = s
  BY DEF OneHome, Holds
<1>2. ~InQueue(u)'
  BY DEF OneHome, Holds
<1>3. (CHOOSE t \in Slots : Holds(t, u)') = s
  BY <1>1
<1> QED BY <1>2, <1>3 DEF Status, Held

\* A slot that is a URL's status holds it.
LEMMA StatusSlot ==
  ASSUME TypeOK, NEW u \in Urls, NEW s \in Slots, Status(u) = s
  PROVE  Holds(s, u)
<1>1. \A word \in {"unknown", "queued", "none", "finished", "refused", "lost"} : s # word
  BY SlotsAreNoWords
<1>2. fate[u] \in {"none", "finished", "refused", "lost"}
  BY DEF TypeOK
<1>3. ~InQueue(u) /\ Held(u)
  BY <1>1, <1>2 DEF Status
<1>4. \E t \in Slots : Holds(t, u)
  BY <1>3 DEF Held
<1>5. s = CHOOSE t \in Slots : Holds(t, u)
  BY <1>3 DEF Status
<1> QED BY <1>4, <1>5

\* What a URL's status depends on.
LEMMA StatusSame ==
  ASSUME OneHome, OneHome', NEW u \in Urls,
         InQueue(u)' <=> InQueue(u),
         \A s \in Slots : Holds(s, u)' <=> Holds(s, u),
         admitted'[u] = admitted[u],
         Held(u) \/ fate'[u] = fate[u]
  PROVE  Status(u)' = Status(u)
<1>1. CASE Held(u)
  <2>1. PICK s \in Slots : Holds(s, u)
    BY <1>1 DEF Held
  <2> QED BY <2>1, StatusHeld, StatusHeldNext
<1>2. CASE ~Held(u)
  <2>1. ~Held(u)' /\ fate'[u] = fate[u]
    BY <1>2 DEF Held
  <2> QED BY <1>2, <2>1 DEF Status
<1> QED BY <1>1, <1>2

\* The refinement mapping, and what a step does to it.
Stat == [u \in Urls |-> Status(u)]

\* If no URL changes its status, the work queue does nothing.
LEMMA StatStutter ==
  ASSUME \A u \in Urls : Status(u)' = Status(u)
  PROVE  [WQ!Next]_Stat
BY DEF Stat

\* If one URL changes its status, the function of statuses changes at it.
LEMMA StatChange ==
  ASSUME NEW u \in Urls, NEW x, Status(u)' = x,
         \A v \in Urls \ {u} : Status(v)' = Status(v)
  PROVE  Stat' = [Stat EXCEPT ![u] = x]
BY DEF Stat

\* A step of one slot that keeps what it holds is no step of the work queue.
LEMMA StatQuiet ==
  ASSUME OneHome, OneHome', bq' = bq, admitted' = admitted,
         \A u \in Urls, s \in Slots : Holds(s, u)' <=> Holds(s, u),
         fate' = fate
  PROVE  [WQ!Next]_Stat
<1>1. \A u \in Urls : InQueue(u)' <=> InQueue(u)
  BY DEF InQueue
<1> QED BY <1>1, StatusSame, StatStutter

\* An admission of a new URL is an offer: it is queued, or refused.
LEMMA EnqueueIsOffer ==
  ASSUME Admissions = 1, TypeOK, Offered, OneHomeInv, OneHomeInv',
         NEW u \in Urls, Enqueue(u)
  PROVE  WQ!Next
<1>1. admitted[u] = 0 /\ admitted' = [admitted EXCEPT ![u] = @ + 1] /\ UNCHANGED <<st, url, back>>
  BY DEF Enqueue, taskVars, TypeOK
<1>2. /\ ~InQueue(u) /\ u \notin inq
      /\ \A s \in Slots : st[s] # "free" => url[s] # u
  BY <1>1, NeverAdmitted
<1>3. ~Held(u) /\ ~Held(u)'
  BY <1>1, <1>2 DEF Held, Holds, Holding, Leasing
<1>4. Status(u) = "unknown"
  BY <1>1, <1>2, <1>3 DEF Status
<1>5. admitted'[u] # 0 /\ \A v \in Urls \ {u} : admitted'[v] = admitted[v]
  BY <1>1 DEF TypeOK
<1>6. \A v \in Urls, s \in Slots : Holds(s, v)' <=> Holds(s, v)
  BY <1>1 DEF Holds, Over
<1>7. ASSUME Status(u)' \in {"queued", "refused"},
             \A v \in Urls \ {u} : (InQueue(v)' <=> InQueue(v)) /\ fate'[v] = fate[v]
      PROVE  WQ!Next
  <2>1. \A v \in Urls \ {u} : Status(v)' = Status(v)
    BY <1>5, <1>6, <1>7, StatusSame DEF OneHomeInv
  <2>2. PICK word \in {"queued", "refused"} : Status(u)' = word
    BY <1>7
  <2>3. Stat' = [Stat EXCEPT ![u] = word]
    BY <2>1, <2>2, StatChange
  <2>4. Stat[u] = "unknown"
    BY <1>4 DEF Stat
  <2>5. WQ!Offer(u)
    BY <2>3, <2>4 DEF WQ!Offer, Stat
  <2> QED BY <2>5 DEF WQ!Next
<1>8. CASE bq' = bq /\ Leaves(u, "refused")
  <2>1. fate'[u] = "refused" /\ \A v \in Urls \ {u} : fate'[v] = fate[v]
    BY <1>8 DEF Leaves, TypeOK
  <2>2. \A v \in Urls : InQueue(v)' <=> InQueue(v)
    BY <1>8 DEF InQueue
  <2>3. Status(u)' = "refused"
    BY <1>2, <1>3, <1>5, <2>1, <2>2 DEF Status
  <2> QED BY <1>7, <2>1, <2>2, <2>3
<1>9. CASE RPush(u) /\ Leaves(u, "none")
  <2>1. \A v \in Urls \ {u} : fate'[v] = fate[v]
    BY <1>9 DEF Leaves, TypeOK
  <2>2. InQueue(u)' /\ \A v \in Urls : InQueue(v) => InQueue(v)'
    BY <1>9, PushKeepsQueued DEF TypeOK
  <2>3. \A v \in Urls : InQueue(v)' => v = u \/ InQueue(v)
    BY <1>2, <1>9, PushOneHome DEF TypeOK
  <2>4. Status(u)' = "queued"
    BY <2>2 DEF Status
  <2> QED BY <1>7, <2>1, <2>2, <2>3, <2>4
<1> QED BY <1>2, <1>3, <1>8, <1>9 DEF Enqueue, Alive

\* The lease script's pop is a take: the slot that runs it holds nothing.
LEMMA LeaseIsTake ==
  ASSUME TypeOK, OneHomeInv, OneHomeInv', NEW w \in Workers, LeaseTake(w)
  PROVE  WQ!Next
<1>a. /\ bq \in [Hosts -> Seq(Urls)]
      /\ st \in [Slots -> SlotStates] /\ url \in [Slots -> Urls \cup {None}]
      /\ back \in [Slots -> Int]
  BY DEF TypeOK
<1>1. PICK h \in Ripest(w), s \in FreeSlots(w) :
        /\ bq[h] # <<>>
        /\ bq' = [bq EXCEPT ![h] = Tail(@)]
        /\ Reschedule(w, h)
        /\ st' = [st EXCEPT ![s] = "popped"]
        /\ url' = [url EXCEPT ![s] = Head(bq[h])]
  BY DEF LeaseTake
<1>2. h \in Hosts /\ s \in Slots /\ st[s] = "free"
  BY DEF TypeOK, Ripest, DueHosts, FreeSlots, SlotsOf
<1>3. PICK u \in Urls : u = Head(bq[h])
  BY <1>a, <1>1, <1>2, PopOneHome
<1>4. InQueue(u) /\ \A v \in Urls : InQueue(v)' => v # u /\ InQueue(v)
  BY <1>a, <1>1, <1>2, <1>3, PopOneHome
<1>5. \A v \in Urls \ {u} : InQueue(v) => InQueue(v)'
  BY <1>a, <1>1, <1>2, <1>3, PopKeepsQueued
<1>6. /\ st'[s] = "popped" /\ url'[s] = u
      /\ \A t \in Slots \ {s} : st'[t] = st[t] /\ url'[t] = url[t]
      /\ UNCHANGED <<back, admitted, fate>>
  BY <1>a, <1>1, <1>2, <1>3 DEF LeaseTake
<1>7. \A v \in Urls : ~Holds(s, v)
  BY <1>2 DEF Holds, Holding, Leasing
<1>8. Holds(s, u)' /\ \A v \in Urls \ {u}, t \in Slots : Holds(t, v)' <=> Holds(t, v)
  <2>1. Holds(s, u)'
    BY <1>6 DEF Holds, Over, Holding, Leasing
  <2>2. \A v \in Urls \ {u} : ~Holds(s, v)'
    BY <1>6 DEF Holds
  <2>3. \A v \in Urls, t \in Slots \ {s} : Holds(t, v)' <=> Holds(t, v)
    BY <1>6 DEF Holds, Over
  <2> QED BY <1>7, <2>1, <2>2, <2>3
<1>9. Status(u) = "queued" /\ Status(u)' = s
  <2>1. Status(u) = "queued"
    BY <1>4 DEF Status
  <2>2. Status(u)' = s
    BY <1>2, <1>8, StatusHeldNext DEF OneHomeInv
  <2> QED BY <2>1, <2>2
<1>10. \A v \in Urls \ {u} : Status(v)' = Status(v)
  BY <1>4, <1>5, <1>6, <1>8, StatusSame DEF OneHomeInv
<1>11. Stat' = [Stat EXCEPT ![u] = s]
  BY <1>9, <1>10, StatChange
<1>12. \A v \in Urls : Status(v) # s
  BY <1>2, <1>7, StatusSlot
<1>13. Stat[u] = "queued" /\ \A v \in Urls : Stat[v] # s
  BY <1>9, <1>12 DEF Stat
<1>14. WQ!Take(s, u)
  BY <1>11, <1>13 DEF WQ!Take, Stat
<1> QED BY <1>2, <1>14 DEF WQ!Next

\* A terminal outcome completes the task: nothing else has the URL.
LEMMA FinishIsComplete ==
  ASSUME TypeOK, Offered, OneHomeInv, OneHomeInv', BackIdle, NEW s \in Slots, Finish(s)
  PROVE  WQ!Next
<1>1. PICK u \in Urls : u = url[s]
  BY DEF Finish, TypeOK
<1>2. /\ st[s] = "fetching" /\ st'[s] = "get" /\ url' = url /\ back' = back /\ back[s] = 0
      /\ \A t \in Slots \ {s} : st'[t] = st[t]
      /\ fate'[u] = "finished" /\ \A v \in Urls \ {u} : fate'[v] = fate[v]
      /\ bq' = bq /\ admitted' = admitted
  BY <1>1 DEF Finish, Leaves, BackIdle, TypeOK, redisVars
<1>3. Holds(s, u) /\ \A v \in Urls : ~Holds(s, v)'
  BY <1>1, <1>2 DEF Holds, Over, Holding, Leasing
<1>4. \A v \in Urls, t \in Slots \ {s} : Holds(t, v)' <=> Holds(t, v)
  BY <1>2 DEF Holds, Over
<1>5. Status(u) = s /\ ~InQueue(u) /\ \A t \in Slots : Holds(t, u) => t = s
  BY <1>3, StatusHeld DEF OneHomeInv, OneHome, Holds
<1>6. ~Held(u)' /\ ~InQueue(u)'
  BY <1>2, <1>3, <1>4, <1>5 DEF Held, InQueue
<1>7. admitted[u] > 0
  BY <1>1, <1>2 DEF Offered, Known
<1>8. Status(u)' = "finished"
  BY <1>2, <1>6, <1>7 DEF Status
<1>9. \A v \in Urls \ {u} : Status(v)' = Status(v)
  <2>1. \A v \in Urls \ {u} : ~Holds(s, v)
    BY <1>1 DEF Holds
  <2>2. \A v \in Urls : InQueue(v)' <=> InQueue(v)
    BY <1>2 DEF InQueue
  <2>3. \A v \in Urls \ {u}, t \in Slots : Holds(t, v)' <=> Holds(t, v)
    BY <1>3, <1>4, <2>1
  <2> QED BY <1>2, <2>2, <2>3, StatusSame DEF OneHomeInv
<1>10. Stat' = [Stat EXCEPT ![u] = "finished"] /\ Stat[u] = s
  BY <1>5, <1>8, <1>9, StatChange DEF Stat
<1>11. WQ!Complete(s, u)
  BY <1>10 DEF WQ!Complete, Stat
<1> QED BY <1>11 DEF WQ!Next

\* The RPUSH of a requeue() returns the URL.
LEMMA PushIsReturn ==
  ASSUME TypeOK, OneHomeInv, OneHomeInv', NEW s \in Slots, RequeuePush(s)
  PROVE  WQ!Next
<1>1. PICK u \in Urls : u = url[s]
  BY DEF RequeuePush, TypeOK
<1>2. /\ st[s] = "push" /\ st'[s] = "sadd" /\ url' = url /\ back' = back
      /\ \A t \in Slots \ {s} : st'[t] = st[t]
      /\ \A v \in Urls \ {u} : fate'[v] = fate[v]
      /\ RPush(u) /\ admitted' = admitted /\ bq \in [Hosts -> Seq(Urls)]
  BY <1>1 DEF RequeuePush, MoveTo, Leaves, TypeOK
<1>3. Holds(s, u) /\ \A v \in Urls : ~Holds(s, v)'
  BY <1>1, <1>2 DEF Holds, Over, Holding, Leasing
<1>4. \A v \in Urls, t \in Slots \ {s} : Holds(t, v)' <=> Holds(t, v)
  BY <1>2 DEF Holds, Over
<1>5. Status(u) = s /\ ~InQueue(u)
  BY <1>3, StatusHeld DEF OneHomeInv
<1>6. InQueue(u)' /\ \A v \in Urls : InQueue(v) => InQueue(v)'
  BY <1>2, PushKeepsQueued
<1>7. \A v \in Urls : InQueue(v)' => v = u \/ InQueue(v)
  BY <1>2, <1>5, PushOneHome
<1>8. Status(u)' = "queued"
  BY <1>6 DEF Status
<1>9. \A v \in Urls \ {u} : Status(v)' = Status(v)
  <2>1. \A v \in Urls \ {u} : ~Holds(s, v)
    BY <1>1 DEF Holds
  <2>2. \A v \in Urls \ {u}, t \in Slots : Holds(t, v)' <=> Holds(t, v)
    BY <1>3, <1>4, <2>1
  <2> QED BY <1>2, <1>6, <1>7, <2>2, StatusSame DEF OneHomeInv
<1>10. Stat' = [Stat EXCEPT ![u] = "queued"] /\ Stat[u] = s
  BY <1>5, <1>8, <1>9, StatChange DEF Stat
<1>11. WQ!Return(s, u)
  BY <1>10 DEF WQ!Return, Stat
<1> QED BY <1>11 DEF WQ!Next

\* Every step of the frontier is a step of the work queue or none of its business.
LEMMA WorkQueueStep ==
  ASSUME Admissions = 1
  PROVE  /\ TypeOK /\ Offered /\ OneHomeInv /\ OneHomeInv' /\ BackIdle
         /\ [Core]_vars
         => [WQ!Next]_Stat
<1> SUFFICES ASSUME TypeOK, Offered, OneHomeInv, OneHomeInv', BackIdle, [Core]_vars
             PROVE  [WQ!Next]_Stat
  OBVIOUS
<1>a. st \in [Slots -> SlotStates] /\ back \in [Slots -> Int] /\ OneHome /\ OneHome'
  BY DEF TypeOK, OneHomeInv
<1>1. CASE \E u \in Urls : Enqueue(u)
  BY <1>1, EnqueueIsOffer
<1>2. CASE \E w \in Workers : StartLease(w)
  <2>1. \A u \in Urls, s \in Slots : Holds(s, u)' <=> Holds(s, u)
    BY <1>2 DEF StartLease, taskVars, Holds, Over
  <2> QED BY <1>2, <1>a, <2>1, StatQuiet DEF StartLease, redisVars
<1>3. ASSUME NEW w \in Workers, LeaseNone(w) \/ LeaseStale(w) PROVE [WQ!Next]_Stat
  <2>1. /\ UNCHANGED <<bq, admitted, fate, url, back>>
        /\ EndCall(w, st)
    BY <1>3 DEF LeaseNone, LeaseStale, redisVars
  <2>2. \A u \in Urls, s \in Slots : Holds(s, u)' <=> Holds(s, u)
    BY <1>a, <2>1 DEF EndCall, Holds, Over, Holding, Leasing
  <2> QED BY <1>a, <2>1, <2>2, StatQuiet
<1>4. CASE \E w \in Workers : LeaseTake(w)
  BY <1>4, LeaseIsTake
<1>5. ASSUME NEW s \in Slots, SetToken(s) \/ SRemTask(s) PROVE [WQ!Next]_Stat
  <2>1. UNCHANGED <<bq, admitted, fate, url, back>>
    BY <1>5 DEF SetToken, SRemTask
  <2>2. \A t \in Slots : /\ st'[t] \in Holding <=> st[t] \in Holding
                         /\ st'[t] \in {"get", "del"} <=> st[t] \in {"get", "del"}
    BY <1>5, <1>a DEF SetToken, SRemTask, EndCall, Holding, Leasing
  <2>3. \A u \in Urls, t \in Slots : Holds(t, u)' <=> Holds(t, u)
    BY <2>1, <2>2 DEF Holds, Over
  <2> QED BY <1>a, <2>1, <2>3, StatQuiet
<1>6. CASE \E s \in Slots : Finish(s)
  BY <1>6, FinishIsComplete
<1>7. ASSUME NEW s \in Slots, UNCHANGED <<bq, admitted, fate>>,
             \A t \in Slots \ {s} : st'[t] = st[t] /\ url'[t] = url[t] /\ back'[t] = back[t],
             \A u \in Urls : Holds(s, u)' <=> Holds(s, u)
      PROVE  [WQ!Next]_Stat
  <2>1. \A u \in Urls, t \in Slots \ {s} : Holds(t, u)' <=> Holds(t, u)
    BY <1>7 DEF Holds, Over
  <2> QED BY <1>7, <1>a, <2>1, StatQuiet
<1>8. ASSUME NEW s \in Slots, Defer(s) PROVE [WQ!Next]_Stat
  <2>1. PICK d \in Delays : back' = [back EXCEPT ![s] = d]
    BY <1>8 DEF Defer
  <2>2. back'[s] # 0 /\ url' = url /\ st[s] = "fetching" /\ st'[s] = "get"
    BY <1>8, <1>a, <2>1, BoundsType DEF Defer
  <2>3. \A u \in Urls : Holds(s, u)' <=> Holds(s, u)
    BY <2>2 DEF Holds, Over, Holding, Leasing
  <2>4. \A t \in Slots \ {s} : st'[t] = st[t] /\ url'[t] = url[t] /\ back'[t] = back[t]
    BY <1>8, <1>a, <2>1 DEF Defer
  <2> QED BY <1>7, <1>8, <2>3, <2>4 DEF Defer, redisVars
<1>9. ASSUME NEW s \in Slots,
             ReleaseGet(s) \/ ReleaseDel(s) \/ RequeueSAdd(s) \/ RequeueZAdd(s)
      PROVE  [WQ!Next]_Stat
  <2>1. PICK state \in {"free", "del", "push", "zadd"} :
          /\ MoveTo(s, state)
          /\ st[s] \in {"get", "del"} => state = "del" \/ state = AfterRelease(s)
          /\ st[s] \notin {"get", "del"} => state \in {"free", "zadd"}
    BY <1>9 DEF ReleaseGet, ReleaseDel, RequeueSAdd, RequeueZAdd, AfterRelease
  <2>2. st[s] \in {"get", "del", "sadd", "zadd"} /\ UNCHANGED <<bq, admitted, fate>>
    BY <1>9 DEF ReleaseGet, ReleaseDel, RequeueSAdd, RequeueZAdd, redisVars
  <2>3. \A t \in Slots \ {s} : st'[t] = st[t] /\ url'[t] = url[t] /\ back'[t] = back[t]
    BY <1>a, <2>1 DEF MoveTo, TypeOK
  <2>4. st'[s] = state /\ (state # "free" => url'[s] = url[s] /\ back'[s] = back[s])
    BY <1>a, <2>1 DEF MoveTo
  <2>5. \A u \in Urls : Holds(s, u)' <=> Holds(s, u)
    <3>1. CASE st[s] \in {"sadd", "zadd"}
      BY <2>1, <2>4, <3>1 DEF Holds, Holding, Leasing
    <3>2. CASE st[s] \in {"get", "del"} /\ back[s] = 0
      BY <2>1, <2>4, <3>2 DEF Holds, Over, Holding, Leasing, AfterRelease
    <3>3. CASE st[s] \in {"get", "del"} /\ back[s] # 0
      BY <2>1, <2>4, <3>3 DEF Holds, Over, Holding, Leasing, AfterRelease
    <3> QED BY <2>2, <3>1, <3>2, <3>3
  <2> QED BY <1>7, <2>2, <2>3, <2>5
<1>10. CASE \E s \in Slots : RequeuePush(s)
  BY <1>10, PushIsReturn
<1>11. CASE Tick
  <2>1. \A u \in Urls, s \in Slots : Holds(s, u)' <=> Holds(s, u)
    BY <1>11 DEF Tick, Holds, Over
  <2> QED BY <1>11, <1>a, <2>1, StatQuiet DEF Tick
<1>12. CASE UNCHANGED vars
  <2>1. \A u \in Urls, s \in Slots : Holds(s, u)' <=> Holds(s, u)
    BY <1>12 DEF vars, taskVars, Holds, Over
  <2> QED BY <1>12, <1>a, <2>1, StatQuiet DEF vars
<1> QED BY <1>1, <1>2, <1>3, <1>4, <1>5, <1>6, <1>8, <1>9, <1>10, <1>11, <1>12
        DEF Core, LeaseStep, TaskStep

\* The queues, sets, keys, due heap and interleaved Redis calls of the frontier,
\* run by any number of processes, amount to a queue that hands each URL to one
\* task at a time and lets it go only when it is finished or refused.
THEOREM FrontierIsWorkQueue ==
  ASSUME Admissions = 1
  PROVE  CoreSpec => IsWorkQueue
<1>1. Init => WQ!Init
  <2> SUFFICES ASSUME Init, NEW u \in Urls PROVE Status(u) = "unknown"
    BY DEF WQ!Init
  <2>1. ~InQueue(u)
    BY HostOfType DEF Init, InQueue
  <2>2. ~Held(u)
    BY DEF Init, Held, Holds, Holding, Leasing
  <2> QED BY <2>1, <2>2 DEF Init, Status
<1>2. Init => BackIdle
  BY DEF Init, BackIdle
<1>3. CoreSpec => [](TypeOK /\ Offered /\ OneHomeInv)
  BY CoreIsCrash, CrashIsSpec, TypeCorrect, OnlyOffered, OneHomeAlways, PTL
<1>4. CoreSpec => []BackIdle
  BY <1>2, <1>3, BackIdleStep, PTL DEF CoreSpec
<1>5. /\ TypeOK /\ Offered /\ OneHomeInv /\ OneHomeInv' /\ BackIdle /\ [Core]_vars
      => [WQ!Next]_[u \in Urls |-> Status(u)]
  BY WorkQueueStep DEF Stat
<1> QED BY <1>1, <1>3, <1>4, <1>5, PTL DEF CoreSpec, IsWorkQueue, WQ!Spec
=============================================================================
