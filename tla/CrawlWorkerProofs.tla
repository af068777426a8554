-------------------------- MODULE CrawlWorkerProofs --------------------------
(***************************************************************************)
(* Proofs about module CrawlWorker, for any set of URLs and coroutines,    *)
(* any page versions and any values of the bounds.                         *)
(***************************************************************************)
EXTENDS CrawlWorker, FiniteSetTheorems, TLAPS

-----------------------------------------------------------------------------
(* Type correctness.  The types are not inductive by themselves: that an   *)
(* event has a URL and an outcome of an event, and that an attempt stays   *)
(* within the limit, follow from where the coroutine is.                   *)

\* What a coroutine holds where it is.
Working ==
  \A s \in Slots :
    /\ pc[s] # "free" => task[s] \in Urls
    /\ pc[s] \in {"put", "store"} => says[s] = "fetched" /\ got[s] \in Versions
    /\ pc[s] = "emit" => says[s] \in {"fetched", "not_modified", "gone"}
    /\ pc[s] \in {"free", "leased", "fetch"} => attempt[s] = 0

TypeInv == TypeOK /\ Working

\* An idle process over empty stores is of the right type.
LEMMA TypeInit == Init => TypeInv
<1> SUFFICES ASSUME Init PROVE TypeInv
  OBVIOUS
<1>1. TypeOK
  <2>1. room \in 0 .. MaxConcurrent /\ attempt \in [Slots -> 0 .. MaxAttempts]
        /\ offers \in [Urls -> 0 .. Offers]
    BY BoundsType DEF Init
  <2>2. topic \in Seq(Events)
    BY DEF Init
  <2> QED BY <2>1, <2>2 DEF Init, TypeOK, Places
<1>2. Working
  BY DEF Init, Working
<1> QED BY <1>1, <1>2 DEF TypeInv

\* The capacity lease() is called with is within the concurrency limit.
LEMMA RoomType ==
  Cardinality(Inflight) < MaxConcurrent
    => MaxConcurrent - Cardinality(Inflight) \in 0 .. MaxConcurrent
<1>1. IsFiniteSet(Inflight)
  BY SlotsFinite, FS_Subset, Inflight \in SUBSET Slots DEF Inflight
<1> QED BY <1>1, FS_CardinalityType, BoundsType

\* Ending a coroutine forgets all it held.
LEMMA EndTaskType ==
  ASSUME TypeInv, NEW s \in Slots, EndTask(s)
  PROVE  /\ pc' \in [Slots -> Places] /\ task' \in [Slots -> Urls \cup {None}]
         /\ carried' \in [Slots -> Versions \cup {None}]
         /\ got' \in [Slots -> Versions \cup {None}]
         /\ says' \in [Slots -> Outcomes \cup {None}]
         /\ attempt' \in [Slots -> 0 .. MaxAttempts]
         /\ Working'
BY BoundsType DEF EndTask, GoTo, TypeInv, TypeOK, Working, Places

\* So does the end of the process.
LEMMA NoTasksType ==
  ASSUME NoTasks
  PROVE  /\ pc' \in [Slots -> Places] /\ task' \in [Slots -> Urls \cup {None}]
         /\ carried' \in [Slots -> Versions \cup {None}]
         /\ got' \in [Slots -> Versions \cup {None}]
         /\ says' \in [Slots -> Outcomes \cup {None}]
         /\ attempt' \in [Slots -> 0 .. MaxAttempts]
         /\ Working'
BY BoundsType DEF NoTasks, Working, Places

\* Every step of the site, the frontier, the loop and a coroutine keeps the types.
LEMMA TypeStep == TypeInv /\ [Next]_vars => TypeInv'
<1> SUFFICES ASSUME TypeInv, [Next]_vars PROVE TypeInv'
  OBVIOUS
<1> USE BoundsType DEF TypeInv, TypeOK, Working, Places
<1>1. ASSUME NEW u \in Urls, Offer(u) PROVE TypeInv'
  <2>1. due' \in [Urls -> Nat]
    <3>1. CASE Queue(u)
      BY <3>1 DEF Queue
    <3>2. CASE UNCHANGED due
      BY <3>2
    <3> QED BY <1>1, <3>1, <3>2 DEF Offer
  <2>2. offers' \in [Urls -> 0 .. Offers]
    BY <1>1 DEF Offer
  <2> QED BY <1>1, <2>1, <2>2 DEF Offer, loopVars, taskVars, outVars
<1>2. ASSUME NEW u \in Urls, SiteChanges(u) PROVE TypeInv'
  BY <1>2 DEF SiteChanges, loopVars, taskVars, outVars
<1>3. ASSUME Stop PROVE TypeInv'
  BY <1>3 DEF Stop, webVars, taskVars, outVars
<1>4. ASSUME Restart PROVE TypeInv'
  BY <1>4 DEF Restart, webVars, taskVars, outVars
<1>5. ASSUME Crash PROVE TypeInv'
  <2>1. blobs' \subseteq Urls \X Versions /\ cut' \subseteq blobs'
    <3>1. CASE UNCHANGED <<blobs, cut>>
      BY <3>1
    <3>2. CASE \E s \in Slots : TornBy(s)
      BY <3>2, NoneIsNothing DEF TornBy, Outcomes
    <3> QED BY <1>5, <3>1, <3>2 DEF Crash
  <2>2. NoTasks
    BY <1>5 DEF Crash
  <2>3. loop' = "running" /\ stopping' = FALSE /\ room' = 0
    BY <1>5 DEF Crash
  <2>4. UNCHANGED <<due, offers, page, validators, topic>>
    BY <1>5 DEF Crash, webVars
  <2>8. inPlace' \in BOOLEAN
    BY <1>5, Zenon DEF Crash
  <2>5. stopping' \in BOOLEAN
    BY <2>3, Zenon
  <2>6. room' \in 0 .. MaxConcurrent
    BY <2>3
  <2>7. TypeOK'
    BY <2>1, <2>2, <2>3, <2>4, <2>5, <2>6, <2>8, NoTasksType
  <2> QED BY <2>2, <2>7, NoTasksType
<1>6. ASSUME StartLease PROVE TypeInv'
  BY <1>6, RoomType DEF StartLease, webVars, taskVars, outVars
<1>7. ASSUME StartTasks PROVE TypeInv'
  BY <1>7 DEF StartTasks, webVars, outVars
<1>8. ASSUME StartDrain PROVE TypeInv'
  BY <1>8 DEF StartDrain, webVars, taskVars, outVars
<1>9. ASSUME Drain PROVE TypeInv'
  BY <1>9, NoTasksType DEF Drain, webVars, outVars
<1>10. ASSUME NEW s \in Slots, NEW u \in Urls, LeaseOne(s, u) PROVE TypeInv'
  <2>1. due' \in [Urls -> Nat]
    BY <1>10 DEF LeaseOne
  <2> QED BY <1>10, <2>1 DEF LeaseOne, outVars
<1>11. ASSUME NEW s \in Slots, Fetched(s) PROVE TypeInv'
  BY <1>11 DEF Fetched, Fetching, GoTo, Outcomes, webVars, loopVars, outVars
<1>12. ASSUME NEW s \in Slots, NotModified(s) PROVE TypeInv'
  BY <1>12 DEF NotModified, Fetching, GoTo, Outcomes, webVars, loopVars, outVars
<1>13. ASSUME NEW s \in Slots, Gone(s) PROVE TypeInv'
  BY <1>13 DEF Gone, Fetching, GoTo, Outcomes, webVars, loopVars, outVars
<1>14. ASSUME NEW s \in Slots, Failed(s) PROVE TypeInv'
  BY <1>14 DEF Failed, Fetching, GoTo, webVars, loopVars, outVars
<1>15. ASSUME NEW s \in Slots, Deferred(s) PROVE TypeInv'
  BY <1>15 DEF Deferred, Fetching, GoTo, webVars, loopVars, outVars
<1>16. ASSUME NEW s \in Slots, Dropped(s) PROVE TypeInv'
  BY <1>16 DEF Dropped, Fetching, GoTo, webVars, loopVars, outVars
<1>17. ASSUME NEW s \in Slots, Put(s) PROVE TypeInv'
  BY <1>17 DEF Put, GoTo, webVars, loopVars
<1>18. ASSUME NEW s \in Slots, StoreValidators(s) PROVE TypeInv'
  BY <1>18 DEF StoreValidators, GoTo, webVars, loopVars
<1>19. ASSUME NEW s \in Slots, Emit(s) PROVE TypeInv'
  <2>1. [url |-> task[s], outcome |-> says[s], version |-> got[s]] \in Events
    BY <1>19 DEF Emit, Events
  <2>2. topic' \in Seq(Events)
    BY <1>19, <2>1 DEF Emit, Send
  <2> QED BY <1>19, <2>2 DEF Emit, GoTo, webVars, loopVars
<1>20. ASSUME NEW s \in Slots, Raise(s) PROVE TypeInv'
  BY <1>20 DEF Raise, GoTo, webVars, loopVars, outVars
<1>21. ASSUME NEW s \in Slots, Release(s) PROVE TypeInv'
  BY <1>21, EndTaskType DEF Release, webVars, loopVars, outVars
<1>22. ASSUME NEW s \in Slots, Requeue(s) PROVE TypeInv'
  <2>1. due' \in [Urls -> Nat]
    BY <1>22 DEF Requeue, Queue
  <2> QED BY <1>22, <2>1 DEF Requeue, GoTo, loopVars, outVars
<1>23. ASSUME UNCHANGED vars PROVE TypeInv'
  BY <1>23 DEF vars, webVars, loopVars, taskVars, outVars
<1> QED
  BY <1>1, <1>2, <1>3, <1>4, <1>5, <1>6, <1>7, <1>8, <1>9, <1>10, <1>11, <1>12,
     <1>13, <1>14, <1>15, <1>16, <1>17, <1>18, <1>19, <1>20, <1>21, <1>22, <1>23
  DEF Next, RunLoop, TaskStep

\* What the loop, the coroutines and the stores hold keeps its type, and no
\* attempt number exceeds the retry limit.
THEOREM TypeCorrect == Spec => []TypeOK
<1>1. TypeInv => TypeOK
  BY DEF TypeInv
<1> QED BY <1>1, TypeInit, TypeStep, PTL DEF Spec

-----------------------------------------------------------------------------
(* ReferencesHaveBlob.  It is not inductive: what a coroutine is about to  *)
(* save or to report must be there as well.                                *)

\* Past put, a coroutine's body is stored.
PutIsStored ==
  \A s \in Slots :
    \/ pc[s] = "store"
    \/ pc[s] = "emit" /\ says[s] = "fetched"
    => Backed(task[s], got[s])

\* Only a directory has cut bodies.
CutInPlace == cut # {} => inPlace

BlobInv == ReferencesHaveBlob /\ PutIsStored /\ CutInPlace

\* A step that leaves the topic and the validators alone, drops no blob, cuts none
\* in a bucket and brings no coroutine past put.
BlobQuiet ==
  /\ UNCHANGED <<topic, validators, inPlace>>
  /\ blobs \subseteq blobs' /\ (cut' # cut => inPlace)
  /\ \A s \in Slots :
       \/ pc'[s] = "store"
       \/ pc'[s] = "emit" /\ says'[s] = "fetched"
       => \/ pc'[s] = pc[s] /\ task'[s] = task[s] /\ got'[s] = got[s] /\ says'[s] = says[s]
          \/ Backed(task[s], got[s])'

\* Such a step breaks no reference.
LEMMA BlobQuietStep == TypeOK /\ BlobInv /\ BlobQuiet => BlobInv'
<1> SUFFICES ASSUME TypeOK, BlobInv, BlobQuiet PROVE BlobInv'
  OBVIOUS
<1>1. CutInPlace'
  BY DEF BlobInv, BlobQuiet, CutInPlace
<1>2. ASSUME NEW u, NEW v, Backed(u, v) PROVE Backed(u, v)'
  BY <1>1, <1>2 DEF BlobQuiet, Backed, CutInPlace
<1>3. ReferencesHaveBlob'
  BY <1>2 DEF BlobInv, BlobQuiet, ReferencesHaveBlob
<1>4. PutIsStored'
  BY <1>2 DEF BlobInv, BlobQuiet, PutIsStored
<1> QED BY <1>1, <1>3, <1>4 DEF BlobInv

\* Every step leaves each event and each stored validator with its blob.
LEMMA BlobStep == TypeInv /\ BlobInv /\ [Next]_vars => BlobInv'
<1> SUFFICES ASSUME TypeInv, BlobInv, [Next]_vars PROVE BlobInv'
  OBVIOUS
<1>0. TypeOK /\ Working
  BY DEF TypeInv
<1> USE DEF TypeOK, Places
<1>1. ASSUME NEW u \in Urls, Offer(u) \/ SiteChanges(u) PROVE BlobQuiet
  BY <1>1 DEF Offer, SiteChanges, loopVars, taskVars, outVars, BlobQuiet
<1>2. ASSUME Stop \/ Restart \/ StartLease \/ StartDrain PROVE BlobQuiet
  BY <1>2 DEF Stop, Restart, StartLease, StartDrain, webVars, taskVars, outVars, BlobQuiet
<1>3. ASSUME Crash \/ Drain PROVE BlobQuiet
  <2>1. \A s \in Slots : pc'[s] = "free"
    BY <1>3 DEF Crash, Drain, NoTasks
  <2>2. blobs \subseteq blobs' /\ (cut' # cut => inPlace) /\ UNCHANGED <<topic, validators, inPlace>>
    BY <1>3 DEF Crash, Drain, TornBy, outVars
  <2> QED BY <2>1, <2>2 DEF BlobQuiet
<1>4. ASSUME StartTasks PROVE BlobQuiet
  BY <1>0, <1>4 DEF StartTasks, outVars, BlobQuiet
<1>5. ASSUME NEW s \in Slots, NEW u \in Urls, LeaseOne(s, u) PROVE BlobQuiet
  BY <1>0, <1>5 DEF LeaseOne, outVars, BlobQuiet
<1>6. ASSUME NEW s \in Slots, Fetched(s) \/ NotModified(s) \/ Gone(s) PROVE BlobQuiet
  BY <1>0, <1>6 DEF Fetched, NotModified, Gone, Fetching, GoTo, outVars, BlobQuiet
<1>7. ASSUME NEW s \in Slots, Failed(s) \/ Deferred(s) \/ Dropped(s) PROVE BlobQuiet
  BY <1>0, <1>7 DEF Failed, Deferred, Dropped, Fetching, GoTo, outVars, BlobQuiet
<1>8. ASSUME NEW s \in Slots, Put(s) PROVE BlobQuiet
  BY <1>0, <1>8 DEF Put, GoTo, BlobQuiet, Backed, BlobInv, CutInPlace
<1>9. ASSUME NEW s \in Slots, StoreValidators(s) PROVE BlobInv'
  <2>1. Backed(task[s], got[s]) /\ says[s] = "fetched"
    BY <1>0, <1>9 DEF StoreValidators, BlobInv, PutIsStored, Working
  <2>2. UNCHANGED <<inPlace, blobs, cut, topic, task, got, says>>
    BY <1>9 DEF StoreValidators, taskVars
  <2>5. \A u, v : Backed(u, v)' <=> Backed(u, v)
    BY <2>2 DEF Backed
  <2>3. \A t \in Slots : t # s => pc'[t] = pc[t]
    BY <1>0, <1>9 DEF StoreValidators, GoTo
  <2>4. \A u \in Urls : validators'[u] = validators[u] \/ (u = task[s] /\ validators'[u] = got[s])
    BY <1>0, <1>9 DEF StoreValidators
  <2>6. PutIsStored'
    BY <2>1, <2>2, <2>3, <2>5 DEF BlobInv, PutIsStored
  <2> QED BY <2>1, <2>2, <2>4, <2>5, <2>6 DEF BlobInv, ReferencesHaveBlob, CutInPlace
<1>10. ASSUME NEW s \in Slots, Emit(s) PROVE BlobInv'
  <2> DEFINE event == [url |-> task[s], outcome |-> says[s], version |-> got[s]]
  <2>1. topic' = Append(topic, event)
    BY <1>10 DEF Emit, Send
  <2>2. UNCHANGED <<inPlace, blobs, cut, validators, task, got, says>>
    BY <1>10 DEF Emit
  <2>6. \A u, v : Backed(u, v)' <=> Backed(u, v)
    BY <2>2 DEF Backed
  <2>3. \A t \in Slots : pc'[t] = pc[t] \/ pc'[t] = "release"
    BY <1>0, <1>10 DEF Emit, GoTo
  <2>4. says[s] = "fetched" => Backed(task[s], got[s])
    BY <1>10 DEF Emit, BlobInv, PutIsStored
  <2>5. \A i \in 1 .. Len(topic') :
          topic'[i].outcome = "fetched" => Backed(topic'[i].url, topic'[i].version)
    <3>1. Len(topic') = Len(topic) + 1
      BY <1>0, <2>1
    <3>2. \A i \in 1 .. Len(topic) : topic'[i] = topic[i]
      BY <1>0, <2>1
    <3>3. topic'[Len(topic) + 1] = event
      BY <1>0, <2>1
    <3>4. Len(topic) \in Nat
      BY <1>0
    <3> QED BY <2>4, <3>1, <3>2, <3>3, <3>4 DEF BlobInv, ReferencesHaveBlob
  <2>7. PutIsStored'
    BY <2>2, <2>3, <2>6 DEF BlobInv, PutIsStored
  <2> QED BY <2>2, <2>5, <2>6, <2>7 DEF BlobInv, ReferencesHaveBlob, CutInPlace
<1>11. ASSUME NEW s \in Slots, Raise(s) PROVE BlobQuiet
  BY <1>0, <1>11 DEF Raise, GoTo, outVars, BlobQuiet
<1>12. ASSUME NEW s \in Slots, Release(s) \/ Requeue(s) PROVE BlobQuiet
  BY <1>0, <1>12 DEF Release, Requeue, EndTask, GoTo, outVars, BlobQuiet
<1>13. ASSUME UNCHANGED vars PROVE BlobQuiet
  BY <1>13 DEF vars, taskVars, outVars, BlobQuiet
<1> QED
  BY <1>0, <1>1, <1>2, <1>3, <1>4, <1>5, <1>6, <1>7, <1>8, <1>9, <1>10, <1>11,
     <1>12, <1>13, BlobQuietStep
  DEF Next, RunLoop, TaskStep

\* An event and a stored validator point to a stored body, which in a bucket is
\* whole and in a directory may be cut by a kill in its first write: put comes before
\* save and emit on every path, whatever is raised, drained or killed between them.
THEOREM ReferencesBacked == Spec => []ReferencesHaveBlob
<1>1. Init => BlobInv
  BY DEF Init, BlobInv, ReferencesHaveBlob, PutIsStored, CutInPlace
<1>2. BlobInv => ReferencesHaveBlob
  BY DEF BlobInv
<1> QED BY <1>1, <1>2, BlobStep, TypeInit, TypeStep, PTL DEF Spec

-----------------------------------------------------------------------------
(* BodiesStayWhole.                                                        *)

\* A body that is stored whole is never cut: only a body that was not there yet
\* can be torn by a crash, and put adds without taking away.
THEOREM WholeBodiesStay == Spec => BodiesStayWhole
<1>1. ASSUME [Next]_vars PROVE blobs \ cut \subseteq blobs' \ cut'
  <2>1. CASE UNCHANGED <<blobs, cut>>
    BY <2>1
  <2>2. CASE Crash
    BY <2>2 DEF Crash, TornBy
  <2>3. ASSUME NEW s \in Slots, Put(s) PROVE blobs \ cut \subseteq blobs' \ cut'
    BY <2>3 DEF Put
  <2>4. UNCHANGED <<blobs, cut>> \/ Crash \/ \E s \in Slots : Put(s)
    BY <1>1 DEF Next, RunLoop, TaskStep, Offer, SiteChanges, Stop, Restart, StartLease,
       StartTasks, StartDrain, Drain, LeaseOne, Fetched, NotModified, Gone, Failed,
       Deferred, Dropped, Fetching, StoreValidators, Emit, Raise, Release, Requeue,
       vars, outVars
  <2> QED BY <2>1, <2>2, <2>3, <2>4
<1> QED BY <1>1, PTL DEF Spec, BodiesStayWhole

-----------------------------------------------------------------------------
(* TasksPerOffer: inductive given the types.                               *)

Load(u) == Cardinality(Tasks(u)) + due[u]

\* A URL has a number of tasks.
LEMMA TasksFinite ==
  ASSUME NEW u
  PROVE  IsFiniteSet(Tasks(u)) /\ Cardinality(Tasks(u)) \in Nat
<1>1. IsFiniteSet(Tasks(u))
  BY SlotsFinite, FS_Subset, Tasks(u) \in SUBSET Slots DEF Tasks
<1> QED BY <1>1, FS_CardinalityType

\* A step that gives a URL no task, queues it no further and withdraws no offer
\* keeps its load within its offers.
LEMMA LoadFalls ==
  ASSUME NEW u \in Urls, Load(u) <= offers[u], TypeOK, TypeOK',
         Tasks(u)' \subseteq Tasks(u), due'[u] <= due[u], offers[u] <= offers'[u]
  PROVE  Load(u)' <= offers'[u]
<1>1. Cardinality(Tasks(u)') <= Cardinality(Tasks(u)) /\ Cardinality(Tasks(u)') \in Nat
  BY TasksFinite, FS_Subset, FS_CardinalityType
<1>2. Cardinality(Tasks(u)) \in Nat /\ offers[u] \in Nat /\ offers'[u] \in Nat
  BY TasksFinite, BoundsType DEF TypeOK
<1>3. due[u] \in Nat /\ due'[u] \in Nat
  BY DEF TypeOK
<1> QED BY <1>1, <1>2, <1>3 DEF Load

\* No step multiplies the tasks of a URL.
LEMMA TasksStep == TypeInv /\ TypeInv' /\ TasksPerOffer /\ [Next]_vars => TasksPerOffer'
<1> SUFFICES ASSUME TypeInv, TypeInv', TasksPerOffer, [Next]_vars, NEW u \in Urls
             PROVE  Load(u)' <= offers'[u]
  BY DEF TasksPerOffer, Load
<1>0. TypeOK /\ TypeOK' /\ Load(u) <= offers[u]
  BY DEF TypeInv, TasksPerOffer, Load
<1>1. /\ Cardinality(Tasks(u)) \in Nat /\ offers[u] \in Nat /\ offers'[u] \in Nat
      /\ due[u] \in Nat /\ due'[u] \in Nat
  BY <1>0, TasksFinite, BoundsType DEF TypeOK
<1>2. ASSUME NEW v \in Urls, Offer(v) PROVE Load(u)' <= offers'[u]
  <2>1. Tasks(u)' = Tasks(u)
    BY <1>2 DEF Offer, taskVars, Tasks
  <2>2. CASE u = v
    <3>1. offers'[u] = offers[u] + 1
      BY <1>0, <1>2, <2>2 DEF Offer, TypeOK
    <3>2. due'[u] <= due[u] + 1
      BY <1>0, <1>1, <1>2, <2>2 DEF Offer, Queue, TypeOK
    <3> QED BY <1>0, <1>1, <2>1, <3>1, <3>2 DEF Load
  <2>3. CASE u # v
    <3>1. offers'[u] = offers[u]
      BY <1>0, <1>2, <2>3 DEF Offer, TypeOK
    <3>2. due'[u] = due[u]
      BY <1>0, <1>2, <2>3 DEF Offer, Queue, TypeOK
    <3> QED BY <1>0, <1>1, <2>1, <3>1, <3>2, LoadFalls
  <2> QED BY <2>2, <2>3
<1>3. ASSUME NEW s \in Slots, NEW v \in Urls, LeaseOne(s, v) PROVE Load(u)' <= offers'[u]
  <2>1. offers'[u] = offers[u]
    BY <1>3 DEF LeaseOne
  <2>2. CASE u = v
    <3>1. Tasks(u)' \subseteq Tasks(u) \cup {s}
      BY <1>0, <1>3 DEF LeaseOne, TypeOK, Tasks
    <3>2. /\ IsFiniteSet(Tasks(u) \cup {s})
          /\ Cardinality(Tasks(u) \cup {s}) <= Cardinality(Tasks(u)) + 1
      <4>1. IsFiniteSet(Tasks(u))
        BY TasksFinite
      <4>2. \/ Cardinality(Tasks(u) \cup {s}) = Cardinality(Tasks(u))
            \/ Cardinality(Tasks(u) \cup {s}) = Cardinality(Tasks(u)) + 1
        BY <4>1, FS_AddElement
      <4> QED BY <1>1, <4>1, <4>2, FS_AddElement
    <3>3. Cardinality(Tasks(u)') <= Cardinality(Tasks(u)) + 1 /\ Cardinality(Tasks(u)') \in Nat
      BY <1>1, <3>1, <3>2, FS_Subset, FS_CardinalityType
    <3>4. due'[u] = due[u] - 1
      BY <1>0, <1>3, <2>2 DEF LeaseOne, TypeOK
    <3> QED BY <1>0, <1>1, <2>1, <3>3, <3>4 DEF Load
  <2>3. CASE u # v
    <3>1. Tasks(u)' \subseteq Tasks(u)
      BY <1>0, <1>3, <2>3 DEF LeaseOne, TypeOK, Tasks
    <3>2. due'[u] = due[u]
      BY <1>0, <1>3, <2>3 DEF LeaseOne, TypeOK
    <3> QED BY <1>0, <1>1, <2>1, <3>1, <3>2, LoadFalls
  <2> QED BY <2>2, <2>3
<1>4. ASSUME NEW s \in Slots, Requeue(s) PROVE Load(u)' <= offers'[u]
  <2>1. offers'[u] = offers[u]
    BY <1>4 DEF Requeue
  <2>2. CASE u = task[s]
    <3>1. Tasks(u)' \subseteq Tasks(u) \ {s}
      BY <1>0, <1>4, <2>2 DEF Requeue, GoTo, TypeOK, Tasks
    <3>2. s \in Tasks(u)
      BY <1>4, <2>2 DEF Requeue, Tasks
    <3>5. due'[u] = due[u] + 1
      BY <1>0, <1>4, <2>2 DEF Requeue, Queue, TypeOK
    <3>3. /\ IsFiniteSet(Tasks(u) \ {s})
          /\ Cardinality(Tasks(u) \ {s}) = Cardinality(Tasks(u)) - 1
      BY <3>2, TasksFinite, FS_RemoveElement
    <3>4. Cardinality(Tasks(u)') <= Cardinality(Tasks(u)) - 1 /\ Cardinality(Tasks(u)') \in Nat
      BY <3>1, <3>3, FS_Subset, FS_CardinalityType
    <3> QED BY <1>0, <1>1, <2>1, <3>4, <3>5 DEF Load
  <2>3. CASE u # task[s]
    <3>1. Tasks(u)' \subseteq Tasks(u)
      BY <1>0, <1>4, <2>3 DEF Requeue, GoTo, TypeOK, Tasks
    <3>2. due'[u] = due[u]
      <4>1. task[s] \in Urls
        BY <1>4 DEF Requeue, TypeInv, Working
      <4> QED BY <1>0, <1>4, <2>3, <4>1 DEF Requeue, Queue, TypeOK
    <3> QED BY <1>0, <1>1, <2>1, <3>1, <3>2, LoadFalls
  <2> QED BY <2>2, <2>3
<1>6. CASE /\ \A s \in Slots : \/ task'[s] = None
                              \/ /\ task'[s] = task[s]
                                 /\ \/ pc'[s] \in {"register", "undo"}
                                    \/ pc[s] \notin {"register", "undo"}
           /\ UNCHANGED <<due, offers>>
  <2>1. Tasks(u)' \subseteq Tasks(u)
    BY <1>6, NoneIsNothing DEF Tasks
  <2> QED BY <1>0, <1>1, <1>6, <2>1, LoadFalls
<1>7. ASSUME Crash \/ Drain PROVE Load(u)' <= offers'[u]
  BY <1>6, <1>7 DEF Crash, Drain, NoTasks, webVars
<1>8. ASSUME NEW s \in Slots, Release(s) PROVE Load(u)' <= offers'[u]
  BY <1>0, <1>6, <1>8 DEF Release, EndTask, GoTo, webVars, TypeOK
<1>9. ASSUME NEW s \in Slots,
             \/ Fetched(s) \/ NotModified(s) \/ Gone(s) \/ Failed(s) \/ Deferred(s)
             \/ Dropped(s) \/ Put(s) \/ StoreValidators(s) \/ Emit(s) \/ Raise(s)
      PROVE  Load(u)' <= offers'[u]
  <2>1. /\ UNCHANGED <<task, due, offers>>
        /\ \A t \in Slots : \/ pc'[t] = pc[t]
                            \/ pc[t] \notin {"register", "undo"}
                            \/ pc'[t] \in {"register", "undo"}
    BY <1>0, <1>9 DEF Fetched, NotModified, Gone, Failed, Deferred, Dropped, Fetching,
       Put, StoreValidators, Emit, Raise, GoTo, webVars, TypeOK
  <2> QED BY <1>6, <2>1
<1>10. ASSUME NEW v \in Urls, SiteChanges(v) PROVE Load(u)' <= offers'[u]
  BY <1>6, <1>10 DEF SiteChanges, taskVars
<1>11. ASSUME Stop \/ Restart \/ StartLease \/ StartTasks \/ StartDrain \/ UNCHANGED vars
       PROVE  Load(u)' <= offers'[u]
  <2>1. CASE StartTasks
    BY <1>0, <1>6, <2>1 DEF StartTasks, webVars, TypeOK
  <2>2. CASE UNCHANGED <<webVars, taskVars>>
    BY <1>6, <2>2 DEF webVars, taskVars
  <2> QED BY <1>11, <2>1, <2>2 DEF Stop, Restart, StartLease, StartDrain, vars
<1> QED
  BY <1>2, <1>3, <1>4, <1>7, <1>8, <1>9, <1>10, <1>11 DEF Next, RunLoop, TaskStep

\* However often its tasks are requeued, raised, drained or killed, a URL is in
\* the queue and with tasks no more often than it was offered.
THEOREM NoTaskMultiplied == Spec => []TasksPerOffer
<1>1. Init => TasksPerOffer
  <2> SUFFICES ASSUME Init, NEW u \in Urls PROVE Load(u) <= offers[u]
    BY DEF TasksPerOffer, Load
  <2>1. Tasks(u) = {}
    BY NoneIsNothing DEF Init, Tasks
  <2>2. Load(u) = 0 /\ offers[u] = 0
    BY <2>1, FS_EmptySet DEF Init, Load
  <2> QED BY <2>2
<1> QED BY <1>1, TasksStep, TypeInit, TypeStep, PTL DEF Spec
=============================================================================
