------------------------------ MODULE Frontier ------------------------------
(***************************************************************************)
(* The Redis-backed URL frontier of the crawler and the worker loop that   *)
(* drains it.                                                              *)
(*                                                                         *)
(* A Lua script is one atomic action; every other Redis call is an await,  *)
(* so each one that another task can observe is an action of its own.      *)
(* Redis holds, per host, a back queue (`bq`), the set of URLs believed to *)
(* be in it (`inq`) and a due time on one heap; per URL a lease key with a *)
(* TTL.  A worker runs one lease() call at a time and one coroutine per    *)
(* leased task; a slot is such a coroutine.                                *)
(*                                                                         *)
(* Times are distances from now (a due time of 0 or less is due), so that  *)
(* the clock needs no bound and liveness can be checked.                   *)
(***************************************************************************)
EXTENDS Integers, Sequences, FiniteSets

CONSTANTS
  Hosts,        \* registrable domains
  Urls,         \* canonical URLs
  HostOf,       \* registrable_domain
  PriorityOf,   \* the priority a URL is offered with
  Workers,      \* crawler processes
  Slots,        \* task coroutines; a slot also stands for its lease token
  WorkerOf,     \* the process a slot runs in
  None,         \* no lease key
  QueueCap,     \* 10_000 in _enqueue_one
  LeaseDelay,   \* 1000 / initial_rate, in ticks
  LeaseTTL,     \* cfg.lease.ttl_seconds
  Delays,       \* the delays the response table requeues with
  Admissions,   \* how often the seen filter lets one URL through
  MaxLag,       \* bound: how far a host on the heap may fall overdue
  MaxAge        \* bound: how long a lease() call or a requeue may take

ASSUME HostOfType == HostOf \in [Urls -> Hosts]
ASSUME PriorityOfType == PriorityOf \in [Urls -> Int]
ASSUME WorkerOfType == WorkerOf \in [Slots -> Workers]
ASSUME SlotsFinite == IsFiniteSet(Slots)
ASSUME NoneIsNoSlot == None \notin Slots
\* A slot is never mistaken for a word of the work queue's status.
ASSUME SlotsAreNoWords ==
  Slots \cap {"unknown", "queued", "none", "finished", "refused", "lost"} = {}
ASSUME BoundsType ==
  /\ QueueCap \in Nat \ {0}
  /\ LeaseDelay \in Nat \ {0}
  /\ LeaseTTL \in Nat \ {0}
  /\ Delays \subseteq Nat \ {0}
  /\ Admissions \in Nat \ {0}
  /\ MaxLag \in Nat
  /\ MaxAge \in Nat

VARIABLES
  front,     \* fr:front:{band}, as pairs <<band, url>>
  bq,        \* fr:bq:{domain}
  inq,       \* fr:q:{domain}, over all hosts
  heap,      \* the members of fr:due
  due,       \* their scores, as a distance from now; 0 off the heap
  leaseOf,   \* lease:{hash}: the token, or None
  ttl,       \* what is left of the lease key's TTL
  admitted,  \* how often the seen filter passed a URL
  left,      \* iterations left in a worker's lease() call; 0: none running
  age,       \* how long ago that call read now_ms
  st,        \* where a slot's coroutine is
  url,       \* the URL of a slot's task
  back,      \* the delay its requeue() was called with; 0: plain release()
  rec,       \* the schedule_recrawl() call in progress
  fate,      \* history: how a URL last left the frontier
  cut,       \* history: hosts whose push a crash cut off before its ZADD
  keyFate    \* history: what became of the lease key last set for a URL

heapVars == <<heap, due, cut>>
keyVars == <<leaseOf, ttl, keyFate>>
callVars == <<left, age>>
taskVars == <<st, url, back>>
redisVars == <<front, bq, inq, heapVars, keyVars>>
vars == <<front, bq, inq, heapVars, keyVars, admitted, callVars, taskVars, rec,
          fate>>

-----------------------------------------------------------------------------
NBands == 8

\* Faulty variant: the upper clamp is missing.
BandForUnclamped(priority) ==
  LET band == (priority * NBands) \div 1000
  IN  IF band < 0 THEN 0 ELSE band

\* _band_for
BandFor(priority) ==
  LET band == (priority * NBands) \div 1000
  IN  IF band < 0 THEN 0 ELSE IF band > NBands - 1 THEN NBands - 1 ELSE band

SlotStates ==
  { "free",
    "popped", "tokened", "ready",             \* inside lease()
    "fetching",                               \* fetch() and _handle()
    "get", "del",                             \* inside release()
    "push", "sadd", "zadd" }                  \* inside requeue()

Leasing == {"popped", "tokened", "ready"}
Holding == Leasing \cup {"fetching", "get", "del", "push"}

\* From the SET of the lease key to the end of release().
Keyed == {"tokened", "ready", "fetching", "get", "del"}

\* A lease key is its task's or released; its task was killed; it ran out under
\* its task; it ran out after its task was killed.
KeyFates == {"current", "orphaned", "lapsed", "vanished"}

NoRecrawl == [at |-> "idle", url |-> None, due |-> 0]

SlotsOf(w) == {s \in Slots : WorkerOf[s] = w}
FreeSlots(w) == {s \in SlotsOf(w) : st[s] = "free"}
InQueue(u) ==
  \E i \in 1 .. Len(bq[HostOf[u]]) : bq[HostOf[u]][i] = u

\* The task is finished and only has its lease to release.
Over(s) == st[s] \in {"get", "del"} /\ back[s] = 0
Holds(s, u) == st[s] \in Holding /\ url[s] = u /\ ~Over(s)
Held(u) == \E s \in Slots : Holds(s, u)
Alive(u) == InQueue(u) \/ Held(u)

\* Every Redis value and every local of a coroutine has its type; a coroutine in
\* lease(), release() or requeue() has a URL (frontier.py).
TypeOK ==
  /\ front \subseteq (0 .. NBands - 1) \X Urls
  /\ bq \in [Hosts -> Seq(Urls)]
  /\ inq \subseteq Urls
  /\ heap \subseteq Hosts
  /\ due \in [Hosts -> Int]
  /\ leaseOf \in [Urls -> Slots \cup {None}]
  /\ ttl \in [Urls -> Nat]
  /\ admitted \in [Urls -> Nat]
  /\ left \in [Workers -> Nat]
  /\ age \in [Workers -> Nat]
  /\ st \in [Slots -> SlotStates]
  /\ url \in [Slots -> Urls \cup {None}]
  /\ back \in [Slots -> Int]
  /\ rec \in [at : {"idle", "sadd", "zadd"}, url : Urls \cup {None}, due : Int]
  /\ fate \in [Urls -> {"none", "finished", "refused", "lost"}]
  /\ cut \subseteq Hosts
  /\ keyFate \in [Urls -> KeyFates]
  /\ \A s \in Slots : st[s] # "free" => url[s] \in Urls
  /\ rec.at # "idle" => rec.url \in Urls

Init ==
  /\ front = {}
  /\ bq = [h \in Hosts |-> <<>>]
  /\ inq = {}
  /\ heap = {}
  /\ due = [h \in Hosts |-> 0]
  /\ leaseOf = [u \in Urls |-> None]
  /\ ttl = [u \in Urls |-> 0]
  /\ admitted = [u \in Urls |-> 0]
  /\ left = [w \in Workers |-> 0]
  /\ age = [w \in Workers |-> 0]
  /\ st = [s \in Slots |-> "free"]
  /\ url = [s \in Slots |-> None]
  /\ back = [s \in Slots |-> 0]
  /\ rec = NoRecrawl
  /\ fate = [u \in Urls |-> "none"]
  /\ cut = {}
  /\ keyFate = [u \in Urls |-> "current"]

-----------------------------------------------------------------------------
(* Redis commands.                                                         *)

ZAdd(h, d) ==
  /\ heap' = heap \cup {h}
  /\ due' = [due EXCEPT ![h] = d]
  /\ cut' = cut \ {h}

ZRem(h) ==
  /\ heap' = heap \ {h}
  /\ due' = [due EXCEPT ![h] = 0]
  /\ UNCHANGED cut

RPush(u) == bq' = [bq EXCEPT ![HostOf[u]] = Append(@, u)]
ZAddFront(u) == front' = front \cup {<<BandFor(PriorityOf[u]), u>>}

\* A URL's way out of the frontier, remembered.
Leaves(u, how) == fate' = [fate EXCEPT ![u] = how]

-----------------------------------------------------------------------------
(* _enqueue_one, for a URL that add_many's seen filter let through.  The   *)
(* front band is written and never read, so its ZADD is part of the step.  *)

Enqueue(u) ==
  /\ admitted[u] < Admissions
  /\ admitted' = [admitted EXCEPT ![u] = @ + 1]
  /\ ZAddFront(u)
  /\ \/ /\ u \in inq
        /\ UNCHANGED <<bq, inq, heapVars, fate>>
     \/ /\ u \notin inq
        /\ Len(bq[HostOf[u]]) >= QueueCap
        /\ IF Alive(u) THEN UNCHANGED fate ELSE Leaves(u, "refused")
        /\ UNCHANGED <<bq, inq, heapVars>>
     \/ /\ u \notin inq
        /\ Len(bq[HostOf[u]]) < QueueCap
        /\ inq' = inq \cup {u}
        /\ RPush(u)
        /\ IF HostOf[u] \in heap THEN UNCHANGED heapVars ELSE ZAdd(HostOf[u], 0)
        /\ Leaves(u, "none")
  /\ UNCHANGED <<keyVars, callVars, taskVars, rec>>

-----------------------------------------------------------------------------
(* lease(count): the run loop calls it with its free capacity.             *)

\* now_ms is read here, once for the whole call.
StartLease(w) ==
  /\ left[w] = 0
  /\ FreeSlots(w) # {}
  /\ left' = [left EXCEPT ![w] = Cardinality(FreeSlots(w))]
  /\ age' = [age EXCEPT ![w] = 0]
  /\ UNCHANGED <<redisVars, admitted, taskVars, rec, fate>>

\* The call is about to run the lease script: no popped URL awaits its key.
Scanning(w) ==
  /\ left[w] > 0
  /\ \A s \in SlotsOf(w) : st[s] \notin {"popped", "tokened"}

DueHosts(w) == {h \in heap : due[h] <= -age[w]}
Ripest(w) == {h \in DueHosts(w) : \A g \in DueHosts(w) : due[h] <= due[g]}

\* lease() returns and the run loop starts one coroutine per task.
EndCall(w, states) ==
  /\ left' = [left EXCEPT ![w] = 0]
  /\ age' = [age EXCEPT ![w] = 0]
  /\ st' = [s \in Slots |-> IF WorkerOf[s] = w /\ states[s] = "ready"
                            THEN "fetching" ELSE states[s]]

LeaseNone(w) ==
  /\ Scanning(w)
  /\ DueHosts(w) = {}
  /\ EndCall(w, st)
  /\ UNCHANGED <<redisVars, admitted, url, back, rec, fate>>

\* Faulty variant: the empty host stays on the heap.
LeaseStaleKeepsHost(w) ==
  /\ Scanning(w)
  /\ \E h \in Ripest(w) : bq[h] = <<>>
  /\ EndCall(w, st)
  /\ UNCHANGED <<redisVars, admitted, url, back, rec, fate>>

\* The script finds the ripest host's queue empty, drops the host and
\* returns nil, which ends the call whatever the other hosts hold.
LeaseStale(w) ==
  /\ Scanning(w)
  /\ \E h \in Ripest(w) : bq[h] = <<>> /\ ZRem(h)
  /\ EndCall(w, st)
  /\ UNCHANGED <<front, bq, inq, keyVars, admitted, url, back, rec, fate>>

\* Faulty variant: the length is compared as if the URL were still queued.
RescheduleEarlyDrop(w, h) ==
  IF Len(bq[h]) <= 2 THEN ZRem(h) ELSE ZAdd(h, LeaseDelay - age[w])

\* A drained host leaves the heap; another is due again after the delay,
\* counted from the call's now.
Reschedule(w, h) ==
  IF Len(bq[h]) = 1 THEN ZRem(h) ELSE ZAdd(h, LeaseDelay - age[w])

LeaseTake(w) ==
  /\ Scanning(w)
  /\ \E h \in Ripest(w), s \in FreeSlots(w) :
       /\ bq[h] # <<>>
       /\ bq' = [bq EXCEPT ![h] = Tail(@)]
       /\ Reschedule(w, h)
       /\ st' = [st EXCEPT ![s] = "popped"]
       /\ url' = [url EXCEPT ![s] = Head(bq[h])]
  /\ UNCHANGED <<front, inq, keyVars, admitted, callVars, back, rec, fate>>

\* SET writes over a key that is there.
SetToken(s) ==
  /\ st[s] = "popped"
  /\ leaseOf' = [leaseOf EXCEPT ![url[s]] = s]
  /\ ttl' = [ttl EXCEPT ![url[s]] = LeaseTTL]
  /\ keyFate' = [keyFate EXCEPT ![url[s]] = "current"]
  /\ st' = [st EXCEPT ![s] = "tokened"]
  /\ UNCHANGED <<front, bq, inq, heapVars, admitted, callVars, url, back, rec,
                 fate>>

\* SREM, then the rest of the iteration: the metadata reads change nothing.
SRemTask(s) ==
  LET w == WorkerOf[s]
      states == [st EXCEPT ![s] = "ready"]
  IN  /\ st[s] = "tokened"
      /\ inq' = inq \ {url[s]}
      /\ \/ /\ left[w] > 1
            /\ left' = [left EXCEPT ![w] = @ - 1]
            /\ st' = states
            /\ UNCHANGED age
         \/ left[w] <= 1 /\ EndCall(w, states)
      /\ UNCHANGED <<front, bq, heapVars, keyVars, admitted, url, back, rec,
                     fate>>

-----------------------------------------------------------------------------
(* The end of a task: release(task), or requeue(task, delay).              *)

\* Where a coroutine goes next; one that ends gives its slot back.
MoveTo(s, state) ==
  /\ st' = [st EXCEPT ![s] = state]
  /\ url' = IF state = "free" THEN [url EXCEPT ![s] = None] ELSE url
  /\ back' = IF state = "free" THEN [back EXCEPT ![s] = 0] ELSE back

\* A terminal outcome, or an exception in _handle: plain release().
Finish(s) ==
  /\ st[s] = "fetching"
  /\ st' = [st EXCEPT ![s] = "get"]
  /\ Leaves(url[s], "finished")
  /\ UNCHANGED <<redisVars, admitted, callVars, url, back, rec>>

Defer(s) ==
  /\ st[s] = "fetching"
  /\ st' = [st EXCEPT ![s] = "get"]
  /\ \E d \in Delays : back' = [back EXCEPT ![s] = d]
  /\ UNCHANGED <<redisVars, admitted, callVars, url, rec, fate>>

AfterRelease(s) == IF back[s] = 0 THEN "free" ELSE "push"

\* Faulty variant: a task whose lease is not its own any more just ends.
ReleaseGetGivesUp(s) ==
  /\ st[s] = "get"
  /\ MoveTo(s, IF leaseOf[url[s]] = s THEN "del" ELSE "free")
  /\ UNCHANGED <<redisVars, admitted, callVars, rec, fate>>

\* Faulty variant: a task that is done does not release its lease.
ReleaseGetKeepsKey(s) ==
  /\ st[s] = "get"
  /\ MoveTo(s, IF leaseOf[url[s]] = s /\ back[s] # 0 THEN "del"
               ELSE AfterRelease(s))
  /\ UNCHANGED <<redisVars, admitted, callVars, rec, fate>>

\* The key is read; an own one is deleted in a later step.
ReleaseGet(s) ==
  /\ st[s] = "get"
  /\ MoveTo(s, IF leaseOf[url[s]] = s THEN "del" ELSE AfterRelease(s))
  /\ UNCHANGED <<redisVars, admitted, callVars, rec, fate>>

\* DEL takes whatever key is there by now, another task's too.
ReleaseDel(s) ==
  /\ st[s] = "del"
  /\ leaseOf' = [leaseOf EXCEPT ![url[s]] = None]
  /\ ttl' = [ttl EXCEPT ![url[s]] = 0]
  /\ keyFate' = [keyFate EXCEPT ![url[s]] = "current"]
  /\ MoveTo(s, AfterRelease(s))
  /\ UNCHANGED <<front, bq, inq, heapVars, admitted, callVars, rec, fate>>

\* Faulty variant: an RPUSH whose reply is lost is tried again.
RequeuePushRetried(s) ==
  /\ st[s] = "push"
  /\ RPush(url[s])
  /\ \E state \in {"push", "sadd"} : MoveTo(s, state)
  /\ Leaves(url[s], "none")
  /\ UNCHANGED <<front, inq, heapVars, keyVars, admitted, callVars, rec>>

RequeuePush(s) ==
  /\ st[s] = "push"
  /\ RPush(url[s])
  /\ MoveTo(s, "sadd")
  /\ Leaves(url[s], "none")
  /\ UNCHANGED <<front, inq, heapVars, keyVars, admitted, callVars, rec>>

\* Faulty variant: the in-queue set is not told of a requeue.
RequeueSAddSkipped(s) ==
  /\ st[s] = "sadd"
  /\ MoveTo(s, "zadd")
  /\ UNCHANGED <<front, bq, inq, heapVars, keyVars, admitted, callVars, rec,
                 fate>>

RequeueSAdd(s) ==
  /\ st[s] = "sadd"
  /\ inq' = inq \cup {url[s]}
  /\ MoveTo(s, "zadd")
  /\ UNCHANGED <<front, bq, heapVars, keyVars, admitted, callVars, rec, fate>>

\* Faulty variant: the lease key goes once the URL is back, whoever set it.
RequeueZAddReleases(s) ==
  /\ st[s] = "zadd"
  /\ ZAdd(HostOf[url[s]], back[s])
  /\ leaseOf' = [leaseOf EXCEPT ![url[s]] = None]
  /\ ttl' = [ttl EXCEPT ![url[s]] = 0]
  /\ keyFate' = [keyFate EXCEPT ![url[s]] = "current"]
  /\ MoveTo(s, "free")
  /\ UNCHANGED <<front, bq, inq, admitted, callVars, rec, fate>>

\* The score is written over whatever due time the host had.
RequeueZAdd(s) ==
  /\ st[s] = "zadd"
  /\ ZAdd(HostOf[url[s]], back[s])
  /\ MoveTo(s, "free")
  /\ UNCHANGED <<front, bq, inq, keyVars, admitted, callVars, rec, fate>>

-----------------------------------------------------------------------------
(* schedule_recrawl, one call at a time, for a URL offered before.  The    *)
(* code does not cap the queue here: QueueCap bounds the model.            *)

RecrawlPush(u, d) ==
  /\ rec.at = "idle"
  /\ admitted[u] > 0
  /\ Len(bq[HostOf[u]]) < QueueCap
  /\ ZAddFront(u)
  /\ RPush(u)
  /\ rec' = [at |-> "sadd", url |-> u, due |-> d]
  /\ Leaves(u, "none")
  /\ UNCHANGED <<inq, heapVars, keyVars, admitted, callVars, taskVars>>

RecrawlSAdd ==
  /\ rec.at = "sadd"
  /\ inq' = inq \cup {rec.url}
  /\ rec' = [rec EXCEPT !.at = "zadd"]
  /\ UNCHANGED <<front, bq, heapVars, keyVars, admitted, callVars, taskVars,
                 fate>>

RecrawlZAdd ==
  /\ rec.at = "zadd"
  /\ ZAdd(HostOf[rec.url], rec.due)
  /\ rec' = NoRecrawl
  /\ UNCHANGED <<front, bq, inq, keyVars, admitted, callVars, taskVars, fate>>

-----------------------------------------------------------------------------
(* One unit of time: due times come nearer, TTLs run down and the values   *)
(* computed from an earlier now fall behind.                               *)

RunOut(key) == IF key = "orphaned" THEN "vanished" ELSE "lapsed"

Tick ==
  /\ \A h \in heap : due[h] > -MaxLag
  /\ \A w \in Workers : left[w] > 0 => age[w] < MaxAge
  /\ \A s \in Slots : st[s] \in {"sadd", "zadd"} => back[s] > -MaxAge
  /\ rec.at # "idle" => rec.due > -MaxAge
  /\ due' = [h \in Hosts |-> IF h \in heap THEN due[h] - 1 ELSE 0]
  /\ ttl' = [u \in Urls |-> IF ttl[u] > 0 THEN ttl[u] - 1 ELSE 0]
  /\ leaseOf' = [u \in Urls |-> IF ttl[u] > 1 THEN leaseOf[u] ELSE None]
  /\ keyFate' = [u \in Urls |-> IF ttl[u] = 1 THEN RunOut(keyFate[u])
                                ELSE keyFate[u]]
  /\ age' = [w \in Workers |-> IF left[w] > 0 THEN age[w] + 1 ELSE 0]
  /\ back' = [s \in Slots |-> IF st[s] \in {"sadd", "zadd"}
                              THEN back[s] - 1 ELSE back[s]]
  /\ rec' = IF rec.at = "idle" THEN rec
            ELSE [at |-> rec.at, url |-> rec.url, due |-> rec.due - 1]
  /\ UNCHANGED <<front, bq, inq, heap, cut, admitted, left, st, url, fate>>

\* The URLs that nobody has once the tasks of w are gone, and the hosts whose
\* only registration was still to come.
LostWith(w) ==
  {u \in Urls : /\ fate[u] = "none"
                /\ \E s \in SlotsOf(w) : Holds(s, u)
                /\ ~InQueue(u)
                /\ \A s \in Slots : Holds(s, u) => WorkerOf[s] = w}
CutWith(w) ==
  {h \in Hosts \ heap :
     \E s \in SlotsOf(w) : st[s] \in {"sadd", "zadd"} /\ HostOf[url[s]] = h}

\* A process is killed, or drain() cancels the tasks that outlive its grace
\* period: nothing in Redis changes, and the process starts again empty.
Crash(w) ==
  /\ \E s \in SlotsOf(w) : st[s] # "free"
  /\ left' = [left EXCEPT ![w] = 0]
  /\ age' = [age EXCEPT ![w] = 0]
  /\ st' = [s \in Slots |-> IF WorkerOf[s] = w THEN "free" ELSE st[s]]
  /\ url' = [s \in Slots |-> IF WorkerOf[s] = w THEN None ELSE url[s]]
  /\ back' = [s \in Slots |-> IF WorkerOf[s] = w THEN 0 ELSE back[s]]
  /\ fate' = [u \in Urls |-> IF u \in LostWith(w) THEN "lost" ELSE fate[u]]
  /\ cut' = cut \cup CutWith(w)
  /\ keyFate' = [u \in Urls |-> IF leaseOf[u] \in SlotsOf(w) THEN "orphaned"
                                ELSE keyFate[u]]
  /\ UNCHANGED <<front, bq, inq, heap, due, leaseOf, ttl, admitted, rec>>

-----------------------------------------------------------------------------
LeaseStep(w) == StartLease(w) \/ LeaseNone(w) \/ LeaseStale(w) \/ LeaseTake(w)

TaskStep(s) ==
  \/ SetToken(s) \/ SRemTask(s)
  \/ Finish(s) \/ Defer(s)
  \/ ReleaseGet(s) \/ ReleaseDel(s)
  \/ RequeuePush(s) \/ RequeueSAdd(s) \/ RequeueZAdd(s)

Core ==
  \/ \E u \in Urls : Enqueue(u)
  \/ \E w \in Workers : LeaseStep(w)
  \/ \E s \in Slots : TaskStep(s)
  \/ Tick

Recrawl ==
  \/ \E u \in Urls, d \in Delays \cup {0} : RecrawlPush(u, d)
  \/ RecrawlSAdd
  \/ RecrawlZAdd

Crashing == \E w \in Workers : Crash(w)

Next == Core \/ Recrawl \/ Crashing

\* Discovery and crawling, and with crashes, and with refresh as well.
CoreSpec == Init /\ [][Core]_vars
CrashSpec == Init /\ [][Core \/ Crashing]_vars
Spec == Init /\ [][Next]_vars

\* The run loop keeps calling lease(), a coroutine that can take a step takes
\* it (fetch() runs under a timeout), and time passes.
Fairness ==
  /\ \A w \in Workers : WF_vars(LeaseStep(w))
  /\ \A s \in Slots : WF_vars(TaskStep(s))
  /\ WF_vars(Tick)

FairSpec == CoreSpec /\ Fairness

-----------------------------------------------------------------------------
(* What a host's queue and its heap entry owe each other.                  *)

\* A push to a host's queue whose ZADD is still to come.
Pending(h) ==
  \/ \E s \in Slots : st[s] \in {"sadd", "zadd"} /\ HostOf[url[s]] = h
  \/ rec.at # "idle" /\ HostOf[rec.url] = h

\* A host with queued URLs is on the due heap, or the requeue() or
\* schedule_recrawl() that pushed to it has yet to register it: only a crash
\* between those two steps leaves a back queue where no lease can find it.
Scheduled ==
  \A h \in Hosts : bq[h] # <<>> => h \in heap \/ Pending(h) \/ h \in cut

\* An offered URL is queued, or with a task, until a task finishes it, the
\* queue's cap turns it away or a crash takes its task: no overlap of lease(),
\* release(), requeue(), schedule_recrawl() and _enqueue_one drops one.
NothingLost ==
  \A u \in Urls : admitted[u] > 0 /\ fate[u] = "none" => Alive(u)

\* A lease key names a task that still has its URL and has not been through
\* release(), or one that a crash took: a task that ends, or that puts its URL
\* back, leaves no key, whatever other tasks of the URL did between its GET and
\* its DEL.  (That the DEL may take another task's key leaves no key behind and
\* is not excluded here: see LeaseHeld.)
NoLeaseLeak ==
  \A u \in Urls : leaseOf[u] # None =>
    \/ keyFate[u] = "orphaned"
    \/ st[leaseOf[u]] \in Keyed /\ url[leaseOf[u]] = u

\* While the seen filter admits a URL once and nothing is refreshed, a task has
\* its lease key until it deletes it or the TTL has run out: nobody else's SET
\* or DEL takes it, though release() does not delete in the step in which it
\* compares, and whatever keys a crash has left.
LeaseHeld ==
  \A s \in Slots : st[s] \in Keyed =>
    leaseOf[url[s]] = s \/ keyFate[url[s]] = "lapsed"

\* While the seen filter admits a URL once and nothing is refreshed, a URL is
\* in one place: in one back queue once, or with one task, crash or not.
OneHome ==
  /\ \A h \in Hosts : \A i, j \in 1 .. Len(bq[h]) :
       bq[h][i] = bq[h][j] => i = j
  /\ \A s, t \in Slots :
       st[s] \in Holding /\ st[t] \in Holding /\ url[s] = url[t] => s = t
  /\ \A s \in Slots : st[s] \in Holding => ~InQueue(url[s])

\* The in-queue set covers the back queues but for a push whose SADD is still
\* to come, so _enqueue_one cannot queue a URL twice.
QueuedIsMember ==
  \A u \in Urls :
    InQueue(u) => u \in inq \/ \E s \in Slots : st[s] = "sadd" /\ url[s] = u

\* A queued URL is leased in the end: no due time is put off for ever and no
\* host is left out of the scan.
EventuallyLeased == \A u \in Urls : InQueue(u) ~> Held(u)

\* The frontier seen from outside: a URL in a back queue is queued, one with a
\* task is held by its slot until the task is over or has put it back.
Status(u) ==
  IF InQueue(u) THEN "queued"
  ELSE IF Held(u) THEN CHOOSE s \in Slots : Holds(s, u)
  ELSE IF admitted[u] = 0 THEN "unknown"
  ELSE fate[u]

WQ == INSTANCE WorkQueue WITH status <- [u \in Urls |-> Status(u)]

\* The queues, sets, keys and interleaved Redis calls of the frontier amount to
\* a queue that hands each URL to one task at a time and loses none.
IsWorkQueue == WQ!Spec

-----------------------------------------------------------------------------
(* What the documents say, and the code does not do.                       *)

\* "crash -> lease expires -> URL returns to the frontier" (config.py, and
\* features/DISTRIBUTED-CRAWLER.md): a URL whose task a crash took is back in
\* the frontier once the lease key of that task has expired.
ExpiryReturnsUrl ==
  \A u \in Urls : fate[u] = "lost" /\ keyFate[u] = "vanished" => Alive(u)
=============================================================================
