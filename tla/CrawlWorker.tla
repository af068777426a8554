----------------------------- MODULE CrawlWorker ------------------------------
(***************************************************************************)
(* One crawler process: the run loop, the coroutine of each leased task    *)
(* and the table by which it handles a fetch result, with the blob store,  *)
(* the stored validators and the topic it writes.                          *)
(*                                                                         *)
(* The frontier is seen as the URLs that are due, each as often as its     *)
(* back queue has it (module Frontier has the rest); fetching a URL is one *)
(* step with the outcome the web gives it.  A page is its version: a 304   *)
(* needs the validators of the version the site serves.                    *)
(***************************************************************************)
EXTENDS Integers, Sequences, FiniteSets

CONSTANTS
  Urls,
  Slots,          \* identities of coroutines
  MaxConcurrent,  \* cfg.fetch.max_concurrent
  MaxAttempts,    \* cfg.fetch.max_server_error_retries
  Versions,       \* what a URL's page may hold
  NoIndex,        \* the versions served with X-Robots-Tag: noindex
  None,           \* no URL, no validators
  Offers          \* bound: how often a URL is offered or refreshed

ASSUME SlotsFinite == IsFiniteSet(Slots)
ASSUME BoundsType ==
  /\ MaxConcurrent \in Nat \ {0}
  /\ MaxAttempts \in Nat \ {0}
  /\ Offers \in Nat \ {0}
ASSUME NoIndexType == NoIndex \subseteq Versions
ASSUME NoneIsNothing == None \notin Urls /\ None \notin Versions

VARIABLES
  due,         \* how often the back queue has a URL
  offers,      \* how often a URL was put there from outside
  page,        \* the version the site serves
  loop,        \* where run() is
  stopping,    \* _stopping
  room,        \* the tasks the running lease() call may still take
  pc,          \* where a coroutine is
  task,        \* its URL
  carried,     \* the validators its task was leased with, as a version
  got,         \* the version it fetched
  says,        \* the outcome its event reports
  attempt,     \* task.attempt
  validators,  \* val:{hash}
  inPlace,     \* the blob store is a directory: a body is written where it stays
  blobs,       \* the keys the blob store has, within a day
  cut,         \* those whose body is not all there
  topic        \* pages.fetched

webVars == <<due, offers, page>>
loopVars == <<loop, stopping, room>>
taskVars == <<pc, task, carried, got, says, attempt>>
outVars == <<validators, inPlace, blobs, cut, topic>>
vars == <<webVars, loopVars, taskVars, outVars>>

-----------------------------------------------------------------------------
Places ==
  {"free", "leased", "fetch", "put", "store", "emit", "release",
   "requeue",             \* in requeue(), up to its RPUSH
   "register", "undo"}    \* behind it, in SADD and ZADD; in release() after one raised

\* The outcomes _handle tells from one another.  "failed" is SERVER_ERROR,
\* TIMEOUT, NETWORK_ERROR or DNS_FAILED; "deferred" is THROTTLED, RATE_LIMITED
\* or ROBOTS_UNREACHABLE; "dropped" is all that is final without an event.
Outcomes == {"fetched", "not_modified", "gone", "failed", "deferred", "dropped"}

Events ==
  [url : Urls, outcome : {"fetched", "not_modified", "gone"},
   version : Versions \cup {None}]

\* The coroutines that run: _inflight.
Inflight == {s \in Slots : pc[s] \notin {"free", "leased"}}

\* What the loop, the coroutines and the stores hold; an attempt number never
\* exceeds the retry limit (main.py).
TypeOK ==
  /\ due \in [Urls -> Nat]
  /\ offers \in [Urls -> 0 .. Offers]
  /\ page \in [Urls -> Versions]
  /\ loop \in {"running", "leasing", "draining", "stopped"}
  /\ stopping \in BOOLEAN
  /\ room \in 0 .. MaxConcurrent
  /\ pc \in [Slots -> Places]
  /\ task \in [Slots -> Urls \cup {None}]
  /\ carried \in [Slots -> Versions \cup {None}]
  /\ got \in [Slots -> Versions \cup {None}]
  /\ says \in [Slots -> Outcomes \cup {None}]
  /\ attempt \in [Slots -> 0 .. MaxAttempts]
  /\ validators \in [Urls -> Versions \cup {None}]
  /\ inPlace \in BOOLEAN
  /\ blobs \subseteq Urls \X Versions /\ cut \subseteq blobs
  /\ topic \in Seq(Events)

Init ==
  /\ due = [u \in Urls |-> 0]
  /\ offers = [u \in Urls |-> 0]
  /\ page \in [Urls -> Versions]
  /\ loop = "running"
  /\ stopping = FALSE
  /\ room = 0
  /\ pc = [s \in Slots |-> "free"]
  /\ task = [s \in Slots |-> None]
  /\ carried = [s \in Slots |-> None]
  /\ got = [s \in Slots |-> None]
  /\ says = [s \in Slots |-> None]
  /\ attempt = [s \in Slots |-> 0]
  /\ validators = [u \in Urls |-> None]
  /\ inPlace \in BOOLEAN
  /\ blobs = {}
  /\ cut = {}
  /\ topic = <<>>

-----------------------------------------------------------------------------
(* Around the worker.                                                      *)

Queue(u) == due' = [due EXCEPT ![u] = @ + 1]

\* schedule_recrawl(), which pushes whatever is queued, or add(), which does not
\* queue a URL twice.
Offer(u) ==
  /\ offers[u] < Offers
  /\ offers' = [offers EXCEPT ![u] = @ + 1]
  /\ Queue(u) \/ (due[u] > 0 /\ UNCHANGED due)
  /\ UNCHANGED <<page, loopVars, taskVars, outVars>>

SiteChanges(u) ==
  /\ \E v \in Versions \ {page[u]} : page' = [page EXCEPT ![u] = v]
  /\ UNCHANGED <<due, offers, loopVars, taskVars, outVars>>

\* stop(), on SIGINT or SIGTERM.
Stop ==
  /\ ~stopping
  /\ loop \in {"running", "leasing"}
  /\ stopping' = TRUE
  /\ UNCHANGED <<webVars, loop, room, taskVars, outVars>>

-----------------------------------------------------------------------------
(* run().                                                                  *)

\* The capacity is computed before the await on lease().
StartLease ==
  /\ loop = "running"
  /\ ~stopping
  /\ Cardinality(Inflight) < MaxConcurrent
  /\ room' = MaxConcurrent - Cardinality(Inflight)
  /\ loop' = "leasing"
  /\ UNCHANGED <<webVars, stopping, taskVars, outVars>>

\* Inside lease(): a new CrawlTask, its attempt at 0, with the validators.
LeaseOne(s, u) ==
  /\ loop = "leasing"
  /\ room > 0
  /\ pc[s] = "free"
  /\ due[u] > 0
  /\ due' = [due EXCEPT ![u] = @ - 1]
  /\ room' = room - 1
  /\ pc' = [pc EXCEPT ![s] = "leased"]
  /\ task' = [task EXCEPT ![s] = u]
  /\ carried' = [carried EXCEPT ![s] = validators[u]]
  /\ UNCHANGED <<offers, page, loop, stopping, got, says, attempt, outVars>>

\* lease() returns, and each task gets its coroutine, stopping or not.
StartTasks ==
  /\ loop = "leasing"
  /\ loop' = "running"
  /\ room' = 0
  /\ pc' = [s \in Slots |-> IF pc[s] = "leased" THEN "fetch" ELSE pc[s]]
  /\ UNCHANGED <<webVars, stopping, task, carried, got, says, attempt, outVars>>

StartDrain ==
  /\ loop = "running"
  /\ stopping
  /\ loop' = "draining"
  /\ UNCHANGED <<webVars, stopping, room, taskVars, outVars>>

\* Every coroutine is gone and nothing remembers what it held.
NoTasks ==
  /\ pc' = [s \in Slots |-> "free"]
  /\ task' = [s \in Slots |-> None]
  /\ carried' = [s \in Slots |-> None]
  /\ got' = [s \in Slots |-> None]
  /\ says' = [s \in Slots |-> None]
  /\ attempt' = [s \in Slots |-> 0]

\* Faulty variant: drain() waits for the tasks, however long they take.
DrainWithoutGrace ==
  /\ loop = "draining"
  /\ Inflight = {}
  /\ loop' = "stopped"
  /\ NoTasks
  /\ UNCHANGED <<webVars, stopping, room, outVars>>

\* _drain: the tasks are done, or their 60 seconds are over and they are
\* cancelled, their leases left as they are.
Drain ==
  /\ loop = "draining"
  /\ loop' = "stopped"
  /\ NoTasks
  /\ UNCHANGED <<webVars, stopping, room, outVars>>

\* LocalBlobStore.put was writing a new file; put_object of S3 is all or nothing.
TornBy(s) ==
  /\ inPlace /\ pc[s] = "put"
  /\ <<task[s], got[s]>> \notin blobs
  /\ blobs' = blobs \cup {<<task[s], got[s]>>}
  /\ cut' = cut \cup {<<task[s], got[s]>>}

Restart ==
  /\ loop = "stopped"
  /\ loop' = "running"
  /\ stopping' = FALSE
  /\ UNCHANGED <<webVars, room, taskVars, outVars>>

\* The process is killed and started again; in the midst of write_bytes it
\* leaves a part of a body.
Crash ==
  /\ loop \in {"running", "leasing", "draining"}
  /\ loop' = "running"
  /\ stopping' = FALSE
  /\ room' = 0
  /\ NoTasks
  /\ \/ UNCHANGED <<blobs, cut>>
     \/ \E s \in Slots : TornBy(s)
  /\ UNCHANGED <<webVars, validators, inPlace, topic>>

-----------------------------------------------------------------------------
(* _process and _handle, for one task.                                     *)

GoTo(s, place) == pc' = [pc EXCEPT ![s] = place]

EndTask(s) ==
  /\ GoTo(s, "free")
  /\ task' = [task EXCEPT ![s] = None]
  /\ carried' = [carried EXCEPT ![s] = None]
  /\ got' = [got EXCEPT ![s] = None]
  /\ says' = [says EXCEPT ![s] = None]
  /\ attempt' = [attempt EXCEPT ![s] = 0]

Fetching(s) == pc[s] = "fetch" /\ UNCHANGED <<webVars, loopVars, task, carried, outVars>>

Fetched(s) ==
  /\ Fetching(s)
  /\ GoTo(s, "put")
  /\ got' = [got EXCEPT ![s] = page[task[s]]]
  /\ says' = [says EXCEPT ![s] = "fetched"]
  /\ UNCHANGED attempt

\* The site answers 304 to the validators of what it still serves.
NotModified(s) ==
  /\ Fetching(s)
  /\ carried[s] = page[task[s]]
  /\ GoTo(s, "emit")
  /\ got' = [got EXCEPT ![s] = carried[s]]
  /\ says' = [says EXCEPT ![s] = "not_modified"]
  /\ UNCHANGED attempt

Gone(s) ==
  /\ Fetching(s)
  /\ GoTo(s, "emit")
  /\ says' = [says EXCEPT ![s] = "gone"]
  /\ UNCHANGED <<got, attempt>>

\* Retried with decay, up to a number of attempts that the task counts.
Failed(s) ==
  /\ Fetching(s)
  /\ attempt' = [attempt EXCEPT ![s] = @ + 1]
  /\ GoTo(s, IF attempt[s] + 1 >= MaxAttempts THEN "release" ELSE "requeue")
  /\ UNCHANGED <<got, says>>

Deferred(s) ==
  /\ Fetching(s)
  /\ GoTo(s, "requeue")
  /\ UNCHANGED <<got, says, attempt>>

Dropped(s) ==
  /\ Fetching(s)
  /\ GoTo(s, "release")
  /\ UNCHANGED <<got, says, attempt>>

\* Faulty variant: one blob per URL, whatever the page holds.
PutOncePerUrl(s) ==
  /\ pc[s] = "put"
  /\ GoTo(s, "store")
  /\ blobs' = IF \E v \in Versions : <<task[s], v>> \in blobs THEN blobs
              ELSE blobs \cup {<<task[s], got[s]>>}
  /\ UNCHANGED <<webVars, loopVars, task, carried, got, says, attempt,
                 validators, inPlace, cut, topic>>

\* blobs.put: content-addressed, so storing it again changes nothing, be it whole
\* or cut.
Put(s) ==
  /\ pc[s] = "put"
  /\ GoTo(s, "store")
  /\ blobs' = blobs \cup {<<task[s], got[s]>>}
  /\ UNCHANGED <<webVars, loopVars, task, carried, got, says, attempt,
                 validators, inPlace, cut, topic>>

\* store_validators, which a response without validators leaves as they are,
\* and is_indexable.
StoreValidators(s) ==
  /\ pc[s] = "store"
  /\ \/ validators' = [validators EXCEPT ![task[s]] = got[s]]
     \/ UNCHANGED validators
  /\ GoTo(s, IF got[s] \in NoIndex THEN "release" ELSE "emit")
  /\ UNCHANGED <<webVars, loopVars, task, carried, got, says, attempt,
                 inPlace, blobs, cut, topic>>

\* emitter.emit returns once every replica has the event, and then it is there once.
Send(event) == topic' = Append(topic, event)

Emit(s) ==
  /\ pc[s] = "emit"
  /\ Send([url |-> task[s], outcome |-> says[s], version |-> got[s]])
  /\ GoTo(s, "release")
  /\ UNCHANGED <<webVars, loopVars, task, carried, got, says, attempt,
                 validators, inPlace, blobs, cut>>

\* An exception out of fetch() or _handle: the task is released, its page
\* forgotten; the push of a requeue() stays.
Raise(s) ==
  /\ \/ /\ pc[s] \in {"fetch", "put", "store", "emit", "requeue"}
        /\ GoTo(s, "release")
     \/ pc[s] = "register" /\ GoTo(s, "undo")
  /\ UNCHANGED <<webVars, loopVars, task, carried, got, says, attempt, outVars>>

\* release(), or the last call of requeue().
Release(s) ==
  /\ pc[s] \in {"release", "register", "undo"}
  /\ EndTask(s)
  /\ UNCHANGED <<webVars, loopVars, outVars>>

\* Faulty variant: an RPUSH whose reply is lost is tried again.
RequeueRetried(s) ==
  /\ pc[s] = "requeue"
  /\ Queue(task[s])
  /\ \E place \in {"requeue", "register"} : GoTo(s, place)
  /\ UNCHANGED <<offers, page, loopVars, task, carried, got, says, attempt, outVars>>

\* requeue() pushes the URL, which may be leased from now on; its coroutine still
\* has two awaits to go.
Requeue(s) ==
  /\ pc[s] = "requeue"
  /\ Queue(task[s])
  /\ GoTo(s, "register")
  /\ UNCHANGED <<offers, page, loopVars, task, carried, got, says, attempt, outVars>>

-----------------------------------------------------------------------------
RunLoop == StartLease \/ StartTasks \/ StartDrain \/ Drain

TaskStep(s) ==
  \/ Fetched(s) \/ NotModified(s) \/ Gone(s)
  \/ Failed(s) \/ Deferred(s) \/ Dropped(s)
  \/ Put(s) \/ StoreValidators(s) \/ Emit(s)
  \/ Raise(s) \/ Release(s) \/ Requeue(s)

Next ==
  \/ \E u \in Urls : Offer(u) \/ SiteChanges(u)
  \/ Stop \/ Restart \/ Crash
  \/ RunLoop
  \/ \E s \in Slots, u \in Urls : LeaseOne(s, u)
  \/ \E s \in Slots : TaskStep(s)

\* The event loop runs run(); nothing is assumed of the tasks.
Spec == Init /\ [][Next]_vars /\ WF_vars(RunLoop)

-----------------------------------------------------------------------------
(* What holds.                                                             *)

\* All of the body is stored; or, in a directory, it is one that a kill cut in its
\* first write and that every later put() takes for stored.
Backed(u, version) ==
  /\ <<u, version>> \in blobs
  /\ <<u, version>> \in cut => inPlace

\* An event points to a stored body, and the validators kept for a URL are those of
\* a stored body, whatever was raised, killed or fetched again between put, emit and
\* save.  In the bucket the body is whole, so a 304 stands for content that is there.
\* In the directory it may be cut, if a kill came in its first write: then the code
\* does refer to it; a body that was whole when it was referred to stays so
\* (BodiesStayWhole).
ReferencesHaveBlob ==
  /\ \A i \in 1 .. Len(topic) :
       topic[i].outcome = "fetched" => Backed(topic[i].url, topic[i].version)
  /\ \A u \in Urls : validators[u] # None => Backed(u, validators[u])

\* A body that is stored whole stays whole: no later put of the same content,
\* killed at whatever moment, spoils what earlier events point to.
BodiesStayWhole == [][blobs \ cut \subseteq blobs' \ cut']_vars

\* The tasks that have not put their URL back.
Tasks(u) == {s \in Slots : task[s] = u /\ pc[s] \notin {"register", "undo"}}

\* A URL is queued and with tasks no more often than it was offered: requeue, though
\* its task goes on after the push, release, raise, drain and crash never multiply
\* it, also while a refresh has queued it a second time.
TasksPerOffer == \A u \in Urls : Cardinality(Tasks(u)) + due[u] <= offers[u]

\* A worker told to stop stops, whatever its tasks are stuck in: run() leaves
\* its loop and _drain does not wait longer than its grace period.
StopEnds == stopping ~> ~stopping \/ loop = "stopped"

=============================================================================
