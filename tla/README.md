# A TLA+ model of AtlasSearch

AtlasSearch crawls the web and builds a full-text index from it. This directory
holds TLA+ modules for the parts of it that run concurrently, survive crashes
or prune work cleverly, TLC configurations that check them on small instances,
and theorems that the TLAPS proof system checks. Paths below
are relative to `src/`; `crawler/` stands for `crawler/src/atlas_crawler/` and
`indexer/` for `indexer/src/atlas_indexer/`.

## 1. The system

```
 seeds, discovered URLs        crawler process (many)                  indexer process (many)
        |                 +--------------------------------+      +----------------------------+
        v                 | run loop -> task coroutines    |      | poll batch -> parse -> emit|
  add_many --> frontier --+-> gate (dns, robots, limiter)  | blob +------------+---------------+
  (budget,     (Redis:    |   fetch -> response table -----+--store            | pages.parsed,
   seen)       queues,    |   requeue / release / recrawl  |  + pages.fetched  | links, discovered
               leases)    +--------------------------------+                  v
                                                              segments -> index directory -> search
```

### 1.1 Components

| component | state | operations | shares or calls | what is hard | what makes it correct |
|---|---|---|---|---|---|
| frontier (`crawler/frontier.py`) | Redis: back queue and membership set per host, heap of due hosts, front bands, one lease key per URL | `lease`, `release`, `requeue`, `schedule_recrawl`, `_enqueue_one` | all crawler processes; two Lua scripts are atomic, every other call is one await | interleavings of the multi-call operations, crashes between the calls, a TTL that fires during a fetch | a URL is in one place, none is lost, a queued URL's host can be leased and is in the end |
| discovery (`add_many` in `crawler/frontier.py`, `crawler/dedup.py`) | Bloom filter, exact store, budget counter of a site | `add_many`, `filter_new`, `limit_for`, `spend` | the frontier's enqueue script | check-then-act between callers, a filter that cannot forget, a counter whose expiry is a second call | what the filter has answered on is queued, bounded duplicates, bounded budget, a window that ends |
| crawl worker (`crawler/main.py`, `emit.py`, `storage.py`) | in-flight tasks, stop flag, task attempt | `run`, `_process`, `_handle`, `_drain`, `stop` | frontier, fetcher, blob store, emitter | exceptions, cancellation and crashes anywhere in a task; shutdown | no event without a body, a whole body stays whole, no task without an offer, a stop that ends |
| fetcher and politeness (`crawler/fetcher.py`, `ratelimit.py`) | per-domain rate, streak, pause key; paired token buckets of domain and IP | `_gate`, `acquire`, `record`, `pause_host`, `apply_rate_ceiling` | all coroutines of all processes | stale rate at the script, feedback in any order, lazy refill, key expiry | the rate bound of page requests holds; a host is not starved |
| DNS cache (`crawler/dns.py`) | answers with expiries, futures in flight | `resolve_all` | coroutines of a process | a cancelled leader, waiters, a lookup that times out | one query per host at a time; every lookup ends |
| robots cache (`crawler/robots.py`) | process cache, Redis cache | `get`, `can_fetch` | processes through Redis | stale entries, a site that fails, two lifetimes one after the other, an answer of Redis that takes its time | rules are no older than both lifetimes and two fetches; a site that fails is not closed for longer than its own |
| URL rules (`crawler/urlnorm.py`, `TrapDetector` in `crawler/dedup.py`) | none; counts and demotion flags of a path prefix | `canonicalise`, `observe`, `is_demoted` | add_many, filter_new, fetch, link extraction, one after the other | the order of decoding, upper case, dot segments and quoting | a name stays what it is; one page, one name |
| parse worker (`indexer/main.py`) | consumer positions, batch in hand, stop flag | `run`, `handle`, `_publish`, `stop` | Kafka group, blob store, topics | redelivery, rebalances, deaths, poison messages | what is committed is published; the newest version wins |
| parse pipeline (`indexer/pipeline.py`, `parse.py`, `boilerplate.py`, `links.py`, `fields.py`, `charset.py`, `language.py`, `render.py`) | the template learner of a process | `Parser.parse` | | the text of a page depends on the pages before it | a page is not stripped of its own text |
| index lifecycle (`indexer/index/index.py`, `segment.py`, `merge.py`, `deletes.py`, `writer.py`) | segment directories, `deletes.bin`, generation file, open segments | `add_documents`, `delete`, `merge`, `publish`, `reload` | one process owns the directory | a crash between any two file operations; names of directories | what is served is on disk, nothing added is lost, a merge changes no answer |
| search (`indexer/index/wand.py`, `postings.py`, `scoring.py`) | cursors, heap, threshold | `search`, `search_exhaustive`, `PostingCursor` | block maxima written at build time | skipping too far | the same hits as the exhaustive scan |
| segment files (`indexer/index/writer.py`, `codec.py`, `postings.py`, `dictionary.py`, `deletes.py`) | bytes of a segment; the tombstones in memory | `build`, `finish`, `PostingCursor`, `get`, `terms`, `to_bytes`, `from_bytes`, `merge_segments` | lifecycle writes, search reads | boundaries of blocks and bytes, shared streams, renumbering | what is read is what was written; a merge is a rebuild |
| BM25F (`indexer/index/bm25f.py`, `fielded.py`, `tuning.py`) | `fields.json` beside a segment | `build`, `search_fielded`, `aggregate` | the segment's bytes, under one key for field and term | a document with a term in several fields; rounding and caps of anchors | the ranking is the definition's; anchors count by sites |
| analysis (`indexer/analysis/`) | none | text to terms with positions, for documents and queries alike | fields and queries | identifiers take characters before words do, scripts change in the midst of a text | a phrase of a text is found in it |
| configuration, metrics | none | | | | |

The search API, the frontend and the deployment are documents and empty
directories at this commit.

### 1.2 Hazards

`PROJECT.json` lists under `hazards` everything in this code that a test would
hardly reach, at its line, with the property that covers it or the reason why
none does. The properties below were chosen from that list.

## 2. Modules

Most models of the components are independent of each other; where one needs another
part it names the abstraction it takes. `Discovery` runs with `UrlNorm`, `Fielded`
over `SegmentFiles`; its run looks at `Anchors` and `Analysis` too. A variable stands
for one Redis key family, one attribute or one file. Variables called a history record
what happened, guard nothing, and appear in properties only.

### `Frontier`, `WorkQueue`, `FrontierProofs`

The back queues (`bq`), membership sets (`inq`), due heap (`heap`, `due`),
front bands, lease keys (`leaseOf` with what is left of the TTL) and, per task
slot, where its coroutine is. The enqueue and lease scripts are one action each
(`Enqueue`, `LeaseStale`, `LeaseTake`); the SET of the token, the SREM, the
GET and DEL of `release`, the RPUSH, SADD and ZADD of `requeue` and of
`schedule_recrawl` are one action per call, because other processes run between
them. A crash ends all slots of a process. Due times are kept relative to now,
so the clock needs no bound. `release` compares the token it has read, and
deletes in a second step: the model has the gap. Two histories say what became of
things: `fate` of a URL, and `keyFate` of the lease key last set for it, which is
current, of a task a crash took ("orphaned"), or gone by its TTL before or after
that ("lapsed", "vanished").

Redis calls succeed in this module; what a task does between its lease and its
return is `CrawlWorker`'s.

`WorkQueue` is the abstract specification: a URL is offered once, taken by one
slot at a time, put back or finished. `Frontier` implements it under the
refinement mapping `Status` while nothing crashes and the seen filter admits a
URL once (property `IsWorkQueue`, run `frontier`).

### `Discovery`, `DiscoveryProofs`

`add_many` for several callers over one Redis: peek the budget of the sites,
ask the Bloom filter, ask the exact store for the possible ones, mark the new
ones seen, enqueue, charge, start the window. Each is a step. A crash
may end a call at any step; `accounted` and `stuck` record what it cost. A URL is
offered in some spelling; `add_many` makes it canonical and `filter_new` does so
once more (`Canonical`). Offered batches are those the trap rules leave. The test of the
Bloom filter sets its bits in the same call, one action per URL; the lookup in
the exact store and the mark there are an action each, for the whole batch.

### `UrlNorm`

The path of `canonicalise`, character by character: `Decoded`, `UpperHex`,
`WithoutDots`, `Quoted` and `Trimmed` in the order of the code
(`CanonicalPath`). A character stands for its octet, and the few that occur are
constants. `MCDiscovery` composes it with `Discovery`: an assumption
(`CanonicalFromUrlNorm`) computes the table of `Discovery` from it, and a
variable of its own, `link`, takes every short path through one call of
`canonicalise` and the next.

### `CrawlWorker`, `CrawlWorkerProofs`

One process: the loop with its capacity, computed before the await on `lease()`; the
coroutine of a task with the fetch, the write of the blob, the validators and the
event in the order of `_handle`; every row of the response table; exceptions, which
release; `stop`, `_drain` with its grace and cancellation; crash and restart. The
frontier is how often each URL is in a back queue (`due`), since a refresh pushes what
is queued already; the RPUSH of `requeue` puts the URL back while the task is still in
flight, with the SADD and ZADD ahead of it (`register`), and may raise before or
after. A page is its version, so that a 304 is only possible with validators of the
version served. A redirect chain is a fetch of its last hop. A process killed in the
write of a blob leaves a part of it (`cut`) where blobs are files (`inPlace`), and a
later `put` takes it for stored; in a bucket a body is there whole or not at all.

### `Lookups`, `LookupsProofs`

What `_gate` asks before it may ask for a token, for one host and its origin:
`resolve_all` with the process's cache and the future of a lookup in flight,
then `RobotsCache.get` through the process, Redis and the site. Every coroutine
has its fetch's deadline. A leader that is cancelled removes its future and does
not resolve it: who waited is `orphaned`, and the next lookup leads beside it.
A stamp is kept as the time since, an expiry as the time left, so the clock needs
no bound; timers fire when they are due. What Redis has is read in one step and is
here in a later one (`AskRedis`, `RedisAnswers`), and so are the SET and its return:
the life of rules in the process starts when the answer has come, however old it is
by then. `used` is the history of what the last
URL was judged by. A process may be restarted, and Redis keeps its key.

### `Politeness`, `PolitenessProofs`

Per domain the rate, the healthy streak and the pause; per domain and IP a token
bucket. The gate resolves the host's name first (`Resolve`), to any address: two hosts
of a domain, or one at two times, may have different ones, and the bucket that is
charged is that of this resolution (`addr`). httpx resolves the name again when it
connects, so the address that is charged need not be the one that is asked. Then
robots.txt: without rules at hand the host is asked for it (`AskRobots`), a request
that takes no token and does not look at the pause, as in the code. The acquire script
is one action (`Admit`, `Deny`), the HGET of the rate before it another (`ReadRate`),
and so are the read and the write of `apply_rate_ceiling` and the SET and the record
of `pause_host`. A redirect (`Redirected`) takes its chain to the gate of another
domain, or of the same, as a later hop, which waits once for its token and asks again
(`mid`); where it ends the chain (a cycle, no Location, too many hops) it is an
`Answer`. Tokens and rates are whole units and rounded down; the time stamp of a
script is taken with it, so skewed clocks are not modelled. Keys expire.

### `ParseWorker`, `ParseWorkerProofs`

A consumer group over the partitions of `pages.fetched`: positions, committed offsets,
assignments, and per process the batch in hand, what the current page has still to
emit, and its template learner. A poll takes any part of what is there, up to the
limit, and each partition's part comes in the order of a stable sort by URL
(`Ordered`). Reading a blob and parsing it are one action (no one sees anything
between), each emit is one; a blob that is lost or cut raises out of `run` (`Unread`),
whenever it is read. Processes die, stop and restart. When a member came or went
(`Settle`), or took too long and joins again (`Rejoin`), the group meets (`Regroup`):
the partitions are shared out anew and every member reads on from what is committed,
also one that keeps its partitions. A worker in the midst of a batch goes on with it,
and its commit moves nothing. `cut` counts for each partition the batches that were
lost to their commit in this way or by a death, and `kicked` has the partitions of
which a worker other than the new owner still had messages in hand. A page is its
blocks by their text, as `build_blocks` and `classify` leave them; `Extract` has the
subtraction of templates and the fallback. A document is known by its URL: two URLs
with one canonical form are not modelled.

### `IndexLifecycle`, `IndexLifecycleProofs`

The directory: which segments exist, which files they hold and from which
build, what `deletes.bin` says, the generation file; and the process: the open
segments and where the call in progress is. Files are written and removed one
per action, a crash may cut the file being written (a cut file is empty), and
`Verdict` is what `Segment.__init__` makes of a directory. The clock gives a
merged segment its name. Contents are sequences of documents, and what the code
sorts (live documents, directory names) is put in order by `ByRank`; the version check
of the analyzer is left out. The code can write over a directory that exists
(the hazard at `index.py:114`): the model does it, records it in
`clobbered`, and the properties say what holds otherwise.

### `SegmentFiles`, with `Codec`, `PostingBytes`, `Dictionary`, `DeleteSet`

What `IndexLifecycle` takes as contents. `Codec` has the integers: varints, gaps and
packing; `PostingBytes` one term's postings and positions as `PostingsWriter.finish`
writes and `PostingCursor` reads them; `Dictionary` the front-coded blocks and their
lookup; `DeleteSet` both forms of `deletes.bin`. `SegmentFiles` builds segments from
documents (`BuildSegment`), deletes, and merges from what the files read back
(`MergedSegment`); `sources` is the history the properties compare with. An addition
does not ask what other segments have, so a document may be live in two of them, in
two versions; a merge keeps both, in the order of their segments. Ids differ within
one batch. A byte has three bits, so that docIDs, gaps and offsets of a small instance
take several bytes and end in the middle of one. The dictionary and `docs.bin` are
kept as records: their bytes are the same integers. Block maxima are `Search`'s. A
rank loses its last digit in `docs.bin`, as a double does in 32 bits, so a merge may
order two documents otherwise than their builds did. The files are read as long as
they are intact: the checksums are `IndexLifecycle`'s.

### `Fielded`

BM25F over the bytes of `SegmentFiles`, which it extends: a field and a term are
one key (`FieldTerm`) of the segment's dictionary, `fields.json` holds lengths by
docID and averages by field, and `SearchFielded` gathers, weighs and saturates as
`search_fielded` does. `Definition` computes the same from the documents that
were handed in. Scores are whole numbers, rounded down in both.

### `Anchors`, `SearchProofs`

What the links to a page say of it, as `AnchorAggregator.aggregate` counts it:
`Capped` adds up what each site says of a term (`Said`), up to the cap, and
`Discounted` scales down what too few sites say. `linked` holds the links found so
far; the web, which is not the code, adds to it one by one.

### `Analysis`

Text to terms: `Claimed` is `find_protected` (literals first, then the first
pattern that matches, none over another), `Segment` cuts the rest into runs of a
script and those into words or bigrams, and `Slots` gives the positions, an
identifier's parts taking one each. Characters are Latin, digits, ideographs and
marks; of the patterns there are email, semver, ident and ident2. `text` is the
document or the query that is analyzed.

### `Search`, `SearchProofs`

Posting lists in blocks with their maxima and last documents, one cursor per
term, the top-k heap, its threshold, and one action per turn of the loop of
`search`. `Exhaustive` is `search_exhaustive`. The score is the BM25 fraction in
whole numbers, rounded down alike when written and when queried. Block maxima are
written with the segment's own statistics; the query has those of the whole index
(`stats`), as `Index.search` passes them. `theta` is 0 until the heap is full, as in the
code; `ScaleIsFine` says that rounding leaves every weight positive, which the
code's fractions are.

## 3. Runs

| run | instance | what it shows |
|---|---|---|
| `frontier` | 2 hosts, 3 URLs, 2 processes with one slot, no crash, admission once | one home per URL (`OneHome`), membership covers the queues (`QueuedIsMember`), a task keeps its own lease key until it deletes it or the TTL runs out (`LeaseHeld`), the frontier is a work queue (`IsWorkQueue`), a queued URL is leased in the end (`EventuallyLeased`) |
| `frontier_full` | 1 URL, 3 slots in 2 processes, crashes, refreshes, two admissions | types, a queued URL's host is on the heap or about to be (`Scheduled`), URLs are lost at the named places only (`NothingLost`), a lease key is of a task that has its URL or of one a crash took (`NoLeaseLeak`) |
| `frontier_loss` | 1 URL, 2 slots, crashes | violated: the lease key of a task that a crash took expires, and nothing returns the URL |
| `discovery` | 2 callers, 3 URLs of one site whose Bloom positions overlap, one of them also under another spelling, batches of 2, queue cap 2; paths of up to 6 characters | `FilteredIsQueued`, `AdmittedPerCaller`, `BudgetBound`, `WindowWillEnd`; `canonicalise` is idempotent (`CanonicalIsStable`) and unites the spellings of a path (`SpellingsAgree`), but for nested escapes |
| `crawl_worker` | 1 URL, 3 slots, concurrency 2, 3 offers, 2 versions, a directory or a bucket for blobs | events and validators refer to bodies stored whole, or in a directory to one a kill cut (`ReferencesHaveBlob`), entries and tasks are no more than offers (`TasksPerOffer`), `StopEnds` |
| `lookups` | 2 coroutines in 1 or 2 processes, 1 host, deadlines of 2, lifetimes of 1 and 2 | one lookup in flight per process (`CollapsedLookups`), the age of rules (`RulesLiveTwice`), every gate ends (`GateEnds`) |
| `politeness` | 2 domains whose names resolve to either of 2 addresses, 2 slots | the fastest rate bounds the page requests of every stretch of time (`WithinMaxRate`), the slowest is guaranteed (`GuaranteedRate`) |
| `parse_worker` | 2 processes, 2 partitions, 6 pages, one of them unreadable, 4 logs, 1 disturbance, under fairness | `CommittedIsPublished`, `NewestOnTop`, `ReplaysNeedFailures`, `OwnTextNeedsRepeats`; every message is committed in the end (`EventuallyCommitted`) |
| `index` | 2 documents, 3 builds, a clock of 2 values | `ServedIsOnDisk`, `AddedStaysOnDisk`, `MergeKeepsServed` |
| `index_removal` | the same | violated: a removal that returned is undone by a crash |
| `segment_files` | 5 documents of up to 3 fields and a newer version of one, in 5 possible batches, 5 added at most, blocks of 2, bytes of 3 bits, 2 segments, any deletions and merges; 4 queries; any 4 links from 3 domains; 4,130 texts | `TermsReadBack`, `DeletesReadBack`, `MergeIsRebuild`; search over fields is BM25F (`FieldedIsDefinition`), `AnchorsCountSites`, phrases are found (`PhrasesLineUp`) |
| `search` | all pairs of posting lists over 4 documents in blocks of 2, with lengths, deletions, k and statistics of other segments | WAND is the exhaustive scan unless other segments are of longer documents (`SameAsExhaustive`), scores are full in any case (`ScoresAreFull`), `TurnsBounded` |

### Bounds

* Frontier: `MaxLag` and `MaxAge` cap how far a due time or an age is counted
  once it no longer matters; `Admissions` caps how often the filter admits a
  URL. Three URLs on two hosts give a queue of two and a second host to be
  ripest; the races on one URL need two processes and, for a slot that keeps
  running after its lease expired, a third slot. `LeaseHeld` is checked
  where each URL is admitted once, on two tasks of one URL after another; with crashes
  between them it is a theorem.
* Discovery: two callers show every check-then-act race; the third URL makes a
  Bloom false positive. The queue cap of 2 and batches of 2 reach a full queue. One
  URL is also offered in a spelling that needs both calls of `canonicalise`.
* UrlNorm: paths of up to six characters hold an escape of a dot, of a letter and of
  a digit of another escape, in either case, and two dot segments. A path may be made
  canonical any number of times.
* Lookups: one host, since the caches are keyed by it. Two coroutines are a leader and
  a follower, or two processes that share Redis. The lifetimes are 1 and 2 and the
  deadline 2, so that an entry may outlive a fetch, and a fetch an entry.
* CrawlWorker: `Offers` caps how often a URL is offered or refreshed. With three
  offers a URL has more tasks than coroutines may run. `inPlace` is
  chosen at the start: blobs are files or objects of a bucket.
* Politeness: a request costs 2, a burst is one request, rates are 1 or 2 units a
  tick, a key lives 2 ticks, and a pause, capped at 1, ends with the next tick: any
  number of ticks may pass before a coroutine's next step. Two domains may share an
  address, and one domain have two. All counters are finite as the code has them (the
  age of a bucket ends with its key).
* ParseWorker: `MaxEvents` caps deaths, stops and rejoins together at one; the
  theorems are for any number. The meetings that follow a member's coming and going
  are not capped. What a process learns of a page that is replayed for ever is
  (`LearntEnough`). The logs hold two versions of one page, a second page sorted
  before it, a refused page, one that breaks the parser, an unreadable one, and an
  event without a body; a batch is smaller than the log.
* IndexLifecycle: `MaxBuilds` caps the segments ever built, two additions and a
  merge, and `MaxClock` the seconds, one, so that two merges may fall into one.
* SegmentFiles: five documents of a common term make three blocks, the last one
  partial; frequencies up to 5 and positions up to 17 take up to three bytes;
  tombstones are written as gaps up to two of five and as a bitmap of two bytes
  from three on. `MaxSegments` caps the open segments and `MaxDocs` the
  documents ever added (`added`); any number of merges and deletions may follow each
  other. Two batches have a document in common, and one brings a newer version of
  another, of the same rank, so that the order of copies shows in the bytes.
* Fielded: one field is unknown to the scorer, two keys would be one without their
  separator, and documents have a term in one field, in two or in none.
* Anchors: `MaxLinks`, four, links from three domains of up to two tokens exceed the
  cap of a domain, come from fewer domains than full weight needs and from as many.
* Analysis: all texts of up to five characters over a letter, a digit, an ideograph, a
  hyphen and a space, of up to three over other marks, and all pairs of identifiers
  with a mark between them.
* Search: two blocks per term are what skipping needs; frequencies 0, 1 and 3
  and several lengths give blocks whose maxima decide. The search ends, so the
  run does not check for deadlock; termination is `TurnsBounded`.

`frontier_full`, `discovery` and `politeness` use symmetry of the identities the
instance treats alike, and check invariants only. Links and texts are looked at by
themselves, while there are no segments: nothing relates them to the files.

Each stateful module defines a `TypeOK` (`LookupTypes` in `Lookups`). Those of the
modules section 4 speaks of are proved; `frontier_full` also checks that of the
frontier. The segments of `SegmentFiles` and the cursors of `Search` are computed from
the instance, and have none.

### Fairness

* `Frontier.FairSpec`: weak fairness of a process's lease loop, which `run()`
  calls without end; of each task's next step, which ends because `fetch()` runs
  under a total timeout; and of the clock. No fairness of crashes, re-offers or
  refreshes.
* `CrawlWorker.Spec`: weak fairness of the run loop alone. A coroutine may hang,
  and `StopEnds` holds because `_drain` waits for a grace period only.
* `Lookups.FairSpec`: weak fairness of the clock, of the expiry of a fetch's deadline
  and of the timeout of a DNS query, since the event loop runs what is due. Nothing
  makes a site or a resolver answer, so `GateEnds` rests on the timers alone.
* `ParseWorker.FairSpec`: weak fairness of a process's steps, of starting one
  that ended (the deployment restarts it) and of the group's meeting after a member
  came or went.

## 4. Proofs

Eight modules hold theorems, 39 of them named in `PROJECT.json`. Each is proved for
all values of the constants that satisfy the named assumptions of the module it
speaks of: any hosts, URLs, pages and documents, any number of processes and
coroutines, any sizes, rates and bounds. Most of the invariants the runs check are
not inductive. The strengthened ones are defined in the proof modules, and TLC
found them invariant on the instance of the run before they were proved.

The induction theorems of the library cannot be instantiated by these provers. What
holds for every size of a set (sums, orderings, counts) is proved from a smallest
counterexample instead: a least number (`LeastNatural`) or a least subset
(`LeastSubset`) for which the statement fails. What holds for a text of any length is
proved from a shortest text for which it fails (`ShortestBad`).

### The frontier (`FrontierProofs`)

For the specification with crashes, refreshes and repeated admissions (`Spec`):

* `TypeCorrect`: `TypeOK` is inductive as it stands; lemmas say that each Redis
  command keeps the type of what it writes.
* `HostsScheduled`: `TypeOK /\ Scheduled` is inductive. Most steps are quiet: they
  push nothing and take no host off the heap. The others are a lease of the last URL
  of a host, a stale host, and the RPUSH and ZADD of a requeue or a refresh, between
  which the host is `Pending`.
* `NoUrlLost`: `NothingLost` speaks of admitted URLs only, so a step that moves a URL
  must know it was admitted: `Offered` (all that is in a queue, a set or a task was
  admitted) is proved first.
* `KeysFreed`: `NoLeaseLeak` with the types. Each step that ends a task, or puts its URL
  back, comes after the task's own DEL or finds the key not its own; a key that names
  another task is that task's to delete.

With `Admissions = 1`, the seen filter that never admits a URL again:

* `OnePlace`, with crashes (`CrashSpec`): `OneHomeInv` adds `Homed`, that a host's queue
  has that host's URLs only. `Offered` says that a URL given to `_enqueue_one` for
  the first time has never been anywhere.
* `LeasesHeld`, with crashes (`CrashSpec`), from `OnePlace`: whoever sets or deletes the
  key of a URL is the one task that has the URL.
* `QueuedOnce`, without crashes (`CoreSpec`), from `OnePlace`. With a crash between
  RPUSH and SADD it is false.
* `FrontierIsWorkQueue`: `CoreSpec` implements `WorkQueue` under the mapping `Status`.
  The initial states map to initial states, and each step to a step or a stutter.
  `OnePlace` makes the mapping a function: whoever holds a URL is its one holder.

### Discovery (`DiscoveryProofs`)

* `TypeCorrect` carries `Places` along: what a caller's sets hold at each step of
  `add_many`.
* `NoAnswerLost`: it speaks of the URLs `filter_new` has answered on and of those the
  exact store has, not of bits in the Bloom filter, which a crash may leave set for a
  URL nobody queued; such a URL is asked for in the exact store and is still new.
  `FilterInv` adds that what is queued is accounted for, and that what a caller found in
  the exact store stays there.
* `BudgetsExpire`: inductive with the types.
* `AdmissionsBounded`: `AdmitInv` bounds a URL's admissions plus the callers that take
  it for new and have not marked it; what the exact store has, the Bloom filter has.
* `ChargesBounded`: `BudgetInv` bounds what is spent plus what each caller may still
  charge: the URLs it was granted and what is left of the allowance it has read. That
  sum over the callers is the size of a set of pairs (`Owing`), since a fold would need
  induction.
* `EscapesUnited`: `Decoded` is a function on the ends of a text (`DecodedIs`). Those
  behind the escape agree, two places further on, the escape is read as the
  character, and no escape before it reaches into it (`DecodedAlike`).
* `PathsStayCanonical`: what is invariant under the later passes is that every escape is
  canonical (`FineEscapes`), that no segment is a dot segment (`Dotless`) and that the
  path is not empty; a path with these, without unsafe characters and trimmed, is left
  by every pass. No escape reaches across a slash (`FineConcat`), so joining segments
  makes none; quoting makes no dot segment and completes no escape (`QuotedFine`); what
  is decoded is part of no new escape unless the path is nested (`DecodedOnce`). Before
  that, `split`, the fold over the segments, `join` and `quote` are shown to go from
  element to element (`SegmentsUnfold`, `LeftUnfold`, `JoinedUnfold`, `QuotedUnfold`),
  since the library defines its folds by a function on sets of places
  (`FoldingExists`).

### The crawl worker (`CrawlWorkerProofs`)

* `ReferencesBacked`: `BlobInv` adds that a coroutine past its put has its body stored
  (`Backed`): whole in a bucket; where blobs are files a body that a kill cut counts, since
  the code takes it for stored.
* `WholeBodiesStay`: no invariant is needed, each step of `Next` satisfies it.
* `NoTaskMultiplied`: `TasksPerOffer` with the types is inductive; the lemmas count
  the slots that have a URL.

### Politeness (`PolitenessProofs`)

* `PagesNeverTooFast`, of the requests that are charged (those for robots.txt are not):
  `BelowHigh`, a bucket refilled to this moment holds no more than one
  refilled at the greatest rate. What a script reads may be an older rate, so the
  proof needs each rate that is read to lie between the bounds (`TypeInv`).
* `MinRateGuaranteed`: `GuaranteedRate` is inductive with the types. It needs
  `TTLOutlastsRefill`, which the code's constants satisfy.

### Lookups (`LookupsProofs`)

* `LookupsCollapse`: `Registered`, a future in the map is that of a coroutine of this
  process that is still looking up, and the only one.
* `RulesAreFresh`: `RulesInv` bounds the age of rules in a coroutine's hands, in Redis
  and in a process one after the other: a fetch before they are in Redis, a lifetime
  there, what Redis's answer takes, which the deadline of the asking fetch bounds, and a
  lifetime in the process.

Both are of `FairSpec`; the fairness is not used.

### The parse worker (`ParseWorkerProofs`)

* `CommitFollowsPublish`: `GroupInv` says whose partition it is and that a batch lies
  between the committed offset and the position; `PublishedInv`, that all below a
  batch's next message was published, or is in what the worker has still to emit.
* `NewestVersionWins`: `NewestInv` adds what a worker has read of a URL and what it has
  in hand. It uses that the log is keyed by URL (`LogsType`), as `emit.py` sends it.
* `ReplaysAreFailures`: `ReplaysInv` counts, for a message, how often it was handled,
  who has it in hand and whether it is still to be read: no more than one, and one
  for each batch of its partition that was cut (`CutCounts`).
* `OwnTextIsKept`: `LearnerInv`, a learner has seen a text of one page address no more
  often than it has parsed that address.

### The index directory (`IndexLifecycleProofs`)

`IndexInv` is one invariant for the three theorems. `LoadedInv`: what is loaded is on
disk, its tombstones are those in memory but for one that is being written, and no
call in progress writes or removes it. `OnceInv`: no name is loaded or listed
twice. `WriteInv`: a segment is written in the order of its files and is none before
its manifest, and a merge's content is that of what is loaded. `FlushInv`: the tombstone
being written is of a document that was deleted. `AddedInv`: an added document is
live in a directory that is not about to be removed.

* `LoadedIsOnDisk`, `AddedSurvives` follow from it.
* `MergeChangesNothing`: `Merged` is an ordering of the live places, so there is a
  bijection between its documents and those places (`MergedIsMerge`), under which the
  places of one document correspond; hence equal counts. That the places can be put
  in order at all (`ByRankExists`) goes by the least size of a set that could not,
  since induction theorems cannot be instantiated.

### Search and anchors (`SearchProofs`)

`Inv` is one invariant for the three theorems on searches.

* `SegmentOK` is what `Init` wrote: blocks that are not empty, of documents that ascend
  through all of them (`Ascending`), each with a maximum that bounds its postings
  unless the index is of longer documents (`Bounded`).
* `CursorsOK` and `Abreast`: a cursor is at a posting, and a document that one term's
  cursor has gone past, all have. Every turn is a sweep: it has a target that no cursor
  has to pass, and each cursor that is behind it goes to its first posting at or after
  it (`Sweeps`). `AdvanceSweeps` and `NextDocSweeps` show that the cursors do this,
  by whole blocks and by single postings, and `SweepStep` that `Abreast` is kept.
* `HeapOK` and `Kept`: hits have full scores, `theta` is the least of them once the
  heap is full, and a match that was gone past is a hit or has k better ones. That a jump
  keeps this is the heart of the proof: a document below `SkipTarget` has no terms
  outside the prefix (`BelowPivot`), lies in the blocks whose maxima were summed
  (`WithinBlocks`), and so scores no more than `theta`; it then has the higher docID too.
* `TurnsCounted`: as many postings were gone past as there were turns.

`SearchScoresAreFull` and `SearchSameAsExhaustive` follow at the end of the loop, when
no cursor has a posting whose term could still beat `theta`: the top k of the
definition exist (`TopExists`) and are the hits. Sums are the community modules' folds,
which unfold to one element after the other in the order of a CHOOSE; that the order
does not matter, and what a sum over a subset is, are the first lemmas of the module.

`SitesAreCapped` needs no more of the links than that they are links: what it says
relates the counts of a list and of the list without one link. The sums over links are
taken over other indices (`SumReindexed`, `SaidDropped`), site by site the shares
shrink and the sites that say a term stay or become fewer (`CappedDropped`), and
scaling down, which rounds, keeps the order and at least one (`DiscountedType`).

### Assumptions

Besides the types of the constants: `Slots`, `Callers` and `Workers` are finite sets;
`None` is no value of another kind (`NoneIsNoValue`, `NoneIsNoSlot`); a slot is no
word of the queue's status (`SlotsAreNoWords`); making a URL canonical a second time
leaves its site alone (`SiteIsStable`), because `canonicalise` changes the host the
first time only; the log is keyed by URL (`LogsType`). Of the tables of a URL's
characters: `%` is no digit and needs an escape, an escape stands for its character
(`PercentType`); `quote` escapes no slash, no `%` and no digit, and what it writes is
an escape in upper case of a character that needs one (`QuoteType`). TLC evaluates
them in every run of the module.

### Only model-checked

* Liveness: `EventuallyLeased`, `StopEnds`, `GateEnds`, `EventuallyCommitted`. They need
  fairness and ENABLED, which the prover does not reason about.
* What the codecs and the analysis compute for every input:
  `SegmentFiles` (`TermsReadBack`, `DeletesReadBack`, `MergeIsRebuild`) rests on powers
  and on `SetToSortSeq`, for which the provers have no theory; `Fielded`
  (`FieldedIsDefinition`) reads what `SegmentFiles` wrote; `Analysis` (`PhrasesLineUp`) is
  a recursive function of a text.
* `ExpiryReturnsUrl` and `RemovalSurvives` are false (section 5).

## 5. What the runs found

Disagreements between the code and what the repository says of it, each with a
run that exhibits it (`findings` in `PROJECT.json`):

1. A URL whose worker dies is lost. The lease script pops the URL, the worker sets the
   key and dies, and when the key expires nothing puts the URL back (`frontier_loss`).
2. A crash while `deletes.bin` is rewritten brings removed documents back
   (`index_removal`).

Behaviour the models contain that a maintainer should know of:

* A host that is paused by a 429 or 503 is asked for its robots.txt all the same, with
  redirects, at no token: the gate asks before it acquires (`robots.py:153`,
  `fetcher.py:169`). `ratelimit.py:236` says that "every URL on it waits". One
  request goes out for each coroutine that finds no rules cached.
* A segment directory without a manifest, which `segment.py:132` says is "skipped", makes
  `reload()` raise `SegmentCorrupt`: the index does not open.
* `Index.delete`, "wherever it lives" (`index.py:120`), stops at the first segment that
  marks the document; a copy in a later one is still served.
* Block maxima are written with a segment's own statistics, and `Index.search` queries
  with those of the whole index (`index.py:169`). When the other segments hold longer
  documents the maxima are too low, and pruning drops hits that `search_exhaustive`
  returns, with which `wand.py:217` says it "must agree with this exactly".
  `SameAsExhaustive` exempts that case (`NoLonger`) and holds in all others.
* When the leader of a DNS lookup is cancelled, its followers wait for their own
  deadline: `finally` takes the future out of the map, and nothing resolves it
  (`dns.py:59`).
* Rules read from Redis start a new lifetime in the process, from when Redis's answer is
  here: a robots.txt may be obeyed for two lifetimes and two fetches after the site
  changed it.
* The address a bucket is charged for is that of the gate's own resolution; httpx
  resolves the name again.
* `canonicalise` is not idempotent on nested escapes: `/%4%31` becomes `/%41`, and
  that becomes `/A`. `urlnorm.py:8` says idempotence is property-tested. A deeper
  nest is marked seen under one name and fetched under another.
* `TrapDetector.observe` has no caller outside the tests: nothing is ever demoted.
* `ident` and `ident2` take letters of any script, so Japanese text around a number
  is one token: the whole of `私は2020年に東京へ行った`, and `COVID-19感染者`. That is the "one
  giant token nobody can ever match" of `segment.py:144`. `PhrasesLineUp` exempts
  phrases cut out of an identifier.
* A query of one ideograph finds only texts in which it stands alone: longer runs are
  indexed as bigrams, although `segment.py:106` wants a one-character query to match.
* Literals need no word boundary: `.net` in `user@host.net` claims its characters, and
  the address is not kept whole, against `protect.py:9`.
* A merged segment has no `fields.json`, so it cannot be opened as a `FieldedSegment`.
* A blob that was cut by a crash is never written again, because its path exists; the
  events of later fetches point to it.
* `release` may delete the lease of the next holder; `requeue` and
  `schedule_recrawl` overwrite a host's due time, push without asking the
  membership set, and strand the host when a crash comes before the ZADD. No
  sweep repairs it.
* The number of attempts lives in a task and is not stored by `requeue`: the
  next lease starts from zero, so `max_server_error_retries` limits nothing when
  it is above one, although `features/WEB-CRAWLER.md:90` says "give up after N".
* A `deletes.bin` that was cut in the middle raises an `IndexError`, which
  `reload()` does not catch: the whole index does not open.
* A crash, a full queue or an exception between the seen filter and the end of
  a task costs the URL, since the filter never admits it again.
* Callers of `add_many` that overlap may each admit a URL and each spend the
  remaining budget; a crash between INCRBY and EXPIRE leaves a counter for ever.
* Validators are stored before the event is sent: if the send fails, the next
  fetch is answered 304 and the content is not published. The body is stored.
* A pause is overwritten by a shorter one, and a Retry-After longer than
  `max_retry_after_seconds` is cut.
* A blob that can never be read kills the parse worker at each poll. It is not committed
  over, and nothing polled with it is committed either, so other partitions of the
  process starve with it. `EventuallyCommitted` exempts logs with such a blob.
* A page that becomes `noindex`, or whose text is taken away, publishes nothing:
  the version before stays. `NewestOnTop` compares versions that are published
  whatever the learner has seen.
* A page recrawled `template_min_pages` times by one process is a template of
  itself; the fallback keeps its substantial blocks.
* A rebalance in the midst of a batch lets a worker publish an old version after
  the new owner has published a newer one; `NewestOnTop` exempts it.
* Segments are named by count and by second and may be written over; a merge
  removes segments the published generation names.

## 6. Not modelled

* The trap detector, which nothing feeds (section 5); the frontier's own test of it
  drops nothing.
* Of URLs: scheme, host, port and query, which are table look-ups, sorting and
  libraries; the registrable domain.
* Of robots.txt: its grammar, which a library parses; sitemaps.
* Of a page: charset and language detection, HTML to blocks, fields and links.
  They are functions of one page without shared state, and constants of `ParseWorker`.
* Of analysis: Unicode normalisation, stems, foldings and roots (`AltsOf`, a
  constant), scripts other than Latin and CJK, the patterns for URLs, paths, numbers
  and acronyms, the cut at `max_token_length`, and a word segmenter, which is not built.
* Of BM25F: the static prior and the offline tuning.
* Configuration (its values are constants), metrics, command lines, and remote
  I/O (S3, Kafka): modelled where the code meets it, as outcomes.

## 7. Plan

In order:

1. `Frontier` composed with `Discovery` and `CrawlWorker`: the seen filter, the
   queue and the task of one URL, so that the loss places are counted once.
2. Link extraction (`links.py`): which links are authority and which are discovery.

## 8. Running it

```
tlc -workers 2 -config Frontier.cfg MCFrontier.tla
tlapm FrontierProofs.tla
```

Each run of section 3 is a configuration file and the MC module of its
component; `PROJECT.json` names both, maps every definition to the lines it
models, and lists for each property a mutant of the code that violates it.
