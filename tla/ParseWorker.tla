---------------------------- MODULE ParseWorker -----------------------------
(***************************************************************************)
(* The parse workers of the indexer: a consumer group that reads           *)
(* pages.fetched in batches, parses each page, publishes what comes out    *)
(* and commits after the batch; and the template learner of each process,  *)
(* by which the text of a page depends on the pages parsed before it.      *)
(*                                                                         *)
(* handle() has no step another process can see but what it emits, so      *)
(* reading a blob and parsing it are one action and each emit another.  A  *)
(* page is a stored body: its blocks, by their text, as build_blocks makes *)
(* them and classify marks them.  The log is there from the start, since a *)
(* poll may take any part of it.                                           *)
(***************************************************************************)
EXTENDS Integers, Sequences, FiniteSets, SequencesExt

CONSTANTS
  Workers,
  Partitions,
  Pages,
  UrlOf,          \* the URL a page was fetched from
  HostOf,
  PartitionOf,    \* of a URL: the events of one are keyed alike
  UrlRank,        \* the order of URLs
  Texts,
  VisibleOf,      \* the blocks of a page, in order
  BlocksOf,       \* those outside of chrome
  ContentOf,      \* those the classifier takes for content
  Chars,          \* the length of a block
  Substantial,    \* the blocks of twelve words or more and few links
  LinksOf,        \* the targets of a page's links
  Vouched,        \* those without nofollow, ugc or sponsored
  Rejected,       \* pages safe_parse or decompress_capped refuse
  Broken,         \* pages a later part of parse() raises on
  Unreadable,     \* pages whose blob is lost or cut
  NoIndex,        \* pages with robots meta noindex
  NoFollow,       \* pages with robots meta nofollow
  None,           \* no body: a 304 or a tombstone
  MinPages,       \* template_min_pages
  RepeatPercent,  \* template_repeat_ratio
  MinChars,       \* min_retained_chars
  MinPercent,     \* min_retained_ratio
  MaxRecords,     \* max_records of getmany
  Logs,           \* what pages.fetched may hold
  MaxEvents       \* bound: how often processes die, are told to stop or rejoin

Urls == {UrlOf[g] : g \in Pages}
Hosts == {HostOf[u] : u \in Urls}
Targets == UNION {LinksOf[g] : g \in Pages}

ASSUME PagesType ==
  /\ HostOf \in [Urls -> Hosts] /\ PartitionOf \in [Urls -> Partitions]
  /\ UrlRank \in [Urls -> Nat]
  /\ VisibleOf \in [Pages -> Seq(Texts)] /\ BlocksOf \in [Pages -> Seq(Texts)]
  /\ ContentOf \in [Pages -> SUBSET Texts] /\ Chars \in [Texts -> Nat \ {0}]
  /\ Substantial \subseteq Texts
  /\ \A g \in Pages : IsFiniteSet(LinksOf[g]) /\ Vouched[g] \subseteq LinksOf[g]
  /\ Rejected \cup Broken \cup Unreadable \cup NoIndex \cup NoFollow \subseteq Pages
  /\ None \notin Pages \cup Workers
ASSUME ParseBoundsType ==
  /\ {MinPages, RepeatPercent, MinChars, MinPercent, MaxRecords} \subseteq Nat \ {0}
  /\ MaxEvents \in Nat

Messages == {[url |-> UrlOf[g], page |-> g] : g \in Pages} \cup
            {[url |-> u, page |-> None] : u \in Urls}
ASSUME LogsType ==
  /\ Logs \subseteq [Partitions -> Seq(Messages)]
  /\ \A l \in Logs, p \in Partitions :
       \A i \in DOMAIN l[p] : PartitionOf[l[p][i].url] = p
ASSUME WorkersFinite == IsFiniteSet(Workers)

VARIABLES
  log,        \* pages.fetched: a partition's messages
  committed,  \* the group's offsets
  owner,      \* the worker a partition is assigned to
  pos,        \* the consumer's position in it
  settled,    \* whether the group has met since a member came or went
  up,         \* the processes that run
  stopping,   \* those whose _stopping is set
  polled,     \* the partitions a worker's batch is from, if it may commit them
  batch,      \* the messages of the batch it has not handled, as <<partition, offset>>
  out,        \* what the first of them has still to emit
  learner,    \* a process's TemplateLearner
  sent,       \* what was ever emitted
  shown,      \* the offset of the version of a URL that was published last
  times,      \* history: how often a message was handled to its end
  parses,     \* history: how often a process has parsed a URL
  kicked,     \* history: partitions given to another while a worker had messages of them
  cut,        \* history: how often a batch of a partition was cut before its commit
  events      \* how often processes died, were told to stop or rejoined

groupVars == <<committed, owner, pos, settled>>
workVars == <<up, stopping, polled, batch, out, learner, parses>>
sentVars == <<sent, shown, times>>
cutVars == <<kicked, cut>>
vars == <<log, groupVars, workVars, sentVars, cutVars, events>>

-----------------------------------------------------------------------------
(* TemplateLearner and extract().                                          *)

NewLearner ==
  [pages |-> [h \in Hosts |-> 0], seen |-> [h \in Hosts |-> [t \in Texts |-> 0]]]

IsTemplate(l, h, t) ==
  /\ l.pages[h] >= MinPages
  /\ 100 * l.seen[h][t] >= RepeatPercent * l.pages[h]

\* Faulty variant: a block counts as often as the page has it.
ObserveOccurrences(l, h, blocks) ==
  [pages |-> [l.pages EXCEPT ![h] = @ + 1],
   seen |-> [l.seen EXCEPT ![h] =
               [t \in Texts |-> @[t] + Cardinality({i \in DOMAIN blocks : blocks[i] = t})]]]

\* observe: once per page, not per occurrence.
Observe(l, h, blocks) ==
  [pages |-> [l.pages EXCEPT ![h] = @ + 1],
   seen |-> [l.seen EXCEPT ![h] =
               [t \in Texts |-> @[t] + (IF t \in ToSet(blocks) THEN 1 ELSE 0)]]]

\* The characters of the blocks at some places of a page.
Length(blocks, places) ==
  LET upTo[n \in 0 .. Len(blocks)] ==
        IF n = 0 THEN 0
        ELSE upTo[n - 1] + (IF n \in places THEN Chars[blocks[n]] ELSE 0)
  IN  upTo[Len(blocks)]

\* visible_chars: what a page shows, chrome included.
Visible(g) == Length(VisibleOf[g], DOMAIN VisibleOf[g])

\* The blocks that are left, by their places, joined by newlines.
Retained(g, kept) ==
  IF kept = {} THEN 0 ELSE Length(BlocksOf[g], kept) + Cardinality(kept) - 1

\* subtract, and the fallback for a page that has lost nearly all of its text: the
\* places of the blocks that make up the text.
Extract(l, h, g) ==
  LET kept == {i \in DOMAIN BlocksOf[g] : /\ BlocksOf[g][i] \in ContentOf[g]
                                          /\ ~IsTemplate(l, h, BlocksOf[g][i])}
      fallback == {i \in DOMAIN VisibleOf[g] : VisibleOf[g][i] \in Substantial}
  IN  IF /\ Visible(g) >= MinChars /\ Retained(g, kept) < MinChars
         /\ 100 * Retained(g, kept) < MinPercent * Visible(g)
         /\ Length(VisibleOf[g], fallback) > Retained(g, kept)
      THEN fallback ELSE kept

-----------------------------------------------------------------------------
Message(m) == log[m[1]][m[2]]
HasBody(m) == Message(m).page # None

\* The steps of _publish, one per emit.
Output(topic, what) == [topic |-> topic, what |-> what]

Outputs(g, text) ==
  (IF g \notin NoIndex /\ text # {} THEN <<Output("parsed", g)>> ELSE <<>>) \o
  (IF g \in NoFollow THEN <<>>
   ELSE [i \in 1 .. Cardinality(Vouched[g]) |-> Output("links", SetToSeq(Vouched[g])[i])] \o
        [i \in 1 .. Cardinality(LinksOf[g]) |-> Output("discovered", SetToSeq(LinksOf[g])[i])])

\* What is published whatever the learner has seen.
Sure(g) ==
  /\ g \notin Rejected \cup Broken \cup NoIndex
  /\ Visible(g) >= MinChars
  /\ ToSet(VisibleOf[g]) \cap Substantial # {}

Ids == UNION {{p} \X DOMAIN log[p] : p \in Partitions}
OutputTypes == [topic : {"parsed"}, what : Pages] \cup
               [topic : {"links", "discovered"}, what : Targets]

Learners == [pages : [Hosts -> Nat], seen : [Hosts -> [Texts -> Nat]]]

\* What the group, the processes and the topics hold: a position is never behind
\* what is committed nor beyond the log, a batch is of messages that exist, and
\* only a process that runs has something to emit.
TypeOK ==
  /\ log \in Logs
  /\ committed \in [Partitions -> Nat] /\ pos \in [Partitions -> Nat]
  /\ \A p \in Partitions : committed[p] <= pos[p] /\ pos[p] <= Len(log[p])
  /\ owner \in [Partitions -> Workers \cup {None}] /\ settled \in BOOLEAN
  /\ up \subseteq Workers /\ stopping \subseteq up
  /\ polled \in [Workers -> SUBSET Partitions]
  /\ batch \in [Workers -> Seq(Ids)]
  /\ out \in [Workers -> Seq(OutputTypes)]
  /\ \A w \in Workers : out[w] # <<>> => batch[w] # <<>> /\ w \in up
  /\ learner \in [Workers -> Learners]
  /\ sent \subseteq OutputTypes
  /\ shown \in [Urls -> Nat]
  /\ times \in [Ids -> Nat]
  /\ parses \in [Workers -> [Urls -> Nat]]
  /\ kicked \subseteq Partitions /\ cut \in [Partitions -> Nat] /\ events \in Nat

\* The workers have started, and the group has met.
Init ==
  /\ log \in Logs
  /\ committed = [p \in Partitions |-> 0]
  /\ owner \in [Partitions -> Workers]
  /\ pos = [p \in Partitions |-> 0]
  /\ settled = TRUE
  /\ up = Workers
  /\ stopping = {}
  /\ polled = [w \in Workers |-> {}]
  /\ batch = [w \in Workers |-> <<>>]
  /\ out = [w \in Workers |-> <<>>]
  /\ learner = [w \in Workers |-> NewLearner]
  /\ sent = {}
  /\ shown = [u \in Urls |-> 0]
  /\ times = [m \in Ids |-> 0]
  /\ parses = [w \in Workers |-> [u \in Urls |-> 0]]
  /\ kicked = {}
  /\ cut = [p \in Partitions |-> 0]
  /\ events = 0

-----------------------------------------------------------------------------
(* The group coordinator.                                                  *)

\* A process reads its partitions in common batches, so a page that can never be
\* read may keep the messages of all of them from being committed.
Poisoned == \E m \in Ids : HasBody(m) /\ Message(m).page \in Unreadable

\* The batches of some partitions are cut; with a page that can never be read that
\* goes on for ever and is not counted.
Cut(S) == cut' = IF Poisoned THEN cut
                 ELSE [p \in Partitions |-> IF p \in S THEN cut[p] + 1 ELSE cut[p]]

\* The members that run share the partitions out anew, and all of them read on from
\* what is committed: a worker with a batch in hand goes on with it unaware, and the
\* commit after it finds no position to move.
Regroup ==
  /\ owner' \in [Partitions -> up]
  /\ pos' = committed
  /\ settled' = TRUE
  /\ kicked' = kicked \cup {p \in Partitions : \E w \in Workers \ {owner'[p]} :
                               \E m \in ToSet(batch[w]) : m[1] = p}
  /\ Cut(UNION {polled[w] : w \in Workers})
  /\ polled' = [w \in Workers |-> {}]
  /\ UNCHANGED <<log, committed, up, stopping, batch, out, learner, parses, sentVars>>

\* A member came or went.
Settle == ~settled /\ Regroup /\ UNCHANGED events

\* A member took longer than max_poll_interval_ms for a batch, and joins again.
Rejoin ==
  /\ events < MaxEvents /\ events' = events + 1
  /\ Regroup

-----------------------------------------------------------------------------
(* A process comes and goes.                                               *)

\* Its partitions are free, its batch and its learner gone.
Leave(w) ==
  /\ settled' = FALSE
  /\ up' = up \ {w}
  /\ stopping' = stopping \ {w}
  /\ owner' = [p \in Partitions |-> IF owner[p] = w THEN None ELSE owner[p]]
  /\ polled' = [polled EXCEPT ![w] = {}]
  /\ batch' = [batch EXCEPT ![w] = <<>>]
  /\ out' = [out EXCEPT ![w] = <<>>]
  /\ learner' = [learner EXCEPT ![w] = NewLearner]
  /\ parses' = [parses EXCEPT ![w] = [u \in Urls |-> 0]]

\* A crash, a blob store that does not answer, an emit or a commit that raises.
Die(w) ==
  /\ w \in up /\ events < MaxEvents
  /\ Cut(polled[w])
  /\ Leave(w)
  /\ events' = events + 1
  /\ UNCHANGED <<log, committed, pos, sentVars, kicked>>

Start(w) ==
  /\ w \notin up
  /\ up' = up \cup {w}
  /\ settled' = FALSE
  /\ UNCHANGED <<log, committed, owner, pos, stopping, polled, batch, out, learner,
                 parses, sentVars, cutVars, events>>

\* SIGTERM: worker.stop().
Stop(w) ==
  /\ w \in up \ stopping /\ events < MaxEvents
  /\ stopping' = stopping \cup {w}
  /\ events' = events + 1
  /\ UNCHANGED <<log, groupVars, up, polled, batch, out, learner, parses,
                 sentVars, cutVars>>

-----------------------------------------------------------------------------
(* run() and handle().                                                     *)

Idle(w) == w \in up /\ polled[w] = {} /\ batch[w] = <<>>

\* Faulty variant: by URL, the newest first.
BeforeBackwards(m, n) ==
  LET a == UrlRank[Message(m).url]
      b == UrlRank[Message(n).url]
  IN  a < b \/ (a = b /\ m[2] > n[2])

\* Messages of a partition are sorted by URL, those of one URL in the order of the
\* log: sorted() is stable.
Before(m, n) ==
  LET a == UrlRank[Message(m).url]
      b == UrlRank[Message(n).url]
  IN  a < b \/ (a = b /\ m[2] < n[2])

\* A batch is handled one partition after the other.
Ordered(b) ==
  \A i, j \in DOMAIN b :
    i < j => IF b[i][1] = b[j][1] THEN Before(b[i], b[j])
             ELSE \A k \in j .. Len(b) : b[k][1] # b[i][1]

\* getmany: up to max_records of what the partitions of the worker have.
Poll(w) ==
  /\ Idle(w) /\ w \notin stopping
  /\ \E take \in [{p \in Partitions : owner[p] = w} -> 0 .. MaxRecords] :
       LET new == UNION {{p} \X (pos[p] + 1 .. pos[p] + take[p]) : p \in DOMAIN take}
       IN  /\ new # {} /\ new \subseteq Ids
           /\ \E b \in SeqOf(new, MaxRecords) :
                ToSet(b) = new /\ Ordered(b) /\ batch' = [batch EXCEPT ![w] = b]
           /\ pos' = [p \in Partitions |->
                        IF owner[p] = w THEN pos[p] + take[p] ELSE pos[p]]
           /\ polled' = [polled EXCEPT ![w] = {p \in DOMAIN take : take[p] > 0}]
  /\ UNCHANGED <<log, committed, owner, settled, up, stopping, out, learner, parses,
                 sentVars, cutVars, events>>

\* getmany waits its second in vain.
PollNothing(w) ==
  /\ Idle(w) /\ w \notin stopping
  /\ \A p \in Partitions : owner[p] = w => pos[p] = Len(log[p])
  /\ UNCHANGED vars

\* The message at the head of the batch is dealt with.
Over(w) ==
  /\ batch' = [batch EXCEPT ![w] = Tail(@)]
  /\ times' = IF Poisoned THEN times ELSE [times EXCEPT ![Head(batch[w])] = @ + 1]

Ready(w) == w \in up /\ batch[w] # <<>> /\ out[w] = <<>>

\* Faulty variant: a page that is refused is tried again.
RejectRetried(w) ==
  /\ Ready(w)
  /\ HasBody(Head(batch[w])) => Message(Head(batch[w])).page \in Rejected
  /\ IF HasBody(Head(batch[w])) THEN UNCHANGED <<batch, times>> ELSE Over(w)
  /\ UNCHANGED <<log, groupVars, up, stopping, polled, out, learner, parses,
                 sent, shown, cutVars, events>>

\* A 304, a tombstone or a page the parser refuses: nothing to publish.
Reject(w) ==
  /\ Ready(w)
  /\ HasBody(Head(batch[w])) => Message(Head(batch[w])).page \in Rejected
  /\ Over(w)
  /\ UNCHANGED <<log, groupVars, up, stopping, polled, out, learner, parses,
                 sent, shown, cutVars, events>>

\* blobs.get raises out of run(), this time and every time the message is read.
Unread(w) ==
  /\ Ready(w) /\ HasBody(Head(batch[w]))
  /\ Message(Head(batch[w])).page \in Unreadable
  /\ Leave(w)
  /\ UNCHANGED <<log, committed, pos, sentVars, cutVars, events>>

\* Bound: what stands before a page that can never be read is replayed for ever, and
\* a process does not learn it more often than that.
LearntEnough(w, u) == Poisoned /\ parses[w][u] > MaxEvents

\* blobs.get and parse(), which asks the learner before it teaches it; an
\* exception after that is logged and the page dropped.
Parse(w) ==
  /\ Ready(w) /\ HasBody(Head(batch[w]))
  /\ LET m == Message(Head(batch[w]))
         h == HostOf[m.url]
         outputs == IF m.page \in Broken THEN <<>>
                    ELSE Outputs(m.page, Extract(learner[w], h, m.page))
     IN  /\ m.page \notin Rejected \cup Unreadable
         /\ IF LearntEnough(w, m.url) THEN UNCHANGED <<learner, parses>>
            ELSE /\ learner' = [learner EXCEPT ![w] = Observe(@, h, BlocksOf[m.page])]
                 /\ parses' = [parses EXCEPT ![w][m.url] = @ + 1]
         /\ out' = [out EXCEPT ![w] = outputs]
         /\ IF outputs = <<>> THEN Over(w) ELSE UNCHANGED <<batch, times>>
  /\ UNCHANGED <<log, groupVars, up, stopping, polled, sent, shown, cutVars,
                 events>>

\* One send_and_wait of _publish.
Emit(w) ==
  /\ out[w] # <<>>
  /\ LET m == Head(batch[w])
         o == Head(out[w])
     IN  /\ sent' = sent \cup {o}
         /\ shown' = IF o.topic = "parsed"
                     THEN [shown EXCEPT ![UrlOf[o.what]] = m[2]] ELSE shown
  /\ out' = [out EXCEPT ![w] = Tail(@)]
  /\ IF Len(out[w]) = 1 THEN Over(w) ELSE UNCHANGED <<batch, times>>
  /\ UNCHANGED <<log, groupVars, up, stopping, polled, learner, parses, cutVars,
                 events>>

\* Faulty variant: the offsets are committed with the batch still to handle.
CommitAtOnce(w) ==
  /\ polled[w] # {}
  /\ committed' = [p \in Partitions |-> IF p \in polled[w] THEN pos[p] ELSE committed[p]]
  /\ polled' = [polled EXCEPT ![w] = {}]
  /\ UNCHANGED <<log, owner, pos, settled, up, stopping, batch, out, learner, parses,
                 sentVars, cutVars, events>>

\* commit(): the positions of what it polled, unless the group has met since.
Commit(w) ==
  /\ polled[w] # {} /\ batch[w] = <<>>
  /\ committed' = [p \in Partitions |-> IF p \in polled[w] THEN pos[p] ELSE committed[p]]
  /\ polled' = [polled EXCEPT ![w] = {}]
  /\ UNCHANGED <<log, owner, pos, settled, up, stopping, batch, out, learner, parses,
                 sentVars, cutVars, events>>

\* Faulty variant: the batch is left where it is.
QuitAtOnce(w) ==
  /\ w \in stopping
  /\ Leave(w)
  /\ UNCHANGED <<log, committed, pos, sentVars, cutVars, events>>

\* The loop looks at _stopping between batches.
Quit(w) ==
  /\ w \in stopping /\ Idle(w)
  /\ Leave(w)
  /\ UNCHANGED <<log, committed, pos, sentVars, cutVars, events>>

-----------------------------------------------------------------------------
Step(w) == Poll(w) \/ Reject(w) \/ Unread(w) \/ Parse(w) \/ Emit(w) \/ Commit(w) \/ Quit(w)

Next ==
  \/ Settle \/ Rejoin
  \/ \E w \in Workers : Step(w) \/ PollNothing(w) \/ Die(w) \/ Start(w) \/ Stop(w)

\* run() takes its steps, the group meets once its members have changed, and a
\* process that ended is started again.
Fairness ==
  /\ \A w \in Workers : WF_vars(Step(w)) /\ WF_vars(Start(w))
  /\ WF_vars(Settle)

Spec == Init /\ [][Next]_vars
FairSpec == Spec /\ Fairness

-----------------------------------------------------------------------------
(* What holds.                                                             *)

\* "commit AFTER the side effect": what a committed message was to publish has
\* been published, whatever process read it, died over it or lost it meanwhile; so
\* nothing is committed past a page that could not be read.
CommittedIsPublished ==
  \A p \in Partitions : \A i \in 1 .. committed[p] :
    LET g == log[p][i].page
    IN  g # None /\ g \notin Rejected \cup Broken =>
          /\ Sure(g) => Output("parsed", g) \in sent
          /\ g \notin NoFollow =>
               /\ \A u \in Vouched[g] : Output("links", u) \in sent
               /\ \A u \in LinksOf[g] : Output("discovered", u) \in sent

\* Once the messages of a URL are committed, the version that was published last
\* is the newest that always has text: batches, replays after a death and the
\* learner leave no older one on top, unless the group gave the partition to
\* another worker while one still had messages of it to handle.
NewestOnTop ==
  \A u \in Urls :
    LET p == PartitionOf[u]
    IN  p \in kicked \/
        \A i \in 1 .. committed[p] :
          LET m == log[p][i]
          IN  m.url = u /\ m.page # None /\ Sure(m.page) => shown[u] >= i

\* A message is handled again only if a batch of its partition was cut: its worker
\* died, or the group met, before the commit.  A stop loses no finished work, and a
\* meeting of the group repeats only what was read and not committed.
ReplaysNeedFailures ==
  ~Poisoned => \A m \in Ids : times[m] <= 1 + cut[m[1]]

\* Text that only one page address has is taken for a template of its host only
\* if this process has parsed that address often enough to make up the share by
\* itself: pages of other hosts and repetitions within a page do not count.
OwnTextNeedsRepeats ==
  \A w \in Workers, u \in Urls, t \in Texts :
    /\ \E g \in Pages : UrlOf[g] = u /\ t \in ToSet(BlocksOf[g])
    /\ \A g \in Pages : t \in ToSet(BlocksOf[g]) => UrlOf[g] = u
    /\ IsTemplate(learner[w], HostOf[u], t)
    => 100 * parses[w][u] >= RepeatPercent * MinPages

\* Every message is committed in the end, if processes die and rejoin only
\* so often and every blob is there: no page stops the pipeline.
EventuallyCommitted ==
  \A p \in Partitions : <>(Poisoned \/ committed[p] = Len(log[p]))
=============================================================================
