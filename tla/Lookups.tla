------------------------------- MODULE Lookups -------------------------------
(***************************************************************************)
(* What a hop of a fetch looks up before it may ask for a token: the       *)
(* address of the host in the DNS cache of the process, then the rules of  *)
(* the origin in the process, in Redis and on the site.                    *)
(*                                                                         *)
(* One host and its origin: the caches are keyed by them.  All lookups run *)
(* under the total timeout of their fetch, which cancels whatever it is    *)
(* waiting for.  A stamp is kept as the time since, an expiry as the time  *)
(* left.                                                                   *)
(***************************************************************************)
EXTENDS Integers, FiniteSets

CONSTANTS
  Slots,              \* coroutines in _gate at a time
  Processes,
  Layouts,            \* which slots may belong to which process
  None,
  Replies,            \* what the site may answer for robots.txt
  DnsTtl,             \* max(ttl_seconds, ttl_floor_seconds)
  DnsNegativeTtl,     \* dns.negative_ttl_seconds
  DnsTimeout,         \* dns.timeout
  RobotsTtl,          \* robots.ttl_seconds
  RobotsNegativeTtl,  \* robots.negative_ttl_seconds
  TotalTimeout        \* fetch.total_timeout

ASSUME LayoutsType == Layouts \subseteq [Slots -> Processes]
ASSUME NoneDiffers == None \notin Slots \cup Processes
ASSUME RepliesType == Replies \subseteq {"open", "closed", "missing", "refused", "error"}
ASSUME TimesType ==
  {DnsTtl, DnsNegativeTtl, DnsTimeout, RobotsTtl, RobotsNegativeTtl, TotalTimeout}
    \subseteq Nat \ {0}

VARIABLES
  dns,       \* _cache: the host's entry, none when it has expired
  inflight,  \* _inflight: the coroutine whose future is registered
  local,     \* _local: the origin's rules, none when they are stale
  shared,    \* robots:{origin} in Redis
  pc,        \* where a coroutine is
  home,      \* the process it runs in, always the same
  age,       \* the time since its fetch started
  since,     \* the time since the `now` of its lookup or fetch
  held,      \* the rules it was given, by the site or by Redis
  used       \* history: the rules the last step let a URL be judged by

dnsVars == <<dns, inflight>>
robotsVars == <<local, shared>>
slotVars == <<pc, age, since, held>>
vars == <<dnsVars, robotsVars, slotVars, home, used>>

Places == {"idle", "leading", "waiting", "orphaned", "resolved", "asking", "answered",
           "fetching", "saving", "saved"}

Init ==
  /\ dns = [p \in Processes |-> None]
  /\ inflight = [p \in Processes |-> None]
  /\ local = [p \in Processes |-> None]
  /\ shared = None
  /\ pc = [s \in Slots |-> "idle"]
  /\ home \in Layouts
  /\ age = [s \in Slots |-> 0]
  /\ since = [s \in Slots |-> 0]
  /\ held = [s \in Slots |-> None]
  /\ used = None

Busy(s) == pc[s] # "idle"

\* Coroutines that end, those in S.
End(S) ==
  /\ age' = [s \in Slots |-> IF s \in S THEN 0 ELSE age[s]]
  /\ since' = [s \in Slots |-> IF s \in S THEN 0 ELSE since[s]]
  /\ held' = [s \in Slots |-> IF s \in S THEN None ELSE held[s]]

Goes(s, place) ==
  /\ pc' = [pc EXCEPT ![s] = place]
  /\ UNCHANGED <<age, since, held>>
  /\ used' = None

-----------------------------------------------------------------------------
(* DNSCache.resolve_all.                                                   *)

\* The gate of a hop; a later hop has used up a part of the fetch's
\* time.  A name that is known not to resolve ends it at once, DNS_FAILED.
Resolve(s) ==
  LET p == home[s]
      place == IF dns[p] # None THEN "resolved"
               ELSE IF inflight[p] # None THEN "waiting" ELSE "leading"
  IN  /\ ~Busy(s)
      /\ dns[p] # None => dns[p].ok
      /\ pc' = [pc EXCEPT ![s] = place]
      /\ \E a \in 0 .. TotalTimeout - 1 : age' = [age EXCEPT ![s] = a]
      /\ inflight' = [inflight EXCEPT ![p] = IF place = "leading" THEN s ELSE @]
      /\ used' = None
      /\ UNCHANGED <<dns, robotsVars, since, held, home>>

\* Those that wait for the future of s.
Waiting(s) == {w \in Slots : pc[w] = "waiting" /\ inflight[home[w]] = s}

\* The entry's life counts from the start of the lookup.
Entry(s, ok) ==
  LET left == (IF ok THEN DnsTtl ELSE DnsNegativeTtl) - since[s]
  IN  IF left > 0 THEN [ok |-> ok, left |-> left] ELSE None

\* Faulty variant: the future stays registered.
NotPopped(s) == inflight

Pop(s) == [inflight EXCEPT ![home[s]] = None]

\* The lookup returned, failed or timed out: the future is resolved either way, and
\* those that wait for it go on or end.
Answer(s, ok) ==
  LET woken == Waiting(s) \cup {s}
  IN  /\ pc[s] = "leading"
      /\ dns' = [dns EXCEPT ![home[s]] = Entry(s, ok)]
      /\ inflight' = Pop(s)
      /\ pc' = [w \in Slots |-> IF w \notin woken THEN pc[w]
                                ELSE IF ok THEN "resolved" ELSE "idle"]
      /\ IF ok THEN since' = [since EXCEPT ![s] = 0] /\ UNCHANGED <<age, held>>
         ELSE End(woken)
      /\ used' = None
      /\ UNCHANGED <<robotsVars, home>>

-----------------------------------------------------------------------------
(* RobotsCache.get.                                                        *)

\* _fetch: anything but a 2xx, 404 or 410 means that nothing may be fetched.
RulesOf(reply) ==
  [reachable |-> reply \in {"open", "closed", "missing"},
   allows |-> reply \in {"open", "missing"}]

\* Faulty variant: one lifetime for all.
AnyTtl(rules) == RobotsTtl

Ttl(rules) == IF rules.reachable THEN RobotsTtl ELSE RobotsNegativeTtl

\* The rules and how long ago the site was asked for them.
Given(entry) == [rules |-> entry.rules, seen |-> entry.seen]

\* can_fetch has its rules; the gate goes on without the caches.
Judge(s, given) ==
  /\ pc' = [pc EXCEPT ![s] = "idle"]
  /\ End({s})
  /\ used' = given

\* The process's rules, when they are not stale.
AskProcess(s) ==
  /\ pc[s] = "resolved"
  /\ IF local[home[s]] # None
     THEN Judge(s, Given(local[home[s]]))
     ELSE Goes(s, "asking")
  /\ UNCHANGED <<dnsVars, robotsVars, home>>

\* Redis looks the key up; its answer is still under way.
AskRedis(s) ==
  /\ pc[s] = "asking"
  /\ held' = [held EXCEPT ![s] = IF shared = None THEN None ELSE Given(shared)]
  /\ pc' = [pc EXCEPT ![s] = "answered"]
  /\ used' = None
  /\ UNCHANGED <<dnsVars, robotsVars, age, since, home>>

\* The answer is here: rules start a new life in the process, however long it took.
RedisAnswers(s) ==
  /\ pc[s] = "answered"
  /\ IF held[s] # None
     THEN /\ local' = [local EXCEPT ![home[s]] =
                         [rules |-> held[s].rules, seen |-> held[s].seen, age |-> 0]]
          /\ Judge(s, held[s])
     ELSE Goes(s, "fetching") /\ UNCHANGED local
  /\ UNCHANGED <<dnsVars, shared, home>>

\* _fetch returns; fetched_at is when it started.
Fetched(s) ==
  LET entry(reply) == [rules |-> RulesOf(reply), seen |-> since[s], age |-> since[s]]
      stale(e) == e.age > Ttl(e.rules)
  IN  /\ pc[s] = "fetching"
      /\ \E reply \in Replies :
           /\ local' = [local EXCEPT ![home[s]] =
                          IF stale(entry(reply)) THEN None ELSE entry(reply)]
           /\ held' = [held EXCEPT ![s] = Given(entry(reply))]
      /\ pc' = [pc EXCEPT ![s] = "saving"]
      /\ since' = [since EXCEPT ![s] = 0]
      /\ used' = None
      /\ UNCHANGED <<dnsVars, shared, age, home>>

\* SET with EX; its answer is still under way.
Save(s) ==
  /\ pc[s] = "saving"
  /\ shared' = [rules |-> held[s].rules, seen |-> held[s].seen, left |-> Ttl(held[s].rules)]
  /\ Goes(s, "saved")
  /\ UNCHANGED <<dnsVars, local, home>>

\* get() returns the rules it has saved.
Saved(s) ==
  /\ pc[s] = "saved"
  /\ Judge(s, held[s])
  /\ UNCHANGED <<dnsVars, robotsVars, home>>

-----------------------------------------------------------------------------
\* Faulty variant: the time spent waiting for another's lookup does not count.
FollowerUntimed(s) == pc[s] \notin {"idle", "waiting", "orphaned"} /\ age[s] = TotalTimeout

Overdue(s) == Busy(s) /\ age[s] = TotalTimeout

\* The total timeout of the fetch.  A leader that is cancelled takes its future out
\* of the map and never resolves it: CancelledError is no Exception.
Expire(s) ==
  /\ Overdue(s)
  /\ pc' = [w \in Slots |-> IF w = s THEN "idle"
                            ELSE IF w \in Waiting(s) THEN "orphaned" ELSE pc[w]]
  /\ inflight' = IF pc[s] = "leading" THEN Pop(s) ELSE inflight
  /\ End({s})
  /\ used' = None
  /\ UNCHANGED <<dns, robotsVars, home>>

\* A process that dies or is stopped and starts again; Redis keeps its key.
Restart(p) ==
  LET ended == {s \in Slots : home[s] = p}
  IN  /\ dns' = [dns EXCEPT ![p] = None]
      /\ inflight' = [inflight EXCEPT ![p] = None]
      /\ local' = [local EXCEPT ![p] = None]
      /\ pc' = [s \in Slots |-> IF s \in ended THEN "idle" ELSE pc[s]]
      /\ End(ended)
      /\ used' = None
      /\ UNCHANGED <<shared, home>>

Older(given) == [given EXCEPT !.seen = @ + 1]

\* Timers fire on time: no lookup outlives its timeout, no fetch its own.
Tick ==
  LET timed(s) == pc[s] \in {"leading", "fetching"}
      aged(e) == IF e = None \/ e.age = Ttl(e.rules) THEN None
                 ELSE [Older(e) EXCEPT !.age = @ + 1]
      left(e) == IF e = None \/ e.left = 1 THEN None ELSE [e EXCEPT !.left = @ - 1]
      expiring(e) == IF left(e) = None THEN None ELSE Older(left(e))
  IN  /\ \A s \in Slots : ~Overdue(s)
      /\ \A s \in Slots : pc[s] = "leading" => since[s] < DnsTimeout
      /\ age' = [s \in Slots |-> IF Busy(s) /\ age[s] < TotalTimeout THEN age[s] + 1 ELSE age[s]]
      /\ since' = [s \in Slots |-> IF timed(s) THEN since[s] + 1 ELSE since[s]]
      /\ dns' = [p \in Processes |-> left(dns[p])]
      /\ local' = [p \in Processes |-> aged(local[p])]
      /\ shared' = expiring(shared)
      /\ held' = [s \in Slots |-> IF held[s] = None THEN None ELSE Older(held[s])]
      /\ used' = None
      /\ UNCHANGED <<inflight, pc, home>>

Step(s) ==
  \/ \E ok \in BOOLEAN : Answer(s, ok)
  \/ AskProcess(s)
  \/ AskRedis(s)
  \/ RedisAnswers(s)
  \/ Fetched(s)
  \/ Save(s)
  \/ Saved(s)
  \/ Expire(s)

Next ==
  \/ \E s \in Slots : Resolve(s) \/ Step(s)
  \/ \E p \in Processes : Restart(p)
  \/ Tick

\* Timers fire and the loop runs what is ready; nothing makes a site answer, a new
\* fetch start or a process die.
FairSpec ==
  /\ Init /\ [][Next]_vars
  /\ WF_vars(Tick)
  /\ \A s \in Slots : WF_vars(Expire(s))
  /\ \A s \in Slots : WF_vars(since[s] = DnsTimeout /\ Answer(s, FALSE))

-----------------------------------------------------------------------------
\* Concurrent lookups of a host are one query: whoever waits for a future waits for
\* a coroutine that is still looking up, unless that one was cancelled (dns.py:59).
CollapsedLookups ==
  /\ \A s \in Slots : pc[s] = "waiting" =>
       inflight[home[s]] # None /\ pc[inflight[home[s]]] = "leading"
  /\ \A s, w \in Slots : pc[s] = "leading" /\ pc[w] = "leading" /\ home[s] = home[w] => s = w

\* Rules live in Redis and then in a process, whose stamp is that of the answer
\* (robots.py:130): a URL is judged by what the site was asked for less than two
\* lifetimes and two fetches ago, the one that saved it and one that waited for Redis,
\* and a site that could not be asked is closed for no longer than its own, shorter
\* lifetime makes of that (robots.py:107).
RulesLiveTwice ==
  used # None =>
    used.seen < 2 * TotalTimeout + 2 * (IF used.rules.reachable THEN RobotsTtl
                                        ELSE RobotsNegativeTtl)

\* Every gate ends, that of a coroutine whose leader was cancelled too (dns.py:59).
GateEnds == \A s \in Slots : Busy(s) ~> ~Busy(s)
=============================================================================
