----------------------------- MODULE Politeness -----------------------------
(***************************************************************************)
(* Politeness: the rate state, the pause key and the paired token buckets  *)
(* of a domain and an IP, the gate every page request passes, and what its *)
(* answer feeds back.  The requests for robots.txt that the gate itself    *)
(* makes are steps of their own: they are charged to nobody and wait for   *)
(* nothing, as in the code.                                                *)
(*                                                                         *)
(* The acquire and AIMD scripts are atomic; the rate an acquire call uses  *)
(* is read by an HGET before it, so it may be stale.  A bucket is refilled *)
(* only when it is charged, for the whole time since then and at the rate  *)
(* of that call.                                                           *)
(*                                                                         *)
(* Tokens and rates are whole units, Cost units to a request; a bucket's   *)
(* timestamp is kept as its age.                                           *)
(***************************************************************************)
EXTENDS Integers, FiniteSets

CONSTANTS
  Domains,
  Ips,
  Slots,         \* fetch coroutines, of any worker
  None,          \* no domain, no address
  Cost,          \* units per request
  Burst,         \* cfg.burst, in units
  IpFactor,      \* 3 in acquire()
  MinRate,       \* cfg.min_rate, in units per tick
  InitialRate,   \* cfg.initial_rate
  MaxRate,       \* cfg.max_rate
  Increase,      \* cfg.additive_increase
  Streak,        \* cfg.increase_after_ok
  BucketTTL,     \* cfg.bucket_ttl_seconds
  MaxPause,      \* cfg.max_retry_after_seconds
  RetryAfters,   \* the Retry-After values the hosts send, 0 for one that says nothing
  DefaultPause,  \* the 60 s of such an answer
  Ceilings       \* the rates the hosts' Crawl-delay asks for

Buckets == Domains \cup Ips

ASSUME KeysDiffer == Domains \cap Ips = {} /\ None \notin Domains \cup Ips
ASSUME RatesType ==
  /\ MinRate \in Nat \ {0} /\ InitialRate \in Nat /\ MaxRate \in Nat
  /\ MinRate <= InitialRate /\ InitialRate <= MaxRate
  /\ Increase \in Nat \ {0} /\ Streak \in Nat \ {0}
ASSUME SizesType ==
  /\ Cost \in Nat \ {0} /\ Burst \in Nat /\ Cost <= Burst
  /\ IpFactor \in Nat \ {0}
  /\ {MaxPause, DefaultPause} \subseteq Nat \ {0}
  /\ RetryAfters \subseteq Nat
  /\ Ceilings \subseteq Nat \ {0}
\* A bucket is full before its key expires: 3600 s against 2 / 0.05 s.
ASSUME TTLOutlastsRefill == BucketTTL \in Nat /\ BucketTTL * MinRate >= Burst

VARIABLES
  rate,    \* hs:{domain} rate, which is the initial one while unset
  ok,      \* hs:{domain} ok, the answers of the healthy streak
  pause,   \* pause:{domain}, as the seconds it has left
  tokens,  \* rl:host:{domain} and rl:ip:{ip} tokens
  old,     \* the time since their ts
  pc,      \* where a slot is
  dom,     \* the domain of its request
  addr,    \* what the host's name resolved to in the gate it is passing
  mid,     \* the request is a later hop of a redirect chain
  seen,    \* the rate its acquire() read, or the ceiling it applies
  high,    \* history: a bucket that refills at MaxRate
  low      \* history: a bucket that refills at MinRate

stateVars == <<rate, ok>>
bucketVars == <<tokens, old, high, low>>
slotVars == <<pc, dom, addr, mid, seen>>
vars == <<stateVars, bucketVars, pause, slotVars>>

-----------------------------------------------------------------------------
Least(a, b) == IF a <= b THEN a ELSE b
Most(a, b) == IF a >= b THEN a ELSE b

Places ==
  {"idle", "dns", "robots", "ruled", "hset", "gate", "rated", "sleep", "again",
   "rerated", "inflight", "paused"}

\* The places of the gate at which the address is known.
Resolved == {"robots", "ruled", "hset", "gate", "rated", "sleep", "again", "rerated"}

\* What multiplies a domain's rate and burst in its bucket and in the IP's.
Factor(b) == IF b \in Ips THEN IpFactor ELSE 1
Cap(b) == Factor(b) * Burst

\* The rate stays between its floor and its ceiling, whoever writes it in what
\* order, and a bucket between empty and full (ratelimit.py).
TypeOK ==
  /\ rate \in [Domains -> MinRate .. MaxRate]
  /\ ok \in [Domains -> 0 .. Streak - 1]
  /\ pause \in [Domains -> 0 .. MaxPause]
  /\ tokens \in [Buckets -> Nat]
  /\ \A b \in Buckets : tokens[b] <= Cap(b)
  /\ old \in [Buckets -> 0 .. BucketTTL]
  /\ pc \in [Slots -> Places]
  /\ dom \in [Slots -> Domains \cup {None}]
  /\ \A s \in Slots : pc[s] # "idle" => dom[s] \in Domains
  /\ addr \in [Slots -> Ips \cup {None}]
  /\ \A s \in Slots : pc[s] \in Resolved <=> addr[s] \in Ips
  /\ mid \in [Slots -> BOOLEAN]
  /\ seen \in [Slots -> Nat]
  /\ \A s \in Slots : pc[s] \in {"rated", "rerated"} => seen[s] \in MinRate .. MaxRate
  /\ \A s \in Slots : pc[s] = "hset" => seen[s] >= MinRate
  /\ high \in [Buckets -> Int]
  /\ low \in [Buckets -> Int]

Init ==
  /\ rate = [d \in Domains |-> InitialRate]
  /\ ok = [d \in Domains |-> 0]
  /\ pause = [d \in Domains |-> 0]
  /\ tokens = [b \in Buckets |-> Cap(b)]
  /\ old = [b \in Buckets |-> 0]
  /\ pc = [s \in Slots |-> "idle"]
  /\ dom = [s \in Slots |-> None]
  /\ addr = [s \in Slots |-> None]
  /\ mid = [s \in Slots |-> FALSE]
  /\ seen = [s \in Slots |-> 0]
  /\ high = [b \in Buckets |-> Cap(b)]
  /\ low = [b \in Buckets |-> Cap(b)]

-----------------------------------------------------------------------------
(* The AIMD script.                                                        *)

\* md = 0.5: half the rate on an error, three quarters when slow.
Lowered(r, signal) ==
  Most(MinRate, IF signal = "err" THEN r \div 2 ELSE (3 * r) \div 4)

Record(d, signal) ==
  IF signal \in {"err", "slow"} THEN
    /\ rate' = [rate EXCEPT ![d] = Lowered(@, signal)]
    /\ ok' = [ok EXCEPT ![d] = 0]
  ELSE IF ok[d] + 1 >= Streak THEN
    /\ rate' = [rate EXCEPT ![d] = Least(MaxRate, @ + Increase)]
    /\ ok' = [ok EXCEPT ![d] = 0]
  ELSE
    /\ ok' = [ok EXCEPT ![d] = @ + 1]
    /\ UNCHANGED rate

-----------------------------------------------------------------------------
(* _gate, for one hop of a fetch.                                          *)

GoTo(s, place) == pc' = [pc EXCEPT ![s] = place]

\* A rate that has been used is forgotten.
Forget(s) == seen' = [seen EXCEPT ![s] = 0]

LeaveGate(s) == addr' = [addr EXCEPT ![s] = None]

End(s) ==
  /\ GoTo(s, "idle")
  /\ dom' = [dom EXCEPT ![s] = None]
  /\ mid' = [mid EXCEPT ![s] = FALSE]
  /\ LeaveGate(s)
  /\ Forget(s)

\* The gate, for a URL of domain d.
EnterGate(s, d) ==
  /\ dom' = [dom EXCEPT ![s] = d]
  /\ GoTo(s, "dns")

\* The first hop of a task's chain.
Begin(s, d) ==
  /\ pc[s] = "idle"
  /\ EnterGate(s, d)
  /\ UNCHANGED <<stateVars, bucketVars, pause, addr, mid, seen>>

\* The name does not resolve.
DnsFails(s) ==
  /\ pc[s] = "dns"
  /\ Record(dom[s], "err")
  /\ End(s)
  /\ UNCHANGED <<bucketVars, pause>>

\* The address the IP's bucket is that of: two hosts of a domain, and one host
\* at two times, may have two.
Resolve(s) ==
  /\ pc[s] = "dns"
  /\ \E i \in Ips : addr' = [addr EXCEPT ![s] = i]
  /\ GoTo(s, "robots")
  /\ UNCHANGED <<stateVars, bucketVars, pause, dom, mid, seen>>

\* No rules of the origin are at hand: a request to the host, and to where its
\* answers redirect, that takes no token and does not look at the pause.
AskRobots(s) ==
  /\ pc[s] = "robots"
  /\ GoTo(s, "ruled")
  /\ UNCHANGED <<stateVars, bucketVars, pause, dom, addr, mid, seen>>

\* The rules are cached or have been asked for.
RulesKnown(s) == pc[s] \in {"robots", "ruled"}

\* robots.txt forbids the URL or cannot be had.
RobotsForbid(s) ==
  /\ RulesKnown(s)
  /\ End(s)
  /\ UNCHANGED <<stateVars, bucketVars, pause>>

\* They declare no Crawl-delay.
NoCeiling(s) ==
  /\ RulesKnown(s)
  /\ GoTo(s, "gate")
  /\ UNCHANGED <<stateVars, bucketVars, pause, dom, addr, mid, seen>>

\* apply_rate_ceiling reads the rate; it writes the ceiling in a later step.
ReadCeiling(s) ==
  /\ RulesKnown(s)
  /\ \E c \in Ceilings :
       LET ceiling == Most(c, MinRate)
       IN  IF ceiling >= rate[dom[s]]
           THEN GoTo(s, "gate") /\ UNCHANGED seen
           ELSE GoTo(s, "hset") /\ seen' = [seen EXCEPT ![s] = ceiling]
  /\ UNCHANGED <<stateVars, bucketVars, pause, dom, addr, mid>>

SetCeiling(s) ==
  /\ pc[s] = "hset"
  /\ rate' = [rate EXCEPT ![dom[s]] = seen[s]]
  /\ GoTo(s, "gate")
  /\ Forget(s)
  /\ UNCHANGED <<ok, bucketVars, pause, dom, addr, mid>>

\* current_rate, at the start of acquire().
ReadRate(s) ==
  /\ pc[s] \in {"gate", "again"}
  /\ seen' = [seen EXCEPT ![s] = rate[dom[s]]]
  /\ GoTo(s, IF pc[s] = "gate" THEN "rated" ELSE "rerated")
  /\ UNCHANGED <<stateVars, bucketVars, pause, dom, addr, mid>>

\* peek() in the acquire script.
Peek(b, r) == Least(Cap(b), tokens[b] + old[b] * Factor(b) * r)

\* The bucket and its two references are charged for a request.
Charge(B, r) ==
  /\ tokens' = [b \in Buckets |-> IF b \in B THEN Peek(b, r) - Cost ELSE tokens[b]]
  /\ old' = [b \in Buckets |-> IF b \in B THEN 0 ELSE old[b]]

Counted(B) ==
  /\ high' = [b \in Buckets |-> IF b \in B THEN high[b] - Cost ELSE high[b]]
  /\ low' = [b \in Buckets |-> IF b \in B THEN Most(0, low[b] - Cost) ELSE low[b]]

\* Faulty variant: the address has no bucket.
KeysOfDomain(s) == {dom[s]}

Keys(s) == {dom[s], addr[s]}

Admit(s) ==
  /\ pc[s] \in {"rated", "rerated"}
  /\ pause[dom[s]] = 0
  /\ \A b \in Keys(s) : Peek(b, seen[s]) >= Cost
  /\ Charge(Keys(s), seen[s])
  /\ Counted({dom[s], addr[s]})
  /\ GoTo(s, "inflight")
  /\ LeaveGate(s)
  /\ mid' = [mid EXCEPT ![s] = FALSE]
  /\ Forget(s)
  /\ UNCHANGED <<stateVars, pause, dom>>

\* A later hop of a chain waits once for its token, unless paused or out of
\* time; anything else is RATE_LIMITED.
GiveUpOrSleep(s) ==
  \/ End(s)
  \/ /\ pc[s] = "rated" /\ mid[s] /\ pause[dom[s]] = 0
     /\ GoTo(s, "sleep")
     /\ Forget(s)
     /\ UNCHANGED <<dom, addr, mid>>

\* Faulty variant: the domain is charged before the IP denies.
DenyAfterCharge(s) ==
  /\ pc[s] \in {"rated", "rerated"}
  /\ pause[dom[s]] > 0 \/ \E b \in Keys(s) : Peek(b, seen[s]) < Cost
  /\ IF pause[dom[s]] = 0 /\ Peek(dom[s], seen[s]) >= Cost
     THEN Charge({dom[s]}, seen[s]) ELSE UNCHANGED <<tokens, old>>
  /\ GiveUpOrSleep(s)
  /\ UNCHANGED <<stateVars, high, low, pause>>

\* Paused or short of tokens, nothing is deducted.
Deny(s) ==
  /\ pc[s] \in {"rated", "rerated"}
  /\ pause[dom[s]] > 0 \/ \E b \in Keys(s) : Peek(b, seen[s]) < Cost
  /\ GiveUpOrSleep(s)
  /\ UNCHANGED <<stateVars, bucketVars, pause>>

Wake(s) ==
  /\ pc[s] = "sleep"
  /\ GoTo(s, "again")
  /\ UNCHANGED <<stateVars, bucketVars, pause, dom, addr, mid, seen>>

-----------------------------------------------------------------------------
(* The answer to a request.                                                *)

\* record()'s signals; record_outcome makes a slow one of a late success.
Signals == {"ok", "slow", "err"}

\* An answer that ends the chain, a redirect that cannot be followed included.
Answer(s, signal) ==
  /\ pc[s] = "inflight"
  /\ Record(dom[s], signal)
  /\ End(s)
  /\ UNCHANGED <<bucketVars, pause>>

\* A redirect to a URL that is not in the chain: the next hop passes the gate
\* of its own domain.
Redirected(s, d) ==
  /\ pc[s] = "inflight"
  /\ Record(dom[s], "ok")
  /\ EnterGate(s, d)
  /\ mid' = [mid EXCEPT ![s] = TRUE]
  /\ UNCHANGED <<bucketVars, pause, addr, seen>>

\* The seconds of a Retry-After; none, an unreadable one and a date that is
\* past say nothing.
Seconds(t) == IF t = 0 THEN DefaultPause ELSE t

\* 429 or 503: pause_host sets the key, over any that is there, and records
\* the error in a later step.
Throttled(s, t) ==
  /\ pc[s] = "inflight"
  /\ pause' = [pause EXCEPT ![dom[s]] = Most(1, Least(Seconds(t), MaxPause))]
  /\ GoTo(s, "paused")
  /\ UNCHANGED <<stateVars, bucketVars, dom, addr, mid, seen>>

RecordPause(s) ==
  /\ pc[s] = "paused"
  /\ Record(dom[s], "err")
  /\ End(s)
  /\ UNCHANGED <<bucketVars, pause>>

\* fetch()'s timeout, wherever the chain is: the error goes to the domain of
\* the task's URL, which a redirect may have left.
TimesOut(s) ==
  /\ pc[s] # "idle"
  /\ \E d \in Domains : Record(d, "err")
  /\ End(s)
  /\ UNCHANGED <<bucketVars, pause>>

\* An exception, a shutdown or a crash ends the coroutine where it is.
Abandon(s) ==
  /\ pc[s] # "idle"
  /\ End(s)
  /\ UNCHANGED <<stateVars, bucketVars, pause>>

-----------------------------------------------------------------------------
(* Time, which also lets keys expire.                                      *)

Expired(b) == old[b] >= BucketTTL

\* One tick.  An expired bucket is read as a full one of this instant.
Tick ==
  /\ tokens' = [b \in Buckets |-> IF Expired(b) THEN Cap(b) ELSE tokens[b]]
  /\ old' = [b \in Buckets |-> IF Expired(b) THEN 0 ELSE old[b] + 1]
  /\ pause' = [d \in Domains |-> Most(0, pause[d] - 1)]
  /\ high' = [b \in Buckets |-> Least(Cap(b), high[b] + Factor(b) * MaxRate)]
  /\ low' = [b \in Buckets |-> Least(Cap(b), low[b] + Factor(b) * MinRate)]
  /\ UNCHANGED <<stateVars, slotVars>>

\* The state hash of a host expires, and its rate is the initial one again.
StateExpires(d) ==
  /\ rate' = [rate EXCEPT ![d] = InitialRate]
  /\ ok' = [ok EXCEPT ![d] = 0]
  /\ UNCHANGED <<bucketVars, pause, slotVars>>

-----------------------------------------------------------------------------
Gate(s) ==
  \/ \E d \in Domains : Begin(s, d)
  \/ DnsFails(s) \/ Resolve(s) \/ AskRobots(s) \/ RobotsForbid(s)
  \/ NoCeiling(s) \/ ReadCeiling(s) \/ SetCeiling(s)
  \/ ReadRate(s) \/ Admit(s) \/ Deny(s) \/ Wake(s)

Answered(s) ==
  \/ \E signal \in Signals : Answer(s, signal)
  \/ \E d \in Domains : Redirected(s, d)
  \/ \E t \in RetryAfters : Throttled(s, t)
  \/ RecordPause(s) \/ TimesOut(s) \/ Abandon(s)

Next ==
  \/ \E s \in Slots : Gate(s) \/ Answered(s)
  \/ Tick
  \/ \E d \in Domains : StateExpires(d)

Spec == Init /\ [][Next]_vars

-----------------------------------------------------------------------------
(* What the buckets promise.                                               *)

\* Over no stretch of time are more pages asked of a domain, or charged to an
\* address, than its burst and max_rate allow: a reference bucket that refills
\* at max_rate covers every request that left the gate (ratelimit.py:162),
\* although the rate moves, is read before the script runs, refills a bucket in
\* retrospect, and a bucket's key may expire.  The gate's requests for
\* robots.txt come on top of it (AskRobots).
WithinMaxRate == \A b \in Buckets : high[b] >= 0

\* A host that is asked for no more than min_rate is not turned away for lack
\* of tokens: a bucket never holds less than one that refills at min_rate and
\* pays for sent requests only.  Denials leak no tokens.
GuaranteedRate ==
  \A b \in Buckets : Peek(b, MinRate) >= low[b]
=============================================================================
