-------------------------- MODULE PolitenessProofs --------------------------
(***************************************************************************)
(* Proofs about module Politeness, for any domains, addresses, coroutines, *)
(* rates, bursts and lifetimes that satisfy its assumptions.               *)
(***************************************************************************)
EXTENDS Politeness, TLAPS

-----------------------------------------------------------------------------
(* Arithmetic of the buckets.                                              *)

\* More time or a higher rate never refills less.
LEMMA MulMono ==
  ASSUME NEW t \in Nat, NEW q \in Nat, NEW r \in Nat, q <= r
  PROVE  t * q <= t * r
<1>1. t * (r - q) >= 0
  OBVIOUS
<1>2. t * (r - q) = t * r - t * q
  OBVIOUS
<1>3. t * r \in Nat /\ t * q \in Nat
  OBVIOUS
<1> QED BY <1>1, <1>2, <1>3

\* A bucket's size and what multiplies it.
LEMMA CapType ==
  ASSUME NEW b \in Buckets
  PROVE  /\ Factor(b) \in Nat \ {0} /\ Cap(b) \in Nat /\ Cap(b) >= Cost
         /\ Cap(b) = Factor(b) * Burst
<1>1. Factor(b) \in Nat \ {0}
  BY SizesType DEF Factor
<1>2. Factor(b) * Burst \in Nat
  BY <1>1, SizesType
<1>3. Factor(b) * Burst >= Burst
  <2>1. \A f \in Nat \ {0} : f * Burst >= Burst
    BY SizesType
  <2> QED BY <1>1, <2>1
<1> QED BY <1>1, <1>2, <1>3, SizesType DEF Cap

-----------------------------------------------------------------------------
(* Type correctness.  It needs that a ceiling that is about to be written  *)
(* was below a rate, and so is within the configured range.                *)

CeilingsInRange == \A s \in Slots : pc[s] = "hset" => seen[s] <= MaxRate

TypeInv == TypeOK /\ CeilingsInRange

\* Full buckets, initial rates and no requests are of the right type.
LEMMA TypeInit == Init => TypeInv
<1> SUFFICES ASSUME Init PROVE TypeInv
  OBVIOUS
<1>1. \A b \in Buckets : Cap(b) \in Nat
  BY CapType
<1>2. /\ rate \in [Domains -> MinRate .. MaxRate] /\ ok \in [Domains -> 0 .. Streak - 1]
      /\ pause \in [Domains -> 0 .. MaxPause]
  BY RatesType, SizesType DEF Init
<1>3. old \in [Buckets -> 0 .. BucketTTL]
  BY TTLOutlastsRefill DEF Init
<1>4. /\ mid \in [Slots -> BOOLEAN] /\ addr \in [Slots -> Ips \cup {None}]
      /\ \A s \in Slots : pc[s] \in Resolved <=> addr[s] \in Ips
  BY KeysDiffer DEF Init, Resolved
<1>5. /\ tokens \in [Buckets -> Nat] /\ high \in [Buckets -> Int] /\ low \in [Buckets -> Int]
      /\ \A b \in Buckets : tokens[b] <= Cap(b)
  BY <1>1 DEF Init
<1> QED BY <1>2, <1>3, <1>4, <1>5 DEF Init, TypeInv, TypeOK, CeilingsInRange, Places

\* The AIMD script leaves a rate between its floor and its ceiling.
LEMMA RecordType ==
  ASSUME NEW d \in Domains, NEW signal,
         rate \in [Domains -> MinRate .. MaxRate], ok \in [Domains -> 0 .. Streak - 1],
         Record(d, signal)
  PROVE  rate' \in [Domains -> MinRate .. MaxRate] /\ ok' \in [Domains -> 0 .. Streak - 1]
<1>1. ASSUME NEW r \in MinRate .. MaxRate PROVE Lowered(r, signal) \in MinRate .. MaxRate
  <2>1. r \in Nat /\ r \div 2 \in Nat /\ r \div 2 <= r
    BY RatesType
  <2>2. (3 * r) \div 4 \in Nat /\ (3 * r) \div 4 <= r
    BY RatesType
  <2> QED BY <2>1, <2>2, RatesType DEF Lowered, Most
<1>2. ASSUME NEW r \in MinRate .. MaxRate PROVE Least(MaxRate, r + Increase) \in MinRate .. MaxRate
  BY RatesType DEF Least
<1>3. 0 \in 0 .. Streak - 1
  BY RatesType
<1>4. CASE signal \in {"err", "slow"}
  BY <1>1, <1>3, <1>4 DEF Record
<1>5. CASE signal \notin {"err", "slow"} /\ ok[d] + 1 >= Streak
  BY <1>2, <1>3, <1>5 DEF Record
<1>6. CASE signal \notin {"err", "slow"} /\ ~(ok[d] + 1 >= Streak)
  <2>1. ok[d] + 1 \in 0 .. Streak - 1
    BY <1>6, RatesType
  <2> QED BY <1>6, <2>1 DEF Record
<1> QED BY <1>4, <1>5, <1>6

\* The slots and what each of them has read.
SlotType ==
  /\ pc \in [Slots -> Places]
  /\ dom \in [Slots -> Domains \cup {None}]
  /\ \A s \in Slots : pc[s] # "idle" => dom[s] \in Domains
  /\ addr \in [Slots -> Ips \cup {None}]
  /\ \A s \in Slots : pc[s] \in Resolved <=> addr[s] \in Ips
  /\ mid \in [Slots -> BOOLEAN]
  /\ seen \in [Slots -> Nat]
  /\ \A s \in Slots : pc[s] \in {"rated", "rerated", "hset"} => seen[s] \in MinRate .. MaxRate

StateType == rate \in [Domains -> MinRate .. MaxRate] /\ ok \in [Domains -> 0 .. Streak - 1]

BucketType ==
  /\ tokens \in [Buckets -> Nat]
  /\ \A b \in Buckets : tokens[b] <= Cap(b)
  /\ old \in [Buckets -> 0 .. BucketTTL]
  /\ high \in [Buckets -> Int]
  /\ low \in [Buckets -> Int]

PauseType == pause \in [Domains -> 0 .. MaxPause]

\* The parts make up the whole.
LEMMA TypeParts == TypeInv <=> SlotType /\ StateType /\ BucketType /\ PauseType
BY RatesType DEF TypeInv, TypeOK, CeilingsInRange, SlotType, StateType, BucketType, PauseType

\* A coroutine that ends leaves the slots well-typed.
LEMMA EndType ==
  ASSUME SlotType, NEW s \in Slots, End(s)
  PROVE  SlotType'
BY KeysDiffer DEF End, GoTo, LeaveGate, Forget, SlotType, Places, Resolved

\* What a bucket holds at some rate is between nothing and its size.
LEMMA PeekType ==
  ASSUME BucketType, NEW b \in Buckets, NEW r \in Nat
  PROVE  /\ Peek(b, r) \in Nat /\ Peek(b, r) <= Cap(b) /\ Peek(b, r) >= tokens[b]
         /\ old[b] * Factor(b) * r \in Nat
<1>1. old[b] \in Nat /\ tokens[b] \in Nat /\ tokens[b] <= Cap(b)
  BY TTLOutlastsRefill DEF BucketType
<1>2. old[b] * Factor(b) * r \in Nat
  BY <1>1, CapType
<1> QED BY <1>1, <1>2, CapType DEF Peek, Least

\* A charge that both buckets can pay leaves them between empty and full.
LEMMA AdmitType ==
  ASSUME TypeInv, NEW s \in Slots, Admit(s)
  PROVE  BucketType'
<1>0. SlotType /\ BucketType
  BY TypeParts
<1>1. seen[s] \in Nat
  BY <1>0 DEF SlotType
<1>2. \A b \in Buckets : Peek(b, seen[s]) \in Nat /\ Peek(b, seen[s]) <= Cap(b) /\ Cap(b) \in Nat
  BY <1>0, <1>1, PeekType, CapType
<1>3. \A b \in Buckets : b \in Keys(s) => Peek(b, seen[s]) - Cost \in Nat
  BY <1>2, SizesType DEF Admit
<1>4. tokens' \in [Buckets -> Nat] /\ \A b \in Buckets : tokens'[b] <= Cap(b)
  BY <1>0, <1>2, <1>3, SizesType DEF Admit, Charge, BucketType
<1>5. old' \in [Buckets -> 0 .. BucketTTL]
  BY <1>0, TTLOutlastsRefill DEF Admit, Charge, BucketType
<1>6. high' \in [Buckets -> Int] /\ low' \in [Buckets -> Int]
  BY <1>0, SizesType DEF Admit, Keys, Counted, Most, BucketType
<1> QED BY <1>4, <1>5, <1>6 DEF BucketType

\* So does a tick, expiry of the key included.
LEMMA TickType ==
  ASSUME TypeInv, Tick
  PROVE  BucketType' /\ PauseType'
<1>0. BucketType /\ PauseType
  BY TypeParts
<1>1. \A b \in Buckets : Cap(b) \in Nat /\ Factor(b) * MaxRate \in Nat /\ Factor(b) * MinRate \in Nat
  BY CapType, RatesType
<1>2. tokens' \in [Buckets -> Nat] /\ \A b \in Buckets : tokens'[b] <= Cap(b)
  BY <1>0, <1>1 DEF Tick, BucketType
<1>3. old' \in [Buckets -> 0 .. BucketTTL]
  BY <1>0, TTLOutlastsRefill DEF Tick, Expired, BucketType
<1>4. high' \in [Buckets -> Int] /\ low' \in [Buckets -> Int]
  BY <1>0, <1>1 DEF Tick, Least, BucketType
<1>5. PauseType'
  BY <1>0, SizesType DEF Tick, PauseType, Most
<1> QED BY <1>2, <1>3, <1>4, <1>5 DEF BucketType

\* Every step of a gate, an answer, an expiry or the clock keeps the types.
LEMMA TypeStep == TypeInv /\ [Next]_vars => TypeInv'
<1> SUFFICES ASSUME TypeInv, [Next]_vars PROVE TypeInv'
  OBVIOUS
<1>0. SlotType /\ StateType /\ BucketType /\ PauseType
  BY TypeParts
<1> DEFINE Goal == SlotType' /\ StateType' /\ BucketType' /\ PauseType'
<1>1. ASSUME NEW s \in Slots, NEW d \in Domains, Begin(s, d) PROVE Goal
  <2>1. SlotType'
    BY <1>0, <1>1 DEF Begin, EnterGate, GoTo, SlotType, Places, Resolved
  <2> QED BY <1>0, <1>1, <2>1 DEF Begin, stateVars, bucketVars, StateType, BucketType, PauseType
<1>2. ASSUME NEW s \in Slots, pc[s] # "idle", NEW d \in Domains, NEW signal, Record(d, signal),
             End(s), UNCHANGED <<bucketVars, pause>>
      PROVE  Goal
  <2>1. SlotType' /\ StateType'
    BY <1>0, <1>2, EndType, RecordType DEF StateType
  <2> QED BY <1>0, <1>2, <2>1 DEF bucketVars, BucketType, PauseType
<1>3. ASSUME NEW s \in Slots, DnsFails(s) \/ RecordPause(s) PROVE Goal
  <2>1. dom[s] \in Domains /\ pc[s] # "idle"
    BY <1>0, <1>3 DEF DnsFails, RecordPause, SlotType
  <2> QED BY <1>2, <1>3, <2>1 DEF DnsFails, RecordPause
<1>4. ASSUME NEW s \in Slots, NEW signal \in Signals, Answer(s, signal) PROVE Goal
  <2>1. dom[s] \in Domains /\ pc[s] # "idle"
    BY <1>0, <1>4 DEF Answer, SlotType
  <2> QED BY <1>2, <1>4, <2>1 DEF Answer
<1>5. ASSUME NEW s \in Slots, TimesOut(s) PROVE Goal
  BY <1>2, <1>5 DEF TimesOut
<1>6. ASSUME NEW s \in Slots, RobotsForbid(s) \/ Abandon(s) PROVE Goal
  <2>1. SlotType'
    BY <1>0, <1>6, EndType DEF RobotsForbid, RulesKnown, Abandon
  <2> QED BY <1>0, <1>6, <2>1 DEF RobotsForbid, Abandon, stateVars, bucketVars, StateType,
          BucketType, PauseType
<1>7. ASSUME NEW s \in Slots, ReadCeiling(s) PROVE Goal
  <2>1. rate[dom[s]] \in MinRate .. MaxRate
    BY <1>0, <1>7 DEF ReadCeiling, RulesKnown, SlotType, StateType
  <2>2. PICK c \in Ceilings :
          IF Most(c, MinRate) >= rate[dom[s]]
          THEN GoTo(s, "gate") /\ UNCHANGED seen
          ELSE GoTo(s, "hset") /\ seen' = [seen EXCEPT ![s] = Most(c, MinRate)]
    BY <1>7 DEF ReadCeiling
  <2>3. Most(c, MinRate) \in Nat /\ Most(c, MinRate) >= MinRate
    BY RatesType, SizesType DEF Most
  <2>4. SlotType'
    BY <1>0, <1>7, <2>1, <2>2, <2>3, RatesType DEF ReadCeiling, RulesKnown, GoTo, SlotType, Places, Resolved
  <2> QED BY <1>0, <1>7, <2>4 DEF ReadCeiling, stateVars, bucketVars, StateType, BucketType,
          PauseType
<1>8. ASSUME NEW s \in Slots, SetCeiling(s) PROVE Goal
  <2>1. seen[s] \in MinRate .. MaxRate /\ dom[s] \in Domains
    BY <1>0, <1>8 DEF SetCeiling, SlotType
  <2>2. StateType'
    BY <1>0, <1>8, <2>1 DEF SetCeiling, StateType
  <2>3. SlotType'
    BY <1>0, <1>8 DEF SetCeiling, GoTo, Forget, SlotType, Places, Resolved
  <2> QED BY <1>0, <1>8, <2>2, <2>3 DEF SetCeiling, bucketVars, BucketType, PauseType
<1>9. ASSUME NEW s \in Slots, ReadRate(s) PROVE Goal
  <2>1. rate[dom[s]] \in MinRate .. MaxRate
    BY <1>0, <1>9 DEF ReadRate, SlotType, StateType
  <2>2. SlotType'
    BY <1>0, <1>9, <2>1, RatesType DEF ReadRate, GoTo, SlotType, Places, Resolved
  <2> QED BY <1>0, <1>9, <2>2 DEF ReadRate, stateVars, bucketVars, StateType, BucketType, PauseType
<1>10. ASSUME NEW s \in Slots, Admit(s) PROVE Goal
  <2>1. SlotType'
    BY <1>0, <1>10, KeysDiffer DEF Admit, GoTo, LeaveGate, Forget, SlotType, Places, Resolved
  <2> QED BY <1>0, <1>10, <2>1, AdmitType DEF Admit, stateVars, StateType, PauseType
<1>11. ASSUME NEW s \in Slots, Deny(s) PROVE Goal
  <2>1. CASE End(s)
    BY <1>0, <1>11, <2>1, EndType DEF Deny, stateVars, bucketVars, StateType, BucketType, PauseType
  <2>2. CASE /\ pc[s] = "rated" /\ GoTo(s, "sleep") /\ Forget(s) /\ UNCHANGED <<dom, addr, mid>>
    <3>1. SlotType'
      BY <1>0, <2>2 DEF GoTo, Forget, SlotType, Places, Resolved
    <3> QED BY <1>0, <1>11, <3>1 DEF Deny, stateVars, bucketVars, StateType, BucketType, PauseType
  <2> QED BY <1>11, <2>1, <2>2 DEF Deny, GiveUpOrSleep
<1>12. ASSUME NEW s \in Slots, Wake(s) PROVE Goal
  <2>1. SlotType'
    BY <1>0, <1>12 DEF Wake, GoTo, SlotType, Places, Resolved
  <2> QED BY <1>0, <1>12, <2>1 DEF Wake, stateVars, bucketVars, StateType, BucketType, PauseType
<1>13. ASSUME NEW s \in Slots, NEW d \in Domains, Redirected(s, d) PROVE Goal
  <2>1. StateType'
    BY <1>0, <1>13, RecordType DEF Redirected, SlotType, StateType
  <2>2. SlotType'
    BY <1>0, <1>13 DEF Redirected, EnterGate, GoTo, SlotType, Places, Resolved
  <2> QED BY <1>0, <1>13, <2>1, <2>2 DEF Redirected, bucketVars, BucketType, PauseType
<1>14. ASSUME NEW s \in Slots, NEW t \in RetryAfters, Throttled(s, t) PROVE Goal
  <2>1. Most(1, Least(Seconds(t), MaxPause)) \in 0 .. MaxPause
    BY SizesType DEF Most, Least, Seconds
  <2>2. PauseType'
    BY <1>0, <1>14, <2>1 DEF Throttled, PauseType
  <2>3. SlotType'
    BY <1>0, <1>14 DEF Throttled, GoTo, SlotType, Places, Resolved
  <2> QED BY <1>0, <1>14, <2>2, <2>3 DEF Throttled, stateVars, bucketVars, StateType, BucketType
<1>15. ASSUME Tick PROVE Goal
  BY <1>0, <1>15, TickType DEF Tick, stateVars, slotVars, StateType, SlotType
<1>16. ASSUME NEW d \in Domains, StateExpires(d) PROVE Goal
  <2>1. StateType'
    BY <1>0, <1>16, RatesType DEF StateExpires, StateType
  <2> QED BY <1>0, <1>16, <2>1 DEF StateExpires, bucketVars, slotVars, BucketType, SlotType, PauseType
<1>17. ASSUME UNCHANGED vars PROVE Goal
  BY <1>0, <1>17 DEF vars, stateVars, bucketVars, slotVars, StateType, BucketType, SlotType, PauseType
<1>18. ASSUME NEW s \in Slots, Resolve(s) PROVE Goal
  <2>1. PICK i \in Ips : addr' = [addr EXCEPT ![s] = i]
    BY <1>18 DEF Resolve
  <2>2. SlotType'
    BY <1>0, <1>18, <2>1 DEF Resolve, GoTo, SlotType, Places, Resolved
  <2> QED BY <1>0, <1>18, <2>2 DEF Resolve, stateVars, bucketVars, StateType, BucketType, PauseType
<1>19. ASSUME NEW s \in Slots, AskRobots(s) \/ NoCeiling(s) PROVE Goal
  <2>1. SlotType'
    BY <1>0, <1>19 DEF AskRobots, NoCeiling, RulesKnown, GoTo, SlotType, Places, Resolved
  <2> QED BY <1>0, <1>19, <2>1 DEF AskRobots, NoCeiling, stateVars, bucketVars, StateType,
          BucketType, PauseType
<1>20. Goal
  BY <1>1, <1>3, <1>4, <1>5, <1>6, <1>7, <1>8, <1>9, <1>10, <1>11, <1>12, <1>13, <1>14,
     <1>15, <1>16, <1>17, <1>18, <1>19
  DEF Next, Gate, Answered
<1>21. (SlotType /\ StateType /\ BucketType /\ PauseType => TypeInv)'
  BY RatesType DEF TypeInv, TypeOK, CeilingsInRange, SlotType, StateType, BucketType, PauseType
<1> QED BY <1>20, <1>21

\* Rates stay between the floor and the ceiling and buckets between empty and
\* full, whoever writes them in what order.
THEOREM TypeCorrect == Spec => []TypeOK
<1>1. TypeInv => TypeOK
  BY DEF TypeInv
<1> QED BY <1>1, TypeInit, TypeStep, PTL DEF Spec

-----------------------------------------------------------------------------
(* The two bounds on what is sent.  A bucket is refilled in retrospect at  *)
(* the rate of the call that charges it, so what relates it to a reference *)
(* bucket is not what it holds but what it would be read to hold.          *)

\* Read at max_rate, no bucket holds more than its upper reference.
BelowHigh == \A b \in Buckets : Peek(b, MaxRate) <= high[b]

\* A higher rate reads a bucket as at least as full.
LEMMA PeekMono ==
  ASSUME BucketType, NEW b \in Buckets, NEW q \in Nat, NEW r \in Nat, q <= r
  PROVE  Peek(b, q) <= Peek(b, r)
<1>1. old[b] * Factor(b) \in Nat
  BY CapType, TTLOutlastsRefill DEF BucketType
<1>2. old[b] * Factor(b) * q <= old[b] * Factor(b) * r
  BY <1>1, MulMono
<1>3. /\ old[b] * Factor(b) * q \in Nat /\ old[b] * Factor(b) * r \in Nat
      /\ tokens[b] \in Nat /\ Cap(b) \in Nat
  BY PeekType, CapType DEF BucketType
<1> QED BY <1>2, <1>3 DEF Peek, Least

\* One tick more reads a bucket as one tick's refill fuller.
LEMMA PeekTick ==
  ASSUME BucketType, BucketType', Tick, NEW b \in Buckets, ~Expired(b), NEW r \in Nat
  PROVE  Peek(b, r)' = Least(Cap(b), Peek(b, r) + Factor(b) * r)
<1>1. tokens'[b] = tokens[b] /\ old'[b] = old[b] + 1
  BY DEF Tick
<1>2. old[b] \in Nat /\ Factor(b) \in Nat
  BY CapType, TTLOutlastsRefill DEF BucketType
<1>3. (old[b] + 1) * Factor(b) * r = old[b] * Factor(b) * r + Factor(b) * r
  BY <1>2
<1>4. Factor(b) * r \in Nat /\ old[b] * Factor(b) * r \in Nat /\ tokens[b] \in Nat /\ Cap(b) \in Nat
  BY <1>2, PeekType, CapType DEF BucketType
<1> QED BY <1>1, <1>3, <1>4 DEF Peek, Least

\* A bucket whose key expires was full already, at any rate there is.
LEMMA FullBeforeExpiry ==
  ASSUME BucketType, NEW b \in Buckets, Expired(b), NEW r \in Nat, MinRate <= r
  PROVE  Peek(b, r) = Cap(b)
<1>1. old[b] = BucketTTL /\ BucketTTL \in Nat /\ Factor(b) \in Nat \ {0} /\ tokens[b] \in Nat
  BY CapType, TTLOutlastsRefill DEF BucketType, Expired
<1>2. BucketTTL * MinRate <= BucketTTL * r /\ BucketTTL * r \in Nat
  BY <1>1, MulMono, RatesType
<1>3. Burst <= BucketTTL * r
  BY <1>2, TTLOutlastsRefill, SizesType, RatesType
<1>4. Factor(b) * Burst <= Factor(b) * (BucketTTL * r)
  BY <1>1, <1>2, <1>3, MulMono, SizesType
<1>5. Factor(b) * (BucketTTL * r) = old[b] * Factor(b) * r
  BY <1>1
<1>6. Cap(b) <= tokens[b] + old[b] * Factor(b) * r
  BY <1>1, <1>4, <1>5, PeekType, CapType
<1> QED BY <1>6, <1>1, CapType, PeekType DEF Peek, Least

\* What a sent request leaves in a bucket that it is charged to.
LEMMA PeekAdmit ==
  ASSUME TypeInv, TypeInv', NEW s \in Slots, Admit(s), NEW b \in Keys(s), NEW r \in Nat
  PROVE  Peek(b, r)' = Peek(b, seen[s]) - Cost
<1>0. SlotType /\ BucketType /\ dom[s] \in Domains
  BY TypeParts DEF Admit, SlotType
<1>a. addr[s] \in Ips
  BY <1>0 DEF Admit, SlotType, Resolved
<1>1. b \in Buckets
  BY <1>0, <1>a DEF Keys, Buckets
<1>2. seen[s] \in Nat
  BY <1>0 DEF SlotType
<1>3. tokens'[b] = Peek(b, seen[s]) - Cost /\ old'[b] = 0
  BY <1>1 DEF Admit, Charge
<1>4. Peek(b, seen[s]) \in Nat /\ Peek(b, seen[s]) <= Cap(b) /\ Cap(b) \in Nat
  BY <1>0, <1>1, <1>2, PeekType, CapType
<1>5. 0 * Factor(b) * r = 0
  BY <1>1, CapType
<1> QED BY <1>3, <1>4, <1>5, SizesType DEF Peek, Least

\* Only a sent request and the clock touch the buckets.
LEMMA BucketSteps ==
  ASSUME [Next]_vars
  PROVE  UNCHANGED bucketVars \/ Tick \/ \E s \in Slots : Admit(s)
BY DEF Next, Gate, Answered, Begin, DnsFails, Resolve, AskRobots, RobotsForbid,
   NoCeiling, ReadCeiling, SetCeiling,
   ReadRate, Deny, Wake, Answer, Redirected, Throttled, RecordPause, TimesOut, Abandon,
   StateExpires, vars

\* The upper reference stays above what a bucket can be read to hold.
LEMMA BelowHighStep == TypeInv /\ TypeInv' /\ BelowHigh /\ [Next]_vars => BelowHigh'
<1> SUFFICES ASSUME TypeInv, TypeInv', BelowHigh, [Next]_vars, NEW b \in Buckets
             PROVE  Peek(b, MaxRate)' <= high'[b]
  BY DEF BelowHigh
<1>0. SlotType /\ BucketType
  BY TypeParts
<1>a. BucketType'
  BY DEF TypeInv, TypeOK, BucketType
<1>b. /\ MaxRate \in Nat /\ Peek(b, MaxRate) \in Nat /\ Peek(b, MaxRate) <= high[b]
      /\ high[b] \in Int /\ Cap(b) \in Nat /\ Factor(b) * MaxRate \in Nat
  BY <1>0, PeekType, CapType, RatesType DEF BelowHigh, BucketType
<1>1. CASE UNCHANGED bucketVars
  BY <1>1, <1>b DEF bucketVars, Peek
<1>2. CASE Tick
  <2>1. high'[b] = Least(Cap(b), high[b] + Factor(b) * MaxRate)
    BY <1>2 DEF Tick
  <2>2. CASE Expired(b)
    <3>1. Peek(b, MaxRate) = Cap(b)
      BY <1>0, <1>b, <2>2, FullBeforeExpiry, RatesType
    <3>2. high'[b] = Cap(b)
      BY <1>b, <2>1, <3>1 DEF Least
    <3>3. tokens'[b] = Cap(b) /\ old'[b] = 0
      BY <1>2, <2>2 DEF Tick
    <3>4. 0 * Factor(b) * MaxRate = 0
      BY <1>b, CapType
    <3> QED BY <1>b, <3>2, <3>3, <3>4 DEF Peek, Least
  <2>3. CASE ~Expired(b)
    <3>1. Peek(b, MaxRate)' = Least(Cap(b), Peek(b, MaxRate) + Factor(b) * MaxRate)
      BY <1>0, <1>a, <1>b, <1>2, <2>3, PeekTick
    <3> QED BY <1>b, <2>1, <3>1 DEF Least
  <2> QED BY <2>2, <2>3
<1>3. ASSUME NEW s \in Slots, Admit(s) PROVE Peek(b, MaxRate)' <= high'[b]
  <2>1. CASE b \in Keys(s)
    <3>1. Peek(b, MaxRate)' = Peek(b, seen[s]) - Cost
      BY <1>b, <1>3, <2>1, PeekAdmit
    <3>2. seen[s] \in Nat /\ seen[s] <= MaxRate
      BY <1>0, <1>3, RatesType DEF Admit, SlotType
    <3>3. Peek(b, seen[s]) <= Peek(b, MaxRate) /\ Peek(b, seen[s]) \in Nat
      BY <1>0, <1>b, <3>2, PeekMono, PeekType
    <3>4. high'[b] = high[b] - Cost
      BY <1>3, <2>1 DEF Admit, Keys, Counted
    <3> QED BY <1>b, <3>1, <3>3, <3>4, SizesType
  <2>2. CASE b \notin Keys(s)
    <3>1. tokens'[b] = tokens[b] /\ old'[b] = old[b] /\ high'[b] = high[b]
      BY <1>3, <2>2 DEF Admit, Keys, Charge, Counted
    <3> QED BY <1>b, <3>1 DEF Peek
  <2> QED BY <2>1, <2>2
<1> QED BY <1>1, <1>2, <1>3, BucketSteps

\* Over no stretch of time are more pages asked of a domain, or charged to an
\* address, than its burst and max_rate allow, for any rates, any number of
\* workers, any answers and any addresses the names resolve to.
THEOREM PagesNeverTooFast == Spec => []WithinMaxRate
<1>1. Init => BelowHigh
  <2> SUFFICES ASSUME Init, NEW b \in Buckets PROVE Peek(b, MaxRate) <= high[b]
    BY DEF BelowHigh
  <2>1. tokens[b] = Cap(b) /\ old[b] = 0 /\ high[b] = Cap(b)
    BY DEF Init
  <2>2. 0 * Factor(b) * MaxRate = 0 /\ Cap(b) \in Nat
    BY CapType, RatesType
  <2> QED BY <2>1, <2>2 DEF Peek, Least
<1>2. TypeInv /\ BelowHigh => WithinMaxRate
  <2> SUFFICES ASSUME TypeInv, BelowHigh, NEW b \in Buckets PROVE high[b] >= 0
    BY DEF WithinMaxRate
  <2>1. BucketType
    BY TypeParts
  <2>2. Peek(b, MaxRate) \in Nat /\ Peek(b, MaxRate) <= high[b] /\ high[b] \in Int
    BY <2>1, PeekType, RatesType DEF BelowHigh, BucketType
  <2> QED BY <2>2
<1> QED BY <1>1, <1>2, BelowHighStep, TypeInit, TypeStep, PTL DEF Spec

\* A bucket stays at or above the reference that min_rate refills and only sent
\* requests are charged to.
LEMMA AboveLowStep == TypeInv /\ TypeInv' /\ GuaranteedRate /\ [Next]_vars => GuaranteedRate'
<1> SUFFICES ASSUME TypeInv, TypeInv', GuaranteedRate, [Next]_vars, NEW b \in Buckets
             PROVE  Peek(b, MinRate)' >= low'[b]
  BY DEF GuaranteedRate
<1>0. SlotType /\ BucketType
  BY TypeParts
<1>a. BucketType'
  BY DEF TypeInv, TypeOK, BucketType
<1>b. /\ MinRate \in Nat /\ Peek(b, MinRate) \in Nat /\ Peek(b, MinRate) >= low[b]
      /\ low[b] \in Int /\ Cap(b) \in Nat /\ Factor(b) * MinRate \in Nat
  BY <1>0, PeekType, CapType, RatesType DEF GuaranteedRate, BucketType
<1>1. CASE UNCHANGED bucketVars
  BY <1>1, <1>b DEF bucketVars, Peek
<1>2. CASE Tick
  <2>1. low'[b] = Least(Cap(b), low[b] + Factor(b) * MinRate)
    BY <1>2 DEF Tick
  <2>2. CASE Expired(b)
    <3>1. tokens'[b] = Cap(b) /\ old'[b] = 0
      BY <1>2, <2>2 DEF Tick
    <3>2. 0 * Factor(b) * MinRate = 0
      BY <1>b, CapType
    <3> QED BY <1>b, <2>1, <3>1, <3>2 DEF Peek, Least
  <2>3. CASE ~Expired(b)
    <3>1. Peek(b, MinRate)' = Least(Cap(b), Peek(b, MinRate) + Factor(b) * MinRate)
      BY <1>0, <1>a, <1>b, <1>2, <2>3, PeekTick
    <3> QED BY <1>b, <2>1, <3>1 DEF Least
  <2> QED BY <2>2, <2>3
<1>3. ASSUME NEW s \in Slots, Admit(s) PROVE Peek(b, MinRate)' >= low'[b]
  <2>1. CASE b \in Keys(s)
    <3>1. Peek(b, MinRate)' = Peek(b, seen[s]) - Cost
      BY <1>b, <1>3, <2>1, PeekAdmit
    <3>2. seen[s] \in Nat /\ MinRate <= seen[s] /\ Peek(b, seen[s]) >= Cost
      BY <1>0, <1>3, <2>1, RatesType DEF Admit, SlotType
    <3>3. Peek(b, MinRate) <= Peek(b, seen[s]) /\ Peek(b, seen[s]) \in Nat
      BY <1>0, <1>b, <3>2, PeekMono, PeekType
    <3>4. low'[b] = Most(0, low[b] - Cost)
      BY <1>3, <2>1 DEF Admit, Keys, Counted
    <3> QED BY <1>b, <3>1, <3>2, <3>3, <3>4, SizesType DEF Most
  <2>2. CASE b \notin Keys(s)
    <3>1. tokens'[b] = tokens[b] /\ old'[b] = old[b] /\ low'[b] = low[b]
      BY <1>3, <2>2 DEF Admit, Keys, Charge, Counted
    <3> QED BY <1>b, <3>1 DEF Peek
  <2> QED BY <2>1, <2>2
<1> QED BY <1>1, <1>2, <1>3, BucketSteps

\* A host asked for no more than min_rate always finds its tokens: denials,
\* pauses and expiring keys cost it none.
THEOREM MinRateGuaranteed == Spec => []GuaranteedRate
<1>1. Init => GuaranteedRate
  <2> SUFFICES ASSUME Init, NEW b \in Buckets PROVE Peek(b, MinRate) >= low[b]
    BY DEF GuaranteedRate
  <2>1. tokens[b] = Cap(b) /\ old[b] = 0 /\ low[b] = Cap(b)
    BY DEF Init
  <2>2. 0 * Factor(b) * MinRate = 0 /\ Cap(b) \in Nat
    BY CapType, RatesType
  <2> QED BY <2>1, <2>2 DEF Peek, Least
<1> QED BY <1>1, AboveLowStep, TypeInit, TypeStep, PTL DEF Spec
=============================================================================
