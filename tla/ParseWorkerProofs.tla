-------------------------- MODULE ParseWorkerProofs --------------------------
(***************************************************************************)
(* Proofs about the parse workers.                                         *)
(***************************************************************************)
EXTENDS ParseWorker, FiniteSetTheorems, WellFoundedInduction, TLAPS

-----------------------------------------------------------------------------
(* The length of a text.  upTo is a recursive function, so that it exists   *)
(* and what it is are shown by the least number for which they fail.        *)

\* A set of numbers that is not empty has a least element.
LEMMA LeastNumber ==
  ASSUME NEW S \in SUBSET Nat, S # {}
  PROVE  \E n \in S : \A m \in S : n <= m
<1>1. PICK n \in S : \A m \in S : ~(<<m, n>> \in OpToRel(<, Nat))
  BY NatLessThanWellFounded, WFMin
<1>2. \A m \in S : ~(m < n)
  BY <1>1 DEF OpToRel
<1> QED BY <1>2

\* What holds of 0 and passes from a number to the next holds of all.
LEMMA SetInduction ==
  ASSUME NEW S, 0 \in S, \A n \in Nat : n \in S => n + 1 \in S
  PROVE  \A n \in Nat : n \in S
<1> SUFFICES ASSUME Nat \ S # {} PROVE FALSE
  OBVIOUS
<1>1. PICK n \in Nat \ S : \A m \in Nat \ S : n <= m
  BY LeastNumber
<1>2. n - 1 \in Nat /\ n - 1 \in S
  BY <1>1
<1> QED BY <1>1, <1>2

\* upTo of Length exists: there is such a function up to any number.
LEMMA UpToExists ==
  ASSUME NEW blocks \in Seq(Texts), NEW places
  PROVE  \A k \in Nat : k <= Len(blocks) =>
           \E f : f = [n \in 0 .. k |->
                        IF n = 0 THEN 0
                        ELSE f[n - 1] + (IF n \in places THEN Chars[blocks[n]] ELSE 0)]
<1> DEFINE Add(n) == IF n \in places THEN Chars[blocks[n]] ELSE 0
           IsUpTo(f, k) == f = [n \in 0 .. k |-> IF n = 0 THEN 0 ELSE f[n - 1] + Add(n)]
           S == {k \in Nat : k <= Len(blocks) => \E f : IsUpTo(f, k)}
<1>1. 0 \in S
  <2>1. IsUpTo([n \in 0 .. 0 |-> 0], 0)
    OBVIOUS
  <2> QED BY <2>1
<1>2. ASSUME NEW k \in Nat, k \in S PROVE k + 1 \in S
  <2> SUFFICES ASSUME k + 1 <= Len(blocks) PROVE \E f : IsUpTo(f, k + 1)
    OBVIOUS
  <2> Len(blocks) \in Nat
    OBVIOUS
  <2>1. PICK f : IsUpTo(f, k)
    BY <1>2
  <2> DEFINE g == [n \in 0 .. k + 1 |-> IF n = k + 1 THEN f[k] + Add(k + 1) ELSE f[n]]
  <2>2. \A n \in 0 .. k + 1 : g[n] = IF n = 0 THEN 0 ELSE g[n - 1] + Add(n)
    <3> HIDE DEF Add
    <3>1. ASSUME NEW n \in 0 .. k PROVE f[n] = IF n = 0 THEN 0 ELSE f[n - 1] + Add(n)
      BY <2>1
    <3>2. g[k + 1] = g[k] + Add(k + 1)
      OBVIOUS
    <3>3. ASSUME NEW n \in 0 .. k PROVE g[n] = IF n = 0 THEN 0 ELSE g[n - 1] + Add(n)
      BY <3>1
    <3> QED BY <3>2, <3>3
  <2>3. IsUpTo(g, k + 1)
    <3> HIDE DEF Add
    <3> QED BY <2>2
  <2> QED BY <2>3
<1>3. \A k \in Nat : k \in S
  <2> HIDE DEF S
  <2> QED BY <1>1, <1>2, SetInduction
<1> QED BY <1>3
\* Length adds up the characters of the blocks, one after the other.
LEMMA LengthIsUpTo ==
  ASSUME NEW blocks \in Seq(Texts), NEW places
  PROVE  \E f : /\ Length(blocks, places) = f[Len(blocks)]
                /\ \A n \in 0 .. Len(blocks) :
                     f[n] = IF n = 0 THEN 0
                            ELSE f[n - 1] + (IF n \in places THEN Chars[blocks[n]] ELSE 0)
<1> DEFINE IsUpTo(f) ==
      f = [n \in 0 .. Len(blocks) |->
             IF n = 0 THEN 0
             ELSE f[n - 1] + (IF n \in places THEN Chars[blocks[n]] ELSE 0)]
           upTo == CHOOSE f : IsUpTo(f)
<1>1. \E f : IsUpTo(f)
  <2>1. Len(blocks) \in Nat /\ Len(blocks) <= Len(blocks)
    OBVIOUS
  <2>2. \A k \in Nat : k <= Len(blocks) =>
          \E f : f = [n \in 0 .. k |->
                       IF n = 0 THEN 0
                       ELSE f[n - 1] + (IF n \in places THEN Chars[blocks[n]] ELSE 0)]
    BY UpToExists
  <2> QED BY <2>1, <2>2
<1>2. IsUpTo(upTo)
  <2> HIDE DEF IsUpTo
  <2> QED BY <1>1
<1>3. Length(blocks, places) = upTo[Len(blocks)]
  BY DEF Length
<1>4. \A n \in 0 .. Len(blocks) :
        upTo[n] = IF n = 0 THEN 0
                  ELSE upTo[n - 1] + (IF n \in places THEN Chars[blocks[n]] ELSE 0)
  <2> HIDE DEF upTo
  <2> QED BY <1>2
<1> QED BY <1>3, <1>4

\* A text has a length, and is longer than nothing with a block in it.
LEMMA LengthPositive ==
  ASSUME NEW blocks \in Seq(Texts), NEW places
  PROVE  /\ Length(blocks, places) \in Nat
         /\ (\E i \in DOMAIN blocks : i \in places) => Length(blocks, places) > 0
<1> DEFINE Add(n) == IF n \in places THEN Chars[blocks[n]] ELSE 0
<1>1. PICK f : /\ Length(blocks, places) = f[Len(blocks)]
               /\ \A n \in 0 .. Len(blocks) : f[n] = IF n = 0 THEN 0 ELSE f[n - 1] + Add(n)
  BY LengthIsUpTo
<1>2. Len(blocks) \in Nat /\ DOMAIN blocks = 1 .. Len(blocks)
  OBVIOUS
<1>3. \A n \in 1 .. Len(blocks) : Add(n) \in Nat /\ (n \in places => Add(n) > 0)
  BY PagesType
<1> DEFINE S == {n \in Nat : n <= Len(blocks) =>
                   /\ f[n] \in Nat
                   /\ (\E i \in 1 .. n : i \in places) => f[n] > 0}
<1> HIDE DEF Add
<1>4. 0 \in S
  BY <1>1, <1>2
<1>5. ASSUME NEW n \in Nat, n \in S PROVE n + 1 \in S
  <2> SUFFICES ASSUME n + 1 <= Len(blocks)
               PROVE  /\ f[n + 1] \in Nat
                      /\ (\E i \in 1 .. n + 1 : i \in places) => f[n + 1] > 0
    OBVIOUS
  <2>1. f[n + 1] = f[n] + Add(n + 1) /\ f[n] \in Nat /\ Add(n + 1) \in Nat
    BY <1>1, <1>2, <1>3, <1>5
  <2>2. CASE n + 1 \in places
    BY <2>1, <2>2, <1>2, <1>3
  <2>3. CASE n + 1 \notin places
    <3>1. (\E i \in 1 .. n + 1 : i \in places) => \E i \in 1 .. n : i \in places
      BY <2>3
    <3> QED BY <2>1, <3>1, <1>2, <1>5
  <2> QED BY <2>2, <2>3
<1>6. \A n \in Nat : n \in S
  <2> HIDE DEF S
  <2> QED BY <1>4, <1>5, SetInduction
<1> QED BY <1>1, <1>2, <1>6

\* Nothing is lost of a page that is sure to be published: what extract() keeps of
\* it, whatever the learner takes for a template, is not empty.
LEMMA SureHasText ==
  ASSUME NEW g \in Pages, Sure(g), NEW l, NEW h
  PROVE  Extract(l, h, g) # {}
<1> DEFINE kept == {i \in DOMAIN BlocksOf[g] : /\ BlocksOf[g][i] \in ContentOf[g]
                                               /\ ~IsTemplate(l, h, BlocksOf[g][i])}
           fallback == {i \in DOMAIN VisibleOf[g] : VisibleOf[g][i] \in Substantial}
<1>1. fallback # {} /\ fallback \subseteq DOMAIN VisibleOf[g]
  BY DEF Sure, ToSet
<1>2. CASE kept # {}
  BY <1>1, <1>2 DEF Extract
<1>3. CASE kept = {}
  <2>1. Retained(g, kept) = 0
    BY <1>3 DEF Retained
  <2>2. Visible(g) \in Nat /\ Visible(g) >= MinChars
    BY LengthPositive, PagesType DEF Visible, Sure
  <2>3. Length(VisibleOf[g], fallback) \in Nat /\ Length(VisibleOf[g], fallback) > 0
    BY <1>1, LengthPositive, PagesType
  <2>4. MinChars \in Nat \ {0} /\ MinPercent \in Nat \ {0}
    BY ParseBoundsType
  <2>5. 100 * Retained(g, kept) < MinPercent * Visible(g)
    <3>1. \A m, n \in Nat \ {0} : 0 < m * n
      OBVIOUS
    <3>2. MinPercent * Visible(g) > 0
      BY <3>1, <2>2, <2>4
    <3> QED BY <2>1, <3>2
  <2>6. Extract(l, h, g) = fallback
    <3> HIDE DEF kept, fallback
    <3>1. Extract(l, h, g) =
            IF /\ Visible(g) >= MinChars /\ Retained(g, kept) < MinChars
               /\ 100 * Retained(g, kept) < MinPercent * Visible(g)
               /\ Length(VisibleOf[g], fallback) > Retained(g, kept)
            THEN fallback ELSE kept
      BY DEF Extract, kept, fallback
    <3> QED BY <3>1, <2>1, <2>2, <2>3, <2>4, <2>5
  <2> QED BY <1>1, <2>6
<1> QED BY <1>2, <1>3
-----------------------------------------------------------------------------
(* What a page is to publish, and what _publish emits.                     *)

\* What has to come out of a page whatever the learner has seen.
Due(g) ==
  {o \in OutputTypes :
     /\ g # None /\ g \notin Rejected \cup Broken
     /\ \/ Sure(g) /\ o = Output("parsed", g)
        \/ /\ g \notin NoFollow
           /\ \/ \E u \in Vouched[g] : o = Output("links", u)
              \/ \E u \in LinksOf[g] : o = Output("discovered", u)}

\* SetToSeq gives all elements of a finite set.
LEMMA SetToSeqOnto ==
  ASSUME NEW S, IsFiniteSet(S)
  PROVE  /\ Cardinality(S) \in Nat
         /\ SetToSeq(S) \in [1 .. Cardinality(S) -> S]
         /\ \A x \in S : \E i \in 1 .. Cardinality(S) : SetToSeq(S)[i] = x
<1> DEFINE D == 1 .. Cardinality(S)
<1>1. Cardinality(S) \in Nat /\ ExistsBijection(D, S)
  BY FS_CardinalityType
<1>2. PICK b : b \in Bijection(D, S)
  BY <1>1 DEF ExistsBijection
<1>3. b \in [D -> S] /\ IsInjective(b)
  BY <1>2 DEF Bijection, Injection, IsInjective
<1>4. SetToSeq(S) \in [D -> S] /\ IsInjective(SetToSeq(S))
  BY <1>3 DEF SetToSeq
<1>5. SetToSeq(S) \in Injection(D, S)
  BY <1>4 DEF Injection, IsInjective
<1>6. Cardinality(D) = Cardinality(S)
  BY <1>1, FS_Interval
<1>7. SetToSeq(S) \in Surjection(D, S)
  BY <1>5, <1>6, FS_Injection
<1> QED BY <1>1, <1>4, <1>7 DEF Surjection

\* Two sequences one after the other hold what either holds.
LEMMA ToSetConcat ==
  ASSUME NEW T, NEW s \in Seq(T), NEW t \in Seq(T)
  PROVE  s \o t \in Seq(T) /\ ToSet(s \o t) = ToSet(s) \cup ToSet(t)
<1>1. s \o t \in Seq(T) /\ Len(s \o t) = Len(s) + Len(t)
  OBVIOUS
<1>2. \A i \in 1 .. Len(s) + Len(t) :
        (s \o t)[i] = IF i <= Len(s) THEN s[i] ELSE t[i - Len(s)]
  OBVIOUS
<1>3. ASSUME NEW i \in 1 .. Len(s) + Len(t) PROVE (s \o t)[i] \in ToSet(s) \cup ToSet(t)
  BY <1>2 DEF ToSet
<1>4. ASSUME NEW i \in 1 .. Len(s) PROVE s[i] \in ToSet(s \o t)
  BY <1>1, <1>2 DEF ToSet
<1>5. ASSUME NEW i \in 1 .. Len(t) PROVE t[i] \in ToSet(s \o t)
  <2>1. i + Len(s) \in 1 .. Len(s) + Len(t) /\ (s \o t)[i + Len(s)] = t[i]
    BY <1>2
  <2> QED BY <1>1, <2>1 DEF ToSet
<1>6. ToSet(s \o t) \subseteq ToSet(s) \cup ToSet(t)
  <2> SUFFICES ASSUME NEW i \in DOMAIN (s \o t) PROVE (s \o t)[i] \in ToSet(s) \cup ToSet(t)
    BY DEF ToSet
  <2> QED BY <1>1, <1>3
<1>7. ToSet(s) \subseteq ToSet(s \o t)
  BY <1>4 DEF ToSet
<1>8. ToSet(t) \subseteq ToSet(s \o t)
  BY <1>5 DEF ToSet
<1> QED BY <1>1, <1>6, <1>7, <1>8

\* The elements of a sequence are its head's and its tail's.
LEMMA ToSetTail ==
  ASSUME NEW T, NEW s \in Seq(T), s # <<>>
  PROVE  /\ Head(s) \in T /\ Tail(s) \in Seq(T)
         /\ ToSet(s) = {Head(s)} \cup ToSet(Tail(s))
         /\ Len(s) = 1 <=> Tail(s) = <<>>
<1>1. /\ Len(Tail(s)) = Len(s) - 1 /\ Len(s) \in Nat \ {0}
      /\ \A i \in 1 .. Len(s) - 1 : Tail(s)[i] = s[i + 1]
      /\ Head(s) = s[1] /\ Tail(s) \in Seq(T)
  OBVIOUS
<1>2. ToSet(s) \subseteq {Head(s)} \cup ToSet(Tail(s))
  <2> SUFFICES ASSUME NEW i \in 1 .. Len(s) PROVE s[i] \in {Head(s)} \cup ToSet(Tail(s))
    BY DEF ToSet
  <2>1. CASE i = 1
    BY <1>1, <2>1
  <2>2. CASE i # 1
    <3>1. i - 1 \in 1 .. Len(s) - 1 /\ Tail(s)[i - 1] = s[i]
      BY <1>1, <2>2
    <3>2. DOMAIN Tail(s) = 1 .. Len(s) - 1
      BY <1>1
    <3> QED BY <3>1, <3>2 DEF ToSet
  <2> QED BY <2>1, <2>2
<1>3. ToSet(Tail(s)) \subseteq ToSet(s)
  <2> SUFFICES ASSUME NEW i \in 1 .. Len(s) - 1 PROVE Tail(s)[i] \in ToSet(s)
    BY <1>1 DEF ToSet
  <2>1. i + 1 \in 1 .. Len(s) /\ Tail(s)[i] = s[i + 1]
    BY <1>1
  <2> QED BY <2>1 DEF ToSet
<1>4. Head(s) \in ToSet(s)
  BY <1>1 DEF ToSet
<1>5. Len(s) = 1 <=> Tail(s) = <<>>
  BY <1>1
<1> QED BY <1>1, <1>2, <1>3, <1>4, <1>5

\* _publish emits what is due of a page, and one document at most: its own.
LEMMA DueIsPublished ==
  ASSUME NEW g \in Pages, NEW text, Sure(g) => text # {}
  PROVE  /\ Outputs(g, text) \in Seq(OutputTypes)
         /\ Due(g) \subseteq ToSet(Outputs(g, text))
         /\ \A o \in ToSet(Outputs(g, text)) : o.topic = "parsed" => o.what = g
<1> DEFINE parsed == IF g \notin NoIndex /\ text # {} THEN <<Output("parsed", g)>> ELSE <<>>
           links == [i \in 1 .. Cardinality(Vouched[g]) |-> Output("links", SetToSeq(Vouched[g])[i])]
           discovered == [i \in 1 .. Cardinality(LinksOf[g]) |->
                            Output("discovered", SetToSeq(LinksOf[g])[i])]
           rest == IF g \in NoFollow THEN <<>> ELSE links \o discovered
<1>1. /\ IsFiniteSet(LinksOf[g]) /\ IsFiniteSet(Vouched[g])
      /\ LinksOf[g] \subseteq Targets /\ Vouched[g] \subseteq Targets
  BY PagesType, FS_Subset DEF Targets
<1>2. /\ links \in Seq(OutputTypes)
      /\ \A u \in Vouched[g] : Output("links", u) \in ToSet(links)
      /\ \A o \in ToSet(links) : o.topic = "links"
  <2>1. /\ Cardinality(Vouched[g]) \in Nat
        /\ SetToSeq(Vouched[g]) \in [1 .. Cardinality(Vouched[g]) -> Vouched[g]]
        /\ \A u \in Vouched[g] : \E i \in 1 .. Cardinality(Vouched[g]) : SetToSeq(Vouched[g])[i] = u
    BY <1>1, SetToSeqOnto
  <2>2. links \in [1 .. Cardinality(Vouched[g]) -> OutputTypes]
    BY <1>1, <2>1 DEF Output, OutputTypes
  <2>3. links \in Seq(OutputTypes) /\ DOMAIN links = 1 .. Cardinality(Vouched[g])
    BY <2>1, <2>2
  <2>4. ASSUME NEW u \in Vouched[g] PROVE Output("links", u) \in ToSet(links)
    <3>1. PICK i \in 1 .. Cardinality(Vouched[g]) : SetToSeq(Vouched[g])[i] = u
      BY <2>1
    <3> QED BY <2>3, <3>1 DEF ToSet
  <2>5. \A o \in ToSet(links) : o.topic = "links"
    BY <2>3 DEF ToSet, Output
  <2> QED BY <2>3, <2>4, <2>5
<1>3. /\ discovered \in Seq(OutputTypes)
      /\ \A u \in LinksOf[g] : Output("discovered", u) \in ToSet(discovered)
      /\ \A o \in ToSet(discovered) : o.topic = "discovered"
  <2>1. /\ Cardinality(LinksOf[g]) \in Nat
        /\ SetToSeq(LinksOf[g]) \in [1 .. Cardinality(LinksOf[g]) -> LinksOf[g]]
        /\ \A u \in LinksOf[g] : \E i \in 1 .. Cardinality(LinksOf[g]) : SetToSeq(LinksOf[g])[i] = u
    BY <1>1, SetToSeqOnto
  <2>2. discovered \in [1 .. Cardinality(LinksOf[g]) -> OutputTypes]
    BY <1>1, <2>1 DEF Output, OutputTypes
  <2>3. discovered \in Seq(OutputTypes) /\ DOMAIN discovered = 1 .. Cardinality(LinksOf[g])
    BY <2>1, <2>2
  <2>4. ASSUME NEW u \in LinksOf[g] PROVE Output("discovered", u) \in ToSet(discovered)
    <3>1. PICK i \in 1 .. Cardinality(LinksOf[g]) : SetToSeq(LinksOf[g])[i] = u
      BY <2>1
    <3> QED BY <2>3, <3>1 DEF ToSet
  <2>5. \A o \in ToSet(discovered) : o.topic = "discovered"
    BY <2>3 DEF ToSet, Output
  <2> QED BY <2>3, <2>4, <2>5
<1>4. /\ parsed \in Seq(OutputTypes)
      /\ ToSet(parsed) = IF g \notin NoIndex /\ text # {} THEN {Output("parsed", g)} ELSE {}
  <2>1. Output("parsed", g) \in OutputTypes
    BY DEF Output, OutputTypes
  <2> QED BY <2>1 DEF ToSet
<1> HIDE DEF parsed, links, discovered
<1>5. /\ rest \in Seq(OutputTypes)
      /\ g \notin NoFollow => ToSet(rest) = ToSet(links) \cup ToSet(discovered)
      /\ g \in NoFollow => ToSet(rest) = {}
  <2>1. /\ links \o discovered \in Seq(OutputTypes)
        /\ ToSet(links \o discovered) = ToSet(links) \cup ToSet(discovered)
    BY <1>2, <1>3, ToSetConcat
  <2>2. <<>> \in Seq(OutputTypes) /\ ToSet(<<>>) = {}
    BY DEF ToSet
  <2> QED BY <2>1, <2>2
<1> HIDE DEF rest
<1>6. Outputs(g, text) = parsed \o rest
  BY DEF Outputs, parsed, rest, links, discovered
<1>7. Outputs(g, text) \in Seq(OutputTypes) /\ ToSet(Outputs(g, text)) = ToSet(parsed) \cup ToSet(rest)
  BY <1>4, <1>5, <1>6, ToSetConcat
<1>8. Due(g) \subseteq ToSet(Outputs(g, text))
  BY <1>2, <1>3, <1>4, <1>5, <1>7 DEF Due, Sure
<1>9. \A o \in ToSet(Outputs(g, text)) : o.topic = "parsed" => o.what = g
  BY <1>2, <1>3, <1>4, <1>5, <1>7 DEF Output
<1> QED BY <1>7, <1>8, <1>9
-----------------------------------------------------------------------------
(* Types.                                                                  *)

\* What the log holds is there from the start, and its messages are typed.
LEMMA LogTyped ==
  ASSUME log \in Logs, NEW p \in Partitions, NEW i \in DOMAIN log[p]
  PROVE  /\ log[p] \in Seq(Messages) /\ <<p, i>> \in Ids
         /\ log[p][i].url \in Urls /\ HostOf[log[p][i].url] \in Hosts
         /\ PartitionOf[log[p][i].url] = p
         /\ log[p][i].page = None \/ log[p][i].page \in Pages
         /\ log[p][i].page # None => log[p][i].url = UrlOf[log[p][i].page]
<1>1. log[p] \in Seq(Messages) /\ PartitionOf[log[p][i].url] = p
  BY LogsType
<1>2. log[p][i] \in Messages
  BY <1>1
<1>3. /\ log[p][i].url \in Urls
      /\ log[p][i].page = None \/ log[p][i].page \in Pages
      /\ log[p][i].page # None => log[p][i].url = UrlOf[log[p][i].page]
  BY <1>2 DEF Messages, Urls
<1>4. HostOf[log[p][i].url] \in Hosts
  BY <1>3 DEF Hosts
<1> QED BY <1>1, <1>3, <1>4 DEF Ids

\* An id is a partition and an offset of its log.
LEMMA IdTyped ==
  ASSUME log \in Logs, NEW m \in Ids
  PROVE  /\ m = <<m[1], m[2]>> /\ m[1] \in Partitions
         /\ m[2] \in DOMAIN log[m[1]] /\ m[2] \in Nat \ {0} /\ m[2] <= Len(log[m[1]])
<1>1. PICK p \in Partitions : m \in {p} \X DOMAIN log[p]
  BY DEF Ids
<1>2. log[p] \in Seq(Messages)
  BY LogsType
<1>3. m = <<m[1], m[2]>> /\ m[1] = p /\ m[2] \in DOMAIN log[p]
  BY <1>1
<1>4. DOMAIN log[p] = 1 .. Len(log[p]) /\ Len(log[p]) \in Nat
  BY <1>2
<1> QED BY <1>3, <1>4

\* What the learner has seen is counted.
LEMMA LearnerTyped ==
  ASSUME NEW l \in Learners, NEW h \in Hosts, NEW blocks
  PROVE  NewLearner \in Learners /\ Observe(l, h, blocks) \in Learners
<1>1. NewLearner \in Learners
  BY DEF NewLearner, Learners
<1>2. Observe(l, h, blocks) \in Learners
  <2>1. l.pages \in [Hosts -> Nat] /\ l.seen \in [Hosts -> [Texts -> Nat]]
    BY DEF Learners
  <2>2. [l.pages EXCEPT ![h] = @ + 1] \in [Hosts -> Nat]
    BY <2>1
  <2>3. [t \in Texts |-> l.seen[h][t] + (IF t \in ToSet(blocks) THEN 1 ELSE 0)] \in [Texts -> Nat]
    BY <2>1
  <2>4. [l.seen EXCEPT ![h] =
           [t \in Texts |-> @[t] + (IF t \in ToSet(blocks) THEN 1 ELSE 0)]] \in [Hosts -> [Texts -> Nat]]
    BY <2>1, <2>3
  <2> QED BY <2>2, <2>4 DEF Observe, Learners
<1> QED BY <1>1, <1>2

\* No step changes the log.
LEMMA LogStays ==
  ASSUME [Next]_vars
  PROVE  log' = log /\ Ids' = Ids
<1>1. log' = log
  BY DEF Next, Step, Settle, Rejoin, Regroup, PollNothing, Die, Start, Stop, Poll, Reject, Unread,
         Parse, Emit, Commit, Quit, vars
<1> QED BY <1>1 DEF Ids

\* A poll reads on in the log, and its batch is what it read.
LEMMA PollReads ==
  ASSUME TypeOK, NEW w \in Workers, Poll(w)
  PROVE  \E new \in SUBSET Ids, b \in Seq(Ids) :
           /\ batch' = [batch EXCEPT ![w] = b] /\ ToSet(b) = new /\ Ordered(b) /\ b # <<>>
           /\ pos' \in [Partitions -> Nat]
           /\ \A p \in Partitions :
                /\ pos[p] <= pos'[p] /\ pos'[p] <= Len(log[p])
                /\ owner[p] # w => pos'[p] = pos[p]
                /\ \A i \in Nat : <<p, i>> \in new <=> pos[p] < i /\ i <= pos'[p]
           /\ polled' = [polled EXCEPT ![w] = {p \in Partitions : pos[p] < pos'[p]}]
<1> USE DEF TypeOK
<1>1. PICK take \in [{p \in Partitions : owner[p] = w} -> 0 .. MaxRecords] :
        LET new == UNION {{p} \X (pos[p] + 1 .. pos[p] + take[p]) : p \in DOMAIN take}
        IN  /\ new # {} /\ new \subseteq Ids
            /\ \E b \in SeqOf(new, MaxRecords) :
                 ToSet(b) = new /\ Ordered(b) /\ batch' = [batch EXCEPT ![w] = b]
            /\ pos' = [p \in Partitions |->
                         IF owner[p] = w THEN pos[p] + take[p] ELSE pos[p]]
            /\ polled' = [polled EXCEPT ![w] = {p \in DOMAIN take : take[p] > 0}]
  BY DEF Poll
<1> DEFINE new == UNION {{p} \X (pos[p] + 1 .. pos[p] + take[p]) : p \in DOMAIN take}
<1>2. PICK b \in SeqOf(new, MaxRecords) :
        ToSet(b) = new /\ Ordered(b) /\ batch' = [batch EXCEPT ![w] = b]
  BY <1>1
<1>3. new # {} /\ new \in SUBSET Ids
  BY <1>1
<1>4. MaxRecords \in Nat
  BY ParseBoundsType
<1>5. \A p \in Partitions : owner[p] = w => take[p] \in Nat
  BY <1>4
<1>6. pos' = [p \in Partitions |-> IF owner[p] = w THEN pos[p] + take[p] ELSE pos[p]]
  BY <1>1
<1>7. \A p \in Partitions : \A i \in Nat : <<p, i>> \in new <=> pos[p] < i /\ i <= pos'[p]
  BY <1>5, <1>6
<1>8. b \in Seq(Ids) /\ b # <<>>
  <2>1. PICK n \in 0 .. MaxRecords : b \in [1 .. n -> new]
    BY <1>2 DEF SeqOf
  <2>2. b \in Seq(Ids)
    BY <2>1, <1>3, <1>4
  <2>3. b # <<>>
    BY <1>2, <1>3 DEF ToSet
  <2> QED BY <2>2, <2>3
<1>9. ASSUME NEW p \in Partitions PROVE pos[p] <= pos'[p] /\ pos'[p] <= Len(log[p])
  <2>1. CASE pos'[p] = pos[p]
    BY <2>1
  <2>2. CASE pos'[p] # pos[p]
    <3>1. pos[p] < pos'[p] /\ pos'[p] \in Nat /\ pos[p] \in Nat
      BY <2>2, <1>5, <1>6
    <3>2. <<p, pos'[p]>> \in Ids
      BY <3>1, <1>3, <1>7
    <3> HIDE DEF TypeOK
    <3> DEFINE m == <<p, pos'[p]>>
    <3>3. m[1] = p /\ m[2] = pos'[p] /\ log \in Logs
      BY DEF TypeOK
    <3> HIDE DEF m
    <3>4. m[2] <= Len(log[m[1]])
      BY <3>2, <3>3, IdTyped DEF m
    <3> QED BY <3>1, <3>3, <3>4
  <2> QED BY <2>1, <2>2
<1>10. {p \in DOMAIN take : take[p] > 0} = {p \in Partitions : pos[p] < pos'[p]}
  BY <1>5, <1>6
<1>11. polled' = [polled EXCEPT ![w] = {p \in Partitions : pos[p] < pos'[p]}]
  BY <1>1, <1>10
<1>12. pos' \in [Partitions -> Nat] /\ \A p \in Partitions : owner[p] # w => pos'[p] = pos[p]
  BY <1>5, <1>6
<1> HIDE DEF new
<1> QED BY <1>2, <1>3, <1>7, <1>8, <1>9, <1>11, <1>12
\* The message in hand is one of the log.
LEMMA HeadTyped ==
  ASSUME TypeOK, NEW w \in Workers, batch[w] # <<>>
  PROVE  LET m == Head(batch[w])
         IN  /\ m \in Ids /\ m \in ToSet(batch[w])
             /\ Message(m).url \in Urls /\ HostOf[Message(m).url] \in Hosts
             /\ PartitionOf[Message(m).url] = m[1]
             /\ HasBody(m) => Message(m).page \in Pages /\ Message(m).url = UrlOf[Message(m).page]
<1> DEFINE m == Head(batch[w])
<1>1. batch[w] \in Seq(Ids) /\ log \in Logs
  BY DEF TypeOK
<1>2. m \in Ids /\ m \in ToSet(batch[w])
  BY <1>1, ToSetTail
<1> HIDE DEF m
<1>3. m[1] \in Partitions /\ m[2] \in DOMAIN log[m[1]]
  BY <1>1, <1>2, IdTyped
<1>4. /\ Message(m).url \in Urls /\ HostOf[Message(m).url] \in Hosts
      /\ PartitionOf[Message(m).url] = m[1]
      /\ HasBody(m) => Message(m).page \in Pages /\ Message(m).url = UrlOf[Message(m).page]
  BY <1>1, <1>3, LogTyped DEF Message, HasBody
<1> QED BY <1>2, <1>4 DEF m

\* Whatever takes the message in hand off the batch keeps the types.
LEMMA OverTyped ==
  ASSUME TypeOK, NEW w \in Workers, batch[w] # <<>>, Over(w)
  PROVE  batch' \in [Workers -> Seq(Ids)] /\ times' \in [Ids -> Nat]
<1>1. Tail(batch[w]) \in Seq(Ids) /\ Head(batch[w]) \in Ids
  BY ToSetTail DEF TypeOK
<1>2. batch' \in [Workers -> Seq(Ids)]
  BY <1>1 DEF TypeOK, Over
<1>3. times[Head(batch[w])] \in Nat /\ times \in [Ids -> Nat]
  BY <1>1 DEF TypeOK
<1>4. times' \in [Ids -> Nat]
  BY <1>1, <1>3 DEF Over
<1> QED BY <1>2, <1>4

\* A process that ends leaves the types as they are.
LEMMA LeaveTyped ==
  ASSUME TypeOK, NEW w \in Workers, Leave(w)
  PROVE  /\ owner' \in [Partitions -> Workers \cup {None}]
         /\ up' \subseteq Workers /\ stopping' \subseteq up' /\ settled' \in BOOLEAN
         /\ polled' \in [Workers -> SUBSET Partitions]
         /\ batch' \in [Workers -> Seq(Ids)]
         /\ out' \in [Workers -> Seq(OutputTypes)]
         /\ \A v \in Workers : out'[v] # <<>> => batch'[v] # <<>> /\ v \in up'
         /\ learner' \in [Workers -> Learners]
         /\ parses' \in [Workers -> [Urls -> Nat]]
<1> USE DEF TypeOK, Leave
<1>1. NewLearner \in Learners
  BY DEF NewLearner, Learners
<1>2. [u \in Urls |-> 0] \in [Urls -> Nat]
  OBVIOUS
<1>3. learner' \in [Workers -> Learners]
  BY <1>1
<1>4. parses' \in [Workers -> [Urls -> Nat]]
  BY <1>2
<1>5. batch' \in [Workers -> Seq(Ids)] /\ out' \in [Workers -> Seq(OutputTypes)]
  BY <<>> \in Seq(Ids), <<>> \in Seq(OutputTypes)
<1>6. ASSUME NEW v \in Workers, out'[v] # <<>> PROVE batch'[v] # <<>> /\ v \in up'
  BY <1>6
<1> QED BY <1>3, <1>4, <1>5, <1>6

\* What is counted is the batches that are cut, of logs that can be read.
LEMMA CutCounts ==
  ASSUME TypeOK, NEW S, Cut(S)
  PROVE  /\ cut' \in [Partitions -> Nat]
         /\ ~Poisoned => \A p \in Partitions :
              cut'[p] = IF p \in S THEN cut[p] + 1 ELSE cut[p]
<1>1. cut \in [Partitions -> Nat]
  BY DEF TypeOK
<1>2. CASE Poisoned
  BY <1>1, <1>2 DEF Cut
<1>3. CASE ~Poisoned
  BY <1>1, <1>3 DEF Cut
<1> QED BY <1>2, <1>3

\* When the group meets, everybody is back at what is committed.
LEMMA RegroupResult ==
  ASSUME TypeOK, Regroup
  PROVE  /\ owner' \in [Partitions -> up] /\ settled' \in BOOLEAN
         /\ \A p \in Partitions : pos'[p] = committed[p]
         /\ \A w \in Workers : polled'[w] = {}
         /\ kicked \subseteq kicked' /\ kicked' \subseteq Partitions
         /\ \A w \in Workers : \A m \in ToSet(batch[w]) :
              m[1] \in Partitions /\ owner'[m[1]] # w => m[1] \in kicked'
         /\ cut' \in [Partitions -> Nat]
         /\ UNCHANGED <<log, committed, up, stopping, batch, out, learner, parses, sent,
                        shown, times>>
<1>1. cut' \in [Partitions -> Nat]
  BY CutCounts DEF Regroup
<1>2. /\ kicked \subseteq kicked' /\ kicked' \subseteq Partitions
      /\ \A w \in Workers : \A m \in ToSet(batch[w]) :
           m[1] \in Partitions /\ owner'[m[1]] # w => m[1] \in kicked'
  BY DEF Regroup, TypeOK
<1>3. /\ owner' \in [Partitions -> up] /\ settled' \in BOOLEAN /\ pos' = committed
      /\ polled' = [w \in Workers |-> {}]
      /\ UNCHANGED <<log, committed, up, stopping, batch, out, learner, parses, sent,
                     shown, times>>
  BY DEF Regroup, sentVars
<1> QED BY <1>1, <1>2, <1>3

\* Parsing leaves what is due of the page to be emitted.
LEMMA ParseResult ==
  ASSUME TypeOK, NEW w \in Workers, Parse(w)
  PROVE  /\ w \in up /\ batch[w] # <<>> /\ out[w] = <<>> /\ HasBody(Head(batch[w]))
         /\ \E outputs \in Seq(OutputTypes) :
              /\ out' = [out EXCEPT ![w] = outputs]
              /\ IF outputs = <<>> THEN Over(w) ELSE UNCHANGED <<batch, times>>
              /\ Due(Message(Head(batch[w])).page) \subseteq ToSet(outputs)
              /\ \A o \in ToSet(outputs) :
                   o.topic = "parsed" => o.what = Message(Head(batch[w])).page
<1> DEFINE m == Head(batch[w])
           g == Message(m).page
           text == Extract(learner[w], HostOf[Message(m).url], g)
           outputs == IF g \in Broken THEN <<>> ELSE Outputs(g, text)
<1>1. w \in up /\ batch[w] # <<>> /\ out[w] = <<>> /\ HasBody(m)
  BY DEF Parse, Ready
<1>2. g \in Pages
  BY <1>1, HeadTyped
<1>3. /\ out' = [out EXCEPT ![w] = outputs]
      /\ IF outputs = <<>> THEN Over(w) ELSE UNCHANGED <<batch, times>>
  BY DEF Parse
<1> HIDE DEF m
<1>4. /\ outputs \in Seq(OutputTypes) /\ Due(g) \subseteq ToSet(outputs)
      /\ \A o \in ToSet(outputs) : o.topic = "parsed" => o.what = g
  <2> HIDE DEF text, g
  <2>1. CASE g \in Broken
    BY <2>1 DEF Due, ToSet
  <2>2. CASE g \notin Broken
    <3>1. Sure(g) => text # {}
      BY <1>2, SureHasText DEF text
    <3> QED BY <2>2, <3>1, <1>2, DueIsPublished
  <2> QED BY <2>1, <2>2
<1> HIDE DEF g, outputs
<1> QED BY <1>1, <1>3, <1>4 DEF g, m

\* Each action keeps the types.
LEMMA TypeStep == TypeOK /\ [Next]_vars => TypeOK'
<1> SUFFICES ASSUME TypeOK, [Next]_vars PROVE TypeOK'
  OBVIOUS
<1> USE DEF groupVars, workVars, sentVars, cutVars
<1>0. log' = log /\ Ids' = Ids
  BY LogStays
<1>1. ASSUME Settle \/ Rejoin PROVE TypeOK'
  <2>1. Regroup /\ events' \in Nat
    BY <1>1 DEF Settle, Rejoin, TypeOK
  <2>2. \A p \in Partitions : committed[p] \in Nat /\ committed[p] <= Len(log[p])
    <3>1. ASSUME NEW p \in Partitions PROVE committed[p] \in Nat /\ committed[p] <= Len(log[p])
      <4>1. /\ committed[p] \in Nat /\ pos[p] \in Nat
            /\ committed[p] <= pos[p] /\ pos[p] <= Len(log[p])
        BY DEF TypeOK
      <4>2. Len(log[p]) \in Nat
        BY LogsType DEF TypeOK
      <4> QED BY <4>1, <4>2
    <3> QED BY <3>1
  <2>3. owner' \in [Partitions -> Workers \cup {None}] /\ settled' \in BOOLEAN
    BY <2>1, RegroupResult DEF TypeOK
  <2>4. pos' \in [Partitions -> Nat]
        /\ \A p \in Partitions : committed[p] <= pos'[p] /\ pos'[p] <= Len(log[p])
    BY <2>1, <2>2 DEF Regroup, TypeOK
  <2>5. polled' \in [Workers -> SUBSET Partitions]
    BY <2>1 DEF Regroup
  <2>6. kicked' \subseteq Partitions /\ cut' \in [Partitions -> Nat]
    BY <2>1, RegroupResult
  <2>7. UNCHANGED <<log, committed, up, stopping, batch, out, learner, parses, sent, shown, times>>
    BY <2>1, RegroupResult
  <2> QED BY <1>0, <2>1, <2>3, <2>4, <2>5, <2>6, <2>7 DEF TypeOK
<1>3. ASSUME NEW w \in Workers, Poll(w) PROVE TypeOK'
  <2>1. PICK new \in SUBSET Ids, b \in Seq(Ids) :
           /\ batch' = [batch EXCEPT ![w] = b] /\ ToSet(b) = new /\ Ordered(b) /\ b # <<>>
           /\ pos' \in [Partitions -> Nat]
           /\ \A p \in Partitions :
                /\ pos[p] <= pos'[p] /\ pos'[p] <= Len(log[p])
                /\ owner[p] # w => pos'[p] = pos[p]
                /\ \A i \in Nat : <<p, i>> \in new <=> pos[p] < i /\ i <= pos'[p]
           /\ polled' = [polled EXCEPT ![w] = {p \in Partitions : pos[p] < pos'[p]}]
    BY <1>3, PollReads
  <2>2. batch' \in [Workers -> Seq(Ids)] /\ polled' \in [Workers -> SUBSET Partitions]
    BY <2>1 DEF TypeOK
  <2>3. \A v \in Workers : out[v] # <<>> => batch'[v] # <<>> /\ v \in up
    BY <2>1 DEF TypeOK
  <2>4. \A p \in Partitions : committed[p] <= pos'[p] /\ pos'[p] <= Len(log[p])
    BY <2>1 DEF TypeOK
  <2> QED BY <1>0, <1>3, <2>1, <2>2, <2>3, <2>4 DEF TypeOK, Poll
<1>4. ASSUME NEW w \in Workers, Reject(w) PROVE TypeOK'
  <2>1. Over(w) /\ batch[w] # <<>> /\ out[w] = <<>>
    BY <1>4 DEF Reject, Ready
  <2>2. batch' \in [Workers -> Seq(Ids)] /\ times' \in [Ids -> Nat]
    BY <2>1, OverTyped
  <2>3. \A v \in Workers : out[v] # <<>> => batch'[v] # <<>> /\ v \in up
    BY <2>1 DEF TypeOK, Over
  <2> QED BY <1>0, <1>4, <2>2, <2>3 DEF TypeOK, Reject
<1>5. ASSUME NEW w \in Workers, Unread(w) \/ Quit(w) \/ Die(w) PROVE TypeOK'
  <2>1. Leave(w)
    BY <1>5 DEF Unread, Quit, Die
  <2>2. events' \in Nat /\ UNCHANGED <<committed, pos, sent, shown, times, kicked>>
    BY <1>5 DEF Unread, Quit, Die, TypeOK
  <2>3. cut' \in [Partitions -> Nat]
    <3>1. cut' = cut \/ Cut(polled[w])
      BY <1>5 DEF Unread, Quit, Die
    <3> QED BY <3>1, CutCounts DEF TypeOK
  <2> QED BY <1>0, <2>1, <2>2, <2>3, LeaveTyped DEF TypeOK
<1>6. ASSUME NEW w \in Workers, Parse(w) PROVE TypeOK'
  <2> DEFINE m == Head(batch[w])
  <2>1. PICK outputs \in Seq(OutputTypes) :
          /\ out' = [out EXCEPT ![w] = outputs]
          /\ IF outputs = <<>> THEN Over(w) ELSE UNCHANGED <<batch, times>>
    BY <1>6, ParseResult
  <2>2. w \in up /\ batch[w] # <<>> /\ out[w] = <<>> /\ HasBody(m)
    BY <1>6, ParseResult
  <2>3. HostOf[Message(m).url] \in Hosts /\ Message(m).url \in Urls
    BY <2>2, HeadTyped
  <2>4. learner' \in [Workers -> Learners]
    <3> DEFINE l == Observe(learner[w], HostOf[Message(m).url], BlocksOf[Message(m).page])
    <3> HIDE DEF m
    <3>1. l \in Learners
      BY <2>3, LearnerTyped DEF TypeOK
    <3>2. learner' = learner \/ learner' = [learner EXCEPT ![w] = l]
      BY <1>6 DEF Parse, m
    <3> HIDE DEF l
    <3> QED BY <3>1, <3>2 DEF TypeOK
  <2>5. parses' \in [Workers -> [Urls -> Nat]]
    <3>1. parses' = parses \/ parses' = [parses EXCEPT ![w][Message(m).url] = @ + 1]
      BY <1>6 DEF Parse
    <3> HIDE DEF m
    <3>2. parses[w] \in [Urls -> Nat]
      BY DEF TypeOK
    <3>3. [parses[w] EXCEPT ![Message(m).url] = @ + 1] \in [Urls -> Nat]
      BY <2>3, <3>2
    <3> QED BY <3>1, <3>2, <3>3 DEF TypeOK
  <2> HIDE DEF m
  <2>6. out' \in [Workers -> Seq(OutputTypes)]
    BY <2>1 DEF TypeOK
  <2>7. batch' \in [Workers -> Seq(Ids)] /\ times' \in [Ids -> Nat]
    BY <2>1, <2>2, OverTyped DEF TypeOK
  <2>8. ASSUME NEW v \in Workers, out'[v] # <<>> PROVE batch'[v] # <<>> /\ v \in up
    <3>1. CASE v = w
      <4>1. out'[w] = outputs
        BY <2>1 DEF TypeOK
      <4> QED BY <2>1, <2>2, <2>8, <3>1, <4>1
    <3>2. CASE v # w
      <4>1. out'[v] = out[v] /\ batch'[v] = batch[v]
        BY <2>1, <3>2 DEF TypeOK, Over
      <4> QED BY <2>8, <4>1 DEF TypeOK
    <3> QED BY <3>1, <3>2
  <2>9. UNCHANGED <<log, groupVars, up, stopping, polled, sent, shown, cutVars, events>>
    BY <1>6 DEF Parse
  <2>10. /\ log' \in Logs /\ owner' \in [Partitions -> Workers \cup {None}]
         /\ settled' \in BOOLEAN
         /\ committed' \in [Partitions -> Nat] /\ pos' \in [Partitions -> Nat]
         /\ \A p \in Partitions : committed'[p] <= pos'[p] /\ pos'[p] <= Len(log'[p])
    BY <1>0, <2>9 DEF TypeOK
  <2>11. /\ up' \subseteq Workers /\ stopping' \subseteq up'
         /\ polled' \in [Workers -> SUBSET Partitions] /\ kicked' \subseteq Partitions
         /\ sent' \subseteq OutputTypes /\ shown' \in [Urls -> Nat]
         /\ cut' \in [Partitions -> Nat] /\ events' \in Nat
    BY <1>0, <2>9 DEF TypeOK
  <2>12. \A v \in Workers : out'[v] # <<>> => batch'[v] # <<>> /\ v \in up'
    BY <2>8, <2>9
  <2> QED BY <1>0, <2>4, <2>5, <2>6, <2>7, <2>10, <2>11, <2>12 DEF TypeOK
<1>7. ASSUME NEW w \in Workers, Emit(w) PROVE TypeOK'
  <2> DEFINE o == Head(out[w])
  <2>1. out[w] # <<>> /\ batch[w] # <<>> /\ w \in up
    BY <1>7 DEF Emit, TypeOK
  <2>2. o \in OutputTypes /\ Tail(out[w]) \in Seq(OutputTypes) /\ (Len(out[w]) = 1 <=> Tail(out[w]) = <<>>)
    BY <2>1, ToSetTail DEF TypeOK
  <2>3. out' \in [Workers -> Seq(OutputTypes)]
    BY <1>7, <2>2 DEF TypeOK, Emit
  <2>4. batch' \in [Workers -> Seq(Ids)] /\ times' \in [Ids -> Nat]
    BY <1>7, <2>1, OverTyped DEF TypeOK, Emit
  <2>5. ASSUME NEW v \in Workers, out'[v] # <<>> PROVE batch'[v] # <<>> /\ v \in up
    <3>1. out' = [out EXCEPT ![w] = Tail(@)]
      BY <1>7 DEF Emit
    <3>2. CASE v = w
      <4>1. Len(out[w]) # 1
        BY <2>2, <2>5, <3>1, <3>2 DEF TypeOK
      <4> QED BY <1>7, <2>1, <3>2, <4>1 DEF Emit
    <3>3. CASE v # w
      <4>1. batch[v] # <<>> /\ v \in up
        BY <2>5, <3>1, <3>3 DEF TypeOK
      <4> QED BY <1>7, <3>3, <4>1 DEF Emit, Over, TypeOK
    <3> QED BY <3>2, <3>3
  <2>6. sent' \subseteq OutputTypes /\ shown' \in [Urls -> Nat]
    <3>1. sent' \subseteq OutputTypes
      BY <1>7, <2>2 DEF Emit, TypeOK
    <3>2. Head(batch[w])[2] \in Nat
      BY <2>1, HeadTyped, IdTyped DEF TypeOK
    <3>3. shown' \in [Urls -> Nat]
      BY <1>7, <3>2 DEF Emit, TypeOK
    <3> QED BY <3>1, <3>3
  <2> QED BY <1>0, <1>7, <2>3, <2>4, <2>5, <2>6 DEF TypeOK, Emit
<1>8. ASSUME NEW w \in Workers, Commit(w) PROVE TypeOK'
  <2>1. committed' \in [Partitions -> Nat] /\ polled' \in [Workers -> SUBSET Partitions]
    BY <1>8 DEF Commit, TypeOK
  <2>2. \A p \in Partitions : committed'[p] <= pos[p]
    BY <1>8 DEF Commit, TypeOK
  <2> QED BY <1>0, <1>8, <2>1, <2>2 DEF TypeOK, Commit
<1>9. ASSUME NEW w \in Workers, Start(w) \/ Stop(w) PROVE TypeOK'
  <2>1. CASE Start(w)
    <3>1. /\ UNCHANGED <<committed, owner, pos, stopping, polled, batch, out, learner, parses,
                          sent, shown, times, kicked, cut, events>>
          /\ up' = up \cup {w} /\ settled' = FALSE
      BY <2>1 DEF Start
    <3> QED BY <1>0, <3>1 DEF TypeOK
  <2>2. CASE Stop(w)
    <3>1. /\ UNCHANGED <<committed, owner, pos, settled, up, polled, batch, out, learner,
                          parses, sent, shown, times, kicked, cut>>
          /\ w \in up /\ stopping' = stopping \cup {w} /\ events' = events + 1
      BY <2>2 DEF Stop
    <3> QED BY <1>0, <3>1 DEF TypeOK
  <2> QED BY <1>9, <2>1, <2>2
<1>10. CASE UNCHANGED vars
  BY <1>0, <1>10 DEF TypeOK, vars
<1> QED BY <1>1, <1>3, <1>4, <1>5, <1>6, <1>7, <1>8, <1>9, <1>10
        DEF Next, Step, PollNothing

\* Nothing is read or published at first.
LEMMA TypeInit == Init => TypeOK
<1> SUFFICES ASSUME Init PROVE TypeOK
  OBVIOUS
<1>1. NewLearner \in Learners
  BY DEF NewLearner, Learners
<1>2. \A p \in Partitions : Len(log[p]) \in Nat
  BY LogsType DEF Init
<1>3. batch \in [Workers -> Seq(Ids)] /\ out \in [Workers -> Seq(OutputTypes)]
  BY <<>> \in Seq(Ids), <<>> \in Seq(OutputTypes) DEF Init
<1>4. \A w \in Workers : out[w] = <<>>
  BY DEF Init
<1> QED BY <1>1, <1>2, <1>3, <1>4 DEF Init, TypeOK

\* Type correctness: the positions and batches of the workers, their learners
\* and what they publish keep to their types.
THEOREM TypeCorrect == Spec => []TypeOK
BY TypeInit, TypeStep, PTL DEF Spec
-----------------------------------------------------------------------------
(* The group: who reads what, and how far.                                 *)

\* What a worker may commit is of partitions it owns, which it has read past what is
\* committed; its batch is of messages not committed yet, of partitions it owns unless
\* they were given to another.
GroupInv ==
  /\ \A w \in Workers : \A p \in polled[w] : owner[p] = w
  /\ \A w \in Workers, p \in Partitions :
       owner[p] = w => w \in up /\ (p \in polled[w] \/ pos[p] = committed[p])
  /\ \A w \in Workers : \A m \in ToSet(batch[w]) :
       m[1] \in kicked \/ (owner[m[1]] = w /\ committed[m[1]] < m[2])
  /\ \A w \in Workers : Ordered(batch[w])

\* What is left of an ordered batch is ordered, and comes after what was taken.
LEMMA OrderedTail ==
  ASSUME NEW s \in Seq(Ids), s # <<>>, Ordered(s)
  PROVE  /\ Ordered(Tail(s))
         /\ \A m \in ToSet(Tail(s)) : m[1] = Head(s)[1] => Before(Head(s), m)
<1> DEFINE r == Tail(s)
<1>1. /\ Len(s) \in Nat \ {0} /\ Len(r) = Len(s) - 1 /\ DOMAIN s = 1 .. Len(s)
      /\ DOMAIN r = 1 .. Len(r) /\ Head(s) = s[1]
      /\ \A i \in 1 .. Len(r) : i + 1 \in 1 .. Len(s) /\ r[i] = s[i + 1]
  OBVIOUS
<1>2. \A i, j \in 1 .. Len(s) :
        i < j => IF s[i][1] = s[j][1] THEN Before(s[i], s[j])
                 ELSE \A k \in j .. Len(s) : s[k][1] # s[i][1]
  BY <1>1 DEF Ordered
<1> HIDE DEF r
<1>3. ASSUME NEW i \in 1 .. Len(r), NEW j \in 1 .. Len(r), i < j
      PROVE  IF r[i][1] = r[j][1] THEN Before(r[i], r[j])
             ELSE \A k \in j .. Len(r) : r[k][1] # r[i][1]
  <2>1. i + 1 \in 1 .. Len(s) /\ j + 1 \in 1 .. Len(s) /\ i + 1 < j + 1
    BY <1>1, <1>3
  <2>2. IF s[i + 1][1] = s[j + 1][1] THEN Before(s[i + 1], s[j + 1])
        ELSE \A k \in j + 1 .. Len(s) : s[k][1] # s[i + 1][1]
    BY <1>2, <2>1
  <2>3. r[i] = s[i + 1] /\ r[j] = s[j + 1]
    BY <1>1
  <2>4. ASSUME NEW k \in j .. Len(r), r[i][1] # r[j][1] PROVE r[k][1] # r[i][1]
    <3>1. k + 1 \in j + 1 .. Len(s) /\ r[k] = s[k + 1]
      BY <1>1
    <3> QED BY <2>2, <2>3, <2>4, <3>1
  <2> QED BY <2>2, <2>3, <2>4
<1>4. Ordered(r)
  BY <1>1, <1>3 DEF Ordered
<1>5. ASSUME NEW i \in 1 .. Len(r), r[i][1] = s[1][1] PROVE Before(s[1], r[i])
  <2>1. 1 \in 1 .. Len(s) /\ i + 1 \in 1 .. Len(s) /\ 1 < i + 1 /\ r[i] = s[i + 1]
    BY <1>1
  <2>2. s[1][1] = s[i + 1][1]
    BY <1>5, <2>1
  <2> QED BY <1>2, <2>1, <2>2
<1> QED BY <1>1, <1>4, <1>5 DEF ToSet, r

\* The message in hand comes once in the batch.
LEMMA HeadOnce ==
  ASSUME TypeOK, NEW w \in Workers, batch[w] # <<>>, Ordered(batch[w])
  PROVE  Head(batch[w]) \notin ToSet(Tail(batch[w]))
<1> DEFINE m == Head(batch[w])
<1>1. m \in Ids /\ batch[w] \in Seq(Ids)
  BY HeadTyped DEF TypeOK
<1> HIDE DEF m
<1>2. m[2] \in Nat
  BY <1>1, IdTyped DEF TypeOK
<1>3. Message(m).url \in Urls
  BY HeadTyped DEF m
<1>4. ~Before(m, m)
  <2>1. UrlRank[Message(m).url] \in Nat
    BY <1>3, PagesType
  <2> QED BY <1>2, <2>1 DEF Before
<1> QED BY <1>1, <1>4, OrderedTail DEF m

\* The order of a batch is that of the log, which stays.
LEMMA OrderedNext ==
  ASSUME log' = log, NEW w \in Workers, Ordered(batch'[w])
  PROVE  Ordered(batch[w])'
BY DEF Ordered, Before, Message

\* Handling a message only makes a batch shorter.
LEMMA GroupShrinks ==
  ASSUME TypeOK, GroupInv, log' = log,
         UNCHANGED <<committed, owner, pos, up, polled, kicked>>,
         \/ batch' = batch
         \/ \E w \in Workers : batch[w] # <<>> /\ batch' = [batch EXCEPT ![w] = Tail(@)]
  PROVE  GroupInv'
<1>1. ASSUME NEW v \in Workers PROVE ToSet(batch'[v]) \subseteq ToSet(batch[v]) /\ Ordered(batch'[v])
  <2>1. CASE batch' = batch
    BY <2>1 DEF GroupInv
  <2>2. ASSUME NEW w \in Workers, batch[w] # <<>>, batch' = [batch EXCEPT ![w] = Tail(@)]
        PROVE  ToSet(batch'[v]) \subseteq ToSet(batch[v]) /\ Ordered(batch'[v])
    <3>1. CASE v = w
      <4>1. batch'[w] = Tail(batch[w]) /\ batch[w] \in Seq(Ids) /\ Ordered(batch[w])
        BY <2>2 DEF TypeOK, GroupInv
      <4> QED BY <2>2, <3>1, <4>1, OrderedTail, ToSetTail
    <3>2. CASE v # w
      BY <2>2, <3>2 DEF TypeOK, GroupInv
    <3> QED BY <3>1, <3>2
  <2> QED BY <2>1, <2>2
<1>2. \A v \in Workers : Ordered(batch[v])'
  BY <1>1, OrderedNext
<1>3. \A v \in Workers : \A m \in ToSet(batch'[v]) :
        m[1] \in kicked \/ (owner[m[1]] = v /\ committed[m[1]] < m[2])
  BY <1>1 DEF GroupInv
<1> QED BY <1>2, <1>3 DEF GroupInv

\* A process that ends leaves the others' parts of the group alone.
LEMMA GroupLeave ==
  ASSUME TypeOK, GroupInv, log' = log, NEW w \in Workers, Leave(w),
         UNCHANGED <<committed, pos, kicked>>
  PROVE  GroupInv'
<1>1. \A v \in Workers : polled'[v] = IF v = w THEN {} ELSE polled[v]
  BY DEF Leave, TypeOK
<1>2. \A v \in Workers : batch'[v] = IF v = w THEN <<>> ELSE batch[v]
  BY DEF Leave, TypeOK
<1>3. \A p \in Partitions : owner'[p] = IF owner[p] = w THEN None ELSE owner[p]
  BY DEF Leave
<1>4. \A v \in Workers : \A p \in polled'[v] : owner'[p] = v
  BY <1>1, <1>3 DEF GroupInv, TypeOK
<1>5. \A v \in Workers, p \in Partitions :
        owner'[p] = v => v \in up' /\ (p \in polled'[v] \/ pos[p] = committed[p])
  BY <1>1, <1>3, PagesType DEF GroupInv, Leave
<1>6. ASSUME NEW v \in Workers, NEW m \in ToSet(batch'[v])
      PROVE  m[1] \in kicked \/ (owner'[m[1]] = v /\ committed[m[1]] < m[2])
  <2>1. v # w /\ m \in ToSet(batch[v]) /\ batch[v] \in Seq(Ids)
    BY <1>2 DEF ToSet, TypeOK
  <2>2. m[1] \in Partitions
    BY <2>1, IdTyped DEF ToSet, TypeOK
  <2> QED BY <1>3, <2>1, <2>2 DEF GroupInv
<1>7. \A v \in Workers : Ordered(batch[v])'
  <2>1. Ordered(<<>>)
    BY DEF Ordered
  <2>2. \A v \in Workers : Ordered(batch'[v])
    BY <1>2, <2>1 DEF GroupInv
  <2> QED BY <2>2, OrderedNext
<1> QED BY <1>4, <1>5, <1>6, <1>7 DEF GroupInv
\* Each action keeps the group as it should be.
LEMMA GroupStep == TypeOK /\ GroupInv /\ [Next]_vars => GroupInv'
<1> SUFFICES ASSUME TypeOK, GroupInv, [Next]_vars PROVE GroupInv'
  OBVIOUS
<1> USE DEF groupVars, workVars, sentVars, cutVars
<1>0. log' = log
  BY LogStays
<1>1. ASSUME Settle \/ Rejoin PROVE GroupInv'
  <2>1. Regroup
    BY <1>1 DEF Settle, Rejoin
  <2>2. /\ owner' \in [Partitions -> up] /\ \A p \in Partitions : pos'[p] = committed[p]
        /\ \A w \in Workers : polled'[w] = {}
        /\ kicked \subseteq kicked' /\ UNCHANGED <<committed, up, batch>>
        /\ \A w \in Workers : \A m \in ToSet(batch[w]) :
             m[1] \in Partitions /\ owner'[m[1]] # w => m[1] \in kicked'
    BY <2>1, RegroupResult
  <2>3. \A v \in Workers, q \in Partitions :
          owner'[q] = v => v \in up /\ (q \in polled'[v] \/ pos'[q] = committed[q])
    BY <2>2
  <2>4. ASSUME NEW v \in Workers, NEW m \in ToSet(batch[v])
        PROVE  m[1] \in kicked' \/ (owner'[m[1]] = v /\ committed[m[1]] < m[2])
    <3>1. m[1] \in Partitions
      BY IdTyped DEF ToSet, TypeOK
    <3> QED BY <2>2, <3>1 DEF GroupInv
  <2>5. \A v \in Workers : Ordered(batch[v])'
    BY <1>0, <2>2, OrderedNext DEF GroupInv
  <2> QED BY <2>2, <2>3, <2>4, <2>5 DEF GroupInv
<1>3. ASSUME NEW w \in Workers, Poll(w) PROVE GroupInv'
  <2>1. PICK new \in SUBSET Ids, b \in Seq(Ids) :
           /\ batch' = [batch EXCEPT ![w] = b] /\ ToSet(b) = new /\ Ordered(b) /\ b # <<>>
           /\ pos' \in [Partitions -> Nat]
           /\ \A p \in Partitions :
                /\ pos[p] <= pos'[p] /\ pos'[p] <= Len(log[p])
                /\ owner[p] # w => pos'[p] = pos[p]
                /\ \A i \in Nat : <<p, i>> \in new <=> pos[p] < i /\ i <= pos'[p]
           /\ polled' = [polled EXCEPT ![w] = {p \in Partitions : pos[p] < pos'[p]}]
    BY <1>3, PollReads
  <2>2. /\ polled[w] = {} /\ UNCHANGED <<committed, owner, up, kicked>>
    BY <1>3 DEF Poll, Idle
  <2>3. \A v \in Workers :
          polled'[v] = IF v = w THEN {p \in Partitions : pos[p] < pos'[p]} ELSE polled[v]
    BY <2>1 DEF TypeOK
  <2>4. \A p \in Partitions : pos[p] \in Nat /\ pos'[p] \in Nat /\ committed[p] \in Nat /\ committed[p] <= pos[p]
    BY <2>1 DEF TypeOK
  <2>5. \A v \in Workers : \A q \in polled'[v] : owner[q] = v
    BY <2>1, <2>3, <2>4 DEF GroupInv
  <2>6. ASSUME NEW v \in Workers, NEW q \in Partitions, owner[q] = v
        PROVE  v \in up /\ (q \in polled'[v] \/ pos'[q] = committed[q])
    <3>1. v \in up /\ (q \in polled[v] \/ pos[q] = committed[q])
      BY <2>6 DEF GroupInv
    <3>2. CASE v = w
      <4>1. pos[q] = committed[q] /\ pos[q] <= pos'[q]
        BY <2>1, <2>2, <3>1, <3>2
      <4>2. pos[q] < pos'[q] => q \in polled'[v]
        BY <2>3, <3>2
      <4> QED BY <2>4, <3>1, <4>1, <4>2
    <3>3. CASE v # w
      BY <2>1, <2>3, <2>6, <3>1, <3>3
    <3> QED BY <3>2, <3>3
  <2>7. ASSUME NEW v \in Workers, NEW m \in ToSet(batch'[v])
        PROVE  m[1] \in kicked \/ (owner[m[1]] = v /\ committed[m[1]] < m[2])
    <3>1. CASE v = w
      <4>1. m \in new /\ m \in Ids
        BY <2>1, <3>1 DEF TypeOK
      <4>2. m = <<m[1], m[2]>> /\ m[1] \in Partitions /\ m[2] \in Nat
        BY <4>1, IdTyped DEF TypeOK
      <4>3. pos[m[1]] < m[2] /\ m[2] <= pos'[m[1]]
        <5>1. <<m[1], m[2]>> \in new
          BY <4>1, <4>2
        <5> QED BY <2>1, <4>2, <5>1
      <4>4. owner[m[1]] = w
        BY <2>1, <2>4, <4>2, <4>3
      <4>5. committed[m[1]] < m[2]
        BY <2>4, <4>2, <4>3
      <4> QED BY <3>1, <4>4, <4>5
    <3>2. CASE v # w
      <4>1. m \in ToSet(batch[v])
        BY <2>1, <3>2 DEF TypeOK
      <4> QED BY <4>1 DEF GroupInv
    <3> QED BY <3>1, <3>2
  <2>8. \A v \in Workers : Ordered(batch[v])'
    <3>1. \A v \in Workers : Ordered(batch'[v])
      BY <2>1 DEF GroupInv, TypeOK
    <3> QED BY <1>0, <3>1, OrderedNext
  <2> QED BY <2>2, <2>5, <2>6, <2>7, <2>8 DEF GroupInv
<1>4. ASSUME NEW w \in Workers, Reject(w) \/ Parse(w) \/ Emit(w) PROVE GroupInv'
  <2>1. UNCHANGED <<committed, owner, pos, up, polled, kicked>>
    BY <1>4 DEF Reject, Parse, Emit
  <2>2. batch[w] # <<>>
    BY <1>4 DEF Reject, Parse, Emit, Ready, TypeOK
  <2>3. batch' = batch \/ batch' = [batch EXCEPT ![w] = Tail(@)]
    BY <1>4 DEF Reject, Parse, Emit, Over
  <2> QED BY <1>0, <2>1, <2>2, <2>3, GroupShrinks
<1>5. ASSUME NEW w \in Workers, Unread(w) \/ Quit(w) \/ Die(w) PROVE GroupInv'
  <2>1. Leave(w) /\ UNCHANGED <<committed, pos, kicked>>
    BY <1>5 DEF Unread, Quit, Die
  <2> QED BY <1>0, <2>1, GroupLeave
<1>6. ASSUME NEW w \in Workers, Commit(w) PROVE GroupInv'
  <2>1. batch[w] = <<>> /\ UNCHANGED <<owner, pos, up, batch, kicked>>
    BY <1>6 DEF Commit
  <2>2. \A v \in Workers : polled'[v] = IF v = w THEN {} ELSE polled[v]
    BY <1>6 DEF Commit, TypeOK
  <2>3. \A p \in Partitions : committed'[p] = IF p \in polled[w] THEN pos[p] ELSE committed[p]
    BY <1>6 DEF Commit
  <2>4. \A v \in Workers : \A q \in polled'[v] : owner[q] = v
    BY <2>2 DEF GroupInv
  <2>5. \A v \in Workers, q \in Partitions :
          owner[q] = v => v \in up /\ (q \in polled'[v] \/ pos[q] = committed'[q])
    BY <2>2, <2>3 DEF GroupInv
  <2>6. ASSUME NEW v \in Workers, NEW m \in ToSet(batch[v])
        PROVE  m[1] \in kicked \/ (owner[m[1]] = v /\ committed'[m[1]] < m[2])
    <3>1. v # w
      BY <2>1 DEF ToSet
    <3>2. m[1] \in Partitions
      BY IdTyped DEF ToSet, TypeOK
    <3>3. owner[m[1]] = v => m[1] \notin polled[w]
      BY <3>1 DEF GroupInv
    <3> QED BY <2>3, <3>2, <3>3 DEF GroupInv
  <2>7. \A v \in Workers : Ordered(batch[v])'
    BY <1>0, <2>1, OrderedNext DEF GroupInv
  <2> QED BY <2>1, <2>4, <2>5, <2>6, <2>7 DEF GroupInv
<1>7. ASSUME NEW w \in Workers, Start(w) \/ Stop(w) PROVE GroupInv'
  <2>1. UNCHANGED <<committed, owner, pos, polled, batch, kicked>> /\ up \subseteq up'
    BY <1>7 DEF Start, Stop
  <2>2. \A v \in Workers : Ordered(batch[v])'
    BY <1>0, <2>1, OrderedNext DEF GroupInv
  <2> QED BY <2>1, <2>2 DEF GroupInv
<1>8. CASE UNCHANGED vars
  <2>1. \A v \in Workers : Ordered(batch[v])'
    BY <1>0, <1>8, OrderedNext DEF GroupInv, vars
  <2> QED BY <1>8, <2>1 DEF GroupInv, vars
<1> QED BY <1>1, <1>3, <1>4, <1>5, <1>6, <1>7, <1>8 DEF Next, Step, PollNothing

\* Nothing is read at first.
LEMMA GroupInit == Init => GroupInv
<1> SUFFICES ASSUME Init PROVE GroupInv
  OBVIOUS
<1>1. \A w \in Workers : polled[w] = {} /\ batch[w] = <<>>
  BY DEF Init
<1>2. Ordered(<<>>) /\ ToSet(<<>>) = {}
  BY DEF Ordered, ToSet
<1>3. up = Workers /\ \A p \in Partitions : pos[p] = committed[p]
  BY DEF Init
<1> QED BY <1>1, <1>2, <1>3 DEF GroupInv

\* Who reads what, and how far, is as it should be throughout.
LEMMA GroupAlways == Spec => [](TypeOK /\ GroupInv)
BY TypeInit, TypeStep, GroupInit, GroupStep, PTL DEF Spec
-----------------------------------------------------------------------------
(* CommittedIsPublished.                                                   *)

\* What is due of a message has been published.
Published(p, i) == Due(log[p][i].page) \subseteq sent

\* What is read and not committed is published or still in the batch, and what is
\* due of the message in hand and not published is still to be emitted.
PublishedInv ==
  /\ \A p \in Partitions : \A i \in 1 .. committed[p] : Published(p, i)
  /\ \A w \in Workers : \A p \in polled[w] : \A i \in committed[p] + 1 .. pos[p] :
       Published(p, i) \/ <<p, i>> \in ToSet(batch[w])
  /\ \A w \in Workers :
       out[w] # <<>> => Due(Message(Head(batch[w])).page) \subseteq sent \cup ToSet(out[w])

\* Published after a step is what is due among what was sent by then.
LEMMA PublishedNext ==
  ASSUME log' = log, NEW p \in Partitions, NEW i \in Nat
  PROVE  Published(p, i)' <=> Due(log[p][i].page) \subseteq sent'
BY DEF Published, Due

\* What no worker is about to commit may change hands.
LEMMA PublishedQuiet ==
  ASSUME TypeOK, TypeOK', PublishedInv, log' = log, UNCHANGED <<committed, sent>>,
         \A v \in Workers :
           /\ polled'[v] \subseteq polled[v] /\ \A p \in polled'[v] : pos'[p] = pos[p]
           /\ polled'[v] = {} \/ batch'[v] = batch[v]
           /\ out'[v] = <<>> \/ (out'[v] = out[v] /\ batch'[v] = batch[v])
  PROVE  PublishedInv'
<1>1. \A p \in Partitions : committed[p] \in Nat /\ pos'[p] \in Nat
  BY DEF TypeOK
<1>2. ASSUME NEW p \in Partitions, NEW i \in 1 .. committed[p] PROVE Published(p, i)'
  <2>1. i \in Nat
    BY <1>1
  <2> QED BY <2>1, PublishedNext DEF PublishedInv, Published
<1>3. ASSUME NEW v \in Workers, NEW p \in polled'[v], NEW i \in committed[p] + 1 .. pos'[p]
      PROVE  Published(p, i)' \/ <<p, i>> \in ToSet(batch'[v])
  <2>1. p \in Partitions /\ p \in polled[v] /\ i \in committed[p] + 1 .. pos[p]
    BY DEF TypeOK
  <2>2. i \in Nat
    BY <1>1, <2>1
  <2>3. Published(p, i) \/ <<p, i>> \in ToSet(batch[v])
    BY <2>1 DEF PublishedInv
  <2> QED BY <2>1, <2>2, <2>3, PublishedNext DEF Published
<1>4. ASSUME NEW v \in Workers, out'[v] # <<>>
      PROVE  Due(log[Head(batch'[v])[1]][Head(batch'[v])[2]].page) \subseteq sent' \cup ToSet(out'[v])
  BY <1>4 DEF PublishedInv, Message
<1>5. ASSUME NEW v \in Workers, out'[v] # <<>>
      PROVE  (Due(Message(Head(batch[v])).page) \subseteq sent \cup ToSet(out[v]))'
  BY <1>4, <1>5 DEF Message, Due
<1> QED BY <1>2, <1>3, <1>5 DEF PublishedInv
\* A message leaves a batch when all that is due of it has been sent.
LEMMA PublishedGrows ==
  ASSUME TypeOK, TypeOK', PublishedInv, log' = log, sent \subseteq sent',
         UNCHANGED <<committed, pos, polled>>,
         \A v \in Workers :
           /\ \A m \in ToSet(batch[v]) :
                m \in ToSet(batch'[v]) \/ Due(log[m[1]][m[2]].page) \subseteq sent'
           /\ out'[v] # <<>> => Due(log[Head(batch'[v])[1]][Head(batch'[v])[2]].page)
                                  \subseteq sent' \cup ToSet(out'[v])
  PROVE  PublishedInv'
<1>1. \A p \in Partitions : committed[p] \in Nat /\ pos[p] \in Nat
  BY DEF TypeOK
<1>2. ASSUME NEW p \in Partitions, NEW i \in 1 .. committed[p] PROVE Published(p, i)'
  <2>1. i \in Nat
    BY <1>1
  <2> QED BY <2>1, PublishedNext DEF PublishedInv, Published
<1>3. ASSUME NEW v \in Workers, NEW p \in polled[v], NEW i \in committed[p] + 1 .. pos[p]
      PROVE  Published(p, i)' \/ <<p, i>> \in ToSet(batch'[v])
  <2>1. p \in Partitions
    BY DEF TypeOK
  <2>2. i \in Nat
    BY <1>1, <2>1
  <2>3. CASE Published(p, i)
    BY <2>1, <2>2, <2>3, PublishedNext DEF Published
  <2>4. CASE <<p, i>> \in ToSet(batch[v])
    <3>1. <<p, i>> \in ToSet(batch'[v]) \/ Due(log[<<p, i>>[1]][<<p, i>>[2]].page) \subseteq sent'
      BY <2>4
    <3> QED BY <2>1, <2>2, <3>1, PublishedNext
  <2> QED BY <2>3, <2>4 DEF PublishedInv
<1>4. ASSUME NEW v \in Workers, out'[v] # <<>>
      PROVE  (Due(Message(Head(batch[v])).page) \subseteq sent \cup ToSet(out[v]))'
  BY <1>4 DEF Message, Due
<1> QED BY <1>2, <1>3, <1>4 DEF PublishedInv

\* Each action that handles a message sends what is due of it first.
LEMMA PublishedHandled ==
  ASSUME TypeOK, TypeOK', GroupInv, PublishedInv, log' = log, NEW w \in Workers,
         Reject(w) \/ Parse(w) \/ Emit(w)
  PROVE  PublishedInv'
<1> DEFINE m == Head(batch[w])
<1>1. UNCHANGED <<committed, pos, polled>>
  BY DEF Reject, Parse, Emit, groupVars
<1>2. /\ batch[w] # <<>> /\ batch[w] \in Seq(Ids) /\ m \in Ids
      /\ ToSet(batch[w]) = {m} \cup ToSet(Tail(batch[w]))
  BY ToSetTail DEF Reject, Parse, Emit, Ready, TypeOK
<1>3. sent \subseteq sent'
  BY DEF Reject, Parse, Emit
<1>4. \A v \in Workers : v # w => batch'[v] = batch[v] /\ out'[v] = out[v]
  BY DEF Reject, Parse, Emit, Over, TypeOK
<1>5. batch'[w] = batch[w] \/ batch'[w] = Tail(batch[w])
  BY DEF Reject, Parse, Emit, Over, TypeOK
<1>6. ASSUME batch'[w] # batch[w] PROVE Due(Message(m).page) \subseteq sent'
  <2>1. CASE Reject(w)
    BY <2>1 DEF Reject, HasBody, Due
  <2>2. CASE Parse(w)
    <3>1. PICK outputs \in Seq(OutputTypes) :
            /\ IF outputs = <<>> THEN Over(w) ELSE UNCHANGED <<batch, times>>
            /\ Due(Message(m).page) \subseteq ToSet(outputs)
      BY <2>2, ParseResult
    <3> QED BY <1>6, <3>1 DEF ToSet
  <2>3. CASE Emit(w)
    <3>1. out[w] # <<>> /\ out[w] \in Seq(OutputTypes) /\ Len(out[w]) = 1
      BY <1>6, <2>3 DEF Emit, TypeOK
    <3>2. ToSet(out[w]) = {Head(out[w])}
      BY <3>1, ToSetTail DEF ToSet
    <3>3. sent' = sent \cup {Head(out[w])}
      BY <2>3 DEF Emit
    <3> QED BY <3>1, <3>2, <3>3 DEF PublishedInv
  <2> QED BY <2>1, <2>2, <2>3
<1>7. ASSUME out'[w] # <<>>
      PROVE  batch'[w] = batch[w] /\ Due(Message(m).page) \subseteq sent' \cup ToSet(out'[w])
  <2>1. CASE Reject(w)
    BY <1>7, <2>1 DEF Reject, Ready
  <2>2. CASE Parse(w)
    <3>1. PICK outputs \in Seq(OutputTypes) :
            /\ out' = [out EXCEPT ![w] = outputs]
            /\ IF outputs = <<>> THEN Over(w) ELSE UNCHANGED <<batch, times>>
            /\ Due(Message(m).page) \subseteq ToSet(outputs)
      BY <2>2, ParseResult
    <3>2. out'[w] = outputs
      BY <3>1 DEF TypeOK
    <3> QED BY <1>7, <3>1, <3>2
  <2>3. CASE Emit(w)
    <3>1. out[w] # <<>> /\ out[w] \in Seq(OutputTypes) /\ out'[w] = Tail(out[w])
      BY <2>3 DEF Emit, TypeOK
    <3>2. ToSet(out[w]) = {Head(out[w])} \cup ToSet(out'[w]) /\ Len(out[w]) # 1
      BY <1>7, <3>1, ToSetTail
    <3>3. sent' = sent \cup {Head(out[w])} /\ batch' = batch
      BY <2>3, <3>2 DEF Emit
    <3>4. Due(Message(m).page) \subseteq sent \cup ToSet(out[w])
      BY <3>1 DEF PublishedInv
    <3> QED BY <3>2, <3>3, <3>4
  <2> QED BY <2>1, <2>2, <2>3
<1>8. ASSUME NEW v \in Workers, NEW n \in ToSet(batch[v])
      PROVE  n \in ToSet(batch'[v]) \/ Due(log[n[1]][n[2]].page) \subseteq sent'
  <2>1. CASE v = w /\ batch'[w] # batch[w]
    BY <1>2, <1>5, <1>6, <2>1 DEF Message
  <2>2. CASE v # w \/ batch'[w] = batch[w]
    BY <1>4, <2>2
  <2> QED BY <2>1, <2>2
<1>9. ASSUME NEW v \in Workers, out'[v] # <<>>
      PROVE  Due(log[Head(batch'[v])[1]][Head(batch'[v])[2]].page) \subseteq sent' \cup ToSet(out'[v])
  <2>1. CASE v = w
    BY <1>7, <1>9, <2>1 DEF Message
  <2>2. CASE v # w
    BY <1>3, <1>4, <1>9, <2>2 DEF PublishedInv, Message
  <2> QED BY <2>1, <2>2
<1> QED BY <1>1, <1>3, <1>8, <1>9, PublishedGrows

\* Each action keeps what is committed published.
LEMMA PublishedStep ==
  TypeOK /\ TypeOK' /\ GroupInv /\ GroupInv' /\ PublishedInv /\ [Next]_vars => PublishedInv'
<1> SUFFICES ASSUME TypeOK, TypeOK', GroupInv, GroupInv', PublishedInv, [Next]_vars
             PROVE  PublishedInv'
  OBVIOUS
<1> USE DEF groupVars, workVars, sentVars, cutVars
<1>0. log' = log
  BY LogStays
<1>1. ASSUME Settle \/ Rejoin PROVE PublishedInv'
  <2>1. Regroup
    BY <1>1 DEF Settle, Rejoin
  <2>2. UNCHANGED <<committed, sent, batch, out>> /\ \A v \in Workers : polled'[v] = {}
    BY <2>1, RegroupResult
  <2> QED BY <1>0, <2>2, PublishedQuiet
<1>2. ASSUME NEW w \in Workers, Poll(w) PROVE PublishedInv'
  <2>1. PICK new \in SUBSET Ids, b \in Seq(Ids) :
           /\ batch' = [batch EXCEPT ![w] = b] /\ ToSet(b) = new /\ Ordered(b) /\ b # <<>>
           /\ pos' \in [Partitions -> Nat]
           /\ \A p \in Partitions :
                /\ pos[p] <= pos'[p] /\ pos'[p] <= Len(log[p])
                /\ owner[p] # w => pos'[p] = pos[p]
                /\ \A i \in Nat : <<p, i>> \in new <=> pos[p] < i /\ i <= pos'[p]
           /\ polled' = [polled EXCEPT ![w] = {p \in Partitions : pos[p] < pos'[p]}]
    BY <1>2, PollReads
  <2>2. /\ polled[w] = {} /\ batch[w] = <<>> /\ UNCHANGED <<committed, sent, out>>
    BY <1>2 DEF Poll, Idle
  <2>3. \A v \in Workers : v # w => polled'[v] = polled[v] /\ batch'[v] = batch[v]
    BY <2>1 DEF TypeOK
  <2>4. \A p \in Partitions : committed[p] \in Nat /\ pos[p] \in Nat /\ pos'[p] \in Nat
    BY <2>1 DEF TypeOK
  <2>5. ASSUME NEW p \in Partitions, NEW i \in 1 .. committed[p] PROVE Published(p, i)'
    <3>1. i \in Nat
      BY <2>4
    <3> QED BY <1>0, <2>2, <3>1, PublishedNext DEF PublishedInv, Published
  <2>6. ASSUME NEW v \in Workers, NEW p \in polled'[v], NEW i \in committed[p] + 1 .. pos'[p]
        PROVE  Published(p, i)' \/ <<p, i>> \in ToSet(batch'[v])
    <3>1. p \in Partitions
      BY DEF TypeOK
    <3>2. i \in Nat
      BY <2>4, <3>1
    <3>3. CASE v = w
      <4>1. owner[p] = w
        BY <2>1, <2>4, <3>1, <3>3 DEF TypeOK
      <4>2. pos[p] = committed[p]
        BY <2>2, <3>1, <4>1 DEF GroupInv
      <4>3. <<p, i>> \in new
        BY <2>1, <2>4, <3>1, <3>2, <4>2
      <4> QED BY <2>1, <3>3, <4>3 DEF TypeOK
    <3>4. CASE v # w
      <4>1. p \in polled[v] /\ owner[p] = v
        BY <2>3, <3>4 DEF GroupInv
      <4>2. pos'[p] = pos[p]
        BY <2>1, <3>1, <3>4, <4>1
      <4>3. Published(p, i) \/ <<p, i>> \in ToSet(batch[v])
        BY <4>1, <4>2 DEF PublishedInv
      <4> QED BY <1>0, <2>2, <2>3, <3>1, <3>2, <3>4, <4>3, PublishedNext DEF Published
    <3> QED BY <3>3, <3>4
  <2>7. ASSUME NEW v \in Workers, out[v] # <<>>
        PROVE  (Due(Message(Head(batch[v])).page) \subseteq sent \cup ToSet(out[v]))'
    <3>1. v # w
      BY <2>2, <2>7 DEF TypeOK
    <3>2. batch'[v] = batch[v] /\ out'[v] = out[v]
      BY <2>2, <2>3, <3>1
    <3>3. Due(log[Head(batch[v])[1]][Head(batch[v])[2]].page) \subseteq sent \cup ToSet(out[v])
      BY <2>7 DEF PublishedInv, Message
    <3> QED BY <1>0, <2>2, <3>2, <3>3 DEF Message, Due
  <2> QED BY <2>2, <2>5, <2>6, <2>7 DEF PublishedInv
<1>3. ASSUME NEW w \in Workers, Reject(w) \/ Parse(w) \/ Emit(w) PROVE PublishedInv'
  BY <1>0, <1>3, PublishedHandled
<1>4. ASSUME NEW w \in Workers, Unread(w) \/ Quit(w) \/ Die(w) PROVE PublishedInv'
  <2>1. Leave(w) /\ UNCHANGED <<committed, pos, sent>>
    BY <1>4 DEF Unread, Quit, Die
  <2>2. ASSUME NEW v \in Workers
        PROVE  /\ polled'[v] \subseteq polled[v] /\ (polled'[v] = {} \/ batch'[v] = batch[v])
               /\ out'[v] = <<>> \/ (out'[v] = out[v] /\ batch'[v] = batch[v])
    BY <2>1 DEF Leave, TypeOK
  <2>3. \A v \in Workers : \A p \in polled'[v] : pos'[p] = pos[p]
    BY <2>1
  <2> QED BY <1>0, <2>1, <2>2, <2>3, PublishedQuiet
<1>5. ASSUME NEW w \in Workers, Commit(w) PROVE PublishedInv'
  <2>1. batch[w] = <<>> /\ UNCHANGED <<owner, pos, up, batch, sent, out>>
    BY <1>5 DEF Commit
  <2>2. \A v \in Workers : polled'[v] = IF v = w THEN {} ELSE polled[v]
    BY <1>5 DEF Commit, TypeOK
  <2>3. \A p \in Partitions : committed'[p] = IF p \in polled[w] THEN pos[p] ELSE committed[p]
    BY <1>5 DEF Commit
  <2>4. \A p \in Partitions : committed[p] \in Nat /\ pos[p] \in Nat
    BY DEF TypeOK
  <2>5. ASSUME NEW p \in Partitions, NEW i \in 1 .. committed'[p] PROVE Published(p, i)'
    <3>1. i \in Nat
      BY <2>3, <2>4
    <3>2. Published(p, i)
      <4>1. CASE i <= committed[p]
        BY <2>4, <3>1, <4>1 DEF PublishedInv
      <4>2. CASE ~(i <= committed[p])
        <5>1. p \in polled[w] /\ i \in committed[p] + 1 .. pos[p]
          BY <2>3, <2>4, <4>2
        <5>2. <<p, i>> \notin ToSet(batch[w])
          BY <2>1 DEF ToSet
        <5> QED BY <5>1, <5>2 DEF PublishedInv
      <4> QED BY <4>1, <4>2
    <3> QED BY <1>0, <2>1, <3>1, <3>2, PublishedNext DEF Published
  <2>6. ASSUME NEW v \in Workers, NEW p \in polled'[v], NEW i \in committed'[p] + 1 .. pos[p]
        PROVE  Published(p, i)' \/ <<p, i>> \in ToSet(batch[v])
    <3>1. v # w /\ p \in polled[v] /\ p \in Partitions
      BY <2>2 DEF TypeOK
    <3>2. p \notin polled[w]
      BY <3>1 DEF GroupInv
    <3>3. i \in Nat /\ i \in committed[p] + 1 .. pos[p]
      BY <2>3, <2>4, <3>1, <3>2
    <3>4. Published(p, i) \/ <<p, i>> \in ToSet(batch[v])
      BY <3>1, <3>3 DEF PublishedInv
    <3> QED BY <1>0, <2>1, <3>1, <3>3, <3>4, PublishedNext DEF Published
  <2>7. ASSUME NEW v \in Workers, out[v] # <<>>
        PROVE  (Due(Message(Head(batch[v])).page) \subseteq sent \cup ToSet(out[v]))'
    <3>1. Due(log[Head(batch[v])[1]][Head(batch[v])[2]].page) \subseteq sent \cup ToSet(out[v])
      BY <2>7 DEF PublishedInv, Message
    <3> QED BY <1>0, <2>1, <3>1 DEF Message, Due
  <2> QED BY <2>1, <2>5, <2>6, <2>7 DEF PublishedInv
<1>6. ASSUME NEW w \in Workers, Start(w) \/ Stop(w) PROVE PublishedInv'
  <2>1. UNCHANGED <<committed, pos, sent, polled, batch, out>>
    BY <1>6 DEF Start, Stop
  <2> QED BY <1>0, <2>1, PublishedQuiet
<1>7. CASE UNCHANGED vars
  <2>1. UNCHANGED <<committed, pos, sent, polled, batch, out>>
    BY <1>7 DEF vars
  <2> QED BY <1>0, <2>1, PublishedQuiet
<1> QED BY <1>1, <1>2, <1>3, <1>4, <1>5, <1>6, <1>7 DEF Next, Step, PollNothing

\* Nothing is committed, read or in hand at first.
LEMMA PublishedInit == Init => PublishedInv
<1> SUFFICES ASSUME Init PROVE PublishedInv
  OBVIOUS
<1> QED BY DEF Init, PublishedInv

\* commit AFTER the side effect: what is due of a committed message has been
\* published, whatever process read it, died over it or lost it meanwhile
\* (ParseWorker.run).
THEOREM CommitFollowsPublish == Spec => []CommittedIsPublished
<1>1. Spec => []PublishedInv
  BY GroupAlways, PublishedInit, PublishedStep, PTL DEF Spec
<1>2. TypeOK /\ PublishedInv => CommittedIsPublished
  <2> SUFFICES ASSUME TypeOK, PublishedInv, NEW p \in Partitions, NEW i \in 1 .. committed[p],
                      NEW g, g = log[p][i].page, g # None, g \notin Rejected \cup Broken
               PROVE  /\ Sure(g) => Output("parsed", g) \in sent
                      /\ g \notin NoFollow =>
                           /\ \A u \in Vouched[g] : Output("links", u) \in sent
                           /\ \A u \in LinksOf[g] : Output("discovered", u) \in sent
    BY DEF CommittedIsPublished
  <2>1. Due(g) \subseteq sent
    BY DEF PublishedInv, Published
  <2>2. g \in Pages
    <3>1. committed[p] \in Nat /\ committed[p] <= Len(log[p]) /\ log \in Logs
      <4>1. committed[p] \in Nat /\ pos[p] \in Nat /\ committed[p] <= pos[p] /\ pos[p] <= Len(log[p])
        BY DEF TypeOK
      <4>2. Len(log[p]) \in Nat
        BY LogsType DEF TypeOK
      <4> QED BY <4>1, <4>2 DEF TypeOK
    <3>2. i \in DOMAIN log[p]
      BY <3>1, LogsType
    <3> QED BY <3>1, <3>2, LogTyped
  <2>3. LinksOf[g] \subseteq Targets /\ Vouched[g] \subseteq Targets
    BY <2>2, PagesType DEF Targets
  <2> QED BY <2>1, <2>2, <2>3 DEF Due, Output, OutputTypes
<1> QED BY <1>1, <1>2, TypeCorrect, PTL
-----------------------------------------------------------------------------
(* OwnTextNeedsRepeats.                                                    *)

\* A text only one URL has was seen on its host as often as that was parsed, at most.
LearnerInv ==
  \A w \in Workers, u \in Urls, t \in Texts :
    (\A g \in Pages : t \in ToSet(BlocksOf[g]) => UrlOf[g] = u)
      => learner[w].seen[HostOf[u]][t] <= parses[w][u]

\* A learner counts a text of a page once, on the host of the page.
LEMMA ObserveCounts ==
  ASSUME NEW l \in Learners, NEW h \in Hosts, NEW blocks, NEW k \in Hosts, NEW t \in Texts
  PROVE  /\ l.seen[k][t] \in Nat
         /\ Observe(l, h, blocks).seen[k][t] =
              l.seen[k][t] + (IF k = h /\ t \in ToSet(blocks) THEN 1 ELSE 0)
<1>1. l.seen \in [Hosts -> [Texts -> Nat]]
  BY DEF Learners
<1>2. Observe(l, h, blocks).seen =
        [l.seen EXCEPT ![h] = [s \in Texts |-> @[s] + (IF s \in ToSet(blocks) THEN 1 ELSE 0)]]
  BY DEF Observe
<1>3. l.seen[k] \in [Texts -> Nat] /\ l.seen[k][t] \in Nat
  BY <1>1
<1>4. CASE k = h
  BY <1>1, <1>2, <1>3, <1>4
<1>5. CASE k # h
  BY <1>1, <1>2, <1>3, <1>5
<1> QED BY <1>3, <1>4, <1>5

\* Only parsing teaches a learner, and it counts the URL as well.
LEMMA LearnerStep == TypeOK /\ TypeOK' /\ LearnerInv /\ [Next]_vars => LearnerInv'
<1> SUFFICES ASSUME TypeOK, TypeOK', LearnerInv, [Next]_vars,
                    NEW v \in Workers, NEW u \in Urls, NEW t \in Texts,
                    \A g \in Pages : t \in ToSet(BlocksOf[g]) => UrlOf[g] = u
             PROVE  learner'[v].seen[HostOf[u]][t] <= parses'[v][u]
  BY DEF LearnerInv
<1>1. learner[v].seen[HostOf[u]][t] <= parses[v][u]
  BY DEF LearnerInv
<1>2. HostOf[u] \in Hosts /\ learner[v] \in Learners /\ parses[v] \in [Urls -> Nat]
  BY DEF Hosts, TypeOK
<1>3. ASSUME NEW w \in Workers, Parse(w)
      PROVE  learner'[v].seen[HostOf[u]][t] <= parses'[v][u]
  <2> DEFINE m == Head(batch[w])
             g == Message(m).page
             h == HostOf[Message(m).url]
  <2>1. g \in Pages /\ Message(m).url = UrlOf[g] /\ Message(m).url \in Urls /\ h \in Hosts
    BY <1>3, HeadTyped DEF Parse, Ready
  <2>a. CASE UNCHANGED <<learner, parses>>
    BY <1>1, <2>a
  <2>b. \/ UNCHANGED <<learner, parses>>
        \/ /\ learner' = [learner EXCEPT ![w] = Observe(learner[w], h, BlocksOf[g])]
           /\ parses' = [parses EXCEPT ![w][Message(m).url] = @ + 1]
    BY <1>3 DEF Parse
  <2> SUFFICES ASSUME learner' = [learner EXCEPT ![w] = Observe(learner[w], h, BlocksOf[g])],
                      parses' = [parses EXCEPT ![w][Message(m).url] = @ + 1]
               PROVE  learner'[v].seen[HostOf[u]][t] <= parses'[v][u]
    BY <2>a, <2>b
  <2>2. /\ learner' = [learner EXCEPT ![w] = Observe(learner[w], h, BlocksOf[g])]
        /\ parses' = [parses EXCEPT ![w][Message(m).url] = @ + 1]
    OBVIOUS
  <2> HIDE DEF m, g
  <2>3. CASE v # w
    BY <1>1, <2>2, <2>3 DEF TypeOK
  <2>4. CASE v = w
    <3>1. learner'[w] = Observe(learner[w], h, BlocksOf[g])
      BY <2>2 DEF TypeOK
    <3>2. parses'[w] = [parses[w] EXCEPT ![Message(m).url] = @ + 1]
      BY <2>2 DEF TypeOK
    <3>3. /\ learner[w].seen[HostOf[u]][t] \in Nat
          /\ learner'[w].seen[HostOf[u]][t] =
               learner[w].seen[HostOf[u]][t]
                 + (IF HostOf[u] = h /\ t \in ToSet(BlocksOf[g]) THEN 1 ELSE 0)
      <4> HIDE DEF h
      <4> QED BY <1>2, <2>1, <2>4, <3>1, ObserveCounts
    <3>4. t \in ToSet(BlocksOf[g]) => Message(m).url = u
      BY <2>1
    <3>5. parses'[w][u] = IF Message(m).url = u THEN parses[w][u] + 1 ELSE parses[w][u]
      BY <1>2, <2>4, <3>2
    <3>6. parses[w][u] \in Nat
      BY <1>2, <2>4
    <3> HIDE DEF h
    <3> QED BY <1>1, <2>4, <3>3, <3>4, <3>5, <3>6
  <2> QED BY <2>3, <2>4
<1>4. ASSUME NEW w \in Workers, Unread(w) \/ Quit(w) \/ Die(w)
      PROVE  learner'[v].seen[HostOf[u]][t] <= parses'[v][u]
  <2>1. Leave(w)
    BY <1>4 DEF Unread, Quit, Die
  <2>2. CASE v = w
    <3>1. learner'[v] = NewLearner /\ parses'[v][u] = 0
      BY <2>1, <2>2 DEF Leave, TypeOK
    <3>2. NewLearner.seen[HostOf[u]][t] = 0
      BY <1>2 DEF NewLearner
    <3> QED BY <3>1, <3>2
  <2>3. CASE v # w
    BY <1>1, <2>1, <2>3 DEF Leave, TypeOK
  <2> QED BY <2>2, <2>3
<1>5. CASE UNCHANGED <<learner, parses>>
  BY <1>1, <1>5
<1> QED BY <1>3, <1>4, <1>5
        DEF Next, Step, Settle, Rejoin, Regroup, PollNothing, Start, Stop, Poll, Reject, Emit, Commit,
            vars, workVars

\* Text that only one page address has is not taken for a template of its host
\* before the process has parsed that address often enough to make up the share
\* (TemplateLearner.observe and is_template).
THEOREM OwnTextIsKept == Spec => []OwnTextNeedsRepeats
<1>1. Init => LearnerInv
  <2> SUFFICES ASSUME Init, NEW w \in Workers, NEW u \in Urls, NEW t \in Texts
               PROVE  learner[w].seen[HostOf[u]][t] <= parses[w][u]
    BY DEF LearnerInv
  <2>1. learner[w] = NewLearner /\ parses[w][u] = 0 /\ HostOf[u] \in Hosts
    BY DEF Init, Hosts
  <2>2. NewLearner.seen[HostOf[u]][t] = 0
    BY <2>1 DEF NewLearner
  <2> QED BY <2>1, <2>2
<1>2. Spec => []LearnerInv
  BY <1>1, LearnerStep, TypeCorrect, PTL DEF Spec
<1>3. TypeOK /\ LearnerInv => OwnTextNeedsRepeats
  <2> SUFFICES ASSUME TypeOK, LearnerInv, NEW w \in Workers, NEW u \in Urls, NEW t \in Texts,
                      \A g \in Pages : t \in ToSet(BlocksOf[g]) => UrlOf[g] = u,
                      IsTemplate(learner[w], HostOf[u], t)
               PROVE  100 * parses[w][u] >= RepeatPercent * MinPages
    BY DEF OwnTextNeedsRepeats
  <2> DEFINE seen == learner[w].seen[HostOf[u]][t]
             pages == learner[w].pages[HostOf[u]]
  <2>1. seen \in Nat /\ pages \in Nat /\ parses[w][u] \in Nat
    <3>1. HostOf[u] \in Hosts /\ learner[w] \in Learners /\ parses[w] \in [Urls -> Nat]
      BY DEF TypeOK, Hosts
    <3>2. learner[w].seen \in [Hosts -> [Texts -> Nat]] /\ learner[w].pages \in [Hosts -> Nat]
      BY <3>1 DEF Learners
    <3> QED BY <3>1, <3>2
  <2>2. seen <= parses[w][u] /\ pages >= MinPages /\ 100 * seen >= RepeatPercent * pages
    BY DEF LearnerInv, IsTemplate
  <2>3. RepeatPercent \in Nat /\ MinPages \in Nat
    BY ParseBoundsType
  <2> HIDE DEF seen, pages
  <2>4. RepeatPercent * pages >= RepeatPercent * MinPages
    <3>1. \A k, m, n \in Nat : m >= n => k * m >= k * n
      OBVIOUS
    <3> QED BY <2>1, <2>2, <2>3, <3>1
  <2>5. RepeatPercent * pages \in Nat /\ RepeatPercent * MinPages \in Nat
    <3>1. \A m, n \in Nat : m * n \in Nat
      OBVIOUS
    <3> QED BY <2>1, <2>3, <3>1
  <2> QED BY <2>1, <2>2, <2>4, <2>5
<1> QED BY <1>2, <1>3, TypeCorrect, PTL
-----------------------------------------------------------------------------
(* ReplaysNeedFailures.                                                    *)

\* The workers that have a message in their batches, and whether it will be read.
Having(m) == {w \in Workers : m \in ToSet(batch[w])}
Unreached(m) == m[2] > IF owner[m[1]] = None THEN committed[m[1]] ELSE pos[m[1]]

\* A message was handled, is about to be or is to be read once more than batches of
\* its partition were cut, at most.
ReplaysInv ==
  ~Poisoned => \A m \in Ids :
    times[m] + Cardinality(Having(m)) + (IF Unreached(m) THEN 1 ELSE 0) <= 1 + cut[m[1]]

\* Whether the one message will be read, as a number.
Waiting(m) == IF Unreached(m) THEN 1 ELSE 0

\* There are finitely many workers.
LEMMA HavingFinite ==
  ASSUME NEW S \in SUBSET Workers
  PROVE  IsFiniteSet(S) /\ Cardinality(S) \in Nat
BY WorkersFinite, FS_Subset, FS_CardinalityType

\* A step is within bounds if the sum grows by no more than what was cut.
LEMMA ReplaysBound ==
  ASSUME TypeOK, TypeOK', ReplaysInv, log' = log,
         ~Poisoned => \A m \in Ids :
           times'[m] + Cardinality(Having(m)') + Waiting(m)' + cut[m[1]]
             <= times[m] + Cardinality(Having(m)) + Waiting(m) + cut'[m[1]]
  PROVE  ReplaysInv'
<1>1. Poisoned' <=> Poisoned
  BY DEF Poisoned, HasBody, Message, Ids
<1>2. Ids' = Ids
  BY DEF Ids
<1> SUFFICES ASSUME ~Poisoned, NEW m \in Ids
             PROVE  times'[m] + Cardinality(Having(m)') + Waiting(m)' <= 1 + cut'[m[1]]
  BY <1>1, <1>2 DEF ReplaysInv, Waiting
<1>3. times[m] + Cardinality(Having(m)) + Waiting(m) <= 1 + cut[m[1]]
  BY DEF ReplaysInv, Waiting
<1>4. Cardinality(Having(m)) \in Nat /\ Cardinality(Having(m)') \in Nat
  <2>1. Having(m) \in SUBSET Workers /\ Having(m)' \in SUBSET Workers
    BY DEF Having
  <2> QED BY <2>1, HavingFinite
<1>5. m[1] \in Partitions
  BY IdTyped DEF TypeOK
<1>6. times[m] \in Nat /\ times'[m] \in Nat /\ cut[m[1]] \in Nat /\ cut'[m[1]] \in Nat
  BY <1>2, <1>5 DEF TypeOK
<1>7. Waiting(m) \in Nat /\ Waiting(m)' \in Nat
  BY DEF Waiting
<1> QED BY <1>3, <1>4, <1>6, <1>7

\* A message that is handled is in one batch less.
LEMMA ReplaysOver ==
  ASSUME TypeOK, GroupInv, log' = log, NEW w \in Workers, batch[w] # <<>>, Over(w),
         UNCHANGED <<committed, owner, pos>>, NEW m \in Ids
  PROVE  times'[m] + Cardinality(Having(m)') + Waiting(m)'
           <= times[m] + Cardinality(Having(m)) + Waiting(m)
<1> DEFINE h == Head(batch[w])
<1>1. /\ batch[w] \in Seq(Ids) /\ h \in Ids /\ ToSet(batch[w]) = {h} \cup ToSet(Tail(batch[w]))
      /\ h \notin ToSet(Tail(batch[w]))
  BY ToSetTail, HeadOnce DEF TypeOK, GroupInv
<1>2. \A v \in Workers : batch'[v] = IF v = w THEN Tail(batch[w]) ELSE batch[v]
  BY DEF Over, TypeOK
<1>3. Waiting(m)' = Waiting(m)
  BY DEF Waiting, Unreached
<1>4. /\ IsFiniteSet(Having(m)) /\ Cardinality(Having(m)) \in Nat
      /\ Having(m)' \in SUBSET Workers /\ Cardinality(Having(m)') \in Nat
  <2>1. Having(m) \in SUBSET Workers /\ Having(m)' \in SUBSET Workers
    BY DEF Having
  <2> QED BY <2>1, HavingFinite
<1>5. times[m] \in Nat /\ Waiting(m) \in Nat
  BY DEF TypeOK, Waiting
<1>6. CASE m = h
  <2>1. Having(m)' = Having(m) \ {w} /\ w \in Having(m)
    BY <1>1, <1>2, <1>6 DEF Having
  <2>2. Cardinality(Having(m) \ {w}) = Cardinality(Having(m)) - 1
    BY <1>4, <2>1, FS_RemoveElement
  <2>3. times'[m] \in Nat /\ times'[m] <= times[m] + 1
    BY <1>1, <1>5, <1>6 DEF Over, TypeOK
  <2> QED BY <1>3, <1>4, <1>5, <2>1, <2>2, <2>3
<1>7. CASE m # h
  <2>1. Having(m)' = Having(m)
    BY <1>1, <1>2, <1>7 DEF Having
  <2>2. times'[m] = times[m]
    BY <1>7 DEF Over, TypeOK
  <2> QED BY <1>3, <1>4, <1>5, <2>1, <2>2
<1> QED BY <1>6, <1>7

\* What is read is in a batch and waits no more.
LEMMA ReplaysPoll ==
  ASSUME TypeOK, GroupInv, log' = log, NEW w \in Workers, Poll(w), NEW m \in Ids
  PROVE  times'[m] + Cardinality(Having(m)') + Waiting(m)'
           <= times[m] + Cardinality(Having(m)) + Waiting(m)
<1>1. PICK new \in SUBSET Ids, b \in Seq(Ids) :
        /\ batch' = [batch EXCEPT ![w] = b] /\ ToSet(b) = new /\ Ordered(b) /\ b # <<>>
        /\ pos' \in [Partitions -> Nat]
        /\ \A p \in Partitions :
             /\ pos[p] <= pos'[p] /\ pos'[p] <= Len(log[p])
             /\ owner[p] # w => pos'[p] = pos[p]
             /\ \A i \in Nat : <<p, i>> \in new <=> pos[p] < i /\ i <= pos'[p]
        /\ polled' = [polled EXCEPT ![w] = {p \in Partitions : pos[p] < pos'[p]}]
  BY PollReads
<1>2. batch[w] = <<>> /\ UNCHANGED <<committed, owner, times>>
  BY DEF Poll, Idle, sentVars
<1>3. \A v \in Workers : batch'[v] = IF v = w THEN b ELSE batch[v]
  BY <1>1 DEF TypeOK
<1>4. m = <<m[1], m[2]>> /\ m[1] \in Partitions /\ m[2] \in Nat
  BY IdTyped DEF TypeOK
<1>5. m \in new <=> pos[m[1]] < m[2] /\ m[2] <= pos'[m[1]]
  <2>1. <<m[1], m[2]>> \in new <=> pos[m[1]] < m[2] /\ m[2] <= pos'[m[1]]
    BY <1>1, <1>4
  <2> QED BY <1>4, <2>1
<1>6. pos[m[1]] \in Nat /\ pos'[m[1]] \in Nat /\ pos[m[1]] <= pos'[m[1]]
  BY <1>1, <1>4 DEF TypeOK
<1>7. /\ IsFiniteSet(Having(m)) /\ Cardinality(Having(m)) \in Nat
      /\ Having(m)' \in SUBSET Workers /\ Cardinality(Having(m)') \in Nat
  <2>1. Having(m) \in SUBSET Workers /\ Having(m)' \in SUBSET Workers
    BY DEF Having
  <2> QED BY <2>1, HavingFinite
<1>8. times[m] \in Nat /\ Waiting(m) \in Nat /\ Waiting(m)' \in Nat
  BY DEF TypeOK, Waiting
<1>9. w \notin Having(m)
  BY <1>2 DEF Having, ToSet
<1>10. CASE m \in new
  <2>1. Having(m)' = Having(m) \cup {w}
    BY <1>1, <1>3, <1>10 DEF Having
  <2>2. Cardinality(Having(m) \cup {w}) = Cardinality(Having(m)) + 1
    BY <1>7, <1>9, FS_AddElement
  <2>3. owner[m[1]] = w /\ w # None
    BY <1>1, <1>4, <1>5, <1>6, <1>10, PagesType
  <2>4. Waiting(m) = 1 /\ Waiting(m)' = 0
    BY <1>2, <1>4, <1>5, <1>6, <1>10, <2>3 DEF Waiting, Unreached
  <2> QED BY <1>2, <1>7, <1>8, <2>1, <2>2, <2>4
<1>11. CASE m \notin new
  <2>1. Having(m)' = Having(m)
    BY <1>1, <1>2, <1>3, <1>9, <1>11 DEF Having
  <2>2. Waiting(m)' <= Waiting(m)
    BY <1>2, <1>4, <1>6 DEF Waiting, Unreached
  <2> QED BY <1>2, <1>7, <1>8, <2>1, <2>2
<1> QED BY <1>10, <1>11

\* Each action is within bounds.
LEMMA ReplaysStep ==
  TypeOK /\ TypeOK' /\ GroupInv /\ ReplaysInv /\ [Next]_vars => ReplaysInv'
<1> SUFFICES ASSUME TypeOK, TypeOK', GroupInv, ReplaysInv, [Next]_vars PROVE ReplaysInv'
  OBVIOUS
<1>0. log' = log
  BY LogStays
<1>a. ASSUME NEW m \in Ids
      PROVE  /\ Cardinality(Having(m)) \in Nat /\ times[m] \in Nat
             /\ Waiting(m) \in {0, 1} /\ Waiting(m)' \in {0, 1}
             /\ IsFiniteSet(Having(m))
             /\ m[1] \in Partitions /\ cut[m[1]] \in Nat /\ cut'[m[1]] \in Nat
  <2>1. Having(m) \in SUBSET Workers
    BY DEF Having
  <2>2. m[1] \in Partitions
    BY IdTyped DEF TypeOK
  <2> QED BY <2>1, <2>2, HavingFinite DEF Waiting, TypeOK
<1>b. ASSUME UNCHANGED <<times, batch, cut>>,
             \A m \in Ids : Waiting(m)' = Waiting(m)
      PROVE  ReplaysInv'
  <2>1. ASSUME NEW m \in Ids
        PROVE  times'[m] + Cardinality(Having(m)') + Waiting(m)' + cut[m[1]]
                 <= times[m] + Cardinality(Having(m)) + Waiting(m) + cut'[m[1]]
    <3>1. Having(m)' = Having(m)
      BY <1>b DEF Having
    <3> QED BY <1>a, <1>b, <3>1
  <2> QED BY <1>0, <2>1, ReplaysBound
<1>1. ASSUME Settle \/ Rejoin PROVE ReplaysInv'
  <2> DEFINE S == UNION {polled[w] : w \in Workers}
  <2>1. Regroup
    BY <1>1 DEF Settle, Rejoin
  <2>2. /\ UNCHANGED <<committed, batch, times>> /\ owner' \in [Partitions -> up]
        /\ \A p \in Partitions : pos'[p] = committed[p]
    BY <2>1, RegroupResult
  <2>3. Cut(S)
    BY <2>1 DEF Regroup
  <2>4. ASSUME NEW m \in Ids, ~Poisoned
        PROVE  times'[m] + Cardinality(Having(m)') + Waiting(m)' + cut[m[1]]
                 <= times[m] + Cardinality(Having(m)) + Waiting(m) + cut'[m[1]]
    <3>1. Having(m)' = Having(m)
      BY <2>2 DEF Having
    <3>2. m[1] \in S \/ Waiting(m)' = Waiting(m)
      <4>1. owner'[m[1]] # None
        BY <1>a, <2>2, PagesType DEF TypeOK
      <4>2. owner[m[1]] # None => owner[m[1]] \in Workers
        BY <1>a DEF TypeOK
      <4>3. owner[m[1]] = None \/ m[1] \in S \/ pos[m[1]] = committed[m[1]]
        BY <1>a, <4>2 DEF GroupInv
      <4> QED BY <1>a, <2>2, <4>1, <4>3 DEF Waiting, Unreached
    <3>3. cut'[m[1]] = IF m[1] \in S THEN cut[m[1]] + 1 ELSE cut[m[1]]
      <4> HIDE DEF S
      <4> QED BY <1>a, <2>3, <2>4, CutCounts
    <3> HIDE DEF S
    <3> QED BY <1>a, <2>2, <3>1, <3>2, <3>3
  <2> QED BY <1>0, <2>4, ReplaysBound
<1>3. ASSUME NEW w \in Workers, Poll(w) PROVE ReplaysInv'
  <2>1. UNCHANGED cut
    BY <1>3 DEF Poll, cutVars
  <2>2. ASSUME NEW m \in Ids
        PROVE  times'[m] + Cardinality(Having(m)') + Waiting(m)' + cut[m[1]]
                 <= times[m] + Cardinality(Having(m)) + Waiting(m) + cut'[m[1]]
    <3>1. times'[m] + Cardinality(Having(m)') + Waiting(m)'
            <= times[m] + Cardinality(Having(m)) + Waiting(m)
      BY <1>0, <1>3, ReplaysPoll
    <3>2. Cardinality(Having(m)') \in Nat /\ times'[m] \in Nat
      <4>1. Having(m)' \in SUBSET Workers
        BY DEF Having
      <4> QED BY <4>1, <1>3, <1>a, HavingFinite DEF Poll, sentVars
    <3> QED BY <1>0, <1>a, <2>1, <3>1, <3>2
  <2> QED BY <1>0, <2>2, ReplaysBound
<1>4. ASSUME NEW w \in Workers, Reject(w) \/ Parse(w) \/ Emit(w) PROVE ReplaysInv'
  <2>1. UNCHANGED <<committed, owner, pos, cut>> /\ batch[w] # <<>>
    BY <1>4 DEF Reject, Parse, Emit, Ready, TypeOK, groupVars, cutVars
  <2>2. Over(w) \/ UNCHANGED <<batch, times>>
    BY <1>4 DEF Reject, Parse, Emit
  <2>3. CASE Over(w)
    <3>1. ASSUME NEW m \in Ids
          PROVE  times'[m] + Cardinality(Having(m)') + Waiting(m)' + cut[m[1]]
                   <= times[m] + Cardinality(Having(m)) + Waiting(m) + cut'[m[1]]
      <4>1. times'[m] + Cardinality(Having(m)') + Waiting(m)'
              <= times[m] + Cardinality(Having(m)) + Waiting(m)
        BY <1>0, <2>1, <2>3, ReplaysOver
      <4>2. Cardinality(Having(m)') \in Nat
        <5>1. Having(m)' \in SUBSET Workers
          BY DEF Having
        <5> QED BY <5>1, HavingFinite
      <4>3. times'[m] \in Nat
        BY <2>1, <2>3, OverTyped
      <4>4. cut' = cut
        BY <2>1
      <4> QED BY <1>0, <1>a, <4>1, <4>2, <4>3, <4>4
    <3> QED BY <1>0, <3>1, ReplaysBound
  <2>4. CASE UNCHANGED <<batch, times>>
    <3>1. \A m \in Ids : Waiting(m)' = Waiting(m)
      BY <2>1 DEF Waiting, Unreached
    <3> QED BY <1>b, <2>1, <2>4, <3>1
  <2> QED BY <2>2, <2>3, <2>4
<1>5. ASSUME NEW w \in Workers, Die(w) PROVE ReplaysInv'
  <2>1. Leave(w) /\ UNCHANGED <<committed, pos, times>> /\ Cut(polled[w])
    BY <1>5 DEF Die, sentVars
  <2>2. ASSUME NEW m \in Ids, ~Poisoned
        PROVE  times'[m] + Cardinality(Having(m)') + Waiting(m)' + cut[m[1]]
                 <= times[m] + Cardinality(Having(m)) + Waiting(m) + cut'[m[1]]
    <3>1. \A v \in Workers : batch'[v] = IF v = w THEN <<>> ELSE batch[v]
      BY <2>1 DEF Leave, TypeOK
    <3>2. Having(m)' \subseteq Having(m)
      BY <3>1 DEF Having, ToSet
    <3>3. Cardinality(Having(m)') \in Nat /\ Cardinality(Having(m)') <= Cardinality(Having(m))
      BY <1>a, <3>2, FS_Subset, FS_CardinalityType
    <3>4. m[1] \in polled[w] \/ Waiting(m)' = Waiting(m)
      <4>1. owner'[m[1]] = IF owner[m[1]] = w THEN None ELSE owner[m[1]]
        BY <1>a, <2>1 DEF Leave
      <4>2. owner[m[1]] = w => m[1] \in polled[w] \/ pos[m[1]] = committed[m[1]]
        BY <1>a DEF GroupInv
      <4> QED BY <2>1, <4>1, <4>2, PagesType DEF Waiting, Unreached
    <3>5. cut'[m[1]] = IF m[1] \in polled[w] THEN cut[m[1]] + 1 ELSE cut[m[1]]
      BY <1>a, <2>1, <2>2, CutCounts
    <3> QED BY <1>a, <2>1, <3>3, <3>4, <3>5
  <2> QED BY <1>0, <2>2, ReplaysBound
<1>6. ASSUME NEW w \in Workers, Quit(w) PROVE ReplaysInv'
  <2>1. /\ Leave(w) /\ UNCHANGED <<committed, pos, times, cut>>
        /\ polled[w] = {} /\ batch[w] = <<>>
    BY <1>6 DEF Quit, Idle, sentVars, cutVars
  <2>2. batch' = batch
    BY <2>1 DEF Leave, TypeOK
  <2>3. \A p \in Partitions : owner'[p] = IF owner[p] = w THEN None ELSE owner[p]
    BY <2>1 DEF Leave
  <2>4. \A p \in Partitions : owner[p] = w => pos[p] = committed[p]
    BY <2>1 DEF GroupInv
  <2>5. \A m \in Ids : m[1] \in Partitions
    BY IdTyped DEF TypeOK
  <2>6. \A m \in Ids : Waiting(m)' = Waiting(m)
    BY <2>1, <2>3, <2>4, <2>5, PagesType DEF Waiting, Unreached
  <2> QED BY <1>b, <2>1, <2>2, <2>6
<1>7. ASSUME NEW w \in Workers, Unread(w) PROVE ReplaysInv'
  <2>1. Head(batch[w]) \in Ids
    BY <1>7, HeadTyped DEF Unread, Ready
  <2>2. Poisoned
    BY <1>7, <2>1 DEF Unread, Poisoned
  <2> QED BY <1>0, <2>2, ReplaysBound
<1>8. ASSUME NEW w \in Workers, Commit(w) PROVE ReplaysInv'
  <2>1. UNCHANGED <<owner, pos, batch, times, cut>>
    BY <1>8 DEF Commit, sentVars, cutVars
  <2>2. \A p \in Partitions : committed'[p] = IF p \in polled[w] THEN pos[p] ELSE committed[p]
    BY <1>8 DEF Commit
  <2>3. \A p \in Partitions : owner[p] = None => p \notin polled[w]
    BY PagesType DEF GroupInv
  <2>4. \A m \in Ids : m[1] \in Partitions
    BY IdTyped DEF TypeOK
  <2>5. \A m \in Ids : Waiting(m)' = Waiting(m)
    BY <2>1, <2>2, <2>3, <2>4 DEF Waiting, Unreached
  <2> QED BY <1>b, <2>1, <2>5
<1>9. CASE UNCHANGED <<committed, owner, pos, batch, times, cut>>
  <2>1. \A m \in Ids : Waiting(m)' = Waiting(m)
    BY <1>9 DEF Waiting, Unreached
  <2> QED BY <1>9, <1>b, <2>1
<1> QED BY <1>1, <1>3, <1>4, <1>5, <1>6, <1>7, <1>8, <1>9
        DEF Next, Step, PollNothing, Start, Stop, vars, groupVars, workVars, sentVars, cutVars

\* A message is handled again only if a batch of its partition was cut, by the death
\* of its worker or a meeting of the group before the commit: a stop loses no finished
\* work and no batch is read twice (ParseWorker.run and stop).
THEOREM ReplaysAreFailures == Spec => []ReplaysNeedFailures
<1>1. Init => ReplaysInv
  <2> SUFFICES ASSUME Init, NEW m \in Ids
               PROVE  times[m] + Cardinality(Having(m)) + (IF Unreached(m) THEN 1 ELSE 0)
                        <= 1 + cut[m[1]]
    BY DEF ReplaysInv
  <2>1. times[m] = 0 /\ cut[m[1]] = 0
    <3>1. m[1] \in Partitions
      BY IdTyped DEF Init
    <3> QED BY <3>1 DEF Init
  <2>2. Having(m) = {}
    BY DEF Init, Having, ToSet
  <2>3. Cardinality(Having(m)) = 0
    BY <2>2, FS_EmptySet
  <2> QED BY <2>1, <2>3
<1>2. Spec => []ReplaysInv
  BY <1>1, ReplaysStep, GroupAlways, PTL DEF Spec
<1>3. TypeOK /\ ReplaysInv => ReplaysNeedFailures
  <2> SUFFICES ASSUME TypeOK, ReplaysInv, ~Poisoned, NEW m \in Ids
               PROVE  times[m] <= 1 + cut[m[1]]
    BY DEF ReplaysNeedFailures
  <2>1. times[m] + Cardinality(Having(m)) + (IF Unreached(m) THEN 1 ELSE 0) <= 1 + cut[m[1]]
    BY DEF ReplaysInv
  <2>2. Having(m) \in SUBSET Workers
    BY DEF Having
  <2>3. Cardinality(Having(m)) \in Nat
    BY <2>2, HavingFinite
  <2>4. m[1] \in Partitions
    BY IdTyped DEF TypeOK
  <2> QED BY <2>1, <2>3, <2>4 DEF TypeOK
<1> QED BY <1>2, <1>3, TypeCorrect, PTL
-----------------------------------------------------------------------------
(* NewestOnTop.                                                            *)

\* A message whose page is sure to have text.
SureAt(p, i) == log[p][i].page # None /\ Sure(log[p][i].page)

\* Of a partition that was not taken away: what is read and not committed is below
\* the version on top or in the batch, where everything newer of its URL follows.
ReadInv ==
  \A w \in Workers : \A p \in polled[w] \ kicked : \A i \in committed[p] + 1 .. pos[p] :
    /\ SureAt(p, i) => <<p, i>> \in ToSet(batch[w]) \/ shown[log[p][i].url] >= i
    /\ \A j \in committed[p] + 1 .. i - 1 :
         log[p][j].url = log[p][i].url /\ <<p, j>> \in ToSet(batch[w])
           => <<p, i>> \in ToSet(batch[w])

\* What a worker emits is of the message in hand, which is on top once its text is.
HandInv ==
  \A w \in Workers : out[w] # <<>> =>
    LET p == Head(batch[w])[1]
        i == Head(batch[w])[2]
    IN  /\ log[p][i].page # None
        /\ \A o \in ToSet(out[w]) : o.topic = "parsed" => o.what = log[p][i].page
        /\ Sure(log[p][i].page) /\ p \notin kicked =>
             Output("parsed", log[p][i].page) \in ToSet(out[w]) \/ shown[log[p][i].url] >= i

NewestInv == NewestOnTop /\ ReadInv /\ HandInv

\* What is read is in the log.
LEMMA ReadTyped ==
  ASSUME TypeOK, NEW p \in Partitions, NEW i \in 1 .. pos[p]
  PROVE  /\ i \in Nat \ {0} /\ i \in DOMAIN log[p] /\ <<p, i>> \in Ids
         /\ log[p][i].url \in Urls /\ PartitionOf[log[p][i].url] = p
<1>1. pos[p] \in Nat /\ pos[p] <= Len(log[p]) /\ log \in Logs
  BY DEF TypeOK
<1>2. log[p] \in Seq(Messages)
  BY <1>1, LogsType
<1>3. i \in Nat \ {0} /\ i \in DOMAIN log[p]
  BY <1>1, <1>2
<1> QED BY <1>1, <1>3, LogTyped

\* What no worker is about to commit may change hands.
LEMMA NewestQuiet ==
  ASSUME TypeOK, TypeOK', NewestInv, log' = log, UNCHANGED <<committed, shown>>,
         kicked \subseteq kicked',
         \A v \in Workers :
           /\ polled'[v] \subseteq polled[v] /\ \A p \in polled'[v] : pos'[p] = pos[p]
           /\ polled'[v] = {} \/ batch'[v] = batch[v]
           /\ out'[v] = <<>> \/ (out'[v] = out[v] /\ batch'[v] = batch[v])
  PROVE  NewestInv'
<1>1. NewestOnTop'
  BY DEF NewestInv, NewestOnTop, Sure
<1>2. ReadInv'
  <2> SUFFICES ASSUME NEW v \in Workers, NEW p \in polled'[v] \ kicked',
                      NEW i \in committed[p] + 1 .. pos'[p]
               PROVE  /\ SureAt(p, i)' =>
                           <<p, i>> \in ToSet(batch'[v]) \/ shown[log[p][i].url] >= i
                      /\ \A j \in committed[p] + 1 .. i - 1 :
                           log[p][j].url = log[p][i].url /\ <<p, j>> \in ToSet(batch'[v])
                             => <<p, i>> \in ToSet(batch'[v])
    BY DEF ReadInv
  <2>1. p \in polled[v] \ kicked /\ i \in committed[p] + 1 .. pos[p] /\ batch'[v] = batch[v]
    OBVIOUS
  <2>2. SureAt(p, i)' <=> SureAt(p, i)
    BY DEF SureAt, Sure
  <2> QED BY <2>1, <2>2 DEF NewestInv, ReadInv
<1>3. HandInv'
  <2>1. HandInv
    BY Zenon DEF NewestInv
  <2>2. ASSUME NEW v \in Workers, out'[v] # <<>>
        PROVE  LET p == Head(batch'[v])[1]
                   i == Head(batch'[v])[2]
               IN  /\ log'[p][i].page # None
                   /\ \A o \in ToSet(out'[v]) : o.topic = "parsed" => o.what = log'[p][i].page
                   /\ Sure(log'[p][i].page) /\ p \notin kicked' =>
                        \/ Output("parsed", log'[p][i].page) \in ToSet(out'[v])
                        \/ shown'[log'[p][i].url] >= i
    <3>1. out'[v] = out[v] /\ batch'[v] = batch[v]
      BY <2>2
    <3> QED BY <2>1, <2>2, <3>1 DEF HandInv
  <2> QED BY Zenon, <2>2 DEF HandInv
<1> QED BY <1>1, <1>2, <1>3 DEF NewestInv

\* A step of w handles the message in hand, of partition q, offset n and URL u: it
\* may put it on top, and has if its text is sure and it leaves the batch.
Handles(w, q, n, u) ==
  /\ batch[w] # <<>> /\ UNCHANGED <<committed, pos, polled, kicked>>
  /\ q = Head(batch[w])[1] /\ n = Head(batch[w])[2] /\ u = log[q][n].url
  /\ batch'[w] = batch[w] \/ batch'[w] = Tail(batch[w])
  /\ \A v \in Workers : v # w => batch'[v] = batch[v] /\ out'[v] = out[v]
  /\ shown' = shown \/ shown' = [shown EXCEPT ![u] = n]
  /\ batch'[w] # batch[w] /\ SureAt(q, n) /\ q \notin kicked => shown'[u] >= n
  /\ out'[w] # <<>> =>
       /\ batch'[w] = batch[w] /\ log[q][n].page # None
       /\ \A o \in ToSet(out'[w]) : o.topic = "parsed" => o.what = log[q][n].page
       /\ Sure(log[q][n].page) /\ q \notin kicked =>
            Output("parsed", log[q][n].page) \in ToSet(out'[w]) \/ shown'[u] >= n

\* Handling a message puts nothing on top but that message, which is past what is
\* committed and before whatever of its URL the batch still has.
LEMMA NewestGrows ==
  ASSUME TypeOK, TypeOK', GroupInv, NewestInv, log' = log,
         NEW w \in Workers, NEW q, NEW n, NEW u, Handles(w, q, n, u)
  PROVE  NewestInv'
<1>0. UNCHANGED <<committed, pos, polled, kicked>>
  BY DEF Handles
<1>1. /\ Head(batch[w]) = <<q, n>> /\ q \in Partitions /\ n \in Nat \ {0} /\ u \in Urls
      /\ PartitionOf[u] = q /\ batch[w] \in Seq(Ids) /\ <<q, n>> \in ToSet(batch[w])
      /\ ToSet(batch[w]) = {<<q, n>>} \cup ToSet(Tail(batch[w]))
  <2>1. Head(batch[w]) \in Ids /\ batch[w] \in Seq(Ids) /\ log \in Logs
    BY HeadTyped DEF TypeOK, Handles
  <2>2. /\ Head(batch[w]) = <<q, n>> /\ q \in Partitions /\ n \in Nat \ {0}
        /\ n \in DOMAIN log[q]
    BY <2>1, IdTyped DEF Handles
  <2>3. u \in Urls /\ PartitionOf[u] = q
    BY <2>1, <2>2, LogTyped DEF Handles
  <2>4. batch[w] # <<>>
    BY Zenon DEF Handles
  <2>5. ToSet(batch[w]) = {Head(batch[w])} \cup ToSet(Tail(batch[w]))
    BY <2>1, <2>4, ToSetTail
  <2> QED BY <2>1, <2>2, <2>3, <2>5
<1>a. batch'[w] = batch[w] \/ batch'[w] = Tail(batch[w])
  BY DEF Handles
<1>b. \A v \in Workers : v # w => batch'[v] = batch[v] /\ out'[v] = out[v]
  BY DEF Handles
<1>c. batch'[w] # batch[w] /\ SureAt(q, n) /\ q \notin kicked => shown'[u] >= n
  BY DEF Handles
<1>d. u = log[q][n].url
  BY Zenon DEF Handles
<1>2. q \notin kicked => owner[q] = w /\ committed[q] < n
  <2>1. <<q, n>> \in ToSet(batch[w]) /\ <<q, n>>[1] = q /\ <<q, n>>[2] = n
    BY <1>1
  <2>2. PICK m \in ToSet(batch[w]) : m[1] = q /\ m[2] = n
    BY <2>1
  <2> QED BY <2>2 DEF GroupInv
<1>3. \A p \in Partitions : committed[p] \in Nat /\ pos[p] \in Nat /\ committed[p] <= pos[p]
  BY DEF TypeOK
<1>4. \A x \in Urls : shown[x] \in Nat /\ (shown'[x] = shown[x] \/ (x = u /\ shown'[x] = n))
  BY <1>1 DEF TypeOK, Handles
<1>5. NewestOnTop'
  <2> SUFFICES ASSUME NEW x \in Urls, NEW p, p = PartitionOf[x], p \notin kicked,
                      NEW i \in 1 .. committed[p],
                      log[p][i].url = x, log[p][i].page # None, Sure(log[p][i].page)
               PROVE  shown'[x] >= i
    BY <1>0 DEF NewestOnTop, Sure
  <2>1. shown[x] >= i
    BY DEF NewestInv, NewestOnTop
  <2>2. x = u => i < n
    BY <1>1, <1>2, <1>3
  <2> QED BY <1>1, <1>4, <2>1, <2>2
<1>6. ReadInv'
  <2> SUFFICES ASSUME NEW v \in Workers, NEW p \in polled'[v] \ kicked',
                      NEW i \in committed'[p] + 1 .. pos'[p]
               PROVE  /\ SureAt(p, i)' =>
                           <<p, i>> \in ToSet(batch'[v]) \/ shown'[log'[p][i].url] >= i
                      /\ \A j \in committed'[p] + 1 .. i - 1 :
                           log'[p][j].url = log'[p][i].url /\ <<p, j>> \in ToSet(batch'[v])
                             => <<p, i>> \in ToSet(batch'[v])
    BY Zenon DEF ReadInv
  <2>0. p \in polled[v] \ kicked /\ i \in committed[p] + 1 .. pos[p]
    BY <1>0
  <2>1. p \in Partitions /\ i \in 1 .. pos[p] /\ i \in Nat \ {0} /\ committed[p] < i
    <3>1. p \in Partitions
      <4>1. polled \in [Workers -> SUBSET Partitions]
        BY Zenon DEF TypeOK
      <4> QED BY <2>0, <4>1
    <3>2. committed[p] \in Nat /\ pos[p] \in Nat
      BY <1>3, <3>1
    <3> QED BY <2>0, <3>1, <3>2
  <2>2. log[p][i].url \in Urls /\ PartitionOf[log[p][i].url] = p
    BY <2>1, ReadTyped
  <2>3. log[p][i].url = u => p = q /\ v = w
    BY <1>1, <1>2, <2>0, <2>2 DEF GroupInv
  <2>4. /\ SureAt(p, i) => <<p, i>> \in ToSet(batch[v]) \/ shown[log[p][i].url] >= i
        /\ \A j \in committed[p] + 1 .. i - 1 :
             log[p][j].url = log[p][i].url /\ <<p, j>> \in ToSet(batch[v])
               => <<p, i>> \in ToSet(batch[v])
    BY <2>0 DEF NewestInv, ReadInv
  <2>5. SureAt(p, i)' <=> SureAt(p, i)
    BY DEF SureAt, Sure
  <2>6. v # w \/ <<p, i>> # <<q, n>> => (<<p, i>> \in ToSet(batch[v]) => <<p, i>> \in ToSet(batch'[v]))
    BY <1>1, <1>a, <1>b
  <2>7. ASSUME SureAt(p, i)
        PROVE  <<p, i>> \in ToSet(batch'[v]) \/ shown'[log[p][i].url] >= i
    <3>1. CASE log[p][i].url = u
      <4>1. p = q /\ v = w /\ q \notin kicked
        BY <2>0, <2>3, <3>1
      <4>2. CASE i = n
        BY <1>1, <1>c, <2>7, <3>1, <4>1, <4>2
      <4>3. CASE i < n
        <5>1. shown[u] >= i \/ <<p, i>> \in ToSet(batch'[v])
          BY <2>4, <2>6, <2>7, <3>1, <4>1, <4>3, <1>1, <2>1
        <5> QED BY <1>1, <1>4, <2>1, <3>1, <4>3, <5>1
      <4>4. CASE n < i
        <5>0. committed[p] \in Nat /\ committed[p] < n /\ n \in Nat /\ i \in Nat
          BY <1>1, <1>2, <1>3, <2>1, <4>1
        <5>1. n \in committed[p] + 1 .. i - 1
          BY <5>0, <4>4
        <5>2. <<p, i>> \in ToSet(batch[v])
          <6>1. log[p][n].url = log[p][i].url /\ <<p, n>> \in ToSet(batch[v])
            BY <1>1, <1>d, <3>1, <4>1
          <6> QED BY <2>4, <5>1, <6>1
        <5>3. <<p, i>> # <<q, n>>
          BY <5>0, <4>4
        <5> QED BY <2>6, <5>2, <5>3
      <4>5. n \in Nat /\ i \in Nat
        BY <1>1, <2>1
      <4>6. i = n \/ i < n \/ n < i
        BY <4>5
      <4> QED BY <4>2, <4>3, <4>4, <4>6
    <3>2. CASE log[p][i].url # u
      <4>1. shown'[log[p][i].url] = shown[log[p][i].url]
        BY <1>4, <2>2, <3>2
      <4>2. <<p, i>> # <<q, n>>
        BY <1>d, <3>2
      <4> QED BY <2>4, <2>6, <2>7, <4>1, <4>2
    <3> QED BY <3>1, <3>2
  <2>8. ASSUME NEW j \in committed[p] + 1 .. i - 1,
               log[p][j].url = log[p][i].url, <<p, j>> \in ToSet(batch'[v])
        PROVE  <<p, i>> \in ToSet(batch'[v])
    <3>1. <<p, j>> \in ToSet(batch[v])
      BY <1>1, <1>a, <1>b, <2>8
    <3>2. <<p, i>> \in ToSet(batch[v])
      BY <2>4, <2>8, <3>1
    <3>3. CASE v # w \/ batch'[w] = batch[w] \/ <<p, i>> # <<q, n>>
      BY <1>1, <1>a, <1>b, <3>2, <3>3
    <3>4. CASE v = w /\ batch'[w] = Tail(batch[w]) /\ <<p, i>> = <<q, n>>
      <4>1. <<p, j>> \in ToSet(Tail(batch[w])) /\ p = q /\ i = n
        BY <2>8, <3>4
      <4>2. Before(Head(batch[w]), <<p, j>>)
        <5>1. PICK m \in ToSet(Tail(batch[w])) : m = <<p, j>>
          BY <4>1
        <5>2. m[1] = p /\ Head(batch[w])[1] = q
          BY <1>1, <5>1
        <5>3. batch[w] # <<>> /\ Ordered(batch[w])
          BY Zenon DEF GroupInv, Handles
        <5>4. Before(Head(batch[w]), m)
          BY <1>1, <4>1, <5>2, <5>3, OrderedTail
        <5> QED BY <5>1, <5>4
      <4>3. Before(<<q, n>>, <<q, j>>)
        BY <1>1, <4>1, <4>2
      <4>4. UrlRank[u] \in Nat /\ log[q][n].url = u /\ log[q][j].url = u
        BY <1>1, <1>d, <2>8, <4>1, PagesType
      <4>5. Message(<<q, n>>).url = u /\ Message(<<q, j>>).url = u
        BY <4>4 DEF Message
      <4>6. n < j
        BY <4>3, <4>4, <4>5 DEF Before
      <4>7. n \in Nat /\ committed[p] \in Nat /\ j \in committed[p] + 1 .. n - 1
        BY <1>1, <1>3, <2>1, <4>1
      <4> QED BY <4>6, <4>7
    <3> QED BY <1>a, <3>3, <3>4
  <2> QED BY <1>0, <2>5, <2>7, <2>8
<1>7. HandInv'
  <2> SUFFICES ASSUME NEW v \in Workers, out'[v] # <<>>,
                      NEW p, NEW i, p = Head(batch'[v])[1], i = Head(batch'[v])[2]
               PROVE  /\ log'[p][i].page # None
                      /\ \A o \in ToSet(out'[v]) : o.topic = "parsed" => o.what = log'[p][i].page
                      /\ Sure(log'[p][i].page) /\ p \notin kicked' =>
                           \/ Output("parsed", log'[p][i].page) \in ToSet(out'[v])
                           \/ shown'[log'[p][i].url] >= i
    BY Zenon DEF HandInv, Sure
  <2>0. log' = log /\ kicked' = kicked
    BY <1>0
  <2>1. CASE v = w
    <3>1. q = Head(batch[w])[1] /\ n = Head(batch[w])[2] /\ u = log[q][n].url
      BY DEF Handles
    <3>2. /\ batch'[w] = batch[w] /\ log[q][n].page # None
          /\ \A o \in ToSet(out'[w]) : o.topic = "parsed" => o.what = log[q][n].page
          /\ Sure(log[q][n].page) /\ q \notin kicked =>
               Output("parsed", log[q][n].page) \in ToSet(out'[w]) \/ shown'[u] >= n
      BY <2>1 DEF Handles
    <3> QED BY <2>0, <2>1, <3>1, <3>2
  <2>2. CASE v # w
    <3>1. batch'[v] = batch[v] /\ out'[v] = out[v]
      BY <1>b, <2>2
    <3>2. /\ log[p][i].page # None
          /\ \A o \in ToSet(out[v]) : o.topic = "parsed" => o.what = log[p][i].page
          /\ Sure(log[p][i].page) /\ p \notin kicked =>
               \/ Output("parsed", log[p][i].page) \in ToSet(out[v])
               \/ shown[log[p][i].url] >= i
      BY <3>1 DEF NewestInv, HandInv
    <3>3. batch[v] # <<>>
      BY <3>1 DEF TypeOK
    <3>4. /\ Head(batch[v]) \in ToSet(batch[v]) /\ log[p][i].url \in Urls
          /\ PartitionOf[log[p][i].url] = p
      BY <3>1, <3>3, HeadTyped DEF Message
    <3>5. p \notin kicked => owner[p] = v
      BY <3>1, <3>4 DEF GroupInv
    <3>6. p \notin kicked => log[p][i].url # u
      <4> SUFFICES ASSUME p \notin kicked, log[p][i].url = u PROVE FALSE
        OBVIOUS
      <4>1. owner[p] = v /\ owner[p] = w
        BY <1>1, <1>2, <3>4, <3>5
      <4> QED BY <2>2, <4>1
    <3>7. p \notin kicked => shown'[log[p][i].url] = shown[log[p][i].url]
      BY <1>4, <3>4, <3>6
    <3> QED BY <2>0, <3>1, <3>2, <3>7
  <2> QED BY <2>1, <2>2
<1> QED BY <1>5, <1>6, <1>7 DEF NewestInv

\* Each action that handles a message handles it so.
LEMMA NewestHandled ==
  ASSUME TypeOK, TypeOK', GroupInv, NewestInv, log' = log, NEW w \in Workers,
         Reject(w) \/ Parse(w) \/ Emit(w)
  PROVE  NewestInv'
<1>1. batch[w] # <<>>
  BY DEF Reject, Parse, Emit, Ready, TypeOK
<1>2. PICK q, n, u : q = Head(batch[w])[1] /\ n = Head(batch[w])[2] /\ u = log[q][n].url
  OBVIOUS
<1>3. /\ n \in Nat /\ u \in Urls
      /\ log[q][n].page # None => log[q][n].page \in Pages /\ UrlOf[log[q][n].page] = u
  <2>1. Head(batch[w]) \in Ids /\ log \in Logs
    BY <1>1, HeadTyped DEF TypeOK
  <2>2. n \in Nat
    BY <1>2, <2>1, IdTyped
  <2> QED BY <1>1, <1>2, <2>2, HeadTyped DEF Message, HasBody
<1>4. UNCHANGED <<committed, pos, polled, kicked>>
  BY DEF Reject, Parse, Emit, groupVars, cutVars
<1>5. \A v \in Workers : v # w => batch'[v] = batch[v] /\ out'[v] = out[v]
  BY DEF Reject, Parse, Emit, Over, TypeOK
<1>6. batch'[w] = batch[w] \/ batch'[w] = Tail(batch[w])
  BY DEF Reject, Parse, Emit, Over, TypeOK
<1>7. out[w] # <<>> =>
        /\ log[q][n].page # None
        /\ \A o \in ToSet(out[w]) : o.topic = "parsed" => o.what = log[q][n].page
        /\ Sure(log[q][n].page) /\ q \notin kicked =>
             Output("parsed", log[q][n].page) \in ToSet(out[w]) \/ shown[u] >= n
  BY <1>2 DEF NewestInv, HandInv
<1>8. CASE Reject(w)
  <2>1. shown' = shown /\ out'[w] = <<>>
    BY <1>8 DEF Reject, Ready
  <2>2. ~SureAt(q, n)
    BY <1>2, <1>8 DEF Reject, HasBody, Message, SureAt, Sure
  <2>3. Handles(w, q, n, u)
    BY <1>1, <1>2, <1>4, <1>5, <1>6, <2>1, <2>2 DEF Handles
  <2> QED BY <2>3, NewestGrows
<1>9. CASE Parse(w)
  <2>1. PICK outputs \in Seq(OutputTypes) :
          /\ out' = [out EXCEPT ![w] = outputs]
          /\ IF outputs = <<>> THEN Over(w) ELSE UNCHANGED <<batch, times>>
          /\ Due(log[q][n].page) \subseteq ToSet(outputs)
          /\ \A o \in ToSet(outputs) : o.topic = "parsed" => o.what = log[q][n].page
    BY <1>2, <1>9, ParseResult DEF Message
  <2>2. shown' = shown /\ out'[w] = outputs /\ log[q][n].page # None
    BY <1>2, <1>9, <2>1 DEF Parse, TypeOK, HasBody, Message
  <2>3. Sure(log[q][n].page) => Output("parsed", log[q][n].page) \in ToSet(outputs)
    <3> SUFFICES ASSUME Sure(log[q][n].page)
                 PROVE  Output("parsed", log[q][n].page) \in Due(log[q][n].page)
      BY <2>1
    <3>1. Output("parsed", log[q][n].page) \in OutputTypes
      BY <1>3, <2>2 DEF Output, OutputTypes
    <3>2. log[q][n].page \notin Rejected \cup Broken
      BY DEF Sure
    <3> QED BY <2>2, <3>1, <3>2 DEF Due
  <2>4. outputs = <<>> => ToSet(outputs) = {}
    BY DEF ToSet
  <2>5. outputs # <<>> => batch' = batch
    BY <2>1
  <2>6. batch'[w] # batch[w] /\ SureAt(q, n) /\ q \notin kicked => shown'[u] >= n
    BY <2>3, <2>4, <2>5 DEF SureAt
  <2>7. Handles(w, q, n, u)
    BY <1>1, <1>2, <1>4, <1>5, <1>6, <2>1, <2>2, <2>3, <2>5, <2>6 DEF Handles
  <2> QED BY <2>7, NewestGrows
<1>10. CASE Emit(w)
  <2>1. /\ out[w] # <<>> /\ out[w] \in Seq(OutputTypes) /\ out'[w] = Tail(out[w])
        /\ Len(out[w]) # 1 => batch' = batch
    BY <1>10 DEF Emit, TypeOK
  <2>2. ToSet(out[w]) = {Head(out[w])} \cup ToSet(out'[w]) /\ (Len(out[w]) = 1 <=> out'[w] = <<>>)
    BY <2>1, ToSetTail
  <2>3. PICK o : o = Head(out[w])
    OBVIOUS
  <2>4. shown' = IF o.topic = "parsed" THEN [shown EXCEPT ![UrlOf[o.what]] = n] ELSE shown
    BY <1>2, <1>10, <2>3 DEF Emit
  <2>5. o.topic = "parsed" => UrlOf[o.what] = u
    BY <1>3, <1>7, <2>1, <2>2, <2>3
  <2>6. shown' = shown \/ shown' = [shown EXCEPT ![u] = n]
    BY <2>4, <2>5
  <2>7. shown \in [Urls -> Nat]
    BY DEF TypeOK
  <2>8. shown[u] >= n => shown'[u] >= n
    BY <1>3, <2>6, <2>7
  <2>9. o = Output("parsed", log[q][n].page) => shown'[u] >= n
    <3>1. o = Output("parsed", log[q][n].page) => o.topic = "parsed"
      BY DEF Output
    <3> QED BY <1>3, <2>4, <2>5, <2>7, <3>1
  <2>10. Sure(log[q][n].page) /\ q \notin kicked =>
           Output("parsed", log[q][n].page) \in ToSet(out'[w]) \/ shown'[u] >= n
    BY <1>7, <2>1, <2>2, <2>3, <2>8, <2>9
  <2>11. out'[w] = <<>> => ToSet(out'[w]) = {}
    BY DEF ToSet
  <2>12. batch'[w] # batch[w] /\ SureAt(q, n) /\ q \notin kicked => shown'[u] >= n
    BY <2>1, <2>2, <2>10, <2>11 DEF SureAt
  <2>13. out'[w] # <<>> =>
          /\ batch'[w] = batch[w] /\ log[q][n].page # None
          /\ \A x \in ToSet(out'[w]) : x.topic = "parsed" => x.what = log[q][n].page
    BY <1>7, <2>1, <2>2
  <2>14. Handles(w, q, n, u)
    BY <1>1, <1>2, <1>4, <1>5, <1>6, <2>6, <2>10, <2>12, <2>13 DEF Handles
  <2> QED BY <2>14, NewestGrows
<1> QED BY <1>8, <1>9, <1>10

\* Each action keeps the newest version on top.
LEMMA NewestStep ==
  TypeOK /\ TypeOK' /\ GroupInv /\ NewestInv /\ [Next]_vars => NewestInv'
<1> SUFFICES ASSUME TypeOK, TypeOK', GroupInv, NewestInv, [Next]_vars
             PROVE  NewestInv'
  OBVIOUS
<1> USE DEF groupVars, workVars, sentVars, cutVars
<1>0. log' = log
  BY LogStays
<1>n. \A p \in Partitions : committed[p] \in Nat /\ pos[p] \in Nat /\ pos'[p] \in Nat
  BY DEF TypeOK
<1>1. ASSUME Settle \/ Rejoin PROVE NewestInv'
  <2>1. Regroup
    BY <1>1 DEF Settle, Rejoin
  <2>2. /\ UNCHANGED <<committed, shown, batch, out>> /\ kicked \subseteq kicked'
        /\ \A v \in Workers : polled'[v] = {}
    BY <2>1, RegroupResult
  <2> QED BY <1>0, <2>2, NewestQuiet
<1>2. ASSUME NEW w \in Workers, Poll(w) PROVE NewestInv'
  <2>1. PICK new \in SUBSET Ids, b \in Seq(Ids) :
           /\ batch' = [batch EXCEPT ![w] = b] /\ ToSet(b) = new /\ Ordered(b) /\ b # <<>>
           /\ pos' \in [Partitions -> Nat]
           /\ \A p \in Partitions :
                /\ pos[p] <= pos'[p] /\ pos'[p] <= Len(log[p])
                /\ owner[p] # w => pos'[p] = pos[p]
                /\ \A i \in Nat : <<p, i>> \in new <=> pos[p] < i /\ i <= pos'[p]
           /\ polled' = [polled EXCEPT ![w] = {p \in Partitions : pos[p] < pos'[p]}]
    BY <1>2, PollReads
  <2>2. /\ polled[w] = {} /\ batch[w] = <<>>
        /\ UNCHANGED <<committed, shown, out, kicked>>
    BY <1>2 DEF Poll, Idle
  <2>3. \A v \in Workers : v # w => polled'[v] = polled[v] /\ batch'[v] = batch[v]
    BY <2>1 DEF TypeOK
  <2>4. NewestOnTop'
    BY <1>0, <2>2 DEF NewestInv, NewestOnTop, Sure
  <2>5. ReadInv'
    <3> SUFFICES ASSUME NEW v \in Workers, NEW p \in polled'[v] \ kicked',
                        NEW i \in committed'[p] + 1 .. pos'[p]
                 PROVE  /\ SureAt(p, i)' =>
                             <<p, i>> \in ToSet(batch'[v]) \/ shown'[log'[p][i].url] >= i
                        /\ \A j \in committed'[p] + 1 .. i - 1 :
                             log'[p][j].url = log'[p][i].url /\ <<p, j>> \in ToSet(batch'[v])
                               => <<p, i>> \in ToSet(batch'[v])
      BY Zenon DEF ReadInv
    <3>1. p \in Partitions
      BY DEF TypeOK
    <3>2. i \in Nat /\ i \in committed[p] + 1 .. pos'[p] /\ kicked' = kicked
      BY <1>n, <2>2, <3>1
    <3>3. CASE v = w
      <4>1. owner[p] = w
        BY <2>1, <1>n, <3>1, <3>3 DEF TypeOK
      <4>2. pos[p] = committed[p]
        BY <2>2, <3>1, <4>1 DEF GroupInv
      <4>3. <<p, i>> \in new
        BY <1>n, <2>1, <3>1, <3>2, <4>2
      <4>4. <<p, i>> \in ToSet(batch'[v])
        BY <2>1, <3>3, <4>3 DEF TypeOK
      <4> QED BY <4>4
    <3>4. CASE v # w
      <4>1. p \in polled[v] /\ owner[p] = v
        BY <2>3, <3>4 DEF GroupInv
      <4>2. pos'[p] = pos[p]
        BY <2>1, <3>1, <3>4, <4>1
      <4>3. p \in polled[v] \ kicked /\ i \in committed[p] + 1 .. pos[p]
        BY <3>2, <4>1, <4>2
      <4>4. /\ SureAt(p, i) => <<p, i>> \in ToSet(batch[v]) \/ shown[log[p][i].url] >= i
            /\ \A j \in committed[p] + 1 .. i - 1 :
                 log[p][j].url = log[p][i].url /\ <<p, j>> \in ToSet(batch[v])
                   => <<p, i>> \in ToSet(batch[v])
        BY <4>3 DEF NewestInv, ReadInv
      <4>5. SureAt(p, i)' <=> SureAt(p, i)
        BY <1>0 DEF SureAt, Sure
      <4>6. batch'[v] = batch[v] /\ shown' = shown /\ committed' = committed
        BY <2>2, <2>3, <3>4
      <4> QED BY <1>0, <4>4, <4>5, <4>6
    <3> QED BY <3>3, <3>4
  <2>6. HandInv'
    <3> SUFFICES ASSUME NEW v \in Workers, out'[v] # <<>>,
                        NEW p, NEW i, p = Head(batch'[v])[1], i = Head(batch'[v])[2]
                 PROVE  /\ log'[p][i].page # None
                        /\ \A o \in ToSet(out'[v]) : o.topic = "parsed" => o.what = log'[p][i].page
                        /\ Sure(log'[p][i].page) /\ p \notin kicked' =>
                             \/ Output("parsed", log'[p][i].page) \in ToSet(out'[v])
                             \/ shown'[log'[p][i].url] >= i
      BY Zenon DEF HandInv, Sure
    <3>1. v # w
      BY <2>2 DEF TypeOK
    <3>2. batch'[v] = batch[v] /\ out'[v] = out[v]
      BY <2>2, <2>3, <3>1
    <3> QED BY <1>0, <2>2, <3>2 DEF NewestInv, HandInv
  <2> QED BY <2>4, <2>5, <2>6 DEF NewestInv
<1>3. ASSUME NEW w \in Workers, Reject(w) \/ Parse(w) \/ Emit(w) PROVE NewestInv'
  BY <1>0, <1>3, NewestHandled
<1>4. ASSUME NEW w \in Workers, Unread(w) \/ Quit(w) \/ Die(w) PROVE NewestInv'
  <2>1. Leave(w) /\ UNCHANGED <<committed, pos, shown, kicked>>
    BY <1>4 DEF Unread, Quit, Die
  <2>2. ASSUME NEW v \in Workers
        PROVE  /\ polled'[v] \subseteq polled[v] /\ (polled'[v] = {} \/ batch'[v] = batch[v])
               /\ out'[v] = <<>> \/ (out'[v] = out[v] /\ batch'[v] = batch[v])
    BY <2>1 DEF Leave, TypeOK
  <2>3. \A v \in Workers : \A p \in polled'[v] : pos'[p] = pos[p]
    BY <2>1
  <2> QED BY <1>0, <2>1, <2>2, <2>3, NewestQuiet
<1>6. ASSUME NEW w \in Workers, Start(w) \/ Stop(w) PROVE NewestInv'
  <2>1. UNCHANGED <<committed, pos, shown, kicked, polled, batch, out>>
    BY <1>6 DEF Start, Stop
  <2> QED BY <1>0, <2>1, NewestQuiet
<1>7. CASE UNCHANGED vars
  <2>1. UNCHANGED <<committed, pos, shown, kicked, polled, batch, out>>
    BY <1>7 DEF vars
  <2> QED BY <1>0, <2>1, NewestQuiet
<1>5. ASSUME NEW w \in Workers, Commit(w) PROVE NewestInv'
  <2>1. batch[w] = <<>> /\ UNCHANGED <<owner, pos, up, batch, shown, out, kicked>>
    BY <1>5 DEF Commit
  <2>2. \A v \in Workers : polled'[v] = IF v = w THEN {} ELSE polled[v]
    BY <1>5 DEF Commit, TypeOK
  <2>3. \A p \in Partitions : committed'[p] = IF p \in polled[w] THEN pos[p] ELSE committed[p]
    BY <1>5 DEF Commit
  <2>4. NewestOnTop'
    <3> SUFFICES ASSUME NEW x \in Urls, NEW p, p = PartitionOf[x], p \notin kicked,
                        NEW i \in 1 .. committed'[p], log[p][i].url = x, SureAt(p, i)
                 PROVE  shown[x] >= i
      BY <1>0, <2>1 DEF NewestOnTop, SureAt, Sure
    <3>1. p \in Partitions
      BY PagesType
    <3>2. CASE i <= committed[p]
      <4>1. i \in 1 .. committed[p]
        BY <1>n, <2>3, <3>1, <3>2
      <4> QED BY <4>1 DEF NewestInv, NewestOnTop, SureAt
    <3>3. CASE ~(i <= committed[p])
      <4>1. p \in polled[w] /\ i \in committed[p] + 1 .. pos[p]
        BY <1>n, <2>3, <3>1, <3>3
      <4>2. <<p, i>> \notin ToSet(batch[w])
        BY <2>1 DEF ToSet
      <4> QED BY <4>1, <4>2 DEF NewestInv, ReadInv
    <3> QED BY <3>2, <3>3
  <2>5. ReadInv'
    <3> SUFFICES ASSUME NEW v \in Workers, NEW p \in polled'[v] \ kicked',
                        NEW i \in committed'[p] + 1 .. pos'[p]
                 PROVE  /\ SureAt(p, i)' =>
                             <<p, i>> \in ToSet(batch'[v]) \/ shown'[log'[p][i].url] >= i
                        /\ \A j \in committed'[p] + 1 .. i - 1 :
                             log'[p][j].url = log'[p][i].url /\ <<p, j>> \in ToSet(batch'[v])
                               => <<p, i>> \in ToSet(batch'[v])
      BY Zenon DEF ReadInv
    <3>1. v # w /\ p \in polled[v] /\ p \in Partitions
      BY <2>2 DEF TypeOK
    <3>2. p \notin polled[w]
      BY <3>1 DEF GroupInv
    <3>3. p \in polled[v] \ kicked /\ i \in committed[p] + 1 .. pos[p] /\ committed'[p] = committed[p]
      BY <2>1, <2>3, <3>1, <3>2
    <3>4. /\ SureAt(p, i) => <<p, i>> \in ToSet(batch[v]) \/ shown[log[p][i].url] >= i
          /\ \A j \in committed[p] + 1 .. i - 1 :
               log[p][j].url = log[p][i].url /\ <<p, j>> \in ToSet(batch[v])
                 => <<p, i>> \in ToSet(batch[v])
      BY <3>3 DEF NewestInv, ReadInv
    <3>5. SureAt(p, i)' <=> SureAt(p, i)
      BY <1>0 DEF SureAt, Sure
    <3> QED BY <1>0, <2>1, <3>3, <3>4, <3>5
  <2>6. HandInv'
    BY <1>0, <2>1 DEF NewestInv, HandInv, Sure
  <2> QED BY <2>4, <2>5, <2>6 DEF NewestInv
<1> QED BY <1>1, <1>2, <1>3, <1>4, <1>5, <1>6, <1>7 DEF Next, Step, PollNothing

\* Nothing is committed, read or in hand at first.
LEMMA NewestInit == Init => NewestInv
<1> SUFFICES ASSUME Init PROVE NewestInv
  OBVIOUS
<1>1. NewestOnTop
  <2>1. \A p \in Partitions : committed[p] = 0
    BY DEF Init
  <2>2. \A u \in Urls : PartitionOf[u] \in Partitions
    BY PagesType
  <2> QED BY <2>1, <2>2 DEF NewestOnTop
<1>2. ReadInv
  BY DEF Init, ReadInv
<1>3. HandInv
  BY DEF Init, HandInv
<1> QED BY <1>1, <1>2, <1>3 DEF NewestInv

\* Once the messages of a URL are committed, the version that was published last is
\* the newest that always has text, whoever read, replayed or died over the older
\* ones (the stable sort by URL of ParseWorker.run, and its commit after the batch).
THEOREM NewestVersionWins == Spec => []NewestOnTop
<1>1. Spec => []NewestInv
  BY NewestInit, NewestStep, GroupAlways, PTL DEF Spec
<1>2. NewestInv => NewestOnTop
  BY DEF NewestInv
<1> QED BY <1>1, <1>2, PTL
=============================================================================
