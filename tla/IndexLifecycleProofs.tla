------------------------ MODULE IndexLifecycleProofs ------------------------
(***************************************************************************)
(* Proofs about the index directory.                                       *)
(***************************************************************************)
EXTENDS IndexLifecycle, FiniteSetTheorems, FunctionTheorems, WellFoundedInduction, TLAPS

-----------------------------------------------------------------------------
(* ByRank finds an order: by the least size of a set that had none.        *)

\* A set of numbers that is not empty has a least element.
LEMMA LeastNumber ==
  ASSUME NEW S \in SUBSET Nat, S # {}
  PROVE  \E n \in S : \A m \in S : n <= m
<1>1. PICK n \in S : \A m \in S : ~(<<m, n>> \in OpToRel(<, Nat))
  BY NatLessThanWellFounded, WFMin
<1>2. \A m \in S : ~(m < n)
  BY <1>1 DEF OpToRel
<1> QED BY <1>2

\* A sequence of all members of a set, none of them twice, by their rank.
IsByRank(f, S, rank) ==
  /\ f \in [1 .. Cardinality(S) -> S] /\ IsInjective(f)
  /\ \A i, j \in DOMAIN f : i < j => rank[f[i]] <= rank[f[j]]

\* With a member of the least rank before it, an order of the others is one of all.
LEMMA ByRankFirst ==
  ASSUME NEW S, IsFiniteSet(S), NEW x \in S, NEW rank, \A y \in S : rank[y] \in Nat,
         \A y \in S : rank[x] <= rank[y], NEW f, IsByRank(f, S \ {x}, rank)
  PROVE  \E g : IsByRank(g, S, rank)
<1> DEFINE n == Cardinality(S)
           g == [i \in 1 .. n |-> IF i = 1 THEN x ELSE f[i - 1]]
<1>1. n \in Nat /\ n # 0 /\ Cardinality(S \ {x}) = n - 1
  <2>1. n \in Nat
    BY FS_CardinalityType
  <2>2. n # 0
    BY FS_EmptySet
  <2>3. Cardinality(S \ {x}) = n - 1
    BY FS_RemoveElement
  <2> QED BY <2>1, <2>2, <2>3
<1> HIDE DEF n
<1>2. f \in [1 .. n - 1 -> S \ {x}] /\ \A i, j \in 1 .. n - 1 : f[i] = f[j] => i = j
  BY <1>1 DEF IsByRank, IsInjective
<1>3. \A i, j \in 1 .. n - 1 : i < j => rank[f[i]] <= rank[f[j]]
  BY <1>1 DEF IsByRank
<1>4. \A i \in 1 .. n : i # 1 => i - 1 \in 1 .. n - 1 /\ f[i - 1] \in S \ {x}
  BY <1>1, <1>2
<1>5. g \in [1 .. n -> S]
  BY <1>4
<1>6. ASSUME NEW i \in 1 .. n, NEW j \in 1 .. n, g[i] = g[j] PROVE i = j
  BY <1>1, <1>2, <1>4, <1>6
<1>7. ASSUME NEW i \in 1 .. n, NEW j \in 1 .. n, i < j PROVE rank[g[i]] <= rank[g[j]]
  <2>1. j # 1 /\ j - 1 \in 1 .. n - 1 /\ g[j] = f[j - 1] /\ f[j - 1] \in S
    BY <1>1, <1>4, <1>7
  <2>2. CASE i = 1
    BY <2>1, <2>2
  <2>3. CASE i # 1
    <3>1. i - 1 \in 1 .. n - 1 /\ g[i] = f[i - 1] /\ i - 1 < j - 1
      BY <1>1, <1>4, <1>7, <2>3
    <3> QED BY <1>3, <2>1, <3>1
  <2> QED BY <2>2, <2>3
<1> HIDE DEF g
<1>8. IsByRank(g, S, rank)
  BY <1>5, <1>6, <1>7 DEF IsByRank, IsInjective, n
<1> QED BY <1>8

\* Every finite set can be put in order.
LEMMA ByRankExists ==
  ASSUME NEW S, IsFiniteSet(S), NEW rank, \A x \in S : rank[x] \in Nat
  PROVE  \E f : IsByRank(f, S, rank)
<1> DEFINE Without == {n \in Nat : \E T \in SUBSET S : Cardinality(T) = n /\ ~\E f : IsByRank(f, T, rank)}
<1>1. ASSUME Without # {} PROVE FALSE
  <2>1. PICK n \in Without : \A m \in Without : n <= m
    <3> HIDE DEF Without
    <3>1. Without \in SUBSET Nat
      BY DEF Without
    <3> QED BY <1>1, <3>1, LeastNumber
  <2>2. PICK T \in SUBSET S : Cardinality(T) = n /\ ~\E f : IsByRank(f, T, rank)
    BY <2>1
  <2>3. IsFiniteSet(T)
    BY FS_Subset
  <2>4. CASE T = {}
    <3>1. Cardinality(T) = 0
      BY <2>4, FS_EmptySet
    <3>2. IsByRank([i \in 1 .. 0 |-> i], T, rank)
      BY <2>4, <3>1 DEF IsByRank, IsInjective
    <3> QED BY <2>2, <3>2
  <2>5. CASE T # {}
    <3> DEFINE R == {rank[y] : y \in T}
    <3>1. R \in SUBSET Nat /\ R # {}
      BY <2>5
    <3>2. PICK r \in R : \A q \in R : r <= q
      <4> HIDE DEF R
      <4> QED BY <3>1, LeastNumber
    <3>3. PICK x \in T : \A y \in T : rank[x] <= rank[y]
      BY <3>2
    <3>4. Cardinality(T \ {x}) = n - 1 /\ n \in Nat /\ n # 0
      <4>1. Cardinality(T \ {x}) = Cardinality(T) - 1
        BY <2>3, FS_RemoveElement
      <4>2. Cardinality(T) # 0
        BY <2>3, <2>5, FS_EmptySet
      <4> QED BY <2>2, <4>1, <4>2
    <3>5. n - 1 \notin Without
      BY <2>1, <3>4
    <3>6. PICK f : IsByRank(f, T \ {x}, rank)
      BY <3>4, <3>5
    <3> QED BY <2>2, <2>3, <3>3, <3>6, ByRankFirst
  <2> QED BY <2>4, <2>5
<1>2. Cardinality(S) \in Nat
  BY FS_CardinalityType
<1> QED BY <1>1, <1>2

\* ByRank gives every member of the set once, by its rank.
LEMMA ByRankOrders ==
  ASSUME NEW S, IsFiniteSet(S), NEW rank, \A x \in S : rank[x] \in Nat
  PROVE  /\ Cardinality(S) \in Nat
         /\ ByRank(S, rank) \in Bijection(1 .. Cardinality(S), S)
<1>1. PICK f : IsByRank(f, S, rank)
  BY ByRankExists
<1>2. IsByRank(ByRank(S, rank), S, rank)
  BY <1>1 DEF ByRank, IsByRank
<1>3. Cardinality(S) \in Nat
  BY FS_CardinalityType
<1>4. ByRank(S, rank) \in Injection(1 .. Cardinality(S), S)
  BY <1>2 DEF IsByRank, Injection
<1>5. Cardinality(1 .. Cardinality(S)) = Cardinality(S)
  BY <1>3, FS_Interval
<1>6. ByRank(S, rank) \in Surjection(1 .. Cardinality(S), S)
  BY <1>4, <1>5, FS_Injection
<1> QED BY <1>3, <1>4, <1>6 DEF Bijection

-----------------------------------------------------------------------------
(* Type correctness.                                                       *)

\* A call in progress has the fields of its kind.
LEMMA OpTyped ==
  ASSUME op \in Ops
  PROVE  /\ op.at = "write" =>
              /\ op \in [at : {"write"}, name : Names, file : 1 .. 5, kind : {"add", "merge"}]
              /\ op.name \in Names /\ op.file \in 1 .. 5 /\ op.kind \in {"add", "merge"}
         /\ op.at = "flush" =>
              op.name \in Names /\ op.k \in Nat /\ op.doc \in Docs /\ op.id \in Nat
         /\ op.at = "remove" =>
              op \in [at : {"remove"}, names : Seq(Names)] /\ op.names \in Seq(Names)
<1>1. Len(FileOrder) + 1 = 5
  BY DEF FileOrder
<1> QED BY <1>1 DEF Ops, Idle, Closed

\* The live documents of loaded segments are finitely many, each of them a document.
LEMMA LiveTyped ==
  ASSUME content \in Seq(Seq(Docs)), NEW segs \in Seq(Segments)
  PROVE  /\ IsFiniteSet(LiveOf(segs))
         /\ \A x \in LiveOf(segs) :
              /\ x[1] \in 1 .. Len(segs) /\ x = <<x[1], x[2]>>
              /\ x[2] \in 1 .. Len(content[segs[x[1]].build]) \ segs[x[1]].dead
              /\ DocAt(segs, x) \in Docs
<1> DEFINE Of(k) == {k} \X (1 .. Len(content[segs[k].build]) \ segs[k].dead)
           f == [k \in 1 .. Len(segs) |-> Of(k)]
           Parts == {Of(k) : k \in 1 .. Len(segs)}
<1>1. ASSUME NEW k \in 1 .. Len(segs) PROVE content[segs[k].build] \in Seq(Docs)
  <2>1. segs[k] \in Segments
    OBVIOUS
  <2>2. segs[k].build \in 1 .. Len(content)
    BY <2>1 DEF Segments, Builds
  <2> QED BY <2>2
<1>2. ASSUME NEW k \in 1 .. Len(segs) PROVE IsFiniteSet(Of(k))
  <2> DEFINE c == content[segs[k].build]
  <2>1. Len(c) \in Nat
    BY <1>1
  <2> HIDE DEF c
  <2>2. IsFiniteSet(1 .. Len(c))
    BY <2>1, FS_Interval
  <2>3. IsFiniteSet(1 .. Len(c) \ segs[k].dead)
    BY <2>2, FS_Difference
  <2>4. IsFiniteSet({k})
    BY FS_Singleton
  <2>5. IsFiniteSet({k} \X (1 .. Len(c) \ segs[k].dead))
    BY <2>3, <2>4, FS_Product
  <2> QED BY <2>5 DEF c
<1>3. IsFiniteSet(Parts)
  <2> HIDE DEF Of
  <2>1. f \in Surjection(1 .. Len(segs), Parts)
    BY DEF Surjection
  <2>2. IsFiniteSet(1 .. Len(segs))
    BY FS_Interval
  <2> HIDE DEF f, Parts
  <2> QED BY <2>1, <2>2, FS_Surjection
<1>4. IsFiniteSet(UNION Parts)
  <2>1. \A P \in Parts : IsFiniteSet(P)
    <3> HIDE DEF Of
    <3> QED BY <1>2
  <2> HIDE DEF Parts
  <2> QED BY <1>3, <2>1, FS_UNION
<1>5. LiveOf(segs) = UNION Parts
  BY DEF LiveOf
<1>6. ASSUME NEW x \in LiveOf(segs)
      PROVE  /\ x[1] \in 1 .. Len(segs) /\ x = <<x[1], x[2]>>
             /\ x[2] \in 1 .. Len(content[segs[x[1]].build]) \ segs[x[1]].dead
             /\ DocAt(segs, x) \in Docs
  <2>1. PICK k \in 1 .. Len(segs) : x \in Of(k)
    BY DEF LiveOf
  <2>2. x = <<x[1], x[2]>> /\ x[1] = k /\ x[2] \in 1 .. Len(content[segs[k].build]) \ segs[k].dead
    BY <2>1
  <2>3. content[segs[k].build][x[2]] \in Docs
    BY <1>1, <2>2
  <2> QED BY <2>2, <2>3 DEF DocAt
<1> QED BY <1>4, <1>5, <1>6

\* The documents of a segment are those that are live in others, each as often.
IsMergeOf(c, segs) ==
  \E f \in Bijection(1 .. Len(c), LiveOf(segs)) : \A i \in 1 .. Len(c) : c[i] = DocAt(segs, f[i])

\* merge_segments keeps every live document, as often as it is there.
LEMMA MergedIsMerge ==
  ASSUME content \in Seq(Seq(Docs)), NEW segs \in Seq(Segments)
  PROVE  Merged(segs) \in Seq(Docs) /\ IsMergeOf(Merged(segs), segs)
<1> DEFINE S == LiveOf(segs)
           rank == [x \in S |-> DocAt(segs, x)]
           order == ByRank(S, rank)
           n == Cardinality(S)
<1>1. IsFiniteSet(S) /\ \A x \in S : rank[x] \in Nat /\ DocAt(segs, x) \in Docs
  BY LiveTyped, DocsType
<1>2. n \in Nat /\ order \in Bijection(1 .. n, S)
  <2> HIDE DEF S, rank
  <2> QED BY <1>1, ByRankOrders
<1>3. Merged(segs) = [i \in 1 .. n |-> DocAt(segs, order[i])]
  BY DEF Merged
<1> HIDE DEF order, n
<1>4. order \in [1 .. n -> S]
  BY <1>2, Fun_BijectionProperties
<1>5. Merged(segs) \in [1 .. n -> Docs]
  BY <1>1, <1>3, <1>4
<1>6. Merged(segs) \in Seq(Docs) /\ Len(Merged(segs)) = n
  BY <1>2, <1>5
<1> HIDE DEF S
<1> QED BY <1>2, <1>3, <1>6 DEF IsMergeOf, S

\* Names of directories have ranks.
LEMMA RankTyped == \A n \in Names : NameRank[n] \in Nat
<1> SUFFICES ASSUME NEW n \in Names PROVE NameRank[n] \in Nat
  OBVIOUS
<1>1. n[2] \in Nat
  BY IndexBoundsType DEF Names, SegName
<1> QED BY <1>1, IndexBoundsType DEF NameRank

\* What is to be opened is a sequence of names, no more than segments were built.
LEMMA NamedTyped ==
  ASSUME TypeOK
  PROVE  /\ Named \in Seq(Names) /\ Len(Named) <= Len(content)
         /\ genFile = NoGen => \A j, k \in 1 .. Len(Named) : Named[j] = Named[k] => j = k
<1>1. CASE genFile # NoGen
  BY <1>1 DEF Named, TypeOK
<1>2. CASE genFile = NoGen
  <2> DEFINE n == Cardinality(dirs)
             f == ByRank(dirs, NameRank)
  <2>1. n \in Nat /\ f \in Bijection(1 .. n, dirs)
    <3>1. IsFiniteSet(dirs) /\ \A x \in dirs : NameRank[x] \in Nat
      BY RankTyped DEF TypeOK
    <3> QED BY <3>1, ByRankOrders
  <2>2. n <= Len(content) /\ dirs \subseteq Names /\ Named = f
    BY <1>2 DEF TypeOK, Named
  <2> HIDE DEF n, f
  <2>3. f \in [1 .. n -> dirs] /\ \A j, k \in 1 .. n : f[j] = f[k] => j = k
    BY <2>1, Fun_BijectionProperties
  <2>4. f \in Seq(Names) /\ Len(f) = n
    BY <2>1, <2>2, <2>3
  <2> QED BY <2>2, <2>3, <2>4
<1> QED BY <1>1, <1>2

\* What Open loads: the whole segments of those named, each place once.
LEMMA OpenLoads ==
  ASSUME TypeOK, Open
  PROVE  /\ mem' \in Seq(Segments) /\ Len(mem') <= Len(Named)
         /\ \E order \in [1 .. Len(mem') -> 1 .. Len(Named)] :
              /\ \A j, k \in 1 .. Len(mem') : order[j] = order[k] => j = k
              /\ \A k \in 1 .. Len(mem') :
                   /\ Verdict(Named[order[k]]) = "whole"
                   /\ mem'[k].name = Named[order[k]]
                   /\ mem'[k].build = disk[Named[order[k]]].manifest
                   /\ mem'[k].dead = deadOn[Named[order[k]]]
<1> DEFINE whole == {i \in 1 .. Len(Named) : Verdict(Named[i]) = "whole"}
           order == ByRank(whole, [i \in whole |-> i])
           m == Cardinality(whole)
<1>1. Named \in Seq(Names) /\ Len(Named) \in Nat
  BY NamedTyped
<1>2. IsFiniteSet(whole) /\ m <= Len(Named)
  <2>1. IsFiniteSet(1 .. Len(Named)) /\ Cardinality(1 .. Len(Named)) = Len(Named)
    BY <1>1, FS_Interval
  <2>2. whole \in SUBSET (1 .. Len(Named))
    OBVIOUS
  <2> HIDE DEF whole
  <2>3. IsFiniteSet(whole) /\ Cardinality(whole) <= Cardinality(1 .. Len(Named))
    BY <2>1, <2>2, FS_Subset
  <2> QED BY <2>1, <2>3
<1>3. m \in Nat /\ order \in Bijection(1 .. m, whole)
  <2>1. \A i \in whole : [j \in whole |-> j][i] \in Nat
    OBVIOUS
  <2> HIDE DEF whole
  <2> QED BY <1>2, <2>1, ByRankOrders
<1>4. mem' = [i \in 1 .. m |-> Loaded(Named[order[i]], disk[Named[order[i]]].manifest,
                                       deadOn[Named[order[i]]])]
  BY DEF Open
<1> HIDE DEF order, m
<1>5. order \in [1 .. m -> whole] /\ \A j, k \in 1 .. m : order[j] = order[k] => j = k
  BY <1>3, Fun_BijectionProperties
<1>6. ASSUME NEW i \in 1 .. m
      PROVE  /\ order[i] \in 1 .. Len(Named) /\ Named[order[i]] \in Names
             /\ Verdict(Named[order[i]]) = "whole"
             /\ Loaded(Named[order[i]], disk[Named[order[i]]].manifest, deadOn[Named[order[i]]])
                  \in Segments
  <2>1. order[i] \in 1 .. Len(Named) /\ Verdict(Named[order[i]]) = "whole"
    BY <1>5
  <2>2. PICK n \in Names : n = Named[order[i]]
    BY <1>1, <2>1
  <2>3. disk[n].manifest \in Builds
    BY <2>1, <2>2 DEF Verdict
  <2>4. deadOn[n] \in SUBSET Nat
    BY DEF TypeOK
  <2> QED BY <2>1, <2>2, <2>3, <2>4 DEF Loaded, Segments
<1>7. mem' \in [1 .. m -> Segments]
  BY <1>4, <1>6
<1>8. mem' \in Seq(Segments) /\ Len(mem') = m
  BY <1>3, <1>7
<1>9. \A k \in 1 .. m :
        /\ mem'[k].name = Named[order[k]]
        /\ mem'[k].build = disk[Named[order[k]]].manifest
        /\ mem'[k].dead = deadOn[Named[order[k]]]
  BY <1>4 DEF Loaded
<1>10. order \in [1 .. m -> 1 .. Len(Named)]
  BY <1>5
<1> HIDE DEF whole
<1> QED BY <1>2, <1>5, <1>6, <1>8, <1>9, <1>10

\* Starting to write a segment keeps the types.
LEMMA StartTyped ==
  ASSUME TypeOK, NEW name \in Names, NEW docs \in Seq(Docs), NEW kind \in {"add", "merge"},
         op = Idle, StartWrite(name, docs, kind)
  PROVE  TypeOK'
<1> USE DEF TypeOK
<1>1. content \in Seq(Seq(Docs)) /\ Len(content) \in Nat /\ Len(content) < MaxBuilds
  BY DEF StartWrite
<1>2. content' \in Seq(Seq(Docs)) /\ Len(content') = Len(content) + 1
  BY <1>1 DEF StartWrite
<1>3. IsFiniteSet(dirs') /\ Cardinality(dirs') <= Len(content')
  <2>1. dirs' = dirs \cup {name}
    BY DEF StartWrite
  <2>2. IsFiniteSet(dirs) /\ Cardinality(dirs) <= Len(content)
    OBVIOUS
  <2> HIDE DEF TypeOK
  <2>3. Cardinality(dirs) \in Nat
    BY <2>2, FS_CardinalityType
  <2>4. /\ IsFiniteSet(dirs \cup {name})
        /\ Cardinality(dirs \cup {name}) =
             IF name \in dirs THEN Cardinality(dirs) ELSE Cardinality(dirs) + 1
    BY <2>2, FS_AddElement
  <2>5. Cardinality(dirs \cup {name}) <= Len(content) + 1
    BY <1>1, <2>2, <2>3, <2>4
  <2> QED BY <1>2, <2>1, <2>4, <2>5
<1>4. /\ op' = [at |-> "write", name |-> name, file |-> 1, kind |-> kind]
      /\ op' \in Ops /\ op'.at = "write" /\ op'.name \in dirs'
  <2>1. 1 \in 1 .. Len(FileOrder) + 1
    BY DEF FileOrder
  <2>2. op' = [at |-> "write", name |-> name, file |-> 1, kind |-> kind]
    BY DEF StartWrite
  <2>3. op' \in Ops
    BY <2>1, <2>2 DEF Ops
  <2> QED BY <2>2, <2>3 DEF StartWrite
<1>5. UNCHANGED <<disk, deadOn, genFile, clock, mem, tombs, kept>>
  BY DEF StartWrite
<1>6. Builds \subseteq Builds'
  BY <1>1, <1>2 DEF Builds
<1>7. mem' \in Seq(Segments') /\ Len(mem') = Len(mem)
  <2>1. Segments \subseteq Segments'
    BY <1>6 DEF Segments
  <2> QED BY <1>5, <2>1
<1>8. Len(mem') + 1 <= Len(content')
  BY <1>1, <1>2, <1>7 DEF Idle
<1>9. Len(content') <= MaxBuilds
  BY <1>1, <1>2, IndexBoundsType
<1>10. dirs' \subseteq Names /\ clobbered' \subseteq Names
  BY DEF StartWrite
<1>11. \A n \in Names \ dirs' : disk'[n] = NoFiles /\ deadOn'[n] = {}
  BY <1>5 DEF StartWrite
<1>12. tombs' \subseteq Builds' \X Nat
  BY <1>5, <1>6
<1>13. Len(genFile'.names) <= Len(content')
  BY <1>1, <1>2, <1>5
<1> QED BY <1>2, <1>3, <1>4, <1>5, <1>7, <1>8, <1>9, <1>10, <1>11, <1>12, <1>13

\* Where a crash cuts a call, the files are cut, empty or as they were.
LEMMA CutTyped ==
  ASSUME TypeOK, CutFiles
  PROVE  /\ disk' \in [Names -> [Files -> 0 .. Torn]] /\ deadOn' \in [Names -> SUBSET Nat]
         /\ \A n \in Names \ dirs : disk'[n] = NoFiles /\ deadOn'[n] = {}
         /\ genFile' \in [is : {"none", "torn", "listed"}, names : Seq(Names)]
         /\ Len(genFile'.names) <= Len(content)
<1>a. /\ disk \in [Names -> [Files -> 0 .. Torn]] /\ deadOn \in [Names -> SUBSET Nat]
      /\ \A n \in Names \ dirs : disk[n] = NoFiles /\ deadOn[n] = {}
      /\ genFile \in [is : {"none", "torn", "listed"}, names : Seq(Names)]
      /\ Len(genFile.names) <= Len(content) /\ Len(content) \in Nat /\ op \in Ops
      /\ Torn \in 0 .. Torn /\ 0 \in 0 .. Torn
  BY IndexBoundsType DEF TypeOK, Torn
<1>1. CASE UNCHANGED <<disk, deadOn, genFile>>
  BY <1>a, <1>1
<1>2. CASE /\ op.at = "write" /\ op.file <= Len(FileOrder)
           /\ LET f == FileOrder[op.file]
              IN  IF f = "deletes"
                  THEN deadOn' = [deadOn EXCEPT ![op.name] = {}] /\ UNCHANGED disk
                  ELSE disk' = [disk EXCEPT ![op.name][f] = Torn] /\ UNCHANGED deadOn
           /\ UNCHANGED genFile
  <2>1. op.name \in Names /\ op.name \in dirs /\ op.file \in 1 .. 4
    BY <1>2, <1>a, OpTyped DEF TypeOK, FileOrder
  <2>2. PICK f : f = FileOrder[op.file]
    OBVIOUS
  <2>3. f \in Files \/ f = "deletes"
    BY <2>1, <2>2 DEF FileOrder, Files
  <2>4. CASE f = "deletes"
    BY <1>2, <1>a, <2>1, <2>2, <2>4
  <2>5. CASE f # "deletes"
    <3>1. f \in Files /\ disk' = [disk EXCEPT ![op.name][f] = Torn] /\ deadOn' = deadOn
      BY <1>2, <2>2, <2>3, <2>5
    <3>2. disk' \in [Names -> [Files -> 0 .. Torn]]
      BY <1>a, <2>1, <3>1
    <3> QED BY <1>2, <1>a, <2>1, <3>1, <3>2
  <2> QED BY <2>4, <2>5
<1>3. CASE /\ op.at = "flush" /\ op.name \in dirs
           /\ deadOn' = [deadOn EXCEPT ![op.name] = {}]
           /\ UNCHANGED <<disk, genFile>>
  BY <1>3, <1>a
<1>4. CASE op.at = "publish" /\ genFile' = TornGen /\ UNCHANGED <<disk, deadOn>>
  BY <1>4, <1>a DEF TornGen
<1>5. CASE /\ op.at = "remove" /\ op.names # <<>>
           /\ \E gone \in SUBSET Files, dead \in {{}, deadOn[Head(op.names)]} :
                /\ disk' = [disk EXCEPT ![Head(op.names)] =
                              [f \in Files |-> IF f \in gone THEN 0 ELSE @[f]]]
                /\ deadOn' = [deadOn EXCEPT ![Head(op.names)] = dead]
           /\ UNCHANGED genFile
  <2>1. PICK n \in Names : n = Head(op.names)
    BY <1>5, <1>a, OpTyped
  <2>2. PICK gone \in SUBSET Files, dead \in {{}, deadOn[n]} :
          /\ disk' = [disk EXCEPT ![n] = [f \in Files |-> IF f \in gone THEN 0 ELSE @[f]]]
          /\ deadOn' = [deadOn EXCEPT ![n] = dead]
    BY <1>5, <2>1
  <2>3. [f \in Files |-> IF f \in gone THEN 0 ELSE disk[n][f]] \in [Files -> 0 .. Torn]
    BY <1>a
  <2>4. disk' \in [Names -> [Files -> 0 .. Torn]] /\ deadOn' \in [Names -> SUBSET Nat]
    BY <1>a, <2>2, <2>3
  <2>5. disk[n] = NoFiles => [f \in Files |-> IF f \in gone THEN 0 ELSE disk[n][f]] = NoFiles
    BY DEF NoFiles
  <2>6. \A x \in Names \ dirs : disk'[x] = NoFiles /\ deadOn'[x] = {}
    BY <1>a, <2>2, <2>5
  <2> QED BY <1>5, <1>a, <2>4, <2>6
<1> QED BY <1>1, <1>2, <1>3, <1>4, <1>5 DEF CutFiles

\* Each action keeps the types.
LEMMA TypeStep == TypeOK /\ [Next]_vars => TypeOK'
<1> SUFFICES ASSUME TypeOK, [Next]_vars PROVE TypeOK'
  OBVIOUS
<1> USE DEF diskVars, historyVars
<1>a. /\ content \in Seq(Seq(Docs)) /\ Len(content) \in Nat /\ Len(content) <= MaxBuilds
      /\ MaxBuilds \in Nat /\ MaxClock \in Nat /\ mem \in Seq(Segments) /\ Len(mem) \in Nat
      /\ Torn = MaxBuilds + 1 /\ op \in Ops
  BY IndexBoundsType DEF TypeOK, Torn
<1>b. content' = content => Segments' = Segments /\ Builds' = Builds
  BY DEF Segments, Builds
<1>1. ASSUME NEW batch \in Batches, AddDocuments(batch) PROVE TypeOK'
  <2>1. op = Idle /\ StartWrite(SegName(Len(mem)), batch, "add")
    BY <1>1 DEF AddDocuments
  <2>2. Len(mem) <= Len(content) /\ Len(content) < MaxBuilds
    BY <2>1 DEF TypeOK, Idle, StartWrite
  <2>3. SegName(Len(mem)) \in Names
    BY <1>a, <2>2 DEF Names
  <2>4. batch \in Seq(Docs)
    BY BatchesType
  <2> QED BY <2>1, <2>3, <2>4, StartTyped
<1>2. ASSUME Merge PROVE TypeOK'
  <2>1. op = Idle /\ StartWrite(MergedName, Merged(mem), "merge")
    BY <1>2 DEF Merge
  <2>2. MergedName \in Names
    BY DEF MergedName, Names, TypeOK
  <2>3. Merged(mem) \in Seq(Docs)
    BY <1>a, MergedIsMerge
  <2> QED BY <2>1, <2>2, <2>3, StartTyped
<1>3. ASSUME WriteFile PROVE TypeOK'
  <2>1. /\ op.at = "write" /\ op.name \in Names /\ op.name \in dirs /\ op.file \in 1 .. 5
        /\ op \in [at : {"write"}, name : Names, file : 1 .. 5, kind : {"add", "merge"}]
    BY <1>3, <1>a, OpTyped DEF WriteFile, TypeOK
  <2>2. op.file <= 4 /\ Len(FileOrder) = 4
    BY <1>3 DEF WriteFile, FileOrder
  <2>3. op' = [op EXCEPT !.file = @ + 1]
    BY <1>3 DEF WriteFile
  <2>4. op' \in [at : {"write"}, name : Names, file : 1 .. 5, kind : {"add", "merge"}]
    BY <2>1, <2>2, <2>3
  <2>5. op' \in Ops /\ op'.at = "write" /\ op'.name = op.name
    BY <2>1, <2>2, <2>3, <2>4 DEF Ops
  <2>6. UNCHANGED <<dirs, genFile, content, clock, mem, historyVars>>
    BY <1>3 DEF WriteFile
  <2>7. PICK f : f = FileOrder[op.file]
    OBVIOUS
  <2>8. f \in Files \/ f = "deletes"
    BY <2>1, <2>2, <2>7 DEF FileOrder, Files
  <2>9. IF f = "deletes"
        THEN deadOn' = [deadOn EXCEPT ![op.name] = {}] /\ disk' = disk
        ELSE disk' = [disk EXCEPT ![op.name][f] = Len(content)] /\ deadOn' = deadOn
    BY <1>3, <2>7 DEF WriteFile
  <2>10. disk' \in [Names -> [Files -> 0 .. Torn]] /\ deadOn' \in [Names -> SUBSET Nat]
    <3>1. Len(content) \in 0 .. Torn
      BY <1>a
    <3>2. disk \in [Names -> [Files -> 0 .. Torn]] /\ deadOn \in [Names -> SUBSET Nat]
      BY DEF TypeOK
    <3>3. CASE f = "deletes"
      BY <2>9, <3>2, <3>3
    <3>4. CASE f # "deletes"
      <4>1. f \in Files /\ disk' = [disk EXCEPT ![op.name][f] = Len(content)] /\ deadOn' = deadOn
        BY <2>8, <2>9, <3>4
      <4> QED BY <2>1, <3>1, <3>2, <4>1
    <3> QED BY <3>3, <3>4
  <2>11. \A n \in Names \ dirs : disk'[n] = NoFiles /\ deadOn'[n] = {}
    BY <2>1, <2>9 DEF TypeOK
  <2>12. Len(mem') + 1 <= Len(content')
    BY <2>1, <2>6 DEF TypeOK
  <2> QED BY <1>b, <2>1, <2>5, <2>6, <2>10, <2>11, <2>12 DEF TypeOK
<1>4. ASSUME AddDone PROVE TypeOK'
  <2>1. /\ op.at = "write" /\ op.name \in Names
        /\ Len(mem) + 1 <= Len(content)
    BY <1>4, <1>a, OpTyped DEF AddDone, TypeOK
  <2>2. Loaded(op.name, Len(content), {}) \in Segments
    BY <1>a, <2>1 DEF Loaded, Segments, Builds
  <2>3. mem' \in Seq(Segments) /\ Len(mem') = Len(mem) + 1
    BY <1>4, <1>a, <2>2 DEF AddDone
  <2>4. UNCHANGED <<dirs, disk, deadOn, genFile, content, clock, tombs, clobbered>> /\ op' = Idle
    BY <1>4 DEF AddDone
  <2>5. kept' \subseteq Docs
    <3>1. Last(content) \in Seq(Docs)
      BY <1>a, <2>1 DEF Last
    <3>2. ToSet(Last(content)) \subseteq Docs
      BY <3>1 DEF ToSet
    <3> QED BY <1>4, <3>2 DEF AddDone, TypeOK
  <2>6. op' \in Ops /\ op'.at = "idle"
    BY <2>4 DEF Ops, Idle
  <2>7. Len(mem') + 0 <= Len(content)
    BY <2>1, <2>3, <1>a
  <2> QED BY <1>b, <2>3, <2>4, <2>5, <2>6, <2>7 DEF TypeOK
<1>5. ASSUME MergeDone PROVE TypeOK'
  <2>1. /\ op.at = "write" /\ op.name \in Names
        /\ Len(mem) + 1 <= Len(content)
    BY <1>5, <1>a, OpTyped DEF MergeDone, TypeOK
  <2>2. Loaded(op.name, Len(content), {}) \in Segments
    BY <1>a, <2>1 DEF Loaded, Segments, Builds
  <2>3. mem' \in Seq(Segments) /\ Len(mem') = 1
    BY <1>5, <2>2 DEF MergeDone
  <2>4. UNCHANGED <<dirs, disk, deadOn, genFile, content, clock, historyVars>>
    BY <1>5 DEF MergeDone
  <2>5. [i \in 1 .. Len(mem) |-> mem[i].name] \in Seq(Names)
    <3>1. \A i \in 1 .. Len(mem) : mem[i] \in Segments
      BY <1>a
    <3>2. \A i \in 1 .. Len(mem) : mem[i].name \in Names
      BY <3>1 DEF Segments
    <3> QED BY <1>a, <3>2
  <2>6. op' \in Ops /\ op'.at = "remove"
    BY <1>5, <2>5 DEF MergeDone, Ops
  <2>7. Len(mem') + 0 <= Len(content)
    BY <2>1, <2>3, <1>a
  <2> QED BY <1>b, <2>3, <2>4, <2>6, <2>7 DEF TypeOK
<1>6. ASSUME RemoveDir PROVE TypeOK'
  <2>1. /\ op.at = "remove" /\ op.names \in Seq(Names) /\ op.names # <<>>
        /\ op \in [at : {"remove"}, names : Seq(Names)]
    BY <1>6, <1>a, OpTyped DEF RemoveDir
  <2>2. PICK n : n = Head(op.names)
    OBVIOUS
  <2>3. n \in Names /\ Tail(op.names) \in Seq(Names)
    BY <2>1, <2>2
  <2>4. /\ dirs' = dirs \ {n} /\ disk' = [disk EXCEPT ![n] = NoFiles]
        /\ deadOn' = [deadOn EXCEPT ![n] = {}] /\ op' = [op EXCEPT !.names = Tail(@)]
        /\ UNCHANGED <<genFile, content, clock, mem, historyVars>>
    BY <1>6, <2>2 DEF RemoveDir
  <2>5. op' \in [at : {"remove"}, names : Seq(Names)]
    BY <2>1, <2>3, <2>4
  <2>6. op' \in Ops /\ op'.at = "remove"
    BY <2>5 DEF Ops
  <2>7. NoFiles \in [Files -> 0 .. Torn]
    BY <1>a DEF NoFiles
  <2>8. disk' \in [Names -> [Files -> 0 .. Torn]] /\ deadOn' \in [Names -> SUBSET Nat]
    BY <2>3, <2>4, <2>7 DEF TypeOK
  <2>9. \A x \in Names \ dirs' : disk'[x] = NoFiles /\ deadOn'[x] = {}
    BY <2>3, <2>4 DEF TypeOK
  <2>10. IsFiniteSet(dirs') /\ Cardinality(dirs') <= Len(content)
    <3>1. IsFiniteSet(dirs) /\ Cardinality(dirs) \in Nat /\ Cardinality(dirs) <= Len(content)
      BY FS_CardinalityType DEF TypeOK
    <3>2. IsFiniteSet(dirs \ {n}) /\ Cardinality(dirs \ {n}) <= Cardinality(dirs)
      BY <3>1, FS_RemoveElement
    <3>3. Cardinality(dirs \ {n}) \in Nat
      BY <3>2, FS_CardinalityType
    <3> QED BY <1>a, <2>4, <3>1, <3>2, <3>3
  <2>11. Len(mem) + 0 <= Len(content)
    BY <1>a, <2>1 DEF TypeOK
  <2> QED BY <1>b, <2>4, <2>6, <2>8, <2>9, <2>10, <2>11 DEF TypeOK
<1>7. ASSUME RemoveDone \/ Publish PROVE TypeOK'
  <2>1. /\ UNCHANGED <<dirs, disk, deadOn, genFile, content, clock, mem, historyVars>>
        /\ op.at # "write" /\ op' \in {Idle, [at |-> "publish"]}
    BY <1>7 DEF RemoveDone, Publish, Idle
  <2>2. op' \in Ops /\ op'.at \notin {"write", "flush"}
    BY <2>1 DEF Ops, Idle
  <2> QED BY <1>b, <2>1, <2>2 DEF TypeOK
<1>8. ASSUME NEW d \in Docs, Delete(d) PROVE TypeOK'
  <2>0. PICK k \in 1 .. Len(mem) : \E i \in FirstEntry(mem[k], d) \ mem[k].dead :
          /\ mem' = [mem EXCEPT ![k].dead = @ \cup {i}]
          /\ op' = [at |-> "flush", name |-> mem[k].name, k |-> k, doc |-> d, id |-> i]
    BY <1>8 DEF Delete
  <2>1. PICK i \in FirstEntry(mem[k], d) \ mem[k].dead :
          /\ mem' = [mem EXCEPT ![k].dead = @ \cup {i}]
          /\ op' = [at |-> "flush", name |-> mem[k].name, k |-> k, doc |-> d, id |-> i]
    BY <2>0
  <2>2. UNCHANGED <<dirs, disk, deadOn, genFile, content, clock, tombs, clobbered>> /\ op.at # "write"
    BY <1>8 DEF Delete, Idle
  <2>3. i \in Nat
    BY <1>a, <2>1 DEF FirstEntry
  <2>4. mem[k] \in Segments
    BY <1>a
  <2>5. [mem[k] EXCEPT !.dead = @ \cup {i}] \in Segments
    BY <2>3, <2>4 DEF Segments
  <2>6. mem' \in Seq(Segments) /\ Len(mem') = Len(mem)
    BY <1>a, <2>1, <2>5
  <2>7. op' \in Ops /\ op'.at = "flush" /\ op'.k \in 1 .. Len(mem)
    <3>1. mem[k].name \in Names /\ k \in Nat
      BY <2>4 DEF Segments
    <3> QED BY <2>1, <2>3, <3>1 DEF Ops
  <2>8. kept' \subseteq Docs
    BY <1>8 DEF Delete, TypeOK
  <2> QED BY <1>b, <2>2, <2>6, <2>7, <2>8 DEF TypeOK
<1>9. ASSUME Flush PROVE TypeOK'
  <2>1. op.at = "flush" /\ op.name \in Names /\ op.id \in Nat /\ op.k \in 1 .. Len(mem)
    BY <1>9, <1>a, OpTyped DEF Flush, TypeOK
  <2>2. UNCHANGED <<dirs, disk, genFile, content, clock, mem, kept, clobbered>> /\ op' = Idle
    BY <1>9 DEF Flush
  <2>3. op' \in Ops /\ op'.at = "idle"
    BY <2>2 DEF Ops, Idle
  <2>4. PICK seg \in Segments : seg = mem[op.k]
    BY <1>a, <2>1
  <2>5. seg.dead \in SUBSET Nat /\ seg.build \in Builds
    BY DEF Segments
  <2>6. IF op.name \in dirs
        THEN /\ deadOn' = [deadOn EXCEPT ![op.name] = seg.dead]
             /\ tombs' = tombs \cup {<<seg.build, op.id>>}
        ELSE deadOn' = deadOn /\ tombs' = tombs
    BY <1>9, <2>4 DEF Flush
  <2>7. deadOn' \in [Names -> SUBSET Nat] /\ \A n \in Names \ dirs : deadOn'[n] = {}
    BY <2>1, <2>5, <2>6 DEF TypeOK
  <2>8. tombs' \subseteq Builds \X Nat
    BY <2>1, <2>5, <2>6 DEF TypeOK
  <2>9. Len(mem) + 0 <= Len(content)
    BY <1>a, <2>1 DEF TypeOK
  <2> QED BY <1>b, <2>2, <2>3, <2>7, <2>8, <2>9 DEF TypeOK
<1>10. ASSUME PublishDone PROVE TypeOK'
  <2>1. /\ genFile' = [is |-> "listed", names |-> [i \in 1 .. Len(mem) |-> mem[i].name]]
        /\ op' = Idle /\ UNCHANGED <<dirs, disk, deadOn, content, clock, mem, historyVars>>
        /\ op.at = "publish"
    BY <1>10 DEF PublishDone
  <2>2. [i \in 1 .. Len(mem) |-> mem[i].name] \in Seq(Names)
    <3>1. \A i \in 1 .. Len(mem) : mem[i] \in Segments
      BY <1>a
    <3>2. \A i \in 1 .. Len(mem) : mem[i].name \in Names
      BY <3>1 DEF Segments
    <3> QED BY <1>a, <3>2
  <2>3. /\ genFile' \in [is : {"none", "torn", "listed"}, names : Seq(Names)]
        /\ Len(genFile'.names) = Len(mem)
    BY <2>1, <2>2
  <2>4. Len(mem) <= Len(content) /\ Len(mem) + 0 <= Len(content)
    BY <1>a, <2>1 DEF TypeOK
  <2>5. op' \in Ops /\ op'.at \notin {"write", "flush"}
    BY <2>1 DEF Ops, Idle
  <2> QED BY <1>b, <2>1, <2>3, <2>4, <2>5 DEF TypeOK
<1>11. ASSUME Crash PROVE TypeOK'
  <2>1. /\ UNCHANGED <<dirs, content, clock, historyVars>> /\ op' = Closed /\ mem' = <<>>
        /\ CutFiles
    BY <1>11 DEF Crash
  <2>2. /\ disk' \in [Names -> [Files -> 0 .. Torn]] /\ deadOn' \in [Names -> SUBSET Nat]
        /\ \A n \in Names \ dirs : disk'[n] = NoFiles /\ deadOn'[n] = {}
        /\ genFile' \in [is : {"none", "torn", "listed"}, names : Seq(Names)]
        /\ Len(genFile'.names) <= Len(content)
    BY <2>1, CutTyped
  <2>3. op' \in Ops /\ op'.at = "closed" /\ mem' \in Seq(Segments) /\ Len(mem') + 0 <= Len(content)
    BY <1>a, <2>1 DEF Ops, Closed
  <2> QED BY <1>b, <2>1, <2>2, <2>3 DEF TypeOK
<1>12. ASSUME Open PROVE TypeOK'
  <2>1. /\ mem' \in Seq(Segments) /\ Len(mem') <= Len(Named)
    BY <1>12, OpenLoads
  <2>2. Len(Named) <= Len(content) /\ Len(Named) \in Nat
    BY NamedTyped
  <2>3. UNCHANGED <<dirs, disk, deadOn, genFile, content, clock, historyVars>> /\ op' = Idle
    BY <1>12 DEF Open
  <2>4. op' \in Ops /\ op'.at \notin {"write", "flush"}
    BY <2>3 DEF Ops, Idle
  <2>5. Len(mem') + 0 <= Len(content)
    BY <1>a, <2>1, <2>2
  <2> QED BY <1>b, <2>1, <2>3, <2>4, <2>5 DEF TypeOK
<1>13. ASSUME Tick PROVE TypeOK'
  <2>1. clock' \in 0 .. MaxClock /\ UNCHANGED <<dirs, disk, deadOn, genFile, content, mem, op, historyVars>>
    BY <1>13, <1>a DEF Tick, TypeOK
  <2> QED BY <1>b, <2>1 DEF TypeOK
<1>14. CASE UNCHANGED vars
  BY <1>b, <1>14 DEF TypeOK, vars
<1> QED BY <1>1, <1>2, <1>3, <1>4, <1>5, <1>6, <1>7, <1>8, <1>9, <1>10, <1>11, <1>12, <1>13, <1>14
        DEF Next, OpenRaises

\* There is nothing on disk at first.
LEMMA TypeInit == Init => TypeOK
<1> SUFFICES ASSUME Init PROVE TypeOK
  OBVIOUS
<1>1. IndexBoundsType
  BY IndexBoundsType
<1>2. IsFiniteSet({}) /\ Cardinality({}) = 0
  BY FS_EmptySet
<1>3. op \in Ops /\ op.at = "idle"
  BY DEF Init, Ops, Idle
<1>4. genFile \in [is : {"none", "torn", "listed"}, names : Seq(Names)] /\ genFile.names = <<>>
  BY DEF Init, NoGen
<1>5. disk \in [Names -> [Files -> 0 .. Torn]]
  <2>1. 0 \in 0 .. Torn
    BY IndexBoundsType DEF Torn
  <2> QED BY <2>1 DEF Init, NoFiles
<1> QED BY <1>2, <1>3, <1>4, <1>5, IndexBoundsType DEF Init, TypeOK

\* What the directory, the process and the call in progress hold stays within its
\* types, whatever crashes (index.py, segment.py).
THEOREM TypeCorrect == Spec => []TypeOK
BY TypeInit, TypeStep, PTL DEF Spec

-----------------------------------------------------------------------------
(* What the calls leave on disk.                                           *)

\* A document a directory has live.
Keeps(n, d) ==
  \E i \in 1 .. Len(content[disk[n].manifest]) :
    content[disk[n].manifest][i] = d /\ i \notin deadOn[n]

\* A directory holds a build.
OnDisk(n, build) == n \in dirs /\ Verdict(n) = "whole" /\ disk[n].manifest = build

\* Its tombstones are those in memory, but for one that is being written, and no
\* call in progress writes or removes it.
Settled(k) ==
  /\ mem[k].dead = deadOn[mem[k].name] \cup (IF op.at = "flush" /\ op.k = k THEN {op.id} ELSE {})
  /\ op.at = "write" => mem[k].name # op.name
  /\ op.at = "remove" => mem[k].name \notin ToSet(op.names)

\* What is loaded is on disk and settled, unless it was written over.
LoadedInv ==
  \A k \in 1 .. Len(mem) :
    mem[k].name \in clobbered \/ (OnDisk(mem[k].name, mem[k].build) /\ Settled(k))

\* A name comes once in memory and in the generation.
OnceInv ==
  /\ \A j, k \in 1 .. Len(mem) : mem[j].name = mem[k].name => j = k \/ mem[k].name \in clobbered
  /\ \A j, k \in 1 .. Len(genFile.names) :
       genFile.names[j] = genFile.names[k] => j = k \/ genFile.names[k] \in clobbered

\* A segment is written to a directory that was not there, file by file, and is no
\* segment before its last.
WriteInv ==
  op.at = "write" =>
    /\ op.name \in dirs
    /\ op.file > 1 => disk[op.name].terms = Len(content)
    /\ op.file > 2 => disk[op.name].docs = Len(content)
    /\ op.file > 3 => deadOn[op.name] = {}
    /\ op.file > 4 => disk[op.name].manifest = Len(content)
    /\ op.name \in clobbered \/ op.file > 4 \/ disk[op.name].manifest = 0
    /\ op.kind = "merge" => IsMergeOf(content[Len(content)], mem)

\* The tombstone that is being written is of a document that was deleted.
FlushInv ==
  op.at = "flush" =>
    /\ op.k \in 1 .. Len(mem) /\ op.name = mem[op.k].name /\ op.id \in mem[op.k].dead
    /\ content[mem[op.k].build][op.id] = op.doc /\ op.doc \notin kept

\* An added document is live in a directory that is not about to be removed.
AddedInv ==
  clobbered = {} =>
    \A d \in kept : \E n \in dirs :
      /\ Verdict(n) = "whole" /\ Keeps(n, d)
      /\ op.at = "remove" => n \notin ToSet(op.names)

IndexInv == LoadedInv /\ OnceInv /\ WriteInv /\ FlushInv /\ AddedInv

\* What was built stays what it was.
LEMMA ContentGrows ==
  ASSUME TypeOK, [Next]_vars
  PROVE  /\ Len(content) \in Nat /\ Len(content') \in Nat
         /\ Builds \subseteq Builds' /\ \A b \in Builds : content'[b] = content[b]
<1>1. content \in Seq(Seq(Docs)) /\ Len(content) \in Nat
  BY DEF TypeOK
<1>2. content' = content \/ \E docs : content' = Append(content, docs)
  BY DEF Next, AddDocuments, Merge, StartWrite, WriteFile, AddDone, MergeDone, RemoveDir,
         RemoveDone, Delete, Flush, Publish, PublishDone, Crash, Open, OpenRaises, Tick, vars
<1>3. CASE content' = content
  BY <1>1, <1>3 DEF Builds
<1>4. CASE content' # content
  <2>1. PICK docs : content' = Append(content, docs)
    BY <1>2, <1>4
  <2>2. Len(content') = Len(content) + 1 /\ \A b \in 1 .. Len(content) : content'[b] = content[b]
    BY <1>1, <2>1
  <2> QED BY <1>1, <2>2 DEF Builds
<1> QED BY <1>3, <1>4

\* A directory whose files no step touches stays whole.
LEMMA OnDiskStays ==
  ASSUME TypeOK, [Next]_vars, NEW n \in Names, NEW build, OnDisk(n, build),
         n \in dirs', disk'[n] = disk[n]
  PROVE  OnDisk(n, build)'
<1>1. Builds \subseteq Builds' /\ \A b \in Builds : content'[b] = content[b]
  BY ContentGrows
<1>2. /\ disk[n].manifest \in Builds /\ disk[n].terms # 0 /\ disk[n].docs # 0
      /\ disk[n].terms \in Builds /\ disk[n].docs \in Builds
      /\ content[disk[n].terms] = content[disk[n].manifest]
      /\ content[disk[n].docs] = content[disk[n].manifest]
  BY DEF OnDisk, Verdict, Same
<1>3. Verdict(n)' = "whole"
  BY <1>1, <1>2 DEF Verdict, Same
<1> QED BY <1>3 DEF OnDisk

\* A document stays live where no tombstone is written for it.
LEMMA KeepsStays ==
  ASSUME TypeOK, [Next]_vars, NEW n \in dirs, Verdict(n) = "whole", NEW d, Keeps(n, d),
         n \in dirs', disk'[n] = disk[n], deadOn'[n] \subseteq deadOn[n]
  PROVE  Verdict(n)' = "whole" /\ Keeps(n, d)'
<1>1. n \in Names
  BY DEF TypeOK
<1>2. PICK b : b = disk[n].manifest
  OBVIOUS
<1>3. OnDisk(n, b)'
  BY <1>1, <1>2, OnDiskStays DEF OnDisk
<1>4. b \in Builds /\ content'[b] = content[b]
  BY <1>2, ContentGrows DEF Verdict
<1> QED BY <1>2, <1>3, <1>4 DEF OnDisk, Keeps

\* What is loaded has a name.
LEMMA MemTyped ==
  ASSUME TypeOK, NEW k \in 1 .. Len(mem)
  PROVE  mem[k] \in Segments /\ mem[k].name \in Names /\ mem[k].build \in Builds /\ k \in Nat
<1>1. mem[k] \in Segments
  BY DEF TypeOK
<1> QED BY <1>1 DEF Segments

\* Nothing is disturbed by a call that leaves the directories of what is loaded alone.
LEMMA LoadedStays ==
  ASSUME TypeOK, [Next]_vars, LoadedInv, mem' = mem, clobbered \subseteq clobbered',
         \A k \in 1 .. Len(mem) :
           mem[k].name \notin clobbered' /\ mem[k].name \in dirs /\ Settled(k) =>
             /\ mem[k].name \in dirs' /\ disk'[mem[k].name] = disk[mem[k].name]
             /\ Settled(k)'
  PROVE  LoadedInv'
<1> SUFFICES ASSUME NEW k \in 1 .. Len(mem), mem[k].name \notin clobbered'
             PROVE  OnDisk(mem[k].name, mem[k].build)' /\ Settled(k)'
  BY DEF LoadedInv
<1>1. OnDisk(mem[k].name, mem[k].build) /\ Settled(k) /\ mem[k].name \in dirs
  BY DEF LoadedInv, OnDisk
<1>2. mem[k].name \in dirs' /\ disk'[mem[k].name] = disk[mem[k].name] /\ Settled(k)'
  BY <1>1
<1>3. PICK n \in Names : n = mem[k].name
  BY MemTyped
<1>4. PICK build : build = mem[k].build
  OBVIOUS
<1>5. OnDisk(n, build)'
  BY <1>1, <1>2, <1>3, <1>4, OnDiskStays
<1> QED BY <1>2, <1>3, <1>4, <1>5 DEF OnDisk

\* A new segment is on disk when the last of its files is.
LEMMA WrittenIsOnDisk ==
  ASSUME TypeOK, WriteInv, op.at = "write", op.file > 4
  PROVE  /\ OnDisk(op.name, Len(content)) /\ deadOn[op.name] = {}
         /\ Len(content) \in Builds
<1>1. op.file \in Nat /\ op.file > 1 /\ op.file > 2 /\ op.file > 3
  BY OpTyped DEF TypeOK
<1>2. /\ op.name \in dirs /\ deadOn[op.name] = {}
      /\ disk[op.name].terms = Len(content) /\ disk[op.name].docs = Len(content)
      /\ disk[op.name].manifest = Len(content)
  BY <1>1 DEF WriteInv
<1>3. Len(content) \in Builds /\ Len(content) # 0
  BY DEF TypeOK, Builds
<1> QED BY <1>2, <1>3 DEF OnDisk, Verdict, Same

\* A directory whose files no step touches stays whole, if nothing is built.
LEMMA OnDiskSame ==
  ASSUME NEW n, NEW build, OnDisk(n, build), UNCHANGED <<dirs, disk, content>>
  PROVE  OnDisk(n, build)'
BY DEF OnDisk, Verdict, Same, Builds

\* What is loaded is on disk when each of its directories is.
LEMMA LoadedAnew ==
  ASSUME \A k \in 1 .. Len(mem') : \A n, build :
           n = mem'[k].name /\ build = mem'[k].build /\ n \notin clobbered' =>
             OnDisk(n, build)' /\ Settled(k)'
  PROVE  LoadedInv'
<1> SUFFICES ASSUME NEW k \in 1 .. Len(mem'), mem'[k].name \notin clobbered'
             PROVE  OnDisk(mem[k].name, mem[k].build)' /\ Settled(k)'
  BY DEF LoadedInv
<1>1. PICK n, build : n = mem'[k].name /\ build = mem'[k].build
  OBVIOUS
<1>2. OnDisk(n, build)' /\ Settled(k)'
  BY <1>1
<1> QED BY <1>1, <1>2 DEF OnDisk

\* Index.delete marks one place of one segment, and nothing else of what is loaded.
LEMMA DeleteMarks ==
  ASSUME TypeOK, NEW d \in Docs, Delete(d)
  PROVE  \E k \in 1 .. Len(mem) : \E i \in FirstEntry(mem[k], d) \ mem[k].dead :
           /\ op' = [at |-> "flush", name |-> mem[k].name, k |-> k, doc |-> d, id |-> i]
           /\ Len(mem') = Len(mem)
           /\ \A j \in 1 .. Len(mem) :
                /\ mem'[j].name = mem[j].name /\ mem'[j].build = mem[j].build
                /\ mem'[j].dead = mem[j].dead \cup (IF j = k THEN {i} ELSE {})
<1>1. PICK k \in 1 .. Len(mem) : \E i \in FirstEntry(mem[k], d) \ mem[k].dead :
        /\ mem' = [mem EXCEPT ![k].dead = @ \cup {i}]
        /\ op' = [at |-> "flush", name |-> mem[k].name, k |-> k, doc |-> d, id |-> i]
  BY DEF Delete
<1>2. PICK i \in FirstEntry(mem[k], d) \ mem[k].dead :
        /\ mem' = [mem EXCEPT ![k].dead = @ \cup {i}]
        /\ op' = [at |-> "flush", name |-> mem[k].name, k |-> k, doc |-> d, id |-> i]
  BY <1>1
<1>3. mem \in Seq(Segments) /\ mem[k] \in Segments
  BY DEF TypeOK
<1>4. PICK seg : seg = [mem[k] EXCEPT !.dead = mem[k].dead \cup {i}]
  OBVIOUS
<1>5. mem' = [mem EXCEPT ![k] = seg]
  BY <1>2, <1>4
<1>6. ASSUME NEW j \in 1 .. Len(mem)
      PROVE  /\ mem'[j].name = mem[j].name /\ mem'[j].build = mem[j].build
             /\ mem'[j].dead = mem[j].dead \cup (IF j = k THEN {i} ELSE {})
  <2>1. CASE j = k
    BY <1>3, <1>4, <1>5, <2>1 DEF Segments
  <2>2. CASE j # k
    <3>1. mem'[j] = mem[j]
      BY <1>3, <1>5, <2>2
    <3> QED BY <2>2, <3>1
  <2> QED BY <2>1, <2>2
<1>7. Len(mem') = Len(mem)
  BY <1>3, <1>5
<1> QED BY <1>2, <1>6, <1>7

\* What is on disk of what is loaded stays so.
LEMMA LoadedStep ==
  TypeOK /\ LoadedInv /\ OnceInv /\ WriteInv /\ FlushInv /\ [Next]_vars => LoadedInv'
<1> SUFFICES ASSUME TypeOK, LoadedInv, OnceInv, WriteInv, FlushInv, [Next]_vars
             PROVE  LoadedInv'
  OBVIOUS
<1> USE DEF diskVars, historyVars
<1>1. ASSUME NEW name, NEW docs, NEW kind, op = Idle, StartWrite(name, docs, kind) PROVE LoadedInv'
  <2>1. /\ UNCHANGED <<disk, deadOn, mem>> /\ dirs' = dirs \cup {name}
        /\ clobbered' = clobbered \cup ({name} \cap dirs)
        /\ op' = [at |-> "write", name |-> name, file |-> 1, kind |-> kind]
    BY <1>1 DEF StartWrite
  <2>2. op.at = "idle" /\ op'.at = "write" /\ op'.name = name
    BY <1>1, <2>1 DEF Idle
  <2>3. ASSUME NEW k \in 1 .. Len(mem), mem[k].name \notin clobbered', mem[k].name \in dirs, Settled(k)
        PROVE  /\ mem[k].name \in dirs' /\ disk'[mem[k].name] = disk[mem[k].name]
               /\ Settled(k)'
    BY <2>1, <2>2, <2>3 DEF Settled
  <2> QED BY <2>1, <2>3, LoadedStays
<1>2. ASSUME WriteFile PROVE LoadedInv'
  <2>1. /\ op.at = "write" /\ op' = [op EXCEPT !.file = @ + 1]
        /\ UNCHANGED <<dirs, mem, clobbered>>
        /\ \A n \in Names : n # op.name => disk'[n] = disk[n] /\ deadOn'[n] = deadOn[n]
    BY <1>2 DEF WriteFile, TypeOK
  <2>2. op'.at = "write" /\ op'.name = op.name
    BY <2>1, OpTyped DEF TypeOK
  <2>3. ASSUME NEW k \in 1 .. Len(mem), mem[k].name \notin clobbered', mem[k].name \in dirs, Settled(k)
        PROVE  /\ mem[k].name \in dirs' /\ disk'[mem[k].name] = disk[mem[k].name]
               /\ Settled(k)'
    <3>1. mem[k].name # op.name /\ mem[k].name \in Names
      BY <2>1, <2>3, MemTyped DEF Settled
    <3> QED BY <2>1, <2>2, <2>3, <3>1 DEF Settled
  <2> QED BY <2>1, <2>3, LoadedStays
<1>3. ASSUME AddDone PROVE LoadedInv'
  <2>1. /\ op.at = "write" /\ op.file > 4 /\ op' = Idle
        /\ mem' = Append(mem, Loaded(op.name, Len(content), {}))
        /\ UNCHANGED <<dirs, disk, deadOn, content, clobbered>>
    BY <1>3 DEF AddDone, FileOrder
  <2>2. /\ Len(mem) \in Nat /\ Len(mem') = Len(mem) + 1 /\ op'.at = "idle"
        /\ mem'[Len(mem) + 1] = [name |-> op.name, build |-> Len(content), dead |-> {}]
        /\ \A k \in 1 .. Len(mem) : mem'[k] = mem[k]
    BY <2>1 DEF TypeOK, Loaded, Idle
  <2>3. ASSUME NEW k \in 1 .. Len(mem'), NEW n, NEW b, n = mem'[k].name, b = mem'[k].build,
               n \notin clobbered'
        PROVE  OnDisk(n, b)' /\ Settled(k)'
    <3>1. CASE k \in 1 .. Len(mem)
      <4>1. mem'[k] = mem[k] /\ OnDisk(n, b) /\ Settled(k)
        BY <2>1, <2>2, <2>3, <3>1 DEF LoadedInv
      <4>2. Settled(k)'
        BY <2>1, <2>2, <4>1 DEF Settled
      <4> QED BY <2>1, <4>1, <4>2, OnDiskSame
    <3>2. CASE k = Len(mem) + 1
      <4>1. n = op.name /\ b = Len(content) /\ mem'[k].dead = {}
        BY <2>2, <2>3, <3>2
      <4>2. OnDisk(n, b) /\ deadOn[n] = {}
        BY <2>1, <4>1, WrittenIsOnDisk
      <4>3. Settled(k)'
        BY <2>1, <2>2, <2>3, <4>1, <4>2 DEF Settled
      <4> QED BY <2>1, <4>2, <4>3, OnDiskSame
    <3> QED BY <2>2, <3>1, <3>2
  <2> QED BY <2>3, LoadedAnew
<1>4. ASSUME MergeDone PROVE LoadedInv'
  <2>1. /\ op.at = "write" /\ op.file > 4
        /\ mem' = <<Loaded(op.name, Len(content), {})>>
        /\ op' = [at |-> "remove", names |-> [i \in 1 .. Len(mem) |-> mem[i].name]]
        /\ UNCHANGED <<dirs, disk, deadOn, content, clobbered>>
    BY <1>4 DEF MergeDone, FileOrder
  <2>2. /\ Len(mem') = 1 /\ mem'[1] = [name |-> op.name, build |-> Len(content), dead |-> {}]
        /\ op'.at = "remove" /\ op'.names = [i \in 1 .. Len(mem) |-> mem[i].name]
    BY <2>1 DEF Loaded
  <2>3. ASSUME NEW k \in 1 .. Len(mem'), NEW n, NEW b, n = mem'[k].name, b = mem'[k].build,
               n \notin clobbered'
        PROVE  OnDisk(n, b)' /\ Settled(k)'
    <3>1. k = 1 /\ n = op.name /\ b = Len(content) /\ mem'[k].dead = {}
      BY <2>2, <2>3
    <3>2. OnDisk(n, b) /\ deadOn[n] = {}
      BY <2>1, <3>1, WrittenIsOnDisk
    <3>3. \A i \in 1 .. Len(mem) : mem[i].name # n
      BY <2>1, <2>3, <3>1 DEF LoadedInv, Settled
    <3>4. n \notin ToSet(op'.names)
      <4>1. Len(mem) \in Nat
        BY DEF TypeOK
      <4> QED BY <2>2, <3>3, <4>1 DEF ToSet
    <3>5. Settled(k)'
      BY <2>1, <2>2, <2>3, <3>1, <3>2, <3>4 DEF Settled
    <3> QED BY <2>1, <3>2, <3>5, OnDiskSame
  <2> QED BY <2>3, LoadedAnew
<1>5. ASSUME RemoveDir PROVE LoadedInv'
  <2>1. /\ op.at = "remove" /\ op.names # <<>> /\ op' = [op EXCEPT !.names = Tail(@)]
        /\ dirs' = dirs \ {Head(op.names)} /\ UNCHANGED <<mem, clobbered>>
        /\ \A n \in Names : n # Head(op.names) => disk'[n] = disk[n] /\ deadOn'[n] = deadOn[n]
    BY <1>5 DEF RemoveDir, TypeOK
  <2>2. /\ op'.at = "remove" /\ op.names \in Seq(Names) /\ op'.names = Tail(op.names)
    BY <2>1, OpTyped DEF TypeOK
  <2>3. Head(op.names) \in ToSet(op.names) /\ ToSet(op'.names) \subseteq ToSet(op.names)
    BY <2>1, <2>2 DEF ToSet
  <2>4. ASSUME NEW k \in 1 .. Len(mem), mem[k].name \notin clobbered', mem[k].name \in dirs, Settled(k)
        PROVE  /\ mem[k].name \in dirs' /\ disk'[mem[k].name] = disk[mem[k].name]
               /\ Settled(k)'
    <3>1. mem[k].name \notin ToSet(op.names) /\ mem[k].name \in Names
      BY <2>1, <2>4, MemTyped DEF Settled
    <3>2. mem[k].name # Head(op.names)
      BY <2>3, <3>1
    <3> QED BY <2>1, <2>2, <2>3, <2>4, <3>1, <3>2 DEF Settled
  <2> QED BY <2>1, <2>4, LoadedStays
<1>6. ASSUME RemoveDone \/ Publish \/ PublishDone \/ Tick \/ UNCHANGED vars PROVE LoadedInv'
  <2>1. /\ UNCHANGED <<dirs, disk, deadOn, mem, clobbered>>
        /\ op' = op \/ (op.at # "flush" /\ op'.at \in {"idle", "publish"})
    BY <1>6 DEF RemoveDone, Publish, PublishDone, Tick, vars, Idle
  <2>2. ASSUME NEW k \in 1 .. Len(mem), Settled(k) PROVE Settled(k)'
    BY <2>1, <2>2 DEF Settled
  <2> QED BY <2>1, <2>2, LoadedStays
<1>7. ASSUME NEW d \in Docs, Delete(d) PROVE LoadedInv'
  <2>0. PICK k \in 1 .. Len(mem) : \E i \in FirstEntry(mem[k], d) \ mem[k].dead :
          /\ op' = [at |-> "flush", name |-> mem[k].name, k |-> k, doc |-> d, id |-> i]
          /\ Len(mem') = Len(mem)
          /\ \A j \in 1 .. Len(mem) :
               /\ mem'[j].name = mem[j].name /\ mem'[j].build = mem[j].build
               /\ mem'[j].dead = mem[j].dead \cup (IF j = k THEN {i} ELSE {})
    BY <1>7, DeleteMarks
  <2>1. PICK i \in FirstEntry(mem[k], d) \ mem[k].dead :
          /\ op' = [at |-> "flush", name |-> mem[k].name, k |-> k, doc |-> d, id |-> i]
          /\ Len(mem') = Len(mem)
          /\ \A j \in 1 .. Len(mem) :
               /\ mem'[j].name = mem[j].name /\ mem'[j].build = mem[j].build
               /\ mem'[j].dead = mem[j].dead \cup (IF j = k THEN {i} ELSE {})
    BY <2>0
  <2>2. UNCHANGED <<dirs, disk, deadOn, content, clobbered>> /\ op.at = "idle"
    BY <1>7 DEF Delete, Idle
  <2>3. op'.at = "flush" /\ op'.k = k /\ op'.id = i
    BY <2>1
  <2>4. /\ Len(mem') = Len(mem)
        /\ \A j \in 1 .. Len(mem) :
             /\ mem'[j].name = mem[j].name /\ mem'[j].build = mem[j].build
             /\ mem'[j].dead = mem[j].dead \cup (IF j = k THEN {i} ELSE {})
    BY <2>1
  <2>5. ASSUME NEW j \in 1 .. Len(mem), mem[j].name \notin clobbered
        PROVE  OnDisk(mem[j].name, mem[j].build) /\ Settled(j)'
    <3>1. OnDisk(mem[j].name, mem[j].build) /\ Settled(j)
      BY <2>5 DEF LoadedInv
    <3>2. mem[j].dead = deadOn[mem[j].name]
      BY <2>2, <3>1 DEF Settled
    <3> QED BY <2>2, <2>3, <2>4, <3>1, <3>2 DEF Settled
  <2>6. ASSUME NEW j \in 1 .. Len(mem'), NEW n, NEW b, n = mem'[j].name, b = mem'[j].build,
               n \notin clobbered'
        PROVE  OnDisk(n, b)' /\ Settled(j)'
    BY <2>2, <2>4, <2>5, <2>6, OnDiskSame
  <2> QED BY <2>6, LoadedAnew
<1>8. ASSUME Flush PROVE LoadedInv'
  <2>1. /\ op.at = "flush" /\ op' = Idle /\ UNCHANGED <<dirs, disk, mem, clobbered>>
        /\ IF op.name \in dirs THEN deadOn' = [deadOn EXCEPT ![op.name] = mem[op.k].dead]
           ELSE deadOn' = deadOn
    BY <1>8 DEF Flush
  <2>2. op'.at = "idle" /\ op.k \in 1 .. Len(mem) /\ op.name = mem[op.k].name /\ op.name \in Names
    BY <2>1, OpTyped DEF Idle, FlushInv, TypeOK
  <2>3. ASSUME NEW k \in 1 .. Len(mem), mem[k].name \notin clobbered', mem[k].name \in dirs, Settled(k)
        PROVE  Settled(k)'
    <3>1. CASE k = op.k
      <4>1. deadOn'[mem[k].name] = mem[k].dead
        BY <2>1, <2>2, <2>3, <3>1 DEF TypeOK
      <4> QED BY <2>1, <2>2, <4>1 DEF Settled
    <3>2. CASE k # op.k
      <4>1. mem[k].name # op.name /\ mem[k].name \in Names
        BY <2>1, <2>2, <2>3, <3>2, MemTyped DEF OnceInv
      <4>2. deadOn'[mem[k].name] = deadOn[mem[k].name]
        BY <2>1, <2>2, <4>1 DEF TypeOK
      <4> QED BY <2>1, <2>2, <2>3, <3>2, <4>2 DEF Settled
    <3> QED BY <3>1, <3>2
  <2> QED BY <2>1, <2>3, LoadedStays
<1>9. ASSUME Crash PROVE LoadedInv'
  BY <1>9 DEF Crash, LoadedInv
<1>10. ASSUME Open PROVE LoadedInv'
  <2>1. PICK order \in [1 .. Len(mem') -> 1 .. Len(Named)] :
          \A k \in 1 .. Len(mem') :
            /\ Verdict(Named[order[k]]) = "whole"
            /\ mem'[k].name = Named[order[k]]
            /\ mem'[k].build = disk[Named[order[k]]].manifest
            /\ mem'[k].dead = deadOn[Named[order[k]]]
    BY <1>10, OpenLoads
  <2>2. UNCHANGED <<dirs, disk, deadOn, content>> /\ op' = Idle
    BY <1>10 DEF Open
  <2>3. op'.at = "idle"
    BY <2>2 DEF Idle
  <2>4. ASSUME NEW k \in 1 .. Len(mem'), NEW n, NEW b, n = mem'[k].name, b = mem'[k].build,
               n \notin clobbered'
        PROVE  OnDisk(n, b)' /\ Settled(k)'
    <3>1. order[k] \in 1 .. Len(Named)
      OBVIOUS
    <3>2. n \in Names /\ n = Named[order[k]]
      BY <2>1, <2>4, <3>1, NamedTyped
    <3>3. Verdict(n) = "whole" /\ b = disk[n].manifest /\ mem'[k].dead = deadOn[n]
      BY <2>1, <2>4, <3>2
    <3>4. n \in dirs
      <4>1. disk[n] # NoFiles
        BY <3>3 DEF Verdict, NoFiles, Builds, Files
      <4> QED BY <3>2, <4>1 DEF TypeOK
    <3>5. OnDisk(n, b)
      BY <3>3, <3>4 DEF OnDisk
    <3>6. Settled(k)'
      BY <2>2, <2>3, <2>4, <3>3 DEF Settled
    <3> QED BY <2>2, <3>5, <3>6, OnDiskSame
  <2> QED BY <2>4, LoadedAnew
<1> QED BY <1>1, <1>2, <1>3, <1>4, <1>5, <1>6, <1>7, <1>8, <1>9, <1>10
        DEF Next, AddDocuments, Merge, OpenRaises

\* No name is loaded twice, or listed twice in a generation.
LEMMA OnceStep == TypeOK /\ LoadedInv /\ OnceInv /\ [Next]_vars => OnceInv'
<1> SUFFICES ASSUME TypeOK, LoadedInv, OnceInv, [Next]_vars PROVE OnceInv'
  OBVIOUS
<1> USE DEF diskVars, historyVars
<1> DEFINE MemOnce ==
      \A j, k \in 1 .. Len(mem) : mem[j].name = mem[k].name => j = k \/ mem[k].name \in clobbered
<1>a. OnceInv <=>
        /\ MemOnce
        /\ \A j, k \in 1 .. Len(genFile.names) :
             genFile.names[j] = genFile.names[k] => j = k \/ genFile.names[k] \in clobbered
  BY DEF OnceInv
<1>1. ASSUME UNCHANGED <<mem, genFile>>, clobbered \subseteq clobbered' PROVE OnceInv'
  BY <1>1 DEF OnceInv
<1>2. ASSUME UNCHANGED <<genFile, clobbered>>, MemOnce' PROVE OnceInv'
  BY <1>2 DEF OnceInv
<1>3. ASSUME NEW name, NEW docs, NEW kind, StartWrite(name, docs, kind) PROVE OnceInv'
  BY <1>1, <1>3 DEF StartWrite
<1>4. ASSUME AddDone PROVE OnceInv'
  <2>1. /\ op.at = "write" /\ UNCHANGED <<genFile, clobbered>>
        /\ mem' = Append(mem, Loaded(op.name, Len(content), {}))
    BY <1>4 DEF AddDone
  <2>2. /\ Len(mem) \in Nat /\ Len(mem') = Len(mem) + 1
        /\ mem'[Len(mem) + 1].name = op.name
        /\ \A k \in 1 .. Len(mem) : mem'[k] = mem[k]
    BY <2>1 DEF TypeOK, Loaded
  <2>3. \A k \in 1 .. Len(mem) : mem[k].name = op.name => op.name \in clobbered
    BY <2>1 DEF LoadedInv, Settled
  <2>4. ASSUME NEW j \in 1 .. Len(mem'), NEW k \in 1 .. Len(mem'), mem'[j].name = mem'[k].name
        PROVE  j = k \/ mem'[k].name \in clobbered
    <3>1. /\ j \in 1 .. Len(mem) \/ j = Len(mem) + 1
          /\ k \in 1 .. Len(mem) \/ k = Len(mem) + 1
      BY <2>2
    <3>2. CASE j \in 1 .. Len(mem) /\ k \in 1 .. Len(mem)
      BY <2>2, <2>4, <3>2 DEF OnceInv
    <3>3. CASE j \in 1 .. Len(mem) /\ k = Len(mem) + 1
      BY <2>2, <2>3, <2>4, <3>3
    <3>4. CASE j = Len(mem) + 1 /\ k \in 1 .. Len(mem)
      BY <2>2, <2>3, <2>4, <3>4
    <3> QED BY <3>1, <3>2, <3>3, <3>4
  <2> QED BY <1>2, <2>1, <2>4
<1>5. ASSUME MergeDone PROVE OnceInv'
  <2>1. Len(mem') = 1 /\ UNCHANGED <<genFile, clobbered>>
    BY <1>5 DEF MergeDone
  <2>2. \A j, k \in 1 .. Len(mem') : j = k
    BY <2>1
  <2> QED BY <1>2, <2>1, <2>2
<1>6. ASSUME NEW d \in Docs, Delete(d) PROVE OnceInv'
  <2>1. Len(mem') = Len(mem) /\ \A j \in 1 .. Len(mem) : mem'[j].name = mem[j].name
    BY <1>6, DeleteMarks
  <2>2. UNCHANGED <<genFile, clobbered>>
    BY <1>6 DEF Delete
  <2>3. MemOnce'
    BY <1>a, <2>1, <2>2
  <2> QED BY <1>2, <2>2, <2>3
<1>7. ASSUME Open PROVE OnceInv'
  <2>1. PICK order \in [1 .. Len(mem') -> 1 .. Len(Named)] :
          /\ \A j, k \in 1 .. Len(mem') : order[j] = order[k] => j = k
          /\ \A k \in 1 .. Len(mem') : mem'[k].name = Named[order[k]]
    BY <1>7, OpenLoads
  <2>2. UNCHANGED <<genFile, clobbered>>
    BY <1>7 DEF Open
  <2>3. \A j, k \in 1 .. Len(Named) : Named[j] = Named[k] => j = k \/ Named[k] \in clobbered
    BY NamedTyped DEF Named, OnceInv
  <2>4. MemOnce'
    BY <2>1, <2>2, <2>3
  <2> QED BY <1>2, <2>2, <2>4
<1>8. ASSUME PublishDone PROVE OnceInv'
  <2>1. /\ genFile'.names = [i \in 1 .. Len(mem) |-> mem[i].name] /\ UNCHANGED <<mem, clobbered>>
        /\ Len(mem) \in Nat
    BY <1>8 DEF PublishDone, TypeOK
  <2>2. Len(genFile'.names) = Len(mem) /\ \A i \in 1 .. Len(mem) : genFile'.names[i] = mem[i].name
    BY <2>1
  <2> QED BY <1>a, <2>1, <2>2 DEF OnceInv
<1>9. ASSUME Crash PROVE OnceInv'
  <2>1. mem' = <<>> /\ clobbered' = clobbered /\ (genFile' = genFile \/ genFile' = TornGen)
    BY <1>9 DEF Crash, CutFiles
  <2>2. Len(mem') = 0 /\ (genFile' = genFile \/ Len(genFile'.names) = 0)
    BY <2>1 DEF TornGen
  <2> QED BY <2>1, <2>2 DEF OnceInv
<1> QED BY <1>1, <1>3, <1>4, <1>5, <1>6, <1>7, <1>8, <1>9
        DEF Next, AddDocuments, Merge, WriteFile, RemoveDir, RemoveDone, Flush, Publish,
            OpenRaises, Tick, vars

\* What is live in the segments stays so while they are the same.
LEMMA LiveStays ==
  ASSUME TypeOK, [Next]_vars, mem' = mem
  PROVE  LiveOf(mem)' = LiveOf(mem) /\ \A x \in LiveOf(mem) : DocAt(mem, x)' = DocAt(mem, x)
<1>1. \A k \in 1 .. Len(mem) : content'[mem[k].build] = content[mem[k].build]
  BY MemTyped, ContentGrows
<1>2. LiveOf(mem)' = LiveOf(mem)
  BY <1>1 DEF LiveOf
<1>3. \A x \in LiveOf(mem) : x[1] \in 1 .. Len(mem)
  BY DEF LiveOf
<1> QED BY <1>1, <1>2, <1>3 DEF DocAt

\* What was a merge of the loaded segments is one of them still.
LEMMA MergeStays ==
  ASSUME TypeOK, [Next]_vars, mem' = mem, NEW c, IsMergeOf(c, mem)
  PROVE  IsMergeOf(c, mem)'
<1>1. PICK f \in Bijection(1 .. Len(c), LiveOf(mem)) : \A i \in 1 .. Len(c) : c[i] = DocAt(mem, f[i])
  BY DEF IsMergeOf
<1>2. f \in [1 .. Len(c) -> LiveOf(mem)]
  BY <1>1, Fun_BijectionProperties
<1>3. f \in Bijection(1 .. Len(c), LiveOf(mem)') /\ \A i \in 1 .. Len(c) : c[i] = DocAt(mem, f[i])'
  BY <1>1, <1>2, LiveStays
<1> QED BY <1>3 DEF IsMergeOf

\* A segment is written in the order of its files.
LEMMA WriteStep == TypeOK /\ WriteInv /\ [Next]_vars => WriteInv'
<1> SUFFICES ASSUME TypeOK, WriteInv, [Next]_vars PROVE WriteInv'
  OBVIOUS
<1> USE DEF diskVars, historyVars
<1>1. ASSUME NEW name \in Names, NEW docs, NEW kind \in {"add", "merge"}, StartWrite(name, docs, kind),
             kind = "merge" => IsMergeOf(docs, mem)
      PROVE  WriteInv'
  <2>1. /\ content' = Append(content, docs) /\ dirs' = dirs \cup {name}
        /\ clobbered' = clobbered \cup ({name} \cap dirs) /\ UNCHANGED <<disk, mem>>
        /\ op' = [at |-> "write", name |-> name, file |-> 1, kind |-> kind]
    BY <1>1 DEF StartWrite
  <2>2. op'.name = name /\ op'.file = 1 /\ op'.kind = kind
    BY <2>1
  <2>3. name \in dirs \/ disk[name].manifest = 0
    BY DEF TypeOK, NoFiles, Files
  <2>4. content'[Len(content')] = docs
    BY <2>1 DEF TypeOK
  <2>5. kind = "merge" => IsMergeOf(docs, mem)'
    BY <1>1, <2>1, MergeStays
  <2>6. kind = "merge" => IsMergeOf(content[Len(content)], mem)'
    BY <2>4, <2>5 DEF IsMergeOf
  <2> QED BY <2>1, <2>2, <2>3, <2>6 DEF WriteInv
<1>2. ASSUME NEW batch \in Batches, AddDocuments(batch) PROVE WriteInv'
  <2>1. StartWrite(SegName(Len(mem)), batch, "add") /\ op = Idle
    BY <1>2 DEF AddDocuments
  <2>2. SegName(Len(mem)) \in Names
    <3>1. Len(mem) \in Nat /\ Len(mem) <= Len(content) /\ Len(content) < MaxBuilds /\ Len(content) \in Nat
      BY <2>1 DEF TypeOK, Idle, StartWrite
    <3> QED BY <3>1, IndexBoundsType DEF Names
  <2> QED BY <1>1, <2>1, <2>2
<1>3. ASSUME Merge PROVE WriteInv'
  <2>1. StartWrite(MergedName, Merged(mem), "merge")
    BY <1>3 DEF Merge
  <2>2. MergedName \in Names
    BY DEF MergedName, Names, TypeOK
  <2>3. IsMergeOf(Merged(mem), mem)
    BY MergedIsMerge DEF TypeOK
  <2> QED BY <1>1, <2>1, <2>2, <2>3
<1>4. ASSUME WriteFile PROVE WriteInv'
  <2>1. /\ op.at = "write" /\ op.name \in Names /\ op.name \in dirs /\ op.file \in 1 .. 4
        /\ op \in [at : {"write"}, name : Names, file : 1 .. 5, kind : {"add", "merge"}]
    <3>1. op.at = "write" /\ op.file <= 4
      BY <1>4 DEF WriteFile, FileOrder
    <3> QED BY <3>1, OpTyped DEF TypeOK
  <2>2. op' = [op EXCEPT !.file = @ + 1] /\ UNCHANGED <<dirs, content, mem, clobbered>>
    BY <1>4 DEF WriteFile
  <2>3. op'.at = "write" /\ op'.name = op.name /\ op'.kind = op.kind /\ op'.file = op.file + 1
    BY <2>1, <2>2
  <2>4. op.kind = "merge" => IsMergeOf(content[Len(content)], mem)'
    <3>1. PICK c : c = content[Len(content)]
      OBVIOUS
    <3>2. op.kind = "merge" => IsMergeOf(c, mem)'
      BY <2>1, <2>2, <3>1, MergeStays DEF WriteInv
    <3> QED BY <2>2, <3>1, <3>2 DEF IsMergeOf
  <2>5. disk \in [Names -> [Files -> 0 .. Torn]] /\ deadOn \in [Names -> SUBSET Nat]
    BY DEF TypeOK
  <2>6. PICK new : new = Len(content)
    OBVIOUS
  <2>7. LET was == disk[op.name]  is == disk'[op.name]
        IN  /\ op.file > 1 => is.terms = new
            /\ op.file = 1 => is.terms = new
            /\ op.file > 2 \/ op.file = 2 => is.docs = new
            /\ op.file > 3 \/ op.file = 3 => deadOn'[op.name] = {}
            /\ op.file = 4 => is.manifest = new
            /\ op.file # 4 => is.manifest = was.manifest
    <3>1. CASE op.file = 1
      <4>1. disk' = [disk EXCEPT ![op.name]["terms"] = new]
        BY <1>4, <2>6, <3>1 DEF WriteFile, FileOrder
      <4> QED BY <2>1, <2>5, <3>1, <4>1 DEF Files
    <3>2. CASE op.file = 2
      <4>1. disk' = [disk EXCEPT ![op.name]["docs"] = new]
        BY <1>4, <2>6, <3>2 DEF WriteFile, FileOrder
      <4> QED BY <2>1, <2>5, <2>6, <3>2, <4>1 DEF Files, WriteInv
    <3>3. CASE op.file = 3
      <4>1. deadOn' = [deadOn EXCEPT ![op.name] = {}] /\ disk' = disk
        BY <1>4, <3>3 DEF WriteFile, FileOrder
      <4> QED BY <2>1, <2>5, <2>6, <3>3, <4>1 DEF WriteInv
    <3>4. CASE op.file = 4
      <4>1. disk' = [disk EXCEPT ![op.name]["manifest"] = new] /\ deadOn' = deadOn
        BY <1>4, <2>6, <3>4 DEF WriteFile, FileOrder
      <4> QED BY <2>1, <2>5, <2>6, <3>4, <4>1 DEF Files, WriteInv
    <3> QED BY <2>1, <3>1, <3>2, <3>3, <3>4
  <2>8. op.name \in clobbered \/ disk[op.name].manifest = 0
    BY <2>1 DEF WriteInv
  <2> QED BY <2>1, <2>2, <2>3, <2>4, <2>6, <2>7, <2>8 DEF WriteInv
<1>5. ASSUME UNCHANGED <<dirs, disk, deadOn, content, mem, op, clobbered>> PROVE WriteInv'
  <2>1. PICK c : c = content[Len(content)]
    OBVIOUS
  <2>2. op.at = "write" /\ op.kind = "merge" => IsMergeOf(c, mem)'
    BY <1>5, <2>1, MergeStays DEF WriteInv
  <2>3. op.at = "write" /\ op.kind = "merge" => IsMergeOf(content[Len(content)], mem)'
    BY <1>5, <2>1, <2>2 DEF IsMergeOf
  <2> QED BY <1>5, <2>3 DEF WriteInv
<1>6. ASSUME op'.at # "write" PROVE WriteInv'
  BY <1>6 DEF WriteInv
<1>7. ASSUME \/ AddDone \/ MergeDone \/ RemoveDir \/ RemoveDone \/ Flush \/ Publish \/ PublishDone
             \/ Crash \/ Open \/ \E d \in Docs : Delete(d)
      PROVE  op'.at # "write"
  <2>1. ASSUME RemoveDir PROVE op'.at = "remove"
    BY <2>1, OpTyped DEF RemoveDir, TypeOK
  <2>2. AddDone \/ MergeDone \/ RemoveDone => op'.at # "write"
    BY DEF AddDone, MergeDone, RemoveDone, Idle
  <2>3. Flush \/ Publish \/ PublishDone \/ Crash => op'.at # "write"
    BY DEF Flush, Publish, PublishDone, Crash, Idle, Closed
  <2>4. Open \/ (\E d \in Docs : Delete(d)) => op'.at # "write"
    BY DEF Open, Delete, Idle, Closed
  <2> QED BY <1>7, <2>1, <2>2, <2>3, <2>4
<1> QED BY <1>2, <1>3, <1>4, <1>5, <1>6, <1>7 DEF Next, OpenRaises, Tick, vars

\* A tombstone is flushed of the document delete() was called for.
LEMMA FlushStep == TypeOK /\ FlushInv /\ [Next]_vars => FlushInv'
<1> SUFFICES ASSUME TypeOK, FlushInv, [Next]_vars PROVE FlushInv'
  OBVIOUS
<1> USE DEF diskVars, historyVars
<1>1. ASSUME NEW d \in Docs, Delete(d) PROVE FlushInv'
  <2>1. PICK k \in 1 .. Len(mem) : \E i \in FirstEntry(mem[k], d) \ mem[k].dead :
          /\ op' = [at |-> "flush", name |-> mem[k].name, k |-> k, doc |-> d, id |-> i]
          /\ Len(mem') = Len(mem)
          /\ mem'[k].name = mem[k].name /\ mem'[k].build = mem[k].build
          /\ mem'[k].dead = mem[k].dead \cup {i}
    BY <1>1, DeleteMarks
  <2>2. PICK i \in FirstEntry(mem[k], d) \ mem[k].dead :
          /\ op' = [at |-> "flush", name |-> mem[k].name, k |-> k, doc |-> d, id |-> i]
          /\ Len(mem') = Len(mem)
          /\ mem'[k].name = mem[k].name /\ mem'[k].build = mem[k].build
          /\ mem'[k].dead = mem[k].dead \cup {i}
    BY <2>1
  <2>3. op'.k = k /\ op'.name = mem[k].name /\ op'.doc = d /\ op'.id = i
    BY <2>2
  <2>4. content[mem[k].build][i] = d /\ content' = content /\ kept' = kept \ {d}
    BY <1>1 DEF Delete, FirstEntry
  <2> QED BY <2>2, <2>3, <2>4 DEF FlushInv
<1>2. ASSUME UNCHANGED <<content, mem, op, kept>> PROVE FlushInv'
  BY <1>2 DEF FlushInv
<1>3. ASSUME op'.at # "flush" PROVE FlushInv'
  BY <1>3 DEF FlushInv
<1>4. ASSUME \/ AddDone \/ MergeDone \/ RemoveDir \/ RemoveDone \/ Flush \/ Publish \/ PublishDone
             \/ Crash \/ Open \/ Merge \/ WriteFile \/ \E batch \in Batches : AddDocuments(batch)
      PROVE  op'.at # "flush"
  <2>1. ASSUME RemoveDir PROVE op'.at = "remove"
    BY <2>1, OpTyped DEF RemoveDir, TypeOK
  <2>2. ASSUME WriteFile PROVE op'.at = "write"
    BY <2>2, OpTyped DEF WriteFile, TypeOK
  <2> QED BY <1>4, <2>1, <2>2 DEF AddDone, MergeDone, RemoveDone, Flush, Publish, PublishDone, Crash,
                                  Open, AddDocuments, Merge, StartWrite, Idle, Closed
<1> QED BY <1>1, <1>2, <1>3, <1>4 DEF Next, OpenRaises, Tick, vars

\* A directory that a call is writing is no segment, unless it was written over.
LEMMA UnfinishedIsNone ==
  ASSUME TypeOK, WriteInv, op.at = "write", op.file <= 4, op.name \notin clobbered
  PROVE  Verdict(op.name) # "whole"
<1>1. disk[op.name].manifest = 0
  BY OpTyped DEF WriteInv, TypeOK
<1>2. 0 \notin Builds
  BY DEF Builds
<1> QED BY <1>1, <1>2 DEF Verdict

\* Where a crash cuts a call, it cuts no segment but one that is being removed, and
\* brings no tombstone.
LEMMA CutSpares ==
  ASSUME TypeOK, WriteInv, CutFiles, clobbered = {}, NEW n \in Names, Verdict(n) = "whole",
         op.at = "remove" => n \notin ToSet(op.names)
  PROVE  disk'[n] = disk[n] /\ deadOn'[n] \subseteq deadOn[n]
<1>a. disk \in [Names -> [Files -> 0 .. Torn]] /\ deadOn \in [Names -> SUBSET Nat]
  BY DEF TypeOK
<1>1. CASE op.at = "write" /\ op.file <= Len(FileOrder)
  <2>1. n # op.name
    BY <1>1, UnfinishedIsNone DEF FileOrder
  <2> QED BY <1>a, <1>1, <2>1 DEF CutFiles
<1>2. CASE op.at = "remove" /\ op.names # <<>>
  <2>1. Head(op.names) \in ToSet(op.names)
    BY <1>2, OpTyped DEF TypeOK, ToSet
  <2>2. n # Head(op.names)
    BY <1>2, <2>1
  <2> QED BY <1>a, <1>2, <2>2 DEF CutFiles
<1>3. CASE op.at = "flush"
  BY <1>a, <1>3 DEF CutFiles
<1>4. CASE op.at \notin {"write", "remove", "flush"}
  BY <1>a, <1>4 DEF CutFiles
<1> QED BY <1>1, <1>2, <1>3, <1>4 DEF CutFiles

\* A merge has every live document of the segments it was made of.
LEMMA MergeHasAll ==
  ASSUME NEW c, NEW segs, IsMergeOf(c, segs), NEW x \in LiveOf(segs)
  PROVE  \E i \in 1 .. Len(c) : c[i] = DocAt(segs, x)
<1>1. PICK f \in Bijection(1 .. Len(c), LiveOf(segs)) : \A i \in 1 .. Len(c) : c[i] = DocAt(segs, f[i])
  BY DEF IsMergeOf
<1>2. \E i \in 1 .. Len(c) : f[i] = x
  BY <1>1, Fun_BijectionProperties
<1> QED BY <1>1, <1>2

\* A document that was added is in some directory, live, after every step.
LEMMA AddedStep ==
  TypeOK /\ LoadedInv /\ WriteInv /\ FlushInv /\ AddedInv /\ [Next]_vars => AddedInv'
<1> SUFFICES ASSUME TypeOK, LoadedInv, WriteInv, FlushInv, AddedInv, [Next]_vars,
                    clobbered' = {}, NEW d \in kept'
             PROVE  \E n \in dirs' :
                      /\ Verdict(n)' = "whole" /\ Keeps(n, d)'
                      /\ op'.at = "remove" => n \notin ToSet(op'.names)
  BY Zenon DEF AddedInv
<1> USE DEF diskVars, historyVars
<1> DEFINE Held(n) == /\ n \in dirs /\ Verdict(n) = "whole" /\ Keeps(n, d)
                      /\ op.at = "remove" => n \notin ToSet(op.names)
<1>a. clobbered = {}
  BY DEF Next, AddDocuments, Merge, StartWrite, WriteFile, AddDone, MergeDone, RemoveDir,
         RemoveDone, Delete, Flush, Publish, PublishDone, Crash, Open, OpenRaises, Tick, vars
<1>b. d \in kept => \E n : Held(n)
  BY <1>a DEF AddedInv
<1>c. \A n \in dirs : n \in Names
  BY DEF TypeOK
<1>d. disk \in [Names -> [Files -> 0 .. Torn]] /\ deadOn \in [Names -> SUBSET Nat]
  BY DEF TypeOK
<1>1. ASSUME NEW n, Held(n), n \in dirs', disk'[n] = disk[n], deadOn'[n] \subseteq deadOn[n],
             op'.at = "remove" => n \notin ToSet(op'.names)
      PROVE  \E m \in dirs' :
               /\ Verdict(m)' = "whole" /\ Keeps(m, d)'
               /\ op'.at = "remove" => m \notin ToSet(op'.names)
  BY <1>1, KeepsStays
<1>2. CASE \E name, docs, kind : op = Idle /\ StartWrite(name, docs, kind)
  <2>1. PICK n : Held(n)
    BY <1>2, <1>b DEF StartWrite
  <2> QED BY <1>1, <1>2, <2>1 DEF StartWrite
<1>3. CASE WriteFile
  <2>1. PICK n : Held(n)
    BY <1>3, <1>b DEF WriteFile
  <2>2. op.at = "write" /\ op.file <= 4 /\ op.name \in Names
    BY <1>3, OpTyped DEF WriteFile, FileOrder, TypeOK
  <2>3. n # op.name
    BY <1>a, <2>1, <2>2, UnfinishedIsNone
  <2>4. n \in Names
    BY <1>c, <2>1
  <2>5. disk'[n] = disk[n] /\ deadOn'[n] = deadOn[n] /\ dirs' = dirs
    BY <1>3, <1>d, <2>3, <2>4 DEF WriteFile
  <2>6. op'.at = "write"
    BY <1>3, OpTyped DEF WriteFile, TypeOK
  <2> QED BY <1>1, <2>1, <2>5, <2>6
<1>4. CASE AddDone
  <2>1. /\ op.at = "write" /\ op.file > 4 /\ kept' = kept \cup ToSet(Last(content)) /\ op' = Idle
        /\ UNCHANGED <<dirs, disk, deadOn, content>>
    BY <1>4 DEF AddDone, FileOrder
  <2>2. op'.at = "idle"
    BY <2>1 DEF Idle
  <2>3. CASE d \in kept
    BY <1>1, <1>b, <2>1, <2>2, <2>3
  <2>4. CASE d \in ToSet(Last(content))
    <3>1. PICK n, b : n = op.name /\ b = Len(content)
      OBVIOUS
    <3>2. OnDisk(n, b) /\ deadOn[n] = {} /\ b \in Builds
      BY <2>1, <3>1, WrittenIsOnDisk
    <3>3. Last(content) = content[b] /\ content[b] \in Seq(Docs)
      BY <3>1, <3>2 DEF Last, Builds, TypeOK
    <3>4. \E i \in 1 .. Len(content[b]) : content[b][i] = d
      BY <2>4, <3>3 DEF ToSet
    <3>5. Held(n)
      BY <2>1, <3>2, <3>4 DEF OnDisk, Keeps
    <3> QED BY <1>1, <2>1, <2>2, <3>5
  <2> QED BY <2>1, <2>3, <2>4
<1>5. CASE MergeDone
  <2>1. /\ op.at = "write" /\ op.file > 4 /\ op.kind = "merge" /\ kept' = kept
        /\ op' = [at |-> "remove", names |-> [i \in 1 .. Len(mem) |-> mem[i].name]]
        /\ UNCHANGED <<dirs, disk, deadOn, content>>
    BY <1>5 DEF MergeDone, FileOrder
  <2>2. PICK n : Held(n)
    BY <1>b, <2>1
  <2>3. ASSUME NEW m, \A k \in 1 .. Len(mem) : mem[k].name # m PROVE m \notin ToSet(op'.names)
    <3>1. op'.names = [i \in 1 .. Len(mem) |-> mem[i].name] /\ Len(mem) \in Nat
      BY <2>1 DEF TypeOK
    <3> QED BY <2>3, <3>1 DEF ToSet
  <2>4. CASE \A k \in 1 .. Len(mem) : mem[k].name # n
    BY <1>1, <2>1, <2>2, <2>3, <2>4
  <2>5. ASSUME NEW k \in 1 .. Len(mem), mem[k].name = n
        PROVE  \E m : Held(m) /\ \A j \in 1 .. Len(mem) : mem[j].name # m
    <3>1. disk[n].manifest = mem[k].build /\ mem[k].dead = deadOn[n]
      BY <1>a, <2>1, <2>5 DEF LoadedInv, OnDisk, Settled
    <3>2. PICK i \in 1 .. Len(content[mem[k].build]) :
            content[mem[k].build][i] = d /\ i \notin mem[k].dead
      BY <2>2, <3>1 DEF Keeps
    <3>3. <<k, i>> \in LiveOf(mem) /\ DocAt(mem, <<k, i>>) = d
      BY <3>2 DEF LiveOf, DocAt
    <3>4. PICK m, b : m = op.name /\ b = Len(content)
      OBVIOUS
    <3>5. IsMergeOf(content[b], mem)
      BY <2>1, <3>4 DEF WriteInv
    <3>6. \E j \in 1 .. Len(content[b]) : content[b][j] = d
      BY <3>3, <3>5, MergeHasAll
    <3>7. OnDisk(m, b) /\ deadOn[m] = {}
      BY <2>1, <3>4, WrittenIsOnDisk
    <3>8. Held(m)
      BY <2>1, <3>6, <3>7 DEF OnDisk, Keeps
    <3>9. \A j \in 1 .. Len(mem) : mem[j].name # m
      BY <1>a, <2>1, <3>4 DEF LoadedInv, Settled
    <3> QED BY <3>8, <3>9
  <2>6. CASE \E k \in 1 .. Len(mem) : mem[k].name = n
    <3>1. PICK m : Held(m) /\ \A j \in 1 .. Len(mem) : mem[j].name # m
      BY <2>5, <2>6
    <3> QED BY <1>1, <2>1, <2>3, <3>1
  <2> QED BY <2>4, <2>6
<1>6. CASE RemoveDir
  <2>1. /\ op.at = "remove" /\ op.names # <<>> /\ op.names \in Seq(Names) /\ kept' = kept
        /\ op \in [at : {"remove"}, names : Seq(Names)]
    BY <1>6, OpTyped DEF RemoveDir, TypeOK
  <2>2. PICK n : Held(n)
    BY <1>b, <2>1
  <2>3. op'.names = Tail(op.names)
    BY <1>6, <2>1 DEF RemoveDir
  <2>4. Head(op.names) \in ToSet(op.names) /\ ToSet(op'.names) \subseteq ToSet(op.names)
    BY <2>1, <2>3 DEF ToSet
  <2>5. n # Head(op.names) /\ n \notin ToSet(op'.names) /\ n \in Names
    BY <1>c, <2>1, <2>2, <2>4
  <2>6. n \in dirs' /\ disk'[n] = disk[n] /\ deadOn'[n] = deadOn[n]
    BY <1>6, <1>d, <2>2, <2>5 DEF RemoveDir
  <2> QED BY <1>1, <2>2, <2>5, <2>6
<1>7. CASE \E e \in Docs : Delete(e)
  <2>1. kept' \subseteq kept /\ op'.at = "flush" /\ UNCHANGED <<dirs, disk, deadOn>>
    BY <1>7 DEF Delete
  <2> QED BY <1>1, <1>b, <2>1
<1>8. CASE Flush
  <2>1. /\ op.at = "flush" /\ op' = Idle /\ UNCHANGED <<dirs, disk, content, mem, kept>>
        /\ IF op.name \in dirs THEN deadOn' = [deadOn EXCEPT ![op.name] = mem[op.k].dead]
           ELSE deadOn' = deadOn
    BY <1>8 DEF Flush
  <2>2. op'.at = "idle"
    BY <2>1 DEF Idle
  <2>3. PICK n : Held(n)
    BY <1>b, <2>1
  <2>4. CASE op.name \notin dirs \/ n # op.name
    <3>1. deadOn'[n] = deadOn[n]
      BY <1>c, <1>d, <2>1, <2>3, <2>4
    <3> QED BY <1>1, <2>1, <2>2, <2>3, <3>1
  <2>5. CASE op.name \in dirs /\ n = op.name
    <3>1. PICK k \in 1 .. Len(mem) : k = op.k
      BY <2>1 DEF FlushInv
    <3>2. /\ n = mem[k].name /\ content[mem[k].build][op.id] = op.doc /\ op.doc # d
      BY <2>1, <2>5, <3>1 DEF FlushInv
    <3>3. disk[n].manifest = mem[k].build /\ mem[k].dead = deadOn[n] \cup {op.id}
      BY <1>a, <2>1, <3>1, <3>2 DEF LoadedInv, OnDisk, Settled
    <3>4. PICK i \in 1 .. Len(content[mem[k].build]) :
            content[mem[k].build][i] = d /\ i \notin deadOn[n]
      BY <2>3, <3>3 DEF Keeps
    <3>5. i \notin deadOn'[n]
      BY <1>c, <1>d, <2>1, <2>3, <2>5, <3>1, <3>2, <3>3, <3>4
    <3>6. Keeps(n, d)'
      BY <2>1, <3>3, <3>4, <3>5 DEF Keeps
    <3>7. Verdict(n)' = "whole"
      BY <2>1, <2>3 DEF Verdict, Same, Builds
    <3> QED BY <2>1, <2>2, <2>3, <3>6, <3>7
  <2> QED BY <2>4, <2>5
<1>9. CASE Crash
  <2>1. CutFiles /\ op' = Closed /\ kept' = kept /\ dirs' = dirs
    BY <1>9 DEF Crash
  <2>2. PICK n : Held(n)
    BY <1>b, <2>1
  <2>3. disk'[n] = disk[n] /\ deadOn'[n] \subseteq deadOn[n]
    BY <1>a, <1>c, <2>1, <2>2, CutSpares
  <2>4. op'.at = "closed"
    BY <2>1 DEF Closed
  <2> QED BY <1>1, <2>1, <2>2, <2>3, <2>4
<1>10. CASE RemoveDone \/ Publish \/ PublishDone \/ Open \/ OpenRaises \/ Tick \/ UNCHANGED vars
  <2>1. UNCHANGED <<dirs, disk, deadOn, kept>> /\ (op' = op \/ op'.at \in {"idle", "publish"})
    BY <1>10 DEF RemoveDone, Publish, PublishDone, Open, OpenRaises, Tick, vars, Idle
  <2> QED BY <1>1, <1>b, <2>1
<1> QED BY <1>2, <1>3, <1>4, <1>5, <1>6, <1>7, <1>8, <1>9, <1>10 DEF Next, AddDocuments, Merge

\* Nothing is loaded, and nothing in progress, at first.
LEMMA IndexInit == Init => IndexInv
<1> SUFFICES ASSUME Init PROVE IndexInv
  OBVIOUS
<1>1. Len(mem) = 0 /\ Len(genFile.names) = 0 /\ op.at = "idle" /\ kept = {}
  BY DEF Init, NoGen, Idle
<1> QED BY <1>1 DEF IndexInv, LoadedInv, OnceInv, WriteInv, FlushInv, AddedInv

\* Each action keeps all of it.
LEMMA IndexStep == TypeOK /\ IndexInv /\ [Next]_vars => IndexInv'
BY LoadedStep, OnceStep, WriteStep, FlushStep, AddedStep DEF IndexInv

\* What the directory holds, in every reachable state.
LEMMA IndexHolds == Spec => [](TypeOK /\ IndexInv)
<1>1. Init => TypeOK /\ IndexInv
  BY TypeInit, IndexInit
<1>2. (TypeOK /\ IndexInv) /\ [Next]_vars => (TypeOK /\ IndexInv)'
  BY TypeStep, IndexStep
<1> QED BY <1>1, <1>2, PTL DEF Spec

-----------------------------------------------------------------------------
(* The properties.                                                         *)

\* Whatever add_documents, delete, merge, publish and the crashes between their
\* writes did, a loaded segment is whole on disk with the tombstones that are
\* served, unless its directory was written over (segment.py, index.py).
THEOREM LoadedIsOnDisk == Spec => []ServedIsOnDisk
<1>1. TypeOK /\ IndexInv => ServedIsOnDisk
  <2> SUFFICES ASSUME IndexInv, op = Idle, NEW i \in 1 .. Len(mem), mem[i].name \notin clobbered
               PROVE  /\ mem[i].name \in dirs /\ Verdict(mem[i].name) = "whole"
                      /\ disk[mem[i].name].manifest = mem[i].build
                      /\ deadOn[mem[i].name] = mem[i].dead
    BY DEF ServedIsOnDisk
  <2>1. op.at = "idle"
    BY DEF Idle
  <2> QED BY <2>1 DEF IndexInv, LoadedInv, OnDisk, Settled
<1> QED BY <1>1, IndexHolds, PTL

\* Wherever a crash cuts an addition, a merge or the removal of the segments it
\* merged, a whole directory still has every added document live, as long as no
\* directory was written over (Index.merge removes its inputs last).
THEOREM AddedSurvives == Spec => []AddedStaysOnDisk
<1>1. IndexInv => AddedStaysOnDisk
  BY DEF IndexInv, AddedInv, AddedStaysOnDisk, Keeps
<1> QED BY <1>1, IndexHolds, PTL

\* The places a query finds a document at are as many in a merged segment as in
\* those it was made of.
LEMMA MergeCounts ==
  ASSUME TypeOK, WriteInv, MergeDone
  PROVE  Served(mem)' = Served(mem)
<1>1. /\ op.at = "write" /\ op.kind = "merge" /\ content' = content
      /\ mem' = <<Loaded(op.name, Len(content), {})>>
  BY DEF MergeDone
<1> DEFINE c == content[Len(content)]
<1>2. PICK f \in Bijection(1 .. Len(c), LiveOf(mem)) : \A i \in 1 .. Len(c) : c[i] = DocAt(mem, f[i])
  BY <1>1 DEF WriteInv, IsMergeOf
<1>3. LiveOf(mem)' = {1} \X (1 .. Len(c)) /\ \A i : DocAt(mem, <<1, i>>)' = c[i]
  <2>1. Len(mem') = 1 /\ mem'[1].build = Len(content) /\ mem'[1].dead = {}
    BY <1>1 DEF Loaded
  <2>2. 1 .. Len(mem') = {1}
    BY <2>1
  <2> QED BY <1>1, <2>1, <2>2 DEF LiveOf, DocAt
<1> HIDE DEF c
<1>4. /\ f \in [1 .. Len(c) -> LiveOf(mem)]
      /\ \A i, j \in 1 .. Len(c) : f[i] = f[j] => i = j
      /\ \A x \in LiveOf(mem) : \E i \in 1 .. Len(c) : f[i] = x
  BY <1>2, Fun_BijectionProperties
<1>5. ASSUME NEW d \in Docs
      PROVE  Cardinality({x \in LiveOf(mem)' : DocAt(mem, x)' = d}) =
             Cardinality({x \in LiveOf(mem) : DocAt(mem, x) = d})
  <2> DEFINE A == {x \in {1} \X (1 .. Len(c)) : c[x[2]] = d}
             B == {x \in LiveOf(mem) : DocAt(mem, x) = d}
             g == [x \in A |-> f[x[2]]]
  <2>1. {x \in LiveOf(mem)' : DocAt(mem, x)' = d} = A
    BY <1>3
  <2>2. IsFiniteSet(B)
    <3>1. IsFiniteSet(LiveOf(mem))
      BY LiveTyped DEF TypeOK
    <3>2. B \subseteq LiveOf(mem)
      OBVIOUS
    <3> HIDE DEF B
    <3> QED BY <3>1, <3>2, FS_Subset
  <2>3. g \in [A -> B]
    BY <1>2, <1>4
  <2>4. ASSUME NEW x \in A, NEW y \in A, g[x] = g[y] PROVE x = y
    BY <1>4, <2>4
  <2>5. ASSUME NEW y \in B PROVE \E x \in A : g[x] = y
    <3>1. PICK i \in 1 .. Len(c) : f[i] = y
      BY <1>4
    <3>2. <<1, i>> \in A
      BY <1>2, <3>1
    <3> QED BY <3>1, <3>2
  <2> HIDE DEF A, B, g
  <2>6. g \in Bijection(A, B)
    BY <2>3, <2>4, <2>5 DEF Bijection, Injection, Surjection, IsInjective
  <2>7. ExistsBijection(B, A)
    BY <2>6, Fun_ExistsBijSymmetric DEF ExistsBijection
  <2>8. Cardinality(B) = Cardinality(A)
    BY <2>2, <2>7, FS_Bijection DEF ExistsBijection
  <2> QED BY <2>1, <2>8 DEF B
<1> QED BY <1>5 DEF Served

\* Index.merge serves the documents it served before, each as often, and none that
\* was deleted, whichever segments and tombstones it merges.
THEOREM MergeChangesNothing == Spec => MergeKeepsServed
<1>1. TypeOK /\ IndexInv /\ [Next]_vars =>
        [op.at = "write" /\ op'.at = "remove" => Served(mem)' = Served(mem)]_vars
  <2> SUFFICES ASSUME TypeOK, IndexInv, [Next]_vars, op.at = "write", op'.at = "remove"
               PROVE  Served(mem)' = Served(mem)
    OBVIOUS
  <2>1. MergeDone
    <3>1. ASSUME WriteFile PROVE op'.at = "write"
      BY <3>1, OpTyped DEF WriteFile, TypeOK
    <3> QED BY <3>1 DEF Next, AddDocuments, Merge, AddDone, RemoveDir, RemoveDone, Delete, Flush,
                        Publish, PublishDone, Crash, Open, OpenRaises, Tick, vars, Idle, Closed
  <2> QED BY <2>1, MergeCounts DEF IndexInv
<1> QED BY <1>1, IndexHolds, PTL DEF Spec, MergeKeepsServed
=============================================================================
