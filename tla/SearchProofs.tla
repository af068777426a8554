---------------------------- MODULE SearchProofs ----------------------------
(***************************************************************************)
(* Proofs about module Search, for any query, segment, tombstones and      *)
(* statistics, and about module Anchors, whose counts are sums as the      *)
(* scores are.  What is summed, counted or sorted has any size: facts on   *)
(* all finite sets are proved from a smallest set that would refute them.  *)
(***************************************************************************)
EXTENDS Search, Anchors, FiniteSetTheorems, SequenceTheorems, WellFoundedInduction, TLAPS

-----------------------------------------------------------------------------
(* Sums over finite sets.                                                  *)

\* Among sets of naturals that are not empty, one has a least element.
LEMMA LeastNatural ==
  ASSUME NEW S \in SUBSET Nat, S # {}
  PROVE  \E n \in S : \A m \in S : n <= m
<1>1. PICK n \in S : \A m \in S : ~(<<m, n>> \in OpToRel(<, Nat))
  BY WFMin, NatLessThanWellFounded
<1>2. \A m \in S : ~(m < n)
  BY <1>1 DEF OpToRel
<1> QED BY <1>2

\* If some subsets of a finite set are bad, then one is of which no part is.
LEMMA LeastSubset ==
  ASSUME NEW D, IsFiniteSet(D), NEW B, B # {}, \A E \in B : E \subseteq D
  PROVE  \E E \in B : \A F \in B : F \subseteq E => F = E
<1>1. IsWellFoundedOn(StrictSubsetOrdering(D), SUBSET D)
  BY FS_StrictSubsetOrderingWellFounded, FS_FiniteSubsetsOfFinite
<1>2. PICK E \in B : \A F \in B : ~(<<F, E>> \in StrictSubsetOrdering(D))
  BY <1>1, WFMin, B \subseteq SUBSET D
<1> QED BY <1>2 DEF StrictSubsetOrdering

\* The element the library's folds take first.
AnyOf(s) == CHOOSE x \in s : TRUE

\* A sum over the subsets of a set, one element after the other.
Sums(g, f, D) ==
  g = [s \in SUBSET D |-> IF s = {} THEN 0 ELSE f[AnyOf(s)] + g[s \ {AnyOf(s)}]]

\* Such a function exists: take the least number of elements for which none did.
LEMMA SumsExist ==
  ASSUME NEW f, NEW D, IsFiniteSet(D)
  PROVE  \E g : Sums(g, f, D)
<1> DEFINE Upto(n) == {s \in SUBSET D : Cardinality(s) < n}
           Good(g, n) == \A s \in Upto(n) :
                           g[s] = IF s = {} THEN 0 ELSE f[AnyOf(s)] + g[s \ {AnyOf(s)}]
           Bad == {n \in Nat : ~ \E g : Good(g, n)}
<1>1. \A s \in SUBSET D : IsFiniteSet(s) /\ Cardinality(s) \in Nat
  BY FS_Subset, FS_CardinalityType
<1>2. \A s \in SUBSET D : s # {} => /\ AnyOf(s) \in s /\ s \ {AnyOf(s)} \in SUBSET D
                                    /\ Cardinality(s \ {AnyOf(s)}) = Cardinality(s) - 1
  <2> TAKE s \in SUBSET D
  <2> HAVE s # {}
  <2>1. AnyOf(s) \in s
    BY DEF AnyOf
  <2> QED BY <1>1, <2>1, FS_RemoveElement
<1>3. Bad = {}
  <2> SUFFICES ASSUME Bad # {} PROVE FALSE
    OBVIOUS
  <2>1. PICK n \in Bad : \A m \in Bad : n <= m
    BY LeastNatural
  <2>2. n # 0
    <3>1. \E g : Good(g, 0)
      BY <1>1
    <3>2. 0 \notin Bad
      BY <3>1
    <3> HIDE DEF Bad
    <3> QED BY <2>1, <3>2
  <2>a. Bad \subseteq Nat
    OBVIOUS
  <2>3. n - 1 \in Nat /\ n - 1 \notin Bad
    <3> HIDE DEF Bad
    <3> QED BY <2>1, <2>2, <2>a
  <2>4. PICK g : Good(g, n - 1)
    BY <2>3
  <2> DEFINE h == [s \in SUBSET D |-> IF s = {} THEN 0 ELSE f[AnyOf(s)] + g[s \ {AnyOf(s)}]]
  <2>5. \A s \in Upto(n - 1) : h[s] = g[s]
    BY <2>4
  <2>6. ASSUME NEW s \in Upto(n), s # {} PROVE h[s] = f[AnyOf(s)] + h[s \ {AnyOf(s)}]
    <3>1. s \ {AnyOf(s)} \in Upto(n - 1)
      BY <1>1, <1>2, <2>6
    <3>2. h[s \ {AnyOf(s)}] = g[s \ {AnyOf(s)}]
      BY <2>5, <3>1
    <3> QED BY <2>6, <3>2
  <2>7. Good(h, n)
    BY <2>6
  <2> HIDE DEF h
  <2>8. n \in Nat /\ ~ \E g1 : Good(g1, n)
    BY <2>1
  <2> QED BY <2>7, <2>8
<1>4. PICK g : Good(g, Cardinality(D) + 1)
  <2>1. Cardinality(D) + 1 \in Nat
    BY FS_CardinalityType
  <2> QED BY <1>3, <2>1
<1>5. \A s \in SUBSET D : s \in Upto(Cardinality(D) + 1)
  BY <1>1, FS_Subset, FS_CardinalityType
<1> DEFINE h == [s \in SUBSET D |-> g[s]]
<1>6. \A s \in SUBSET D : g[s] = IF s = {} THEN 0 ELSE f[AnyOf(s)] + g[s \ {AnyOf(s)}]
  BY <1>4, <1>5
<1>7. \A s \in SUBSET D : h[s] = IF s = {} THEN 0 ELSE f[AnyOf(s)] + h[s \ {AnyOf(s)}]
  BY <1>2, <1>6
<1>8. Sums(h, f, D)
  <2>1. h = [s \in SUBSET D |-> h[s]]
    OBVIOUS
  <2> HIDE DEF h
  <2> QED BY <1>7, <2>1 DEF Sums
<1> QED BY <1>8

\* On a part of the set it is that of the part.
LEMMA SumsAgree ==
  ASSUME NEW f, NEW D, IsFiniteSet(D), NEW E \in SUBSET D, NEW g, NEW h, Sums(g, f, D), Sums(h, f, E)
  PROVE  g[E] = h[E]
<1> DEFINE B == {s \in SUBSET E : g[s] # h[s]}
<1>1. IsFiniteSet(E)
  BY FS_Subset
<1>a. \A s \in SUBSET E : /\ g[s] = IF s = {} THEN 0 ELSE f[AnyOf(s)] + g[s \ {AnyOf(s)}]
                          /\ h[s] = IF s = {} THEN 0 ELSE f[AnyOf(s)] + h[s \ {AnyOf(s)}]
  <2>1. \A s \in SUBSET E : s \in SUBSET D
    OBVIOUS
  <2>2. \A s \in SUBSET D : g[s] = IF s = {} THEN 0 ELSE f[AnyOf(s)] + g[s \ {AnyOf(s)}]
    BY DEF Sums
  <2>3. \A s \in SUBSET E : h[s] = IF s = {} THEN 0 ELSE f[AnyOf(s)] + h[s \ {AnyOf(s)}]
    BY DEF Sums
  <2> QED BY <2>1, <2>2, <2>3
<1>2. ASSUME B # {} PROVE FALSE
  <2>0. \A s \in B : s \subseteq E
    OBVIOUS
  <2> HIDE DEF B
  <2>1. PICK s \in B : \A t \in B : t \subseteq s => t = s
    BY <1>1, <1>2, <2>0, LeastSubset
  <2> USE DEF B
  <2>a. s \in SUBSET E /\ g[s] # h[s]
    BY <2>1
  <2>2. s # {}
    <3>1. g[{}] = 0 /\ h[{}] = 0
      BY <1>a, {} \in SUBSET E
    <3> QED BY <2>a, <3>1
  <2>3. AnyOf(s) \in s
    BY <2>2 DEF AnyOf
  <2>4. g[s \ {AnyOf(s)}] = h[s \ {AnyOf(s)}]
    <3>1. s \ {AnyOf(s)} \in SUBSET E /\ s \ {AnyOf(s)} # s /\ s \ {AnyOf(s)} \subseteq s
      BY <2>a, <2>3
    <3> QED BY <2>1, <3>1
  <2> QED BY <1>a, <2>a, <2>2, <2>4
<1> QED BY <1>2

\* The sum of the library is the one that takes an element away, and then the next.
LEMMA SumUnfolds ==
  ASSUME NEW D, IsFiniteSet(D), NEW f
  PROVE  /\ SumFunctionOnSet(f, {}) = 0
         /\ D # {} => SumFunctionOnSet(f, D) =
                        f[AnyOf(D)] + SumFunctionOnSet(f, D \ {AnyOf(D)})
<1> DEFINE it(E) == CHOOSE g : Sums(g, f, E)
<1>1. \A E : SumFunctionOnSet(f, E) = it(E)[E]
  BY DEF SumFunctionOnSet, FoldFunctionOnSet, MapThenFoldSet, Sums, AnyOf
<1>2. \A E \in SUBSET D : Sums(it(E), f, E)
  BY SumsExist, FS_Subset
<1>3. \A E \in SUBSET D : it(D)[E] = SumFunctionOnSet(f, E)
  <2> TAKE E \in SUBSET D
  <2> DEFINE g == it(D) h == it(E)
  <2>1. Sums(g, f, D) /\ Sums(h, f, E)
    BY <1>2
  <2>2. h[E] = SumFunctionOnSet(f, E)
    BY <1>1
  <2> HIDE DEF g, h
  <2>3. g[E] = h[E]
    BY <2>1, SumsAgree
  <2> QED BY <2>2, <2>3 DEF g
<1>4. \A E \in SUBSET D : it(D)[E] = IF E = {} THEN 0 ELSE f[AnyOf(E)] + it(D)[E \ {AnyOf(E)}]
  <2> DEFINE g == it(D)
  <2>1. Sums(g, f, D)
    BY <1>2
  <2> HIDE DEF g
  <2>2. \A E \in SUBSET D : g[E] = IF E = {} THEN 0 ELSE f[AnyOf(E)] + g[E \ {AnyOf(E)}]
    BY <2>1 DEF Sums
  <2> QED BY <2>2 DEF g
<1> HIDE DEF it
<1> QED BY <1>3, <1>4

\* A sum of naturals is one.
LEMMA SumType ==
  ASSUME NEW D, IsFiniteSet(D), NEW f, \A x \in D : f[x] \in Nat
  PROVE  SumFunctionOnSet(f, D) \in Nat
<1> DEFINE B == {E \in SUBSET D : SumFunctionOnSet(f, E) \notin Nat}
<1>1. ASSUME B # {} PROVE FALSE
  <2>0. \A E \in B : E \subseteq D
    OBVIOUS
  <2> HIDE DEF B
  <2>1. PICK E \in B : \A F \in B : F \subseteq E => F = E
    BY <1>1, <2>0, LeastSubset
  <2> USE DEF B
  <2>2. IsFiniteSet(E)
    BY <2>1, FS_Subset
  <2>a. E \subseteq D /\ SumFunctionOnSet(f, E) \notin Nat
    BY <2>1
  <2>3. E # {}
    BY <2>a, <2>2, SumUnfolds
  <2>4. AnyOf(E) \in E
    BY <2>3 DEF AnyOf
  <2>5. SumFunctionOnSet(f, E \ {AnyOf(E)}) \in Nat
    <3>1. E \ {AnyOf(E)} \in SUBSET D /\ E \ {AnyOf(E)} # E
      BY <2>a, <2>4
    <3>2. E \ {AnyOf(E)} \notin B
      BY <2>1, <3>1
    <3> QED BY <3>1, <3>2
  <2>6. SumFunctionOnSet(f, E) = f[AnyOf(E)] + SumFunctionOnSet(f, E \ {AnyOf(E)})
    BY <2>2, <2>3, SumUnfolds
  <2>7. f[AnyOf(E)] \in Nat
    BY <2>a, <2>4
  <2> QED BY <2>a, <2>5, <2>6, <2>7
<1> QED BY <1>1

\* Whichever element is taken away.
LEMMA SumRemove ==
  ASSUME NEW D, IsFiniteSet(D), NEW f, \A x \in D : f[x] \in Nat, NEW d \in D
  PROVE  SumFunctionOnSet(f, D) = f[d] + SumFunctionOnSet(f, D \ {d})
<1> DEFINE S(E) == SumFunctionOnSet(f, E)
           B == {E \in SUBSET D : \E x \in E : S(E) # f[x] + S(E \ {x})}
<1>0. \A E \in SUBSET D : IsFiniteSet(E) /\ S(E) \in Nat /\ (E # {} => S(E) = f[AnyOf(E)] + S(E \ {AnyOf(E)}))
  BY FS_Subset, SumType, SumUnfolds
<1> HIDE DEF S
<1>1. ASSUME B # {} PROVE FALSE
  <2>0. \A E \in B : E \subseteq D
    OBVIOUS
  <2> HIDE DEF B
  <2>1. PICK E \in B : \A F \in B : F \subseteq E => F = E
    BY <1>1, <2>0, LeastSubset
  <2> USE DEF B
  <2>2. PICK x \in E : S(E) # f[x] + S(E \ {x})
    BY <2>1
  <2> DEFINE a == AnyOf(E)
  <2>3. a \in E
    BY <2>2 DEF AnyOf
  <2>4. S(E) = f[a] + S(E \ {a})
    BY <1>0, <2>1, <2>3
  <2> HIDE DEF a
  <2>5. a # x
    BY <2>2, <2>4
  <2>6. S(E \ {a}) = f[x] + S((E \ {a}) \ {x})
    <3>1. E \ {a} \notin B /\ E \ {a} \in SUBSET D /\ x \in E \ {a}
      BY <2>1, <2>2, <2>3, <2>5
    <3> QED BY <3>1
  <2>7. S(E \ {x}) = f[a] + S((E \ {x}) \ {a})
    <3>1. E \ {x} \notin B /\ E \ {x} \in SUBSET D /\ a \in E \ {x}
      BY <2>1, <2>2, <2>3, <2>5
    <3> QED BY <3>1
  <2>8. (E \ {x}) \ {a} = (E \ {a}) \ {x}
    OBVIOUS
  <2>9. f[a] \in Nat /\ f[x] \in Nat /\ S((E \ {a}) \ {x}) \in Nat
    BY <1>0, <2>1, <2>2, <2>3
  <2> QED BY <2>2, <2>4, <2>6, <2>7, <2>8, <2>9
<1> QED BY <1>1 DEF S

\* A sum of more is more.
LEMMA SumMonotonic ==
  ASSUME NEW D, IsFiniteSet(D), NEW f, NEW g,
         \A x \in D : f[x] \in Nat /\ g[x] \in Nat /\ f[x] <= g[x]
  PROVE  SumFunctionOnSet(f, D) <= SumFunctionOnSet(g, D)
<1> DEFINE S(h, E) == SumFunctionOnSet(h, E)
           B == {E \in SUBSET D : ~(S(f, E) <= S(g, E))}
<1>0. \A E \in SUBSET D : S(f, E) \in Nat /\ S(g, E) \in Nat
  BY FS_Subset, SumType
<1>a. S(f, {}) = 0 /\ S(g, {}) = 0
  BY FS_EmptySet, SumUnfolds
<1>b. \A E \in SUBSET D : \A x \in E : /\ S(f, E) = f[x] + S(f, E \ {x})
                                       /\ S(g, E) = g[x] + S(g, E \ {x})
  BY FS_Subset, SumRemove
<1> HIDE DEF S
<1>1. ASSUME B # {} PROVE FALSE
  <2>0. \A E \in B : E \subseteq D
    OBVIOUS
  <2> HIDE DEF B
  <2>1. PICK E \in B : \A F \in B : F \subseteq E => F = E
    BY <1>1, <2>0, LeastSubset
  <2> USE DEF B
  <2>2. E \subseteq D /\ ~(S(f, E) <= S(g, E))
    BY <2>1
  <2>3. PICK x : x \in E
    BY <1>a, <2>2
  <2>4. E \ {x} \subseteq D /\ E \ {x} # E
    BY <2>2, <2>3
  <2>5. S(f, E \ {x}) <= S(g, E \ {x})
    BY <2>1, <2>4
  <2>6. /\ f[x] \in Nat /\ g[x] \in Nat /\ f[x] <= g[x]
        /\ S(f, E \ {x}) \in Nat /\ S(g, E \ {x}) \in Nat
    BY <1>0, <2>2, <2>3, <2>4
  <2>7. S(f, E) = f[x] + S(f, E \ {x}) /\ S(g, E) = g[x] + S(g, E \ {x})
    BY <1>b, <2>2, <2>3
  <2> HIDE DEF B
  <2> QED BY <2>2, <2>5, <2>6, <2>7
<1> QED BY <1>1 DEF S

\* Equal terms have equal sums.
LEMMA SumEqual ==
  ASSUME NEW D, IsFiniteSet(D), NEW f, NEW g, \A x \in D : f[x] \in Nat /\ f[x] = g[x]
  PROVE  SumFunctionOnSet(f, D) = SumFunctionOnSet(g, D)
<1>1. /\ SumFunctionOnSet(f, D) <= SumFunctionOnSet(g, D)
      /\ SumFunctionOnSet(g, D) <= SumFunctionOnSet(f, D)
  BY SumMonotonic
<1>2. SumFunctionOnSet(f, D) \in Nat /\ SumFunctionOnSet(g, D) \in Nat
  BY SumType
<1> QED BY <1>1, <1>2

\* One term that is more makes the sum more.
LEMMA SumStrict ==
  ASSUME NEW D, IsFiniteSet(D), NEW f, NEW g,
         \A x \in D : f[x] \in Nat /\ g[x] \in Nat /\ f[x] <= g[x],
         NEW d \in D, f[d] < g[d]
  PROVE  SumFunctionOnSet(f, D) < SumFunctionOnSet(g, D)
<1>1. /\ SumFunctionOnSet(f, D) = f[d] + SumFunctionOnSet(f, D \ {d})
      /\ SumFunctionOnSet(g, D) = g[d] + SumFunctionOnSet(g, D \ {d})
  BY SumRemove
<1>2. IsFiniteSet(D \ {d})
  BY FS_Subset
<1>3. SumFunctionOnSet(f, D \ {d}) <= SumFunctionOnSet(g, D \ {d})
  BY <1>2, SumMonotonic
<1>4. SumFunctionOnSet(f, D \ {d}) \in Nat /\ SumFunctionOnSet(g, D \ {d}) \in Nat
  BY <1>2, SumType
<1> QED BY <1>1, <1>3, <1>4

\* A sum is at least each of its terms.
LEMMA SumMember ==
  ASSUME NEW D, IsFiniteSet(D), NEW f, \A x \in D : f[x] \in Nat, NEW d \in D
  PROVE  f[d] <= SumFunctionOnSet(f, D)
<1>1. SumFunctionOnSet(f, D) = f[d] + SumFunctionOnSet(f, D \ {d})
  BY SumRemove
<1>2. IsFiniteSet(D \ {d}) /\ \A x \in D \ {d} : f[x] \in Nat
  BY FS_Subset
<1>3. SumFunctionOnSet(f, D \ {d}) \in Nat
  BY <1>2, SumType
<1> QED BY <1>1, <1>3

\* The sum of one term is that term.
LEMMA SumOne ==
  ASSUME NEW f, NEW x, f[x] \in Nat
  PROVE  SumFunctionOnSet(f, {x}) = f[x]
<1>1. IsFiniteSet({x}) /\ {x} \ {x} = {}
  BY FS_Singleton
<1>2. SumFunctionOnSet(f, {x}) = f[x] + SumFunctionOnSet(f, {x} \ {x})
  BY <1>1, SumRemove
<1>3. SumFunctionOnSet(f, {}) = 0
  BY FS_EmptySet, SumUnfolds
<1> QED BY <1>1, <1>2, <1>3

\* What is zero may be left out of a sum.
LEMMA SumWithoutZeros ==
  ASSUME NEW D, IsFiniteSet(D), NEW f, \A x \in D : f[x] \in Nat,
         NEW E \in SUBSET D, \A x \in D \ E : f[x] = 0
  PROVE  SumFunctionOnSet(f, D) = SumFunctionOnSet(f, E)
<1> DEFINE S(F) == SumFunctionOnSet(f, F)
           B == {F \in SUBSET D : E \subseteq F /\ S(F) # S(E)}
<1>0. \A F \in SUBSET D : S(F) \in Nat
  BY FS_Subset, SumType
<1>b. \A F \in SUBSET D : \A x \in F : S(F) = f[x] + S(F \ {x})
  BY FS_Subset, SumRemove
<1> HIDE DEF S
<1>1. ASSUME B # {} PROVE FALSE
  <2>0. \A F \in B : F \subseteq D
    OBVIOUS
  <2> HIDE DEF B
  <2>1. PICK F \in B : \A G \in B : G \subseteq F => G = F
    BY <1>1, <2>0, LeastSubset
  <2> USE DEF B
  <2>2. F \subseteq D /\ E \subseteq F /\ S(F) # S(E)
    BY <2>1
  <2>3. PICK x \in F : x \notin E
    BY <2>2
  <2>4. F \ {x} \subseteq D /\ F \ {x} # F /\ E \subseteq F \ {x}
    BY <2>2, <2>3
  <2>5. S(F \ {x}) = S(E)
    BY <2>1, <2>4
  <2>6. f[x] = 0
    BY <2>2, <2>3
  <2>7. S(F) = f[x] + S(F \ {x}) /\ S(F \ {x}) \in Nat
    BY <1>0, <1>b, <2>2, <2>3, <2>4
  <2> HIDE DEF B
  <2> QED BY <2>2, <2>5, <2>6, <2>7
<1>2. B = {}
  BY <1>1
<1>3. S(D) = S(E)
  BY <1>2
<1> QED BY <1>3 DEF S

\* The least element that Min chooses.
LEMMA MinNat ==
  ASSUME NEW S \in SUBSET Nat, S # {}
  PROVE  Min(S) \in S /\ \A m \in S : Min(S) <= m
BY LeastNatural DEF Min

\* A finite set of naturals has a greatest element, which Max chooses.
LEMMA MaxNat ==
  ASSUME NEW S, IsFiniteSet(S), S # {}, S \in SUBSET Nat
  PROVE  Max(S) \in S /\ \A m \in S : m <= Max(S)
<1> DEFINE B == {E \in SUBSET S : E # {} /\ ~ \E n \in E : \A m \in E : m <= n}
<1>1. ASSUME B # {} PROVE FALSE
  <2>0. \A E \in B : E \subseteq S
    OBVIOUS
  <2> HIDE DEF B
  <2>1. PICK E \in B : \A F \in B : F \subseteq E => F = E
    BY <1>1, <2>0, LeastSubset
  <2> USE DEF B
  <2>2. E \in SUBSET Nat /\ E # {} /\ ~ \E n \in E : \A m \in E : m <= n
    BY <2>1
  <2>3. PICK x : x \in E
    BY <2>2
  <2>4. E \ {x} \in SUBSET S /\ E \ {x} # E /\ E \ {x} \subseteq E
    BY <2>1, <2>3
  <2>5. CASE E \ {x} = {}
    BY <2>2, <2>3, <2>5
  <2>6. CASE E \ {x} # {}
    <3>1. PICK n \in E \ {x} : \A m \in E \ {x} : m <= n
      BY <2>1, <2>4, <2>6
    <3>2. n \in Nat /\ x \in Nat
      BY <2>2, <2>3
    <3>3. CASE x <= n
      BY <2>2, <3>1, <3>3
    <3>4. CASE n < x
      <4>1. \A m \in E : m <= x
        BY <2>2, <3>1, <3>2, <3>4
      <4> QED BY <2>2, <2>3, <4>1
    <3> QED BY <3>2, <3>3, <3>4
  <2> QED BY <2>5, <2>6
<1>2. PICK n \in S : \A m \in S : m <= n
  BY <1>1
<1>3. \A m \in S : n >= m
  BY <1>2
<1>4. Max(S) \in S /\ \A m \in S : Max(S) >= m
  BY <1>3 DEF Max
<1> QED BY <1>4

-----------------------------------------------------------------------------
(* Products, quotients and finite sets.                                    *)

\* A quotient is the greatest number that goes into a number so many times.
LEMMA Quotient ==
  ASSUME NEW a \in Nat, NEW b \in Nat \ {0}
  PROVE  /\ a \div b \in Nat
         /\ (a \div b) * b <= a
         /\ \A q \in Nat : q * b <= a => q <= a \div b
<1>1. a = b * (a \div b) + (a % b) /\ a % b \in 0 .. b - 1 /\ a \div b \in Int
  OBVIOUS
<1>2. a \div b \in Nat
  <2>1. SUFFICES ASSUME a \div b < 0 PROVE FALSE
    BY <1>1
  <2>2. b * (a \div b) <= b * (-1)
    BY <1>1, <2>1
  <2> QED BY <1>1, <2>2
<1>3. ASSUME NEW q \in Nat, q * b <= a PROVE q <= a \div b
  <2>1. SUFFICES ASSUME q >= (a \div b) + 1 PROVE FALSE
    BY <1>2, <1>3
  <2>2. b * q >= b * ((a \div b) + 1)
    BY <1>1, <2>1
  <2>3. b * ((a \div b) + 1) = b * (a \div b) + b /\ b * q = q * b
    BY <1>1
  <2> QED BY <1>1, <1>3, <2>2, <2>3
<1> QED BY <1>1, <1>2, <1>3

\* A product grows with its factors.
LEMMA ProductMonotonic ==
  ASSUME NEW a \in Nat, NEW b \in Nat, NEW c \in Nat, b <= c
  PROVE  a * b \in Nat /\ a * b <= a * c /\ b * a <= c * a
OBVIOUS

\* A product of what is not zero is not.
LEMMA ProductPositive ==
  ASSUME NEW a \in Nat \ {0}, NEW b \in Nat \ {0}
  PROVE  a * b \in Nat \ {0}
OBVIOUS

\* What a function gives for a finite set is finite.
LEMMA FiniteImage ==
  ASSUME NEW S, IsFiniteSet(S), NEW f
  PROVE  IsFiniteSet({f[x] : x \in S})
<1> DEFINE T == {f[x] : x \in S}
           g == [x \in S |-> f[x]]
<1>1. g \in Surjection(S, T)
  BY DEF Surjection
<1> QED BY <1>1, FS_Surjection

-----------------------------------------------------------------------------
(* The written segment.                                                    *)

\* A document saturates less by statistics whose average length is smaller: it counts
\* as a longer one (scoring.py saturation).
LEMMA SaturationGrows ==
  ASSUME NEW tf \in Nat, NEW n \in Nat \ {0},
         NEW own \in [docs : Nat \ {0}, tokens : Nat \ {0}],
         NEW st \in [docs : Nat \ {0}, tokens : Nat \ {0}],
         st.tokens * own.docs <= own.tokens * st.docs
  PROVE  /\ Saturation(tf, n, st) \in Nat
         /\ Saturation(tf, n, st) <= Saturation(tf, n, own)
<1> DEFINE A == Scale * 22 * tf
           B == 10 * tf + 3
           C == 9 * n
           T0 == own.tokens
           D0 == own.docs
           T1 == st.tokens
           D1 == st.docs
<1>0. A \in Nat /\ B \in Nat \ {0} /\ C \in Nat \ {0}
  <2>1. Scale \in Nat
    BY QueryType
  <2>2. Scale * 22 \in Nat
    BY <2>1
  <2> QED BY <2>2, ProductMonotonic
<1>1. T0 \in Nat \ {0} /\ D0 \in Nat \ {0} /\ T1 \in Nat \ {0} /\ D1 \in Nat \ {0}
  OBVIOUS
<1>2. T1 * D0 <= T0 * D1
  OBVIOUS
<1>3. /\ Saturation(tf, n, st) = (A * T1) \div (B * T1 + C * D1)
      /\ Saturation(tf, n, own) = (A * T0) \div (B * T0 + C * D0)
  BY DEF Saturation
<1> HIDE DEF A, B, C, T0, D0, T1, D1
<1> DEFINE M1 == B * T1 + C * D1
           M0 == B * T0 + C * D0
           q == (A * T1) \div M1
<1>4. /\ A * T1 \in Nat /\ A * T0 \in Nat
      /\ M1 \in Nat \ {0} /\ M0 \in Nat \ {0}
  <2>1. /\ B * T1 \in Nat \ {0} /\ C * D1 \in Nat \ {0}
        /\ B * T0 \in Nat \ {0} /\ C * D0 \in Nat \ {0}
    BY <1>0, <1>1, ProductPositive
  <2> QED BY <1>0, <1>1, <2>1
<1>5. q \in Nat /\ q * M1 <= A * T1
  BY <1>4, Quotient
<1>6. T1 * M0 <= T0 * M1
  <2>1. T1 * M0 = B * T0 * T1 + C * (T1 * D0)
    BY <1>0, <1>1
  <2>2. T0 * M1 = B * T0 * T1 + C * (T0 * D1)
    BY <1>0, <1>1
  <2>3. C * (T1 * D0) <= C * (T0 * D1)
    BY <1>0, <1>1, <1>2, ProductMonotonic
  <2>4. B * T0 * T1 \in Nat /\ C * (T1 * D0) \in Nat /\ C * (T0 * D1) \in Nat
    BY <1>0, <1>1
  <2> HIDE DEF M0, M1
  <2> QED BY <2>1, <2>2, <2>3, <2>4
<1> HIDE DEF M0, M1, q
<1>7. T1 * (q * M0) <= T1 * (A * T0)
  <2>1. q * (T1 * M0) <= q * (T0 * M1)
    BY <1>1, <1>4, <1>5, <1>6, ProductMonotonic
  <2>2. T0 * (q * M1) <= T0 * (A * T1)
    BY <1>1, <1>4, <1>5, ProductMonotonic
  <2>3. /\ T1 * (q * M0) = q * (T1 * M0) /\ q * (T0 * M1) = T0 * (q * M1)
        /\ T0 * (A * T1) = T1 * (A * T0)
    BY <1>0, <1>1, <1>4, <1>5
  <2>4. q * (T1 * M0) \in Nat /\ T0 * (q * M1) \in Nat /\ T0 * (A * T1) \in Nat
    BY <1>0, <1>1, <1>4, <1>5
  <2> QED BY <2>1, <2>2, <2>3, <2>4
<1>8. q * M0 <= A * T0
  <2> DEFINE x == q * M0
             y == A * T0
  <2>1. x \in Nat /\ y \in Nat /\ T1 * x <= T1 * y
    BY <1>4, <1>5, <1>7
  <2> HIDE DEF x, y
  <2>2. SUFFICES ASSUME y + 1 <= x PROVE FALSE
    BY <2>1 DEF x, y
  <2>3. T1 * (y + 1) <= T1 * x
    BY <1>1, <2>1, <2>2, ProductMonotonic
  <2>4. T1 * (y + 1) = T1 * y + T1 /\ T1 * y \in Nat
    BY <1>1, <2>1
  <2> QED BY <1>1, <2>1, <2>3, <2>4
<1>9. q <= (A * T0) \div M0
  BY <1>4, <1>5, <1>8, Quotient
<1> QED BY <1>3, <1>5, <1>9 DEF q, M0, M1

\* A finite set of numbers has one list in ascending order, which InOrder is.
LEMMA InOrderAscends ==
  ASSUME NEW D, IsFiniteSet(D), D \in SUBSET Nat
  PROVE  /\ InOrder(D) \in [1 .. Cardinality(D) -> D]
         /\ \A i, j \in 1 .. Cardinality(D) : i < j => InOrder(D)[i] < InOrder(D)[j]
<1> DEFINE Listed(E, s) == /\ s \in [1 .. Cardinality(E) -> E]
                           /\ \A i, j \in 1 .. Cardinality(E) : i < j => s[i] < s[j]
           B == {E \in SUBSET D : ~ \E s : Listed(E, s)}
<1>1. ASSUME B # {} PROVE FALSE
  <2>0. \A E \in B : E \subseteq D
    OBVIOUS
  <2> HIDE DEF B
  <2>1. PICK E \in B : \A F \in B : F \subseteq E => F = E
    BY <1>1, <2>0, LeastSubset
  <2> USE DEF B
  <2>2. IsFiniteSet(E) /\ E \in SUBSET Nat /\ E \subseteq D /\ ~ \E s : Listed(E, s)
    BY <2>1, FS_Subset
  <2>3. E # {}
    <3>1. ASSUME E = {} PROVE FALSE
      <4>1. Cardinality(E) = 0
        BY <3>1, FS_EmptySet
      <4>2. Listed(E, <<>>)
        BY <3>1, <4>1
      <4> QED BY <2>2, <4>2
    <3> QED BY <3>1
  <2> DEFINE x == Max(E)
             n == Cardinality(E)
  <2>4. x \in E /\ \A m \in E : m <= x
    BY <2>2, <2>3, MaxNat
  <2> HIDE DEF x
  <2>5. n \in Nat /\ n # 0 /\ Cardinality(E \ {x}) = n - 1
    BY <2>2, <2>3, <2>4, FS_CardinalityType, FS_EmptySet, FS_RemoveElement
  <2>6. E \ {x} \in SUBSET D /\ E \ {x} # E /\ E \ {x} \subseteq E
    BY <2>2, <2>4
  <2>7. PICK s : Listed(E \ {x}, s)
    BY <2>1, <2>6
  <2> HIDE DEF n
  <2>8. s \in [1 .. n - 1 -> E \ {x}] /\ \A i, j \in 1 .. n - 1 : i < j => s[i] < s[j]
    BY <2>5, <2>7
  <2> DEFINE z == [i \in 1 .. n |-> IF i = n THEN x ELSE s[i]]
  <2>9. z \in [1 .. n -> E]
    BY <2>4, <2>5, <2>8
  <2>10. ASSUME NEW i \in 1 .. n, NEW j \in 1 .. n, i < j PROVE z[i] < z[j]
    <3>1. i \in 1 .. n - 1 /\ s[i] \in E \ {x} /\ z[i] = s[i]
      BY <2>5, <2>8, <2>10
    <3>2. CASE j = n
      <4>1. z[j] = x /\ s[i] \in Nat /\ x \in Nat
        BY <2>2, <2>4, <3>1, <3>2
      <4> QED BY <2>4, <3>1, <4>1
    <3>3. CASE j # n
      BY <2>5, <2>8, <2>10, <3>1, <3>3
    <3> QED BY <3>2, <3>3
  <2>11. Listed(E, z)
    BY <2>9, <2>10 DEF n
  <2> HIDE DEF z, B
  <2> QED BY <2>2, <2>11
<1>2. \E s : Listed(D, s)
  BY <1>1
<1>3. \E s \in [1 .. Cardinality(D) -> D] : \A i, j \in DOMAIN s : i < j => s[i] < s[j]
  BY <1>2
<1> QED BY <1>3 DEF InOrder

\* The number of postings in a block.
Size(t, b) == Len(blocks[t][b].docs)

\* What Init writes and nothing changes: blocks that are not empty, of documents in
\* ascending order through all of them, each with a maximum that bounds its postings.
SegmentType ==
  /\ len \in [Docs -> Nat \ {0}] /\ dead \subseteq Docs /\ k \in Nat \ {0}
  /\ stats \in [docs : Nat \ {0}, tokens : Nat \ {0}]
  /\ \A t \in Terms :
       /\ NBlocks(t) \in Nat
       /\ \A b \in 1 .. NBlocks(t) :
            /\ Size(t, b) \in Nat \ {0}
            /\ blocks[t][b].max \in Nat \ {0}
            /\ \A i \in 1 .. Size(t, b) : /\ blocks[t][b].docs[i] \in Docs
                                          /\ blocks[t][b].freqs[i] \in Nat \ {0}

Ascending ==
  \A t \in Terms : \A b, c \in 1 .. NBlocks(t) :
    \A i \in 1 .. Size(t, b), j \in 1 .. Size(t, c) :
      b < c \/ (b = c /\ i < j) => blocks[t][b].docs[i] < blocks[t][c].docs[j]

Bounded ==
  \A t \in Terms : \A b \in 1 .. NBlocks(t) : \A i \in 1 .. Size(t, b) :
    /\ Saturation(blocks[t][b].freqs[i], len[blocks[t][b].docs[i]], stats) \in Nat
    /\ NoLonger => Saturation(blocks[t][b].freqs[i], len[blocks[t][b].docs[i]], stats)
                     <= blocks[t][b].max

SegmentOK == SegmentType /\ Ascending /\ Bounded

\* The segment's own statistics are positive.
LEMMA OwnType ==
  ASSUME NEW lengths \in Lengths
  PROVE  /\ lengths \in [Docs -> Nat \ {0}]
         /\ Own(lengths) \in [docs : Nat \ {0}, tokens : Nat \ {0}]
         /\ IsFiniteSet(Docs) /\ Docs \subseteq Nat
<1>1. lengths \in [Docs -> Nat \ {0}]
  BY QueryType
<1>2. IsFiniteSet(Docs) /\ 0 \in Docs /\ Docs \subseteq Nat
  BY NDocsType, FS_Interval DEF Docs
<1>3. SumFunctionOnSet(lengths, Docs) \in Nat
  BY <1>1, <1>2, SumType
<1>4. lengths[0] <= SumFunctionOnSet(lengths, Docs)
  BY <1>1, <1>2, SumMember
<1>5. SumFunctionOnSet(lengths, Docs) \in Nat \ {0}
  <2>1. lengths[0] \in Nat \ {0}
    BY <1>1, <1>2
  <2> QED BY <1>3, <1>4, <2>1
<1> QED BY <1>1, <1>2, <1>5, NDocsType DEF Own

\* A block of ascending documents has their frequencies and bounds their saturation.
LEMMA BlockBounds ==
  ASSUME NEW lengths \in Lengths, NEW freq \in [Docs -> Freqs],
         NEW n \in Nat \ {0}, NEW docs \in [1 .. n -> {d \in Docs : freq[d] > 0}]
  PROVE  LET B == Block(docs, freq, lengths) IN
         /\ B.docs = docs
         /\ B.max \in Nat \ {0}
         /\ \A i \in 1 .. n :
              /\ B.freqs[i] = freq[docs[i]] /\ freq[docs[i]] \in Nat \ {0}
              /\ Saturation(freq[docs[i]], lengths[docs[i]], Own(lengths)) <= B.max
<1> DEFINE B == Block(docs, freq, lengths)
           w == [d \in ToSet(docs) |-> Saturation(freq[d], lengths[d], Own(lengths))]
           W == {w[d] : d \in ToSet(docs)}
<1>1. DOMAIN docs = 1 .. n /\ ToSet(docs) = {docs[i] : i \in 1 .. n}
  BY DEF ToSet
<1>2. \A d \in ToSet(docs) : d \in Docs /\ freq[d] \in Nat \ {0} /\ freq[d] \in Freqs
  BY <1>1, QueryType
<1>3. \A d \in ToSet(docs) : w[d] \in Nat \ {0}
  <2> TAKE d \in ToSet(docs)
  <2>1. Saturation(freq[d], lengths[d], Own(lengths)) > 0
    BY <1>2, ScaleIsFine
  <2>2. freq[d] \in Nat /\ lengths[d] \in Nat \ {0}
    BY <1>2, OwnType
  <2>3. Own(lengths) \in [docs : Nat \ {0}, tokens : Nat \ {0}]
    BY OwnType
  <2> DEFINE st == Own(lengths)
  <2> HIDE DEF st
  <2>4. st.tokens * st.docs <= st.tokens * st.docs /\ st \in [docs : Nat \ {0}, tokens : Nat \ {0}]
    BY <2>3 DEF st
  <2>5. Saturation(freq[d], lengths[d], st) \in Nat
    BY <2>2, <2>4, SaturationGrows
  <2>6. Saturation(freq[d], lengths[d], Own(lengths)) \in Nat
    BY <2>5 DEF st
  <2> QED BY <2>1, <2>6
<1>4. IsFiniteSet(ToSet(docs))
  <2>1. IsFiniteSet(1 .. n)
    BY FS_Interval
  <2>2. IsFiniteSet({docs[i] : i \in 1 .. n})
    BY <2>1, FiniteImage
  <2> QED BY <1>1, <2>2
<1> HIDE DEF w
<1>5. IsFiniteSet(W)
  BY <1>4, FiniteImage
<1>6. W # {} /\ W \in SUBSET Nat
  BY <1>1, <1>3
<1>7. Max(W) \in W /\ \A m \in W : m <= Max(W)
  BY <1>5, <1>6, MaxNat
<1>8. B.max = Max(W)
  BY DEF Block, w
<1>9. B.docs = docs /\ \A i \in 1 .. n : B.freqs[i] = freq[docs[i]]
  BY <1>1 DEF Block
<1>10. \A i \in 1 .. n : Saturation(freq[docs[i]], lengths[docs[i]], Own(lengths)) <= B.max
  <2> TAKE i \in 1 .. n
  <2>1. docs[i] \in ToSet(docs)
    BY <1>1
  <2>2. w[docs[i]] \in W
    BY <2>1
  <2>3. w[docs[i]] = Saturation(freq[docs[i]], lengths[docs[i]], Own(lengths))
    BY <2>1 DEF w
  <2> QED BY <1>7, <1>8, <2>2, <2>3
<1>11. \A i \in 1 .. n : freq[docs[i]] \in Nat \ {0}
  BY <1>1, <1>2
<1>12. B.max \in Nat \ {0}
  BY <1>3, <1>7, <1>8
<1> QED BY <1>9, <1>10, <1>11, <1>12

\* Block by block, a term's postings are its documents in ascending order.
LEMMA WrittenInOrder ==
  ASSUME NEW lengths \in Lengths, NEW freq \in [Docs -> Freqs]
  PROVE  LET W == Written(freq, lengths) IN
         /\ Len(W) \in Nat
         /\ \A b \in 1 .. Len(W) :
              /\ Len(W[b].docs) \in Nat \ {0}
              /\ W[b].max \in Nat \ {0}
              /\ \A i \in 1 .. Len(W[b].docs) :
                   /\ W[b].docs[i] \in Docs /\ W[b].freqs[i] \in Nat \ {0}
                   /\ Saturation(W[b].freqs[i], lengths[W[b].docs[i]], Own(lengths)) <= W[b].max
         /\ \A b, c \in 1 .. Len(W) : \A i \in 1 .. Len(W[b].docs), j \in 1 .. Len(W[c].docs) :
              b < c \/ (b = c /\ i < j) => W[b].docs[i] < W[c].docs[j]
<1> DEFINE D == {d \in Docs : freq[d] > 0}
           all == InOrder(D)
           n == Cardinality(D)
           m == (n + BlockSize - 1) \div BlockSize
           lo(b) == (b - 1) * BlockSize + 1
           hi(b) == Min({b * BlockSize, n})
           part(b) == SubSeq(all, lo(b), hi(b))
           W == Written(freq, lengths)
<1>1. IsFiniteSet(D) /\ D \in SUBSET Nat /\ D \subseteq Docs
  BY OwnType, FS_Subset
<1>2. n \in Nat
  BY <1>1, FS_CardinalityType
<1> HIDE DEF D
<1>3. all \in [1 .. n -> D] /\ \A i, j \in 1 .. n : i < j => all[i] < all[j]
  BY <1>1, InOrderAscends
<1>4. all \in Seq(D) /\ Len(all) = n
  BY <1>2, <1>3
<1> HIDE DEF all, n
<1>5. BlockSize \in Nat \ {0} /\ n + BlockSize - 1 \in Nat
  BY <1>2, NDocsType
<1>6. m \in Nat /\ m * BlockSize <= n + BlockSize - 1
  BY <1>5, Quotient
<1> HIDE DEF m
<1>7. ASSUME NEW b \in 1 .. m
      PROVE  /\ lo(b) \in Nat \ {0} /\ hi(b) \in Nat /\ lo(b) <= hi(b) /\ hi(b) <= n
             /\ hi(b) <= b * BlockSize
  <2>1. b * BlockSize \in Nat /\ b * BlockSize <= m * BlockSize
    BY <1>5, <1>6, ProductMonotonic
  <2>2. (b - 1) * BlockSize = b * BlockSize - BlockSize /\ (b - 1) * BlockSize \in Nat
    <3>1. b - 1 \in Nat
      OBVIOUS
    <3> QED BY <1>5, <3>1, ProductMonotonic
  <2> DEFINE e == b * BlockSize
  <2>3. e \in Nat /\ e <= n + BlockSize - 1 /\ lo(b) = e - BlockSize + 1 /\ e - BlockSize \in Nat
    BY <1>2, <1>5, <1>6, <2>1, <2>2
  <2>4. hi(b) \in {e, n} /\ hi(b) <= e /\ hi(b) <= n
    BY <1>2, <2>1, MinNat
  <2> HIDE DEF e
  <2>5. lo(b) \in Nat \ {0} /\ lo(b) <= e /\ lo(b) <= n
    BY <1>2, <1>5, <2>3
  <2>6. hi(b) \in Nat /\ lo(b) <= hi(b)
    BY <1>2, <2>3, <2>4, <2>5
  <2> QED BY <2>4, <2>5, <2>6 DEF e
<1>8. ASSUME NEW b \in 1 .. m, NEW c \in 1 .. m, b < c
      PROVE  hi(b) < lo(c)
  <2>1. b * BlockSize <= (c - 1) * BlockSize
    <3>1. c - 1 \in Nat /\ b <= c - 1 /\ b \in Nat
      BY <1>8
    <3> QED BY <1>5, <3>1, ProductMonotonic
  <2>2. b * BlockSize \in Int /\ (c - 1) * BlockSize \in Int
    BY <1>5
  <2> QED BY <1>7, <2>1, <2>2
<1> HIDE DEF lo, hi
<1>9. ASSUME NEW b \in 1 .. m
      PROVE  /\ Len(part(b)) = hi(b) - lo(b) + 1
             /\ part(b) \in [1 .. hi(b) - lo(b) + 1 -> D]
             /\ \A i \in 1 .. hi(b) - lo(b) + 1 : part(b)[i] = all[lo(b) + i - 1]
  <2>1. \A i \in lo(b) .. hi(b) : all[i] \in D
    BY <1>2, <1>3, <1>7
  <2>2. lo(b) \in Int /\ hi(b) \in Int
    BY <1>7
  <2> DEFINE x == lo(b)
             y == hi(b)
  <2> HIDE DEF x, y
  <2>3. x \in Int /\ y \in Int /\ \A i \in x .. y : all[i] \in D
    BY <2>1, <2>2 DEF x, y
  <2>4. /\ SubSeq(all, x, y) \in Seq(D)
        /\ Len(SubSeq(all, x, y)) = IF x <= y THEN y - x + 1 ELSE 0
        /\ \A i \in 1 .. y - x + 1 : SubSeq(all, x, y)[i] = all[x + i - 1]
    BY <2>3, SubSeqProperties
  <2>5. x <= y /\ part(b) = SubSeq(all, x, y)
    BY <1>7 DEF x, y
  <2> HIDE DEF part
  <2>6. /\ Len(part(b)) = y - x + 1 /\ part(b) \in Seq(D)
        /\ \A i \in 1 .. y - x + 1 : part(b)[i] = all[x + i - 1]
    BY <2>4, <2>5
  <2>7. part(b) \in [1 .. y - x + 1 -> D]
    BY <2>6
  <2> QED BY <2>6, <2>7 DEF x, y
<1>10. Len(W) = m /\ \A b \in 1 .. m : W[b] = Block(part(b), freq, lengths)
  <2>1. W = [b \in 1 .. m |-> Block(part(b), freq, lengths)]
    BY <1>4 DEF Written, D, all, n, m, lo, hi
  <2> QED BY <1>6, <2>1
<1> HIDE DEF part, W
<1>11. ASSUME NEW b \in 1 .. m
       PROVE  /\ W[b].docs = part(b) /\ W[b].max \in Nat \ {0}
              /\ \A i \in 1 .. Len(W[b].docs) :
                   /\ W[b].docs[i] \in Docs /\ W[b].freqs[i] \in Nat \ {0}
                   /\ Saturation(W[b].freqs[i], lengths[W[b].docs[i]], Own(lengths)) <= W[b].max
  <2> DEFINE s == hi(b) - lo(b) + 1
             docs == part(b)
  <2>1. s \in Nat \ {0} /\ docs \in [1 .. s -> {d \in Docs : freq[d] > 0}] /\ Len(docs) = s
    BY <1>7, <1>9 DEF D
  <2> HIDE DEF s, docs
  <2>2. LET B == Block(docs, freq, lengths) IN
         /\ B.docs = docs
         /\ B.max \in Nat \ {0}
         /\ \A i \in 1 .. s :
              /\ B.freqs[i] = freq[docs[i]] /\ freq[docs[i]] \in Nat \ {0}
              /\ Saturation(freq[docs[i]], lengths[docs[i]], Own(lengths)) <= B.max
    BY <2>1, BlockBounds
  <2>3. W[b] = Block(docs, freq, lengths)
    BY <1>10 DEF docs
  <2>4. W[b].docs = docs /\ W[b].max \in Nat \ {0}
    BY <2>2, <2>3
  <2>5. ASSUME NEW i \in 1 .. s
        PROVE  /\ W[b].docs[i] \in Docs /\ W[b].freqs[i] \in Nat \ {0}
               /\ Saturation(W[b].freqs[i], lengths[W[b].docs[i]], Own(lengths)) <= W[b].max
    <3>1. docs[i] \in Docs
      BY <2>1
    <3> QED BY <2>2, <2>3, <3>1
  <2> QED BY <2>1, <2>4, <2>5 DEF docs
<1>12. ASSUME NEW b \in 1 .. m, NEW c \in 1 .. m,
              NEW i \in 1 .. Len(W[b].docs), NEW j \in 1 .. Len(W[c].docs),
              b < c \/ (b = c /\ i < j)
       PROVE  W[b].docs[i] < W[c].docs[j]
  <2> DEFINE x == lo(b) + i - 1
             y == lo(c) + j - 1
  <2>a. Len(W[b].docs) = hi(b) - lo(b) + 1 /\ Len(W[c].docs) = hi(c) - lo(c) + 1
    BY <1>9, <1>11
  <2>3. /\ lo(b) \in Nat \ {0} /\ hi(b) \in Nat /\ hi(b) <= n
        /\ lo(c) \in Nat \ {0} /\ hi(c) \in Nat /\ hi(c) <= n
    BY <1>7
  <2>2. i \in Nat \ {0} /\ i <= hi(b) - lo(b) + 1 /\ j \in Nat \ {0} /\ j <= hi(c) - lo(c) + 1
    BY <2>a, <2>3
  <2>1. W[b].docs[i] = all[x] /\ W[c].docs[j] = all[y]
    BY <1>9, <1>11, <2>2, <2>3
  <2>4. x \in 1 .. n /\ y \in 1 .. n
    <3>1. \A u, v, h, w \in Nat : u # 0 /\ v # 0 /\ v <= h - u + 1 /\ h <= w => u + v - 1 \in 1 .. w
      OBVIOUS
    <3> QED BY <1>2, <2>2, <2>3, <3>1
  <2>5. x < y
    <3>1. CASE b < c
      <4>1. hi(b) < lo(c)
        BY <1>8, <3>1
      <4> QED BY <2>2, <2>3, <4>1
    <3>2. CASE b = c /\ i < j
      BY <2>2, <2>3, <3>2
    <3> QED BY <1>12, <3>1, <3>2
  <2> QED BY <1>3, <2>1, <2>4, <2>5
<1>13. \A b \in 1 .. m : Len(W[b].docs) \in Nat \ {0}
  BY <1>7, <1>9, <1>11
<1> QED BY <1>6, <1>10, <1>11, <1>12, <1>13 DEF W

\* What PostingsWriter wrote is such a segment, for any statistics of the index.
LEMMA InitSegment == Init => SegmentOK
<1> SUFFICES ASSUME Init PROVE SegmentOK
  OBVIOUS
<1>1. len \in Lengths /\ dead \in Tombstones /\ k \in Ks
  BY DEF Init
<1>2. PICK freq \in [Terms -> [Docs -> Freqs]] : blocks = [t \in Terms |-> Written(freq[t], len)]
  BY Zenon DEF Init
<1>3. len \in [Docs -> Nat \ {0}] /\ Own(len) \in [docs : Nat \ {0}, tokens : Nat \ {0}]
  BY <1>1, OwnType
<1>4. stats \in [docs : Nat \ {0}, tokens : Nat \ {0}]
  <2>1. CASE stats = Own(len)
    BY <1>3, <2>1
  <2>2. ASSUME NEW e \in Elsewhere, stats = MergedWith(Own(len), e) PROVE stats \in [docs : Nat \ {0}, tokens : Nat \ {0}]
    <3>1. e \in [docs : Nat \ {0}, tokens : Nat \ {0}]
      BY QueryType
    <3> QED BY <1>3, <2>2, <3>1 DEF MergedWith
  <2> QED BY <2>1, <2>2 DEF Init
<1>5. ASSUME NEW t \in Terms
      PROVE  LET W == blocks[t] IN
             /\ Len(W) \in Nat
             /\ \A b \in 1 .. Len(W) :
                  /\ Len(W[b].docs) \in Nat \ {0}
                  /\ W[b].max \in Nat \ {0}
                  /\ \A i \in 1 .. Len(W[b].docs) :
                       /\ W[b].docs[i] \in Docs /\ W[b].freqs[i] \in Nat \ {0}
                       /\ Saturation(W[b].freqs[i], len[W[b].docs[i]], Own(len)) <= W[b].max
             /\ \A b, c \in 1 .. Len(W) : \A i \in 1 .. Len(W[b].docs), j \in 1 .. Len(W[c].docs) :
                  b < c \/ (b = c /\ i < j) => W[b].docs[i] < W[c].docs[j]
  <2>1. freq[t] \in [Docs -> Freqs] /\ blocks[t] = Written(freq[t], len)
    BY <1>2
  <2> HIDE DEF Written
  <2> QED BY <1>1, <2>1, WrittenInOrder
<1>6. SegmentType
  <2>1. dead \subseteq Docs /\ k \in Nat \ {0}
    BY <1>1, QueryType
  <2> QED BY <1>3, <1>4, <1>5, <2>1 DEF SegmentType, NBlocks, Size
<1>7. Ascending
  BY <1>5 DEF Ascending, NBlocks, Size
<1>8. Bounded
  <2> SUFFICES ASSUME NEW t \in Terms, NEW b \in 1 .. NBlocks(t), NEW i \in 1 .. Size(t, b)
               PROVE  LET s(st) == Saturation(blocks[t][b].freqs[i], len[blocks[t][b].docs[i]], st)
                      IN  s(stats) \in Nat /\ (NoLonger => s(stats) <= blocks[t][b].max)
    BY DEF Bounded
  <2> DEFINE f == blocks[t][b].freqs[i]
             n == len[blocks[t][b].docs[i]]
             own == Own(len)
  <2>1. f \in Nat /\ n \in Nat \ {0} /\ Saturation(f, n, own) <= blocks[t][b].max /\ blocks[t][b].max \in Nat
    BY <1>3, <1>5 DEF NBlocks, Size
  <2>2. own \in [docs : Nat \ {0}, tokens : Nat \ {0}] /\ own.docs = NDocs
    BY <1>3 DEF Own
  <2>a. NoLonger => stats.tokens * own.docs <= own.tokens * stats.docs
    BY <2>2 DEF NoLonger
  <2> HIDE DEF f, n, own
  <2>3. Saturation(f, n, stats) \in Nat /\ Saturation(f, n, own) \in Nat
    <3>1. stats.tokens * stats.docs <= stats.tokens * stats.docs /\ own.tokens * own.docs <= own.tokens * own.docs
      BY <1>4, <2>2
    <3> QED BY <1>4, <2>1, <2>2, <3>1, SaturationGrows
  <2>4. NoLonger => Saturation(f, n, stats) <= Saturation(f, n, own)
    BY <1>4, <2>1, <2>2, <2>a, SaturationGrows
  <2>5. Saturation(f, n, stats) \in Nat /\ (NoLonger => Saturation(f, n, stats) <= blocks[t][b].max)
    BY <2>1, <2>3, <2>4
  <2> QED BY <2>5 DEF f, n
<1> QED BY <1>6, <1>7, <1>8 DEF SegmentOK

-----------------------------------------------------------------------------
(* The cursors.                                                            *)

\* A term's postings have a document.
Has(t, d) == \E b \in 1 .. NBlocks(t) : \E i \in 1 .. Size(t, b) : blocks[t][b].docs[i] = d

\* A place in a term's postings, or behind the last.
Cursor(t, c) ==
  /\ c \in [block : Nat \ {0}, i : Nat \ {0}]
  /\ c.block <= NBlocks(t) + 1
  /\ c.block <= NBlocks(t) => c.i <= Size(t, c.block)

\* All cursors are on such places.
CursorsOK == \A t \in Terms : Cursor(t, at[t])

\* A cursor c of a term stands on the first posting that its cursor so far has not
\* gone past and that is not below the target.
Sweeps(t, c, target) ==
  /\ Cursor(t, c)
  /\ \A d : Has(t, d) => (d < DocOf(t, c) <=> d < Doc(t) \/ d < target)

\* What a term has is a document.
LEMMA HasType ==
  ASSUME SegmentOK, NEW t \in Terms, NEW d, Has(t, d)
  PROVE  d \in Docs /\ d \in Nat /\ d < NDocs
<1>1. d \in Docs
  BY DEF Has, SegmentOK, SegmentType
<1> QED BY <1>1, NDocsType DEF Docs

\* A cursor is on one of the term's documents, or past them all.
LEMMA DocOfType ==
  ASSUME SegmentOK, NEW t \in Terms, NEW c, Cursor(t, c)
  PROVE  /\ DocOf(t, c) \in Nat /\ DocOf(t, c) <= NDocs
         /\ Spent(t, c) <=> DocOf(t, c) = NDocs
         /\ ~Spent(t, c) => Has(t, DocOf(t, c))
<1>0. NDocs \in Nat
  BY NDocsType
<1>1. CASE Spent(t, c)
  BY <1>0, <1>1 DEF DocOf, NoMore
<1>2. CASE ~Spent(t, c)
  <2>1. c.block \in 1 .. NBlocks(t) /\ c.i \in 1 .. Size(t, c.block)
    BY <1>2 DEF Spent, Cursor, SegmentOK, SegmentType
  <2>2. DocOf(t, c) = blocks[t][c.block].docs[c.i]
    BY <1>2 DEF DocOf
  <2>3. Has(t, DocOf(t, c))
    BY <2>1, <2>2 DEF Has
  <2> QED BY <1>0, <1>2, <2>3, HasType
<1> QED BY <1>1, <1>2

\* To keep the place is to sweep to what is not ahead of it.
LEMMA StaySweeps ==
  ASSUME SegmentOK, NEW t \in Terms, Cursor(t, at[t]), NEW target \in Nat,
         target <= Doc(t) \/ Doc(t) = NDocs
  PROVE  Sweeps(t, at[t], target)
<1>1. Doc(t) \in Nat
  BY DocOfType DEF Doc
<1>2. ASSUME NEW d, Has(t, d) PROVE d < DocOf(t, at[t]) <=> d < Doc(t) \/ d < target
  <2>1. d \in Nat /\ d < NDocs
    BY <1>2, HasType
  <2> QED BY <1>1, <2>1 DEF Doc
<1> QED BY <1>2 DEF Sweeps

\* The next posting is the first behind this one.
LEMMA NextDocSweeps ==
  ASSUME SegmentOK, NEW t \in Terms, Cursor(t, at[t]), Doc(t) # NDocs
  PROVE  Sweeps(t, NextDoc(t), Doc(t) + 1)
<1> DEFINE b == at[t].block
           i == at[t].i
           n == NextDoc(t)
           x == blocks[t][b].docs[i]
<1>1. /\ b \in 1 .. NBlocks(t) /\ i \in 1 .. Size(t, b) /\ Doc(t) = x
      /\ NBlocks(t) \in Nat /\ Size(t, b) \in Nat \ {0} /\ x \in Nat
  <2>1. ~Spent(t, at[t])
    BY DocOfType DEF Doc
  <2>2. b \in 1 .. NBlocks(t) /\ i \in 1 .. Size(t, b)
    BY <2>1 DEF Spent, Cursor, SegmentOK, SegmentType
  <2>3. Doc(t) = x
    BY <2>1 DEF Doc, DocOf
  <2> QED BY <2>2, <2>3, DocOfType DEF Doc, SegmentOK, SegmentType
<1>2. n = IF i < Size(t, b) THEN [block |-> b, i |-> i + 1] ELSE [block |-> b + 1, i |-> 1]
  <2>1. at[t] = [block |-> b, i |-> i]
    BY DEF Cursor
  <2>2. [at[t] EXCEPT !.i = @ + 1] = [block |-> b, i |-> i + 1]
    BY <2>1
  <2> QED BY <2>2 DEF NextDoc, Size
<1> HIDE DEF n
<1>3. Cursor(t, n)
  <2>1. \A c \in 1 .. NBlocks(t) : Size(t, c) \in Nat \ {0}
    BY DEF SegmentOK, SegmentType
  <2> QED BY <1>1, <1>2, <2>1 DEF Cursor
<1>4. ASSUME NEW d, Has(t, d) PROVE d < DocOf(t, n) <=> d <= x
  <2>1. PICK c \in 1 .. NBlocks(t) : \E j \in 1 .. Size(t, c) : blocks[t][c].docs[j] = d
    BY <1>4 DEF Has
  <2>2. PICK j \in 1 .. Size(t, c) : blocks[t][c].docs[j] = d
    BY <2>1
  <2>3. /\ c < b \/ (c = b /\ j < i) => d < x
        /\ b < c \/ (b = c /\ i < j) => x < d
    BY <1>1, <2>2 DEF SegmentOK, Ascending
  <2>4. d \in Nat /\ d < NDocs /\ j \in Nat /\ c \in Nat /\ j <= Size(t, c) /\ Size(t, c) \in Nat
    BY <1>4, HasType DEF SegmentOK, SegmentType
  <2>5. CASE Spent(t, n)
    <3>1. DocOf(t, n) = NDocs
      BY <2>5 DEF DocOf, NoMore
    <3>2. n.block = b + 1 /\ ~(b + 1 <= NBlocks(t)) /\ ~(i < Size(t, b))
      BY <1>1, <1>2, <2>5 DEF Spent
    <3>3. c < b \/ (c = b /\ j <= i)
      BY <1>1, <2>4, <3>2
    <3>4. d <= x
      BY <1>1, <2>2, <2>3, <2>4, <3>3
    <3> QED BY <2>4, <3>1, <3>4
  <2>6. CASE ~Spent(t, n)
    <3> DEFINE y == blocks[t][n.block].docs[n.i]
    <3>1. /\ n.block \in 1 .. NBlocks(t) /\ n.i \in 1 .. Size(t, n.block)
          /\ DocOf(t, n) = y
      BY <1>3, <2>6 DEF Spent, Cursor, DocOf, SegmentOK, SegmentType
    <3>2. /\ c < n.block \/ (c = n.block /\ j < n.i) => d < y
          /\ n.block < c \/ (n.block = c /\ n.i < j) => y < d
      BY <2>2, <3>1 DEF SegmentOK, Ascending
    <3>a. c = n.block /\ j = n.i => d = y
      BY <2>2
    <3>b. y \in Nat
      BY <1>3, <3>1, DocOfType
    <3> HIDE DEF y
    <3>3. c < b \/ (c = b /\ j <= i) <=> c < n.block \/ (c = n.block /\ j < n.i)
      BY <1>1, <1>2, <2>4, <3>1
    <3>4. d <= x <=> c < b \/ (c = b /\ j <= i)
      BY <1>1, <2>2, <2>3, <2>4
    <3>5. d < y <=> c < n.block \/ (c = n.block /\ j < n.i)
      BY <2>4, <3>1, <3>2, <3>a, <3>b
    <3> QED BY <3>1, <3>3, <3>4, <3>5
  <2> QED BY <2>5, <2>6
<1>5. ASSUME NEW d, Has(t, d) PROVE d < DocOf(t, n) <=> d < Doc(t) \/ d < Doc(t) + 1
  <2>1. d \in Nat
    BY <1>5, HasType
  <2> QED BY <1>1, <1>4, <1>5, <2>1
<1>6. Sweeps(t, n, Doc(t) + 1)
  BY <1>3, <1>5 DEF Sweeps
<1> QED BY <1>6 DEF n

\* A block's last document is its greatest.
LEMMA LastDocIs ==
  ASSUME SegmentOK, NEW t \in Terms, NEW b \in 1 .. NBlocks(t)
  PROVE  /\ LastDoc(t, b) \in Nat /\ LastDoc(t, b) < NDocs
         /\ Size(t, b) \in Nat \ {0} /\ LastDoc(t, b) = blocks[t][b].docs[Size(t, b)]
         /\ \A c \in 1 .. NBlocks(t) : \A j \in 1 .. Size(t, c) :
              /\ c <= b => blocks[t][c].docs[j] <= LastDoc(t, b)
              /\ b < c => LastDoc(t, b) < blocks[t][c].docs[j]
<1>1. Size(t, b) \in Nat \ {0} /\ LastDoc(t, b) = blocks[t][b].docs[Size(t, b)]
  BY DEF LastDoc, Last, Size, SegmentOK, SegmentType
<1>2. Has(t, LastDoc(t, b))
  BY <1>1 DEF Has
<1>3. LastDoc(t, b) \in Nat /\ LastDoc(t, b) < NDocs
  BY <1>2, HasType
<1>4. ASSUME NEW c \in 1 .. NBlocks(t), NEW j \in 1 .. Size(t, c)
      PROVE  /\ c <= b => blocks[t][c].docs[j] <= LastDoc(t, b)
             /\ b < c => LastDoc(t, b) < blocks[t][c].docs[j]
  <2>1. Size(t, b) \in 1 .. Size(t, b)
    BY <1>1
  <2>2. /\ c < b \/ (c = b /\ j < Size(t, b)) => blocks[t][c].docs[j] < LastDoc(t, b)
        /\ b < c => LastDoc(t, b) < blocks[t][c].docs[j]
    BY <1>1, <2>1 DEF SegmentOK, Ascending
  <2>3. blocks[t][c].docs[j] \in Nat
    <3>1. Has(t, blocks[t][c].docs[j])
      BY DEF Has
    <3> QED BY <3>1, HasType
  <2>4. j \in Nat /\ c \in Nat /\ b \in Nat /\ (c = b => j <= Size(t, b))
    BY <1>1
  <2>5. CASE c = b /\ j = Size(t, b)
    BY <1>1, <1>3, <2>5
  <2>6. CASE c < b \/ (c = b /\ j < Size(t, b))
    BY <1>3, <2>2, <2>3, <2>4, <2>6
  <2>7. CASE b < c
    BY <1>3, <2>2, <2>3, <2>4, <2>7
  <2> QED BY <1>1, <2>4, <2>5, <2>6, <2>7
<1> QED BY <1>1, <1>3, <1>4

\* The block that contains the target: the blocks before it end below the target.
LEMMA BlockContainingIs ==
  ASSUME SegmentOK, NEW t \in Terms, Cursor(t, at[t]), Doc(t) # NDocs, NEW target \in Nat
  PROVE  LET b == BlockContaining(t, target) IN
         /\ b \in Nat /\ at[t].block <= b /\ b <= NBlocks(t) + 1
         /\ b <= NBlocks(t) => LastDoc(t, b) >= target
         /\ \A c \in 1 .. NBlocks(t) : at[t].block <= c /\ c < b => LastDoc(t, c) < target
<1> DEFINE S == {b \in at[t].block .. NBlocks(t) : LastDoc(t, b) >= target}
<1>1. /\ at[t].block \in Nat \ {0} /\ NBlocks(t) \in Nat /\ at[t].block <= NBlocks(t)
  <2>1. ~Spent(t, at[t])
    BY DocOfType DEF Doc
  <2> QED BY <2>1 DEF Spent, Cursor, SegmentOK, SegmentType
<1>2. S \cup {NBlocks(t) + 1} \in SUBSET Nat
  BY <1>1
<1> DEFINE b == Min(S \cup {NBlocks(t) + 1})
<1>3. b \in S \cup {NBlocks(t) + 1} /\ \A m \in S \cup {NBlocks(t) + 1} : b <= m
  BY <1>2, MinNat
<1> HIDE DEF b
<1>4. b \in Nat /\ at[t].block <= b /\ b <= NBlocks(t) + 1 /\ (b <= NBlocks(t) => LastDoc(t, b) >= target)
  BY <1>1, <1>3
<1>5. ASSUME NEW c \in 1 .. NBlocks(t), at[t].block <= c, c < b PROVE LastDoc(t, c) < target
  <2>1. c \notin S
    BY <1>1, <1>3, <1>4, <1>5
  <2>2. ~(LastDoc(t, c) >= target)
    BY <1>1, <1>5, <2>1
  <2>3. LastDoc(t, c) \in Nat
    BY LastDocIs
  <2> QED BY <2>2, <2>3
<1> QED BY <1>4, <1>5 DEF b, BlockContaining

\* Advance() stops at the first posting at or behind the target, and goes past none.
LEMMA AdvanceSweeps ==
  ASSUME SegmentOK, NEW t \in Terms, Cursor(t, at[t]), NEW target \in Nat
  PROVE  Sweeps(t, Advance(t, target), target)
<1>0. Doc(t) \in Nat /\ Doc(t) <= NDocs
  BY DocOfType DEF Doc
<1>1. CASE Doc(t) >= target
  <2>1. Advance(t, target) = at[t]
    BY <1>1 DEF Advance
  <2> QED BY <1>0, <1>1, <2>1, StaySweeps
<1>2. CASE Doc(t) < target /\ Doc(t) = NDocs
  <2>1. Spent(t, at[t]) /\ NBlocks(t) \in Nat
    BY <1>2, DocOfType DEF Doc, SegmentOK, SegmentType
  <2>2. at[t].block = NBlocks(t) + 1
    BY <2>1 DEF Spent, Cursor
  <2> DEFINE S == {b \in at[t].block .. NBlocks(t) : LastDoc(t, b) >= target}
  <2>3. S = {}
    BY <2>1, <2>2
  <2>4. BlockContaining(t, target) = NBlocks(t) + 1
    <3>1. {NBlocks(t) + 1} \in SUBSET Nat
      BY <2>1
    <3>2. Min({NBlocks(t) + 1}) = NBlocks(t) + 1
      BY <3>1, MinNat
    <3>3. BlockContaining(t, target) = Min(S \cup {NBlocks(t) + 1})
      BY DEF BlockContaining
    <3> HIDE DEF S
    <3>4. S \cup {NBlocks(t) + 1} = {NBlocks(t) + 1}
      BY <2>3
    <3> QED BY <3>2, <3>3, <3>4
  <2>5. Advance(t, target) = [block |-> NBlocks(t) + 1, i |-> 1]
    BY <1>0, <1>2, <2>1, <2>4 DEF Advance
  <2>6. Cursor(t, Advance(t, target)) /\ Spent(t, Advance(t, target))
    BY <2>1, <2>5 DEF Cursor, Spent
  <2>7. DocOf(t, Advance(t, target)) = NDocs
    BY <2>6 DEF DocOf, NoMore
  <2>8. \A d : Has(t, d) => d < NDocs
    BY HasType
  <2> QED BY <1>2, <2>6, <2>7, <2>8 DEF Sweeps
<1>3. CASE Doc(t) < target /\ Doc(t) # NDocs
  <2> DEFINE c == at[t]
             b == BlockContaining(t, target)
             n == Advance(t, target)
             x == blocks[t][c.block].docs[c.i]
  <2>1. /\ b \in Nat /\ c.block <= b /\ b <= NBlocks(t) + 1
        /\ b <= NBlocks(t) => LastDoc(t, b) >= target
        /\ \A e \in 1 .. NBlocks(t) : c.block <= e /\ e < b => LastDoc(t, e) < target
    BY <1>3, BlockContainingIs
  <2>2. /\ c.block \in 1 .. NBlocks(t) /\ c.i \in 1 .. Size(t, c.block) /\ NBlocks(t) \in Nat
        /\ Doc(t) = x
    <3>1. ~Spent(t, c)
      BY <1>3, DocOfType DEF Doc
    <3> QED BY <3>1 DEF Spent, Cursor, Doc, DocOf, SegmentOK, SegmentType
  <2>3. ASSUME NEW e \in 1 .. NBlocks(t), NEW j \in 1 .. Size(t, e)
        PROVE  LET d == blocks[t][e].docs[j] IN
               /\ d \in Nat /\ d < NDocs
               /\ e < b => d < Doc(t) \/ d < target
               /\ e = b /\ b = c.block /\ j < c.i => d < Doc(t)
    <3> DEFINE d == blocks[t][e].docs[j]
    <3>1. Has(t, d)
      BY DEF Has
    <3>2. d \in Nat /\ d < NDocs
      BY <3>1, HasType
    <3>3. e < c.block \/ (e = c.block /\ j < c.i) => d < Doc(t)
      BY <2>2 DEF SegmentOK, Ascending
    <3>4. e < b /\ c.block <= e => d < target
      <4> HAVE e < b /\ c.block <= e
      <4>1. LastDoc(t, e) < target
        BY <2>1
      <4>2. d <= LastDoc(t, e) /\ LastDoc(t, e) \in Nat
        BY LastDocIs
      <4> QED BY <3>2, <4>1, <4>2
    <3> QED BY <2>1, <2>2, <3>2, <3>3, <3>4
  <2>4. CASE b > NBlocks(t)
    <3>1. n = [block |-> b, i |-> 1]
      BY <1>0, <1>3, <2>4 DEF Advance
    <3>2. Cursor(t, n) /\ Spent(t, n)
      BY <2>1, <2>2, <2>4, <3>1 DEF Cursor, Spent
    <3>3. DocOf(t, n) = NDocs
      BY <3>2 DEF DocOf, NoMore
    <3>4. ASSUME NEW d, Has(t, d) PROVE d < NDocs /\ (d < Doc(t) \/ d < target)
      <4>1. PICK e \in 1 .. NBlocks(t) : \E j \in 1 .. Size(t, e) : blocks[t][e].docs[j] = d
        BY <3>4 DEF Has
      <4>2. PICK j \in 1 .. Size(t, e) : blocks[t][e].docs[j] = d
        BY <4>1
      <4>3. e < b
        BY <2>1, <2>2, <2>4
      <4> QED BY <2>3, <4>2, <4>3
    <3> HIDE DEF n
    <3>5. Sweeps(t, n, target)
      BY <3>2, <3>3, <3>4 DEF Sweeps
    <3> QED BY <3>5 DEF n
  <2>5. CASE b <= NBlocks(t)
    <3> DEFINE from == IF b = c.block THEN c.i ELSE 1
               S == {i \in from .. Size(t, b) : blocks[t][b].docs[i] >= target}
               m == Min(S)
    <3>1. b \in 1 .. NBlocks(t) /\ Size(t, b) \in Nat \ {0} /\ from \in 1 .. Size(t, b)
      <4>1. b \in 1 .. NBlocks(t)
        BY <2>1, <2>2, <2>5
      <4> QED BY <2>2, <4>1, LastDocIs
    <3>2. blocks[t][b].docs[Size(t, b)] >= target
      BY <2>1, <2>5, <3>1, LastDocIs
    <3>3. S # {} /\ S \in SUBSET Nat
      BY <3>1, <3>2
    <3>4. m \in S /\ \A i \in S : m <= i
      BY <3>3, MinNat
    <3>5. n = [block |-> b, i |-> m]
      <4>1. ~(Doc(t) >= target) /\ ~(b > NBlocks(t))
        BY <1>0, <1>3, <2>1, <2>2, <2>5
      <4> QED BY Zenon, <4>1 DEF Advance, Size
    <3> HIDE DEF n, m
    <3>6. m \in 1 .. Size(t, b) /\ from <= m /\ blocks[t][b].docs[m] >= target
      BY <3>1, <3>4
    <3>7. Cursor(t, n) /\ ~Spent(t, n) /\ DocOf(t, n) = blocks[t][b].docs[m]
      BY <2>1, <2>2, <3>1, <3>5, <3>6 DEF Cursor, Spent, DocOf
    <3>8. ASSUME NEW d, Has(t, d) PROVE d < DocOf(t, n) <=> d < Doc(t) \/ d < target
      <4>1. PICK e \in 1 .. NBlocks(t) : \E j \in 1 .. Size(t, e) : blocks[t][e].docs[j] = d
        BY <3>8 DEF Has
      <4>2. PICK j \in 1 .. Size(t, e) : blocks[t][e].docs[j] = d
        BY <4>1
      <4> DEFINE y == blocks[t][b].docs[m]
      <4>3. /\ d \in Nat
            /\ e < b => d < Doc(t) \/ d < target
            /\ e = b /\ b = c.block /\ j < c.i => d < Doc(t)
        BY <2>3, <4>2
      <4>4. /\ e < b \/ (e = b /\ j < m) => d < y
            /\ b < e \/ (b = e /\ m < j) => y < d
        BY <3>1, <3>6, <4>2 DEF SegmentOK, Ascending
      <4>5. y \in Nat /\ y >= target
        BY <3>1, <3>6, <2>3
      <4>6. e = b /\ from <= j /\ j < m => d < target
        <5> HAVE e = b /\ from <= j /\ j < m
        <5>1. j \notin S
          BY <3>1, <3>4, <3>6
        <5> QED BY <3>1, <4>2, <4>3, <5>1
      <4>7. e = b /\ j < from => d < Doc(t)
        <5> HAVE e = b /\ j < from
        <5>1. b = c.block /\ j < c.i
          BY <3>1
        <5> QED BY <4>3, <5>1
      <4>8. e = b /\ j = m => d = y
        BY <4>2
      <4>9. j \in Nat /\ e \in Nat
        OBVIOUS
      <4> HIDE DEF y, from, S
      <4>10. d < y <=> e < b \/ (e = b /\ j < m)
        BY <2>1, <3>1, <3>6, <4>3, <4>4, <4>5, <4>8, <4>9
      <4>11. e < b \/ (e = b /\ j < m) => d < Doc(t) \/ d < target
        BY <3>1, <4>3, <4>6, <4>7, <4>9
      <4>12. d < Doc(t) \/ d < target => d < y
        BY <1>0, <1>3, <4>3, <4>5
      <4> QED BY <3>7, <4>10, <4>11, <4>12 DEF y
    <3>9. Sweeps(t, n, target)
      BY <3>7, <3>8 DEF Sweeps
    <3> QED BY <3>9 DEF n
  <2> QED BY <2>1, <2>2, <2>4, <2>5
<1> QED BY <1>0, <1>1, <1>2, <1>3, NDocsType

-----------------------------------------------------------------------------
(* The scores and what bounds them.                                        *)

\* A term has one posting of each of its documents.
LEMMA PostingsAre ==
  ASSUME SegmentOK, NEW t \in Terms
  PROVE  /\ IsFiniteSet(Postings(t))
         /\ \A p \in Postings(t) : \E b \in 1 .. NBlocks(t) : \E i \in 1 .. Size(t, b) :
              p = <<blocks[t][b].docs[i], blocks[t][b].freqs[i]>>
         /\ \A b \in 1 .. NBlocks(t) : \A i \in 1 .. Size(t, b) :
              <<blocks[t][b].docs[i], blocks[t][b].freqs[i]>> \in Postings(t)
         /\ \A p, r \in Postings(t) : p[1] = r[1] => p = r
         /\ \A d : Has(t, d) <=> \E p \in Postings(t) : p[1] = d
<1>1. \A p \in Postings(t) : \E b \in 1 .. NBlocks(t) : \E i \in 1 .. Size(t, b) :
        p = <<blocks[t][b].docs[i], blocks[t][b].freqs[i]>>
  BY DEF Postings, Size
<1>2. \A b \in 1 .. NBlocks(t) : \A i \in 1 .. Size(t, b) :
        <<blocks[t][b].docs[i], blocks[t][b].freqs[i]>> \in Postings(t)
  BY DEF Postings, Size
<1>3. ASSUME NEW p \in Postings(t), NEW r \in Postings(t), p[1] = r[1] PROVE p = r
  <2>1. PICK b \in 1 .. NBlocks(t) : \E i \in 1 .. Size(t, b) :
          p = <<blocks[t][b].docs[i], blocks[t][b].freqs[i]>>
    BY <1>1
  <2>2. PICK i \in 1 .. Size(t, b) : p = <<blocks[t][b].docs[i], blocks[t][b].freqs[i]>>
    BY <2>1
  <2>3. PICK c \in 1 .. NBlocks(t) : \E j \in 1 .. Size(t, c) :
          r = <<blocks[t][c].docs[j], blocks[t][c].freqs[j]>>
    BY <1>1
  <2>4. PICK j \in 1 .. Size(t, c) : r = <<blocks[t][c].docs[j], blocks[t][c].freqs[j]>>
    BY <2>3
  <2>5. blocks[t][b].docs[i] = blocks[t][c].docs[j]
    BY <1>3, <2>2, <2>4
  <2>6. /\ b < c \/ (b = c /\ i < j) => blocks[t][b].docs[i] < blocks[t][c].docs[j]
        /\ c < b \/ (c = b /\ j < i) => blocks[t][c].docs[j] < blocks[t][b].docs[i]
    BY DEF SegmentOK, Ascending
  <2>7. Has(t, blocks[t][b].docs[i])
    BY DEF Has
  <2>8. blocks[t][b].docs[i] \in Nat
    BY <2>7, HasType
  <2>9. b = c /\ i = j
    <3>1. b \in Nat /\ c \in Nat /\ i \in Nat /\ j \in Nat
      OBVIOUS
    <3> QED BY <2>5, <2>6, <2>8, <3>1
  <2> QED BY <2>2, <2>4, <2>9
<1>4. ASSUME NEW d PROVE Has(t, d) <=> \E p \in Postings(t) : p[1] = d
  <2>1. ASSUME NEW p \in Postings(t), p[1] = d PROVE Has(t, d)
    <3>1. PICK b \in 1 .. NBlocks(t) : \E i \in 1 .. Size(t, b) :
            p = <<blocks[t][b].docs[i], blocks[t][b].freqs[i]>>
      BY <1>1
    <3> QED BY <2>1, <3>1 DEF Has
  <2>2. ASSUME Has(t, d) PROVE \E p \in Postings(t) : p[1] = d
    <3>1. PICK b \in 1 .. NBlocks(t) : \E i \in 1 .. Size(t, b) : blocks[t][b].docs[i] = d
      BY <2>2 DEF Has
    <3>2. PICK i \in 1 .. Size(t, b) : blocks[t][b].docs[i] = d
      BY <3>1
    <3> DEFINE p == <<blocks[t][b].docs[i], blocks[t][b].freqs[i]>>
    <3>3. p \in Postings(t) /\ p[1] = d
      BY <1>2, <3>2
    <3> QED BY <3>3
  <2> QED BY <2>1, <2>2
<1>5. IsFiniteSet(Postings(t))
  <2> DEFINE f == [p \in Postings(t) |-> p[1]]
  <2>1. \A p \in Postings(t) : p[1] \in Docs
    BY <1>4, HasType
  <2>2. f \in Injection(Postings(t), Docs)
    BY <1>3, <2>1 DEF Injection, IsInjective
  <2>3. IsFiniteSet(Docs)
    BY NDocsType, FS_Interval DEF Docs
  <2> QED BY <2>2, <2>3, FS_Injection
<1> QED BY <1>1, <1>2, <1>3, <1>4, <1>5

\* The score of a term in a document is that of its posting there.
LEMMA TermScoreAt ==
  ASSUME SegmentOK, NEW t \in Terms, NEW b \in 1 .. NBlocks(t), NEW i \in 1 .. Size(t, b)
  PROVE  LET d == blocks[t][b].docs[i]
             s == Saturation(blocks[t][b].freqs[i], len[d], stats)
         IN  TermScore(t, d) = Idf[t] * s /\ s \in Nat /\ TermScore(t, d) \in Nat
<1> DEFINE d == blocks[t][b].docs[i]
           p == <<d, blocks[t][b].freqs[i]>>
           f == [r \in Postings(t) |-> Idf[t] * Saturation(r[2], len[d], stats)]
<1>1. p \in Postings(t) /\ p[1] = d
  BY PostingsAre
<1>2. {r \in Postings(t) : r[1] = d} = {p}
  BY <1>1, PostingsAre
<1>3. Saturation(blocks[t][b].freqs[i], len[d], stats) \in Nat
  BY DEF SegmentOK, Bounded
<1>4. f[p] = Idf[t] * Saturation(blocks[t][b].freqs[i], len[d], stats)
  BY <1>1
<1>5. f[p] \in Nat
  <2>1. Idf[t] \in Nat
    BY TermsFinite
  <2> DEFINE s == Saturation(blocks[t][b].freqs[i], len[d], stats)
  <2>2. f[p] = Idf[t] * s /\ s \in Nat
    BY <1>3, <1>4
  <2> HIDE DEF f, s, p
  <2> QED BY <2>1, <2>2, ProductMonotonic
<1>6. TermScore(t, d) = SumFunctionOnSet(f, {p})
  <2>1. TermScore(t, d) = SumFunctionOnSet(f, {r \in Postings(t) : r[1] = d})
    BY DEF TermScore
  <2> HIDE DEF f
  <2> QED BY <1>2, <2>1
<1> HIDE DEF f
<1>7. SumFunctionOnSet(f, {p}) = f[p]
  BY <1>5, SumOne
<1> QED BY <1>3, <1>4, <1>5, <1>6, <1>7

\* Where a term has no posting it scores nothing.
LEMMA TermScoreZero ==
  ASSUME SegmentOK, NEW t \in Terms, NEW d, ~Has(t, d)
  PROVE  TermScore(t, d) = 0
<1>1. {p \in Postings(t) : p[1] = d} = {}
  BY PostingsAre
<1> QED BY <1>1, SumUnfolds, FS_EmptySet DEF TermScore

\* A term's score is a natural number in any document.
LEMMA TermScoreType ==
  ASSUME SegmentOK, NEW t \in Terms, NEW d
  PROVE  TermScore(t, d) \in Nat
<1>1. CASE Has(t, d)
  <2>1. PICK b \in 1 .. NBlocks(t) : \E i \in 1 .. Size(t, b) : blocks[t][b].docs[i] = d
    BY <1>1 DEF Has
  <2>2. PICK i \in 1 .. Size(t, b) : blocks[t][b].docs[i] = d
    BY <2>1
  <2> QED BY <2>2, TermScoreAt
<1>2. CASE ~Has(t, d)
  BY <1>2, TermScoreZero
<1> QED BY <1>1, <1>2

\* MaxScore bounds what a term scores, and is none for a term without postings only.
LEMMA MaxScoreBounds ==
  ASSUME SegmentOK, NEW t \in Terms
  PROVE  /\ MaxScore[t] \in Nat
         /\ \A d : Has(t, d) => MaxScore[t] > 0
         /\ \A d : NoLonger => TermScore(t, d) <= MaxScore[t]
<1> DEFINE M == {blocks[t][b].max : b \in 1 .. NBlocks(t)}
           top == Max(M \cup {0})
<1>1. NBlocks(t) \in Nat /\ \A b \in 1 .. NBlocks(t) : blocks[t][b].max \in Nat \ {0}
  BY DEF SegmentOK, SegmentType
<1>2. IsFiniteSet(M \cup {0}) /\ M \cup {0} # {} /\ M \cup {0} \in SUBSET Nat
  <2> DEFINE f == [b \in 1 .. NBlocks(t) |-> blocks[t][b].max]
  <2>1. IsFiniteSet(1 .. NBlocks(t))
    BY <1>1, FS_Interval
  <2>2. M = {f[b] : b \in 1 .. NBlocks(t)}
    OBVIOUS
  <2> HIDE DEF f
  <2>3. IsFiniteSet({f[b] : b \in 1 .. NBlocks(t)})
    BY <2>1, FiniteImage
  <2>4. IsFiniteSet(M)
    BY <2>2, <2>3
  <2> QED BY <1>1, <2>4, FS_AddElement
<1>3. top \in Nat /\ \A m \in M : m <= top
  BY <1>2, MaxNat
<1>4. MaxScore[t] = Idf[t] * top
  BY DEF MaxScore
<1> HIDE DEF top
<1>5. Idf[t] \in Nat \ {0}
  BY TermsFinite
<1>6. MaxScore[t] \in Nat
  BY <1>3, <1>4, <1>5, ProductMonotonic
<1>7. ASSUME NEW d, Has(t, d)
      PROVE  MaxScore[t] > 0 /\ (NoLonger => TermScore(t, d) <= MaxScore[t])
  <2>1. PICK b \in 1 .. NBlocks(t) : \E i \in 1 .. Size(t, b) : blocks[t][b].docs[i] = d
    BY <1>7 DEF Has
  <2>2. PICK i \in 1 .. Size(t, b) : blocks[t][b].docs[i] = d
    BY <2>1
  <2>3. blocks[t][b].max \in Nat \ {0} /\ blocks[t][b].max <= top
    BY <1>1, <1>3
  <2>4. top \in Nat \ {0}
    BY <1>3, <2>3
  <2>5. MaxScore[t] > 0
    BY <1>4, <1>5, <2>4, ProductPositive
  <2> DEFINE s == Saturation(blocks[t][b].freqs[i], len[d], stats)
  <2>6. TermScore(t, d) = Idf[t] * s /\ s \in Nat
    BY <2>2, TermScoreAt
  <2>7. NoLonger => s <= blocks[t][b].max
    BY <2>2 DEF SegmentOK, Bounded
  <2> HIDE DEF s
  <2>8. NoLonger => s <= top
    BY <1>3, <2>3, <2>6, <2>7
  <2> QED BY <1>3, <1>4, <1>5, <2>5, <2>6, <2>8, ProductMonotonic
<1>8. \A d : ~Has(t, d) => TermScore(t, d) <= MaxScore[t]
  BY <1>6, TermScoreZero
<1> QED BY <1>6, <1>7, <1>8

\* The maximum of the block that contains a document bounds what a term scores in
\* every document ahead of its cursor up to the end of that block.
LEMMA BlockMaxBounds ==
  ASSUME SegmentOK, NEW t \in Terms, Cursor(t, at[t]), Doc(t) # NDocs, NEW target \in Nat
  PROVE  /\ BlockMaxAt(t, target) \in Nat /\ Idf[t] * BlockMaxAt(t, target) \in Nat
         /\ BlockLastAt(t, target) \in Nat
         /\ target <= BlockLastAt(t, target) \/ BlockLastAt(t, target) = NDocs
         /\ \A d : Has(t, d) /\ Doc(t) <= d /\ target <= d /\ d <= BlockLastAt(t, target) =>
              /\ Idf[t] * BlockMaxAt(t, target) > 0
              /\ NoLonger => TermScore(t, d) <= Idf[t] * BlockMaxAt(t, target)
<1> DEFINE b == BlockContaining(t, target)
<1>1. /\ b \in Nat /\ at[t].block <= b /\ b <= NBlocks(t) + 1
      /\ b <= NBlocks(t) => LastDoc(t, b) >= target
      /\ \A c \in 1 .. NBlocks(t) : at[t].block <= c /\ c < b => LastDoc(t, c) < target
  BY BlockContainingIs
<1>2. /\ NBlocks(t) \in Nat /\ at[t].block \in 1 .. NBlocks(t) /\ at[t].i \in 1 .. Size(t, at[t].block)
      /\ Doc(t) = blocks[t][at[t].block].docs[at[t].i]
  <2>1. ~Spent(t, at[t])
    BY DocOfType DEF Doc
  <2> QED BY <2>1 DEF Spent, Cursor, Doc, DocOf, SegmentOK, SegmentType
<1>3. Idf[t] \in Nat \ {0} /\ NDocs \in Nat
  BY TermsFinite, NDocsType
<1>a. ASSUME NEW d, Has(t, d), Doc(t) <= d, target <= d
      PROVE  \E c \in 1 .. NBlocks(t) : \E i \in 1 .. Size(t, c) :
               blocks[t][c].docs[i] = d /\ b <= c /\ d \in Nat
  <2>1. PICK c \in 1 .. NBlocks(t) : \E i \in 1 .. Size(t, c) : blocks[t][c].docs[i] = d
    BY <1>a DEF Has
  <2>2. PICK i \in 1 .. Size(t, c) : blocks[t][c].docs[i] = d
    BY <2>1
  <2>3. d \in Nat /\ Doc(t) \in Nat
    BY <1>a, HasType, DocOfType DEF Doc
  <2>4. c < at[t].block => d < Doc(t)
    BY <1>2, <2>2 DEF SegmentOK, Ascending
  <2>5. at[t].block <= c
    BY <1>2, <1>a, <2>3, <2>4
  <2>6. d <= LastDoc(t, c) /\ LastDoc(t, c) \in Nat
    <3>1. c <= c
      OBVIOUS
    <3> QED BY <2>2, <3>1, LastDocIs
  <2>7. ~(c < b)
    BY <1>1, <1>a, <2>3, <2>5, <2>6
  <2> QED BY <1>1, <2>2, <2>3, <2>7
<1>4. CASE b > NBlocks(t)
  <2>1. BlockMaxAt(t, target) = 0 /\ BlockLastAt(t, target) = NDocs
    BY <1>4 DEF BlockMaxAt, BlockLastAt, NoMore
  <2>2. \A d : ~(Has(t, d) /\ Doc(t) <= d /\ target <= d)
    BY <1>1, <1>2, <1>4, <1>a
  <2>3. Idf[t] * 0 \in Nat
    BY <1>3
  <2> QED BY <1>3, <2>1, <2>2, <2>3
<1>5. CASE b <= NBlocks(t)
  <2>1. BlockMaxAt(t, target) = blocks[t][b].max /\ BlockLastAt(t, target) = LastDoc(t, b)
    BY <1>1, <1>2, <1>5 DEF BlockMaxAt, BlockLastAt
  <2>2. b \in 1 .. NBlocks(t)
    BY <1>1, <1>2, <1>5
  <2>3. blocks[t][b].max \in Nat \ {0} /\ LastDoc(t, b) \in Nat /\ target <= LastDoc(t, b)
    BY <1>1, <1>5, <2>2, LastDocIs DEF SegmentOK, SegmentType
  <2>4. Idf[t] * blocks[t][b].max \in Nat \ {0}
    BY <1>3, <2>3, ProductPositive
  <2>5. ASSUME NEW d, Has(t, d), Doc(t) <= d, target <= d, d <= LastDoc(t, b), NoLonger
        PROVE  TermScore(t, d) <= Idf[t] * blocks[t][b].max
    <3>1. PICK c \in 1 .. NBlocks(t) : \E i \in 1 .. Size(t, c) :
               blocks[t][c].docs[i] = d /\ b <= c /\ d \in Nat
      BY <1>a, <2>5
    <3>2. PICK i \in 1 .. Size(t, c) : blocks[t][c].docs[i] = d /\ b <= c /\ d \in Nat
      BY <3>1
    <3>3. b < c => LastDoc(t, b) < d
      BY <2>2, <3>2, LastDocIs
    <3>4. c = b
      BY <2>2, <2>3, <2>5, <3>2, <3>3
    <3> DEFINE s == Saturation(blocks[t][b].freqs[i], len[d], stats)
    <3>5. TermScore(t, d) = Idf[t] * s /\ s \in Nat
      BY <3>2, <3>4, TermScoreAt
    <3>6. s <= blocks[t][b].max
      BY <2>5, <3>2, <3>4 DEF SegmentOK, Bounded
    <3> HIDE DEF s
    <3> QED BY <1>3, <2>3, <3>5, <3>6, ProductMonotonic
  <2> HIDE DEF b
  <2> QED BY <2>1, <2>3, <2>4, <2>5
<1> QED BY <1>1, <1>2, <1>4, <1>5

-----------------------------------------------------------------------------
(* What the scan of the terms and the block maxima rule out.               *)

\* All cursors have gone past a document.
Passed(d) == \A t \in Terms : d < Doc(t)

\* A document of one term that its cursor has gone past, all have: this is why the
\* cursors that are on the pivot when it is scored are those of all its terms.
Abreast == \A t \in Terms : \A d \in Docs : Has(t, d) /\ d < Doc(t) => Passed(d)

\* A document is a match if a term has it and it is not deleted.
LEMMA MatchingIs ==
  ASSUME SegmentOK
  PROVE  /\ \A d : d \in Matching <=> d \notin dead /\ \E t \in Terms : Has(t, d)
         /\ Matching \subseteq Docs /\ IsFiniteSet(Matching)
<1>1. ASSUME NEW d PROVE d \in Matching <=> d \notin dead /\ \E t \in Terms : Has(t, d)
  <2>1. d \in Matching <=> d \notin dead /\ \E t \in Terms : \E p \in Postings(t) : p[1] = d
    BY DEF Matching
  <2> QED BY <2>1, PostingsAre
<1>2. Matching \subseteq Docs
  BY <1>1, HasType
<1>3. IsFiniteSet(Docs)
  BY NDocsType, FS_Interval DEF Docs
<1> QED BY <1>1, <1>2, <1>3, FS_Subset

\* A document's score is the sum over the terms that have it.
LEMMA TotalOver ==
  ASSUME SegmentOK, NEW d, NEW S \in SUBSET Terms, \A t \in Terms : Has(t, d) => t \in S
  PROVE  /\ Total(d) = SumFunctionOnSet([t \in Terms |-> TermScore(t, d)], S)
         /\ Total(d) \in Nat
<1> DEFINE f == [t \in Terms |-> TermScore(t, d)]
<1>1. \A t \in Terms : f[t] \in Nat /\ (t \notin S => f[t] = 0)
  BY TermScoreType, TermScoreZero
<1>2. Total(d) = SumFunctionOnSet(f, Terms)
  BY DEF Total
<1> HIDE DEF f
<1>3. SumFunctionOnSet(f, Terms) = SumFunctionOnSet(f, S) /\ SumFunctionOnSet(f, Terms) \in Nat
  BY <1>1, TermsFinite, SumWithoutZeros, SumType
<1> QED BY <1>2, <1>3 DEF f

\* So is the sum of them.
LEMMA TotalType ==
  ASSUME SegmentOK, NEW d
  PROVE  Total(d) \in Nat
BY TotalOver

\* A term is active while its cursor is on a document.
LEMMA ActiveIs ==
  ASSUME SegmentOK, CursorsOK
  PROVE  /\ Active \subseteq Terms /\ IsFiniteSet(Active)
         /\ \A t \in Terms : /\ Doc(t) \in Nat /\ Doc(t) <= NDocs
                             /\ t \in Active <=> Doc(t) # NDocs
                             /\ t \in Active => Has(t, Doc(t)) /\ Doc(t) < NDocs
<1>1. Active \subseteq Terms
  BY DEF Active
<1>2. ASSUME NEW t \in Terms
      PROVE  /\ Doc(t) \in Nat /\ Doc(t) <= NDocs /\ (t \in Active <=> Doc(t) # NDocs)
             /\ t \in Active => Has(t, Doc(t)) /\ Doc(t) < NDocs
  <2>1. Cursor(t, at[t])
    BY DEF CursorsOK
  <2>2. /\ Doc(t) \in Nat /\ Doc(t) <= NDocs /\ (Spent(t, at[t]) <=> Doc(t) = NDocs)
        /\ ~Spent(t, at[t]) => Has(t, Doc(t))
    BY <2>1, DocOfType DEF Doc
  <2> QED BY <2>2, NDocsType DEF Active, NoMore
<1> QED BY <1>1, <1>2, TermsFinite, FS_Subset

\* The pivot is the least document that is one, and a term is on it.
LEMMA PivotIs ==
  ASSUME SegmentOK, CursorsOK, Pivots # {}
  PROVE  /\ Pivot \in Nat /\ Pivot < NDocs
         /\ \A x \in Pivots : Pivot <= x
         /\ \E t \in Prefix : Doc(t) = Pivot
         /\ Prefix \subseteq Active
         /\ \A t \in Active : t \in Prefix <=> Doc(t) <= Pivot
<1>1. Pivots \in SUBSET Nat
  BY ActiveIs DEF Pivots
<1>2. Pivot \in Pivots /\ \A x \in Pivots : Pivot <= x
  BY <1>1, MinNat DEF Pivot
<1>3. PICK t \in Active : Doc(t) = Pivot
  BY <1>2 DEF Pivots
<1>4. Doc(t) \in Nat /\ Doc(t) < NDocs
  BY ActiveIs
<1>5. Prefix \subseteq Active /\ \A u \in Active : u \in Prefix <=> Doc(u) <= Pivot
  BY DEF Prefix, UpTo
<1>6. t \in Prefix
  BY <1>3, <1>4, <1>5
<1> QED BY <1>2, <1>3, <1>4, <1>5, <1>6

\* The cursors of the terms that have a document not gone past are not behind it.
LEMMA StillAhead ==
  ASSUME SegmentOK, CursorsOK, Abreast, NEW d, ~Passed(d), NEW t \in Terms, Has(t, d)
  PROVE  /\ d \in Nat /\ d < NDocs /\ d \in Docs
         /\ Doc(t) \in Nat /\ Doc(t) <= d /\ t \in Active
<1>1. d \in Nat /\ d < NDocs /\ d \in Docs
  BY HasType
<1>2. Doc(t) \in Nat /\ (t \in Active <=> Doc(t) # NDocs)
  BY ActiveIs
<1>3. ~(d < Doc(t))
  BY <1>1 DEF Abreast
<1> QED BY <1>1, <1>2, <1>3, NDocsType

\* A document below the pivot, or any when there is no pivot, scores at most the
\* maxima of the terms up to it, and these do not beat theta.
LEMMA BelowPivot ==
  ASSUME SegmentOK, CursorsOK, Abreast, theta \in Nat,
         NEW d, ~Passed(d), NEW v \in Terms, Has(v, d),
         Pivots = {} \/ d < Pivot
  PROVE  theta > 0 /\ (NoLonger => Total(d) <= theta)
<1> DEFINE U == {t \in Active : Doc(t) <= d}
           X == {Doc(t) : t \in U}
           x == Max(X)
           f == [t \in Terms |-> TermScore(t, d)]
<1>1. d \in Nat /\ v \in U /\ U \subseteq Terms /\ IsFiniteSet(U)
  BY StillAhead, ActiveIs, FS_Subset
<1>2. IsFiniteSet(X)
  <2> DEFINE g == [t \in U |-> Doc(t)]
  <2>1. X = {g[t] : t \in U}
    OBVIOUS
  <2> HIDE DEF g, U
  <2>2. IsFiniteSet({g[t] : t \in U})
    BY <1>1, FiniteImage
  <2> QED BY <2>1, <2>2
<1>3. X \in SUBSET Nat /\ X # {}
  BY <1>1, ActiveIs
<1> HIDE DEF X
<1>4. x \in X /\ \A m \in X : m <= x
  BY <1>2, <1>3, MaxNat
<1> HIDE DEF x
<1>5. PICK w \in U : x = Doc(w)
  BY <1>4 DEF X
<1>6. x \in Nat /\ x <= d /\ x \in {Doc(t) : t \in Active}
  BY <1>1, <1>3, <1>4, <1>5
<1>7. UpTo(x) = U
  <2>1. ASSUME NEW t \in Active PROVE Doc(t) <= x <=> Doc(t) <= d
    <3>1. Doc(t) \in Nat
      BY ActiveIs
    <3>2. Doc(t) <= d => Doc(t) \in X
      BY DEF X
    <3> QED BY <1>1, <1>4, <1>6, <3>1, <3>2
  <2> QED BY <2>1 DEF UpTo
<1>8. x \notin Pivots
  BY <1>1, <1>6, PivotIs
<1>9. ~(SumFunctionOnSet(MaxScore, UpTo(x)) > theta)
  BY <1>6, <1>8 DEF Pivots
<1> HIDE DEF U
<1>a. \A t \in U : MaxScore[t] \in Nat
  BY <1>1, MaxScoreBounds
<1>10. SumFunctionOnSet(MaxScore, U) \in Nat /\ SumFunctionOnSet(MaxScore, U) <= theta
  <2>1. SumFunctionOnSet(MaxScore, U) \in Nat
    BY <1>1, <1>a, SumType
  <2> QED BY <1>7, <1>9, <2>1
<1>11. theta > 0
  <2>1. MaxScore[v] > 0 /\ MaxScore[v] \in Nat
    BY <1>1, MaxScoreBounds
  <2>2. MaxScore[v] <= SumFunctionOnSet(MaxScore, U)
    BY <1>1, <1>a, SumMember
  <2> QED BY <1>10, <2>1, <2>2
<1>12. ASSUME NoLonger PROVE Total(d) <= theta
  <2>1. \A t \in Terms : Has(t, d) => t \in U
    BY StillAhead DEF U
  <2>2. Total(d) = SumFunctionOnSet(f, U) /\ Total(d) \in Nat
    BY <1>1, <2>1, TotalOver
  <2>3. \A t \in U : f[t] \in Nat /\ MaxScore[t] \in Nat /\ f[t] <= MaxScore[t]
    BY <1>1, <1>12, MaxScoreBounds, TermScoreType
  <2> HIDE DEF f
  <2>4. SumFunctionOnSet(f, U) <= SumFunctionOnSet(MaxScore, U)
    BY <1>1, <2>3, SumMonotonic
  <2> QED BY <1>10, <2>2, <2>4
<1> QED BY <1>11, <1>12

\* The jump ends behind the pivot, not behind the first block end at or after the
\* pivot, and not behind a term that is outside the prefix.
LEMMA SkipTargetIs ==
  ASSUME SegmentOK, CursorsOK, Pivots # {}
  PROVE  /\ SkipTarget \in Nat /\ Pivot < SkipTarget
         /\ \A t \in Active : t \notin Prefix => SkipTarget <= Doc(t)
         /\ \A t \in Prefix : \A d \in Nat :
              d < NDocs /\ Pivot <= d /\ d < SkipTarget => d <= BlockLastAt(t, Pivot)
<1> DEFINE ends == {BlockLastAt(t, Pivot) : t \in Prefix}
           outside == {Doc(t) - 1 : t \in Active \ Prefix}
           m == Min(ends \cup outside)
<1>1. Pivot \in Nat /\ Prefix # {} /\ Prefix \subseteq Active /\ \A t \in Active : t \in Prefix <=> Doc(t) <= Pivot
  BY PivotIs
<1>2. ASSUME NEW t \in Prefix
      PROVE  /\ BlockLastAt(t, Pivot) \in Nat
             /\ Pivot <= BlockLastAt(t, Pivot) \/ BlockLastAt(t, Pivot) = NDocs
  <2>1. t \in Terms /\ Cursor(t, at[t]) /\ Doc(t) # NDocs
    BY <1>1, ActiveIs DEF CursorsOK
  <2>2. PICK g : g = Pivot
    OBVIOUS
  <2>3. g \in Nat
    BY <1>1, <2>2
  <2> QED BY <2>1, <2>2, <2>3, BlockMaxBounds
<1>3. \A t \in Active \ Prefix : Doc(t) \in Nat /\ Pivot < Doc(t) /\ Doc(t) - 1 \in Nat
  BY <1>1, ActiveIs
<1>4. ends \cup outside \in SUBSET Nat /\ ends \cup outside # {}
  BY <1>1, <1>2, <1>3
<1>5. m \in Nat /\ \A e \in ends \cup outside : m <= e
  BY <1>4, MinNat
<1>6. SkipTarget = Max({m + 1, Pivot + 1})
  BY DEF SkipTarget
<1> HIDE DEF m
<1>7. SkipTarget \in {m + 1, Pivot + 1} /\ m + 1 <= SkipTarget /\ Pivot + 1 <= SkipTarget
  <2> DEFINE a == m + 1
             c == Pivot + 1
  <2>1. a \in Nat /\ c \in Nat
    BY <1>1, <1>5
  <2> HIDE DEF a, c
  <2>2. IsFiniteSet({a, c})
    <3>1. IsFiniteSet({a}) /\ {a} \cup {c} = {a, c}
      BY FS_Singleton
    <3> QED BY <3>1, FS_AddElement
  <2>3. Max({a, c}) \in {a, c} /\ a <= Max({a, c}) /\ c <= Max({a, c})
    BY <2>1, <2>2, MaxNat
  <2> QED BY <1>6, <2>3 DEF a, c
<1>8. ASSUME NEW t \in Active, t \notin Prefix PROVE SkipTarget <= Doc(t)
  <2>1. Doc(t) - 1 \in outside
    BY <1>8
  <2>2. m <= Doc(t) - 1
    BY <1>5, <2>1
  <2> QED BY <1>1, <1>3, <1>5, <1>7, <1>8, <2>2
<1>9. ASSUME NEW t \in Prefix, NEW d \in Nat, d < NDocs, Pivot <= d, d < SkipTarget
      PROVE  d <= BlockLastAt(t, Pivot)
  <2>1. BlockLastAt(t, Pivot) \in ends
    OBVIOUS
  <2>2. m <= BlockLastAt(t, Pivot)
    BY <1>5, <2>1
  <2>3. d = Pivot \/ d <= m
    BY <1>1, <1>5, <1>7, <1>9
  <2> QED BY <1>1, <1>2, <1>5, <1>9, <2>2, <2>3, NDocsType
<1> QED BY <1>1, <1>5, <1>7, <1>8, <1>9

\* A document the jump goes past scores at most the block maxima of the prefix.
LEMMA WithinBlocks ==
  ASSUME SegmentOK, CursorsOK, Abreast, theta \in Nat, Pivots # {}, BlockSum <= theta,
         NEW d, ~Passed(d), NEW v \in Terms, Has(v, d),
         Pivot <= d, d < SkipTarget
  PROVE  theta > 0 /\ (NoLonger => Total(d) <= theta)
<1> DEFINE f == [t \in Terms |-> TermScore(t, d)]
           g == [t \in Terms |-> Idf[t] * BlockMaxAt(t, Pivot)]
<1>1. /\ Pivot \in Nat /\ Prefix \subseteq Active /\ Active \subseteq Terms /\ IsFiniteSet(Prefix)
      /\ \A t \in Active : t \in Prefix <=> Doc(t) <= Pivot
  BY PivotIs, ActiveIs, FS_Subset
<1>2. d \in Nat /\ d < NDocs
  BY StillAhead
<1>3. ASSUME NEW t \in Terms, Has(t, d) PROVE t \in Prefix /\ Doc(t) <= d
  <2>1. t \in Active /\ Doc(t) <= d /\ Doc(t) \in Nat
    BY <1>3, StillAhead
  <2>2. t \notin Prefix => SkipTarget <= Doc(t) /\ SkipTarget \in Nat
    BY <2>1, SkipTargetIs
  <2> QED BY <1>2, <2>1, <2>2
<1>4. ASSUME NEW t \in Prefix
      PROVE  /\ g[t] \in Nat /\ (Has(t, d) => g[t] > 0)
             /\ f[t] \in Nat /\ (NoLonger => f[t] <= g[t])
  <2>1. t \in Terms /\ Cursor(t, at[t]) /\ Doc(t) # NDocs
    BY <1>1, ActiveIs DEF CursorsOK
  <2>2. d <= BlockLastAt(t, Pivot)
    BY <1>2, SkipTargetIs
  <2>3. PICK p : p = Pivot
    OBVIOUS
  <2>4. p \in Nat
    BY <1>1, <2>3
  <2>5. /\ Idf[t] * BlockMaxAt(t, p) \in Nat
        /\ Has(t, d) /\ Doc(t) <= d /\ p <= d /\ d <= BlockLastAt(t, p) =>
             Idf[t] * BlockMaxAt(t, p) > 0 /\ (NoLonger => TermScore(t, d) <= Idf[t] * BlockMaxAt(t, p))
    BY <2>1, <2>4, BlockMaxBounds
  <2>6. g[t] = Idf[t] * BlockMaxAt(t, p) /\ f[t] = TermScore(t, d)
    BY <2>1, <2>3
  <2>7. f[t] \in Nat /\ (~Has(t, d) => f[t] = 0)
    BY <2>1, <2>6, TermScoreType, TermScoreZero
  <2> HIDE DEF f, g
  <2> QED BY <1>3, <2>1, <2>2, <2>3, <2>5, <2>6, <2>7
<1>5. BlockSum = SumFunctionOnSet(g, Prefix)
  BY DEF BlockSum
<1>6. Total(d) = SumFunctionOnSet(f, Prefix) /\ Total(d) \in Nat
  BY <1>1, <1>3, TotalOver
<1> HIDE DEF f, g
<1>7. SumFunctionOnSet(g, Prefix) \in Nat
  BY <1>1, <1>4, SumType
<1>8. theta > 0
  <2>1. v \in Prefix
    BY <1>3
  <2>2. g[v] <= SumFunctionOnSet(g, Prefix) /\ g[v] > 0 /\ g[v] \in Nat
    BY <1>1, <1>4, <2>1, SumMember
  <2> QED BY <1>5, <1>7, <2>2
<1>9. ASSUME NoLonger PROVE Total(d) <= theta
  <2>1. SumFunctionOnSet(f, Prefix) <= SumFunctionOnSet(g, Prefix)
    BY <1>1, <1>4, <1>9, SumMonotonic
  <2> QED BY <1>5, <1>6, <1>7, <2>1
<1> QED BY <1>8, <1>9

-----------------------------------------------------------------------------
(* One turn of the loop.                                                   *)

\* Nothing writes the segment, so what only depends on it stays.
LEMMA SegmentStays ==
  ASSUME UNCHANGED segVars
  PROVE  /\ SegmentOK => SegmentOK'
         /\ NoLonger' = NoLonger /\ k' = k /\ Matching' = Matching
         /\ \A t, d : Has(t, d)' = Has(t, d)
         /\ \A t : Postings(t)' = Postings(t)
         /\ \A d : Total(d)' = Total(d)
         /\ \A t, c : Cursor(t, c)' = Cursor(t, c)
         /\ \A t : Doc(t)' = DocOf(t, at'[t])
<1>1. blocks' = blocks /\ len' = len /\ dead' = dead /\ stats' = stats /\ k' = k
  BY DEF segVars
<1>2. \A t : Postings(t)' = Postings(t)
  BY <1>1 DEF Postings, NBlocks
<1>3. Matching' = Matching
  BY <1>1, <1>2 DEF Matching
<1>4. NoLonger' = NoLonger
  BY <1>1 DEF NoLonger
<1>5. \A t, d : Has(t, d)' = Has(t, d)
  BY <1>1 DEF Has, NBlocks, Size
<1>6. \A t, c : Cursor(t, c)' = Cursor(t, c)
  BY <1>1 DEF Cursor, NBlocks, Size
<1>7. \A t : Doc(t)' = DocOf(t, at'[t])
  BY <1>1 DEF Doc, DocOf, Spent, NBlocks
<1>8. \A d : Total(d)' = Total(d)
  BY <1>1, <1>2 DEF Total, TermScore
<1>9. SegmentOK => SegmentOK'
  <2>1. SegmentType => SegmentType'
    BY <1>1 DEF SegmentType, NBlocks, Size
  <2>2. Ascending => Ascending'
    <3>1. \A t, b : NBlocks(t)' = NBlocks(t) /\ Size(t, b)' = Size(t, b)
      BY <1>1 DEF NBlocks, Size
    <3>2. \A t, b, i : blocks'[t][b].docs[i] = blocks[t][b].docs[i]
      BY <1>1
    <3> QED BY <3>1, <3>2 DEF Ascending
  <2>3. Bounded => Bounded'
    BY <1>1, <1>4 DEF Bounded, NBlocks, Size
  <2> QED BY <2>1, <2>2, <2>3 DEF SegmentOK
<1> QED BY <1>1, <1>2, <1>3, <1>4, <1>5, <1>6, <1>7, <1>8, <1>9

\* When every cursor sweeps to the same place, what is newly gone past is what lies
\* below that place, no cursor goes back, and the cursors stay abreast.
LEMMA SweepStep ==
  ASSUME SegmentOK, CursorsOK, Abreast, UNCHANGED segVars, NEW g \in Nat,
         \A t \in Terms : Sweeps(t, at'[t], g)
  PROVE  /\ CursorsOK' /\ Abreast'
         /\ \A t \in Terms : /\ Doc(t) \in Nat /\ Doc(t)' \in Nat /\ Doc(t) <= Doc(t)'
                             /\ g <= Doc(t)' \/ Doc(t)' = NDocs
         /\ \A d \in Docs : Passed(d) => Passed(d)'
         /\ \A d \in Docs : \A t \in Terms : Has(t, d) => (Passed(d)' <=> Passed(d) \/ d < g)
<1>1. ASSUME NEW t \in Terms
      PROVE  /\ Cursor(t, at[t])' /\ Doc(t) \in Nat /\ Doc(t)' \in Nat /\ Doc(t) <= Doc(t)'
             /\ g <= Doc(t)' \/ Doc(t)' = NDocs
             /\ \A d : Has(t, d) => (d < Doc(t)' <=> d < Doc(t) \/ d < g)
  <2>1. Doc(t)' = DocOf(t, at'[t])
    BY SegmentStays
  <2>2. Cursor(t, at'[t]) /\ \A d : Has(t, d) => (d < Doc(t)' <=> d < Doc(t) \/ d < g)
    BY <2>1 DEF Sweeps
  <2>a. PICK c : c = at'[t]
    OBVIOUS
  <2>b. Cursor(t, c) /\ Doc(t)' = DocOf(t, c)
    BY <2>1, <2>2, <2>a
  <2>3. /\ Doc(t)' \in Nat /\ Doc(t)' <= NDocs
        /\ Doc(t)' # NDocs => Has(t, Doc(t)')
    BY <2>b, DocOfType
  <2>4. Doc(t) \in Nat /\ Doc(t) <= NDocs
    BY ActiveIs
  <2>5. Doc(t)' # NDocs => Doc(t) <= Doc(t)' /\ g <= Doc(t)'
    BY <2>2, <2>3, <2>4
  <2>6. Cursor(t, at[t])'
    BY <2>a, <2>b DEF Cursor, segVars, NBlocks, Size
  <2> QED BY <2>2, <2>3, <2>4, <2>5, <2>6
<1>2. CursorsOK'
  BY <1>1 DEF CursorsOK
<1>3. ASSUME NEW d \in Docs, Passed(d) PROVE Passed(d)'
  <2>1. d \in Nat
    BY NDocsType DEF Docs
  <2> QED BY <1>1, <1>3, <2>1 DEF Passed
<1>4. ASSUME NEW d \in Docs, d < g PROVE Passed(d)'
  <2>1. d \in Nat /\ d < NDocs
    BY NDocsType DEF Docs
  <2> QED BY <1>1, <1>4, <2>1 DEF Passed
<1>5. ASSUME NEW d \in Docs, NEW t \in Terms, Has(t, d), d < Doc(t)' PROVE Passed(d) \/ d < g
  BY <1>1, <1>5 DEF Abreast
<1>6. ASSUME NEW d \in Docs, NEW t \in Terms, Has(t, d) PROVE Passed(d)' <=> Passed(d) \/ d < g
  <2>1. Passed(d)' => d < Doc(t)'
    BY DEF Passed
  <2> QED BY <1>3, <1>4, <1>5, <1>6, <2>1
<1>7. Abreast'
  <2> SUFFICES ASSUME NEW t \in Terms, NEW d \in Docs, Has(t, d)', d < Doc(t)' PROVE Passed(d)'
    BY DEF Abreast
  <2>1. Has(t, d)
    BY SegmentStays
  <2> QED BY <1>3, <1>4, <1>5, <2>1
<1> QED BY <1>1, <1>2, <1>3, <1>6, <1>7

\* The postings of a term that its cursor has gone past: each turn takes one at least.
Gone(t) == {p \in Postings(t) : p[1] < Doc(t)}

\* The turns are no more than the postings gone past.
TurnsCounted ==
  /\ turns \in Nat
  /\ turns <= SumFunctionOnSet([t \in Terms |-> Cardinality(Gone(t))], Terms)

\* A sweep that one cursor at least takes part in goes past a posting more.
LEMMA TurnStep ==
  ASSUME SegmentOK, CursorsOK, Abreast, UNCHANGED segVars, NEW g \in Nat,
         \A t \in Terms : Sweeps(t, at'[t], g),
         NEW v \in Active, Doc(v) < g,
         TurnsCounted, turns' = turns + 1
  PROVE  TurnsCounted'
<1> DEFINE f == [t \in Terms |-> Cardinality(Gone(t))]
           h == [t \in Terms |-> Cardinality(Gone(t)')]
<1>1. v \in Terms /\ Has(v, Doc(v)) /\ Doc(v) \in Docs /\ Doc(v) \in Nat
  BY ActiveIs, HasType
<1>2. ASSUME NEW t \in Terms
      PROVE  /\ IsFiniteSet(Gone(t)) /\ IsFiniteSet(Gone(t)') /\ Gone(t) \subseteq Gone(t)'
             /\ f[t] \in Nat /\ h[t] \in Nat /\ f[t] <= h[t]
  <2>1. Doc(t) \in Nat /\ Doc(t)' \in Nat /\ Doc(t) <= Doc(t)'
    BY SweepStep
  <2>2. Postings(t)' = Postings(t) /\ IsFiniteSet(Postings(t)) /\ \A p \in Postings(t) : p[1] \in Nat
    BY SegmentStays, PostingsAre, HasType
  <2>3. Gone(t) \subseteq Gone(t)' /\ Gone(t)' \subseteq Postings(t)
    BY <2>1, <2>2 DEF Gone
  <2>4. IsFiniteSet(Gone(t)')
    BY <2>2, <2>3, FS_Subset
  <2>5. IsFiniteSet(Gone(t)) /\ Cardinality(Gone(t)) <= Cardinality(Gone(t)')
    BY <2>3, <2>4, FS_Subset
  <2> QED BY <2>3, <2>4, <2>5, FS_CardinalityType
<1>3. f[v] < h[v]
  <2>1. PICK p \in Postings(v) : p[1] = Doc(v)
    BY <1>1, PostingsAre
  <2>2. Doc(v) < Doc(v)'
    <3>1. g <= Doc(v)' \/ Doc(v)' = NDocs
      BY <1>1, SweepStep
    <3>2. Doc(v) < NDocs /\ Doc(v)' \in Nat
      BY <1>1, ActiveIs, SweepStep
    <3> QED BY <1>1, <3>1, <3>2
  <2>3. p \in Gone(v)' /\ p \notin Gone(v)
    <3>1. Postings(v)' = Postings(v)
      BY SegmentStays
    <3> QED BY <1>1, <2>1, <2>2, <3>1 DEF Gone
  <2>4. Cardinality(Gone(v)') # Cardinality(Gone(v))
    BY <1>1, <1>2, <2>3, FS_Subset
  <2>5. f[v] = Cardinality(Gone(v)) /\ h[v] = Cardinality(Gone(v)') /\ f[v] \in Nat /\ h[v] \in Nat /\ f[v] <= h[v]
    BY <1>1, <1>2
  <2> HIDE DEF f, h
  <2> QED BY <2>4, <2>5
<1>4. SumFunctionOnSet(f, Terms) < SumFunctionOnSet(h, Terms)
  <2> HIDE DEF f, h
  <2> QED BY <1>1, <1>2, <1>3, TermsFinite, SumStrict
<1>5. SumFunctionOnSet(f, Terms) \in Nat /\ SumFunctionOnSet(h, Terms) \in Nat
  <2> HIDE DEF f, h
  <2> QED BY <1>2, TermsFinite, SumType
<1>6. turns \in Nat /\ turns <= SumFunctionOnSet(f, Terms)
  BY DEF TurnsCounted
<1>7. turns' \in Nat /\ turns' <= SumFunctionOnSet(h, Terms)
  <2> HIDE DEF f, h
  <2> QED BY <1>4, <1>5, <1>6
<1> QED BY <1>7 DEF TurnsCounted

-----------------------------------------------------------------------------
(* The heap.                                                               *)

\* The hits are matches that all cursors have gone past, with their whole score; theta
\* is the least of them when the heap is full, and nothing before.
HeapOK ==
  /\ heap \subseteq [doc : Docs, score : Nat] /\ IsFiniteSet(heap) /\ theta \in Nat
  /\ \A h \in heap : h.doc \in Matching /\ h.score = Total(h.doc) /\ Passed(h.doc)
  /\ Cardinality(heap) <= k
  /\ Cardinality(heap) < k => theta = 0
  /\ Cardinality(heap) = k => (\E h \in heap : h.score = theta) /\ \A h \in heap : theta <= h.score

\* The documents of the hits.
Hits == {h.doc : h \in heap}

\* A document has no place among the hits.
Beaten(d) == Cardinality(heap) = k /\ (NoLonger => \A h \in heap : Better(h.doc, d))

\* A match the cursors have gone past is a hit or has been beaten.
Kept == \A d \in Matching : Passed(d) /\ d \notin Hits => Beaten(d)

\* The root of the heap is of the lowest score and, of these, the highest document.
LEMMA WorstIs ==
  ASSUME NEW hits, IsFiniteSet(hits), hits # {}, hits \subseteq [doc : Nat, score : Nat]
  PROVE  /\ Worst(hits) \in hits
         /\ \A g \in hits : \/ Worst(hits).score < g.score
                            \/ Worst(hits).score = g.score /\ Worst(hits).doc >= g.doc
<1> DEFINE S == {h.score : h \in hits}
           low == Min(S)
           f == [h \in hits |-> h.doc]
           L == {h \in hits : h.score = low}
           X == {f[h] : h \in L}
<1>1. S # {} /\ S \in SUBSET Nat
  OBVIOUS
<1>2. low \in S /\ \A m \in S : low <= m
  BY <1>1, MinNat
<1> HIDE DEF low
<1>3. L # {} /\ IsFiniteSet(L)
  BY <1>2, FS_Subset
<1>4. IsFiniteSet(X)
  <2> HIDE DEF f, L
  <2> QED BY <1>3, FiniteImage
<1>5. X # {} /\ X \in SUBSET Nat
  BY <1>3
<1>6. Max(X) \in X /\ \A m \in X : m <= Max(X)
  BY <1>4, <1>5, MaxNat
<1>7. PICK h \in L : f[h] = Max(X)
  BY <1>6
<1>8. \A g \in hits : h.score < g.score \/ (h.score = g.score /\ h.doc >= g.doc)
  <2> TAKE g \in hits
  <2>1. g.score \in S /\ g.score \in Nat /\ low \in Nat /\ h.score = low /\ h.doc \in Nat /\ g.doc \in Nat
    BY <1>1, <1>2, <1>7
  <2>2. low <= g.score
    BY <1>2, <2>1
  <2>3. g.score = low => g.doc <= h.doc
    <3> HAVE g.score = low
    <3>1. f[g] \in X /\ f[g] = g.doc /\ f[h] = h.doc
      BY <1>7
    <3> QED BY <1>6, <1>7, <3>1
  <2> QED BY <2>1, <2>2, <2>3
<1>9. h \in hits
  BY <1>7
<1> QED BY <1>8, <1>9 DEF Worst

\* What does not beat theta does not beat a hit: its docID is higher than theirs.
LEMMA BeatenByTheta ==
  ASSUME SegmentOK, CursorsOK, Abreast, HeapOK,
         NEW d \in Matching, ~Passed(d), Cardinality(heap) = k,
         NoLonger => Total(d) <= theta
  PROVE  Beaten(d)
<1> SUFFICES ASSUME NoLonger, NEW h \in heap PROVE Better(h.doc, d)
  BY DEF Beaten
<1>1. PICK t \in Terms : Has(t, d)
  BY MatchingIs
<1>2. Doc(t) \in Nat /\ Doc(t) <= d /\ d \in Nat
  BY <1>1, StillAhead
<1>3. h.doc < Doc(t) /\ h.doc \in Nat /\ h.score = Total(h.doc) /\ theta <= h.score /\ theta \in Nat /\ h.score \in Nat
  <2>1. h \in [doc : Docs, score : Nat] /\ Passed(h.doc)
    BY DEF HeapOK
  <2> QED BY <2>1, NDocsType DEF HeapOK, Passed, Docs
<1>4. Total(d) \in Nat /\ Total(d) <= theta
  BY TotalType
<1> QED BY <1>2, <1>3, <1>4 DEF Better

\* A sweep past documents that do not beat theta keeps the hits.
LEMMA SkipKeeps ==
  ASSUME SegmentOK, CursorsOK, Abreast, HeapOK, Kept,
         UNCHANGED segVars, UNCHANGED <<heap, theta>>, NEW g \in Nat,
         \A t \in Terms : Sweeps(t, at'[t], g),
         \A d \in Matching : ~Passed(d) /\ d < g => theta > 0 /\ (NoLonger => Total(d) <= theta)
  PROVE  HeapOK' /\ Kept'
<1>1. NoLonger' = NoLonger /\ k' = k /\ Matching' = Matching /\ \A d : Total(d)' = Total(d)
  BY SegmentStays
<1>2. \A d \in Docs : Passed(d) => Passed(d)'
  BY SweepStep
<1>3. HeapOK'
  <2>1. \A h \in heap : h.doc \in Docs
    BY DEF HeapOK
  <2> QED BY <1>1, <1>2, <2>1 DEF HeapOK
<1>4. ASSUME NEW d \in Matching, Passed(d)', d \notin Hits PROVE Beaten(d)
  <2>1. CASE Passed(d)
    BY <1>4, <2>1 DEF Kept
  <2>2. CASE ~Passed(d)
    <3>1. PICK t \in Terms : Has(t, d)
      BY MatchingIs
    <3>2. d \in Docs
      BY MatchingIs
    <3>3. d < g
      BY <1>4, <2>2, <3>1, <3>2, SweepStep
    <3>4. theta > 0 /\ (NoLonger => Total(d) <= theta)
      BY <2>2, <3>3
    <3>5. Cardinality(heap) = k
      <4>1. Cardinality(heap) \in Nat /\ k \in Nat
        BY FS_CardinalityType DEF HeapOK, SegmentOK, SegmentType
      <4> QED BY <3>4, <4>1 DEF HeapOK
    <3> QED BY <2>2, <3>4, <3>5, BeatenByTheta
  <2> QED BY <2>1, <2>2
<1>5. \A d \in Matching : Beaten(d) => Beaten(d)'
  BY <1>1 DEF Beaten, Better
<1>6. Kept'
  BY <1>1, <1>4, <1>5 DEF Kept, Hits
<1> QED BY <1>3, <1>6

\* A hit offered to the heap takes the place of none that is better.
LEMMA OfferKeeps ==
  ASSUME SegmentOK, CursorsOK, Abreast, HeapOK, Kept, UNCHANGED segVars,
         NEW p \in Matching, ~Passed(p), NEW s, s = Total(p),
         \A d \in Matching : Passed(d)' <=> Passed(d) \/ d = p,
         Offer([doc |-> p, score |-> s])
  PROVE  HeapOK' /\ Kept'
<1> DEFINE hit == [doc |-> p, score |-> s]
<1>1. NoLonger' = NoLonger /\ k' = k /\ Matching' = Matching /\ \A d : Total(d)' = Total(d)
  BY SegmentStays
<1>2. hit \in [doc : Docs, score : Nat] /\ hit.doc = p /\ hit.score = s /\ s \in Nat
  BY MatchingIs, TotalType
<1>3. /\ heap \subseteq [doc : Docs, score : Nat] /\ IsFiniteSet(heap) /\ theta \in Nat
      /\ Cardinality(heap) \in Nat /\ k \in Nat \ {0} /\ Cardinality(heap) <= k
  BY FS_CardinalityType DEF HeapOK, SegmentOK, SegmentType
<1>4. p \notin Hits /\ hit \notin heap
  <2>1. \A h \in heap : h.doc # p
    BY DEF HeapOK
  <2> QED BY <1>2, <2>1 DEF Hits
<1>5. \A h \in heap : h.doc \in Matching /\ h.score = Total(h.doc) /\ Passed(h.doc)'
  BY DEF HeapOK
<1>6. Passed(p)'
  OBVIOUS
<1>7. [doc : Docs, score : Nat] \subseteq [doc : Nat, score : Nat]
  BY NDocsType DEF Docs
<1>a. \A h \in heap : h.score \in Nat /\ h.doc \in Nat
  BY <1>3, <1>7
<1>8. CASE Cardinality(heap) < k
  <2>0. PICK more : more = heap \cup {hit}
    OBVIOUS
  <2>1. heap' = more /\ theta' = IF Cardinality(more) = k THEN Worst(more).score ELSE theta
    BY <1>3, <1>8, <2>0 DEF Offer
  <2>2. IsFiniteSet(more) /\ Cardinality(more) = Cardinality(heap) + 1 /\ more # {}
        /\ more \subseteq [doc : Docs, score : Nat]
    BY <1>2, <1>3, <1>4, <2>0, FS_AddElement
  <2>3. Worst(more) \in more /\ \A h \in more : Worst(more).score <= h.score
    <3>1. more \subseteq [doc : Nat, score : Nat]
      BY <1>7, <2>2
    <3>2. /\ Worst(more) \in more
          /\ \A h \in more : \/ Worst(more).score < h.score
                             \/ Worst(more).score = h.score /\ Worst(more).doc >= h.doc
      BY <2>2, <3>1, WorstIs
    <3>3. \A h \in more : h.score \in Nat
      BY <3>1
    <3> QED BY <3>2, <3>3
  <2>4. theta' \in Nat
    BY <1>3, <2>1, <2>2, <2>3
  <2>5. \A h \in more : h.doc \in Matching /\ h.score = Total(h.doc) /\ Passed(h.doc)'
    BY <1>2, <1>5, <1>6, <2>0
  <2>6. Cardinality(more) < k => theta' = 0
    BY <1>3, <1>8, <2>1, <2>2 DEF HeapOK
  <2>7. Cardinality(more) = k => (\E h \in more : h.score = theta') /\ \A h \in more : theta' <= h.score
    BY <2>1, <2>3
  <2>8. HeapOK'
    BY <1>1, <1>3, <1>8, <2>1, <2>2, <2>4, <2>5, <2>6, <2>7 DEF HeapOK
  <2>9. ASSUME NEW d \in Matching, Passed(d)', d \notin Hits' PROVE FALSE
    <3>1. d # p /\ d \notin Hits
      <4>1. \A h \in more : h.doc \in Hits'
        BY <2>1 DEF Hits
      <4> QED BY <1>2, <2>0, <2>9, <4>1 DEF Hits
    <3>2. Beaten(d)
      BY <2>9, <3>1 DEF Kept
    <3> QED BY <1>3, <1>8, <3>2 DEF Beaten
  <2> QED BY <1>1, <2>8, <2>9 DEF Kept
<1>9. CASE Cardinality(heap) = k /\ s > theta
  <2> PICK w : w = Worst(heap)
    OBVIOUS
  <2>0. PICK new : new = (heap \ {w}) \cup {hit}
    OBVIOUS
  <2>1. heap' = new /\ theta' = Worst(new).score
    BY <1>3, <1>9, <2>0 DEF Offer
  <2>2. w \in heap /\ \A g \in heap : w.score < g.score \/ (w.score = g.score /\ w.doc >= g.doc)
    <3>1. heap # {} /\ heap \subseteq [doc : Nat, score : Nat]
      BY <1>3, <1>7, <1>9, FS_EmptySet
    <3> QED BY <1>3, <3>1, WorstIs
  <2>3. IsFiniteSet(new) /\ Cardinality(new) = k /\ new # {} /\ new \subseteq [doc : Docs, score : Nat]
    <3>1. IsFiniteSet(heap \ {w}) /\ Cardinality(heap \ {w}) = k - 1
      BY <1>3, <1>9, <2>2, FS_RemoveElement
    <3>2. IsFiniteSet(new) /\ Cardinality(new) = Cardinality(heap \ {w}) + 1
      BY <1>4, <2>0, <3>1, FS_AddElement
    <3> QED BY <1>2, <1>3, <2>0, <3>1, <3>2
  <2>4. Worst(new) \in new /\ \A h \in new : Worst(new).score <= h.score
    <3>1. new \subseteq [doc : Nat, score : Nat]
      BY <1>7, <2>3
    <3>2. /\ Worst(new) \in new
          /\ \A h \in new : \/ Worst(new).score < h.score
                            \/ Worst(new).score = h.score /\ Worst(new).doc >= h.doc
      BY <2>3, <3>1, WorstIs
    <3>3. \A h \in new : h.score \in Nat
      BY <3>1
    <3> QED BY <3>2, <3>3
  <2>5. \A h \in new : h.doc \in Matching /\ h.score = Total(h.doc) /\ Passed(h.doc)'
    BY <1>2, <1>5, <1>6, <2>0
  <2>6. HeapOK'
    BY <1>1, <1>3, <2>1, <2>3, <2>4, <2>5 DEF HeapOK
  <2>7. w.score = theta
    <3>1. PICK h \in heap : h.score = theta
      BY <1>9 DEF HeapOK
    <3>2. theta <= w.score /\ w.score \in Nat
      BY <1>9, <1>a, <2>2 DEF HeapOK
    <3> QED BY <1>3, <2>2, <3>1, <3>2
  <2>8. ASSUME NEW d \in Matching, Passed(d)', d \notin Hits', NoLonger, NEW h \in new
        PROVE  Better(h.doc, d)
    <3>0. d # p /\ (d \in Hits => d = w.doc) /\ Passed(d)
      <4>1. \A e \in new : e.doc \in Hits'
        BY <2>1 DEF Hits
      <4> QED BY <1>2, <2>0, <2>8, <4>1 DEF Hits
    <3>a. Total(d) \in Nat
      BY TotalType
    <3>1. CASE d = w.doc
      <4>1. Total(d) = theta
        BY <1>5, <2>2, <2>7, <3>1
      <4>2. CASE h = hit
        BY <1>2, <1>3, <1>9, <4>1, <4>2 DEF Better
      <4>3. CASE h \in heap /\ h # w
        <5>1. h.score = Total(h.doc) /\ w.score = Total(w.doc) /\ w \in [doc : Docs, score : Nat] /\ h \in [doc : Docs, score : Nat]
          BY <1>3, <1>5, <2>2, <4>3
        <5>2. h.doc # w.doc
          BY <4>3, <5>1
        <5>3. h.doc \in Nat /\ w.doc \in Nat /\ h.score \in Nat /\ w.score \in Nat
          BY <1>a, <2>2, <4>3
        <5> QED BY <2>2, <3>1, <4>3, <5>1, <5>2, <5>3 DEF Better
      <4> QED BY <2>0, <4>2, <4>3
    <3>2. CASE d \notin Hits
      <4>1. \A g \in heap : Better(g.doc, d)
        BY <2>8, <3>0, <3>2 DEF Kept, Beaten
      <4>2. Total(d) <= theta
        BY <1>3, <1>5, <2>2, <2>7, <3>a, <4>1 DEF Better
      <4>3. CASE h = hit
        BY <1>2, <1>3, <1>9, <3>a, <4>2, <4>3 DEF Better
      <4> QED BY <2>0, <4>1, <4>3
    <3> QED BY <3>0, <3>1, <3>2
  <2>9. Kept'
    <3> SUFFICES ASSUME NEW d \in Matching, Passed(d)', d \notin Hits' PROVE Beaten(d)'
      BY <1>1 DEF Kept
    <3>1. NoLonger => \A h \in new : Better(h.doc, d)
      BY <2>8
    <3> QED BY <1>1, <2>1, <2>3, <3>1 DEF Beaten, Better
  <2> QED BY <2>6, <2>9
<1>10. CASE Cardinality(heap) = k /\ ~(s > theta)
  <2>1. heap' = heap /\ theta' = theta
    BY <1>2, <1>3, <1>10 DEF Offer
  <2>2. HeapOK'
    BY <1>1, <1>5, <2>1 DEF HeapOK
  <2>3. Beaten(p)
    BY <1>2, <1>3, <1>10, BeatenByTheta
  <2>4. \A d \in Matching : Beaten(d) => Beaten(d)'
    BY <1>1, <2>1 DEF Beaten, Better
  <2>5. Kept'
    BY <1>1, <2>1, <2>3, <2>4 DEF Kept, Hits
  <2> QED BY <2>2, <2>5
<1> QED BY <1>3, <1>8, <1>9, <1>10

-----------------------------------------------------------------------------
(* The invariant.                                                          *)

\* The inductive invariant: without Kept the end of the loop says nothing of what was
\* skipped, and without Abreast Kept is not kept, as the scan only bounds the scores of
\* documents that every cursor has yet to reach.
Inv ==
  /\ SegmentOK
  /\ CursorsOK
  /\ Abreast
  /\ TurnsCounted
  /\ HeapOK
  /\ Kept
  /\ done => Pivots = {}

\* The loop begins with cursors on the first postings and nothing gone past.
LEMMA InitInv == Init => Inv
<1> SUFFICES ASSUME Init PROVE Inv
  OBVIOUS
<1>1. SegmentOK
  BY InitSegment
<1>2. at = [t \in Terms |-> [block |-> 1, i |-> 1]] /\ heap = {} /\ theta = 0 /\ done = FALSE /\ turns = 0
  BY DEF Init
<1>3. CursorsOK
  <2> SUFFICES ASSUME NEW t \in Terms PROVE Cursor(t, [block |-> 1, i |-> 1])
    BY <1>2 DEF CursorsOK
  <2>1. NBlocks(t) \in Nat /\ \A b \in 1 .. NBlocks(t) : Size(t, b) \in Nat \ {0}
    BY <1>1 DEF SegmentOK, SegmentType
  <2> QED BY <2>1 DEF Cursor
<1>4. ASSUME NEW t \in Terms, NEW d \in Docs, Has(t, d) PROVE ~(d < Doc(t))
  <2>1. PICK b \in 1 .. NBlocks(t) : \E i \in 1 .. Size(t, b) : blocks[t][b].docs[i] = d
    BY <1>4 DEF Has
  <2>2. PICK i \in 1 .. Size(t, b) : blocks[t][b].docs[i] = d
    BY <2>1
  <2>3. NBlocks(t) \in Nat /\ Size(t, 1) \in Nat \ {0} /\ 1 \in 1 .. NBlocks(t)
    BY <1>1 DEF SegmentOK, SegmentType
  <2>4. Doc(t) = blocks[t][1].docs[1]
    BY <1>2, <2>3 DEF Doc, DocOf, Spent
  <2>5. 1 < b \/ (1 = b /\ 1 < i) => blocks[t][1].docs[1] < d
    BY <1>1, <2>2, <2>3 DEF SegmentOK, Ascending
  <2>6. d \in Nat /\ Doc(t) \in Nat
    BY <1>1, <1>3, <1>4, HasType, ActiveIs
  <2>7. 1 = b /\ 1 = i => d = blocks[t][1].docs[1]
    BY <2>2
  <2> QED BY <2>3, <2>4, <2>5, <2>6, <2>7
<1>5. Abreast
  BY <1>4 DEF Abreast
<1>6. TurnsCounted
  <2> DEFINE f == [t \in Terms |-> Cardinality(Gone(t))]
  <2>1. \A t \in Terms : f[t] \in Nat
    <3> SUFFICES ASSUME NEW t \in Terms PROVE Cardinality(Gone(t)) \in Nat
      OBVIOUS
    <3>1. IsFiniteSet(Gone(t))
      BY <1>1, PostingsAre, FS_Subset DEF Gone
    <3> QED BY <3>1, FS_CardinalityType
  <2> HIDE DEF f
  <2>2. SumFunctionOnSet(f, Terms) \in Nat
    BY <2>1, TermsFinite, SumType
  <2> QED BY <1>2, <2>2 DEF TurnsCounted, f
<1>7. HeapOK
  <2>1. IsFiniteSet({}) /\ Cardinality({}) = 0 /\ k \in Nat \ {0}
    BY <1>1, FS_EmptySet DEF SegmentOK, SegmentType
  <2> QED BY <1>2, <2>1 DEF HeapOK
<1>8. Kept
  <2>1. ASSUME NEW d \in Matching, Passed(d) PROVE FALSE
    <3>1. PICK t \in Terms : Has(t, d)
      BY <1>1, MatchingIs
    <3>2. d \in Docs
      BY <1>1, MatchingIs
    <3> QED BY <1>4, <2>1, <3>1, <3>2 DEF Passed
  <2> QED BY <2>1 DEF Kept
<1> QED BY <1>1, <1>2, <1>3, <1>5, <1>6, <1>7, <1>8 DEF Inv

\* What the aligned terms score in the pivot is what all terms score in it.
LEMMA ScoreOfAlignedIs ==
  ASSUME SegmentOK, CursorsOK, Abreast, Pivots # {}, \A t \in Active : Doc(t) >= Pivot
  PROVE  ScoreOfAligned = Total(Pivot) /\ ~Passed(Pivot)
<1> PICK p : p = Pivot
  OBVIOUS
<1>1. p \in Nat /\ Aligned \subseteq Terms /\ IsFiniteSet(Aligned) /\ Aligned \subseteq Active
  BY PivotIs, ActiveIs, FS_Subset DEF Aligned
<1>2. ~Passed(p)
  <2>1. PICK t \in Prefix : Doc(t) = Pivot
    BY PivotIs
  <2>2. t \in Terms
    BY <2>1, PivotIs, ActiveIs
  <2> QED BY <1>1, <2>1, <2>2 DEF Passed
<1>3. \A t \in Terms : Has(t, p) => t \in Aligned
  <2> SUFFICES ASSUME NEW t \in Terms, Has(t, p) PROVE t \in Aligned
    OBVIOUS
  <2>1. t \in Active /\ Doc(t) <= p /\ Doc(t) \in Nat
    BY <1>2, StillAhead
  <2> QED BY <1>1, <2>1 DEF Aligned
<1> DEFINE f == [t \in Terms |-> TermScore(t, p)]
           g == [t \in Aligned |-> Idf[t] * Saturation(Freq(t), len[Pivot], stats)]
<1>4. Total(p) = SumFunctionOnSet(f, Aligned)
  BY <1>1, <1>3, TotalOver
<1>5. ScoreOfAligned = SumFunctionOnSet(g, Aligned)
  BY DEF ScoreOfAligned
<1>6. ASSUME NEW t \in Aligned PROVE f[t] \in Nat /\ f[t] = g[t]
  <2>1. t \in Terms /\ Doc(t) = p /\ Doc(t) # NDocs /\ Cursor(t, at[t])
    BY <1>1, ActiveIs DEF Aligned, CursorsOK
  <2> DEFINE b == at[t].block
             i == at[t].i
  <2>2. b \in 1 .. NBlocks(t) /\ i \in 1 .. Size(t, b) /\ blocks[t][b].docs[i] = p
    <3>1. ~Spent(t, at[t])
      BY <2>1, DocOfType DEF Doc
    <3> QED BY <2>1, <3>1 DEF Spent, Cursor, Doc, DocOf, SegmentOK, SegmentType
  <2>3. Freq(t) = blocks[t][b].freqs[i]
    BY DEF Freq
  <2> HIDE DEF b, i
  <2>4. TermScore(t, p) = Idf[t] * Saturation(blocks[t][b].freqs[i], len[p], stats) /\ TermScore(t, p) \in Nat
    BY <2>1, <2>2, TermScoreAt
  <2> QED BY <2>1, <2>3, <2>4
<1> HIDE DEF f, g
<1>7. SumFunctionOnSet(f, Aligned) = SumFunctionOnSet(g, Aligned)
  BY <1>1, <1>6, SumEqual
<1> QED BY <1>2, <1>4, <1>5, <1>7

\* A jump over blocks goes past documents that do not beat theta.
LEMMA SkipBlocksKeeps == Inv /\ SkipBlocks => Inv'
<1> SUFFICES ASSUME Inv, SkipBlocks PROVE Inv'
  OBVIOUS
<1>1. SegmentOK /\ CursorsOK /\ Abreast /\ TurnsCounted /\ HeapOK /\ Kept
  BY DEF Inv
<1>2. /\ Pivots # {} /\ turns' = turns + 1 /\ UNCHANGED segVars /\ UNCHANGED <<heap, theta>>
      /\ done' = FALSE /\ BlockSum <= theta
      /\ at' = [t \in Terms |-> IF t \in Prefix THEN Advance(t, SkipTarget) ELSE at[t]]
  BY DEF SkipBlocks, Search, Inv
<1>3. PICK g : g = SkipTarget
  OBVIOUS
<1>4. /\ g \in Nat /\ Pivot < g /\ Pivot \in Nat /\ Prefix \subseteq Active /\ Active \subseteq Terms
      /\ \A t \in Active : t \notin Prefix => g <= Doc(t)
  BY <1>1, <1>2, <1>3, SkipTargetIs, PivotIs, ActiveIs
<1>5. \A t \in Terms : Sweeps(t, at'[t], g)
  <2> TAKE t \in Terms
  <2>1. Cursor(t, at[t])
    BY <1>1 DEF CursorsOK
  <2>2. CASE t \in Prefix
    <3>1. at'[t] = Advance(t, g)
      BY <1>2, <1>3, <2>2
    <3>2. Sweeps(t, Advance(t, g), g)
      BY <1>1, <1>4, <2>1, AdvanceSweeps
    <3> QED BY <3>1, <3>2
  <2>3. CASE t \notin Prefix
    <3>1. at'[t] = at[t]
      BY <1>2, <2>3
    <3>2. g <= Doc(t) \/ Doc(t) = NDocs
      BY <1>1, <1>4, <2>3, ActiveIs
    <3>3. Sweeps(t, at[t], g)
      BY <1>1, <1>4, <2>1, <3>2, StaySweeps
    <3> QED BY <3>1, <3>3
  <2> QED BY <2>2, <2>3
<1>6. \A d \in Matching : ~Passed(d) /\ d < g => theta > 0 /\ (NoLonger => Total(d) <= theta)
  <2> SUFFICES ASSUME NEW d \in Matching, ~Passed(d), d < g
               PROVE  theta > 0 /\ (NoLonger => Total(d) <= theta)
    OBVIOUS
  <2>1. PICK v \in Terms : Has(v, d)
    BY <1>1, MatchingIs
  <2>2. d \in Nat /\ theta \in Nat
    BY <1>1, <2>1, HasType DEF HeapOK
  <2>3. CASE d < Pivot
    BY <1>1, <2>1, <2>2, <2>3, BelowPivot
  <2>4. CASE Pivot <= d
    BY <1>1, <1>2, <1>3, <2>1, <2>2, <2>4, WithinBlocks
  <2> QED BY <1>4, <2>2, <2>3, <2>4
<1>7. SegmentOK' /\ CursorsOK' /\ Abreast'
  BY <1>1, <1>2, <1>4, <1>5, SegmentStays, SweepStep
<1>8. HeapOK' /\ Kept'
  BY <1>1, <1>2, <1>4, <1>5, <1>6, SkipKeeps
<1>9. TurnsCounted'
  <2>1. PICK v \in Prefix : Doc(v) = Pivot
    BY <1>1, <1>2, PivotIs
  <2>2. v \in Active /\ Doc(v) < g
    BY <1>4, <2>1
  <2> QED BY <1>1, <1>2, <1>4, <1>5, <2>2, TurnStep
<1> QED BY <1>2, <1>7, <1>8, <1>9 DEF Inv

\* To pull the cursors of the prefix up to the pivot goes past documents below it.
LEMMA PullUpKeeps == Inv /\ PullUp => Inv'
<1> SUFFICES ASSUME Inv, PullUp PROVE Inv'
  OBVIOUS
<1>1. SegmentOK /\ CursorsOK /\ Abreast /\ TurnsCounted /\ HeapOK /\ Kept
  BY DEF Inv
<1>2. /\ Pivots # {} /\ turns' = turns + 1 /\ UNCHANGED segVars /\ UNCHANGED <<heap, theta>>
      /\ done' = FALSE /\ \E t \in Active : Doc(t) < Pivot
      /\ at' = [t \in Terms |-> IF t \in Prefix THEN Advance(t, Pivot) ELSE at[t]]
  BY DEF PullUp, Search, Inv
<1>3. PICK g : g = Pivot
  OBVIOUS
<1>4. /\ g \in Nat /\ Prefix \subseteq Active /\ Active \subseteq Terms
      /\ \A t \in Active : t \in Prefix <=> Doc(t) <= g
  BY <1>1, <1>2, <1>3, PivotIs, ActiveIs
<1>5. \A t \in Terms : Sweeps(t, at'[t], g)
  <2> TAKE t \in Terms
  <2>1. Cursor(t, at[t])
    BY <1>1 DEF CursorsOK
  <2>2. CASE t \in Prefix
    <3>1. at'[t] = Advance(t, g)
      BY <1>2, <1>3, <2>2
    <3>2. Sweeps(t, Advance(t, g), g)
      BY <1>1, <1>4, <2>1, AdvanceSweeps
    <3> QED BY <3>1, <3>2
  <2>3. CASE t \notin Prefix
    <3>1. at'[t] = at[t]
      BY <1>2, <2>3
    <3>2. g <= Doc(t) \/ Doc(t) = NDocs
      BY <1>1, <1>4, <2>3, ActiveIs
    <3>3. Sweeps(t, at[t], g)
      BY <1>1, <1>4, <2>1, <3>2, StaySweeps
    <3> QED BY <3>1, <3>3
  <2> QED BY <2>2, <2>3
<1>6. \A d \in Matching : ~Passed(d) /\ d < g => theta > 0 /\ (NoLonger => Total(d) <= theta)
  <2> SUFFICES ASSUME NEW d \in Matching, ~Passed(d), d < g
               PROVE  theta > 0 /\ (NoLonger => Total(d) <= theta)
    OBVIOUS
  <2>1. PICK v \in Terms : Has(v, d)
    BY <1>1, MatchingIs
  <2>2. theta \in Nat /\ d < Pivot
    BY <1>1, <1>3 DEF HeapOK
  <2> QED BY <1>1, <2>1, <2>2, BelowPivot
<1>7. SegmentOK' /\ CursorsOK' /\ Abreast'
  BY <1>1, <1>2, <1>4, <1>5, SegmentStays, SweepStep
<1>8. HeapOK' /\ Kept'
  BY <1>1, <1>2, <1>4, <1>5, <1>6, SkipKeeps
<1>9. TurnsCounted'
  <2>1. PICK v \in Active : Doc(v) < g
    BY <1>2, <1>3
  <2> QED BY <1>1, <1>2, <1>4, <1>5, <2>1, TurnStep
<1> QED BY <1>2, <1>7, <1>8, <1>9 DEF Inv

\* To score the pivot goes past the pivot alone, which is offered if it is live.
LEMMA ScorePivotKeeps == Inv /\ ScorePivot => Inv'
<1> SUFFICES ASSUME Inv, ScorePivot PROVE Inv'
  OBVIOUS
<1>1. SegmentOK /\ CursorsOK /\ Abreast /\ TurnsCounted /\ HeapOK /\ Kept
  BY DEF Inv
<1>2. /\ Pivots # {} /\ turns' = turns + 1 /\ UNCHANGED segVars
      /\ done' = FALSE /\ \A t \in Active : Doc(t) >= Pivot
      /\ at' = [t \in Terms |-> IF t \in Aligned THEN NextDoc(t) ELSE at[t]]
      /\ IF Pivot \in dead THEN UNCHANGED <<heap, theta>>
         ELSE Offer([doc |-> Pivot, score |-> ScoreOfAligned])
  BY DEF ScorePivot, Search, Inv
<1>3. PICK p : p = Pivot
  OBVIOUS
<1>4. p \in Nat /\ p < NDocs /\ Active \subseteq Terms /\ Aligned = {t \in Active : Doc(t) = p}
  BY <1>1, <1>2, <1>3, PivotIs, ActiveIs DEF Aligned
<1>5. ScoreOfAligned = Total(p) /\ ~Passed(p)
  BY <1>1, <1>2, <1>3, ScoreOfAlignedIs
<1>6. PICK v \in Active : Doc(v) = p
  BY <1>1, <1>2, <1>3, PivotIs
<1>7. v \in Terms /\ Has(v, p)
  BY <1>1, <1>6, ActiveIs
<1>8. \A t \in Terms : Sweeps(t, at'[t], p + 1)
  <2> TAKE t \in Terms
  <2>1. Cursor(t, at[t]) /\ Doc(t) \in Nat /\ (t \in Active <=> Doc(t) # NDocs)
    BY <1>1, ActiveIs DEF CursorsOK
  <2>2. CASE t \in Aligned
    <3>1. at'[t] = NextDoc(t) /\ Doc(t) = p /\ Doc(t) # NDocs
      BY <1>2, <1>4, <2>1, <2>2
    <3>2. Sweeps(t, NextDoc(t), Doc(t) + 1)
      BY <1>1, <2>1, <3>1, NextDocSweeps
    <3> QED BY <3>1, <3>2
  <2>3. CASE t \notin Aligned
    <3>1. at'[t] = at[t]
      BY <1>2, <2>3
    <3>2. p + 1 <= Doc(t) \/ Doc(t) = NDocs
      BY <1>2, <1>3, <1>4, <2>1, <2>3
    <3>3. Sweeps(t, at[t], p + 1)
      <4>1. p + 1 \in Nat
        BY <1>4
      <4> QED BY <1>1, <2>1, <3>2, <4>1, StaySweeps
    <3> QED BY <3>1, <3>3
  <2> QED BY <2>2, <2>3
<1>9. SegmentOK' /\ CursorsOK' /\ Abreast'
  <2>1. p + 1 \in Nat
    BY <1>4
  <2> QED BY <1>1, <1>2, <1>8, <2>1, SegmentStays, SweepStep
<1>10. \A d \in Matching : Passed(d)' <=> Passed(d) \/ d = p
  <2> TAKE d \in Matching
  <2>1. PICK t \in Terms : Has(t, d)
    BY <1>1, MatchingIs
  <2>2. d \in Docs /\ d \in Nat /\ p + 1 \in Nat
    BY <1>1, <1>4, <2>1, HasType
  <2>3. Passed(d)' <=> Passed(d) \/ d < p + 1
    BY <1>1, <1>2, <1>8, <2>1, <2>2, SweepStep
  <2>4. ~Passed(d) => p <= d
    <3> HAVE ~Passed(d)
    <3>1. t \in Active /\ Doc(t) <= d /\ Doc(t) \in Nat
      BY <1>1, <2>1, StillAhead
    <3> QED BY <1>2, <1>3, <1>4, <2>2, <3>1
  <2> QED BY <1>4, <2>2, <2>3, <2>4
<1>11. HeapOK' /\ Kept'
  <2>1. CASE p \in dead
    <3>1. heap' = heap /\ theta' = theta
      BY <1>2, <1>3, <2>1
    <3>2. p \notin Matching
      BY <1>1, <2>1, MatchingIs
    <3>3. NoLonger' = NoLonger /\ k' = k /\ Matching' = Matching /\ \A d : Total(d)' = Total(d)
      BY <1>2, SegmentStays
    <3>4. HeapOK'
      BY <1>1, <1>10, <3>1, <3>3 DEF HeapOK
    <3>5. \A d \in Matching : Beaten(d) => Beaten(d)'
      BY <3>1, <3>3 DEF Beaten, Better
    <3>6. Kept'
      BY <1>1, <1>10, <3>1, <3>2, <3>3, <3>5 DEF Kept, Hits
    <3> QED BY <3>4, <3>6
  <2>2. CASE p \notin dead
    <3>1. PICK s : s = Total(p)
      OBVIOUS
    <3>2. Offer([doc |-> p, score |-> s])
      BY <1>2, <1>3, <1>5, <2>2, <3>1
    <3>3. p \in Matching
      BY <1>1, <1>7, <2>2, MatchingIs
    <3> QED BY <1>1, <1>2, <1>5, <1>10, <3>1, <3>2, <3>3, OfferKeeps
  <2> QED BY <2>1, <2>2
<1>12. TurnsCounted'
  <2>1. p + 1 \in Nat /\ Doc(v) < p + 1
    BY <1>4, <1>6
  <2> QED BY <1>1, <1>2, <1>6, <1>8, <2>1, TurnStep
<1> QED BY <1>2, <1>9, <1>11, <1>12 DEF Inv

\* A step that changes neither segment, cursors nor heap keeps what is said of them.
LEMMA RestKeeps ==
  ASSUME Inv, UNCHANGED <<segVars, at, heap, theta, turns>>, done' = done \/ Pivots = {}
  PROVE  Inv'
<1>1. at' = at /\ heap' = heap /\ theta' = theta /\ turns' = turns /\ UNCHANGED segVars
  OBVIOUS
<1>2. /\ NoLonger' = NoLonger /\ k' = k /\ Matching' = Matching
      /\ \A t, d : Has(t, d)' = Has(t, d)
      /\ \A t : Postings(t)' = Postings(t)
      /\ \A d : Total(d)' = Total(d)
  BY <1>1, SegmentStays
<1>3. \A t : Doc(t)' = Doc(t)
  BY <1>1, SegmentStays DEF Doc
<1>4. \A d : Passed(d)' = Passed(d)
  BY <1>3 DEF Passed
<1>5. SegmentOK'
  BY <1>1, SegmentStays DEF Inv
<1>6. CursorsOK'
  BY <1>1 DEF Inv, CursorsOK, Cursor, NBlocks, Size, segVars
<1>7. Abreast'
  BY <1>2, <1>3, <1>4 DEF Inv, Abreast
<1>8. TurnsCounted'
  <2>1. \A t : Gone(t)' = Gone(t)
    BY <1>2, <1>3 DEF Gone
  <2> QED BY <1>1, <2>1 DEF Inv, TurnsCounted
<1>9. HeapOK'
  BY <1>1, <1>2, <1>4 DEF Inv, HeapOK
<1>10. Kept'
  <2>1. \A d \in Matching : Beaten(d)' = Beaten(d)
    BY <1>1, <1>2 DEF Beaten, Better
  <2> QED BY <1>1, <1>2, <1>4, <2>1 DEF Inv, Kept, Hits
<1>11. Pivots' = Pivots
  <2>1. Active' = Active /\ \A x : UpTo(x)' = UpTo(x)
    BY <1>3 DEF Active, UpTo
  <2>2. MaxScore' = MaxScore
    BY <1>1 DEF MaxScore, NBlocks, segVars
  <2> QED BY <1>1, <1>3, <2>1, <2>2 DEF Pivots
<1> QED BY <1>5, <1>6, <1>7, <1>8, <1>9, <1>10, <1>11 DEF Inv

\* Every step keeps the invariant.
LEMMA NextInv == Inv /\ [Next]_vars => Inv'
<1> SUFFICES ASSUME Inv, [Next]_vars PROVE Inv'
  OBVIOUS
<1>1. CASE SkipBlocks
  BY <1>1, SkipBlocksKeeps
<1>2. CASE ScorePivot
  BY <1>2, ScorePivotKeeps
<1>3. CASE PullUp
  BY <1>3, PullUpKeeps
<1>4. CASE Return
  BY <1>4, RestKeeps DEF Return
<1>5. CASE UNCHANGED vars
  BY <1>5, RestKeeps DEF vars
<1> QED BY <1>1, <1>2, <1>3, <1>4, <1>5 DEF Next

\* The invariant the properties of the search follow from holds for any query.
THEOREM SpecInv == Spec => []Inv
BY InitInv, NextInv, PTL DEF Spec

-----------------------------------------------------------------------------
(* What search() returns.                                                  *)

\* A strict total order of a set, as the set of its pairs.
Orders(R, M) ==
  /\ \A x, y \in M : x # y => <<x, y>> \in R \/ <<y, x>> \in R
  /\ \A x, y \in M : <<x, y>> \in R => <<y, x>> \notin R
  /\ \A x, y, z \in M : <<x, y>> \in R /\ <<y, z>> \in R => <<x, z>> \in R

\* Up to n elements of a set, each before all that are left out.
Top(n, T, R, M) ==
  /\ T \subseteq M /\ Cardinality(T) <= n
  /\ \A e \in M \ T : Cardinality(T) = n /\ \A h \in T : <<h, e>> \in R

\* The first n elements are those with fewer than n before them.
LEMMA TopIs ==
  ASSUME NEW M, IsFiniteSet(M), NEW R, Orders(R, M), NEW n \in Nat, NEW T, Top(n, T, R, M)
  PROVE  T = {e \in M : Cardinality({f \in M : <<f, e>> \in R}) < n}
<1> DEFINE before(e) == {f \in M : <<f, e>> \in R}
<1>1. T \subseteq M /\ IsFiniteSet(T) /\ Cardinality(T) \in Nat /\ Cardinality(T) <= n
  BY FS_Subset, FS_CardinalityType DEF Top
<1>2. \A e \in M : IsFiniteSet(before(e)) /\ Cardinality(before(e)) \in Nat
  BY FS_Subset, FS_CardinalityType
<1>3. ASSUME NEW e \in T PROVE Cardinality(before(e)) < n
  <2>1. e \notin before(e) /\ e \in M
    BY <1>1 DEF Orders
  <2>2. before(e) \subseteq T \ {e}
    <3>1. ASSUME NEW f \in before(e) PROVE f \in T
      BY <1>1, <1>3 DEF Orders, Top
    <3> QED BY <2>1, <3>1
  <2>3. IsFiniteSet(T \ {e}) /\ Cardinality(T \ {e}) = Cardinality(T) - 1
    BY <1>1, FS_RemoveElement
  <2>4. Cardinality(before(e)) <= Cardinality(T \ {e})
    <3> HIDE DEF before
    <3> QED BY <2>2, <2>3, FS_Subset
  <2> QED BY <1>1, <1>2, <2>1, <2>3, <2>4
<1>4. ASSUME NEW e \in M, e \notin T PROVE ~(Cardinality(before(e)) < n)
  <2>1. Cardinality(T) = n /\ T \subseteq before(e)
    BY <1>1, <1>4 DEF Top
  <2>2. Cardinality(T) <= Cardinality(before(e))
    <3> HIDE DEF before
    <3> QED BY <1>2, <2>1, FS_Subset
  <2> QED BY <1>1, <1>2, <2>1, <2>2
<1> QED BY <1>1, <1>3, <1>4

\* A finite set has an element before all others.
LEMMA FirstExists ==
  ASSUME NEW M, IsFiniteSet(M), NEW R, Orders(R, M), NEW S \in SUBSET M, S # {}
  PROVE  \E x \in S : \A y \in S : y # x => <<x, y>> \in R
<1> DEFINE B == {E \in SUBSET S : E # {} /\ ~ \E x \in E : \A y \in E : y # x => <<x, y>> \in R}
<1>1. ASSUME B # {} PROVE FALSE
  <2>0. IsFiniteSet(S) /\ \A E \in B : E \subseteq S
    BY FS_Subset
  <2> HIDE DEF B
  <2>1. PICK E \in B : \A F \in B : F \subseteq E => F = E
    BY <1>1, <2>0, LeastSubset
  <2> USE DEF B
  <2>2. E \subseteq S /\ E # {} /\ ~ \E x \in E : \A y \in E : y # x => <<x, y>> \in R
    BY <2>1
  <2>3. PICK a : a \in E
    BY <2>2
  <2>4. E \ {a} \in SUBSET S /\ E \ {a} # E /\ E \ {a} \subseteq E
    BY <2>2, <2>3
  <2>5. CASE E \ {a} = {}
    BY <2>2, <2>3, <2>5
  <2>6. CASE E \ {a} # {}
    <3>1. PICK x \in E \ {a} : \A y \in E \ {a} : y # x => <<x, y>> \in R
      BY <2>1, <2>4, <2>6
    <3>2. a \in M /\ x \in M /\ E \subseteq M
      BY <2>2, <2>3
    <3>3. CASE <<x, a>> \in R
      BY <2>2, <3>1, <3>3
    <3>4. CASE <<a, x>> \in R
      <4>1. \A y \in E : y # a => <<a, y>> \in R
        BY <3>1, <3>2, <3>4 DEF Orders
      <4> QED BY <2>2, <2>3, <4>1
    <3> QED BY <3>1, <3>2, <3>3, <3>4 DEF Orders
  <2> QED BY <2>5, <2>6
<1> QED BY <1>1

\* A finite set has a first n elements, whatever n is.
LEMMA TopExists ==
  ASSUME NEW M, IsFiniteSet(M), NEW R, Orders(R, M), NEW n \in Nat
  PROVE  \E T : Top(n, T, R, M)
<1> DEFINE B == {m \in Nat : ~ \E T : Top(m, T, R, M)}
<1>1. ASSUME B # {} PROVE FALSE
  <2>0. B \subseteq Nat
    OBVIOUS
  <2> HIDE DEF B
  <2>1. PICK m \in B : \A j \in B : m <= j
    BY <1>1, <2>0, LeastNatural
  <2> USE DEF B
  <2>2. m \in Nat /\ ~ \E T : Top(m, T, R, M)
    BY <2>1
  <2>3. m # 0
    <3>1. Cardinality({}) = 0
      BY FS_EmptySet
    <3>2. Top(0, {}, R, M)
      BY <3>1 DEF Top
    <3> QED BY <2>2, <3>2
  <2>4. m - 1 \in Nat /\ m - 1 \notin B
    <3> HIDE DEF B
    <3> QED BY <2>0, <2>1, <2>2, <2>3
  <2>5. PICK T : Top(m - 1, T, R, M)
    BY <2>4
  <2>6. T \subseteq M /\ IsFiniteSet(T) /\ Cardinality(T) \in Nat /\ Cardinality(T) <= m - 1
    BY <2>5, FS_Subset, FS_CardinalityType DEF Top
  <2>7. CASE T = M
    <3>1. Top(m, T, R, M)
      BY <2>2, <2>6, <2>7 DEF Top
    <3> QED BY <2>2, <3>1
  <2>8. CASE T # M
    <3>0. PICK S : S = M \ T
      OBVIOUS
    <3>1. S # {} /\ S \in SUBSET M
      BY <2>6, <2>8, <3>0
    <3>a. \E x \in S : \A y \in S : y # x => <<x, y>> \in R
      BY <3>1, FirstExists
    <3>2. PICK x \in M \ T : \A y \in M \ T : y # x => <<x, y>> \in R
      BY <3>0, <3>a
    <3>3. Cardinality(T) = m - 1
      BY <2>5, <3>2 DEF Top
    <3>4. Cardinality(T \cup {x}) = m
      BY <2>2, <2>6, <3>2, <3>3, FS_AddElement
    <3>5. \A e \in M \ (T \cup {x}) : \A h \in T \cup {x} : <<h, e>> \in R
      BY <2>5, <3>2 DEF Top
    <3>6. Top(m, T \cup {x}, R, M)
      BY <2>2, <2>6, <3>2, <3>4, <3>5 DEF Top
    <3> QED BY <2>2, <3>6
  <2> QED BY <2>7, <2>8
<1> QED BY <1>1

\* Two ways of taking up to n elements, none left out for want of room, take as many.
LEMMA SameCount ==
  ASSUME NEW M, IsFiniteSet(M), NEW n \in Nat, NEW S \in SUBSET M, NEW T \in SUBSET M,
         Cardinality(S) <= n, S # M => Cardinality(S) = n,
         Cardinality(T) <= n, T # M => Cardinality(T) = n
  PROVE  Cardinality(S) = Cardinality(T)
<1>1. /\ Cardinality(S) \in Nat /\ Cardinality(T) \in Nat /\ Cardinality(M) \in Nat
      /\ Cardinality(S) <= Cardinality(M) /\ Cardinality(T) <= Cardinality(M)
  BY FS_Subset, FS_CardinalityType
<1> QED BY <1>1

\* Better is a strict total order of the matches.
BetterPairs == {p \in Matching \X Matching : Better(p[1], p[2])}

\* For scores are numbers, and docIDs break their ties.
LEMMA BetterOrders ==
  ASSUME SegmentOK
  PROVE  /\ Orders(BetterPairs, Matching)
         /\ \A d, e \in Matching : <<d, e>> \in BetterPairs <=> Better(d, e)
<1>1. \A d, e \in Matching : <<d, e>> \in BetterPairs <=> Better(d, e)
  BY DEF BetterPairs
<1>2. \A d \in Matching : d \in Nat /\ Total(d) \in Nat
  BY MatchingIs, TotalType, NDocsType DEF Docs
<1> QED BY <1>1, <1>2 DEF Orders, Better

\* Exhaustive has one result of each of the first k matches.
LEMMA ExhaustiveIs ==
  ASSUME SegmentOK, NEW T, Top(k, T, BetterPairs, Matching)
  PROVE  /\ Exhaustive = {[doc |-> d, score |-> Total(d)] : d \in T}
         /\ IsFiniteSet(T) /\ Cardinality(Exhaustive) = Cardinality(T)
<1>1. /\ T = {e \in Matching : Cardinality({f \in Matching : <<f, e>> \in BetterPairs}) < k}
      /\ IsFiniteSet(T)
  <2>1. k \in Nat /\ IsFiniteSet(Matching) /\ Orders(BetterPairs, Matching)
    BY MatchingIs, BetterOrders DEF SegmentOK, SegmentType
  <2>2. T = {e \in Matching : Cardinality({f \in Matching : <<f, e>> \in BetterPairs}) < k}
    BY <2>1, TopIs
  <2> QED BY <2>1, <2>2, FS_Subset
<1>2. \A e \in Matching : {f \in Matching : <<f, e>> \in BetterPairs} = {f \in Matching : Better(f, e)}
  BY BetterOrders
<1>3. T = {e \in Matching : Cardinality({f \in Matching : Better(f, e)}) < k}
  BY <1>1, <1>2
<1>4. Exhaustive = {[doc |-> d, score |-> Total(d)] : d \in T}
  BY <1>3 DEF Exhaustive
<1> DEFINE f == [d \in T |-> [doc |-> d, score |-> Total(d)]]
<1>5. f \in Surjection(T, Exhaustive) /\ f \in Injection(T, Exhaustive)
  BY <1>4 DEF Surjection, Injection, IsInjective
<1>6. Cardinality(Exhaustive) = Cardinality(T)
  <2> HIDE DEF f
  <2> QED BY <1>1, <1>5, FS_Surjection
<1> QED BY <1>1, <1>4, <1>6

\* When the loop has ended, what is left out of the hits has been beaten.
LEMMA AtTheEnd ==
  ASSUME Inv, done
  PROVE  /\ Hits \subseteq Matching /\ IsFiniteSet(Hits) /\ Cardinality(Hits) = Cardinality(heap)
         /\ heap = {[doc |-> d, score |-> Total(d)] : d \in Hits}
         /\ Cardinality(heap) <= k
         /\ \A d \in Matching \ Hits : Beaten(d)
<1>1. SegmentOK /\ CursorsOK /\ Abreast /\ HeapOK /\ Kept /\ Pivots = {}
  BY DEF Inv
<1>2. /\ heap \subseteq [doc : Docs, score : Nat] /\ IsFiniteSet(heap)
      /\ \A h \in heap : h.doc \in Matching /\ h.score = Total(h.doc)
      /\ Cardinality(heap) <= k
  BY <1>1 DEF HeapOK
<1> DEFINE f == [h \in heap |-> h.doc]
<1>3. f \in Surjection(heap, Hits)
  BY DEF Surjection, Hits
<1>4. f \in Injection(heap, Hits)
  BY <1>2 DEF Injection, IsInjective, Hits
<1>5. IsFiniteSet(Hits) /\ Cardinality(Hits) = Cardinality(heap)
  <2> HIDE DEF f
  <2> QED BY <1>2, <1>3, <1>4, FS_Surjection
<1>6. heap = {[doc |-> d, score |-> Total(d)] : d \in Hits}
  <2>1. \A h \in heap : h = [doc |-> h.doc, score |-> Total(h.doc)]
    BY <1>2
  <2> QED BY <2>1 DEF Hits
<1>7. ASSUME NEW d \in Matching, d \notin Hits PROVE Beaten(d)
  <2>1. CASE Passed(d)
    BY <1>1, <1>7, <2>1 DEF Kept
  <2>2. CASE ~Passed(d)
    <3>1. PICK v \in Terms : Has(v, d)
      BY <1>1, MatchingIs
    <3>2. theta \in Nat
      BY <1>1 DEF HeapOK
    <3>3. theta > 0 /\ (NoLonger => Total(d) <= theta)
      BY <1>1, <2>2, <3>1, <3>2, BelowPivot
    <3>4. Cardinality(heap) = k
      <4>1. Cardinality(heap) \in Nat /\ k \in Nat
        BY <1>1, <1>2, FS_CardinalityType DEF SegmentOK, SegmentType
      <4> QED BY <1>1, <3>3, <4>1 DEF HeapOK
    <3> QED BY <1>1, <2>2, <3>3, <3>4, BeatenByTheta
  <2> QED BY <2>1, <2>2
<1>8. Hits \subseteq Matching
  BY <1>2 DEF Hits
<1> QED BY <1>2, <1>5, <1>6, <1>7, <1>8

\* For any segment, query, tombstones and statistics of an index whose documents are
\* on average no longer than the segment's, Block-Max WAND returns the documents and
\* the scores that the exhaustive scorer does (wand.py search, search_exhaustive).
THEOREM SearchSameAsExhaustive == Spec => []SameAsExhaustive
<1>1. Inv => SameAsExhaustive
  <2> SUFFICES ASSUME Inv, done, NoLonger PROVE heap = Exhaustive
    BY DEF SameAsExhaustive
  <2>1. SegmentOK
    BY DEF Inv
  <2>2. Top(k, Hits, BetterPairs, Matching)
    <3>1. \A d \in Matching \ Hits : Cardinality(Hits) = k /\ \A h \in Hits : Better(h, d)
      BY AtTheEnd DEF Beaten, Hits
    <3>2. \A d \in Matching \ Hits : \A h \in Hits : <<h, d>> \in BetterPairs
      BY <2>1, <3>1, BetterOrders, AtTheEnd
    <3> QED BY <3>1, <3>2, AtTheEnd DEF Top
  <2> QED BY <2>1, <2>2, ExhaustiveIs, AtTheEnd
<1> QED BY <1>1, SpecInv, PTL

\* Whatever the statistics, what is returned is as many live documents as without
\* pruning, each with its score over all terms (wand.py search).
THEOREM SearchScoresAreFull == Spec => []ScoresAreFull
<1>1. Inv => ScoresAreFull
  <2> SUFFICES ASSUME Inv, done
               PROVE  /\ \A h \in heap : h.doc \in Matching /\ h.score = Total(h.doc)
                      /\ Cardinality(heap) = Cardinality(Exhaustive)
    BY DEF ScoresAreFull
  <2>1. SegmentOK /\ HeapOK
    BY DEF Inv
  <2>2. k \in Nat /\ IsFiniteSet(Matching) /\ Orders(BetterPairs, Matching)
    BY <2>1, MatchingIs, BetterOrders DEF SegmentOK, SegmentType
  <2>3. PICK T : Top(k, T, BetterPairs, Matching)
    BY <2>2, TopExists
  <2>4. Cardinality(Exhaustive) = Cardinality(T)
    BY <2>1, <2>3, ExhaustiveIs
  <2>5. T \in SUBSET Matching /\ Cardinality(T) <= k /\ (T # Matching => Cardinality(T) = k)
    BY <2>3 DEF Top
  <2>6. /\ Hits \in SUBSET Matching /\ Cardinality(Hits) = Cardinality(heap)
        /\ Cardinality(Hits) <= k /\ (Hits # Matching => Cardinality(Hits) = k)
    BY AtTheEnd DEF Beaten
  <2>7. Cardinality(Hits) = Cardinality(T)
    BY <2>2, <2>5, <2>6, SameCount
  <2> QED BY <2>1, <2>4, <2>6, <2>7 DEF HeapOK
<1> QED BY <1>1, SpecInv, PTL

\* However the statistics and the maxima lie, the loop goes round at most once for
\* each posting of the query's terms: every turn leaves one behind (wand.py search).
THEOREM SearchTurnsBounded == Spec => []TurnsBounded
<1>1. Inv => TurnsBounded
  <2> SUFFICES ASSUME Inv PROVE TurnsBounded
    OBVIOUS
  <2> DEFINE f == [t \in Terms |-> Cardinality(Gone(t))]
             h == [t \in Terms |-> Cardinality(Postings(t))]
  <2>1. \A t \in Terms : f[t] \in Nat /\ h[t] \in Nat /\ f[t] <= h[t]
    <3> SUFFICES ASSUME NEW t \in Terms
                 PROVE  /\ Cardinality(Gone(t)) \in Nat /\ Cardinality(Postings(t)) \in Nat
                        /\ Cardinality(Gone(t)) <= Cardinality(Postings(t))
      OBVIOUS
    <3>1. IsFiniteSet(Postings(t)) /\ Gone(t) \in SUBSET Postings(t)
      BY PostingsAre DEF Inv, Gone
    <3> QED BY <3>1, FS_Subset, FS_CardinalityType
  <2>2. turns \in Nat /\ turns <= SumFunctionOnSet(f, Terms)
    BY DEF Inv, TurnsCounted
  <2>3. SumFunctionOnSet(f, Terms) <= SumFunctionOnSet(h, Terms)
    <3> HIDE DEF f, h
    <3> QED BY <2>1, TermsFinite, SumMonotonic
  <2>4. SumFunctionOnSet(f, Terms) \in Nat /\ SumFunctionOnSet(h, Terms) \in Nat
    <3> HIDE DEF f, h
    <3> QED BY <2>1, TermsFinite, SumType
  <2>5. turns <= SumFunctionOnSet(h, Terms)
    <3> HIDE DEF f, h
    <3> QED BY <2>2, <2>3, <2>4
  <2> QED BY <2>5 DEF TurnsBounded
<1> QED BY <1>1, SpecInv, PTL

-----------------------------------------------------------------------------
(* Anchors: the sums over links and sites.                                 *)

\* A sum may be taken over other indices, one for each.
LEMMA SumReindexed ==
  ASSUME NEW D, IsFiniteSet(D), NEW f, NEW g, NEW h,
         \A x, y \in D : h[x] = h[y] => x = y,
         \A x \in D : f[h[x]] \in Nat /\ g[x] = f[h[x]]
  PROVE  SumFunctionOnSet(g, D) = SumFunctionOnSet(f, {h[x] : x \in D})
<1> DEFINE Image(E) == {h[x] : x \in E}
           S(E) == SumFunctionOnSet(g, E)
           U(E) == SumFunctionOnSet(f, E)
           B == {E \in SUBSET D : S(E) # U(Image(E))}
<1>1. S({}) = 0 /\ U({}) = 0
  BY FS_EmptySet, SumUnfolds
<1>2. Image({}) = {}
  OBVIOUS
<1>3. ASSUME NEW E \in SUBSET D, NEW x \in E
      PROVE  S(E) = g[x] + S(E \ {x}) /\ U(Image(E)) = f[h[x]] + U(Image(E) \ {h[x]})
  <2>1. IsFiniteSet(E) /\ \A y \in E : g[y] \in Nat
    BY FS_Subset
  <2>2. IsFiniteSet(Image(E)) /\ h[x] \in Image(E) /\ \A y \in Image(E) : f[y] \in Nat
    BY <2>1, FiniteImage
  <2>3. S(E) = g[x] + S(E \ {x})
    BY <2>1, SumRemove
  <2> HIDE DEF Image
  <2>4. U(Image(E)) = f[h[x]] + U(Image(E) \ {h[x]})
    BY <2>2, SumRemove
  <2> QED BY <2>3, <2>4
<1>4. ASSUME NEW E \in SUBSET D, NEW x \in E PROVE Image(E) \ {h[x]} = Image(E \ {x})
  OBVIOUS
<1> HIDE DEF S, U, Image
<1>5. ASSUME B # {} PROVE FALSE
  <2>0. \A E \in B : E \subseteq D
    OBVIOUS
  <2> HIDE DEF B
  <2>1. PICK E \in B : \A F \in B : F \subseteq E => F = E
    BY <1>5, <2>0, LeastSubset
  <2> USE DEF B
  <2>2. E \subseteq D /\ S(E) # U(Image(E))
    BY <2>1
  <2>3. PICK x : x \in E
    BY <1>1, <1>2, <2>2
  <2>4. E \ {x} \subseteq D /\ E \ {x} # E
    BY <2>2, <2>3
  <2>5. S(E \ {x}) = U(Image(E \ {x}))
    BY <2>1, <2>4
  <2>6. g[x] = f[h[x]]
    BY <2>2, <2>3
  <2>7. S(E) = g[x] + S(E \ {x}) /\ U(Image(E)) = f[h[x]] + U(Image(E) \ {h[x]})
    BY <1>3, <2>2, <2>3
  <2>8. Image(E) \ {h[x]} = Image(E \ {x})
    BY <1>4, <2>2, <2>3
  <2> HIDE DEF B
  <2> QED BY <2>2, <2>5, <2>6, <2>7, <2>8
<1>6. S(D) = U(Image(D))
  BY <1>5
<1> QED BY <1>6 DEF S, U, Image

\* A sum of terms that have a bound.
LEMMA SumBounded ==
  ASSUME NEW D, IsFiniteSet(D), NEW f, NEW c \in Nat, \A x \in D : f[x] \in Nat /\ f[x] <= c
  PROVE  SumFunctionOnSet(f, D) <= c * Cardinality(D)
<1> DEFINE S(E) == SumFunctionOnSet(f, E)
           B == {E \in SUBSET D : ~(S(E) <= c * Cardinality(E))}
<1>0. \A E \in SUBSET D : S(E) \in Nat /\ Cardinality(E) \in Nat
  BY FS_Subset, FS_CardinalityType, SumType
<1>a. S({}) = 0 /\ Cardinality({}) = 0
  BY FS_EmptySet, SumUnfolds
<1>b. \A E \in SUBSET D : \A x \in E : /\ S(E) = f[x] + S(E \ {x})
                                       /\ Cardinality(E) = Cardinality(E \ {x}) + 1
  <2> TAKE E \in SUBSET D
  <2> TAKE x \in E
  <2>1. IsFiniteSet(E)
    BY FS_Subset
  <2>2. Cardinality(E \ {x}) = Cardinality(E) - 1 /\ Cardinality(E) \in Nat
    BY <2>1, FS_RemoveElement, FS_CardinalityType
  <2>3. S(E) = f[x] + S(E \ {x})
    BY <2>1, SumRemove
  <2> HIDE DEF S
  <2> QED BY <2>2, <2>3
<1> HIDE DEF S
<1>1. ASSUME B # {} PROVE FALSE
  <2>0. \A E \in B : E \subseteq D
    OBVIOUS
  <2> HIDE DEF B
  <2>1. PICK E \in B : \A F \in B : F \subseteq E => F = E
    BY <1>1, <2>0, LeastSubset
  <2> USE DEF B
  <2>2. E \subseteq D /\ ~(S(E) <= c * Cardinality(E))
    BY <2>1
  <2>3. PICK x : x \in E
    <3>1. E # {}
      BY <1>a, <2>2
    <3> QED BY <3>1
  <2>4. E \ {x} \subseteq D /\ E \ {x} # E
    BY <2>2, <2>3
  <2>5. S(E \ {x}) <= c * Cardinality(E \ {x})
    BY <2>1, <2>4
  <2>6. PICK n \in Nat : n = Cardinality(E \ {x})
    BY <1>0, <2>4
  <2>7. Cardinality(E) = n + 1 /\ S(E) = f[x] + S(E \ {x}) /\ S(E \ {x}) \in Nat /\ f[x] \in Nat /\ f[x] <= c
    BY <1>0, <1>b, <2>2, <2>3, <2>4, <2>6
  <2>8. c * (n + 1) = c * n + c /\ c * n \in Nat
    OBVIOUS
  <2> HIDE DEF B
  <2> QED BY <2>2, <2>5, <2>6, <2>7, <2>8
<1> QED BY <1>1 DEF S

\* A sum over a part is no more than the whole.
LEMMA SumPart ==
  ASSUME NEW D, IsFiniteSet(D), NEW f, \A x \in D : f[x] \in Nat, NEW E \in SUBSET D
  PROVE  SumFunctionOnSet(f, E) <= SumFunctionOnSet(f, D)
<1> DEFINE g == [x \in D |-> IF x \in E THEN f[x] ELSE 0]
<1>1. /\ \A x \in D : g[x] \in Nat /\ g[x] <= f[x]
      /\ \A x \in E : g[x] = f[x] /\ f[x] \in Nat
      /\ \A x \in D \ E : g[x] = 0
  OBVIOUS
<1> HIDE DEF g
<1>2. SumFunctionOnSet(g, D) = SumFunctionOnSet(g, E)
  BY <1>1, SumWithoutZeros
<1>3. SumFunctionOnSet(f, E) = SumFunctionOnSet(g, E)
  BY <1>1, FS_Subset, SumEqual
<1>4. SumFunctionOnSet(g, D) <= SumFunctionOnSet(f, D)
  BY <1>1, SumMonotonic
<1> QED BY <1>2, <1>3, <1>4

-----------------------------------------------------------------------------
(* What one link more or less is to the counts.                            *)

\* A list of links: each has a domain and the tokens of its text.
LinkList(a, P, T) == a \in Seq(P \X Seq(T))

\* A link says a token some number of times, none if the token is not in it.
LEMMA TimesType ==
  ASSUME NEW P, NEW T, NEW a, LinkList(a, P, T), NEW t, NEW n \in 1 .. Len(a)
  PROVE  /\ Times(a, t)[n] \in Nat
         /\ Times(a, t)[n] > 0 <=> t \in ToSet(a[n][2])
         /\ a[n][1] \in P /\ a[n][2] \in Seq(T)
<1>1. DOMAIN a = 1 .. Len(a) /\ a[n] \in P \X Seq(T)
  BY LenProperties, ElementOfSeq DEF LinkList
<1>2. PICK w : w = a[n][2]
  OBVIOUS
<1>3. w \in Seq(T) /\ a[n][1] \in P
  BY <1>1, <1>2
<1> DEFINE I == {i \in DOMAIN w : w[i] = t}
<1>4. IsFiniteSet(I)
  <2>1. DOMAIN w = 1 .. Len(w) /\ Len(w) \in Nat
    BY <1>3, LenProperties
  <2>2. IsFiniteSet(1 .. Len(w))
    BY <2>1, FS_Interval
  <2>3. I \subseteq 1 .. Len(w)
    BY <2>1
  <2> QED BY <2>2, <2>3, FS_Subset
<1>5. Times(a, t)[n] = Cardinality(I)
  BY <1>1, <1>2 DEF Times
<1>6. I # {} <=> t \in ToSet(w)
  BY DEF ToSet
<1> HIDE DEF I
<1>7. Cardinality(I) \in Nat /\ (Cardinality(I) = 0 <=> I = {})
  BY <1>4, FS_CardinalityType, FS_EmptySet
<1> QED BY <1>2, <1>3, <1>5, <1>6, <1>7

\* The links from a domain.
From(a, d) == {n \in DOMAIN a : a[n][1] = d}

\* So does a domain.
LEMMA SaidType ==
  ASSUME NEW P, NEW T, NEW a, LinkList(a, P, T), NEW t, NEW d
  PROVE  /\ Said(a, d, t) \in Nat
         /\ Said(a, d, t) = SumFunctionOnSet(Times(a, t), From(a, d))
         /\ IsFiniteSet(From(a, d)) /\ From(a, d) \subseteq 1 .. Len(a) /\ DOMAIN a = 1 .. Len(a)
         /\ \A n \in From(a, d) : Times(a, t)[n] \in Nat
         /\ Said(a, d, t) > 0 <=> \E n \in From(a, d) : t \in ToSet(a[n][2])
         /\ Said(a, d, t) > 0 => d \in Domains(a)
         /\ IsFiniteSet(Domains(a))
<1>1. DOMAIN a = 1 .. Len(a) /\ Len(a) \in Nat
  BY LenProperties DEF LinkList
<1>2. IsFiniteSet(DOMAIN a)
  BY <1>1, FS_Interval
<1>3. IsFiniteSet(From(a, d)) /\ From(a, d) \subseteq 1 .. Len(a)
  BY <1>1, <1>2, FS_Subset DEF From
<1>4. \A n \in From(a, d) : Times(a, t)[n] \in Nat /\ (Times(a, t)[n] > 0 <=> t \in ToSet(a[n][2]))
  BY <1>3, TimesType
<1>5. Said(a, d, t) = SumFunctionOnSet(Times(a, t), From(a, d))
  BY DEF Said, From
<1>6. Said(a, d, t) \in Nat
  BY <1>3, <1>4, <1>5, SumType
<1>7. ASSUME Said(a, d, t) > 0 PROVE \E n \in From(a, d) : t \in ToSet(a[n][2])
  <2>1. SUFFICES ASSUME \A n \in From(a, d) : ~(t \in ToSet(a[n][2])) PROVE FALSE
    OBVIOUS
  <2>2. \A n \in From(a, d) : Times(a, t)[n] = 0
    BY <1>4, <2>1
  <2>3. SumFunctionOnSet(Times(a, t), From(a, d)) = SumFunctionOnSet(Times(a, t), {})
    BY <1>3, <1>4, <2>2, SumWithoutZeros
  <2>4. SumFunctionOnSet(Times(a, t), {}) = 0
    BY FS_EmptySet, SumUnfolds
  <2> QED BY <1>5, <1>7, <2>3, <2>4
<1>8. ASSUME NEW n \in From(a, d), t \in ToSet(a[n][2]) PROVE Said(a, d, t) > 0
  <2>1. Times(a, t)[n] <= SumFunctionOnSet(Times(a, t), From(a, d))
    BY <1>3, <1>4, SumMember
  <2>2. Times(a, t)[n] \in Nat /\ Times(a, t)[n] > 0
    BY <1>4, <1>8
  <2> QED BY <1>5, <1>6, <2>1, <2>2
<1>9. Said(a, d, t) > 0 => d \in Domains(a)
  BY <1>7 DEF From, Domains
<1>10. IsFiniteSet(Domains(a))
  <2> DEFINE g == [n \in DOMAIN a |-> a[n][1]]
  <2>1. IsFiniteSet({g[n] : n \in DOMAIN a})
    <3> HIDE DEF g
    <3> QED BY <1>2, FiniteImage
  <2>2. {g[n] : n \in DOMAIN a} = Domains(a)
    BY DEF Domains
  <2> QED BY <2>1, <2>2
<1> QED BY <1>1, <1>3, <1>4, <1>5, <1>6, <1>7, <1>8, <1>9, <1>10

\* Where a link is once the n-th is gone.
Skip(m, n) == IF m < n THEN m ELSE m + 1

\* f is a, of L links, without the n-th.
Without(f, a, L, n) ==
  /\ DOMAIN f = 1 .. L - 1
  /\ \A m \in 1 .. L - 1 : Skip(m, n) \in 1 .. L /\ f[m] = a[Skip(m, n)]

\* The list without its n-th link.
LEMMA DroppedIs ==
  ASSUME NEW S, NEW a \in Seq(S), NEW L \in Nat, L = Len(a), NEW n \in 1 .. L
  PROVE  Dropped(a, n) \in Seq(S) /\ Without(Dropped(a, n), a, L, n)
<1>b. PICK b : b = SubSeq(a, 1, n - 1)
  OBVIOUS
<1>c. PICK c : c = SubSeq(a, n + 1, L)
  OBVIOUS
<1>1. \A j \in 1 .. L : a[j] \in S
  BY ElementOfSeq
<1>2. b \in Seq(S) /\ Len(b) = n - 1 /\ \A j \in 1 .. n - 1 : b[j] = a[j]
  <2>1. \A j \in 1 .. n - 1 : a[j] \in S
    BY <1>1
  <2>2. 1 \in Int /\ n - 1 \in Int
    OBVIOUS
  <2>3. /\ b \in Seq(S) /\ Len(b) = IF 1 <= n - 1 THEN n - 1 - 1 + 1 ELSE 0
        /\ \A j \in 1 .. n - 1 - 1 + 1 : b[j] = a[1 + j - 1]
    BY <1>b, <2>1, <2>2, SubSeqProperties
  <2>4. ASSUME NEW j \in 1 .. n - 1 PROVE b[j] = a[j]
    <3>1. j \in 1 .. n - 1 - 1 + 1 /\ 1 + j - 1 = j
      OBVIOUS
    <3> QED BY <2>3, <3>1
  <2>5. Len(b) = n - 1
    BY <2>3
  <2> QED BY <2>3, <2>4, <2>5
<1>3. c \in Seq(S) /\ Len(c) = L - n /\ \A j \in 1 .. L - n : c[j] = a[j + n]
  <2>1. \A j \in n + 1 .. L : a[j] \in S
    BY <1>1
  <2>2. n + 1 \in Int /\ L \in Int
    OBVIOUS
  <2>3. /\ c \in Seq(S) /\ Len(c) = IF n + 1 <= L THEN L - (n + 1) + 1 ELSE 0
        /\ \A j \in 1 .. L - (n + 1) + 1 : c[j] = a[n + 1 + j - 1]
    BY <1>c, <2>1, <2>2, SubSeqProperties
  <2>4. ASSUME NEW j \in 1 .. L - n PROVE c[j] = a[j + n]
    <3>1. j \in 1 .. L - (n + 1) + 1 /\ n + 1 + j - 1 = j + n
      OBVIOUS
    <3> QED BY <2>3, <3>1
  <2>5. Len(c) = L - n
    BY <2>3
  <2> QED BY <2>3, <2>4, <2>5
<1>4. PICK f : f = Dropped(a, n)
  OBVIOUS
<1>5. /\ f \in Seq(S) /\ Len(f) = Len(b) + Len(c)
      /\ \A m \in 1 .. Len(b) + Len(c) : f[m] = IF m <= Len(b) THEN b[m] ELSE c[m - Len(b)]
  <2>1. f = b \o c
    BY <1>b, <1>c, <1>4 DEF Dropped
  <2> QED BY <1>2, <1>3, <2>1, ConcatProperties
<1>6. Len(f) = L - 1 /\ \A m \in 1 .. L - 1 : f[m] = IF m <= n - 1 THEN b[m] ELSE c[m - (n - 1)]
  <2>1. n - 1 + (L - n) = L - 1
    OBVIOUS
  <2>2. Len(b) + Len(c) = L - 1
    BY <1>2, <1>3, <2>1
  <2> QED BY <1>2, <1>5, <2>2
<1>7. ASSUME NEW m \in 1 .. L - 1 PROVE Skip(m, n) \in 1 .. L /\ f[m] = a[Skip(m, n)]
  <2>1. CASE m < n
    <3>1. m \in 1 .. n - 1 /\ m <= n - 1
      BY <2>1
    <3> QED BY <1>2, <1>6, <2>1, <3>1 DEF Skip
  <2>2. CASE ~(m < n)
    <3>1. ~(m <= n - 1) /\ m - (n - 1) \in 1 .. L - n /\ m - (n - 1) + n = m + 1
      BY <2>2
    <3>2. f[m] = c[m - (n - 1)] /\ c[m - (n - 1)] = a[m + 1]
      BY <1>3, <1>6, <3>1
    <3> QED BY <2>2, <3>2 DEF Skip
  <2> QED BY <2>1, <2>2
<1>8. DOMAIN f = 1 .. L - 1
  BY <1>5, <1>6, LenProperties
<1>9. Without(f, a, L, n)
  BY <1>7, <1>8 DEF Without
<1> QED BY <1>4, <1>5, <1>9

\* Without the n-th link its domain says a token that many times less, the others no
\* less.
LEMMA SaidDropped ==
  ASSUME NEW P, NEW T, NEW a, LinkList(a, P, T), NEW t, NEW d, NEW n \in 1 .. Len(a)
  PROVE  Said(a, d, t) = Said(Dropped(a, n), d, t) + (IF a[n][1] = d THEN Times(a, t)[n] ELSE 0)
<1>1. PICK L \in Nat : L = Len(a) /\ DOMAIN a = 1 .. L
  BY LenProperties DEF LinkList
<1>2. PICK f : f = Dropped(a, n)
  OBVIOUS
<1>3. /\ LinkList(f, P, T) /\ DOMAIN f = 1 .. L - 1
      /\ \A m \in 1 .. L - 1 : Skip(m, n) \in 1 .. L /\ f[m] = a[Skip(m, n)]
  <2>1. PICK S : S = P \X Seq(T)
    OBVIOUS
  <2>2. a \in Seq(S) /\ n \in 1 .. L
    BY <1>1, <2>1 DEF LinkList
  <2>3. L = Len(a)
    BY <1>1
  <2>4. Dropped(a, n) \in Seq(S) /\ Without(Dropped(a, n), a, L, n)
    BY <2>2, <2>3, DroppedIs
  <2>5. f \in Seq(S) /\ Without(f, a, L, n)
    BY <1>2, <2>4
  <2>6. LinkList(f, P, T)
    BY <2>1, <2>5 DEF LinkList
  <2> QED BY <2>5, <2>6 DEF Without
<1> DEFINE h == [m \in 1 .. L - 1 |-> Skip(m, n)]
           D == From(f, d)
<1>4. /\ IsFiniteSet(D) /\ D \subseteq 1 .. L - 1
      /\ Said(f, d, t) = SumFunctionOnSet(Times(f, t), D)
  BY <1>3, SaidType
<1>5. \A x, y \in D : h[x] = h[y] => x = y
  BY <1>1, <1>4 DEF Skip
<1>6. \A x \in D : Times(a, t)[h[x]] \in Nat /\ Times(f, t)[x] = Times(a, t)[h[x]]
  <2> TAKE x \in D
  <2>1. x \in 1 .. L - 1 /\ h[x] \in 1 .. L /\ f[x] = a[h[x]]
    BY <1>3, <1>4
  <2>2. Times(f, t)[x] = Times(a, t)[h[x]]
    BY <1>1, <1>3, <2>1 DEF Times
  <2>3. Times(a, t)[h[x]] \in Nat
    BY <1>1, <2>1, TimesType
  <2> QED BY <2>2, <2>3
<1>7. {h[x] : x \in D} = From(a, d) \ {n}
  <2>1. ASSUME NEW x \in D PROVE h[x] \in From(a, d) \ {n}
    <3>1. x \in 1 .. L - 1 /\ h[x] \in 1 .. L /\ f[x] = a[h[x]] /\ f[x][1] = d
      BY <1>3, <1>4 DEF From
    <3>2. h[x] # n
      BY <1>1, <3>1 DEF Skip
    <3> QED BY <1>1, <3>1, <3>2 DEF From
  <2>2. ASSUME NEW e \in From(a, d) \ {n} PROVE \E x \in D : h[x] = e
    <3>1. e \in 1 .. L /\ e # n /\ a[e][1] = d
      BY <1>1 DEF From
    <3>2. PICK x : x = IF e < n THEN e ELSE e - 1
      OBVIOUS
    <3>3. x \in 1 .. L - 1 /\ Skip(x, n) = e
      BY <1>1, <3>1, <3>2 DEF Skip
    <3>4. h[x] = e /\ f[x] = a[e]
      BY <1>3, <3>3
    <3>5. x \in D
      BY <1>3, <3>1, <3>3, <3>4 DEF From
    <3> QED BY <3>4, <3>5
  <2> HIDE DEF h, D
  <2> QED BY <2>1, <2>2
<1>8. Said(f, d, t) = SumFunctionOnSet(Times(a, t), From(a, d) \ {n})
  <2> HIDE DEF h, D
  <2>1. SumFunctionOnSet(Times(f, t), D) = SumFunctionOnSet(Times(a, t), {h[x] : x \in D})
    <3>1. PICK u, v : u = Times(a, t) /\ v = Times(f, t)
      OBVIOUS
    <3>2. \A x \in D : u[h[x]] \in Nat /\ v[x] = u[h[x]]
      BY <1>6, <3>1
    <3>3. SumFunctionOnSet(v, D) = SumFunctionOnSet(u, {h[x] : x \in D})
      <4>1. IsFiniteSet(D) /\ \A x, y \in D : h[x] = h[y] => x = y
        BY <1>4, <1>5
      <4> QED BY <3>2, <4>1, SumReindexed
    <3> QED BY <3>1, <3>3
  <2> QED BY <1>4, <1>7, <2>1
<1>9. /\ Said(a, d, t) = SumFunctionOnSet(Times(a, t), From(a, d)) /\ IsFiniteSet(From(a, d))
      /\ Said(a, d, t) \in Nat
      /\ \A m \in From(a, d) : Times(a, t)[m] \in Nat
  BY SaidType
<1>10. CASE a[n][1] = d
  <2>1. n \in From(a, d)
    BY <1>1, <1>10 DEF From
  <2>2. SumFunctionOnSet(Times(a, t), From(a, d)) =
          Times(a, t)[n] + SumFunctionOnSet(Times(a, t), From(a, d) \ {n})
    BY <1>9, <2>1, SumRemove
  <2>3. Said(f, d, t) \in Nat /\ Times(a, t)[n] \in Nat
    BY <1>3, <1>9, <2>1, SaidType
  <2> QED BY <1>2, <1>8, <1>9, <1>10, <2>2, <2>3
<1>11. CASE a[n][1] # d
  <2>1. From(a, d) \ {n} = From(a, d)
    BY <1>11 DEF From
  <2>2. Said(f, d, t) \in Nat /\ Said(a, d, t) = Said(f, d, t)
    BY <1>3, <1>8, <1>9, <2>1, SaidType
  <2>3. Said(a, d, t) = Said(f, d, t) + 0
    BY <2>2
  <2> QED BY <1>2, <1>11, <2>3
<1> QED BY <1>10, <1>11

\* A number less than M scales down by n out of M, to one at least and no more than it was.
LEMMA DiscountedType ==
  ASSUME NEW c \in Nat \ {0}, NEW e \in Nat
  PROVE  /\ Discounted(c, e) \in Nat /\ 1 <= Discounted(c, e) /\ Discounted(c, e) <= c
         /\ \A b \in Nat \ {0}, j \in Nat : b <= c /\ j <= e => Discounted(b, j) <= Discounted(c, e)
<1>1. MinDomains \in Nat \ {0}
  BY CapsType
<1>2. ASSUME NEW b \in Nat, NEW j \in Nat
      PROVE  /\ (b * j) \div MinDomains \in Nat
             /\ Max({1, (b * j) \div MinDomains}) \in {1, (b * j) \div MinDomains}
             /\ 1 <= Max({1, (b * j) \div MinDomains})
             /\ (b * j) \div MinDomains <= Max({1, (b * j) \div MinDomains})
             /\ j < MinDomains => (b * j) \div MinDomains <= b
  <2>1. b * j \in Nat
    BY ProductMonotonic
  <2>2. PICK q : q = (b * j) \div MinDomains
    OBVIOUS
  <2>3. q \in Nat /\ q * MinDomains <= b * j
    BY <1>1, <2>1, <2>2, Quotient
  <2>4. IsFiniteSet({1, q}) /\ {1, q} # {} /\ {1, q} \in SUBSET Nat
    <3>1. IsFiniteSet({1})
      BY FS_Singleton
    <3>2. IsFiniteSet({1} \cup {q})
      BY <3>1, FS_AddElement
    <3>3. {1} \cup {q} = {1, q}
      OBVIOUS
    <3> QED BY <2>3, <3>2, <3>3
  <2>5. Max({1, q}) \in {1, q} /\ 1 <= Max({1, q}) /\ q <= Max({1, q})
    BY <2>4, MaxNat
  <2>6. ASSUME j < MinDomains PROVE q <= b
    <3>1. SUFFICES ASSUME q >= b + 1 PROVE FALSE
      BY <2>3
    <3>2. (b + 1) * MinDomains <= q * MinDomains
      BY <1>1, <2>3, <3>1, ProductMonotonic
    <3>3. b * j <= b * MinDomains
      BY <1>1, <2>6, ProductMonotonic
    <3>4. (b + 1) * MinDomains = b * MinDomains + MinDomains /\ b * MinDomains \in Nat
      BY <1>1
    <3>5. (b + 1) * MinDomains \in Nat /\ q * MinDomains \in Nat
      BY <1>1, <2>3, ProductMonotonic
    <3> QED BY <1>1, <2>1, <2>3, <3>2, <3>3, <3>4, <3>5
  <2> QED BY <2>2, <2>3, <2>5, <2>6
<1>3. ASSUME NEW b \in Nat \ {0}, NEW j \in Nat
      PROVE  /\ Discounted(b, j) \in Nat /\ 1 <= Discounted(b, j) /\ Discounted(b, j) <= b
             /\ j >= MinDomains => Discounted(b, j) = b
             /\ j < MinDomains => Discounted(b, j) = Max({1, (b * j) \div MinDomains})
  <2>1. CASE j < MinDomains
    <3>1. Discounted(b, j) = Max({1, (b * j) \div MinDomains})
      BY <2>1 DEF Discounted
    <3>2. PICK m : m = Max({1, (b * j) \div MinDomains})
      OBVIOUS
    <3>3. PICK q : q = (b * j) \div MinDomains
      OBVIOUS
    <3>4. q \in Nat /\ m \in {1, q} /\ 1 <= m /\ q <= b
      BY <1>2, <2>1, <3>2, <3>3
    <3> QED BY <1>1, <2>1, <3>1, <3>2, <3>4
  <2>2. CASE ~(j < MinDomains)
    <3>1. Discounted(b, j) = b
      BY <2>2 DEF Discounted
    <3> QED BY <2>2, <3>1
  <2> QED BY <2>1, <2>2
<1>4. ASSUME NEW b \in Nat \ {0}, NEW j \in Nat, b <= c, j <= e
      PROVE  Discounted(b, j) <= Discounted(c, e)
  <2>1. CASE e >= MinDomains
    <3>1. PICK p, q : p = Discounted(b, j) /\ q = Discounted(c, e)
      OBVIOUS
    <3>2. p \in Nat /\ p <= b /\ q = c
      BY <1>3, <2>1, <3>1
    <3> QED BY <1>4, <3>1, <3>2
  <2>2. CASE e < MinDomains
    <3>1. PICK p, q : p = (b * j) \div MinDomains /\ q = (c * e) \div MinDomains
      OBVIOUS
    <3>2. PICK m, n : m = Max({1, p}) /\ n = Max({1, q})
      OBVIOUS
    <3>3. j < MinDomains
      BY <1>1, <1>4, <2>2
    <3>4. Discounted(b, j) = m /\ Discounted(c, e) = n
      BY <1>3, <2>2, <3>1, <3>2, <3>3
    <3>5. p \in Nat /\ q \in Nat /\ m \in {1, p} /\ 1 <= n /\ q <= n /\ n \in {1, q}
      BY <1>2, <3>1, <3>2
    <3>6. p <= q
      <4>1. b * j \in Nat /\ c * e \in Nat /\ b * j <= c * e
        <5>1. b * j <= b * e /\ b * j \in Nat /\ b * e \in Nat
          BY <1>4, ProductMonotonic
        <5>2. b * e <= c * e /\ c * e \in Nat
          BY <1>4, ProductMonotonic
        <5> QED BY <5>1, <5>2
      <4>2. p * MinDomains <= b * j
        BY <1>1, <3>1, <4>1, Quotient
      <4>3. p * MinDomains <= c * e
        <5>1. p * MinDomains \in Nat
          BY <1>1, <3>5, ProductMonotonic
        <5> QED BY <4>1, <4>2, <5>1
      <4> QED BY <1>1, <3>1, <3>5, <4>1, <4>3, Quotient
    <3> QED BY <3>4, <3>5, <3>6
  <2> QED BY <1>1, <2>1, <2>2
<1> QED BY <1>3, <1>4

\* What a site may add to a term's count.
Share(a, d, t) == Min({Said(a, d, t), PerDomainCap})

\* It is the lesser of the two.
LEMMA ShareIs ==
  ASSUME NEW P, NEW T, NEW a, LinkList(a, P, T), NEW t, NEW d
  PROVE  /\ Share(a, d, t) \in Nat /\ Share(a, d, t) <= PerDomainCap
         /\ Share(a, d, t) = IF Said(a, d, t) <= PerDomainCap THEN Said(a, d, t) ELSE PerDomainCap
<1>1. PICK x : x = Said(a, d, t)
  OBVIOUS
<1>2. x \in Nat /\ PerDomainCap \in Nat
  BY <1>1, SaidType, CapsType
<1>3. {x, PerDomainCap} \in SUBSET Nat /\ {x, PerDomainCap} # {}
  BY <1>2
<1>4. PICK m : m = Min({x, PerDomainCap})
  OBVIOUS
<1>5. m \in {x, PerDomainCap} /\ m <= x /\ m <= PerDomainCap
  BY <1>3, <1>4, MinNat
<1> QED BY <1>1, <1>2, <1>4, <1>5 DEF Share

\* A term's count is the sum of what the sites that say it may add: it is not zero for
\* a token of some link, and no more than the cap of each site.
LEMMA CappedType ==
  ASSUME NEW P, NEW T, NEW a, LinkList(a, P, T), NEW t
  PROVE  /\ IsFiniteSet(Saying(a, t)) /\ Cardinality(Saying(a, t)) \in Nat
         /\ Saying(a, t) = {d \in Domains(a) : Said(a, d, t) > 0}
         /\ Capped(a, t) = SumFunctionOnSet([d \in Domains(a) |-> Share(a, d, t)], Saying(a, t))
         /\ Capped(a, t) \in Nat
         /\ Capped(a, t) <= PerDomainCap * Cardinality(Saying(a, t))
         /\ t \in Tokens(a) => Capped(a, t) > 0
         /\ t \in Tokens(a) <=> \E d \in Domains(a) : Said(a, d, t) > 0
<1> DEFINE f == [d \in Domains(a) |-> Share(a, d, t)]
<1>1. Saying(a, t) = {d \in Domains(a) : Said(a, d, t) > 0} /\ Saying(a, t) \subseteq Domains(a)
  BY DEF Saying
<1>2. IsFiniteSet(Saying(a, t)) /\ Cardinality(Saying(a, t)) \in Nat
  BY <1>1, SaidType, FS_Subset, FS_CardinalityType
<1>3. Capped(a, t) = SumFunctionOnSet(f, Saying(a, t))
  BY DEF Capped, Share
<1>4. \A d \in Saying(a, t) : f[d] = Share(a, d, t) /\ f[d] \in Nat /\ f[d] <= PerDomainCap
  <2> TAKE d \in Saying(a, t)
  <2>1. Share(a, d, t) \in Nat /\ Share(a, d, t) <= PerDomainCap
    BY ShareIs
  <2>2. f[d] = Share(a, d, t)
    BY <1>1
  <2> HIDE DEF f
  <2> QED BY <2>1, <2>2
<1> HIDE DEF f
<1>5. Capped(a, t) \in Nat
  BY <1>2, <1>3, <1>4, SumType
<1>6. Capped(a, t) <= PerDomainCap * Cardinality(Saying(a, t))
  BY <1>2, <1>3, <1>4, SumBounded, CapsType
<1>7. t \in Tokens(a) <=> \E d \in Domains(a) : Said(a, d, t) > 0
  <2>1. ASSUME t \in Tokens(a) PROVE \E d \in Domains(a) : Said(a, d, t) > 0
    <3>1. PICK n \in DOMAIN a : t \in ToSet(a[n][2])
      BY <2>1 DEF Tokens
    <3>2. n \in From(a, a[n][1]) /\ a[n][1] \in Domains(a)
      BY DEF From, Domains
    <3>3. Said(a, a[n][1], t) > 0
      BY <3>1, <3>2, SaidType
    <3> QED BY <3>2, <3>3
  <2>2. ASSUME NEW d \in Domains(a), Said(a, d, t) > 0 PROVE t \in Tokens(a)
    <3>1. PICK n \in From(a, d) : t \in ToSet(a[n][2])
      BY <2>2, SaidType
    <3> QED BY <3>1 DEF From, Tokens
  <2> QED BY <2>1, <2>2
<1>8. ASSUME t \in Tokens(a) PROVE Capped(a, t) > 0
  <2>1. PICK d \in Saying(a, t) : Said(a, d, t) > 0
    BY <1>1, <1>7, <1>8
  <2>2. f[d] > 0
    <3>1. Said(a, d, t) \in Nat /\ PerDomainCap \in Nat \ {0}
      BY SaidType, CapsType
    <3>2. Share(a, d, t) > 0
      BY <2>1, <3>1, ShareIs
    <3> QED BY <1>4, <3>2
  <2>3. f[d] <= SumFunctionOnSet(f, Saying(a, t)) /\ f[d] \in Nat
    BY <1>2, <1>4, SumMember
  <2> QED BY <1>3, <1>5, <2>2, <2>3
<1> QED BY <1>1, <1>2, <1>3, <1>5, <1>6, <1>7, <1>8 DEF f

\* One link less leaves no more sites that say a term, and no site that says it more.
LEMMA CappedDropped ==
  ASSUME NEW P, NEW T, NEW a, LinkList(a, P, T), NEW t, NEW n \in 1 .. Len(a),
         NEW f, f = Dropped(a, n)
  PROVE  /\ LinkList(f, P, T)
         /\ Capped(f, t) <= Capped(a, t)
         /\ Cardinality(Saying(f, t)) <= Cardinality(Saying(a, t))
         /\ Said(a, a[n][1], t) - Times(a, t)[n] >= PerDomainCap
              => Saying(f, t) = Saying(a, t) /\ Capped(f, t) = Capped(a, t)
<1>1. LinkList(f, P, T)
  <2>1. PICK S : S = P \X Seq(T)
    OBVIOUS
  <2>2. PICK L \in Nat : L = Len(a)
    BY LenProperties DEF LinkList
  <2>3. a \in Seq(S) /\ n \in 1 .. L
    BY <2>1, <2>2 DEF LinkList
  <2>4. Dropped(a, n) \in Seq(S)
    BY <2>2, <2>3, DroppedIs
  <2> QED BY <2>1, <2>4 DEF LinkList
<1>2. Times(a, t)[n] \in Nat
  BY TimesType
<1>3. \A d : /\ Said(f, d, t) \in Nat /\ Said(a, d, t) \in Nat
             /\ Said(a, d, t) = Said(f, d, t) + (IF a[n][1] = d THEN Times(a, t)[n] ELSE 0)
  BY <1>1, SaidType, SaidDropped
<1>4. \A d : Said(f, d, t) <= Said(a, d, t)
  BY <1>2, <1>3
<1> DEFINE u == [d \in Domains(a) |-> Share(a, d, t)]
           v == [d \in Domains(f) |-> Share(f, d, t)]
<1>5. /\ Saying(f, t) = {d \in Domains(f) : Said(f, d, t) > 0}
      /\ Saying(a, t) = {d \in Domains(a) : Said(a, d, t) > 0}
      /\ IsFiniteSet(Saying(f, t)) /\ IsFiniteSet(Saying(a, t))
      /\ Capped(f, t) = SumFunctionOnSet(v, Saying(f, t))
      /\ Capped(a, t) = SumFunctionOnSet(u, Saying(a, t))
      /\ Capped(f, t) \in Nat /\ Capped(a, t) \in Nat
  <2>1. Capped(f, t) = SumFunctionOnSet(v, Saying(f, t))
    BY <1>1, CappedType
  <2>2. Capped(a, t) = SumFunctionOnSet(u, Saying(a, t))
    BY CappedType
  <2> HIDE DEF u, v
  <2>3. /\ Saying(f, t) = {d \in Domains(f) : Said(f, d, t) > 0}
        /\ Saying(a, t) = {d \in Domains(a) : Said(a, d, t) > 0}
    BY DEF Saying
  <2>4. /\ IsFiniteSet(Saying(f, t)) /\ Capped(f, t) \in Nat
        /\ IsFiniteSet(Saying(a, t)) /\ Capped(a, t) \in Nat
    BY <1>1, CappedType
  <2> QED BY <2>1, <2>2, <2>3, <2>4
<1>6. \A d : /\ Said(f, d, t) > 0 => d \in Domains(f)
             /\ Said(a, d, t) > 0 => d \in Domains(a)
  BY <1>1, SaidType
<1>7. Saying(f, t) \subseteq Saying(a, t)
  BY <1>3, <1>4, <1>5, <1>6
<1>8. \A d : /\ Share(f, d, t) \in Nat /\ Share(a, d, t) \in Nat
             /\ Share(f, d, t) = IF Said(f, d, t) <= PerDomainCap THEN Said(f, d, t) ELSE PerDomainCap
             /\ Share(a, d, t) = IF Said(a, d, t) <= PerDomainCap THEN Said(a, d, t) ELSE PerDomainCap
  BY <1>1, ShareIs
<1>9. PerDomainCap \in Nat \ {0}
  BY CapsType
<1>10. \A d : Share(f, d, t) <= Share(a, d, t)
  BY <1>3, <1>4, <1>8, <1>9
<1>11. /\ \A d \in Saying(f, t) : v[d] = Share(f, d, t)
       /\ \A d \in Saying(a, t) : u[d] = Share(a, d, t)
  BY <1>5
<1> HIDE DEF u, v
<1>12. Capped(f, t) <= Capped(a, t)
  <2>1. \A d \in Saying(f, t) : v[d] \in Nat /\ u[d] \in Nat /\ v[d] <= u[d]
    BY <1>7, <1>8, <1>10, <1>11
  <2>2. SumFunctionOnSet(v, Saying(f, t)) <= SumFunctionOnSet(u, Saying(f, t))
    BY <1>5, <2>1, SumMonotonic
  <2>3. SumFunctionOnSet(u, Saying(f, t)) <= SumFunctionOnSet(u, Saying(a, t))
    BY <1>5, <1>7, <1>8, <1>11, SumPart
  <2>4. SumFunctionOnSet(u, Saying(f, t)) \in Nat
    BY <1>5, <2>1, SumType
  <2> QED BY <1>5, <2>2, <2>3, <2>4
<1>13. Cardinality(Saying(f, t)) <= Cardinality(Saying(a, t))
  BY <1>5, <1>7, FS_Subset
<1>14. ASSUME Said(a, a[n][1], t) - Times(a, t)[n] >= PerDomainCap
       PROVE  Saying(f, t) = Saying(a, t) /\ Capped(f, t) = Capped(a, t)
  <2>1. Said(f, a[n][1], t) >= PerDomainCap
    BY <1>2, <1>3, <1>9, <1>14
  <2>2. \A d : Said(a, d, t) > 0 => Said(f, d, t) > 0
    <3> SUFFICES ASSUME NEW d, Said(a, d, t) > 0 PROVE Said(f, d, t) > 0
      OBVIOUS
    <3>1. CASE a[n][1] = d
      BY <1>3, <1>9, <2>1, <3>1
    <3>2. CASE a[n][1] # d
      BY <1>3, <3>2
    <3> QED BY <3>1, <3>2
  <2>3. Saying(f, t) = Saying(a, t)
    BY <1>5, <1>6, <1>7, <2>2
  <2>4. \A d : Share(f, d, t) = Share(a, d, t)
    <3> TAKE d
    <3>1. CASE a[n][1] = d
      <4>1. Said(f, d, t) >= PerDomainCap /\ Said(a, d, t) >= PerDomainCap
        BY <1>3, <1>4, <1>9, <2>1, <3>1
      <4> QED BY <1>3, <1>8, <1>9, <4>1
    <3>2. CASE a[n][1] # d
      <4>1. Said(f, d, t) = Said(a, d, t)
        BY <1>3, <3>2
      <4> QED BY <1>8, <4>1
    <3> QED BY <3>1, <3>2
  <2>5. \A d \in Saying(a, t) : u[d] \in Nat /\ u[d] = v[d]
    BY <1>8, <1>11, <2>3, <2>4
  <2>6. SumFunctionOnSet(u, Saying(a, t)) = SumFunctionOnSet(v, Saying(a, t))
    BY <1>5, <2>5, SumEqual
  <2> QED BY <1>5, <2>3, <2>6
<1> QED BY <1>1, <1>12, <1>13, <1>14

\* So it is for every list of links.
LEMMA SitesCount ==
  ASSUME NEW P, NEW T, LinkList(linked, P, T)
  PROVE  AnchorsCountSites
<1>0. PICK a : a = linked
  OBVIOUS
<1>1. SUFFICES ASSUME NEW n \in DOMAIN a, NEW t \in Tokens(a)
               PROVE  /\ Count(Aggregate(Dropped(a, n)), t) <= Aggregate(a)[t]
                      /\ Aggregate(a)[t] <= PerDomainCap * Cardinality(Saying(a, t))
                      /\ Said(a, a[n][1], t) - Times(a, t)[n] >= PerDomainCap
                           => Count(Aggregate(Dropped(a, n)), t) = Aggregate(a)[t]
  BY <1>0 DEF AnchorsCountSites, Aggregate
<1>2. LinkList(a, P, T)
  BY <1>0
<1>3. n \in 1 .. Len(a)
  BY <1>2, LenProperties DEF LinkList
<1>4. PICK f : f = Dropped(a, n)
  OBVIOUS
<1>5. PICK c, e : c = Capped(a, t) /\ e = Cardinality(Saying(a, t))
  OBVIOUS
<1>6. PICK b, j : b = Capped(f, t) /\ j = Cardinality(Saying(f, t))
  OBVIOUS
<1>7. /\ c \in Nat \ {0} /\ e \in Nat /\ c <= PerDomainCap * e
      /\ \E d \in Domains(a) : Said(a, d, t) > 0
  <2>1. c > 0 /\ c \in Nat /\ e \in Nat
    BY <1>2, <1>5, CappedType
  <2>2. c <= PerDomainCap * e /\ \E d \in Domains(a) : Said(a, d, t) > 0
    BY <1>2, <1>5, CappedType
  <2> QED BY <2>1, <2>2
<1>8. /\ LinkList(f, P, T) /\ b <= c /\ j <= e
      /\ Said(a, a[n][1], t) - Times(a, t)[n] >= PerDomainCap => Saying(f, t) = Saying(a, t) /\ b = c
  BY <1>2, <1>3, <1>4, <1>5, <1>6, CappedDropped
<1>9. /\ b \in Nat /\ j \in Nat /\ (t \in Tokens(f) => b > 0)
      /\ t \in Tokens(f) <=> \E d \in Domains(f) : Said(f, d, t) > 0
      /\ Saying(f, t) = {d \in Domains(f) : Said(f, d, t) > 0}
  <2>1. LinkList(f, P, T)
    BY <1>8
  <2>2. /\ Capped(f, t) \in Nat /\ Cardinality(Saying(f, t)) \in Nat
    BY <2>1, CappedType
  <2>3. t \in Tokens(f) => Capped(f, t) > 0
    BY <2>1, CappedType
  <2>4. t \in Tokens(f) <=> \E d \in Domains(f) : Said(f, d, t) > 0
    BY <2>1, CappedType
  <2>5. Saying(f, t) = {d \in Domains(f) : Said(f, d, t) > 0}
    BY DEF Saying
  <2> QED BY <1>6, <2>2, <2>3, <2>4, <2>5
<1>10. Aggregate(a)[t] = Discounted(c, e)
  BY <1>5 DEF Aggregate
<1>11. Count(Aggregate(f), t) = IF t \in Tokens(f) THEN Discounted(b, j) ELSE 0
  BY <1>6 DEF Count, Aggregate
<1>12. Discounted(c, e) \in Nat /\ Discounted(c, e) <= c /\ 1 <= Discounted(c, e)
  BY <1>7, DiscountedType
<1>13. Count(Aggregate(f), t) <= Aggregate(a)[t]
  <2>1. CASE t \in Tokens(f)
    <3>1. b \in Nat \ {0} /\ j \in Nat /\ b <= c /\ j <= e
      BY <1>8, <1>9, <2>1
    <3>2. Discounted(b, j) <= Discounted(c, e)
      BY <1>7, <3>1, DiscountedType
    <3> QED BY <1>10, <1>11, <2>1, <3>2
  <2>2. CASE t \notin Tokens(f)
    BY <1>10, <1>11, <1>12, <2>2
  <2> QED BY <2>1, <2>2
<1>14. Aggregate(a)[t] <= PerDomainCap * e
  <2>1. PerDomainCap * e \in Nat
    BY <1>7, CapsType, ProductMonotonic
  <2> QED BY <1>7, <1>10, <1>12, <2>1
<1>15. ASSUME Said(a, a[n][1], t) - Times(a, t)[n] >= PerDomainCap
       PROVE  Count(Aggregate(f), t) = Aggregate(a)[t]
  <2>1. Saying(f, t) = Saying(a, t) /\ b = c
    BY <1>8, <1>15
  <2>2. t \in Tokens(f)
    <3>1. Saying(a, t) # {}
      BY <1>7 DEF Saying
    <3> QED BY <1>9, <2>1, <3>1
  <2>3. j = e
    BY <1>5, <1>6, <2>1
  <2> QED BY <1>10, <1>11, <2>1, <2>2, <2>3
<1> QED BY <1>4, <1>5, <1>13, <1>14, <1>15

\* Anchors count by sites, whatever links a page comes to have: one more link never takes
\* from a term, a term has no more than the cap of every site that says it, and a site
\* that repeats itself beyond the cap changes nothing (bm25f.py:234).
THEOREM SitesAreCapped ==
  ASSUME NEW P, NEW T, Links \subseteq P \X Seq(T)
  PROVE  AnchorsSpec => []AnchorsCountSites
<1> DEFINE AreLinks == LinkList(linked, P, T)
<1>1. AnchorsInit => AreLinks
  BY DEF AnchorsInit, LinkList
<1>2. AreLinks /\ [Linked \/ Aggregated]_linked => AreLinks'
  <2>1. SUFFICES ASSUME AreLinks, [Linked \/ Aggregated]_linked PROVE AreLinks'
    OBVIOUS
  <2>2. CASE Linked
    <3>1. PICK link \in P \X Seq(T) : linked' = Append(linked, link)
      BY <2>2 DEF Linked
    <3>2. PICK S : S = P \X Seq(T)
      OBVIOUS
    <3>3. linked \in Seq(S) /\ link \in S
      BY <2>1, <3>1, <3>2 DEF LinkList
    <3>4. linked' \in Seq(S)
      BY <3>1, <3>3
    <3> QED BY <3>2, <3>4 DEF LinkList
  <2>3. CASE Aggregated
    BY <2>3 DEF Aggregated, LinkList
  <2>4. CASE UNCHANGED linked
    BY <2>1, <2>4 DEF LinkList
  <2> QED BY <2>1, <2>2, <2>3, <2>4
<1>3. AreLinks => AnchorsCountSites
  BY SitesCount
<1> HIDE DEF AreLinks
<1> QED BY <1>1, <1>2, <1>3, PTL DEF AnchorsSpec
=============================================================================
