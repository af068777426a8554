------------------------------- MODULE Search -------------------------------
(***************************************************************************)
(* Block-Max WAND over one segment: how the postings of the query's terms  *)
(* are blocked with their saturation maxima, the cursors that skip over    *)
(* them, and the pruning loop, against the exhaustive scorer.              *)
(*                                                                         *)
(* A step is one turn of the loop.  Scores are whole numbers: Saturation   *)
(* is the code's fraction with k1 = 1.2 and b = 0.75, times Scale and      *)
(* rounded down, for the written maxima and the query alike.  Bit packing  *)
(* and positions are left out.                                             *)
(***************************************************************************)
EXTENDS Integers, Sequences, FiniteSets, FiniteSetsExt, SequencesExt, Functions

CONSTANTS
  Terms,       \* the query's terms
  NDocs,       \* documents in the segment
  BlockSize,   \* BLOCK_SIZE
  Idf,         \* a term's idf, which no document changes
  Freqs,       \* how often a term may be in a document
  Lengths,     \* the lengths the documents may have, as tuples
  Ks,          \* how many results are asked for
  Tombstones,  \* the sets of documents that may be deleted
  Elsewhere,   \* the statistics the rest of the index may have
  Scale

Docs == 0 .. NDocs - 1
NoMore == NDocs

ASSUME NDocsType == NDocs \in Nat \ {0} /\ BlockSize \in Nat \ {0}
ASSUME TermsFinite == IsFiniteSet(Terms) /\ Idf \in [Terms -> Nat \ {0}]
ASSUME QueryType ==
  /\ Freqs \subseteq Nat /\ Lengths \subseteq [Docs -> Nat \ {0}] /\ Ks \subseteq Nat \ {0}
  /\ Tombstones \subseteq SUBSET Docs /\ Scale \in Nat \ {0}
  /\ Elsewhere \subseteq [docs : Nat \ {0}, tokens : Nat \ {0}]

VARIABLES
  blocks,  \* a term's postings in the segment, block by block
  len,     \* the documents' lengths
  dead,    \* the tombstones
  stats,   \* the corpus statistics the query is scored with
  k,
  at,      \* a term's cursor: its block, and the posting there
  heap,    \* the hits so far
  theta,
  done,
  turns    \* how often the loop went round (history)

segVars == <<blocks, len, dead, stats, k>>
vars == <<segVars, at, heap, theta, done, turns>>

-----------------------------------------------------------------------------
(* BM25 and the written segment.                                           *)

Saturation(tf, length, st) ==
  (Scale * 22 * tf * st.tokens) \div
    ((10 * tf + 3) * st.tokens + 9 * length * st.docs)

Own(lengths) ==
  [docs |-> NDocs, tokens |-> SumFunctionOnSet(lengths, Docs)]

MergedWith(st, other) ==
  [docs |-> st.docs + other.docs, tokens |-> st.tokens + other.tokens]

ASSUME ScaleIsFine == \* A weight the code has as a fraction is none that rounds to zero.
  \A lengths \in Lengths : \A d \in Docs, tf \in Freqs \ {0} :
    Saturation(tf, lengths[d], Own(lengths)) > 0

InOrder(docs) ==
  CHOOSE s \in [1 .. Cardinality(docs) -> docs] : \A i, j \in DOMAIN s : i < j => s[i] < s[j]

\* A block has the largest saturation in it under the segment's own statistics.
Block(docs, freq, lengths) ==
  [docs |-> docs,
   freqs |-> [i \in DOMAIN docs |-> freq[docs[i]]],
   max |-> Max({Saturation(freq[d], lengths[d], Own(lengths)) : d \in ToSet(docs)})]

\* The postings of a term by docID, cut into blocks.
Written(freq, lengths) ==
  LET docs == InOrder({d \in Docs : freq[d] > 0})
  IN  [b \in 1 .. (Len(docs) + BlockSize - 1) \div BlockSize |->
         Block(SubSeq(docs, (b - 1) * BlockSize + 1, Min({b * BlockSize, Len(docs)})),
               freq, lengths)]

-----------------------------------------------------------------------------
(* PostingCursor.                                                          *)

NBlocks(t) == Len(blocks[t])
LastDoc(t, b) == Last(blocks[t][b].docs)
Spent(t, c) == c.block > NBlocks(t)
DocOf(t, c) == IF Spent(t, c) THEN NoMore ELSE blocks[t][c.block].docs[c.i]
Doc(t) == DocOf(t, at[t])
Freq(t) == blocks[t][at[t].block].freqs[at[t].i]

\* The first block from the cursor's on that reaches the target; the cursor
\* stays where it is.
BlockContaining(t, target) ==
  Min({b \in at[t].block .. NBlocks(t) : LastDoc(t, b) >= target}
      \cup {NBlocks(t) + 1})

BlockMaxAt(t, target) ==
  LET b == BlockContaining(t, target)
  IN  IF b > NBlocks(t) THEN 0 ELSE blocks[t][b].max

BlockLastAt(t, target) ==
  LET b == BlockContaining(t, target)
  IN  IF b > NBlocks(t) THEN NoMore ELSE LastDoc(t, b)

NextDoc(t) ==
  LET c == at[t]
  IN  IF c.i < Len(blocks[t][c.block].docs)
      THEN [c EXCEPT !.i = @ + 1]
      ELSE [block |-> c.block + 1, i |-> 1]

\* To the first posting at or after the target, by way of its block.
Advance(t, target) ==
  LET c == at[t]
      b == BlockContaining(t, target)
      docs == blocks[t][b].docs
      from == IF b = c.block THEN c.i ELSE 1
  IN  IF Doc(t) >= target THEN c
      ELSE IF b > NBlocks(t) THEN [block |-> b, i |-> 1]
      ELSE [block |-> b, i |-> Min({i \in from .. Len(docs) : docs[i] >= target})]

-----------------------------------------------------------------------------
(* The loop of search().                                                   *)

MaxScore ==
  [t \in Terms |-> Idf[t] * Max({blocks[t][b].max : b \in 1 .. NBlocks(t)} \cup {0})]

Active == {t \in Terms : Doc(t) # NoMore}
UpTo(x) == {t \in Active : Doc(t) <= x}

\* The documents at which the terms so far, in docID order, could beat theta.
Pivots ==
  {x \in {Doc(t) : t \in Active} : SumFunctionOnSet(MaxScore, UpTo(x)) > theta}
Pivot == Min(Pivots)

\* Faulty variant: the scan's prefix ends with the term that passes theta, and
\* a term that shares its document is left out.
PrefixAsScanned ==
  LET tied == {t \in Active : Doc(t) = Pivot}
      before == UpTo(Pivot) \ tied
  IN  CHOOSE p \in {before \cup s : s \in SUBSET tied} :
        /\ SumFunctionOnSet(MaxScore, p) > theta
        /\ \E t \in p : SumFunctionOnSet(MaxScore, p \ {t}) <= theta

\* Every term that is on the pivot or behind it.
Prefix == UpTo(Pivot)

BlockSum ==
  SumFunctionOnSet([t \in Terms |-> Idf[t] * BlockMaxAt(t, Pivot)], Prefix)

Search(step) ==
  /\ ~done /\ Pivots # {}
  /\ step
  /\ turns' = turns + 1
  /\ UNCHANGED <<segVars, done>>

\* Faulty variant: the jump goes as far as the blocks of the prefix do.
SkipTargetPastOutside ==
  Max({Min({BlockLastAt(t, Pivot) : t \in Prefix}) + 1, Pivot + 1})

\* Faulty variant: the jump lands on the end of the block, not behind it.
SkipTargetAtEnd ==
  LET ends == {BlockLastAt(t, Pivot) : t \in Prefix}
      outside == {Doc(t) - 1 : t \in Active \ Prefix}
  IN  Max({Min(ends \cup outside), Pivot})

\* How far the block maxima bound every score: to the first end of a block, and
\* short of the next document of a term outside the prefix.
SkipTarget ==
  LET ends == {BlockLastAt(t, Pivot) : t \in Prefix}
      outside == {Doc(t) - 1 : t \in Active \ Prefix}
  IN  Max({Min(ends \cup outside) + 1, Pivot + 1})

SkipBlocks ==
  Search(/\ BlockSum <= theta
         /\ at' = [t \in Terms |-> IF t \in Prefix THEN Advance(t, SkipTarget)
                                                   ELSE at[t]]
         /\ UNCHANGED <<heap, theta>>)

\* heap[0]: the lowest score, and of equal ones the highest docID.
Worst(hits) ==
  CHOOSE h \in hits : \A g \in hits :
    h.score < g.score \/ (h.score = g.score /\ h.doc >= g.doc)

\* A full heap takes a hit only for one that is worse.
Offer(hit) ==
  IF Cardinality(heap) < k
  THEN /\ heap' = heap \cup {hit}
       /\ theta' = IF Cardinality(heap') = k THEN Worst(heap').score ELSE theta
  ELSE IF hit.score > theta
  THEN /\ heap' = (heap \ {Worst(heap)}) \cup {hit}
       /\ theta' = Worst(heap').score
  ELSE UNCHANGED <<heap, theta>>

Aligned == {t \in Active : Doc(t) = Pivot}

ScoreOfAligned ==
  SumFunctionOnSet([t \in Aligned |-> Idf[t] * Saturation(Freq(t), len[Pivot], stats)],
                   Aligned)

ScorePivot ==
  Search(/\ BlockSum > theta
         /\ \A t \in Active : Doc(t) >= Pivot
         /\ IF Pivot \in dead THEN UNCHANGED <<heap, theta>>
            ELSE Offer([doc |-> Pivot, score |-> ScoreOfAligned])
         /\ at' = [t \in Terms |-> IF t \in Aligned THEN NextDoc(t) ELSE at[t]])

PullUp ==
  Search(/\ BlockSum > theta
         /\ \E t \in Active : Doc(t) < Pivot
         /\ at' = [t \in Terms |-> IF t \in Prefix THEN Advance(t, Pivot) ELSE at[t]]
         /\ UNCHANGED <<heap, theta>>)

Return ==
  /\ ~done
  /\ Pivots = {}
  /\ done' = TRUE
  /\ UNCHANGED <<segVars, at, heap, theta, turns>>

-----------------------------------------------------------------------------
Init ==
  /\ len \in Lengths
  /\ \E freq \in [Terms -> [Docs -> Freqs]] :
       blocks = [t \in Terms |-> Written(freq[t], len)]
  /\ dead \in Tombstones
  /\ stats \in {Own(len)} \cup {MergedWith(Own(len), e) : e \in Elsewhere}
  /\ k \in Ks
  /\ at = [t \in Terms |-> [block |-> 1, i |-> 1]]
  /\ heap = {}
  /\ theta = 0
  /\ done = FALSE
  /\ turns = 0

Next == SkipBlocks \/ ScorePivot \/ PullUp \/ Return

Spec == Init /\ [][Next]_vars

-----------------------------------------------------------------------------
(* search_exhaustive.                                                      *)

Postings(t) ==
  UNION {{<<blocks[t][b].docs[i], blocks[t][b].freqs[i]>> :
            i \in 1 .. Len(blocks[t][b].docs)} : b \in 1 .. NBlocks(t)}

TermScore(t, d) ==
  SumFunctionOnSet([p \in Postings(t) |-> Idf[t] * Saturation(p[2], len[d], stats)],
                   {p \in Postings(t) : p[1] = d})

Total(d) == SumFunctionOnSet([t \in Terms |-> TermScore(t, d)], Terms)

Matching == {p[1] : p \in UNION {Postings(t) : t \in Terms}} \ dead

Better(d, e) == Total(d) > Total(e) \/ (Total(d) = Total(e) /\ d < e)

Exhaustive ==
  {[doc |-> d, score |-> Total(d)] :
     d \in {e \in Matching : Cardinality({f \in Matching : Better(f, e)}) < k}}

-----------------------------------------------------------------------------
(* A block's maximum bounds what the query scores as long as the documents *)
(* of the index are on average no longer than those of the segment:        *)
(* Index.search() scores every segment with the sum of all statistics.     *)

NoLonger == stats.tokens * NDocs <= Own(len).tokens * stats.docs

\* Pruning changes nothing: search() returns the documents and the scores that
\* search_exhaustive() does, unless the index is of longer documents (scoring.py:21).
SameAsExhaustive == done /\ NoLonger => heap = Exhaustive

\* Whatever the statistics, pruning costs rank and nothing else: as many documents
\* are returned as without it, all of them live, and each with its full score over
\* all terms, which a cursor left behind or run ahead would take a part of.
ScoresAreFull ==
  done => /\ \A h \in heap : h.doc \in Matching /\ h.score = Total(h.doc)
          /\ Cardinality(heap) = Cardinality(Exhaustive)

\* The loop takes no more turns than the query's terms have postings: every turn
\* moves a cursor on and none back, whatever theta and the block maxima are.
TurnsBounded == turns <= SumFunctionOnSet([t \in Terms |-> Cardinality(Postings(t))], Terms)
=============================================================================
