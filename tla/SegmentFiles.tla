---------------------------- MODULE SegmentFiles ----------------------------
(***************************************************************************)
(* What the files of a segment say: builds, deletions and merges, down to  *)
(* the bytes of the postings, positions and tombstones.  The order and the *)
(* crashes of the writes are in module IndexLifecycle.                     *)
(***************************************************************************)
EXTENDS PostingBytes, Dictionary, DeleteSet

CONSTANTS Batches,     \* sets of InputDocuments [id, rank, terms], terms[t] the positions of t;
                       \* ids differ within a batch
          RankStep,    \* ranks of one step are one rank as a 32-bit float
          MaxSegments, \* bound
          MaxDocs      \* bound on the documents added

Docs == UNION Batches
Terms == UNION {DOMAIN d.terms : d \in Docs}

ASSUME DocsType == \A d \in Docs : d.rank \in Nat /\ DOMAIN d.terms # {}
ASSUME RankStepType == RankStep \in Nat \ {0}

VARIABLES segments,  \* Index.segments, open: the files and the DeleteSet in memory
          sources,   \* history: the documents a segment was written from, by docID
          added      \* how many were added, to MaxDocs

vars == <<segments, sources, added>>

Single(rank) == rank - (rank % RankStep)

\* A set in a strict order of its elements.  SetToSortSeq tries all sequences first.
InOrder(set, Precedes(_, _)) ==
  [n \in 1 .. Cardinality(set) |->
     CHOOSE x \in set : Cardinality({y \in set : Precedes(y, x)}) = n - 1]

\* Descending static rank, ties by external id.
Before(c, d) == c.rank > d.rank \/ (c.rank = d.rank /\ c.id < d.id)

Ordered(docs) == InOrder(docs, Before)

TermsOf(docs) == UNION {DOMAIN docs[i].terms : i \in DOMAIN docs}

\* docIDs count from zero.
Inverted(docs) ==
  [t \in TermsOf(docs) |->
     LET having == InOrder({i \in DOMAIN docs : t \in DOMAIN docs[i].terms}, <)
     IN  [n \in DOMAIN having |->
            LET positions == docs[having[n]].terms[t]
            IN  [doc |-> having[n] - 1, freq |-> Max({1, Len(positions)}),
                 positions |-> positions]]]

\* A term's offsets are what the terms before it took.
Encode(inverted) ==
  LET add(s, t, bytes) ==
        [postings |-> s.postings \o bytes.postings,
         positions |-> s.positions \o bytes.positions,
         infos |-> t :> [docFreq |-> Len(inverted[t]), totalTf |-> TotalTf(inverted[t]),
                         postingsOffset |-> Len(s.postings),
                         positionsOffset |-> Len(s.positions)] @@ s.infos]
  IN  FoldLeft(LAMBDA s, t : add(s, t, Finish(inverted[t])),
               [postings |-> <<>>, positions |-> <<>>, infos |-> <<>>],
               SetToSortSeq(DOMAIN inverted, Less))

\* A segment as it is opened after it was written; docs.bin has no terms.
WriteSegment(inverted, entries) ==
  LET segment(out) ==
        [terms |-> WriteDictionary(out.infos), postings |-> out.postings,
         positions |-> out.positions, docs |-> entries,
         deletes |-> ToBytes(Len(entries), {}), deleted |-> {}]
  IN  segment(Encode(inverted))

Entry(doc) == [id |-> doc.id, rank |-> Single(doc.rank)]

BuildSegment(docs) ==
  WriteSegment(Inverted(docs), [i \in DOMAIN docs |-> Entry(docs[i])])

\* Segment.cursor, read from its first document to its last.
Postings(segment, t) ==
  LET read(info) == IF info = Missing THEN <<>>
                    ELSE ReadAll(segment.postings, info.postingsOffset,
                                 segment.positions, info.positionsOffset)
  IN  read(Get(segment.terms, t))

-----------------------------------------------------------------------------
Init ==
  /\ segments = <<>>
  /\ sources = <<>>
  /\ added = 0

\* Index.add_documents: what other segments have of a document stays.
AddDocuments ==
  /\ Len(segments) < MaxSegments
  /\ \E batch \in {b \in Batches : added + Cardinality(b) <= MaxDocs} :
       /\ added' = added + Cardinality(batch)
       /\ segments' = Append(segments, BuildSegment(Ordered(batch)))
       /\ sources' = Append(sources, Ordered(batch))

\* Segment.delete: a document already deleted changes nothing.
Delete ==
  \E i \in DOMAIN segments : \E doc \in 0 .. Len(segments[i].docs) - 1 :
    LET deleted == segments[i].deleted \cup {doc}
    IN  /\ doc \notin segments[i].deleted
        /\ segments' = [segments EXCEPT
             ![i].deleted = deleted, ![i].deletes = ToBytes(Len(segments[i].docs), deleted)]
        /\ UNCHANGED <<sources, added>>

\* Faulty variant: tombstones are not applied.
Kept(segment, doc) == TRUE

IsLive(segment, doc) == doc \notin segment.deleted

Earlier(p, q) == p[1] < q[1] \/ (p[1] = q[1] /\ p[2] < q[2])

\* The live documents of all segments as <<segment, place>>, by their new docIDs:
\* copies of one document as they come.
Live(segs) ==
  LET ids == UNION {{<<i, n>> : n \in {m \in DOMAIN segs[i].docs : IsLive(segs[i], m - 1)}}
                      : i \in DOMAIN segs}
      entry(at) == segs[at[1]].docs[at[2]]
  IN  InOrder(ids, LAMBDA x, y :
        Before(entry(x), entry(y)) \/ (~Before(entry(y), entry(x)) /\ Earlier(x, y)))

\* What the terms of all segments have left of their postings, under new docIDs.
Collected(segs, newId) ==
  LET terms == UNION {ToSet(AllTerms(segs[i].terms)) : i \in DOMAIN segs}
      kept(postings, i) == {[p EXCEPT !.doc = newId[<<i, @ + 1>>]] :
                              p \in {q \in ToSet(postings) : <<i, q.doc + 1>> \in DOMAIN newId}}
  IN  [t \in terms |-> UNION {kept(Postings(segs[i], t), i) : i \in DOMAIN segs}]

\* merge_segments, from what the files read back.
MergedSegment(segs, live) ==
  LET newId == [at \in ToSet(live) |-> CHOOSE new \in 0 .. Len(live) - 1 : live[new + 1] = at]
      inverted(collected) ==
        [t \in {u \in DOMAIN collected : collected[u] # {}} |->
           InOrder(collected[t], LAMBDA p, q : p.doc < q.doc)]
  IN  WriteSegment(inverted(Collected(segs, newId)),
                   [new \in DOMAIN live |-> segs[live[new][1]].docs[live[new][2]]])

\* History: the documents not deleted, every copy of one, with the ranks docs.bin has,
\* in the order of a build that is given those of the first segment first.
LiveDocs ==
  LET places == UNION {{<<i, n>> : n \in {m \in DOMAIN sources[i] :
                                             m - 1 \notin segments[i].deleted}}
                         : i \in DOMAIN sources}
      doc(p) == [sources[p[1]][p[2]] EXCEPT !.rank = Single(@)]
      order == InOrder(places, LAMBDA p, q :
                 Before(doc(p), doc(q)) \/ (~Before(doc(q), doc(p)) /\ Earlier(p, q)))
  IN  [n \in DOMAIN order |-> doc(order[n])]

\* Index.merge.
Merge ==
  /\ segments # <<>>
  /\ segments' = <<MergedSegment(segments, Live(segments))>>
  /\ sources' = <<LiveDocs>>
  /\ UNCHANGED added

Next == AddDocuments \/ Delete \/ Merge

Spec == Init /\ [][Next]_vars

-----------------------------------------------------------------------------
\* A lookup finds exactly the terms of the documents a segment was written from,
\* in order, with their totals, and the cursor reads every document, frequency and
\* position that was written, across blocks and through the shared streams.
TermsReadBack ==
  LET readBack(segment, written) ==
        /\ AllTerms(segment.terms) = SetToSortSeq(DOMAIN written, Less)
        /\ \A t \in Terms :
             LET found(info) ==
                   IF t \in DOMAIN written
                   THEN /\ info.docFreq = Len(written[t])
                        /\ info.totalTf = TotalTf(written[t])
                        /\ Postings(segment, t) = written[t]
                   ELSE info = Missing
             IN  found(Get(segment.terms, t))
  IN  \A i \in DOMAIN segments : readBack(segments[i], Inverted(sources[i]))

\* deletes.bin, as gaps or as a bitmap, reads back as the tombstones in memory: a
\* removal that was flushed is one after the segment is opened again.  A file cut
\* short by a crash in its rewriting never reads as fewer tombstones: opening the
\* segment raises, unless nothing at all was written.
DeletesReadBack ==
  \A i \in DOMAIN segments :
    /\ FromBytes(segments[i].deletes) =
         [raised |-> FALSE, docCount |-> Len(segments[i].docs), deleted |-> segments[i].deleted]
    /\ \A n \in 1 .. Len(segments[i].deletes) - 1 :
         FromBytes(SubSeq(segments[i].deletes, 1, n)).raised

\* A merge is a rebuild: byte for byte the segment that a build would write from the
\* documents that are live, whatever segments they came from.
MergeIsRebuild == [][Merge => segments'[1] = BuildSegment(LiveDocs)]_vars
=============================================================================
