------------------------------- MODULE Fielded -------------------------------
(***************************************************************************)
(* BM25F over a segment: the terms of a document's fields under one key    *)
(* each, fields.json beside the segment, and a search that gathers a       *)
(* term's frequencies over the fields, weighs and saturates them.  Builds, *)
(* deletions and merges are those of SegmentFiles, whose terms are the     *)
(* keys.                                                                   *)
(*                                                                         *)
(* Scores are whole numbers, rounded down where the code divides; b is in  *)
(* hundredths and k1 is 1.2.  The prior of search_fielded is off.          *)
(***************************************************************************)
EXTENDS SegmentFiles

CONSTANTS
  Scorer,   \* a field's weight and b, for the fields of the scorer
  Idf,      \* BM25.idf of a document frequency, by 1 .. number of documents
  Queries,  \* sequences of terms
  K,        \* hits asked for
  Scale,
  Unmerged  \* fields.json after a merge, which writes none

ASSUME ScalesType == Scale \in Nat \ {0} /\ K \in Nat \ {0}

VARIABLE fields   \* fields.json of each segment

fieldedVars == <<vars, fields>>

-----------------------------------------------------------------------------
(* Keys and field statistics.                                              *)

Sep == 0

FieldTerm(field, term) == field \o <<Sep>> \o term

\* A document's terms as the builder inverts them.
Keyed(docFields) ==
  LET keys == UNION {{<<f, t>> : t \in DOMAIN docFields[f]} : f \in DOMAIN docFields}
      of(key) == CHOOSE ft \in keys : FieldTerm(ft[1], ft[2]) = key
  IN  [key \in {FieldTerm(ft[1], ft[2]) : ft \in keys} |->
         docFields[of(key)[1]][of(key)[2]]]

\* A field without positions counts its terms.
FieldLength(terms) ==
  LET counted == MapThenSumSet(LAMBDA t : Len(terms[t]), DOMAIN terms)
  IN  IF counted = 0 THEN Cardinality(DOMAIN terms) ELSE counted

FieldLengths(doc) == [f \in DOMAIN doc.fields |-> FieldLength(doc.fields[f])]

LengthOf(lengths, f) == IF f \in DOMAIN lengths THEN lengths[f] ELSE 0

\* The average length of a field over the documents that have it, as a fraction; a
\* field nobody has, or whose average is zero, counts as one.
FieldStats(lengths) ==
  [f \in UNION {DOMAIN lengths[i] : i \in DOMAIN lengths} |->
     [total |-> MapThenSumSet(LAMBDA i : LengthOf(lengths[i], f), DOMAIN lengths),
      count |-> Cardinality({i \in DOMAIN lengths : f \in DOMAIN lengths[i]})]]

Average(stats, f) ==
  IF f \in DOMAIN stats /\ stats[f].total > 0 THEN stats[f] ELSE [total |-> 1, count |-> 1]

FieldsFile(docs) ==
  LET lengths == [i \in DOMAIN docs |-> FieldLengths(docs[i])]
  IN  [docFieldLengths |-> lengths, avgLengths |-> FieldStats(lengths)]

-----------------------------------------------------------------------------
(* BM25F.                                                                  *)

\* freq over 1 - b + b * length / avg.
FieldContribution(f, freq, length, avg) ==
  (Scale * 100 * freq * avg.total) \div
    ((100 - Scorer[f].b) * avg.total + Scorer[f].b * length * avg.count)

PseudoFrequency(freqs, lengths, stats) ==
  MapThenSumSet(LAMBDA f : Scorer[f].weight *
                  FieldContribution(f, freqs[f], LengthOf(lengths, f), Average(stats, f)),
                DOMAIN freqs)

Saturate(pseudo) == (Scale * 22 * pseudo) \div (10 * pseudo + 12 * Scale)

\* What score_per_field_saturation does, the variant the code calls wrong: each field
\* is saturated on its own.
PerFieldSaturation(freqs, lengths, docFreq, stats) ==
  Idf[docFreq] *
    MapThenSumSet(LAMBDA f : Scorer[f].weight *
                    Saturate(FieldContribution(f, freqs[f], LengthOf(lengths, f),
                                               Average(stats, f))),
                  DOMAIN freqs)

ScoreTerm(freqs, lengths, docFreq, stats) ==
  Idf[docFreq] * Saturate(PseudoFrequency(freqs, lengths, stats))

\* The fields that have a document among their postings, with its frequency there.
\* Fields the scorer does not know are indexed and never asked.
Freqs(postings, doc) ==
  [f \in {g \in DOMAIN postings : \E p \in ToSet(postings[g]) : p.doc = doc} |->
     (CHOOSE p \in ToSet(postings[f]) : p.doc = doc).freq]

Gather(segment, term) ==
  LET of(postings) ==
        [doc \in {p.doc : p \in UNION {ToSet(postings[f]) : f \in DOMAIN postings}} |->
           Freqs(postings, doc)]
  IN  of([f \in DOMAIN Scorer |-> Postings(segment, FieldTerm(f, term))])

\* Documents with the term in any field, tombstoned ones too.
DocumentFrequency(gathered) == Cardinality(DOMAIN gathered)

Total(gathered, file, doc) ==
  MapThenSumSet(LAMBDA q : IF doc \notin DOMAIN gathered[q] THEN 0
                           ELSE ScoreTerm(gathered[q][doc], file.docFieldLengths[doc + 1],
                                          DocumentFrequency(gathered[q]), file.avgLengths),
                DOMAIN gathered)

\* The K best, ties by docID.
Ranked(totals) ==
  LET better(d, e) == totals[d] > totals[e] \/ (totals[d] = totals[e] /\ d < e)
      order == SetToSortSeq(DOMAIN totals, better)
      hits == SubSeq(order, 1, Min({K, Len(order)}))
  IN  [n \in DOMAIN hits |-> [doc |-> hits[n], score |-> totals[hits[n]]]]

SearchFielded(segment, file, query) ==
  LET found(gathered) ==
        [doc \in {d \in UNION {DOMAIN gathered[q] : q \in DOMAIN gathered} :
                    IsLive(segment, d)} |-> Total(gathered, file, doc)]
      hits == Ranked(found([q \in DOMAIN query |-> Gather(segment, query[q])]))
  IN  [n \in DOMAIN hits |-> [id |-> segment.docs[hits[n].doc + 1].id,
                              score |-> hits[n].score]]

-----------------------------------------------------------------------------
FieldedInit == Init /\ fields = <<>>

\* FieldedIndexBuilder.build.
FieldedAdd ==
  /\ AddDocuments
  /\ fields' = Append(fields, FieldsFile(sources'[Len(sources')]))

FieldedDelete == Delete /\ UNCHANGED fields

FieldedMerge == Merge /\ fields' = <<Unmerged>>

FieldedNext == FieldedAdd \/ FieldedDelete \/ FieldedMerge

FieldedSpec == FieldedInit /\ [][FieldedNext]_fieldedVars

-----------------------------------------------------------------------------
\* What BM25F of a document is by definition, from what was handed to the builder.
Pseudo(doc, term, docs) ==
  PseudoFrequency([f \in {g \in DOMAIN Scorer \cap DOMAIN doc.fields :
                            term \in DOMAIN doc.fields[g]} |->
                     Max({1, Len(doc.fields[f][term])})],
                  FieldLengths(doc), FieldStats([i \in DOMAIN docs |-> FieldLengths(docs[i])]))

Having(docs, term) ==
  {i \in DOMAIN docs : \E f \in DOMAIN Scorer \cap DOMAIN docs[i].fields :
                         term \in DOMAIN docs[i].fields[f]}

Definition(docs, i, query) ==
  MapThenSumSet(LAMBDA q : IF i \notin Having(docs, query[q]) THEN 0
                           ELSE Idf[Cardinality(Having(docs, query[q]))] *
                                  Saturate(Pseudo(docs[i], query[q], docs)),
                DOMAIN query)

\* A search over the fields finds the documents that are not deleted by what the
\* definition gives them: through the keys, the segment's bytes, fields.json and the
\* docIDs; a document counts once for a term, in however many fields it has it, and
\* the fields are saturated together (fielded.py:1, bm25f.py:11).
FieldedIsDefinition ==
  LET match(docs, query, deleted) ==
        {i \in UNION {Having(docs, query[q]) : q \in DOMAIN query} : i - 1 \notin deleted}
      expected(docs, query, deleted) ==
        {[id |-> docs[i].id, score |-> Definition(docs, i, query)] :
           i \in match(docs, query, deleted)}
      best(hits, all) ==
        /\ Len(hits) = Min({K, Cardinality(all)})
        /\ ToSet(hits) \subseteq all
        /\ \A n \in 2 .. Len(hits) : hits[n - 1].score >= hits[n].score
        /\ \A h \in all \ ToSet(hits) : h.score <= hits[Len(hits)].score
  IN  \A i \in DOMAIN segments : fields[i] # Unmerged =>
        \A query \in Queries :
          best(SearchFielded(segments[i], fields[i], query),
               expected(sources[i], query, segments[i].deleted))
=============================================================================
