----------------------------- MODULE Dictionary -----------------------------
(***************************************************************************)
(* The term dictionary: sorted terms in blocks, each but the first of a    *)
(* block by what it shares with the term before it, and a sparse index of  *)
(* the first terms.  A term is the sequence of its bytes; what is written  *)
(* is kept as records, an offset as the number of a block.                 *)
(***************************************************************************)
EXTENDS Integers, Sequences, FiniteSets, FiniteSetsExt, SequencesExt

CONSTANTS DictBlock, Missing

ASSUME DictBlockType == DictBlock \in Nat \ {0}

Shared(prev, term) ==
  Cardinality({n \in 1 .. Min({Len(prev), Len(term)}) : IsPrefix(SubSeq(prev, 1, n), term)})

Less(s, t) ==
  LET n == Shared(s, t)
  IN  n < Len(t) /\ (n < Len(s) => s[n + 1] < t[n + 1])

\* finish(): prev is empty at the start of a block.
FrontCoded(chunk, infos) ==
  [i \in DOMAIN chunk |->
     LET shared == IF i = 1 THEN 0 ELSE Shared(chunk[i - 1], chunk[i])
     IN  [shared |-> shared,
          suffix |-> SubSeq(chunk[i], shared + 1, Len(chunk[i])),
          info |-> infos[chunk[i]]]]

WriteDictionary(infos) ==
  LET terms == SetToSortSeq(DOMAIN infos, Less)
      count == (Len(terms) + DictBlock - 1) \div DictBlock
      chunk(b) == SubSeq(terms, (b - 1) * DictBlock + 1, Min({b * DictBlock, Len(terms)}))
  IN  [index |-> [b \in 1 .. count |-> chunk(b)[1]],
       blocks |-> [b \in 1 .. count |-> FrontCoded(chunk(b), infos)]]

IterBlock(block) ==
  LET term[i \in 0 .. Len(block)] ==
        IF i = 0 THEN <<>>
        ELSE SubSeq(term[i - 1], 1, block[i].shared) \o block[i].suffix
  IN  [i \in DOMAIN block |-> [term |-> term[i], info |-> block[i].info]]

\* The scan of a block ends at the first term above the key.
Find(entries, key) ==
  LET hits == {i \in DOMAIN entries : /\ entries[i].term = key
                                      /\ \A j \in 1 .. i : ~Less(key, entries[j].term)}
  IN  IF hits = {} THEN Missing ELSE entries[Min(hits)].info

\* get(): in the last block whose first term is not above the key.
Get(dictionary, key) ==
  LET b == Cardinality({i \in DOMAIN dictionary.index : ~Less(key, dictionary.index[i])})
  IN  IF b = 0 THEN Missing ELSE Find(IterBlock(dictionary.blocks[b]), key)

\* terms(): all of them, in the order of the blocks.
AllTerms(dictionary) ==
  FlattenSeq([b \in DOMAIN dictionary.blocks |->
    LET entries == IterBlock(dictionary.blocks[b])
    IN  [i \in DOMAIN entries |-> entries[i].term]])
=============================================================================
