------------------------------ MODULE MCFielded ------------------------------
(* Five documents of three fields, one of them unknown to the scorer; a    *)
(* term common to all of them, keys that would be one without a separator, *)
(* terms that share prefixes across the blocks of the dictionary, and gaps *)
(* of more than one byte; and a newer version of one document, of the same *)
(* id and rank, that a second segment may have beside it.  The links to a  *)
(* page and the texts are looked at by themselves, before any segment is   *)
(* written.                                                                *)
EXTENDS Fielded, Anchors, Analysis

Body == <<1>>
Title == <<1, 2>>
Meta == <<2>>
One == <<1>>
Two == <<2>>
TwoOne == <<2, 1>>

MCScorer == Body :> [weight |-> 1, b |-> 75] @@ Title :> [weight |-> 8, b |-> 30]
MCIdf == [df \in 1 .. 5 |-> 12 \div df]

MCFields ==
  <<Body :> (One :> <<0, 2, 9>> @@ Two :> <<1>>) @@ Title :> (One :> <<>>),
    Body :> (One :> <<4>>) @@ Title :> (Two :> <<0, 17>>),
    Body :> (One :> <<6, 7>> @@ TwoOne :> <<1, 2, 3>>),
    Body :> (One :> <<0, 1, 2, 3, 5>>) @@ Meta :> (Two :> <<0>>),
    Body :> (One :> <<2>>) @@ Title :> (One :> <<0>> @@ TwoOne :> <<3>>),
    Body :> (Two :> <<3, 8>>)>>
MCRanks == <<9, 5, 4, 3, 1, 3>>
MCIds == <<1, 2, 3, 4, 5, 4>>
MCDoc ==
  [n \in 1 .. 6 |-> [id |-> MCIds[n], rank |-> MCRanks[n], fields |-> MCFields[n],
                     terms |-> Keyed(MCFields[n])]]

MCBatches == {{MCDoc[n] : n \in ids} : ids \in {1 .. 5, {1, 4, 5}, {2, 3}, {2, 5}, {6}}}
MCQueries == {<<One>>, <<Two>>, <<TwoOne, One>>, <<Two, Two, One>>}

MCLinks == {<<d, t>> : d \in 1 .. 3, t \in {<<One>>, <<One, One>>, <<One, Two>>}}

MCAltsOf(word) == IF word = <<"a", "a">> THEN << <<"a">> >> ELSE <<>>
MCLiterals == {<<"a", "+">>}
LOCAL Pieces ==
  {<<"a", "a", "-", "1">>, <<"a", "@", "1", "a">>, <<"1", ".", "1">>, <<"a", "+">>, <<"k", "k">>}
LOCAL UpTo(n, chars) == UNION {[1 .. m -> chars] : m \in 1 .. n}
MCTextsToRead ==
  UpTo(5, {"a", "1", "k", "-", " "}) \cup UpTo(3, {"a", "+", "@", ".", "_"})
    \cup {p \o mark \o q : p, q \in Pieces, mark \in {<<>>, <<" ">>, <<".">>}}

MCInit == FieldedInit /\ AnchorsInit /\ TextInit
MCNext ==
  \/ AnchorsInit /\ TextInit /\ FieldedNext /\ UNCHANGED <<linked, text>>
  \/ FieldedInit /\ TextInit /\ (Linked \/ Aggregated) /\ UNCHANGED <<fieldedVars, text>>
  \/ FieldedInit /\ AnchorsInit /\ (TextGiven \/ Analyzed) /\ UNCHANGED <<fieldedVars, linked>>
MCSpec == MCInit /\ [][MCNext]_<<fieldedVars, linked, text>>
=============================================================================
