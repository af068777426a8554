------------------------------ MODULE Analysis -------------------------------
(***************************************************************************)
(* From text to terms and their positions, the same for documents and for  *)
(* queries (analysis/).  Identifiers claim their characters first; what is *)
(* between them is cut into runs of a script, and those into words or      *)
(* bigrams.                                                                *)
(*                                                                         *)
(* Text is normalised and folded already, and there is no segmenter (none  *)
(* is built).  Of the scripts there are Latin and CJK, of the patterns     *)
(* email, semver without prefix or suffix, ident and ident2: the others    *)
(* differ in the characters they take.  Words are not cut at               *)
(* max_token_length.                                                       *)
(***************************************************************************)
EXTENDS Integers, Sequences, FiniteSets, SequencesExt

CONSTANTS
  Latin, Digits, Ideographs,  \* characters; all others are marks or " "
  Literals,                   \* LITERALS
  AltsOf(_),                  \* of a word: its stem, folded form and root, where they differ
  TextsToRead

VARIABLE text  \* what is given to the analyzer

TextInit == text = <<>>

\* A document or a query is analyzed.
TextGiven == text = <<>> /\ text' \in TextsToRead

\* It was, and nothing of it is kept.
Analyzed == text # <<>> /\ text' = <<>>

Letters == Latin \cup Ideographs
Alnum == Letters \cup Digits
WordChars == Alnum \cup {"_"}

-----------------------------------------------------------------------------
(* protect.find_protected.  A span is <<first, last>>.                     *)

All(s, i, j, chars) == \A n \in i .. j : s[n] \in chars

\* \b before the i-th character.
Boundary(s, i) == (i > 1 /\ s[i - 1] \in WordChars) # (i <= Len(s) /\ s[i] \in WordChars)

\* [\w.+-]+@[\w-]+(?:\.[\w-]+)*
Email(s, i, j) ==
  \E at \in i + 1 .. j - 1 :
    /\ s[at] = "@"
    /\ All(s, i, at - 1, WordChars \cup {".", "+", "-"})
    /\ All(s, at + 1, j, WordChars \cup {".", "-"})
    /\ \A n \in at + 1 .. j : s[n] = "." => n \notin {at + 1, j} /\ s[n + 1] # "."

\* \d+\.\d+(?:\.\d+)*
SemVer(s, i, j) ==
  /\ All(s, i, j, Digits \cup {"."})
  /\ \E n \in i .. j : s[n] = "."
  /\ \A n \in i .. j : s[n] = "." => n \notin {i, j} /\ s[n + 1] # "."

\* \p{L}{2,}[-_]\d+\w*
Ident(s, i, j) ==
  \E m \in i + 2 .. j - 1 :
    /\ All(s, i, m - 1, Letters)
    /\ s[m] \in {"-", "_"}
    /\ s[m + 1] \in Digits
    /\ All(s, m + 1, j, WordChars)

\* \p{L}+\d+\p{L}*
Ident2(s, i, j) ==
  \E m \in i + 1 .. j : \E n \in m .. j :
    All(s, i, m - 1, Letters) /\ All(s, m, n, Digits) /\ All(s, n + 1, j, Letters)

\* The end of the longest of the spans from i that are so; 0 for none.
LongestFrom(ends) == IF ends = {} THEN 0 ELSE Max(ends)

LiteralEnd(s, i) == LongestFrom({j \in i .. Len(s) : SubSeq(s, i, j) \in Literals})

\* The first pattern that matches at i, in the order of _PATTERNS.
PatternEnd(s, i) ==
  LET last == {j \in i .. Len(s) : Boundary(s, j + 1)}
      ends(Matches(_, _, _)) == LongestFrom({j \in last : Matches(s, i, j)})
      found == SelectSeq(<<ends(Email), ends(SemVer), ends(Ident), ends(Ident2)>>,
                         LAMBDA j : j > 0)
  IN  IF ~Boundary(s, i) \/ found = <<>> THEN 0 ELSE Head(found)

\* finditer: a match starts after the one before it.
FindIter(s, End(_, _)) ==
  LET from[i \in 1 .. Len(s) + 1] ==
        LET end == End(s, i)
        IN  IF i > Len(s) THEN {}
            ELSE IF end = 0 THEN from[i + 1] ELSE {<<i, end>>} \cup from[end + 1]
  IN  from[1]

Overlap(x, y) == x[1] <= y[2] /\ y[1] <= x[2]

Claimed(s) ==
  LET literals == FindIter(s, LiteralEnd)
  IN  literals \cup {x \in FindIter(s, PatternEnd) : \A y \in literals : ~Overlap(x, y)}

-----------------------------------------------------------------------------
(* segment.segment.                                                        *)

\* Maximal runs of characters, as <<first, last>>, where Joins says that a character
\* goes with the one before it; only those that start where Starts says.
MaximalRuns(s, Starts(_), Joins(_)) ==
  LET starts == {i \in DOMAIN s : Starts(i) /\ ~(i > 1 /\ Starts(i - 1) /\ Joins(i))}
      end(i) == Max({j \in i .. Len(s) : \A n \in i + 1 .. j : Starts(n) /\ Joins(n)})
  IN  SetToSortSeq({<<i, end(i)>> : i \in starts}, LAMBDA x, y : x[1] < y[1])

\* segment_spaced, and the parts of an identifier.
Words(s) ==
  LET runs == MaximalRuns(s, LAMBDA i : s[i] \in Alnum, LAMBDA i : TRUE)
  IN  [n \in DOMAIN runs |-> SubSeq(s, runs[n][1], runs[n][2])]

\* A character alone is a gram of its own.
Bigrams(s) ==
  LET chars == SelectSeq(s, LAMBDA c : c # " ")
  IN  IF Len(chars) = 1 THEN <<chars>>
      ELSE [n \in 1 .. Len(chars) - 1 |-> <<chars[n], chars[n + 1]>>]

\* A digit is of no script; a mark is of the run it is met in.
ScriptRuns(s) ==
  LET scriptOf(c) == IF c \in Ideographs THEN "cjk" ELSE IF c \in Latin THEN "latin" ELSE "other"
      script[i \in DOMAIN s] ==
        IF s[i] \in Alnum \/ i = 1 THEN scriptOf(s[i]) ELSE script[i - 1]
      runs == MaximalRuns(s, LAMBDA i : TRUE, LAMBDA i : script[i] = script[i - 1])
  IN  [n \in DOMAIN runs |->
         [text |-> SubSeq(s, runs[n][1], runs[n][2]), script |-> script[runs[n][1]]]]

Segment(s) ==
  LET cut(run) == IF run.script = "cjk" THEN Bigrams(run.text) ELSE Words(run.text)
      runs == ScriptRuns(s)
  IN  FlattenSeq([n \in DOMAIN runs |-> cut(runs[n])])

-----------------------------------------------------------------------------
(* Analyzer._analyze_core.  A slot is the sequence of words that share a   *)
(* position.                                                               *)

\* Pieces of an identifier are emitted where there are several, but of a version.
PartsOf(whole) ==
  IF Len(Words(whole)) > 1 /\ ~SemVer(whole, 1, Len(whole)) THEN Words(whole) ELSE <<>>

\* Faulty variant: the parts do not take positions of their own.
StackedSlots(whole) == <<FlattenSeq(<< <<whole>>, PartsOf(whole) >>)>>

\* The whole and the first part, then the other parts.
IdentifierSlots(whole) ==
  LET parts == PartsOf(whole)
  IN  IF parts = <<>> THEN << <<whole>> >>
      ELSE [n \in DOMAIN parts |-> IF n = 1 THEN <<whole, parts[1]>> ELSE <<parts[n]>>]

TextSlots(s) ==
  LET words == Segment(s)
  IN  [n \in DOMAIN words |-> <<words[n]>> \o AltsOf(words[n])]

Slots(s, claimed) ==
  LET spans == SetToSortSeq(claimed, LAMBDA x, y : x[1] < y[1])
      cursor(n) == IF n = 1 THEN 1 ELSE spans[n - 1][2] + 1
      between(n) == TextSlots(SubSeq(s, cursor(n), IF n > Len(spans) THEN Len(s) ELSE spans[n][1] - 1))
      identifier(n) == IF n > Len(spans) THEN <<>>
                       ELSE IdentifierSlots(SubSeq(s, spans[n][1], spans[n][2]))
  IN  FlattenSeq([n \in 1 .. Len(spans) + 1 |-> between(n) \o identifier(n)])

\* AnalyzedText.terms: the positions of a term, each once.
TermPositions(slots) ==
  [t \in UNION {ToSet(slots[n]) : n \in DOMAIN slots} |->
     {n \in DOMAIN slots : t \in ToSet(slots[n])}]

-----------------------------------------------------------------------------
\* The query's words are in the document, at its positions from some p on.
Found(slots, terms) ==
  \E query \in {slots} : \E p \in 0 .. Max({0} \cup UNION {terms[t] : t \in DOMAIN terms}) :
    \A n \in DOMAIN query : \E t \in ToSet(query[n]) :
      t \in DOMAIN terms /\ p + n \in terms[t]

\* Where a reader may cut a phrase: at a space, or where words are not set apart.
MayCut(s, i) ==
  \/ i \in {0, Len(s)} \/ s[i] = " " \/ s[i + 1] = " "
  \/ {s[i], s[i + 1]} \subseteq Ideographs

LoneIdeograph(slots) ==
  \E n \in DOMAIN slots : Len(slots[n][1]) = 1 /\ slots[n][1][1] \in Ideographs

\* The identifiers taken apart, where text would be cut into the same pieces.
Spaced(s, claimed) ==
  LET whole(x) == SubSeq(s, x[1], x[2])
      apart == {x \in claimed :
                  /\ PartsOf(whole(x)) # <<>>
                  /\ ToSet(whole(x)) \cap Ideographs = {}
                  /\ \A part \in ToSet(PartsOf(whole(x))) : Segment(part) = <<part>>}
  IN  [n \in DOMAIN s |->
         IF s[n] \notin Alnum /\ \E x \in apart : n \in x[1] .. x[2] THEN " " ELSE s[n]]

\* Every phrase of s, and the phrase with its identifiers taken apart, is found in s at
\* consecutive positions, but for a lone ideograph and a cut or a space that makes for
\* other identifiers.
PhrasesFound(s) ==
  LET cuts == {x \in (1 .. Len(s)) \X (1 .. Len(s)) :
                 x[1] <= x[2] /\ MayCut(s, x[1] - 1) /\ MayCut(s, x[2])}
      inText(x, claimed) == {<<y[1] + x[1] - 1, y[2] + x[1] - 1>> : y \in claimed}
      within(y, z) == z[1] <= y[1] /\ y[2] <= z[2]
  IN  \A claimed \in {Claimed(s)} : \A terms \in {TermPositions(Slots(s, claimed))} :
        \A x \in cuts : \A phrase \in {SubSeq(s, x[1], x[2])} : \A mine \in {Claimed(phrase)} :
          \/ inText(x, mine) # {y \in claimed : Overlap(x, y)}
          \/ LoneIdeograph(Slots(phrase, mine))
          \/ /\ Found(Slots(phrase, mine), terms)
             /\ \A apart \in {Spaced(phrase, mine)} : \A its \in {Claimed(apart)} :
                  \/ \E y \in its : \A z \in mine : ~within(y, z)
                  \/ Found(Slots(apart, its), terms)

\* A phrase of a text is found in it, in the positions its terms are indexed at, and
\* so it is with the pieces of its identifiers written as words of their own ("covid
\* 19"); unless it is a lone ideograph, or was cut out of what counts as an
\* identifier, as any word of a Japanese sentence with a number in it is (protect.py:11,
\* segment.py:144).
PhrasesLineUp == PhrasesFound(text)
=============================================================================
