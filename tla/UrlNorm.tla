------------------------------- MODULE UrlNorm -------------------------------
(***************************************************************************)
(* The canonical form of a URL, by which every other part names a page.    *)
(*                                                                         *)
(* The path alone, character by character, since what its escapes stand    *)
(* for is what the canonical form is about; scheme, host and query are     *)
(* canonical already.  An octet is the character it stands for, in         *)
(* hexadecimal of any case.                                                *)
(***************************************************************************)
EXTENDS Integers, Sequences, FiniteSets, SequencesExt

CONSTANTS
  Hex,          \* the hexadecimal digits that occur
  UpperOf,      \* upper case of a digit
  OctetOf,      \* what a pair of upper-case digits stands for
  Unreserved,   \* the characters that need no escape
  Unsafe,       \* those that quote() escapes
  DigitsOf,     \* the pair of upper-case digits of a character
  Texts         \* the paths to look at

ASSUME UpperType == UpperOf \in [Hex -> Hex]
ASSUME PercentType == \* "%" is for escapes alone, and an escape stands for its character.
  /\ "%" \notin Hex \cup Unreserved
  /\ \A c \in Unreserved \cap DOMAIN DigitsOf : OctetOf[DigitsOf[c]] = c
ASSUME QuoteType == \* quote() leaves "/", "%" and digits, and its escapes are canonical.
  /\ Unsafe \cap (Hex \cup {"/", "%"}) = {} /\ "/" \notin Hex
  /\ \A d \in Hex : UpperOf[UpperOf[d]] = UpperOf[d]
  /\ \A c \in Unsafe :
       /\ DigitsOf[c] \in Hex \X Hex /\ OctetOf[DigitsOf[c]] \notin Unreserved
       /\ \A n \in 1 .. 2 : UpperOf[DigitsOf[c][n]] = DigitsOf[c][n]

VARIABLE link  \* the path of a link, before it is canonical

NoLink == <<>>

LinkInit == link = NoLink

\* A page, a seed list, a sitemap or a redirect names a URL.
Found == link = NoLink /\ link' \in Texts

-----------------------------------------------------------------------------
(* Percent-encoding.                                                       *)

\* s has "%" and two hexadecimal digits at i.
Escape(s, i) == i + 2 <= Len(s) /\ s[i] = "%" /\ {s[i + 1], s[i + 2]} \subseteq Hex

Octet(s, i) == OctetOf[<<UpperOf[s[i + 1]], UpperOf[s[i + 2]]>>]

\* Faulty variant: the expression without re.I.
NeedlessInUpperCase(s, i) ==
  /\ Escape(s, i)
  /\ Octet(s, i) \in Unreserved
  /\ UpperOf[s[i + 1]] = s[i + 1] /\ UpperOf[s[i + 2]] = s[i + 2]

Needless(s, i) == Escape(s, i) /\ Octet(s, i) \in Unreserved

\* _UNRESERVED.sub: from left to right, and never again over its own output.
Decoded(s) ==
  LET from[i \in 1 .. Len(s) + 1] ==
        IF i > Len(s) THEN <<>>
        ELSE IF Needless(s, i) THEN <<Octet(s, i)>> \o from[i + 3]
        ELSE <<s[i]>> \o from[i + 1]
  IN  from[1]

\* _PCT.sub.
UpperHex(s) ==
  [i \in DOMAIN s |->
     IF \E j \in {i - 1, i - 2} : j >= 1 /\ Escape(s, j) THEN UpperOf[s[i]] ELSE s[i]]

\* quote().
Quoted(s) ==
  FlattenSeq([i \in DOMAIN s |-> IF s[i] \in Unsafe THEN <<"%">> \o DigitsOf[s[i]] ELSE <<s[i]>>])

-----------------------------------------------------------------------------
(* The path.                                                               *)

\* split("/").
Segments(s) ==
  LET add(c, parts) == IF c = "/" THEN Append(parts, <<>>)
                       ELSE [parts EXCEPT ![Len(parts)] = Append(@, c)]
  IN  FoldLeft(LAMBDA parts, c : add(c, parts), << <<>> >>, s)

Joined(parts) ==
  FlattenSeq([n \in DOMAIN parts |-> IF n = 1 THEN parts[n] ELSE <<"/">> \o parts[n]])

\* _remove_dot_segments.
WithoutDots(s) ==
  LET next(out, part) ==
        IF part = <<".">> THEN out
        ELSE IF part = <<".", ".">>
        THEN IF out # <<>> /\ Last(out) # <<>> THEN Front(out) ELSE out
        ELSE Append(out, part)
      result == Joined(FoldLeft(next, <<>>, Segments(s)))
  IN  IF result = <<>> \/ (s # <<>> /\ Head(s) = "/" /\ Head(result) # "/")
      THEN <<"/">> \o result ELSE result

\* A trailing slash goes when the last segment looks like a file.
Trimmed(s) ==
  LET parts == Segments(s)
  IN  IF Len(parts) > 1 /\ Last(parts) = <<>> /\ "." \in ToSet(parts[Len(parts) - 1])
      THEN Front(s) ELSE s

\* Faulty variant: the dot segments go before the escapes do.
DotsFirst(s) == Trimmed(Quoted(UpperHex(Decoded(WithoutDots(s)))))

CanonicalPath(s) == Trimmed(Quoted(WithoutDots(UpperHex(Decoded(s)))))

\* add_many, filter_new, fetch, schedule_recrawl and links.py each make it canonical.
Renamed == link # NoLink /\ link' = CanonicalPath(link)

-----------------------------------------------------------------------------
\* An incomplete escape in front of an escape whose character completes it.
Nested(s) ==
  \E i \in DOMAIN s : s[i] = "%" /\
    \E j \in {i + 1, i + 2} : Needless(s, j) /\ (j = i + 2 => s[i + 1] \in Hex)

\* "canonicalise(canonicalise(u)) == canonicalise(u) is property-tested": so it is,
\* but for malformed escapes that decode to an escape, whose page gets another name
\* each time it goes through add_many, filter_new and fetch (urlnorm.py:8).
CanonicalIsStable ==
  link = NoLink \/ Nested(link) \/
    CanonicalPath(CanonicalPath(link)) = CanonicalPath(link)

\* Escaping a character that needs no escape names the same page, in digits of any
\* case and be it a dot or a part of another segment (urlnorm.py:48).
SpellingsAgree ==
  LET spelled(i, digits) ==
        SubSeq(link, 1, i - 1) \o <<"%">> \o digits \o SubSeq(link, i + 1, Len(link))
      same(s) == Nested(link) \/ Nested(s) \/ CanonicalPath(link) = CanonicalPath(s)
      spellings(c) == {p \in Hex \X Hex : <<UpperOf[p[1]], UpperOf[p[2]]>> = DigitsOf[c]}
  IN  \A i \in {n \in DOMAIN link : link[n] \in Unreserved \cap DOMAIN DigitsOf} :
        \A digits \in spellings(link[i]) : same(spelled(i, digits))
=============================================================================
