------------------------------- MODULE Anchors -------------------------------
(***************************************************************************)
(* AnchorAggregator: what the links to a page say of it, as term           *)
(* frequencies of a field of that page, with a cap on what one site may    *)
(* say and a discount on what few sites say.                               *)
(***************************************************************************)
EXTENDS Integers, Sequences, FiniteSets, FiniteSetsExt, Functions, SequencesExt

CONSTANTS
  Links,        \* what a link may be: <<domain, tokens>>
  MaxLinks,     \* bound on the links to the page
  PerDomainCap,
  MinDomains    \* min_domains_for_full_weight

ASSUME CapsType == {PerDomainCap, MinDomains} \subseteq Nat \ {0}

VARIABLE linked  \* the links to a page, in the order they were found

AnchorsInit == linked = <<>>

\* Another page links to it.
Linked == Len(linked) < MaxLinks /\ \E link \in Links : linked' = Append(linked, link)

\* They were aggregated, and nothing of them is kept.
Aggregated == linked # <<>> /\ linked' = <<>>

AnchorsSpec == AnchorsInit /\ [][Linked \/ Aggregated]_linked

-----------------------------------------------------------------------------
Domains(anchors) == {anchors[n][1] : n \in DOMAIN anchors}

Tokens(anchors) == UNION {ToSet(anchors[n][2]) : n \in DOMAIN anchors}

\* How often each link says a token.
Times(anchors, token) ==
  [n \in DOMAIN anchors |->
     Cardinality({i \in DOMAIN anchors[n][2] : anchors[n][2][i] = token})]

\* How often the pages of a domain say a token.
Said(anchors, domain, token) ==
  SumFunctionOnSet(Times(anchors, token), {n \in DOMAIN anchors : anchors[n][1] = domain})

Saying(anchors, token) == {d \in Domains(anchors) : Said(anchors, d, token) > 0}

\* Faulty variant: no cap.
Uncapped(anchors, token) ==
  SumFunctionOnSet([d \in Domains(anchors) |-> Said(anchors, d, token)],
                   Saying(anchors, token))

Capped(anchors, token) ==
  SumFunctionOnSet([d \in Domains(anchors) |-> Min({Said(anchors, d, token), PerDomainCap})],
                   Saying(anchors, token))

\* Terms that too few domains vouch for are scaled down, to one at least.
Discounted(count, domains) ==
  IF domains < MinDomains THEN Max({1, (count * domains) \div MinDomains}) ELSE count

Aggregate(anchors) ==
  [token \in Tokens(anchors) |->
     Discounted(Capped(anchors, token), Cardinality(Saying(anchors, token)))]

-----------------------------------------------------------------------------
Dropped(anchors, n) == SubSeq(anchors, 1, n - 1) \o SubSeq(anchors, n + 1, Len(anchors))

Count(tokens, t) == IF t \in DOMAIN tokens THEN tokens[t] ELSE 0

\* What links say of a page counts by sites: one more link never takes from a term, a
\* term has no more than the cap of every site that says it, and a site that repeats
\* itself beyond the cap changes nothing (bm25f.py:234).
AnchorsCountSites ==
  LET without(all, fewer, anchors, n) ==
        \A t \in DOMAIN all :
          /\ Count(fewer, t) <= all[t]
          /\ all[t] <= PerDomainCap * Cardinality(Saying(anchors, t))
          /\ Said(anchors, anchors[n][1], t) - Times(anchors, t)[n] >= PerDomainCap
               => Count(fewer, t) = all[t]
  IN  \A n \in DOMAIN linked :
        without(Aggregate(linked), Aggregate(Dropped(linked, n)), linked, n)
=============================================================================
