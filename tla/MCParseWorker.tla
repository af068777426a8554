--------------------------- MODULE MCParseWorker ----------------------------
(* Small instances of the parse workers.  A host has a page a in two       *)
(* versions, one of which repeats its own text, a page b, a page x that    *)
(* is refused and comes from another partition, and a page y that breaks   *)
(* the parser; the blob of version z1 of a is lost.                        *)
EXTENDS ParseWorker

CONSTANTS a1, a2, b1, x1, y1, z1, urlA, urlB, urlX, urlY, host, menu, own, text, w1, w2, p1, p2

MCUrlOf == [g \in Pages |-> CASE g = b1 -> urlB [] g = x1 -> urlX [] g = y1 -> urlY
                                [] g \in {a1, a2, z1} -> urlA]
MCHostOf == [u \in Urls |-> host]
MCPartitionOf == [u \in Urls |-> IF u \in {urlX, urlY} THEN p2 ELSE p1]
MCUrlRank == [u \in Urls |-> IF u = urlB THEN 1 ELSE 2]
MCBlocksOf == [g \in Pages |-> CASE g = a1 -> <<menu, own, own>> [] g \in {a2, z1} -> <<menu, own>>
                                 [] g = b1 -> <<menu, text>> [] g \in {x1, y1} -> <<menu>>]
MCContentOf == [g \in Pages |-> {menu, own, text}]
MCChars == [t \in Texts |-> IF t = menu THEN 1 ELSE 4]
MCLinksOf == [g \in Pages |-> IF g = a1 THEN {urlB} ELSE IF g = b1 THEN {urlA} ELSE {}]
MCVouched == [g \in Pages |-> IF g = a1 THEN {urlB} ELSE {}]

LOCAL Event(g) == [url |-> UrlOf[g], page |-> g]
LOCAL Bare(u) == [url |-> u, page |-> None]
LOCAL Log(first, second) == [p \in Partitions |-> IF p = p1 THEN first ELSE second]
MCLogs ==
  {Log(<<Event(a1), Event(a2), Event(b1)>>, <<>>),
   Log(<<Event(a2)>>, <<Event(x1)>>),
   Log(<<Event(b1), Event(z1)>>, <<>>),
   Log(<<Bare(urlA)>>, <<Event(y1)>>)}
=============================================================================
