---------------------------- MODULE MCDiscovery -----------------------------
(* A small instance of discovery: three URLs of a site that is allowed one *)
(* a window; the Bloom bits of each URL are covered by the two others.     *)
(* What a URL is offered as, and what canonicalise makes of it, comes from *)
(* UrlNorm: a2 is also offered in a spelling that takes both calls to      *)
(* canonicalise to become a2.  Links are looked at by themselves, before   *)
(* any caller starts.                                                      *)
EXTENDS Discovery, UrlNorm, TLC

CONSTANTS a1, a2, a3, once, twice, dA, c1, c2

PathOf ==
  (a1 :> <<"/", "4">>) @@ (a2 :> <<"/", "E">>) @@ (a3 :> <<"/", "5", ".", "e">>) @@
  (once :> <<"/", "%", "4", "5">>) @@ (twice :> <<"/", "%", "4", "%", "3", "5">>)
MCCanonical == (a1 :> a1) @@ (a2 :> a2) @@ (a3 :> a3) @@ (once :> a2) @@ (twice :> once)
ASSUME CanonicalFromUrlNorm ==
  \A r \in DOMAIN PathOf : PathOf[MCCanonical[r]] = CanonicalPath(PathOf[r])
MCSiteOf == (a1 :> dA) @@ (a2 :> dA) @@ (a3 :> dA) @@ (once :> dA) @@ (twice :> dA)
MCBitsOf ==
  [u \in Urls |-> CASE u = a1 -> {1, 2} [] u = a2 -> {2, 3} [] u = a3 -> {1, 3}]
MCLimit == [d \in Sites |-> 1]
MCSymmetry == Permutations({c1, c2})

LOCAL Letters ==
  (<<"2", "E">> :> ".") @@ (<<"3", "2">> :> "2") @@ (<<"3", "3">> :> "3") @@
  (<<"3", "4">> :> "4") @@ (<<"3", "5">> :> "5") @@ (<<"4", "2">> :> "B") @@
  (<<"4", "3">> :> "C") @@ (<<"4", "4">> :> "D") @@ (<<"4", "5">> :> "E") @@
  (<<"4", "E">> :> "N") @@ (<<"5", "2">> :> "R") @@ (<<"5", "3">> :> "S") @@
  (<<"5", "4">> :> "T") @@ (<<"5", "5">> :> "U")
MCHex == {"0", "2", "3", "4", "5", "e", "E"}
MCUpperOf == [d \in MCHex |-> IF d = "e" THEN "E" ELSE d]
MCOctetOf ==
  [p \in MCHex \X MCHex |-> IF p \in DOMAIN Letters THEN Letters[p] ELSE "other"]
MCUnreserved == {Letters[p] : p \in DOMAIN Letters} \cup {"e"}
MCDigitsOf ==
  (" " :> <<"2", "0">>) @@ ("." :> <<"2", "E">>) @@ ("4" :> <<"3", "4">>) @@ ("E" :> <<"4", "5">>)
LOCAL UpTo(n, chars) == {<<"/">> \o s : s \in UNION {[1 .. m -> chars] : m \in 0 .. n}}
MCTexts ==
  UpTo(5, {"/", ".", "%", "2", "4", "e"}) \cup UpTo(3, {"/", ".", "%", "2", " "})
MCUnsafe == {" "}

MCInit == Init /\ LinkInit
MCNext ==
  \/ link = NoLink /\ Next /\ UNCHANGED link
  \/ Init /\ (Found \/ Renamed) /\ UNCHANGED vars
MCSpec == MCInit /\ [][MCNext]_<<vars, link>>
=============================================================================
