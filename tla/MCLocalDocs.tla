----------------------------- MODULE MCLocalDocs -----------------------------
(***************************************************************************)
(* Small instances of LocalDocs: publication a with two revisions, the      *)
(* first of them with two projections, b and c with one revision each.      *)
(***************************************************************************)
EXTENDS LocalDocs, TLC

CONSTANTS a, b, c, a1, a1x, a2, b1, c1, h1, h2, h3

\* a1x is a1 compiled with other versions or bounds: another projection digest.
RevisionIds == [d \in {a1, a1x, a2, b1, c1} |-> IF d = a1x THEN a1 ELSE d]
Catalogs == (a :> {a1, a1x, a2}) @@ (b :> {b1}) @@ (c :> {c1})
AtFirst == (a :> a1) @@ (b :> b1) @@ (c :> c1)

Nothing == <<>>
OnlyC == <<c>>
BThenAThenC == <<b, a, c>>

\* Each revision of a with one projection.
TwoRevisions == (a :> {a1, a2})

\* Each publication as it is at first.
OneEach == [p \in {a, b, c} |-> {AtFirst[p]}]

\* The handlers are interchangeable.
Swap == Permutations({h1, h2, h3})
=============================================================================
