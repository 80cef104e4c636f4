----------------------------- MODULE MCActivation -----------------------------
(* Small instances of Activation for TLC. *)
EXTENDS Activation, TLC

CONSTANTS m1, m2, s1, s2, s3, c1, c2

\* Every snapshot belongs to one catalog: snapshots are interchangeable.
OneCatalog == [s \in Snapshots |-> c1]
AnySnapshot == Permutations(Snapshots)

\* s1 belongs to a catalog of its own: a mount serving it refuses s2 and s3.
TwoCatalogs == [s \in Snapshots |-> IF s = s1 THEN c1 ELSE c2]
SecondCatalog == Permutations({s2, s3})
===============================================================================
