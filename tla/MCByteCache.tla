----------------------------- MODULE MCByteCache -----------------------------
(* A small instance of ByteCache for TLC. *)
EXTENDS ByteCache
CONSTANTS k1, k2

\* Two children of one snapshot: one light, one so heavy that the two fit neither the entries'
\* budget nor the flights'.
MCSnapshotOf == [k \in Keys |-> "s"]
MCLength == [k \in Keys |-> IF k = k2 THEN 3 ELSE 1]
MCMaxDecoded == [k \in Keys |-> IF k = k2 THEN 0 ELSE 1]
==============================================================================
