-------------------------------- MODULE Lists --------------------------------
(***************************************************************************)
(* The lists of the models: orders of use, most recent first.              *)
(***************************************************************************)
EXTENDS Naturals, Sequences

\* The elements of the list s that are not in S, in the same order.  (SelectSeq takes an
\* operator, and the provers cannot reason about that.)
Without(s, S) ==
  LET left[n \in 0..Len(s)] ==
        IF n = 0 THEN <<>> ELSE IF s[n] \in S THEN left[n - 1] ELSE Append(left[n - 1], s[n])
  IN  left[Len(s)]
==============================================================================
