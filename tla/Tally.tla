------------------------------- MODULE Tally -------------------------------
(***************************************************************************)
(* The total of a natural-valued function over a finite set, as the number *)
(* of unit tokens it stands for: f[x] tokens for every x of S.  Counting   *)
(* tokens needs no recursion, so the facts of TallyProofs about it follow  *)
(* from the library's theorems on cardinality.                             *)
(***************************************************************************)
EXTENDS Naturals, FiniteSets

Tokens(f, S) == UNION {{x} \X (1..f[x]) : x \in S}

Total(f, S) == Cardinality(Tokens(f, S))
=============================================================================
