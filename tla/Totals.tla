------------------------------- MODULE Totals -------------------------------
(***************************************************************************)
(* The sum that sliding.go keeps of its buckets, as a loop over them would *)
(* compute it.                                                             *)
(***************************************************************************)
EXTENDS Integers

\* The sum of the first n of the numbers v.
Total(v, n) ==
  LET upTo[k \in 0 .. n] == IF k = 0 THEN 0 ELSE upTo[k - 1] + v[k]
  IN upTo[n]

=============================================================================
