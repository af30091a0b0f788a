-------------------------------- MODULE Sums --------------------------------
(***************************************************************************)
(* Sums over sequences of numbers: what a loop with an accumulator leaves  *)
(* in it, after each turn and after the last.                              *)
(***************************************************************************)
EXTENDS Integers, Sequences

\* Sums(s)[n]: the first n entries of s, added up.
Sums(s) ==
  LET sum[n \in 0..Len(s)] == IF n = 0 THEN 0 ELSE sum[n - 1] + s[n]
  IN  sum

Added(s) == Sums(s)[Len(s)]
=============================================================================
