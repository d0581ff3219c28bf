-------------------------------- MODULE Sums --------------------------------
(***************************************************************************)
(* Running totals of a sequence of sizes: where in a file its parts end,   *)
(* what a list of buffers takes together.                                  *)
(***************************************************************************)
EXTENDS Integers, Sequences

\* Sums(x)[n] is the sum of the first n elements of x.
Sums(x) ==
  LET sum[n \in 0..Len(x)] == IF n = 0 THEN 0 ELSE sum[n - 1] + x[n]
  IN  sum

Total(x) == Sums(x)[Len(x)]

=============================================================================
