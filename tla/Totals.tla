------------------------------- MODULE Totals -------------------------------
(* The sum of a function's values over a finite set. *)
EXTENDS Integers, FiniteSets, FiniteSetsExt

Total(f, S) == MapThenSumSet(LAMBDA x : f[x], S)
=============================================================================
