-------------------------------- MODULE Totals --------------------------------
(* The total of the weights of the elements of a set. *)
EXTENDS Integers, FiniteSets, FiniteSetsExt

Total(f, S) == MapThenSumSet(LAMBDA x : f[x], S)
===============================================================================
