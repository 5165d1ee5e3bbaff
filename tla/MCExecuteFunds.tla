--------------------------- MODULE MCExecuteFunds ---------------------------
(* ExecuteFunds with interchangeable requests. *)
EXTENDS ExecuteFunds, TLC

Symmetry == Permutations(Requests)
=============================================================================
