----------------------------- MODULE MCRestarts -----------------------------
(* Restarts with interchangeable calls.                                     *)
EXTENDS Restarts, TLC

CallSymmetry == Permutations(Calls)
=============================================================================
