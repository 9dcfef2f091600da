------------------------------ MODULE MCBuilds ------------------------------
(* Builds with interchangeable calls, names and targets.  Liveness needs    *)
(* another reduction than symmetry: of the initial states that differ only  *)
(* by a renaming of calls and names, those are enough in which the first    *)
(* call has the first of the tools used and the first name.                 *)
EXTENDS Builds, TLC

BuildsSymmetry == Permutations(Calls) \cup Permutations(Names) \cup Permutations(Targets)

Rank == "compile" :> 1 @@ "migrator" :> 2 @@ "install" :> 3

ReducedInit ==
    LET first == CHOOSE c \in Calls : TRUE
    IN  /\ Init
        /\ calls[first].name = (CHOOSE n \in Names : TRUE)
        /\ \A c \in Calls : Rank[calls[first].tool] <= Rank[calls[c].tool]

ReducedSpec == ReducedInit /\ [][Next]_vars /\ Fairness
=============================================================================
