---------------------------- MODULE MCProcessRun ----------------------------
(* Two records, the first newer, in one entity that may refer to itself.    *)
(* The worlds are the ways they can hang together: the run's own with the   *)
(* newer one referred to; one that only its lookup ties to the run's; the   *)
(* same of another user, which blocks the deletion; another run's; two that *)
(* no run holds and that point at each other; a sub-process's; and the      *)
(* run's that points at one nothing ties.                                   *)
EXTENDS ProcessRun

CONSTANTS r1, r2, entity

MCEntityOf == [r \in Records |-> entity]
MCRefers == {<<entity, entity>>}
MCNewer == {<<r1, r2>>}

Fact(holder, by, points) == [holder |-> holder, by |-> by, points |-> points]
World(f, g) == [r \in Records |-> IF r = r1 THEN f ELSE g]

MCWorlds ==
    {World(Fact("run", "user", {}), Fact("run", "user", {r1})),
     World(Fact("run", "user", {}), Fact("none", "user", {r1})),
     World(Fact("run", "user", {}), Fact("none", "another", {r1})),
     World(Fact("other", "user", {}), Fact("none", "user", {r1})),
     World(Fact("none", "user", {r2}), Fact("none", "user", {r1})),
     World(Fact("sub", "user", {}), Fact("other", "user", {})),
     World(Fact("run", "user", {r2}), Fact("none", "user", {}))}
=============================================================================
