----------------------------- MODULE BuildBoard -----------------------------
(***************************************************************************)
(* What the tools that build a configuration promise, with no settings,    *)
(* clients, deadlines, goroutines or registry: a call builds under a key   *)
(* that no other holds; while it holds one, compile-status says of a       *)
(* compile that it runs from its begin to its end, and nothing of another; *)
(* the key is given back only when it says so no more, and a caller is     *)
(* told a result only when all of that is over.  What is finished may be   *)
(* forgotten when another compile begins.  Builds implements it.           *)
(***************************************************************************)
CONSTANTS Keys, Calls

VARIABLES
    held,   \* the pairs of a key and the call that builds under it
    says,   \* what compile-status says of each call's compile under its key
    told    \* the calls whose result was told

vars == <<held, says, told>>

Init ==
    /\ held = {}
    /\ says = [c \in Calls |-> "nothing"]
    /\ told = {}

Holds(c) == \E k \in Keys : <<k, c>> \in held

Take(k, c) ==
    /\ \A d \in Calls : <<k, d>> \notin held
    /\ ~Holds(c) /\ c \notin told
    /\ held' = held \cup {<<k, c>>}
    /\ UNCHANGED <<says, told>>

Begin(c) ==
    /\ Holds(c) /\ says[c] = "nothing"
    /\ \E forgotten \in SUBSET {d \in Calls : says[d] = "finished"} :
          says' = [d \in Calls |-> IF d = c THEN "running"
                                   ELSE IF d \in forgotten THEN "nothing" ELSE says[d]]
    /\ UNCHANGED <<held, told>>

End(c) ==
    /\ Holds(c) /\ says[c] = "running"
    /\ says' = [says EXCEPT ![c] = "finished"]
    /\ UNCHANGED <<held, told>>

Give(k, c) ==
    /\ <<k, c>> \in held /\ says[c] # "running"
    /\ held' = held \ {<<k, c>>}
    /\ UNCHANGED <<says, told>>

Tell(c) ==
    /\ ~Holds(c) /\ says[c] # "running"
    /\ told' = told \cup {c}
    /\ UNCHANGED <<held, says>>

Next ==
    \E c \in Calls :
        \/ Begin(c) \/ End(c) \/ Tell(c)
        \/ \E k \in Keys : Take(k, c) \/ Give(k, c)

Spec == Init /\ [][Next]_vars
=============================================================================
