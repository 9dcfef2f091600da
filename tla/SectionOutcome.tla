--------------------------- MODULE SectionOutcome ---------------------------
(***************************************************************************)
(* What create-app-section promises of the section of each call, with no   *)
(* gate, checks, lost answers or reads: a section is inserted only while   *)
(* there is none and no insert of it is under way, and an answer that says *)
(* that it was created, or that it was not, is true and stays so.          *)
(* SectionCreate implements it.                                            *)
(***************************************************************************)
CONSTANT Calls  \* each with a section of its own

VARIABLES
    inserting,  \* the sections an insert may still bring
    sections,   \* those there are
    removed,    \* those that somebody deleted
    told        \* what each caller was told

vars == <<inserting, sections, removed, told>>

Init ==
    /\ inserting = {} /\ sections = {} /\ removed = {}
    /\ told = [c \in Calls |-> "nothing"]

Insert(c) ==
    /\ told[c] = "nothing"
    /\ c \notin inserting \cup sections
    /\ inserting' = inserting \cup {c}
    /\ UNCHANGED <<sections, removed, told>>

Commit(c) ==
    /\ c \in inserting \ sections
    /\ inserting' = inserting \ {c}
    /\ sections' = sections \cup {c}
    /\ UNCHANGED <<removed, told>>

Fail(c) ==
    /\ inserting' = inserting \ {c}
    /\ UNCHANGED <<sections, removed, told>>

Remove(c) ==
    /\ sections' = sections \ {c}
    /\ removed' = removed \cup {c}
    /\ UNCHANGED <<inserting, told>>

\* An answer that leaves it open may come with the end of the insert.
Tell(c, what) ==
    /\ told[c] = "nothing"
    /\ what = "created" => c \in sections \cup removed
    /\ what = "absent" => c \notin sections \cup inserting
    /\ told' = [told EXCEPT ![c] = what]
    /\ \/ UNCHANGED inserting
       \/ what = "open" /\ inserting' = inserting \ {c}
    /\ UNCHANGED <<sections, removed>>

Next ==
    \E c \in Calls :
        \/ Insert(c) \/ Commit(c) \/ Fail(c) \/ Remove(c)
        \/ \E what \in {"created", "absent", "open"} : Tell(c, what)

Spec == Init /\ [][Next]_vars
=============================================================================
