----------------------------- MODULE RunPromise -----------------------------
(***************************************************************************)
(* What run-process promises its caller, with no goroutines, polls,        *)
(* provenance, passes or failures: a process is launched at most once and  *)
(* not after an answer, the answer's status is that of the run at the time *)
(* it is taken, and records disappear only of those that came after the    *)
(* launch's baseline, and only when their deletion was asked for while no  *)
(* answer spoke of them.  ProcessRun implements it.                        *)
(***************************************************************************)
CONSTANT Records

VARIABLES
    run,     \* the run on the platform
    launch,  \* whether the launch was sent or never will be
    told,    \* the answer
    status,  \* what the answer of the work says of the run
    before,  \* the records the caller's report starts from
    rows,    \* the records there are
    chosen,  \* the records to be deleted
    unheard  \* those of them whose deletion was asked for and not answered

vars == <<run, launch, told, status, before, rows, chosen, unheard>>

Ended == {"completed", "error", "cancelled"}
Answers == {"result", "stillrunning", "notlaunched", "cancelled"}

Init ==
    /\ run = "none"
    /\ launch = "open"
    /\ told = "waiting"
    /\ status = "none"
    /\ before = {}
    /\ rows \in SUBSET Records
    /\ chosen = {}
    /\ unheard = {}

Look ==
    /\ launch # "sent"
    /\ before' = rows
    /\ UNCHANGED <<run, launch, told, status, rows, chosen, unheard>>

Send ==
    /\ launch = "open" /\ told = "waiting"
    /\ launch' = "sent"
    /\ UNCHANGED <<run, told, status, before, rows, chosen, unheard>>

\* The deadline's answer and a caller who leaves settle whether there is a
\* launch in the same step.
Tell(answer) ==
    /\ told = "waiting"
    /\ answer = "notlaunched" => launch = "open"
    /\ answer = "stillrunning" => launch = "sent"
    /\ told' = answer
    /\ launch' = IF launch = "open" /\ answer # "result" THEN "withdrawn" ELSE launch
    /\ UNCHANGED <<run, status, before, rows, chosen, unheard>>

Start ==
    /\ launch = "sent" /\ run = "none"
    /\ run' \in {"running", "queued", "refused"}
    /\ UNCHANGED <<launch, told, status, before, rows, chosen, unheard>>

Progress ==
    /\ \/ run = "queued" /\ run' = "running"
       \/ run = "running" /\ run' \in Ended
    /\ UNCHANGED <<launch, told, status, before, rows, chosen, unheard>>

Report(s) ==
    /\ told # "result"
    /\ s \in Ended => run = s
    /\ s \in {"queued", "running"} => run \notin {"none", "refused"}
    /\ s = "not-started" => run = "refused" \/ launch = "withdrawn"
    /\ status' = s
    /\ UNCHANGED <<run, launch, told, before, rows, chosen, unheard>>

Appear ==
    /\ rows' \in SUBSET Records
    /\ rows \subseteq rows'
    /\ UNCHANGED <<run, launch, told, status, before, chosen, unheard>>

Choose ==
    /\ launch = "sent" /\ told \in {"waiting", "cancelled"}
    /\ chosen = {}
    /\ chosen' \in SUBSET (rows \ before)
    /\ UNCHANGED <<run, launch, told, status, before, rows, unheard>>

Delete(r) ==
    /\ told \in {"waiting", "cancelled"}
    /\ r \in chosen
    /\ rows' = rows \ {r}
    /\ UNCHANGED <<run, launch, told, status, before, chosen, unheard>>

\* A deletion is asked for and its answer not waited for, and carried out at
\* any later time or never.
Ask(r) ==
    /\ told \in {"waiting", "cancelled"}
    /\ r \in chosen
    /\ unheard' = unheard \cup {r}
    /\ UNCHANGED <<run, launch, told, status, before, rows, chosen>>

Settle(r) ==
    /\ r \in unheard
    /\ unheard' = unheard \ {r}
    /\ rows' \in {rows, rows \ {r}}
    /\ UNCHANGED <<run, launch, told, status, before, chosen>>

Next ==
    \/ Look \/ Send \/ Start \/ Progress \/ Appear \/ Choose
    \/ \E answer \in Answers : Tell(answer)
    \/ \E s \in {"not-started", "queued", "running"} \cup Ended : Report(s)
    \/ \E r \in Records : Delete(r) \/ Ask(r) \/ Settle(r)

Spec == Init /\ [][Next]_vars
=============================================================================
