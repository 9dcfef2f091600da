--------------------------- MODULE RestartPromise ---------------------------
(***************************************************************************)
(* What the restart tools promise the caller of each restart, with no      *)
(* attempts, readiness waits, deadlines or registry: a record gets one     *)
(* final status, the target restarts for a call only before that or for a  *)
(* request the call has given up, and what the status and the answer say   *)
(* of the restart is true.  That a restart failed is not among it, for the *)
(* answer to a request may be lost and the request carried out later.      *)
(* Restarts implements it.                                                 *)
(***************************************************************************)
CONSTANT Calls

VARIABLES
    waits,      \* the calls that wait for readiness, and so have a record
    performed,  \* the calls for which the target restarted
    unheard,    \* the calls that gave up a request the target may carry out
    status,     \* of each call's record
    told        \* what each caller was told

vars == <<waits, performed, unheard, status, told>>

Init ==
    /\ waits \in SUBSET Calls
    /\ performed = {}
    /\ unheard = {}
    /\ status = [c \in Calls |-> "none"]
    /\ told = [c \in Calls |-> "nothing"]

Begin(c) ==
    /\ c \in waits
    /\ status[c] = "none"
    /\ status' = [status EXCEPT ![c] = "running"]
    /\ UNCHANGED <<waits, performed, unheard, told>>

\* A call asks for its restart: one with a record may have been answered, one
\* without is not.
Asks(c) == IF c \in waits THEN status[c] = "running" ELSE told[c] = "nothing"

Restart(c) ==
    /\ Asks(c)
    /\ performed' = performed \cup {c}
    /\ UNCHANGED <<waits, unheard, status, told>>

\* A request is given up unanswered.
Abandon(c) ==
    /\ Asks(c)
    /\ unheard' = unheard \cup {c}
    /\ UNCHANGED <<waits, performed, status, told>>

\* The target restarts for a request that was given up, whatever has been
\* reported since.
RestartLate(c) ==
    /\ c \in unheard
    /\ performed' = performed \cup {c}
    /\ unheard' \in {unheard, unheard \ {c}}
    /\ UNCHANGED <<waits, status, told>>

\* The application answers again, or does not in its time.
End(c, final) ==
    /\ status[c] = "running"
    /\ c \in performed
    /\ status' = [status EXCEPT ![c] = final]
    /\ UNCHANGED <<waits, performed, unheard, told>>

\* The target may restart for the last attempt, too, at once or later.
GiveUp(c) ==
    /\ status[c] = "running"
    /\ told[c] # "accepted"
    /\ performed' \in {performed, performed \cup {c}}
    /\ unheard' \in {unheard, unheard \cup {c}}
    /\ status' = [status EXCEPT ![c] = "requestfailed"]
    /\ UNCHANGED <<waits, told>>

Tell(c, what) ==
    /\ told[c] = "nothing"
    /\ c \in waits =>
          /\ status[c] # "none"
          /\ what = "done" => status[c] = "ready"
          /\ what = "failed" => status[c] \in {"requestfailed", "timedout"}
          /\ what = "accepted" => status[c] # "requestfailed"
          /\ what = "pending" => status[c] \in {"running", "requestfailed"}
    /\ c \notin waits => what \in {"done", "failed"}
    /\ what \in {"done", "accepted"} => c \in performed
    /\ told' = [told EXCEPT ![c] = what]
    /\ UNCHANGED <<waits, performed, unheard, status>>

Next ==
    \E c \in Calls :
        \/ Begin(c) \/ Restart(c) \/ Abandon(c) \/ RestartLate(c) \/ GiveUp(c)
        \/ \E final \in {"ready", "timedout"} : End(c, final)
        \/ \E what \in {"done", "failed", "accepted", "pending", "cancelled"} : Tell(c, what)

Spec == Init /\ [][Next]_vars
=============================================================================
