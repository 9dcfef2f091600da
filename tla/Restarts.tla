------------------------------ MODULE Restarts ------------------------------
(***************************************************************************)
(* restart-by-environment-name and restart-by-credentials                  *)
(* (cmd/creatio-mcp-go/tool_pkg_write_restart.go) over runLongOperation and *)
(* the restart registry: the record, the request with its retries          *)
(* (internal/creatio/pkgwrite_restart.go), the readiness wait, and what    *)
(* the caller is told at the response deadline.                            *)
(*                                                                         *)
(* The environment a call reaches is fixed here; Builds has the settings   *)
(* that change under a call.  A target stands for a TargetKey (URL, login  *)
(* and client id), whether a name or credentials lead to it.  The target   *)
(* is the external part: it may carry out a request whose answer is lost,  *)
(* also long after the client has given the request up.                    *)
(***************************************************************************)
EXTENDS Integers, FiniteSets

CONSTANTS
    Calls,      \* the restart calls made
    Targets,    \* the targets of the calls
    Attempts,   \* pkgWriteRestartAttempts
    NoTenant, Capacity, IdleTTL, MaxOperations, MaxTime  \* of the store

ASSUME RestartsAssumption ==
    /\ NoTenant \notin Targets
    /\ Attempts \in Nat \ {0}
    /\ Capacity \in Nat \ {0}
    /\ IdleTTL \in Nat
    /\ MaxOperations \in Nat
    /\ MaxTime \in Nat

VARIABLES
    calls,      \* each call's handler, work and locals
    performed,  \* external: the calls whose restart the target carried out
    unheard,    \* external: how many requests of each call were given up that
                \* the target may still carry out
    up,         \* external: the targets that answer requests
    records, latest, begun, open, now  \* restartOperations

Store == INSTANCE OperationStore WITH Tenants <- Targets

storeVars == <<records, latest, begun, open, now>>
vars == <<calls, performed, unheard, up, records, latest, begun, open, now>>

Answers == {"done", "failed", "accepted", "pending", "cancelled"}
Statuses == {"none", "running", "requestfailed", "ready", "timedout"}

Call == [target : Targets, waitReady : BOOLEAN,
         op : Nat,
         status : Statuses,                \* of the record
         handler : {"idle", "waiting"} \cup Answers,
         work : {"none", "requesting", "probing", "failed", "done"},
         attempt : 0..Attempts,
         accepted : BOOLEAN]

TypeOK ==
    /\ calls \in [Calls -> Call]
    /\ performed \subseteq Calls
    /\ unheard \in [Calls -> Nat]
    /\ up \subseteq Targets
    /\ Store!TypeOK

Init ==
    /\ \E target \in [Calls -> Targets], waitReady \in [Calls -> BOOLEAN] :
          calls = [c \in Calls |->
             [target |-> target[c], waitReady |-> waitReady[c],
              op |-> 0, status |-> "none", handler |-> "idle", work |-> "none",
              attempt |-> 0, accepted |-> FALSE]]
    /\ performed = {}
    /\ unheard = [c \in Calls |-> 0]
    /\ up = Targets
    /\ Store!Init

------------------------------------------------------------------------------
\* pkgWriteRestart begins a record, unless the call does not wait.
Begin(c) ==
    /\ calls[c].handler = "idle" /\ calls[c].waitReady
    /\ Store!Begin(calls[c].target)
    /\ calls' = [calls EXCEPT ![c].op = begun + 1, ![c].status = "running",
                              ![c].handler = "waiting", ![c].work = "requesting"]
    /\ UNCHANGED <<performed, unheard, up>>

\* Without waitReady the handler itself sends the request, and no deadline or
\* cancellation stands between it and its answer.
StartDirect(c) ==
    /\ calls[c].handler = "idle" /\ ~calls[c].waitReady
    /\ calls' = [calls EXCEPT ![c].handler = "waiting", ![c].work = "requesting"]
    /\ UNCHANGED <<performed, unheard, up, storeVars>>

Requesting(c) == calls[c].work = "requesting"

\* The record is closed, for a call that has one.  (Slip: it is forgotten.)
CloseForgotten(c) == UNCHANGED storeVars
Close(c) ==
    IF calls[c].waitReady THEN Store!Finish(calls[c].op) ELSE UNCHANGED storeVars

\* The status it is closed with.  (Slip: the status stays.)
StatusKept(c, status) == calls[c].status
StatusOf(c, status) == IF calls[c].waitReady THEN status ELSE "none"

\* The target restarts for the request it receives.
Perform(c) ==
    /\ performed' = performed \cup {c}
    /\ up' = up \ {calls[c].target}

\* When accepted is stored.  (Slip: before the request is sent.)
AcceptedAtOnce(c) == TRUE
AcceptedAfter(c) == calls[c].accepted

\* RestartApplication's request succeeds.
RequestSucceeds(c) ==
    /\ Requesting(c)
    /\ calls[c].target \in up
    /\ Perform(c)
    /\ calls' = [calls EXCEPT ![c].accepted = TRUE,
                              ![c].work = IF calls[c].waitReady THEN "probing" ELSE "done"]
    /\ UNCHANGED <<unheard, storeVars>>

\* An attempt fails: the target has performed it and the answer was lost, or it
\* is given up (after pkgWriteRestartTimeout, or cancelled) while the target
\* may still carry it out, now, later or never.  The last attempt, or a
\* cancelled call, gives up.
RequestFails(c) ==
    LET last == calls[c].attempt + 1 >= Attempts \/ calls[c].handler = "cancelled"
    IN  /\ Requesting(c)
        /\ \/ calls[c].target \in up /\ Perform(c) /\ UNCHANGED unheard
           \/ unheard' = [unheard EXCEPT ![c] = @ + 1] /\ UNCHANGED <<performed, up>>
        /\ calls' = [calls EXCEPT
              ![c].attempt = IF last THEN @ ELSE @ + 1,
              ![c].accepted = AcceptedAfter(c),
              ![c].work = IF last THEN "failed" ELSE "requesting",
              ![c].status = IF last THEN StatusOf(c, "requestfailed") ELSE @]
        /\ IF last THEN Close(c) ELSE UNCHANGED storeVars

\* A call may get no client, and then sends nothing: its name's registration
\* changed since the key was read, or its credentials make none (clientErr).
ResolveFails(c) ==
    /\ Requesting(c) /\ calls[c].attempt = 0
    /\ calls' = [calls EXCEPT ![c].work = "failed",
                              ![c].status = StatusOf(c, "requestfailed")]
    /\ Close(c)
    /\ UNCHANGED <<performed, unheard, up>>

\* WaitForReadiness: the application answers, or the wait ends without it
\* (its timeout, two refused sessions, or the cancellation).
Ready(c) ==
    /\ calls[c].work = "probing" /\ calls[c].target \in up
    /\ Close(c)
    /\ calls' = [calls EXCEPT ![c].work = "done", ![c].status = "ready"]
    /\ UNCHANGED <<performed, unheard, up>>

\* The work leaves the readiness wait.  (Slip: a cancelled wait returns
\* without closing its record.)
ClosesUnlessCancelled(c) == calls[c].handler # "cancelled"
GivesUp(c) == TRUE

NotReady(c) ==
    /\ calls[c].work = "probing"
    /\ GivesUp(c)
    /\ Close(c)
    /\ calls' = [calls EXCEPT ![c].work = "failed", ![c].status = "timedout"]
    /\ UNCHANGED <<performed, unheard, up>>

\* What the deadline tells: accepted or still pending.
DeadlineAnswer(c) == IF calls[c].accepted THEN "accepted" ELSE "pending"

\* The answers a waiting handler may give now.
AnswersNow(c) ==
    {a \in {"done", "failed"} : calls[c].work = a}
    \cup (IF calls[c].waitReady THEN {DeadlineAnswer(c), "cancelled"} ELSE {})

Answer(c) ==
    /\ calls[c].handler = "waiting"
    /\ \E a \in AnswersNow(c) : calls' = [calls EXCEPT ![c].handler = a]
    /\ UNCHANGED <<performed, unheard, up, storeVars>>

\* External: the target carries out a request the client has given up.
RestartLater(c) ==
    /\ unheard[c] > 0
    /\ calls[c].target \in up
    /\ Perform(c)
    /\ unheard' = [unheard EXCEPT ![c] = @ - 1]
    /\ UNCHANGED <<calls, storeVars>>

\* External: a restarted target answers again.
Boot(t) ==
    /\ t \notin up
    /\ up' = up \cup {t}
    /\ UNCHANGED <<calls, performed, unheard, storeVars>>

Tick == Store!Tick /\ UNCHANGED <<calls, performed, unheard, up>>

Over(c) == calls[c].handler \in Answers /\ calls[c].work \in {"failed", "done"}

AllOver == (\A c \in Calls : Over(c)) /\ UNCHANGED vars

HandlerStep(c) == Begin(c) \/ StartDirect(c) \/ Answer(c)

WorkStep(c) ==
    \/ RequestSucceeds(c) \/ RequestFails(c) \/ ResolveFails(c)
    \/ Ready(c) \/ NotReady(c)

Next ==
    \/ \E c \in Calls : HandlerStep(c) \/ WorkStep(c) \/ RestartLater(c)
    \/ \E t \in Targets : Boot(t)
    \/ Tick
    \/ AllOver

Spec == Init /\ [][Next]_vars

\* Goroutines run, a request has a timeout of 30 seconds and three attempts,
\* and the readiness wait at most an hour.
Fairness == \A c \in Calls : WF_vars(HandlerStep(c)) /\ WF_vars(WorkStep(c))
FairSpec == Spec /\ Fairness

------------------------------------------------------------------------------
\* "was accepted and the restart request itself already succeeded"
\* (tool_pkg_write_restart.go:233) is said at the deadline only of a restart
\* that the target carried out.
AcceptedMeansPerformed ==
    \A c \in Calls : calls[c].handler = "accepted" => c \in performed

\* An answer that says how the restart ended agrees with what restart-status
\* reports for it: done with ready, and neither with a record still running.
AnswerAgreesWithStatus ==
    \A c \in Calls : calls[c].waitReady =>
        /\ calls[c].handler = "done" => calls[c].status = "ready"
        /\ calls[c].handler = "failed" => calls[c].status \in {"requestfailed", "timedout"}
        /\ calls[c].handler \in {"done", "failed"} => calls[c].op \notin open

\* The record says running exactly as long as the work goes on, whatever was
\* answered meanwhile.
StatusFollowsTheWork ==
    \A c \in Calls :
        calls[c].status = "running" <=>
            calls[c].op \in open /\ calls[c].work \in {"requesting", "probing"}

\* The restart tools implement RestartPromise: attempts, the wait and the
\* registry are how a record comes to its final status, and the deadline's
\* answer says what the work has seen by then (pkgWriteRestart).
Promise == INSTANCE RestartPromise WITH
    waits <- {c \in Calls : calls[c].waitReady},
    unheard <- {c \in Calls : unheard[c] > 0},
    status <- [c \in Calls |-> calls[c].status],
    told <- [c \in Calls |-> IF calls[c].handler \in Answers THEN calls[c].handler ELSE "nothing"]
ImplementsPromise == Promise!Spec

\* Every restart that is begun gets a final status.
EveryRestartEnds == \A c \in Calls : (calls[c].status = "running") ~> (calls[c].status # "running")

\* "A request that fails is reported there as requestfailed: no restart
\* happened" (tool_pkg_write_restart.go:250).
RequestFailedMeansNoRestart ==
    \A c \in Calls : calls[c].status = "requestfailed" => c \notin performed
=============================================================================
