----------------------------- MODULE ProcessRun -----------------------------
(***************************************************************************)
(* run-process: one launch of a business process, the wait for it, the     *)
(* report of what it created in the watched entities, and their cleanup    *)
(* (cmd/creatio-mcp-go/tool_data_write_process.go and internal/creatio/    *)
(* datawrite_process.go, datawrite_process_verify.go).                     *)
(*                                                                         *)
(* The handler waits for its work, a goroutine, until the work answers, the *)
(* response deadline passes or the caller leaves; a gate decides once      *)
(* whether the launch is sent or the answer says that it never is.  The    *)
(* run, other sessions and other runs create the records; who did, and     *)
(* what can be known of it, is fixed for each record.                      *)
(***************************************************************************)
EXTENDS Integers, FiniteSets

CONSTANTS
    Records,    \* that may appear in the watched entities
    Entities,   \* the watched entities
    EntityOf,   \* the entity of each record
    Refers,     \* the pairs <<e, f>> of entities where e has a lookup to f
    Worlds,     \* what the records can be: functions from Records to Facts
    Newer,      \* the pairs <<r, s>> of records where r's CreatedOn is later
    None,
    MaxFaults   \* bound on requests that fail or whose answer is lost

\* By which run a record is held (its ProcessElementId names an element of that
\* run), who created it, and where its lookups point.
Facts == [holder : {"run", "sub", "other", "none"}, by : {"user", "another"},
          points : SUBSET Records]

ASSUME ProcessRunAssumption ==
    /\ EntityOf \in [Records -> Entities]
    /\ Worlds \subseteq [Records -> Facts]
    /\ None \notin Records
    /\ MaxFaults \in Nat

VARIABLES
    world, rows, run, unheard,              \* the platform; unheard are the records
                                            \* of deletions given up unanswered
    request, handler, caller, gate, clock,  \* the call
    pc, status, seen,                       \* the work, its answer's status, what it polled
    known, watched, contact, created,       \* the baseline and what is new
    report, ours, pass, passing, todo, refused, record, deleted,   \* the cleanup
    faults,
    lateStarts  \* history: destructive requests sent after the caller left

platform == <<world, rows, run, unheard>>
call == <<request, handler, caller, gate, clock>>
watch == <<known, watched, contact>>
cleanup == <<report, ours, pass, passing, todo, refused, record, deleted>>
work == <<pc, status, seen, watch, created, cleanup>>
vars == <<platform, call, work, faults, lateStarts>>

Ended == {"completed", "error", "cancelled"}
Answers == {"result", "stillrunning", "notlaunched", "cancelled"}

\* clock: 0 while a destructive request may still be started, 1 less than a
\* second before stopAt, the deadline less its reserve, 2 past the deadline.
TypeOK ==
    /\ world \in Worlds
    /\ rows \subseteq Records
    /\ run \in {"none", "refused", "queued", "running"} \cup Ended
    /\ unheard \subseteq Records
    /\ request \subseteq {"wait", "watch", "cleanup"}
    /\ handler \in {"waiting", "deadline", "leaving"} \cup Answers
    /\ caller \in {"there", "gone"}
    /\ gate \in {"open", "sent", "withdrawn"}
    /\ clock \in 0..2
    /\ pc \in {"prepare", "gate", "launch", "verify", "poll", "collect", "tie", "cancel",
              "sendcancel", "stopping", "delete", "senddelete", "done"}
    /\ status \in {"none", "not-started", "queued", "running"} \cup Ended
    /\ seen \in {"none", "failed", "absent", "queued", "running"} \cup Ended
    /\ known \subseteq Records
    /\ watched \subseteq Entities      \* those with a baseline
    /\ contact \in {"unread", "read"}  \* the calling user's
    /\ created \subseteq Records
    /\ report \in {"none", "given"}
    /\ ours \subseteq Records
    /\ pass \in 0..2
    /\ passing \subseteq Records       \* the records of this pass
    /\ todo \subseteq Records
    /\ refused \subseteq Records
    /\ record \in Records \cup {None}  \* that is being deleted
    /\ deleted \subseteq Records
    /\ faults \in 0..MaxFaults
    /\ lateStarts \in Nat

Init ==
    /\ world \in Worlds
    /\ rows \in SUBSET {r \in Records : world[r].holder \in {"other", "none"}}
    /\ run = "none" /\ unheard = {}
    /\ request \in SUBSET {"wait", "watch", "cleanup"}
    /\ "cleanup" \in request => "watch" \in request
    /\ handler = "waiting"
    /\ caller = "there"
    /\ gate = "open"
    /\ clock = 0
    /\ pc = "prepare"
    /\ status = "none" /\ seen = "none"
    /\ known = {} /\ watched = {} /\ contact = "unread" /\ created = {}
    /\ report = "none" /\ ours = {} /\ pass = 0 /\ passing = {}
    /\ todo = {} /\ refused = {} /\ record = None /\ deleted = {}
    /\ faults = 0
    /\ lateStarts = 0

------------------------------------------------------------------------------
At(place) == pc = place
Goto(place) == pc' = place

Faultless == UNCHANGED faults
Fault == faults < MaxFaults /\ faults' = faults + 1

\* request.CallerGone.  (Slip: nobody asks.)
NeverGone == FALSE
CallerGone == caller = "gone"

\* timeIsUp and the budgets of less than a second.
Late == clock > 0

\* RunProcess reads and checks the process first, and what it refuses is
\* never launched.
Refuse ==
    /\ At("prepare")
    /\ Goto("done")
    /\ UNCHANGED <<platform, call, status, seen, watch, created, cleanup, faults, lateStarts>>

\* createdRecordWatcher.capture, ahead of the launch; an entity that cannot be
\* read is not watched.
Capture ==
    /\ At("prepare")
    /\ IF "watch" \in request
       THEN /\ watched' \in SUBSET Entities
            /\ contact' \in {"unread", "read"}
            /\ IF watched' = Entities /\ contact' = "read" THEN Faultless ELSE Fault
       ELSE UNCHANGED <<watched, contact, faults>>
    /\ known' = rows
    /\ Goto("gate")
    /\ UNCHANGED <<platform, call, status, seen, created, cleanup, lateStarts>>

\* dataWriteLaunch sends nothing unless TryMarkSent finds the gate open.
PassGate ==
    /\ At("gate")
    /\ IF gate = "open"
       THEN gate' = "sent" /\ Goto("launch") /\ UNCHANGED status
       ELSE status' = "not-started" /\ Goto("done") /\ UNCHANGED gate
    /\ UNCHANGED <<platform, request, handler, caller, clock, seen, watch, created, cleanup,
                   faults, lateStarts>>

\* External: the platform receives the launch, perhaps after its answer is
\* given up, and starts, queues or refuses it.
Start ==
    /\ gate = "sent" /\ run = "none"
    /\ run' \in {"running", "queued", "refused"}
    /\ UNCHANGED <<world, rows, unheard, call, work, faults, lateStarts>>

\* dataWriteLaunch's answer: what dataWriteBuildRunResponse makes of the
\* platform's, or an error without a status.
Launched ==
    /\ At("launch")
    /\ \/ /\ run = "refused"
          /\ status' = "not-started" /\ Goto("done")
          /\ Faultless
       \/ /\ run \notin {"none", "refused"}
          /\ status' = run /\ Goto("verify")
          /\ Faultless
       \/ /\ Goto("done") /\ UNCHANGED status
          /\ Fault
    /\ UNCHANGED <<platform, call, seen, watch, created, cleanup, lateStarts>>

------------------------------------------------------------------------------
\* dataWriteVerify.
Waits == "wait" \in request /\ status = "running"
Collects == "watch" \in request /\ status # "queued" /\ ~CallerGone

Verify ==
    /\ At("verify")
    /\ Goto(IF Waits THEN "poll" ELSE IF Collects THEN "collect" ELSE "done")
    /\ UNCHANGED <<platform, call, status, seen, watch, created, cleanup, faults, lateStarts>>

\* One read of processRunMonitor in dataWritePollUntilEnd: the run's state, no
\* row as it is written late, or a failure, which keeps the state read before.
Poll ==
    /\ At("poll") /\ ~CallerGone /\ seen \notin Ended
    /\ \/ seen' \in {run, "absent"} /\ Faultless
       \/ seen' = (IF seen = "none" THEN "failed" ELSE seen) /\ Fault
    /\ UNCHANGED <<platform, call, pc, status, watch, created, cleanup, lateStarts>>

\* The state dataWriteWaitForRun applies to the answer: none when the caller
\* left, nor when none was read.  (Slip: a row that is not there has ended.)
AppliedEvenAbsent == IF seen = "absent" THEN "completed" ELSE seen
Applied == IF CallerGone \/ seen \in {"none", "failed", "absent"} THEN status ELSE seen

\* The wait ends with the run, its time, the caller or three failed reads.
\* (Slip: a run that is parked is waited for without an end.)
RunHasEnded == CallerGone \/ seen \in Ended
WaitIsOver == CallerGone \/ seen # "none"

PollEnds ==
    /\ At("poll") /\ WaitIsOver
    /\ status' = Applied
    /\ Goto(IF Collects THEN "collect" ELSE "done")
    /\ UNCHANGED <<platform, call, seen, watch, created, cleanup, faults, lateStarts>>

\* createdRecordWatcher.collect lists what the baseline does not have.
NewIn(read) == {r \in rows \ known : EntityOf[r] \in read}

Collect ==
    /\ At("collect")
    /\ \E read \in SUBSET watched :
          /\ IF read = watched \/ Late THEN Faultless ELSE Fault
          /\ created' = NewIn(read)
    /\ Goto(IF "cleanup" \in request /\ ~CallerGone THEN "tie" ELSE "done")
    /\ UNCHANGED <<platform, call, status, seen, watch, cleanup, lateStarts>>

------------------------------------------------------------------------------
\* dataWriteCleanUp starts from the caller's own records of the answer.
Mine == {r \in created : contact = "read" /\ world[r].by = "user"}

\* runRecordProvenance.resolve, from what could be read: the records the run
\* or a sub-process of it holds (SysProcessElementData has them while it is
\* parked), and those that point at a tied one, over and over.  (Slip: one
\* that any run holds is tied.)
HoldersAny(runs) == {"run", "sub", "other"}
Holders(runs) == runs

HeldIn(candidates, read, runs) ==
    {r \in candidates :
        run = "running" /\ EntityOf[r] \in read /\ world[r].holder \in Holders(runs)}

ClosedUnder(tied, candidates, read) ==
    \A r \in candidates :
        EntityOf[r] \in read /\ world[r].points \cap tied # {} => r \in tied

Tied(candidates, read, runs) ==
    {r \in candidates :
        \A tied \in SUBSET candidates :
            /\ HeldIn(candidates, read, runs) \subseteq tied
            /\ ClosedUnder(tied, candidates, read)
            => r \in tied}

\* The run is cancelled first when it is still running.
CancelFirst(chosen) == chosen # {} /\ status = "running"

Tie ==
    /\ At("tie") /\ ~Late
    /\ \E read \in SUBSET watched, runs \in {{"run"}, {"run", "sub"}} :
          /\ IF read = watched /\ "sub" \in runs THEN Faultless ELSE Fault
          /\ ours' = Tied(Mine, read, runs)
    /\ passing' = ours' /\ todo' = ours' /\ report' = "given"
    /\ Goto(IF CancelFirst(ours') THEN "cancel" ELSE "delete")
    /\ UNCHANGED <<platform, call, status, seen, watch, created, pass, refused, record,
                   deleted, lateStarts>>

TooLate ==
    /\ At("tie") /\ Late
    /\ report' = "given" /\ Goto("done")
    /\ UNCHANGED <<platform, call, status, seen, watch, created, ours, pass, passing, todo,
                   refused, record, deleted, faults, lateStarts>>

\* dataWriteCancelRun: nothing starts with too little time or no caller.
DecideCancel ==
    /\ At("cancel")
    /\ Goto(IF Late \/ CallerGone THEN "delete" ELSE "sendcancel")
    /\ UNCHANGED <<platform, call, status, seen, watch, created, cleanup, faults, lateStarts>>

\* A destructive request goes out, within a timeout that ends at stopAt.
\* (Slip: the timeout is that of any request.)
AnyTime == TRUE
InTime == clock < 2

Sends ==
    /\ InTime
    /\ lateStarts' = IF caller = "gone" THEN lateStarts + 1 ELSE lateStarts

\* processRunMonitor.cancel is accepted, or performed and its answer lost.
SendCancel ==
    /\ At("sendcancel")
    /\ Sends
    /\ run' \in {run, IF run = "running" THEN "cancelled" ELSE run}
    /\ \/ Goto("stopping") /\ Faultless
       \/ Goto("delete") /\ Fault
    /\ UNCHANGED <<world, rows, unheard, call, status, seen, watch, created, cleanup>>

\* The request's time is over before it is sent, or it fails.
NotSent ==
    /\ \/ At("sendcancel") /\ UNCHANGED refused
       \/ At("senddelete") /\ refused' = refused \cup {record}
    /\ Goto("delete")
    /\ IF clock = 2 THEN Faultless ELSE Fault
    /\ UNCHANGED <<platform, call, status, seen, watch, created, report, ours, pass, passing,
                   todo, record, deleted, lateStarts>>

\* The run is read until it has ended.
Stopped ==
    /\ At("stopping") /\ ~CallerGone /\ run \in Ended
    /\ status' = run /\ Goto("delete")
    /\ UNCHANGED <<platform, call, seen, watch, created, cleanup, faults, lateStarts>>

StopWaitEnds ==
    /\ At("stopping")
    /\ Goto("delete")
    /\ UNCHANGED <<platform, call, status, seen, watch, created, cleanup, faults, lateStarts>>

------------------------------------------------------------------------------
\* createdRecordCleaner.delete.  cleanerOrder: an entity that refers to
\* another goes first, and the newest record first within an entity; a cycle
\* of entities is broken somewhere.
Referring(r, S) == {s \in S : <<EntityOf[s], EntityOf[r]>> \in Refers /\ EntityOf[s] # EntityOf[r]}

NewestIn(r, S) == \A s \in S : EntityOf[s] = EntityOf[r] => <<s, r>> \notin Newer

FirstAmong(S) ==
    LET leaves == {r \in S : Referring(r, S) = {}}
    IN  {r \in IF leaves = {} THEN S ELSE leaves : NewestIn(r, S)}

\* What the cleaner does with its next record: nothing when the caller left or
\* the time is short.  The order is that of the pass's records: a refused one
\* waits for the next pass.
DecideDelete ==
    /\ At("delete")
    /\ \E r \in FirstAmong(todo) :
          /\ todo' = todo \ {r}
          /\ IF CallerGone \/ Late
             THEN refused' = refused \cup {r} /\ UNCHANGED <<pc, record>>
             ELSE record' = r /\ Goto("senddelete") /\ UNCHANGED refused
    /\ UNCHANGED <<platform, call, status, seen, watch, created, report, ours, pass, passing,
                   deleted, faults, lateStarts>>

\* External: the platform deletes a record that is there and that nothing
\* refers to.
Referenced(r) == \E s \in rows \ {r} : r \in world[s].points
Deletes(r) == rows' = IF Referenced(r) THEN rows ELSE rows \ {r}

\* The deletion is answered, a missing record's as if it had been there; or it
\* is carried out and its answer lost; or it is given up when its time is over
\* while the platform may still carry it out.
SendDelete ==
    /\ At("senddelete")
    /\ Sends
    /\ \/ /\ Deletes(record) /\ Faultless
          /\ IF record \in rows /\ Referenced(record)
             THEN refused' = refused \cup {record} /\ UNCHANGED deleted
             ELSE deleted' = deleted \cup {record} /\ UNCHANGED refused
          /\ UNCHANGED unheard
       \/ /\ refused' = refused \cup {record} /\ UNCHANGED deleted
          /\ \/ Deletes(record) /\ UNCHANGED unheard /\ Fault
             \/ /\ unheard' = unheard \cup {record} /\ UNCHANGED rows
                /\ IF Late THEN Faultless ELSE Fault
    /\ Goto("delete")
    /\ UNCHANGED <<world, run, call, status, seen, watch, created, report, ours, pass, passing,
                   todo, record>>

\* External: a deletion that was given up is carried out, or never will be.
DeleteLater(r) ==
    /\ r \in unheard
    /\ unheard' = unheard \ {r}
    /\ Deletes(r)
    /\ UNCHANGED <<world, run, call, work, faults, lateStarts>>

\* Up to three passes, each over what the one before could not delete, while
\* one deletes something.  (Slip: one pass.)
OnePass == FALSE
AnotherPass == refused # {} /\ refused # passing /\ pass < 2

PassEnds ==
    /\ At("delete") /\ todo = {}
    /\ IF AnotherPass
       THEN /\ pass' = pass + 1
            /\ passing' = refused /\ todo' = refused /\ refused' = {}
            /\ UNCHANGED pc
       ELSE Goto("done") /\ UNCHANGED <<pass, passing, todo, refused>>
    /\ UNCHANGED <<platform, call, status, seen, watch, created, report, ours, record, deleted,
                   faults, lateStarts>>

------------------------------------------------------------------------------
\* runLongOperation's select: the work's result, the deadline, the caller.
AnswerResult ==
    /\ handler = "waiting" /\ At("done")
    /\ handler' = "result"
    /\ UNCHANGED <<platform, request, caller, gate, clock, work, faults, lateStarts>>

DeadlineOrGone ==
    /\ handler = "waiting"
    /\ \/ clock = 2 /\ handler' = "deadline"
       \/ caller = "gone" /\ handler' = "leaving"
    /\ UNCHANGED <<platform, request, caller, gate, clock, work, faults, lateStarts>>

\* TryWithdraw decides what the deadline's answer says.  (Slip: it asks
\* whether the launch was sent, and leaves the gate open.)
OnlyLooks == gate
AfterWithdraw == IF gate = "open" THEN "withdrawn" ELSE gate

Withdraw ==
    /\ handler \in {"deadline", "leaving"}
    /\ gate' = AfterWithdraw
    /\ handler' = IF handler = "leaving" THEN "cancelled"
                  ELSE IF gate = "open" THEN "notlaunched" ELSE "stillrunning"
    /\ UNCHANGED <<platform, request, caller, clock, work, faults, lateStarts>>

\* External: the caller cancels, or its request ends with its answer.
CallerLeaves ==
    /\ caller = "there"
    /\ caller' = "gone"
    /\ UNCHANGED <<platform, request, handler, gate, clock, work, faults, lateStarts>>

Tick ==
    /\ clock < 2
    /\ clock' = clock + 1
    /\ UNCHANGED <<platform, request, handler, caller, gate, work, faults, lateStarts>>

\* External: records of the run while it runs, and of others at any time.
Create(r) ==
    /\ r \notin rows \cup deleted
    /\ pc \in {"gate", "launch", "verify", "poll", "collect"}
    /\ world[r].holder \in {"run", "sub"} => run = "running"
    /\ rows' = rows \cup {r}
    /\ UNCHANGED <<world, run, unheard, call, work, faults, lateStarts>>

RunGoesOn ==
    /\ \/ run = "queued" /\ run' = "running"
       \/ run = "running" /\ run' \in Ended
    /\ UNCHANGED <<world, rows, unheard, call, work, faults, lateStarts>>

Over == handler \in Answers /\ At("done") /\ UNCHANGED vars

HandlerStep == AnswerResult \/ DeadlineOrGone \/ Withdraw

WorkStep ==
    \/ Refuse \/ Capture \/ PassGate \/ Launched \/ Verify \/ PollEnds \/ Collect
    \/ Tie \/ TooLate \/ DecideCancel \/ SendCancel \/ NotSent \/ Stopped \/ StopWaitEnds
    \/ DecideDelete \/ SendDelete \/ PassEnds

Next ==
    \/ HandlerStep \/ WorkStep \/ Poll
    \/ Start \/ RunGoesOn \/ CallerLeaves \/ Tick \/ Over
    \/ \E r \in Records : Create(r) \/ DeleteLater(r)

Spec == Init /\ [][Next]_vars

\* Goroutines run, time passes, and the environment answers a launch or the
\* launch's timeout ends it.
Fairness ==
    /\ WF_vars(HandlerStep) /\ WF_vars(WorkStep) /\ WF_vars(Poll)
    /\ WF_vars(Tick) /\ WF_vars(Start)
FairSpec == Spec /\ Fairness

------------------------------------------------------------------------------
\* "the launch request was never sent and nothing ran" (datawrite_process.go:164)
\* and "a launch nobody waits for must not start afterwards"
\* (tool_data_write_process.go:143): whoever was told that nothing was
\* launched, or left before it was, never gets a run.
NotLaunchedIsFinal ==
    (handler = "notlaunched" \/ gate = "withdrawn" \/ status = "not-started")
        => run \in {"none", "refused"}

\* The answer says that the run ended, and how, only when the run did, whatever
\* reads failed, came late or found no row (DataWriteApplyRunState).
StatusIsTheRuns == status \in Ended => run = status

\* Cleanup deletes nothing but the caller's own records that were not there
\* before the launch and that the run provably holds: no set of them hangs
\* together by its own lookups only (DataWriteTimeWindowNote).
CleansOnlyTheRuns ==
    /\ ours \subseteq {r \in Records \ known : world[r].by = "user"}
    /\ \A T \in SUBSET ours :
          T # {} => \E r \in T : \/ world[r].holder \in {"run", "sub"}
                                 \/ world[r].points \cap (ours \ T) # {}

\* Nothing that cleanup did not choose disappears, and once the deadline has
\* answered that the call is still running no more is asked for: only what the
\* platform was asked to delete before that and has not answered may still
\* disappear (createdRecordCleaner.deleteBeforeStop).
DeletesInTime ==
    [][/\ rows \ rows' \subseteq ours
       /\ handler = "stillrunning" =>
             rows \ rows' \subseteq unheard /\ unheard' \subseteq unheard]_vars

\* "once it is done, no cancel or delete starts" (tool_data_write_process.go:126):
\* the check and the request are two steps, so one may still start.
AtMostOneAfterCallerLeft == lateStarts <= 1

\* A cleanup with time, a caller and no failure leaves only records that
\* something still refers to, in whatever order it came upon them, unless each
\* of its three passes deleted something and it stopped all the same.
CleanupIsThorough ==
    At("done") /\ report = "given" /\ faults = 0 /\ clock = 0 /\ caller = "there" =>
        \/ \A r \in ours \ deleted : Referenced(r)
        \/ pass = 2 /\ Cardinality(deleted) > pass

\* run-process implements RunPromise: the gate makes the answer and the end of
\* the launch one step, the polls, late rows and cancellation report the run as
\* it is, and the cleanup asks for the deletion of what is new while nobody was
\* answered.
Promise == INSTANCE RunPromise WITH
    launch <- gate,
    told <- IF handler \in Answers THEN handler ELSE "waiting",
    before <- known,
    chosen <- ours
ImplementsPromise == Promise!Spec

\* Every call is answered and every work ends.
EveryRunIsAnswered == <>(handler \in Answers /\ At("done"))
=============================================================================
