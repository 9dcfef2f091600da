---------------------------- MODULE CompileWatch ----------------------------
(***************************************************************************)
(* One compile of compile-creatio, of the whole configuration or of one    *)
(* package (internal/creatio/pkgwrite_compile.go: pkgWriteCompileAll and   *)
(* pkgWriteRebuildPackage).  The build request is sent once, and its       *)
(* connection rarely survives the build; so the history of compiled        *)
(* projects is polled, a full compile also probes for the reload that ends *)
(* a build, and a decider judges from what it has until its time is over.  *)
(* Four goroutines: the request, the poller, the prober and the decider.   *)
(***************************************************************************)
EXTENDS Integers

CONSTANTS
    Kinds,       \* the compiles to check: "full", "package"
    Projects,    \* how many projects a build compiles, each a history row
    MaxFaults    \* bound on requests that fail or are answered with no result

ASSUME CompileAssumption ==
    /\ Kinds \subseteq {"full", "package"}
    /\ Projects \in Nat \ {0}
    /\ MaxFaults \in Nat

VARIABLES
    kind,
    build, written, bad, last, app,    \* the environment
    request,                           \* the request's goroutine and its channel
    poll, cutoff, observed, failing,   \* the history poller and what it observed
    probe, misses, signs,              \* the reload prober and what it recorded
    pc, baseline, answer, looked,      \* the decider and its locals
    completion, result, verdict,
    clock, quiet, since,
    faults,
    silence    \* history: the longest quiet while the build ran

environment == <<build, written, bad, last, app>>
poller == <<poll, cutoff, observed, failing>>
prober == <<probe, misses, signs>>
decider == <<pc, baseline, answer, looked, completion, result, verdict>>
time == <<clock, quiet, since, silence>>
vars == <<kind, environment, request, poller, prober, decider, time, faults>>

Rows == 0..Projects      \* row 0 is of an earlier compile
Bodies == {"success", "failure", "empty", "page"}   \* page: not a build result
Outcomes == {"succeeded", "failed"}

\* clock: 0 within startupGrace, 1 after it, 2 from the deadline on.  quiet:
\* time without a new row, 0, 1 from the settle window on, 2 from the quiet
\* fallback on; since is the same after the answer, up to the settle window.
TypeOK ==
    /\ kind \in Kinds
    /\ build \in {"none", "running"} \cup Outcomes
    /\ written \in Rows
    /\ bad \subseteq Rows                 \* the rows with an error
    /\ last \in Outcomes                  \* GetLastCompilationResult
    /\ app \in {"up", "down", "reloaded"}
    /\ request \in {"unsent", "open", "lost"} \cup Bodies
    /\ poll \in {"idle", "on", "ended"}
    /\ cutoff \in -1..Projects
    /\ observed \subseteq Rows
    /\ failing \in {"no", "some", "long", "gaveup"}
    /\ probe \in {"idle", "on", "ended"}
    /\ misses \in 0..3
    /\ signs \subseteq {"reachable", "ever", "outage", "reloaded"}
    /\ pc \in {"start", "look", "decide", "closing", "judge", "done"}
    /\ baseline \in {"unread", "read"}
    /\ answer \in {"none", "lost"} \cup Bodies
    /\ looked \in {"nothing", "rows", "quiet"}
    /\ completion \in {"none", "response", "reload", "quiet", "transport", "timeout", "fault"}
    /\ result \in {"unread"} \cup Outcomes
    /\ verdict \in {"none", "success", "failed", "unknown", "unconfirmed"}
    /\ clock \in 0..2
    /\ quiet \in 0..2
    /\ since \in 0..1
    /\ faults \in 0..MaxFaults
    /\ silence \in 0..2

Init ==
    /\ kind \in Kinds
    /\ build = "none" /\ written = 0 /\ bad \in SUBSET Rows
    /\ last \in Outcomes /\ (last = "failed" <=> 0 \in bad) /\ app = "up"
    /\ request = "unsent"
    /\ poll = "idle" /\ cutoff = -1 /\ observed = {} /\ failing = "no"
    /\ probe = "idle" /\ misses = 0 /\ signs = {}
    /\ pc = "start" /\ baseline = "unread" /\ answer = "none" /\ looked = "nothing"
    /\ completion = "none" /\ result = "unread" /\ verdict = "none"
    /\ clock = 0 /\ quiet = 0 /\ since = 0
    /\ faults = 0 /\ silence = 0

Faultless == UNCHANGED faults
Fault == faults < MaxFaults /\ faults' = faults + 1
Up == app # "down"

------------------------------------------------------------------------------
\* External: the environment.  It receives the request, compiles one project
\* after the other, each leaving a row, keeps the result and then reloads.
\* What it does after the verdict is left out.
Receive ==
    /\ pc # "done" /\ request = "open" /\ build = "none"
    /\ build' = "running"
    /\ UNCHANGED <<kind, written, bad, last, app, request, poller, prober, decider, time, faults>>

CompileProject ==
    /\ pc # "done" /\ build = "running" /\ written < Projects
    /\ written' = written + 1
    /\ UNCHANGED <<kind, build, bad, last, app, request, poller, prober, decider, time, faults>>

\* A build fails with its first error at the latest, or for a reason no row has.
FinishBuild ==
    /\ pc # "done" /\ build = "running"
    /\ build' \in IF bad \cap (1..written) # {} THEN {"failed"}
                  ELSE IF written = Projects THEN Outcomes ELSE {"failed"}
    /\ last' = build'
    /\ UNCHANGED <<kind, written, bad, app, request, poller, prober, decider, time, faults>>

Reload ==
    /\ pc # "done" /\ app = "up" /\ build \in Outcomes
    /\ app' = "down"
    /\ UNCHANGED <<kind, build, written, bad, last, request, poller, prober, decider, time, faults>>

ComeBack ==
    /\ pc # "done" /\ app = "down"
    /\ app' = "reloaded"
    /\ UNCHANGED <<kind, build, written, bad, last, request, poller, prober, decider, time, faults>>

------------------------------------------------------------------------------
\* The goroutine of pkgWriteSendBuild: the answer, a body that is none, or an
\* error: a broken connection, the reload's, its timeout or its cancellation.
Cancelled == pc \in {"closing", "judge", "done"}

Answered ==
    /\ request = "open"
    /\ \/ /\ build \in Outcomes /\ Up
          /\ request' = IF build = "succeeded" THEN "success" ELSE "failure"
          /\ Faultless
       \/ request' \in {"empty", "page"} /\ Up /\ Fault
    /\ UNCHANGED <<kind, environment, poller, prober, decider, time>>

RequestFails ==
    /\ request = "open"
    /\ IF ~Up \/ Cancelled \/ (kind = "full" /\ clock = 2) THEN Faultless ELSE Fault
    /\ request' = "lost"
    /\ UNCHANGED <<kind, environment, poller, prober, decider, time>>

------------------------------------------------------------------------------
\* pkgWriteWatchActivity and pkgWritePollHistory.  The rows after the cutoff,
\* all of them without one.  (Slip: the rows of earlier compiles count.)
AllRows(c) == 0..written
RowsAfter(c) == {r \in 0..written : r > c}

\* A poll that is answered, and then the pause; a poll that is under way when
\* the watcher is closed may still be.
PollRows ==
    /\ poll = "on" /\ Up
    /\ LET rows == RowsAfter(cutoff)
       IN  /\ observed' = observed \cup rows
           /\ cutoff' = IF rows = {} THEN cutoff ELSE written
           /\ quiet' = IF rows \subseteq observed THEN quiet ELSE 0
    /\ failing' = "no"
    /\ UNCHANGED <<kind, environment, request, poll, prober, decider, clock, since, silence, faults>>

\* A poll that fails is tried again later, which a full compile does to its end;
\* a package's gives up once every round failed for the give-up window.
PollFails ==
    /\ poll = "on" /\ kind = "package"
    /\ IF Up THEN Fault ELSE Faultless
    /\ \/ failing' = (IF failing = "no" THEN "some" ELSE "long") /\ UNCHANGED poll
       \/ failing = "long" /\ failing' = "gaveup" /\ poll' = "ended"
    /\ UNCHANGED <<kind, environment, request, cutoff, observed, prober, decider, time>>

\* The watchers of a full compile are closed before its verdict; a package's
\* poller is cancelled with its context when the compile has answered.
StopPolling == IF kind = "full" THEN pc = "closing" ELSE pc = "done"

PollEnds ==
    /\ poll = "on" /\ StopPolling
    /\ poll' = "ended"
    /\ UNCHANGED <<kind, environment, request, cutoff, observed, failing, prober, decider, time, faults>>

------------------------------------------------------------------------------
\* pkgWriteReload.record.
IsOutage(m) == m >= 3

OneMore(m) == IF m < 3 THEN m + 1 ELSE m

\* An HTTP answer of any kind.  (What a probe under way records when the
\* watcher is closed is not read any more.)
ProbeAnswered ==
    /\ probe = "on" /\ pc # "closing" /\ Up
    /\ misses' = 0
    /\ signs' = (signs \ {"outage"}) \cup {"reachable", "ever"}
                   \cup (IF "outage" \in signs THEN {"reloaded"} ELSE {})
    /\ UNCHANGED <<kind, environment, request, poller, probe, decider, time, faults>>

\* None: the application is down, or up and too busy building to answer within
\* the 5 s of a probe, however many probes in a row.
ProbeFails ==
    /\ probe = "on" /\ pc # "closing"
    /\ misses' = OneMore(misses)
    /\ signs' = (signs \ {"reachable"})
                   \cup (IF "ever" \in signs /\ IsOutage(misses') THEN {"outage"} ELSE {})
    /\ UNCHANGED <<kind, environment, request, poller, probe, decider, time, faults>>

ProbeEnds ==
    /\ probe = "on" /\ pc = "closing"
    /\ probe' = "ended"
    /\ UNCHANGED <<kind, environment, request, poller, misses, signs, decider, time, faults>>

------------------------------------------------------------------------------
\* The baseline is read, or a warning says that it was not; then the request
\* is sent and the watchers start.
Begin ==
    /\ pc = "start"
    /\ \/ baseline' = "read" /\ cutoff' = 0 /\ Faultless
       \/ UNCHANGED <<baseline, cutoff>> /\ Fault
    /\ request' = "open"
    /\ poll' = "on"
    /\ probe' = IF kind = "full" THEN "on" ELSE "ended"
    /\ pc' = "look"
    /\ UNCHANGED <<kind, environment, observed, failing, misses, signs, answer, looked,
                   completion, result, verdict, time>>

\* The head of both loops takes the request's answer when there is one, and
\* a full compile's the watcher's snapshot.
SawRows == observed # {}
SawErrors == observed \cap bad # {}

Look ==
    /\ pc = "look"
    /\ kind = "package" => clock < 2 /\ failing # "gaveup"
    /\ answer' = IF answer = "none" /\ request # "open" THEN request ELSE answer
    /\ looked' = IF ~SawRows \/ kind = "package" THEN "nothing" ELSE IF quiet = 2 THEN "quiet" ELSE "rows"
    /\ pc' = "decide"
    /\ UNCHANGED <<kind, environment, request, poller, prober, baseline, completion, result,
                   verdict, time, faults>>

\* pkgWriteDecide, in its order, and the loop's deadline.  (Slip: none.)
GotResponse == answer \in Bodies

Confirmed == looked # "nothing" /\ {"reloaded", "reachable"} \subseteq signs

WentQuiet == looked = "quiet" /\ "reachable" \in signs

NeverBegan == looked = "nothing" /\ clock >= 1 /\ (answer = "lost" \/ "ever" \notin signs)

DecisionInAnyTime ==
    IF GotResponse THEN "response" ELSE IF Confirmed THEN "reload"
    ELSE IF WentQuiet THEN "quiet" ELSE IF NeverBegan THEN "transport" ELSE "none"
Decision ==
    IF GotResponse THEN "response" ELSE IF Confirmed THEN "reload"
    ELSE IF WentQuiet THEN "quiet" ELSE IF NeverBegan THEN "transport"
    ELSE IF clock = 2 THEN "timeout" ELSE "none"

DecideFull ==
    /\ pc = "decide" /\ kind = "full"
    /\ completion' = Decision
    /\ pc' = IF Decision = "none" THEN "look" ELSE "closing"
    /\ looked' = "nothing"
    /\ UNCHANGED <<kind, environment, request, poller, prober, baseline, answer, result, verdict,
                   time, faults>>

\* Both watchers are closed, each after what it is doing.
WatchersEnded == poll = "ended" /\ probe = "ended"

Closed ==
    /\ pc = "closing" /\ WatchersEnded
    /\ pc' = "judge"
    /\ UNCHANGED <<kind, environment, request, poller, prober, baseline, answer, looked,
                   completion, result, verdict, time, faults>>

\* pkgWriteEnvironmentVerdict.  (Slip: the history alone decides.)
ByHistory(read) == IF SawErrors THEN "failed" ELSE "success"
EnvironmentVerdict(read) ==
    IF read = "unread" /\ completion = "quiet" THEN "unknown"
    ELSE IF SawErrors \/ read = "failed" THEN "failed" ELSE "success"

JudgeFull ==
    /\ pc = "judge"
    /\ IF completion \in {"reload", "quiet"}
       THEN /\ \/ Up /\ result' = last /\ Faultless
               \/ result' = "unread" /\ IF Up THEN Fault ELSE Faultless
            /\ verdict' = EnvironmentVerdict(result')
       ELSE /\ verdict' = IF completion = "response" /\ answer = "success" THEN "success"
                          ELSE IF completion = "response" THEN "failed" ELSE "unconfirmed"
            /\ UNCHANGED <<result, faults>>
    /\ pc' = "done"
    /\ UNCHANGED <<kind, environment, request, poller, prober, baseline, answer, looked,
                   completion, time>>

------------------------------------------------------------------------------
\* pkgWriteRebuildPackage's loop.  (Slip: the window of an answered request
\* for one that is still open.)
ShortWindow == 1
RequiredQuiet == IF answer = "none" /\ ~SawErrors THEN 2 ELSE 1

Settled == SawRows /\ quiet >= RequiredQuiet
SettledSince == SawRows /\ quiet >= 1 /\ since = 1

\* pkgWritePackageVerdict.  (Slip: the answer alone decides.)
AnswerAlone == IF answer = "failure" THEN "failed" ELSE "success"
PackageVerdict == IF SawErrors \/ answer = "failure" THEN "failed" ELSE "success"

EndPackage(how, what) ==
    /\ completion' = how
    /\ verdict' = what
    /\ pc' = "done"

DecidePackage ==
    /\ pc = "decide" /\ kind = "package"
    /\ IF answer = "page" THEN EndPackage("response", "unconfirmed")
       ELSE IF answer = "failure" \/ (answer \in Bodies /\ SettledSince)
            THEN EndPackage(IF answer = "empty" THEN "quiet" ELSE "response", PackageVerdict)
       ELSE IF answer \notin Bodies /\ Settled THEN EndPackage("quiet", PackageVerdict)
       ELSE pc' = "look" /\ UNCHANGED <<completion, verdict>>
    /\ UNCHANGED <<kind, environment, request, poller, prober, baseline, answer, looked, result,
                   time, faults>>

\* The poller gave up, or the budget is over: errors that were seen fail it.
PackageUnmonitored ==
    /\ pc = "look" /\ kind = "package" /\ failing = "gaveup" /\ clock < 2
    /\ EndPackage("fault", "unconfirmed")
    /\ UNCHANGED <<kind, environment, request, poller, prober, baseline, answer, looked, result,
                   time, faults>>

PackageTimesOut ==
    /\ pc = "look" /\ kind = "package" /\ clock = 2
    /\ EndPackage("timeout", IF SawErrors THEN "failed" ELSE "unconfirmed")
    /\ UNCHANGED <<kind, environment, request, poller, prober, baseline, answer, looked, result,
                   time, faults>>

------------------------------------------------------------------------------
\* The grace is long enough for three probes.
Tick ==
    /\ pc \in {"look", "decide"} /\ clock < 2
    /\ kind = "full" => "ever" \in signs \/ misses = 3
    /\ clock' = clock + 1
    /\ UNCHANGED <<kind, environment, request, poller, prober, decider, quiet, since, silence, faults>>

\* Time without a new row: five minutes of it are more than the grace.
StayQuiet ==
    /\ pc \in {"look", "decide"} /\ SawRows /\ quiet < 2 /\ (quiet = 1 => clock >= 1)
    /\ quiet' = quiet + 1
    /\ silence' = IF build = "running" /\ quiet' > silence THEN quiet' ELSE silence
    /\ UNCHANGED <<kind, environment, request, poller, prober, decider, clock, since, faults>>

AnswerSettles ==
    /\ pc \in {"look", "decide"} /\ kind = "package" /\ answer \in Bodies /\ since = 0
    /\ since' = 1
    /\ UNCHANGED <<kind, environment, request, poller, prober, decider, clock, quiet, silence, faults>>

Over == pc = "done" /\ poll = "ended" /\ request \notin {"unsent", "open"} /\ UNCHANGED vars

EnvironmentStep == Receive \/ CompileProject \/ FinishBuild \/ Reload \/ ComeBack
RequestStep == Answered \/ RequestFails
PollStep == PollRows \/ PollFails
ProbeStep == ProbeAnswered \/ ProbeFails
WatchersEnd == PollEnds \/ ProbeEnds
DeciderStep ==
    \/ Begin \/ Look \/ DecideFull \/ Closed \/ JudgeFull
    \/ DecidePackage \/ PackageUnmonitored \/ PackageTimesOut

Next ==
    \/ EnvironmentStep \/ RequestStep \/ PollStep \/ ProbeStep \/ WatchersEnd \/ DeciderStep
    \/ Tick \/ StayQuiet \/ AnswerSettles \/ Over

Spec == Init /\ [][Next]_vars

\* Goroutines run, requests end by their timeouts, and time passes.
Fairness ==
    /\ WF_vars(DeciderStep) /\ WF_vars(ProbeStep) /\ WF_vars(PollEnds) /\ WF_vars(ProbeEnds)
    /\ WF_vars(RequestStep) /\ WF_vars(Tick)
FairSpec == Spec /\ Fairness

------------------------------------------------------------------------------
\* A success is of this compile: it is never reported for a build that the
\* environment did not even begin (pkgWriteActivity polls "for rows after the
\* baseline"), what the request's answer calls a success is one, and a build
\* that failed is no success once the last result could be read, although that
\* result is whatever compile was the last and misses may look like a reload.
SuccessIsTrue ==
    verdict = "success" =>
        /\ baseline = "read" => build # "none"
        /\ completion = "response" => build = "succeeded"
        /\ result # "unread" => build # "failed"

\* A success while the build still runs takes that the environment was silent
\* for the whole window: five minutes, or the settle window of a package whose
\* request ended; or that a busy environment missed three probes, which is
\* taken for its reload.
SuccessNeedsSilence ==
    verdict = "success" /\ build = "running" /\ baseline = "read" /\ completion # "reload"
        => silence >= IF kind = "package" /\ answer # "none" THEN 1 ELSE 2

\* An error that was polled by the time of the verdict fails the compile, also
\* one that came after the decision, unless the request itself was answered.
ErrorsFailTheCompile ==
    [][verdict = "none" /\ verdict' = "success" /\ SawErrors
           => kind = "full" /\ completion' = "response"]_vars

\* Nothing of a full compile goes on behind its answer.
NothingGoesOn == [][pc = "done" /\ kind = "full" => UNCHANGED <<poller, prober>>]_vars

\* Every compile has a verdict, and every goroutine it started ends.
EveryCompileEnds ==
    <>(pc = "done" /\ poll = "ended" /\ probe = "ended" /\ request # "open")
=============================================================================
