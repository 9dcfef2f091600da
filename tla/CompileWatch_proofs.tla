------------------------- MODULE CompileWatch_proofs -------------------------
(***************************************************************************)
(* What the watcher may conclude, for every number of projects a build     *)
(* compiles and of faults: a success is of this compile and true where the *)
(* answer says it, a failed build is none once the result is read, a       *)
(* success inferred from silence takes the whole of it, and errors that    *)
(* were polled fail the compile.  That every compile ends is left to TLC.  *)
(***************************************************************************)
EXTENDS CompileWatch, TLAPS

\* The environment reloads only after a build, whose result it has kept, and
\* a success that was answered is the build's.
EnvironmentAgrees ==
    /\ build = "none" => written = 0
    /\ build \in Outcomes => last = build
    /\ app # "up" => build \in Outcomes
    /\ pc # "start" => request # "unsent"
    /\ request = "success" => build = "succeeded"
    /\ answer = "success" => build = "succeeded"

\* With a baseline, what was observed are rows of this build.
RowsAgree ==
    /\ observed \subseteq 0..written
    /\ pc = "start" => poll = "idle" /\ observed = {} /\ baseline = "unread"
    /\ baseline = "read" => cutoff >= 0 /\ 0 \notin observed
    /\ observed = {} => quiet = 0 /\ looked = "nothing"

\* Quiet time that counts was silence of the running build.
QuietAgrees ==
    build = "running" /\ baseline = "read" =>
        /\ quiet <= silence
        /\ looked = "quiet" => silence = 2
        /\ completion = "quiet" /\ kind = "full" => silence = 2

\* The verdict comes at the end, and rests on rows or on the build's end.
VerdictAgrees ==
    /\ pc \in {"closing", "judge"} => kind = "full"
    /\ pc = "judge" \/ (pc = "done" /\ kind = "full") => poll = "ended" /\ probe = "ended"
    /\ pc # "done" => verdict = "none" /\ result = "unread"
    /\ pc \in {"start", "look", "decide"} => completion = "none"
    /\ completion \in {"quiet", "reload"} => observed # {}
    /\ result # "unread" => result = last
    /\ verdict = "success" =>
          /\ observed # {} \/ build \in Outcomes
          /\ result # "failed"
          /\ completion = "response" => answer = "success"

\* The inductive invariant.
IInv ==
    /\ TypeOK
    /\ EnvironmentAgrees
    /\ RowsAgree
    /\ QuietAgrees
    /\ VerdictAgrees
    /\ SuccessNeedsSilence

\* The steps of the decider by the loop they belong to, and those of the clock.
FullStep == Begin \/ Look \/ DecideFull \/ Closed \/ JudgeFull
PackageStep == DecidePackage \/ PackageUnmonitored \/ PackageTimesOut
TimeStep == Tick \/ StayQuiet \/ AnswerSettles

LEMMA EnvironmentStepPreserves == IInv /\ EnvironmentStep => IInv'
  <1> SUFFICES ASSUME IInv, EnvironmentStep
               PROVE  IInv'
    OBVIOUS
  <1> USE DEF IInv, vars, environment, poller, prober, decider, time, Faultless, Fault, Up,
              TypeOK, Rows, Bodies, Outcomes
  <1>1. CASE Receive
    <2> USE <1>1 DEF Receive
    <2>1. TypeOK'
      BY CompileAssumption
    <2>2. EnvironmentAgrees'
      BY DEF EnvironmentAgrees
    <2>3. QuietAgrees'
      <3>1. written = 0
        BY DEF EnvironmentAgrees
      <3>2. \A r \in observed : r = 0
        BY <3>1 DEF RowsAgree
      <3>3. baseline = "read" => observed = {}
        <4> SUFFICES ASSUME baseline = "read", NEW r \in observed
                     PROVE  FALSE
          OBVIOUS
        <4> QED BY <3>2 DEF RowsAgree
      <3>4. baseline = "read" => quiet = 0 /\ looked = "nothing" /\ completion # "quiet"
        BY <3>3 DEF RowsAgree, VerdictAgrees
      <3>5. UNCHANGED <<quiet, looked, completion, baseline, silence>> /\ silence \in 0..2
        OBVIOUS
      <3> QED BY <3>4, <3>5 DEF QuietAgrees
    <2>4. VerdictAgrees'
      BY DEF VerdictAgrees, EnvironmentAgrees, RowsAgree
    <2>5. SuccessNeedsSilence'
      BY DEF SuccessNeedsSilence, EnvironmentAgrees, RowsAgree, VerdictAgrees,
         QuietAgrees
    <2>6. RowsAgree'
      BY DEF RowsAgree
    <2> QED BY <2>1, <2>2, <2>3, <2>4, <2>5, <2>6
  <1>2. CASE CompileProject
    <2> USE <1>2 DEF CompileProject
    <2>1. TypeOK'
      BY CompileAssumption
    <2>2. EnvironmentAgrees'
      BY DEF EnvironmentAgrees
    <2>3. RowsAgree'
      BY DEF RowsAgree, EnvironmentAgrees
    <2>4. QuietAgrees' /\ VerdictAgrees' /\ SuccessNeedsSilence'
      BY DEF QuietAgrees, VerdictAgrees, SuccessNeedsSilence
    <2> QED BY <2>1, <2>2, <2>3, <2>4
  <1>3. CASE FinishBuild
    <2> USE <1>3 DEF FinishBuild
    <2>1. TypeOK'
      BY CompileAssumption
    <2>2. EnvironmentAgrees'
      BY DEF EnvironmentAgrees
    <2>3. QuietAgrees'
      BY DEF QuietAgrees, EnvironmentAgrees, RowsAgree, VerdictAgrees
    <2>4. VerdictAgrees'
      BY DEF VerdictAgrees, EnvironmentAgrees, RowsAgree
    <2>5. SuccessNeedsSilence'
      BY DEF SuccessNeedsSilence, EnvironmentAgrees, RowsAgree, VerdictAgrees,
         QuietAgrees
    <2>6. RowsAgree'
      BY DEF RowsAgree
    <2> QED BY <2>1, <2>2, <2>3, <2>4, <2>5, <2>6
  <1>4. CASE Reload
    <2> USE <1>4 DEF Reload
    <2>1. TypeOK'
      BY CompileAssumption
    <2>2. EnvironmentAgrees'
      BY DEF EnvironmentAgrees
    <2>3. RowsAgree' /\ QuietAgrees' /\ VerdictAgrees' /\ SuccessNeedsSilence'
      BY DEF RowsAgree, QuietAgrees, VerdictAgrees, SuccessNeedsSilence
    <2> QED BY <2>1, <2>2, <2>3
  <1>5. CASE ComeBack
    <2> USE <1>5 DEF ComeBack
    <2>1. TypeOK'
      BY CompileAssumption
    <2>2. EnvironmentAgrees'
      BY DEF EnvironmentAgrees
    <2>3. RowsAgree' /\ QuietAgrees' /\ VerdictAgrees' /\ SuccessNeedsSilence'
      BY DEF RowsAgree, QuietAgrees, VerdictAgrees, SuccessNeedsSilence
    <2> QED BY <2>1, <2>2, <2>3
  <1> QED BY <1>1, <1>2, <1>3, <1>4, <1>5 DEF EnvironmentStep

LEMMA RequestStepPreserves == IInv /\ RequestStep => IInv'
  <1> SUFFICES ASSUME IInv, RequestStep
               PROVE  IInv'
    OBVIOUS
  <1> USE DEF IInv, vars, environment, poller, prober, decider, time, Faultless, Fault, Up,
              TypeOK, Rows, Bodies, Outcomes
  <1>1. CASE Answered
    <2> USE <1>1 DEF Answered
    <2>1. TypeOK'
      BY CompileAssumption
    <2>2. EnvironmentAgrees'
      BY DEF EnvironmentAgrees
    <2>3. RowsAgree' /\ QuietAgrees' /\ VerdictAgrees' /\ SuccessNeedsSilence'
      BY DEF RowsAgree, QuietAgrees, VerdictAgrees, SuccessNeedsSilence
    <2> QED BY <2>1, <2>2, <2>3
  <1>2. CASE RequestFails
    <2> USE <1>2 DEF RequestFails, Cancelled
    <2>1. TypeOK'
      BY CompileAssumption
    <2>2. EnvironmentAgrees'
      BY DEF EnvironmentAgrees
    <2>3. RowsAgree' /\ QuietAgrees' /\ VerdictAgrees' /\ SuccessNeedsSilence'
      BY DEF RowsAgree, QuietAgrees, VerdictAgrees, SuccessNeedsSilence
    <2> QED BY <2>1, <2>2, <2>3
  <1> QED BY <1>1, <1>2 DEF RequestStep

LEMMA PollStepPreserves == IInv /\ PollStep => IInv'
  <1> SUFFICES ASSUME IInv, PollStep
               PROVE  IInv'
    OBVIOUS
  <1> USE DEF IInv, vars, environment, poller, prober, decider, time, Faultless, Fault, Up,
              TypeOK, Rows, Bodies, Outcomes
  <1>1. CASE PollRows
    <2> USE <1>1 DEF PollRows, RowsAfter
    <2>1. TypeOK'
      <3>1. RowsAfter(cutoff) \subseteq Rows /\ written \in Nat
        BY CompileAssumption
      <3> HIDE DEF RowsAfter, Rows
      <3>2. observed' \in SUBSET Rows
        BY <3>1
      <3>3. cutoff' \in -1..Projects
        BY <3>1, CompileAssumption DEF Rows
      <3>4. quiet' \in 0..2
        OBVIOUS
      <3> QED BY <3>2, <3>3, <3>4
    <2>2. RowsAgree'
      <3>1. \A r \in RowsAfter(cutoff) : r \in 0..written /\ r > cutoff
        OBVIOUS
      <3> DEFINE rows == RowsAfter(cutoff)
      <3>2. /\ observed' = observed \cup rows /\ cutoff' \in {cutoff, written}
            /\ quiet' = IF rows \subseteq observed THEN quiet ELSE 0
            /\ UNCHANGED <<written, pc, poll, baseline, looked>>
        OBVIOUS
      <3> HIDE DEF rows, RowsAfter, PollRows
      <3>3. baseline = "read" => cutoff' >= 0 /\ 0 \notin observed'
        BY <3>1, <3>2 DEF RowsAgree, rows
      <3>4. observed' \subseteq 0..written
        BY <3>1, <3>2 DEF RowsAgree, rows
      <3>5. pc # "start"
        BY DEF RowsAgree, PollRows
      <3> QED BY <3>2, <3>3, <3>4, <3>5 DEF RowsAgree
    <2>3. QuietAgrees'
      BY DEF QuietAgrees, EnvironmentAgrees, RowsAgree, VerdictAgrees
    <2>4. VerdictAgrees'
      BY DEF VerdictAgrees, EnvironmentAgrees, RowsAgree
    <2>5. EnvironmentAgrees' /\ SuccessNeedsSilence'
      BY DEF EnvironmentAgrees, SuccessNeedsSilence
    <2> QED BY <2>1, <2>2, <2>3, <2>4, <2>5
  <1>2. CASE PollFails
    <2> USE <1>2 DEF PollFails
    <2>1. TypeOK'
      BY CompileAssumption
    <2>2. RowsAgree'
      BY DEF RowsAgree, EnvironmentAgrees
    <2>3. VerdictAgrees'
      BY DEF VerdictAgrees, EnvironmentAgrees, RowsAgree
    <2>4. EnvironmentAgrees' /\ QuietAgrees' /\ SuccessNeedsSilence'
      BY DEF EnvironmentAgrees, QuietAgrees, SuccessNeedsSilence
    <2> QED BY <2>1, <2>2, <2>3, <2>4
  <1> QED BY <1>1, <1>2 DEF PollStep

LEMMA ProbeStepPreserves == IInv /\ ProbeStep => IInv'
  <1> SUFFICES ASSUME IInv, ProbeStep
               PROVE  IInv'
    OBVIOUS
  <1> USE DEF IInv, vars, environment, poller, prober, decider, time, Faultless, Fault, Up,
              TypeOK, Rows, Bodies, Outcomes
  <1>1. CASE ProbeAnswered
    <2> USE <1>1 DEF ProbeAnswered
    <2>1. TypeOK'
      BY CompileAssumption
    <2>2. EnvironmentAgrees' /\ RowsAgree' /\ QuietAgrees' /\ VerdictAgrees' /\
          SuccessNeedsSilence'
      BY DEF EnvironmentAgrees, RowsAgree, QuietAgrees, VerdictAgrees, SuccessNeedsSilence
    <2> QED BY <2>1, <2>2
  <1>2. CASE ProbeFails
    <2> USE <1>2 DEF ProbeFails, OneMore, IsOutage
    <2>1. TypeOK'
      BY CompileAssumption
    <2>2. EnvironmentAgrees' /\ RowsAgree' /\ QuietAgrees' /\ VerdictAgrees' /\
          SuccessNeedsSilence'
      BY DEF EnvironmentAgrees, RowsAgree, QuietAgrees, VerdictAgrees, SuccessNeedsSilence
    <2> QED BY <2>1, <2>2
  <1> QED BY <1>1, <1>2 DEF ProbeStep

LEMMA WatchersEndPreserves == IInv /\ WatchersEnd => IInv'
  <1> SUFFICES ASSUME IInv, WatchersEnd
               PROVE  IInv'
    OBVIOUS
  <1> USE DEF IInv, vars, environment, poller, prober, decider, time, Faultless, Fault, Up,
              TypeOK, Rows, Bodies, Outcomes
  <1>1. CASE PollEnds
    <2> USE <1>1 DEF PollEnds, StopPolling
    <2>1. TypeOK'
      BY CompileAssumption
    <2>2. RowsAgree'
      BY DEF RowsAgree, EnvironmentAgrees
    <2>3. VerdictAgrees'
      BY DEF VerdictAgrees, EnvironmentAgrees, RowsAgree
    <2>4. EnvironmentAgrees' /\ QuietAgrees' /\ SuccessNeedsSilence'
      BY DEF EnvironmentAgrees, QuietAgrees, SuccessNeedsSilence
    <2> QED BY <2>1, <2>2, <2>3, <2>4
  <1>2. CASE ProbeEnds
    <2> USE <1>2 DEF ProbeEnds
    <2>1. TypeOK'
      BY CompileAssumption
    <2>2. VerdictAgrees'
      BY DEF VerdictAgrees, EnvironmentAgrees, RowsAgree
    <2>3. EnvironmentAgrees' /\ RowsAgree' /\ QuietAgrees' /\
          SuccessNeedsSilence'
      BY DEF EnvironmentAgrees, RowsAgree, QuietAgrees, SuccessNeedsSilence
    <2> QED BY <2>1, <2>2, <2>3
  <1> QED BY <1>1, <1>2 DEF WatchersEnd

LEMMA FullStepPreserves == IInv /\ FullStep => IInv'
  <1> SUFFICES ASSUME IInv, FullStep
               PROVE  IInv'
    OBVIOUS
  <1> USE DEF IInv, vars, environment, poller, prober, decider, time, Faultless, Fault, Up,
              TypeOK, Rows, Bodies, Outcomes
  <1>1. CASE Begin
    <2> USE <1>1 DEF Begin
    <2>1. TypeOK'
      BY CompileAssumption
    <2>2. EnvironmentAgrees'
      BY DEF EnvironmentAgrees
    <2>3. RowsAgree'
      BY DEF RowsAgree, EnvironmentAgrees
    <2>4. QuietAgrees'
      BY DEF QuietAgrees, EnvironmentAgrees, RowsAgree, VerdictAgrees
    <2>5. VerdictAgrees'
      BY DEF VerdictAgrees, EnvironmentAgrees, RowsAgree
    <2>6. SuccessNeedsSilence'
      BY DEF SuccessNeedsSilence, EnvironmentAgrees, RowsAgree, VerdictAgrees,
         QuietAgrees
    <2> QED BY <2>1, <2>2, <2>3, <2>4, <2>5, <2>6
  <1>2. CASE Look
    <2> USE <1>2 DEF Look, SawRows
    <2>1. TypeOK'
      BY DEF EnvironmentAgrees
    <2>2. EnvironmentAgrees'
      BY DEF EnvironmentAgrees
    <2>3. RowsAgree'
      BY DEF RowsAgree, EnvironmentAgrees
    <2>4. QuietAgrees'
      BY DEF QuietAgrees, EnvironmentAgrees, RowsAgree, VerdictAgrees
    <2>5. VerdictAgrees'
      BY DEF VerdictAgrees, EnvironmentAgrees, RowsAgree
    <2>6. SuccessNeedsSilence'
      BY DEF SuccessNeedsSilence, EnvironmentAgrees, RowsAgree, VerdictAgrees,
         QuietAgrees
    <2> QED BY <2>1, <2>2, <2>3, <2>4, <2>5, <2>6
  <1>3. CASE DecideFull
    <2> USE <1>3 DEF DecideFull, Decision, GotResponse, Confirmed, WentQuiet, NeverBegan
    <2>1. TypeOK'
      BY CompileAssumption
    <2>2. EnvironmentAgrees'
      BY DEF EnvironmentAgrees
    <2>3. RowsAgree'
      BY DEF RowsAgree, EnvironmentAgrees
    <2>4. QuietAgrees'
      BY DEF QuietAgrees, EnvironmentAgrees, RowsAgree, VerdictAgrees
    <2>5. VerdictAgrees'
      BY DEF VerdictAgrees, EnvironmentAgrees, RowsAgree
    <2>6. SuccessNeedsSilence'
      BY DEF VerdictAgrees, SuccessNeedsSilence
    <2> QED BY <2>1, <2>2, <2>3, <2>4, <2>5, <2>6
  <1>4. CASE Closed
    <2> USE <1>4 DEF Closed, WatchersEnded
    <2>1. TypeOK'
      BY CompileAssumption
    <2>2. EnvironmentAgrees'
      BY DEF EnvironmentAgrees
    <2>3. RowsAgree'
      BY DEF RowsAgree, EnvironmentAgrees
    <2>4. VerdictAgrees'
      BY DEF VerdictAgrees, EnvironmentAgrees, RowsAgree
    <2>5. QuietAgrees' /\ SuccessNeedsSilence'
      BY DEF QuietAgrees, SuccessNeedsSilence
    <2> QED BY <2>1, <2>2, <2>3, <2>4, <2>5
  <1>5. CASE JudgeFull
    <2> USE <1>5 DEF JudgeFull, EnvironmentVerdict, SawErrors
    <2>1. TypeOK'
      BY CompileAssumption
    <2>2. EnvironmentAgrees'
      BY DEF EnvironmentAgrees
    <2>3. RowsAgree'
      BY DEF RowsAgree, EnvironmentAgrees
    <2>4. VerdictAgrees'
      BY DEF VerdictAgrees, EnvironmentAgrees, RowsAgree
    <2>5. SuccessNeedsSilence'
      BY DEF SuccessNeedsSilence, EnvironmentAgrees, RowsAgree, VerdictAgrees,
         QuietAgrees
    <2>6. QuietAgrees'
      BY DEF QuietAgrees
    <2> QED BY <2>1, <2>2, <2>3, <2>4, <2>5, <2>6
  <1> QED BY <1>1, <1>2, <1>3, <1>4, <1>5 DEF FullStep

LEMMA PackageStepPreserves == IInv /\ PackageStep => IInv'
  <1> SUFFICES ASSUME IInv, PackageStep
               PROVE  IInv'
    OBVIOUS
  <1> USE DEF IInv, vars, environment, poller, prober, decider, time, Faultless, Fault, Up,
              TypeOK, Rows, Bodies, Outcomes
  <1>1. CASE DecidePackage
    <2> USE <1>1 DEF DecidePackage, EndPackage, Settled, SettledSince, RequiredQuiet,
              PackageVerdict, SawRows, SawErrors
    <2>1. TypeOK'
      BY CompileAssumption
    <2>2. EnvironmentAgrees'
      BY DEF EnvironmentAgrees
    <2>3. RowsAgree'
      BY DEF RowsAgree, EnvironmentAgrees
    <2>4. QuietAgrees'
      BY DEF QuietAgrees, EnvironmentAgrees, RowsAgree, VerdictAgrees
    <2>5. VerdictAgrees'
      BY DEF VerdictAgrees, EnvironmentAgrees, RowsAgree
    <2>6. SuccessNeedsSilence'
      BY DEF SuccessNeedsSilence, EnvironmentAgrees, RowsAgree, VerdictAgrees,
         QuietAgrees
    <2> QED BY <2>1, <2>2, <2>3, <2>4, <2>5, <2>6
  <1>2. CASE PackageUnmonitored
    <2> USE <1>2 DEF PackageUnmonitored, EndPackage
    <2>1. TypeOK'
      BY CompileAssumption
    <2>2. EnvironmentAgrees'
      BY DEF EnvironmentAgrees
    <2>3. RowsAgree'
      BY DEF RowsAgree, EnvironmentAgrees
    <2>4. QuietAgrees'
      BY DEF QuietAgrees, EnvironmentAgrees, RowsAgree, VerdictAgrees
    <2>5. VerdictAgrees'
      BY DEF VerdictAgrees, EnvironmentAgrees, RowsAgree
    <2>6. SuccessNeedsSilence'
      BY DEF SuccessNeedsSilence, EnvironmentAgrees, RowsAgree, VerdictAgrees,
         QuietAgrees
    <2> QED BY <2>1, <2>2, <2>3, <2>4, <2>5, <2>6
  <1>3. CASE PackageTimesOut
    <2> USE <1>3 DEF PackageTimesOut, EndPackage, SawErrors
    <2>1. TypeOK'
      BY CompileAssumption
    <2>2. EnvironmentAgrees'
      BY DEF EnvironmentAgrees
    <2>3. RowsAgree'
      BY DEF RowsAgree, EnvironmentAgrees
    <2>4. QuietAgrees'
      BY DEF QuietAgrees, EnvironmentAgrees, RowsAgree, VerdictAgrees
    <2>5. VerdictAgrees'
      BY DEF VerdictAgrees, EnvironmentAgrees, RowsAgree
    <2>6. SuccessNeedsSilence'
      BY DEF SuccessNeedsSilence, EnvironmentAgrees, RowsAgree, VerdictAgrees,
         QuietAgrees
    <2> QED BY <2>1, <2>2, <2>3, <2>4, <2>5, <2>6
  <1> QED BY <1>1, <1>2, <1>3 DEF PackageStep

LEMMA TimeStepPreserves == IInv /\ TimeStep => IInv'
  <1> SUFFICES ASSUME IInv, TimeStep
               PROVE  IInv'
    OBVIOUS
  <1> USE DEF IInv, vars, environment, poller, prober, decider, time, Faultless, Fault, Up,
              TypeOK, Rows, Bodies, Outcomes
  <1>1. CASE Tick
    <2> USE <1>1 DEF Tick
    <2>1. TypeOK'
      BY CompileAssumption
    <2>2. EnvironmentAgrees' /\ RowsAgree' /\ QuietAgrees' /\ VerdictAgrees' /\
          SuccessNeedsSilence'
      BY DEF EnvironmentAgrees, RowsAgree, QuietAgrees, VerdictAgrees,
         SuccessNeedsSilence
    <2> QED BY <2>1, <2>2
  <1>2. CASE StayQuiet
    <2> USE <1>2 DEF StayQuiet, SawRows
    <2>1. TypeOK'
      BY CompileAssumption
    <2>2. RowsAgree'
      BY DEF RowsAgree, EnvironmentAgrees
    <2>3. QuietAgrees'
      BY DEF QuietAgrees, EnvironmentAgrees, RowsAgree, VerdictAgrees
    <2>4. SuccessNeedsSilence'
      BY DEF SuccessNeedsSilence, EnvironmentAgrees, RowsAgree, VerdictAgrees,
         QuietAgrees
    <2>5. EnvironmentAgrees' /\ VerdictAgrees'
      BY DEF EnvironmentAgrees, VerdictAgrees
    <2> QED BY <2>1, <2>2, <2>3, <2>4, <2>5
  <1>3. CASE AnswerSettles
    <2> USE <1>3 DEF AnswerSettles
    <2>1. TypeOK'
      BY CompileAssumption
    <2>2. EnvironmentAgrees' /\ RowsAgree' /\ QuietAgrees' /\ VerdictAgrees' /\
          SuccessNeedsSilence'
      BY DEF EnvironmentAgrees, RowsAgree, QuietAgrees, VerdictAgrees,
         SuccessNeedsSilence
    <2> QED BY <2>1, <2>2
  <1> QED BY <1>1, <1>2, <1>3 DEF TimeStep

LEMMA InitEstablishes == Init => IInv
  BY CompileAssumption DEF Init, IInv, TypeOK, EnvironmentAgrees, RowsAgree,
     QuietAgrees, VerdictAgrees, SuccessNeedsSilence, Rows, Bodies, Outcomes

LEMMA StepPreserves == IInv /\ [Next]_vars => IInv'
  <1> SUFFICES ASSUME IInv, [Next]_vars
               PROVE  IInv'
    OBVIOUS
  <1>1. CASE UNCHANGED vars
    BY <1>1 DEF vars, environment, poller, prober, decider, time, IInv, TypeOK, Rows,
       EnvironmentAgrees, RowsAgree, QuietAgrees, VerdictAgrees, SuccessNeedsSilence
  <1>2. CASE Next
    BY <1>1, <1>2, EnvironmentStepPreserves, RequestStepPreserves, PollStepPreserves,
       ProbeStepPreserves, WatchersEndPreserves, FullStepPreserves, PackageStepPreserves,
       TimeStepPreserves DEF Next, DeciderStep, FullStep, PackageStep, TimeStep, Over
  <1> QED BY <1>1, <1>2

\* The inductive invariant holds in every state of a compile.
THEOREM Invariant == Spec => []IInv
  BY InitEstablishes, StepPreserves, PTL DEF Spec

\* Every reachable state is well formed (pkgwrite_compile.go:570-622, 855-912).
THEOREM TypeCorrect == Spec => []TypeOK
  BY Invariant, PTL DEF IInv

\* A success is of this compile, true where the answer says it, and never of a
\* build that had failed when the result was read, however many projects a
\* build has (pkgwrite_compile.go:622-749).
THEOREM SuccessIsAlwaysTrue == Spec => []SuccessIsTrue
  <1>1. IInv => SuccessIsTrue
    <2> SUFFICES ASSUME IInv, verdict = "success"
                 PROVE  /\ baseline = "read" => build # "none"
                        /\ completion = "response" => build = "succeeded"
                        /\ result # "unread" => build # "failed"
      BY DEF SuccessIsTrue
    <2>1. ASSUME baseline = "read", build = "none" PROVE FALSE
      <3>1. PICK r \in observed : r # 0
        BY <2>1 DEF IInv, RowsAgree, VerdictAgrees, Outcomes
      <3>2. r \in 0..0
        BY <2>1 DEF IInv, RowsAgree, EnvironmentAgrees
      <3> QED BY <3>1, <3>2
    <2>2. completion = "response" => build = "succeeded"
      BY DEF IInv, VerdictAgrees, EnvironmentAgrees
    <2>3. result # "unread" => build # "failed"
      BY DEF IInv, EnvironmentAgrees, VerdictAgrees, Outcomes
    <2> QED BY <2>1, <2>2, <2>3
  <1> QED BY <1>1, Invariant, PTL

\* A success while the build runs takes its whole silence, or misses that are
\* taken for its reload
\* (pkgwrite_compile.go:546-547, 807-833).
THEOREM SuccessTakesSilence == Spec => []SuccessNeedsSilence
  BY Invariant, PTL DEF IInv

\* Errors that were polled fail the compile (pkgwrite_compile.go:697-749, 989-1012).
THEOREM ErrorsAlwaysFail == Spec => ErrorsFailTheCompile
  <1>1. IInv /\ [Next]_vars =>
          [verdict = "none" /\ verdict' = "success" /\ SawErrors
              => kind = "full" /\ completion' = "response"]_vars
    <2> SUFFICES ASSUME IInv, Next, verdict = "none", verdict' = "success", SawErrors
                 PROVE  kind = "full" /\ completion' = "response"
      OBVIOUS
    <2>1. CASE JudgeFull
      BY <2>1 DEF IInv, VerdictAgrees, JudgeFull, EnvironmentVerdict
    <2>2. ~(DecidePackage \/ PackageTimesOut \/ PackageUnmonitored)
      BY DEF DecidePackage, PackageTimesOut, PackageUnmonitored, EndPackage, PackageVerdict
    <2>3. JudgeFull \/ verdict' = verdict
      BY <2>2 DEF Next, EnvironmentStep, RequestStep, PollStep, ProbeStep, WatchersEnd, DeciderStep,
         Receive, CompileProject, FinishBuild, Reload, ComeBack, Answered, RequestFails,
         PollRows, PollFails, PollEnds, ProbeAnswered, ProbeFails, ProbeEnds, Begin, Look,
         DecideFull, Closed, Tick, StayQuiet, AnswerSettles, Over, vars, decider
    <2> QED BY <2>1, <2>3
  <1> QED BY <1>1, Invariant, PTL DEF Spec, ErrorsFailTheCompile

\* Once a full compile has answered, neither watcher does anything any more
\* (pkgwrite_compile.go:619-620).
THEOREM WatchersAreOver == Spec => NothingGoesOn
  <1>1. IInv /\ [Next]_vars => [pc = "done" /\ kind = "full" => UNCHANGED <<poller, prober>>]_vars
    <2> SUFFICES ASSUME IInv, Next, pc = "done", kind = "full"
                 PROVE  UNCHANGED <<poller, prober>>
      OBVIOUS
    <2>1. poll = "ended" /\ probe = "ended"
      BY DEF IInv, VerdictAgrees
    <2> QED BY <2>1 DEF Next, EnvironmentStep, RequestStep, PollStep, ProbeStep, WatchersEnd,
         DeciderStep, Receive, CompileProject, FinishBuild, Reload, ComeBack, Answered,
         RequestFails, PollRows, PollFails, PollEnds, ProbeAnswered, ProbeFails, ProbeEnds,
         Begin, Look, DecideFull, Closed, JudgeFull, DecidePackage, PackageUnmonitored,
         PackageTimesOut, Tick, StayQuiet, AnswerSettles, Over, vars
  <1> QED BY <1>1, Invariant, PTL DEF Spec, NothingGoesOn
=============================================================================
