-------------------------- MODULE ProcessRun_proofs --------------------------
(***************************************************************************)
(* What run-process promises for any records, worlds and failures: a call  *)
(* that was told that nothing was launched never gets a run, the answer    *)
(* never runs ahead of the run, and a cleanup deletes only what is the     *)
(* run's and the caller's, in time.                                        *)
(***************************************************************************)
EXTENDS ProcessRun, FiniteSetTheorems, TLAPS

\* The gate decides: no run without a launch, no launch before the gate, and
\* an answer "not started" only when no run can come any more.
GateDecides ==
    /\ run # "none" => gate = "sent"
    /\ handler = "notlaunched" => gate = "withdrawn"
    /\ pc \in {"prepare", "gate"} => gate # "sent"
    /\ status = "not-started" => gate = "withdrawn" \/ run = "refused"
    /\ pc \notin {"prepare", "gate", "launch", "done"} => run \notin {"none", "refused"}

\* What was polled of an end is how the run ended, and so is the answer.
EndsAreTheRuns ==
    /\ seen \in Ended => run = seen
    /\ status \in Ended => run = status

\* What the cleanup handles is what it chose, of the records that are new.
OursAreNew ==
    /\ pc = "prepare" => created = {} /\ ours = {}
    /\ created \cap known = {}
    /\ ours \subseteq {r \in Records \ known : world[r].by = "user"}

HandlesOurs ==
    /\ todo \subseteq ours /\ refused \subseteq ours /\ unheard \subseteq ours
    /\ pc = "senddelete" => record \in ours
    /\ pc \in {"prepare", "gate", "launch", "verify", "poll", "collect", "tie"} =>
          refused = {} /\ unheard = {}

\* No part of a set hangs together by its own lookups only.
Anchored(S) ==
    \A T \in SUBSET S :
        T # {} => \E r \in T : \/ world[r].holder \in {"run", "sub"}
                               \/ world[r].points \cap (S \ T) # {}

\* The deadline's answer comes at the deadline, and what was decided with the
\* caller there is the one request that may be sent after it left.
InItsTime ==
    /\ handler \in {"deadline", "stillrunning"} => clock = 2
    /\ caller = "there" \/ pc \in {"sendcancel", "senddelete"} => lateStarts = 0
    /\ lateStarts <= 1

USE DEF At, Goto, Faultless, Fault, CallerGone, Late

LEMMA InitTypeOK == Init => TypeOK /\ GateDecides /\ HandlesOurs
  BY ProcessRunAssumption DEF Init, TypeOK, GateDecides, HandlesOurs, Ended, Answers

LEMMA StepTypeOK == TypeOK /\ GateDecides /\ HandlesOurs /\ [Next]_vars => TypeOK'
<1> USE ProcessRunAssumption DEF TypeOK, Ended, Answers, platform, call, watch, cleanup
<1> SUFFICES ASSUME TypeOK, GateDecides, HandlesOurs, [Next]_vars PROVE TypeOK'
    OBVIOUS
<1>1. CASE Refuse
    BY <1>1 DEF Refuse
<1>2. CASE Capture
    BY <1>2 DEF Capture
<1>3. CASE PassGate
    BY <1>3 DEF PassGate
<1>4. CASE Launched
    BY <1>4 DEF Launched
<1>5. CASE Verify
    BY <1>5 DEF Verify
<1>6. CASE PollEnds
    BY <1>6 DEF PollEnds, Applied, WaitIsOver
<1>7. CASE Collect
    BY <1>7 DEF Collect, NewIn
<1>8. CASE Tie
    BY <1>8 DEF Tie, Tied, Mine
<1>9. CASE TooLate
    BY <1>9 DEF TooLate
<1>10. CASE DecideCancel
    BY <1>10 DEF DecideCancel
<1>11. CASE SendCancel
    BY <1>11 DEF SendCancel, Sends
<1>12. CASE NotSent
  <2>1. refused' \subseteq Records
    BY <1>12 DEF NotSent, HandlesOurs
  <2>2. faults' \in 0..MaxFaults
    BY <1>12 DEF NotSent
  <2>3. pc' = "delete" /\ UNCHANGED <<platform, call, status, seen, watch, created, report, ours,
                                     pass, passing, todo, record, deleted, lateStarts>>
    BY <1>12 DEF NotSent
  <2> QED
    BY <2>1, <2>2, <2>3
<1>13. CASE Stopped
    BY <1>13 DEF Stopped
<1>14. CASE StopWaitEnds
    BY <1>14 DEF StopWaitEnds
<1>15. CASE DecideDelete
    BY <1>15 DEF DecideDelete, FirstAmong
<1>16. CASE SendDelete
  <2>1. record \in Records
    BY <1>16 DEF SendDelete, HandlesOurs
  <2>2. /\ rows' \subseteq Records /\ refused' \subseteq Records /\ deleted' \subseteq Records
        /\ unheard' \subseteq Records
    BY <1>16, <2>1 DEF SendDelete, Deletes
  <2>3. faults' \in 0..MaxFaults
    BY <1>16 DEF SendDelete
  <2>4. lateStarts' \in Nat
    BY <1>16 DEF SendDelete, Sends
  <2>5. pc' = "delete" /\ UNCHANGED <<world, run, call, status, seen, watch, created, report, ours,
                                     pass, passing, todo, record>>
    BY <1>16 DEF SendDelete
  <2> QED
    BY <2>2, <2>3, <2>4, <2>5
<1>17. CASE PassEnds
    BY <1>17 DEF PassEnds, AnotherPass
<1>18. CASE AnswerResult
    BY <1>18 DEF AnswerResult, work
<1>19. CASE DeadlineOrGone
    BY <1>19 DEF DeadlineOrGone, work
<1>20. CASE Withdraw
    BY <1>20 DEF Withdraw, AfterWithdraw, work
<1>21. CASE Poll
    BY <1>21 DEF Poll, GateDecides
<1>22. CASE Start
    BY <1>22 DEF Start, work
<1>23. CASE RunGoesOn
    BY <1>23 DEF RunGoesOn, work
<1>24. CASE CallerLeaves
    BY <1>24 DEF CallerLeaves, work
<1>27. CASE Tick
  <2>1. clock' \in 0..2
    BY <1>27 DEF Tick
  <2> QED
    BY <1>27, <2>1 DEF Tick, work
<1>25. CASE \E r \in Records : Create(r)
    BY <1>25 DEF Create, work
<1>26. CASE UNCHANGED vars
    BY <1>26 DEF vars, work
<1>28. CASE \E r \in Records : DeleteLater(r)
    BY <1>28 DEF DeleteLater, Deletes, work
<1> QED
    BY <1>1, <1>2, <1>3, <1>4, <1>5, <1>6, <1>7, <1>8, <1>9, <1>10, <1>11, <1>12, <1>13,
       <1>14, <1>15, <1>16, <1>17, <1>18, <1>19, <1>20, <1>21, <1>22, <1>23, <1>24, <1>25,
       <1>26, <1>27, <1>28 DEF Next, WorkStep, HandlerStep, Over

\* The actions of the work between the launch and its end, whose pc moves on
\* among the places where the run has been started, or to done.
LEMMA StepGateDecides == TypeOK /\ GateDecides /\ [Next]_vars => GateDecides'
<1> USE DEF TypeOK, GateDecides, platform, call, watch, cleanup
<1> SUFFICES ASSUME TypeOK, GateDecides, [Next]_vars PROVE GateDecides'
    OBVIOUS
<1>1. CASE Refuse \/ Capture
    BY <1>1 DEF Refuse, Capture
<1>2. CASE PassGate
    BY <1>2 DEF PassGate
<1>3. CASE Launched
    BY <1>3 DEF Launched, Ended
<1>4. CASE Verify \/ Collect
    BY <1>4 DEF Verify, Collect
<1>5. CASE PollEnds
    BY <1>5 DEF PollEnds, Applied, WaitIsOver, Ended
<1>6. CASE Tie \/ TooLate \/ DecideCancel \/ NotSent
    BY <1>6 DEF Tie, TooLate, DecideCancel, NotSent
<1>7. CASE SendCancel
    BY <1>7 DEF SendCancel, Sends
<1>8. CASE Stopped
    BY <1>8 DEF Stopped, Ended
<1>9. CASE StopWaitEnds \/ DecideDelete \/ SendDelete \/ PassEnds
    BY <1>9 DEF StopWaitEnds, DecideDelete, SendDelete, Sends, PassEnds
<1>10. CASE AnswerResult \/ DeadlineOrGone
    BY <1>10 DEF AnswerResult, DeadlineOrGone, work
<1>11. CASE Withdraw
    BY <1>11 DEF Withdraw, AfterWithdraw, work
<1>12. CASE Poll
    BY <1>12 DEF Poll
<1>13. CASE Start
    BY <1>13 DEF Start, work
<1>14. CASE RunGoesOn
    BY <1>14 DEF RunGoesOn, work, Ended
<1>15. CASE CallerLeaves \/ Tick
    BY <1>15 DEF CallerLeaves, Tick, work
<1>16. CASE \E r \in Records : Create(r) \/ DeleteLater(r)
    BY <1>16 DEF Create, DeleteLater, work
<1>17. CASE UNCHANGED vars
    BY <1>17 DEF vars, work
<1> QED
    BY <1>1, <1>2, <1>3, <1>4, <1>5, <1>6, <1>7, <1>8, <1>9, <1>10, <1>11, <1>12, <1>13,
       <1>14, <1>15, <1>16, <1>17 DEF Next, WorkStep, HandlerStep, Over

LEMMA StepHandlesOurs == HandlesOurs /\ [Next]_vars => HandlesOurs'
<1> USE DEF HandlesOurs, platform, call, watch, cleanup
<1> SUFFICES ASSUME HandlesOurs, [Next]_vars PROVE HandlesOurs'
    OBVIOUS
<1>1. CASE Refuse \/ Capture \/ PassGate \/ Launched
    BY <1>1 DEF Refuse, Capture, PassGate, Launched
<1>2. CASE Verify \/ PollEnds \/ Collect \/ Poll
    BY <1>2 DEF Verify, PollEnds, Collect, Poll
<1>3. CASE Tie \/ TooLate
    BY <1>3 DEF Tie, TooLate
<1>4. CASE DecideCancel \/ SendCancel \/ Stopped \/ StopWaitEnds
    BY <1>4 DEF DecideCancel, SendCancel, Stopped, StopWaitEnds
<1>5. CASE NotSent
    BY <1>5 DEF NotSent
<1>6. CASE DecideDelete
    BY <1>6 DEF DecideDelete, FirstAmong
<1>7. CASE SendDelete
    BY <1>7 DEF SendDelete
<1>8. CASE PassEnds
    BY <1>8 DEF PassEnds
<1>9. CASE AnswerResult \/ DeadlineOrGone \/ Withdraw
    BY <1>9 DEF AnswerResult, DeadlineOrGone, Withdraw, work
<1>10. CASE Start \/ RunGoesOn \/ CallerLeaves \/ Tick
            \/ \E r \in Records : Create(r) \/ DeleteLater(r)
    BY <1>10 DEF Start, RunGoesOn, CallerLeaves, Tick, Create, DeleteLater, work
<1>11. CASE UNCHANGED vars
    BY <1>11 DEF vars, work
<1> QED
    BY <1>1, <1>2, <1>3, <1>4, <1>5, <1>6, <1>7, <1>8, <1>9, <1>10, <1>11
    DEF Next, WorkStep, HandlerStep, Over

LEMMA SoundAlways == Spec => [](TypeOK /\ GateDecides /\ HandlesOurs)
<1>1. Init => TypeOK /\ GateDecides /\ HandlesOurs
    BY InitTypeOK
<1>2. TypeOK /\ GateDecides /\ HandlesOurs /\ [Next]_vars
          => TypeOK' /\ GateDecides' /\ HandlesOurs'
    BY StepTypeOK, StepGateDecides, StepHandlesOurs
<1> QED
    BY <1>1, <1>2, PTL DEF Spec

\* The call's state stays in its types (the variables of ProcessRun).
THEOREM TypeCorrect == Spec => []TypeOK
  BY SoundAlways, PTL

\* Whoever was told that nothing was launched, or left before it was, never
\* gets a run (DataWriteLaunchGate).
THEOREM NotLaunchedStaysFinal == Spec => []NotLaunchedIsFinal
<1>1. TypeOK /\ GateDecides => NotLaunchedIsFinal
    BY DEF TypeOK, GateDecides, NotLaunchedIsFinal
<1> QED
    BY <1>1, SoundAlways, PTL

\* How the run ended stays how it ended.
LEMMA StepEnds == TypeOK /\ EndsAreTheRuns /\ [Next]_vars => EndsAreTheRuns'
<1> USE DEF EndsAreTheRuns, Ended, platform, call, watch, cleanup
<1> SUFFICES ASSUME TypeOK, EndsAreTheRuns, [Next]_vars PROVE EndsAreTheRuns'
    OBVIOUS
<1>1. CASE Refuse \/ Capture \/ Verify \/ Collect
    BY <1>1 DEF Refuse, Capture, Verify, Collect
<1>2. CASE PassGate
    BY <1>2 DEF PassGate
<1>3. CASE Launched
    BY <1>3 DEF Launched
<1>4. CASE PollEnds
    BY <1>4 DEF PollEnds, Applied
<1>5. CASE Poll
    BY <1>5 DEF Poll
<1>6. CASE Tie \/ TooLate \/ DecideCancel \/ NotSent \/ StopWaitEnds
    BY <1>6 DEF Tie, TooLate, DecideCancel, NotSent, StopWaitEnds
<1>7. CASE SendCancel
    BY <1>7 DEF SendCancel
<1>8. CASE Stopped
    BY <1>8 DEF Stopped
<1>9. CASE DecideDelete \/ SendDelete \/ PassEnds
    BY <1>9 DEF DecideDelete, SendDelete, PassEnds
<1>10. CASE AnswerResult \/ DeadlineOrGone \/ Withdraw
    BY <1>10 DEF AnswerResult, DeadlineOrGone, Withdraw, work
<1>11. CASE Start \/ RunGoesOn
    BY <1>11 DEF Start, RunGoesOn, work
<1>12. CASE CallerLeaves \/ Tick \/ \E r \in Records : Create(r) \/ DeleteLater(r)
    BY <1>12 DEF CallerLeaves, Tick, Create, DeleteLater, work
<1>13. CASE UNCHANGED vars
    BY <1>13 DEF vars, work
<1> QED
    BY <1>1, <1>2, <1>3, <1>4, <1>5, <1>6, <1>7, <1>8, <1>9, <1>10, <1>11, <1>12, <1>13
    DEF Next, WorkStep, HandlerStep, Over

\* The answer never says that the run ended unless it did, and how
\* (DataWriteApplyRunState, dataWriteCancelRun).
THEOREM StatusIsAlwaysTheRuns == Spec => []StatusIsTheRuns
<1>1. Init => EndsAreTheRuns
    BY DEF Init, EndsAreTheRuns, Ended
<1>2. EndsAreTheRuns => StatusIsTheRuns
    BY DEF EndsAreTheRuns, StatusIsTheRuns
<1> QED
    BY <1>1, <1>2, StepEnds, SoundAlways, PTL DEF Spec

------------------------------------------------------------------------------
\* The answers of the deadline and of a caller who leaves.
LEMMA StepInItsTime == TypeOK /\ InItsTime /\ [Next]_vars => InItsTime'
<1> USE DEF InItsTime, TypeOK, platform, call, watch, cleanup
<1> SUFFICES ASSUME TypeOK, InItsTime, [Next]_vars PROVE InItsTime'
    OBVIOUS
<1>1. CASE Refuse \/ Capture \/ Verify \/ Collect
    BY <1>1 DEF Refuse, Capture, Verify, Collect
<1>2. CASE PassGate
    BY <1>2 DEF PassGate
<1>3. CASE Launched \/ PollEnds \/ Poll
    BY <1>3 DEF Launched, PollEnds, Poll
<1>4. CASE Tie \/ TooLate \/ NotSent \/ Stopped \/ StopWaitEnds \/ PassEnds
    BY <1>4 DEF Tie, TooLate, NotSent, Stopped, StopWaitEnds, PassEnds
<1>5. CASE DecideCancel
    BY <1>5 DEF DecideCancel
<1>6. CASE DecideDelete
    BY <1>6 DEF DecideDelete
<1>7. CASE SendCancel
    BY <1>7 DEF SendCancel, Sends
<1>8. CASE SendDelete
    BY <1>8 DEF SendDelete, Sends
<1>9. CASE AnswerResult
    BY <1>9 DEF AnswerResult, work
<1>10. CASE DeadlineOrGone
    BY <1>10 DEF DeadlineOrGone, work
<1>11. CASE Withdraw
    BY <1>11 DEF Withdraw, work
<1>12. CASE Start \/ RunGoesOn \/ \E r \in Records : Create(r) \/ DeleteLater(r)
    BY <1>12 DEF Start, RunGoesOn, Create, DeleteLater, work
<1>13. CASE CallerLeaves
    BY <1>13 DEF CallerLeaves, work
<1>14. CASE Tick
    BY <1>14 DEF Tick, work
<1>15. CASE UNCHANGED vars
    BY <1>15 DEF vars, work
<1> QED
    BY <1>1, <1>2, <1>3, <1>4, <1>5, <1>6, <1>7, <1>8, <1>9, <1>10, <1>11, <1>12, <1>13,
       <1>14, <1>15 DEF Next, WorkStep, HandlerStep, Over

\* At most the one request that was already decided on goes out after the
\* caller left (DataWriteProcessRequest.CallerGone).
THEOREM OneAfterCallerLeft == Spec => []AtMostOneAfterCallerLeft
<1>1. Init => InItsTime
    BY DEF Init, InItsTime
<1>2. InItsTime => AtMostOneAfterCallerLeft
    BY DEF InItsTime, AtMostOneAfterCallerLeft
<1> QED
    BY <1>1, <1>2, StepInItsTime, SoundAlways, PTL DEF Spec

\* Only a deletion of a chosen record makes a row disappear, and after the
\* deadline's answer only one that was asked for before it
\* (createdRecordCleaner.deleteBeforeStop).
LEMMA StepDeletes ==
    TypeOK /\ HandlesOurs /\ InItsTime /\ [Next]_vars
        => /\ rows \ rows' \subseteq ours
           /\ handler = "stillrunning" =>
                 rows \ rows' \subseteq unheard /\ unheard' \subseteq unheard
<1> USE DEF platform, call, watch, cleanup
<1> SUFFICES ASSUME TypeOK, HandlesOurs, InItsTime, [Next]_vars
             PROVE  /\ rows \ rows' \subseteq ours
                    /\ handler = "stillrunning" =>
                          rows \ rows' \subseteq unheard /\ unheard' \subseteq unheard
    OBVIOUS
<1>1. CASE SendDelete
  <2>1. rows' = rows \/ rows' = rows \ {record}
    BY <1>1 DEF SendDelete, Deletes
  <2>2. record \in ours
    BY <1>1 DEF SendDelete, HandlesOurs
  <2>3. handler # "stillrunning"
    BY <1>1 DEF SendDelete, Sends, InTime, InItsTime, TypeOK
  <2> QED
    BY <2>1, <2>2, <2>3
<1>2. CASE \E r \in Records : DeleteLater(r)
  <2>1. PICK r \in unheard : unheard' = unheard \ {r} /\ rows' \in {rows, rows \ {r}}
    BY <1>2 DEF DeleteLater, Deletes
  <2> QED
    BY <2>1 DEF HandlesOurs
<1>3. CASE \E r \in Records : Create(r)
    BY <1>3 DEF Create
<1>4. ASSUME ~SendDelete, ~(\E r \in Records : Create(r) \/ DeleteLater(r))
      PROVE  rows' = rows /\ unheard' = unheard
  <2>1. CASE HandlerStep \/ Start \/ RunGoesOn \/ CallerLeaves \/ Tick
    BY <2>1 DEF HandlerStep, AnswerResult, DeadlineOrGone, Withdraw, Start, RunGoesOn,
                CallerLeaves, Tick
  <2>2. CASE WorkStep \/ Poll
    BY <2>2, <1>4 DEF WorkStep, Refuse, Capture, PassGate, Launched, Verify, PollEnds, Collect,
                 Tie, TooLate, DecideCancel, SendCancel, NotSent, Stopped, StopWaitEnds,
                 DecideDelete, PassEnds, Poll
  <2>3. CASE UNCHANGED vars
    BY <2>3 DEF vars
  <2> QED
    BY <2>1, <2>2, <2>3, <1>4 DEF Next, Over
<1> QED
    BY <1>1, <1>2, <1>3, <1>4

\* After the deadline's answer that the call is still running no deletion is
\* asked for, and no record disappears but one whose deletion was given up
\* before that answer (createdRecordCleaner.deleteBeforeStop).
THEOREM DeletesOnlyInTime == Spec => DeletesInTime
<1>1. Init => InItsTime
    BY DEF Init, InItsTime
<1>2. Spec => []InItsTime
    BY <1>1, StepInItsTime, SoundAlways, PTL DEF Spec
<1>3. TypeOK /\ HandlesOurs /\ InItsTime /\ [Next]_vars
        => [/\ rows \ rows' \subseteq ours
            /\ handler = "stillrunning" =>
                  rows \ rows' \subseteq unheard /\ unheard' \subseteq unheard]_vars
    BY StepDeletes
<1> QED
    BY <1>2, <1>3, SoundAlways, PTL DEF Spec, DeletesInTime

------------------------------------------------------------------------------
\* Tied is the least closed set, so it is closed itself.
LEMMA TiedIsClosed ==
    ASSUME NEW C, NEW read, NEW runs
    PROVE  /\ Tied(C, read, runs) \subseteq C
           /\ HeldIn(C, read, runs) \subseteq Tied(C, read, runs)
           /\ ClosedUnder(Tied(C, read, runs), C, read)
<1>1. Tied(C, read, runs) \subseteq C
    BY DEF Tied
<1>2. HeldIn(C, read, runs) \subseteq Tied(C, read, runs)
    BY DEF Tied, HeldIn
<1>3. ASSUME NEW r \in C, EntityOf[r] \in read,
             world[r].points \cap Tied(C, read, runs) # {},
             NEW tied \in SUBSET C, HeldIn(C, read, runs) \subseteq tied,
             ClosedUnder(tied, C, read)
      PROVE  r \in tied
  <2>1. Tied(C, read, runs) \subseteq tied
    BY <1>3 DEF Tied
  <2>2. world[r].points \cap tied # {}
    BY <1>3, <2>1
  <2> QED
    BY <1>3, <2>2 DEF ClosedUnder
<1>4. ClosedUnder(Tied(C, read, runs), C, read)
  <2> SUFFICES ASSUME NEW r \in C, EntityOf[r] \in read,
                      world[r].points \cap Tied(C, read, runs) # {}
               PROVE  r \in Tied(C, read, runs)
      BY DEF ClosedUnder
  <2>1. \A tied \in SUBSET C :
           HeldIn(C, read, runs) \subseteq tied /\ ClosedUnder(tied, C, read) => r \in tied
      BY <1>3
  <2> QED
      BY <2>1 DEF Tied
<1> QED
    BY <1>1, <1>2, <1>4

\* What is tied hangs on the run or a sub-process of it: were a part of it
\* held by neither and pointing at nothing of the rest, the rest would be
\* closed without it.
LEMMA TiedIsAnchored ==
    ASSUME NEW C, NEW read, NEW runs \in SUBSET {"run", "sub"}
    PROVE  Anchored(Tied(C, read, runs))
<1> DEFINE X == Tied(C, read, runs)
<1> SUFFICES ASSUME NEW T \in SUBSET X, T # {},
                    \A r \in T : /\ world[r].holder \notin {"run", "sub"}
                                 /\ world[r].points \cap (X \ T) = {}
             PROVE  FALSE
    BY DEF Anchored
<1>1. X \subseteq C /\ HeldIn(C, read, runs) \subseteq X /\ ClosedUnder(X, C, read)
    BY TiedIsClosed
<1>2. HeldIn(C, read, runs) \subseteq X \ T
    BY <1>1 DEF HeldIn, Holders
<1>3. ClosedUnder(X \ T, C, read)
  <2> SUFFICES ASSUME NEW r \in C, EntityOf[r] \in read,
                      world[r].points \cap (X \ T) # {}
               PROVE  r \in X \ T
      BY DEF ClosedUnder
  <2>1. world[r].points \cap X # {}
      OBVIOUS
  <2>2. r \in X
      BY <2>1, <1>1 DEF ClosedUnder
  <2> HIDE DEF X
  <2> QED
      BY <2>2
<1>4. X \ T \in SUBSET C
    BY <1>1
<1>5. \A r \in X : r \in X \ T
    BY <1>2, <1>3, <1>4 DEF Tied
<1> QED
    BY <1>5

LEMMA StepOurs ==
    TypeOK /\ OursAreNew /\ Anchored(ours) /\ [Next]_vars => OursAreNew' /\ Anchored(ours)'
<1> USE DEF platform, call, watch, cleanup
<1> SUFFICES ASSUME TypeOK, OursAreNew, Anchored(ours), [Next]_vars
             PROVE  OursAreNew' /\ Anchored(ours)'
    OBVIOUS
<1>1. CASE Tie
  <2>1. PICK read \in SUBSET watched, runs \in {{"run"}, {"run", "sub"}} :
           ours' = Tied(Mine, read, runs)
      BY <1>1 DEF Tie
  <2>2. ours' \subseteq Mine
      BY <2>1, TiedIsClosed
  <2>3. UNCHANGED <<world, known, created>> /\ pc' # "prepare"
      BY <1>1 DEF Tie
  <2>4. created \subseteq Records
      BY DEF TypeOK
  <2>5. Anchored(ours')
      BY <2>1, TiedIsAnchored
  <2>6. OursAreNew'
      BY <2>2, <2>3, <2>4 DEF Mine, OursAreNew
  <2> QED
      BY <2>3, <2>5, <2>6 DEF Anchored
<1>2. CASE Capture
  <2>1. created' = {} /\ ours' = {} /\ pc' # "prepare"
      BY <1>2 DEF Capture, OursAreNew
  <2> QED
      BY <2>1 DEF OursAreNew, Anchored
<1>3. CASE Collect
  <2>1. created' \cap known = {}
      BY <1>3 DEF Collect, NewIn
  <2>2. UNCHANGED <<world, known, ours>> /\ pc' # "prepare"
      BY <1>3 DEF Collect
  <2> QED
      BY <2>1, <2>2 DEF OursAreNew, Anchored
<1>4. ASSUME UNCHANGED <<world, known, created, ours>>, pc' = pc \/ pc' # "prepare"
      PROVE  OursAreNew' /\ Anchored(ours)'
    BY <1>4 DEF OursAreNew, Anchored
<1>5. ASSUME ~Tie, ~Capture, ~Collect
      PROVE  UNCHANGED <<world, known, created, ours>> /\ (pc' = pc \/ pc' # "prepare")
  <2>1. CASE Refuse \/ PassGate \/ Launched \/ Verify \/ PollEnds \/ Poll
      BY <2>1 DEF Refuse, PassGate, Launched, Verify, PollEnds, Poll
  <2>2. CASE TooLate \/ DecideCancel \/ SendCancel \/ NotSent \/ Stopped \/ StopWaitEnds
      BY <2>2 DEF TooLate, DecideCancel, SendCancel, NotSent, Stopped, StopWaitEnds
  <2>3. CASE DecideDelete \/ SendDelete \/ PassEnds
      BY <2>3 DEF DecideDelete, SendDelete, PassEnds
  <2>4. CASE HandlerStep \/ Start \/ RunGoesOn \/ CallerLeaves \/ Tick
      BY <2>4 DEF HandlerStep, AnswerResult, DeadlineOrGone, Withdraw, Start, RunGoesOn,
                  CallerLeaves, Tick, work
  <2>5. CASE \E r \in Records : Create(r) \/ DeleteLater(r)
      BY <2>5 DEF Create, DeleteLater, work
  <2>6. CASE UNCHANGED vars
      BY <2>6 DEF vars, work
  <2> QED
      BY <1>5, <2>1, <2>2, <2>3, <2>4, <2>5, <2>6 DEF Next, WorkStep, Over
<1> QED
    BY <1>1, <1>2, <1>3, <1>4, <1>5

\* Cleanup chooses only the calling user's records that the launch made new
\* and that hang on the run, however other sessions' records point at them or
\* at each other (runRecordProvenance.resolve).
THEOREM CleansOnlyWhatIsTheRuns == Spec => []CleansOnlyTheRuns
<1>1. Init => OursAreNew /\ Anchored(ours)
    BY DEF Init, OursAreNew, Anchored
<1>2. OursAreNew /\ Anchored(ours) => CleansOnlyTheRuns
    BY DEF OursAreNew, Anchored, CleansOnlyTheRuns
<1> QED
    BY <1>1, <1>2, StepOurs, SoundAlways, PTL DEF Spec

------------------------------------------------------------------------------
\* Nothing stands in the way of the cleanup, and it is under way or over.
Undisturbed == faults = 0 /\ clock = 0 /\ caller = "there"

Cleaning ==
    \/ pc \in {"cancel", "sendcancel", "stopping", "delete", "senddelete"}
    \/ pc = "done" /\ report = "given"

\* The record whose deletion was decided on and not sent yet.
InHand == IF pc = "senddelete" THEN {record} ELSE {}

\* Where the records of the cleanup are: still there or deleted; and those of
\* this pass waiting, in hand, refused or deleted, one of these only.
PassAccounts ==
    /\ ours \subseteq rows \cup deleted
    /\ ours \subseteq passing \cup deleted
    /\ passing \subseteq todo \cup InHand \cup refused \cup deleted
    /\ todo \cup InHand \cup refused \subseteq passing
    /\ (todo \cup InHand \cup refused) \cap deleted = {}
    /\ todo \cap InHand = {} /\ todo \cap refused = {} /\ InHand \cap refused = {}

\* What a pass says: as long as it deleted nothing, everything it was refused
\* is still referred to; every pass before this one deleted something.
PassTells ==
    /\ passing \cap deleted = {} => \A r \in refused : Referenced(r)
    /\ Cardinality(deleted) >= pass
    /\ passing \cap deleted # {} => Cardinality(deleted) > pass
    /\ pc = "done" => todo = {} /\ (refused = {} \/ refused = passing \/ pass = 2)

PassesAgree ==
    /\ IsFiniteSet(deleted)
    /\ pc \in {"prepare", "gate", "launch", "verify", "poll", "collect", "tie"} =>
          deleted = {} /\ pass = 0 /\ report = "none"
    /\ pc = "tie" => created \subseteq rows
    /\ faults = 0 /\ clock = 0 => unheard = {}
    /\ Undisturbed /\ Cleaning => PassAccounts /\ PassTells

\* A cleanup as it starts (Tie).
LEMMA TieStartsPass ==
    ASSUME TypeOK, HandlesOurs, PassesAgree, Tie
    PROVE  PassesAgree'
<1> USE DEF PassesAgree
<1>1. /\ pc = "tie" /\ deleted' = {} /\ pass' = 0 /\ refused' = {}
      /\ rows' = rows /\ unheard = {} /\ unheard' = unheard
      /\ passing' = ours' /\ todo' = ours' /\ pc' \in {"cancel", "delete"}
    BY DEF Tie, HandlesOurs, platform
<1>2. ours' \subseteq rows
    BY <1>1, TiedIsClosed DEF Tie, Mine
<1>3. PassAccounts'
    BY <1>1, <1>2 DEF PassAccounts, InHand
<1>4. PassTells'
    BY <1>1, FS_EmptySet DEF PassTells
<1> QED
    BY <1>1, <1>3, <1>4, FS_EmptySet

\* The next record is taken up (DecideDelete).
LEMMA DecideKeepsPass ==
    ASSUME TypeOK, PassesAgree, DecideDelete
    PROVE  PassesAgree'
<1> USE DEF PassesAgree
<1>1. /\ pc = "delete" /\ UNCHANGED <<rows, unheard, ours, pass, passing, deleted, world, report,
                                      faults, clock, caller>>
      /\ pc' \in {"delete", "senddelete"}
    BY DEF DecideDelete, platform, call
<1>2. ASSUME Undisturbed' PROVE PassAccounts' /\ PassTells'
  <2>1. Undisturbed /\ PassAccounts /\ PassTells
      BY <1>1, <1>2 DEF Undisturbed, Cleaning
  <2>2. PICK r \in todo : /\ todo' = todo \ {r} /\ record' = r
                          /\ pc' = "senddelete" /\ UNCHANGED refused
      BY <2>1 DEF DecideDelete, Undisturbed, FirstAmong
  <2>3. InHand = {} /\ InHand' = {r}
      BY <1>1, <2>2 DEF InHand
  <2>4. PassAccounts'
      BY <1>1, <2>1, <2>2, <2>3 DEF PassAccounts
  <2>5. PassTells'
      BY <1>1, <2>1, <2>2 DEF PassTells, Referenced
  <2> QED
      BY <2>4, <2>5
<1> QED
    BY <1>1, <1>2

\* A deletion is answered (SendDelete): without a fault the record is gone, or
\* it is there and referred to.
LEMMA DeleteKeepsPass ==
    ASSUME TypeOK, HandlesOurs, PassesAgree, SendDelete
    PROVE  PassesAgree'
<1> USE DEF PassesAgree
<1>1. /\ pc = "senddelete" /\ pc' = "delete" /\ record \in ours
      /\ UNCHANGED <<ours, pass, passing, todo, world, report, clock, caller>>
    BY DEF SendDelete, call, HandlesOurs
<1>2. IsFiniteSet(deleted')
    BY FS_AddElement DEF SendDelete
<1>3. ASSUME Undisturbed' PROVE PassAccounts' /\ PassTells'
  <2>1. faults' = 0 /\ faults \in Nat
      BY <1>3, ProcessRunAssumption DEF Undisturbed, TypeOK
  <2>2. faults = 0 /\ Undisturbed /\ PassAccounts /\ PassTells
      BY <1>1, <1>3, <2>1 DEF SendDelete, Undisturbed, Cleaning
  <2>3. /\ InHand = {record} /\ InHand' = {} /\ record \in passing
        /\ record \notin deleted /\ record \in rows
      BY <1>1, <2>2 DEF InHand, PassAccounts
  <2>4. CASE ~Referenced(record)
    <3>1. rows' = rows \ {record} /\ deleted' = deleted \cup {record} /\ UNCHANGED refused
        BY <2>1, <2>2, <2>3, <2>4 DEF SendDelete, Deletes, Undisturbed
    <3>2. PassAccounts'
        BY <1>1, <2>2, <2>3, <3>1 DEF PassAccounts
    <3>3. Cardinality(deleted') = Cardinality(deleted) + 1 /\ Cardinality(deleted) \in Nat
        BY <2>3, <3>1, FS_AddElement, FS_CardinalityType
    <3>4. PassTells'
        BY <1>1, <2>2, <2>3, <3>1, <3>3 DEF PassTells, TypeOK
    <3> QED
        BY <3>2, <3>4
  <2>5. CASE Referenced(record)
    <3>1. rows' = rows /\ deleted' = deleted /\ refused' = refused \cup {record}
        BY <2>1, <2>2, <2>3, <2>5 DEF SendDelete, Deletes, Undisturbed
    <3>2. PassAccounts'
        BY <1>1, <2>2, <2>3, <3>1 DEF PassAccounts
    <3>3. PassTells'
        BY <1>1, <2>2, <2>5, <3>1 DEF PassTells, Referenced
    <3> QED
        BY <3>2, <3>3
  <2> QED
      BY <2>4, <2>5
<1>4. faults' = 0 /\ clock' = 0 => unheard' = {}
    BY <1>1, ProcessRunAssumption DEF SendDelete, TypeOK
<1> QED
    BY <1>1, <1>2, <1>3, <1>4

\* A pass is over (PassEnds): another starts only after one that deleted.
LEMMA PassEndKeepsPass ==
    ASSUME TypeOK, PassesAgree, PassEnds
    PROVE  PassesAgree'
<1> USE DEF PassesAgree
<1>1. /\ pc = "delete" /\ todo = {} /\ pc' \in {"delete", "done"}
      /\ UNCHANGED <<rows, unheard, ours, deleted, world, report, faults, clock, caller>>
    BY DEF PassEnds, platform, call
<1>2. ASSUME Undisturbed' PROVE PassAccounts' /\ PassTells'
  <2>1. PassAccounts /\ PassTells /\ InHand = {} /\ InHand' = {}
      BY <1>1, <1>2 DEF Undisturbed, Cleaning, InHand
  <2>2. CASE AnotherPass
    <3>1. /\ pass' = pass + 1 /\ passing' = refused /\ todo' = refused
          /\ refused' = {} /\ pc' = pc
        BY <2>2 DEF PassEnds
    <3>2. PassAccounts'
        BY <1>1, <2>1, <3>1 DEF PassAccounts
    <3>3. passing \cap deleted # {} /\ refused \cap deleted = {}
        BY <1>1, <2>1, <2>2 DEF PassAccounts, AnotherPass
    <3>4. Cardinality(deleted) >= pass + 1
        BY <2>1, <3>3, FS_CardinalityType DEF PassTells, TypeOK
    <3> QED
        BY <1>1, <3>1, <3>2, <3>3, <3>4 DEF PassTells
  <2>3. CASE ~AnotherPass
    <3>1. pc' = "done" /\ UNCHANGED <<pass, passing, todo, refused>>
        BY <2>3 DEF PassEnds
    <3>2. refused = {} \/ refused = passing \/ pass = 2
        BY <2>3 DEF AnotherPass, TypeOK
    <3>3. PassAccounts'
        BY <1>1, <2>1, <3>1 DEF PassAccounts
    <3> QED
        BY <1>1, <2>1, <3>1, <3>2, <3>3 DEF PassTells, Referenced
  <2> QED
      BY <2>2, <2>3
<1> QED
    BY <1>1, <1>2

\* A step that leaves the cleanup's own state and the platform's records alone.
LEMMA OthersKeepPass ==
    ASSUME TypeOK, PassesAgree,
           UNCHANGED <<world, ours, pass, passing, todo, refused, record, deleted, report>>,
           rows' = rows, unheard' = unheard, Undisturbed' => Undisturbed,
           faults' = 0 /\ clock' = 0 => faults = 0 /\ clock = 0,
           pc' = pc \/ (~Cleaning /\ ~Cleaning')
                    \/ {pc, pc'} \subseteq {"cancel", "sendcancel", "stopping", "delete"},
           pc' \in {"gate", "launch", "verify", "poll", "collect", "tie"} =>
              pc' = pc \/ pc \in {"prepare", "gate", "launch", "verify", "poll", "collect"},
           pc' = "prepare" => pc' = pc,
           pc' = "tie" => created' \subseteq rows
    PROVE  PassesAgree'
<1> USE DEF PassesAgree
<1>1. InHand' = InHand \/ ~Cleaning'
    BY DEF InHand, Cleaning
<1>2. ASSUME Undisturbed', Cleaning' PROVE PassAccounts' /\ PassTells'
  <2>1. Undisturbed /\ Cleaning /\ InHand' = InHand
      BY <1>1, <1>2 DEF Cleaning
  <2>2. PassAccounts' /\ (pc' = "done" => pc = "done")
      BY <2>1, <1>2 DEF PassAccounts, Cleaning
  <2> QED
      BY <2>1, <2>2 DEF PassTells, Referenced
<1> QED
    BY <1>2

\* Records that appear, which they do before the cleanup only (Create).
LEMMA CreateKeepsPass ==
    ASSUME PassesAgree, NEW r \in Records, Create(r)
    PROVE  PassesAgree'
  BY DEF PassesAgree, Create, Cleaning, work, cleanup, call, watch

\* A deletion carried out late: there is none as long as nothing failed.
LEMMA LaterKeepsPass ==
    ASSUME HandlesOurs, PassesAgree, NEW r \in Records, DeleteLater(r)
    PROVE  PassesAgree'
<1>1. UNCHANGED <<world, call, work, faults>> /\ unheard # {}
    BY DEF DeleteLater
<1>2. ~(faults = 0 /\ clock = 0) /\ ~(faults' = 0 /\ clock' = 0)
    BY <1>1 DEF PassesAgree, call
<1>3. pc # "tie"
    BY <1>1 DEF HandlesOurs
<1> QED
    BY <1>1, <1>2, <1>3 DEF PassesAgree, Undisturbed, work, cleanup

LEMMA StepPasses == TypeOK /\ HandlesOurs /\ PassesAgree /\ [Next]_vars => PassesAgree'
<1> USE DEF platform, call, watch, cleanup
<1> SUFFICES ASSUME TypeOK, HandlesOurs, PassesAgree, [Next]_vars PROVE PassesAgree'
    OBVIOUS
<1> DEFINE Alone ==
        /\ UNCHANGED <<world, ours, pass, passing, todo, refused, record, deleted, report>>
        /\ rows' = rows /\ unheard' = unheard
<1>1. CASE Tie
    BY <1>1, TieStartsPass
<1>2. CASE DecideDelete
    BY <1>2, DecideKeepsPass
<1>3. CASE SendDelete
    BY <1>3, DeleteKeepsPass
<1>4. CASE PassEnds
    BY <1>4, PassEndKeepsPass
<1>5. CASE \E r \in Records : Create(r)
    BY <1>5, CreateKeepsPass
<1>6. CASE TooLate
    BY <1>6 DEF TooLate, PassesAgree, Undisturbed, TypeOK
<1>7. CASE Refuse \/ Capture \/ PassGate \/ Launched \/ Verify \/ PollEnds \/ Poll \/ Collect
  <2>1. /\ Alone /\ UNCHANGED <<clock, caller>> /\ faults' \in Nat
        /\ faults' = 0 => faults = 0
        /\ pc \in {"prepare", "gate", "launch", "verify", "poll", "collect"}
        /\ pc' \in {"gate", "launch", "verify", "poll", "collect", "tie", "done"}
      BY <1>7, ProcessRunAssumption
         DEF Refuse, Capture, PassGate, Launched, Verify, PollEnds, Poll, Collect, TypeOK
  <2>2. pc' = "tie" => created' \subseteq rows
      BY <1>7 DEF Refuse, Capture, PassGate, Launched, Verify, PollEnds, Poll, Collect, NewIn
  <2>3. ~Cleaning /\ ~Cleaning'
      BY <2>1 DEF PassesAgree, Cleaning
  <2> QED
      BY <2>1, <2>2, <2>3, OthersKeepPass DEF Undisturbed
<1>8. CASE DecideCancel \/ SendCancel \/ Stopped \/ StopWaitEnds \/ (NotSent /\ At("sendcancel"))
  <2>1. /\ Alone /\ UNCHANGED <<clock, caller>>
        /\ faults' = 0 => faults = 0
        /\ {pc, pc'} \subseteq {"cancel", "sendcancel", "stopping", "delete"}
      BY <1>8, ProcessRunAssumption
         DEF DecideCancel, SendCancel, Stopped, StopWaitEnds, NotSent, TypeOK
  <2> QED
      BY <2>1, OthersKeepPass DEF Undisturbed
<1>9. CASE NotSent /\ At("senddelete")
  <2>1. clock' = clock /\ (clock = 2 \/ faults' = faults + 1) /\ faults \in Nat
        /\ deleted' = deleted /\ pc' = "delete" /\ unheard' = unheard
      BY <1>9, ProcessRunAssumption DEF NotSent, TypeOK
  <2> QED
      BY <2>1 DEF PassesAgree, Undisturbed
<1>10. CASE HandlerStep \/ Start \/ RunGoesOn \/ CallerLeaves \/ Tick
  <2>1. Alone /\ UNCHANGED <<pc, created, faults>>
      BY <1>10 DEF HandlerStep, AnswerResult, DeadlineOrGone, Withdraw, Start, RunGoesOn,
                   CallerLeaves, Tick, work
  <2>2. /\ Undisturbed' => Undisturbed
        /\ faults' = 0 /\ clock' = 0 => faults = 0 /\ clock = 0
      BY <1>10 DEF HandlerStep, AnswerResult, DeadlineOrGone, Withdraw, Start, RunGoesOn,
                   CallerLeaves, Tick, work, Undisturbed, TypeOK
  <2> QED
      BY <2>1, <2>2, OthersKeepPass DEF PassesAgree
<1>11. CASE UNCHANGED vars
  <2>1. Alone /\ UNCHANGED <<pc, created, faults, clock, caller>>
      BY <1>11 DEF vars, work
  <2> QED
      BY <2>1, OthersKeepPass DEF PassesAgree, Undisturbed
<1>12. NotSent => At("sendcancel") \/ At("senddelete")
    BY DEF NotSent
<1>13. CASE \E r \in Records : DeleteLater(r)
    BY <1>13, LaterKeepsPass
<1> QED
    BY <1>1, <1>2, <1>3, <1>4, <1>5, <1>6, <1>7, <1>8, <1>9, <1>10, <1>11, <1>12,
       <1>13 DEF Next, WorkStep, Over

\* However many records hang together and in whatever order they are tried, an
\* undisturbed cleanup leaves only what is still referred to, or has used up
\* three passes that each deleted something (createdRecordCleaner.delete).
THEOREM CleanupIsAlwaysThorough == Spec => []CleanupIsThorough
<1>1. Init => PassesAgree
    BY FS_EmptySet DEF Init, PassesAgree, Cleaning
<1>2. TypeOK /\ PassesAgree => CleanupIsThorough
  <2> SUFFICES ASSUME TypeOK, PassesAgree, pc = "done", report = "given", faults = 0,
                      clock = 0, caller = "there"
               PROVE  \/ \A r \in ours \ deleted : Referenced(r)
                      \/ pass = 2 /\ Cardinality(deleted) > pass
      BY DEF CleanupIsThorough
  <2>1. PassAccounts /\ PassTells /\ InHand = {}
      BY DEF PassesAgree, Undisturbed, Cleaning, InHand
  <2>2. ours \ deleted \subseteq refused
      BY <2>1 DEF PassAccounts, PassTells
  <2>3. CASE passing \cap deleted = {}
      BY <2>1, <2>2, <2>3 DEF PassTells
  <2>4. CASE passing \cap deleted # {}
    <3>1. refused = {} \/ pass = 2
        BY <2>1, <2>4 DEF PassAccounts, PassTells
    <3> QED
        BY <2>1, <2>2, <2>4, <3>1 DEF PassTells
  <2> QED
      BY <2>3, <2>4
<1> QED
    BY <1>1, <1>2, StepPasses, SoundAlways, PTL DEF Spec

------------------------------------------------------------------------------
\* run-process implements RunPromise.  What the handler and the gate say of
\* each other, and that nothing is chosen before the cleanup.
Settled ==
    /\ handler = "result" => pc = "done"
    /\ gate = "open" => handler \in {"waiting", "deadline", "leaving", "result"}
    /\ gate = "withdrawn" => handler \in {"notlaunched", "cancelled"}
    /\ pc \in {"prepare", "gate", "launch", "verify", "poll", "collect", "tie"} => ours = {}

LEMMA StepSettled == TypeOK /\ Settled /\ [Next]_vars => Settled'
<1> USE DEF Settled, TypeOK, Answers, platform, call, watch, cleanup
<1> SUFFICES ASSUME TypeOK, Settled, [Next]_vars PROVE Settled'
    OBVIOUS
<1>1. CASE Refuse \/ Capture \/ Launched \/ Verify
    BY <1>1 DEF Refuse, Capture, Launched, Verify
<1>2. CASE PassGate
    BY <1>2 DEF PassGate
<1>3. CASE PollEnds \/ Poll \/ Collect
    BY <1>3 DEF PollEnds, Poll, Collect
<1>4. CASE Tie
    BY <1>4 DEF Tie
<1>5. CASE TooLate \/ DecideCancel \/ SendCancel \/ NotSent \/ Stopped \/ StopWaitEnds
    BY <1>5 DEF TooLate, DecideCancel, SendCancel, NotSent, Stopped, StopWaitEnds
<1>6. CASE DecideDelete \/ SendDelete \/ PassEnds
    BY <1>6 DEF DecideDelete, SendDelete, PassEnds
<1>7. CASE AnswerResult
    BY <1>7 DEF AnswerResult, work
<1>8. CASE DeadlineOrGone
    BY <1>8 DEF DeadlineOrGone, work
<1>9. CASE Withdraw
    BY <1>9 DEF Withdraw, AfterWithdraw, work
<1>10. CASE Start \/ RunGoesOn \/ CallerLeaves \/ Tick
            \/ \E r \in Records : Create(r) \/ DeleteLater(r)
    BY <1>10 DEF Start, RunGoesOn, CallerLeaves, Tick, Create, DeleteLater, work
<1>11. CASE UNCHANGED vars
    BY <1>11 DEF vars, work
<1> QED
    BY <1>1, <1>2, <1>3, <1>4, <1>5, <1>6, <1>7, <1>8, <1>9, <1>10, <1>11
    DEF Next, WorkStep, HandlerStep, Over

\* What the steps of the refinement rest on.
Sound ==
    /\ TypeOK /\ GateDecides /\ HandlesOurs /\ EndsAreTheRuns /\ InItsTime
    /\ OursAreNew /\ Anchored(ours) /\ PassesAgree /\ Settled

LEMMA SoundHolds == Spec => []Sound
<1>1. Init => /\ EndsAreTheRuns /\ InItsTime /\ OursAreNew /\ Anchored(ours)
              /\ PassesAgree /\ Settled
    BY FS_EmptySet DEF Init, EndsAreTheRuns, Ended, InItsTime, OursAreNew, Anchored,
       PassesAgree, Cleaning, Settled
<1> QED
    BY <1>1, StepEnds, StepInItsTime, StepOurs, StepPasses, StepSettled, SoundAlways, PTL
    DEF Spec, Sound

\* A step of the work up to the choice of what is deleted.
LEMMA WorkKeepsPromise ==
    ASSUME Sound, WorkStep, ~(Tie \/ SendDelete)
    PROVE  [Promise!Next]_(Promise!vars)
<1> USE DEF Sound, Promise!vars, platform, call, watch, cleanup
<1>1. CASE Refuse \/ Verify \/ Collect
    BY <1>1 DEF Refuse, Verify, Collect
<1>2. CASE Capture
  <2>1. Promise!Look
      BY <1>2 DEF Capture, Promise!Look, GateDecides
  <2> QED
      BY <2>1 DEF Promise!Next
<1>3. CASE PassGate
  <2>1. CASE gate = "open"
    <3>1. handler \notin Answers
        BY <1>3, <2>1 DEF PassGate, Settled, Answers
    <3>2. Promise!Send
        BY <1>3, <2>1, <3>1 DEF PassGate, Promise!Send
    <3> QED
        BY <3>2 DEF Promise!Next
  <2>2. CASE gate # "open"
    <3>1. gate = "withdrawn" /\ handler # "result"
        BY <1>3, <2>2 DEF PassGate, GateDecides, Settled, TypeOK
    <3>2. Promise!Report("not-started")
        BY <1>3, <2>2, <3>1 DEF PassGate, Promise!Report, Promise!Ended
    <3> QED
        BY <3>2 DEF Promise!Next
  <2> QED
      BY <2>1, <2>2
<1>4. CASE Launched
  <2>1. CASE UNCHANGED status
      BY <1>4, <2>1 DEF Launched
  <2>2. CASE run = "refused" /\ status' = "not-started"
    <3>1. Promise!Report("not-started")
        BY <1>4, <2>2 DEF Launched, Promise!Report, Promise!Ended, Settled
    <3> QED
        BY <3>1 DEF Promise!Next
  <2>3. CASE run \notin {"none", "refused"} /\ status' = run
    <3>1. Promise!Report(run)
        BY <1>4, <2>3 DEF Launched, Promise!Report, Settled, TypeOK, Ended
    <3>2. run \in {"not-started", "queued", "running"} \cup Promise!Ended
        BY <2>3 DEF TypeOK, Ended, Promise!Ended
    <3> QED
        BY <3>1, <3>2 DEF Promise!Next
  <2> QED
      BY <1>4, <2>1, <2>2, <2>3 DEF Launched
<1>5. CASE PollEnds
  <2>1. CASE UNCHANGED status
      BY <1>5, <2>1 DEF PollEnds
  <2>2. CASE status' # status
    <3>1. status' = seen /\ seen \in {"queued", "running"} \cup Ended
        BY <1>5, <2>2 DEF PollEnds, Applied, WaitIsOver, TypeOK
    <3>2. run \notin {"none", "refused"} /\ handler # "result"
        BY <1>5 DEF PollEnds, GateDecides, Settled
    <3>3. Promise!Report(seen)
        BY <1>5, <3>1, <3>2 DEF PollEnds, Promise!Report, Promise!Ended, EndsAreTheRuns, Ended
    <3> QED
        BY <3>1, <3>3 DEF Promise!Next, Promise!Ended, Ended
  <2> QED
      BY <2>1, <2>2
<1>6. CASE TooLate \/ DecideCancel \/ NotSent \/ StopWaitEnds \/ DecideDelete \/ PassEnds
    BY <1>6 DEF TooLate, DecideCancel, NotSent, StopWaitEnds, DecideDelete, PassEnds
<1>7. CASE SendCancel
  <2>1. CASE run' = run
      BY <1>7, <2>1 DEF SendCancel
  <2>2. CASE run = "running" /\ run' = "cancelled"
    <3>1. Promise!Progress
        BY <1>7, <2>2 DEF SendCancel, Promise!Progress, Promise!Ended
    <3> QED
        BY <3>1 DEF Promise!Next
  <2> QED
      BY <1>7, <2>1, <2>2 DEF SendCancel
<1>8. CASE Stopped
  <2>1. run \in Ended /\ handler # "result"
      BY <1>8 DEF Stopped, Settled
  <2>2. run \notin {"queued", "running", "not-started"}
      BY <2>1 DEF Ended
  <2>3. Promise!Report(run)
      BY <1>8, <2>1, <2>2 DEF Stopped, Promise!Report
  <2> QED
      BY <2>1, <2>3 DEF Promise!Next, Promise!Ended, Ended
<1> QED
    BY <1>1, <1>2, <1>3, <1>4, <1>5, <1>6, <1>7, <1>8 DEF WorkStep

\* The choice and the deletions.
LEMMA CleanupKeepsPromise ==
    ASSUME Sound, Tie \/ SendDelete
    PROVE  [Promise!Next]_(Promise!vars)
<1> USE DEF Sound, Promise!vars, platform, call, watch, cleanup
<1>1. gate = "sent" /\ handler \notin {"result", "notlaunched", "stillrunning"}
  <2>1. run # "none" /\ pc # "done" /\ clock # 2
      BY DEF Tie, SendDelete, Sends, InTime, GateDecides
  <2> QED
      BY <2>1 DEF GateDecides, Settled, InItsTime
<1>2. CASE Tie
  <2>1. ours = {} /\ created \subseteq rows /\ created \cap known = {}
      BY <1>2 DEF Tie, Settled, PassesAgree, OursAreNew
  <2>2. ours' \subseteq created
      BY <1>2, TiedIsClosed DEF Tie, Mine
  <2>3. ours' \in SUBSET (rows \ known)
      BY <2>1, <2>2
  <2>4. Promise!Choose
      BY <1>1, <1>2, <2>1, <2>3 DEF Tie, Promise!Choose, Answers
  <2> QED
      BY <2>4 DEF Promise!Next
<1>3. CASE SendDelete
  <2>1. record \in ours /\ record \in Records
      BY <1>3 DEF SendDelete, HandlesOurs, TypeOK
  <2>2. CASE rows' = rows /\ unheard' = unheard
      BY <1>3, <2>2 DEF SendDelete
  <2>3. CASE rows' = rows \ {record} /\ unheard' = unheard
    <3>1. Promise!Delete(record)
        BY <1>1, <1>3, <2>1, <2>3 DEF SendDelete, Promise!Delete, Answers
    <3> QED
        BY <2>1, <3>1 DEF Promise!Next
  <2>4. CASE rows' = rows /\ unheard' = unheard \cup {record}
    <3>1. Promise!Ask(record)
        BY <1>1, <1>3, <2>1, <2>4 DEF SendDelete, Promise!Ask, Answers
    <3> QED
        BY <2>1, <3>1 DEF Promise!Next
  <2> QED
      BY <1>3, <2>2, <2>3, <2>4 DEF SendDelete, Deletes
<1> QED
    BY <1>2, <1>3

\* The answers.
LEMMA HandlerKeepsPromise ==
    ASSUME Sound, HandlerStep
    PROVE  [Promise!Next]_(Promise!vars)
<1> USE DEF Sound, Promise!vars, platform, work, watch, cleanup
<1>1. CASE AnswerResult
  <2>1. Promise!Tell("result")
      BY <1>1 DEF AnswerResult, Promise!Tell, Answers
  <2> QED
      BY <2>1 DEF Promise!Next, Promise!Answers
<1>2. CASE DeadlineOrGone
    BY <1>2 DEF DeadlineOrGone, Answers
<1>3. CASE Withdraw
  <2>1. gate \in {"open", "sent"} /\ handler \notin Answers
      BY <1>3 DEF Withdraw, Settled, TypeOK, Answers
  <2>2. handler' \in {"cancelled", "notlaunched", "stillrunning"}
      BY <1>3 DEF Withdraw
  <2>3. Promise!Tell(handler')
      BY <1>3, <2>1, <2>2 DEF Withdraw, AfterWithdraw, Promise!Tell, Answers
  <2> QED
      BY <2>2, <2>3 DEF Promise!Next, Promise!Answers
<1> QED
    BY <1>1, <1>2, <1>3 DEF HandlerStep

\* The platform, time and the caller.
LEMMA WorldKeepsPromise ==
    ASSUME Sound,
           \/ Poll \/ Start \/ RunGoesOn \/ CallerLeaves \/ Tick
           \/ (\E r \in Records : Create(r) \/ DeleteLater(r)) \/ UNCHANGED vars
    PROVE  [Promise!Next]_(Promise!vars)
<1> USE DEF Promise!vars, platform, call, work, watch, cleanup
<1>1. CASE Poll \/ CallerLeaves \/ Tick \/ UNCHANGED vars
    BY <1>1 DEF Poll, CallerLeaves, Tick, vars
<1>2. CASE Start
  <2>1. Promise!Start
      BY <1>2 DEF Start, Promise!Start
  <2> QED
      BY <2>1 DEF Promise!Next
<1>3. CASE RunGoesOn
  <2>1. Promise!Progress
      BY <1>3 DEF RunGoesOn, Promise!Progress, Promise!Ended, Ended
  <2> QED
      BY <2>1 DEF Promise!Next
<1>4. CASE \E r \in Records : Create(r)
  <2>1. rows' \in SUBSET Records /\ rows \subseteq rows'
      BY <1>4 DEF Create, Sound, TypeOK
  <2>2. Promise!Appear
      BY <1>4, <2>1 DEF Create, Promise!Appear
  <2> QED
      BY <2>2 DEF Promise!Next
<1>5. CASE \E r \in Records : DeleteLater(r)
  <2>1. PICK r \in Records : DeleteLater(r)
      BY <1>5
  <2>2. Promise!Settle(r)
      BY <2>1 DEF DeleteLater, Deletes, Promise!Settle
  <2> QED
      BY <2>2 DEF Promise!Next
<1> QED
    BY <1>1, <1>2, <1>3, <1>4, <1>5

\* run-process keeps the promise of RunPromise: launched at most once and
\* never after its answer said or settled otherwise, a status that is the run's
\* when it is taken, and deletions only of records that are new since the
\* baseline and that were asked for before an answer (dataWriteLaunch, DataWriteLaunchGate,
\* dataWriteVerify, createdRecordCleaner.delete).
THEOREM KeepsItsPromise == Spec => ImplementsPromise
<1>1. Init => Promise!Init
    BY ProcessRunAssumption DEF Init, Promise!Init, Answers
<1>2. Sound /\ [Next]_vars => [Promise!Next]_(Promise!vars)
    BY WorkKeepsPromise, CleanupKeepsPromise, HandlerKeepsPromise, WorldKeepsPromise
    DEF Next, Over
<1> QED
    BY <1>1, <1>2, SoundHolds, PTL DEF Spec, ImplementsPromise, Promise!Spec
=============================================================================
