------------------------ MODULE SectionCreate_proofs ------------------------
(***************************************************************************)
(* What create-app-section promises for any number of calls and of loads:  *)
(* one insert at a time has the gate, an insert is repeated only when the  *)
(* first left nothing, and what the answers say of the section is true.    *)
(*                                                                         *)
(* All of it rests on what is known of a call's section at every point     *)
(* (Fate): an insert whose answer was not heard may still be at work, so   *)
(* such a call never inserts again and never says that there is nothing.   *)
(***************************************************************************)
EXTENDS SectionCreate, TLAPS

\* What a call's section may be at every point of the call.
Fate(c) ==
    /\ pc[c] \in {"start", "gate"} => attempt[c] < 2
    /\ pc[c] # "done" => loads[c] < Loads
    /\ pc[c] \in {"start", "gate"} => c \notin sections /\ platform[c] = "idle"
    /\ platform[c] \in {"working", "refused"} => c \notin sections
    /\ platform[c] = "committed" => c \in sections \cup removed
    /\ pc[c] = "insert" => c \notin absent
    /\ pc[c] = "verify" => outcome[c] # None
    /\ pc[c] = "verify" /\ outcome[c] \in {"contention", "refused"} => platform[c] = "idle"
    /\ pc[c] = "verify" /\ outcome[c] = "refused" => c \notin sections
    /\ pc[c] = "verify" /\ outcome[c] = "contention" /\ c \in absent => c \notin sections
    /\ pc[c] \in {"load", "find"} => c \in sections \cup removed
    /\ answer[c] # None => pc[c] = "done"

FatesHold == \A c \in Calls : Fate(c)

\* The inductive invariant.
IInv == TypeOK /\ GateIsHeldOnce /\ FatesHold /\ CreatedFalseIsTrue /\ SuccessIsItsOwn

LEMMA InitEstablishes == Init => IInv
  BY SectionAssumption DEF Init, IInv, TypeOK, GateIsHeldOnce, FatesHold, Fate,
     CreatedFalseIsTrue, SuccessIsItsOwn, None

USE DEF None, At, Go, Reply, Silent, Outcome, turn, known, readback, said, world

LEMMA StepTypeOK ==
    ASSUME IInv, NEW c \in Calls, CallStep(c) \/ Environment(c)
    PROVE  TypeOK'
<1> USE SectionAssumption DEF TypeOK
<1>a. Fate(c) /\ TypeOK
  BY DEF IInv, FatesHold
<1>1. CASE Prepare(c) \/ PreparationFails(c) \/ GiveUp(c)
  BY <1>1, <1>a DEF Prepare, PreparationFails, GiveUp
<1>2. CASE Acquire(c) \/ GoWithoutGate(c)
  BY <1>2, <1>a DEF Acquire, GoWithoutGate, Send, Fate
<1>3. CASE InsertCommitted(c) \/ InsertAborted(c) \/ InsertTimesOut(c)
  BY <1>3, <1>a DEF InsertCommitted, InsertAborted, InsertTimesOut, Release, Releases, Check, Unheard
<1>4. CASE InsertRefused(c) \/ InsertUnreadable(c)
  BY <1>4, <1>a DEF InsertRefused, InsertUnreadable, Release, Releases, Check, Unheard
<1>5. CASE InsertBreaks(c)
  BY <1>5, <1>a DEF InsertBreaks, Release, Releases, Unheard
<1>6. CASE CheckFinds(c) \/ CheckMisses(c)
  BY <1>6, <1>a DEF CheckFinds, CheckMisses
<1>7. CASE ChecksAreOver(c)
  BY <1>7, <1>a DEF ChecksAreOver, TriesAgain, Visible, FailureClass, SectionCreated
<1>8. CASE LoadApplication(c) \/ FindSection(c)
  BY <1>8, <1>a DEF LoadApplication, FindSection, Candidates, Alike
<1>9. CASE LoadFails(c)
  BY <1>9, <1>a DEF LoadFails, Fate
<1>10. CASE Environment(c)
  BY <1>10, <1>a DEF Environment, Commit, Reject, Remove, Heard
<1> QED
  BY <1>1, <1>2, <1>3, <1>4, <1>5, <1>6, <1>7, <1>8, <1>9, <1>10 DEF CallStep

LEMMA StepGate ==
    ASSUME IInv, NEW c \in Calls, CallStep(c) \/ Environment(c)
    PROVE  GateIsHeldOnce'
<1> USE DEF TypeOK, GateIsHeldOnce, IInv
<1>1. CASE Acquire(c)
  BY <1>1 DEF Acquire, Send
<1>2. CASE GoWithoutGate(c)
  BY <1>2 DEF GoWithoutGate, Send
<1>3. CASE /\ Release(c)
           /\ \A d \in Calls \ {c} : pc'[d] = pc[d]
  BY <1>3 DEF Release, Releases
<1>4. CASE UNCHANGED turn /\ pc[c] # "insert" /\ \A d \in Calls \ {c} : pc'[d] = pc[d]
  BY <1>4
<1>5. CASE UNCHANGED <<turn, pc>>
  BY <1>5
<1> QED
  BY <1>1, <1>2, <1>3, <1>4, <1>5 DEF CallStep, Prepare, PreparationFails, GiveUp, InsertCommitted,
     InsertRefused, InsertAborted, InsertUnreadable, InsertTimesOut, InsertBreaks, Check,
     CheckFinds, CheckMisses, ChecksAreOver, LoadApplication, FindSection, LoadFails,
     Environment, Commit, Reject, Remove
\* No step of a call, or of the platform for it, touches another call.
LEMMA OthersStay ==
    ASSUME TypeOK, NEW c \in Calls, CallStep(c) \/ Environment(c), NEW d \in Calls \ {c}
    PROVE  /\ pc'[d] = pc[d] /\ attempt'[d] = attempt[d] /\ loads'[d] = loads[d]
           /\ outcome'[d] = outcome[d] /\ platform'[d] = platform[d] /\ section'[d] = section[d]
           /\ answer'[d] = answer[d] /\ created'[d] = created[d]
           /\ d \in absent' <=> d \in absent
           /\ d \in sections' <=> d \in sections
           /\ d \in removed' <=> d \in removed
<1> USE DEF TypeOK
<1>1. CASE Prepare(c) \/ PreparationFails(c) \/ GiveUp(c)
  BY <1>1 DEF Prepare, PreparationFails, GiveUp
<1>2. CASE Acquire(c) \/ GoWithoutGate(c)
  BY <1>2 DEF Acquire, GoWithoutGate, Send
<1>3. CASE InsertCommitted(c) \/ InsertAborted(c) \/ InsertTimesOut(c)
  BY <1>3 DEF InsertCommitted, InsertAborted, InsertTimesOut, Check, Unheard
<1>4. CASE InsertRefused(c) \/ InsertUnreadable(c)
  BY <1>4 DEF InsertRefused, InsertUnreadable, Check, Unheard
<1>5. CASE InsertBreaks(c)
  BY <1>5 DEF InsertBreaks, Unheard
<1>6. CASE CheckFinds(c) \/ CheckMisses(c) \/ ChecksAreOver(c)
  BY <1>6 DEF CheckFinds, CheckMisses, ChecksAreOver
<1>7. CASE LoadApplication(c) \/ FindSection(c) \/ LoadFails(c)
  BY <1>7 DEF LoadApplication, FindSection, LoadFails
<1>8. CASE Environment(c)
  BY <1>8 DEF Environment, Commit, Reject, Remove, Heard
<1> QED
  BY <1>1, <1>2, <1>3, <1>4, <1>5, <1>6, <1>7, <1>8 DEF CallStep

\* What the properties say of one call.
FalseIsTrue(c) ==
    created[c] = "false" /\ answer[c] \in {"contention", "server-error", "failed"} =>
        c \notin sections /\ platform[c] # "working"

OwnSuccess(c) ==
    answer[c] = "success" =>
        c \in sections \cup removed /\ (section[c] = c \/ c \in removed)

\* A call in between two points has the fate of the next one.
LEMMA StepFate ==
    ASSUME TypeOK, NEW c \in Calls, Fate(c), FalseIsTrue(c), OwnSuccess(c),
           CallStep(c) \/ Environment(c)
    PROVE  Fate(c)' /\ FalseIsTrue(c)' /\ OwnSuccess(c)'
<1> USE SectionAssumption DEF TypeOK, Fate, FalseIsTrue, OwnSuccess
<1>1. CASE Prepare(c) \/ PreparationFails(c) \/ GiveUp(c)
  BY <1>1 DEF Prepare, PreparationFails, GiveUp
<1>2. CASE Acquire(c) \/ GoWithoutGate(c)
  BY <1>2 DEF Acquire, GoWithoutGate, Send
<1>3. CASE InsertCommitted(c) \/ InsertAborted(c)
  BY <1>3 DEF InsertCommitted, InsertAborted, Check
<1>4. CASE InsertTimesOut(c)
  BY <1>4 DEF InsertTimesOut, Check, Unheard
<1>5. CASE InsertRefused(c)
  BY <1>5 DEF InsertRefused, Check
<1>6. CASE InsertUnreadable(c)
  BY <1>6 DEF InsertUnreadable, Check, Unheard
<1>7. CASE InsertBreaks(c)
  BY <1>7 DEF InsertBreaks, Unheard
<1>8. CASE CheckFinds(c) \/ CheckMisses(c)
  BY <1>8 DEF CheckFinds, CheckMisses
<1>9. CASE ChecksAreOver(c)
  BY <1>9 DEF ChecksAreOver, TriesAgain, FailureClass, SectionCreated, Visible
<1>10. CASE LoadApplication(c) \/ LoadFails(c)
  BY <1>10 DEF LoadApplication, LoadFails
<1>11. CASE FindSection(c)
  BY <1>11 DEF FindSection, Candidates
<1>12. CASE Environment(c)
  BY <1>12 DEF Environment, Commit, Reject, Remove, Heard
<1> QED
  BY <1>1, <1>2, <1>3, <1>4, <1>5, <1>6, <1>7, <1>8, <1>9, <1>10, <1>11, <1>12 DEF CallStep

\* The invariant is the conjunction over the calls, and of the gate.
LEMMA ByCalls ==
    IInv <=> /\ TypeOK /\ GateIsHeldOnce
             /\ \A c \in Calls : Fate(c) /\ FalseIsTrue(c) /\ OwnSuccess(c)
  BY DEF IInv, FatesHold, CreatedFalseIsTrue, SuccessIsItsOwn, FalseIsTrue, OwnSuccess

LEMMA StepPreserves == IInv /\ [Next]_vars => IInv'
<1> SUFFICES ASSUME IInv, [Next]_vars PROVE IInv'
  OBVIOUS
<1>1. ASSUME NEW c \in Calls, CallStep(c) \/ Environment(c) PROVE IInv'
  <2>1. TypeOK' /\ GateIsHeldOnce'
    BY <1>1, StepTypeOK, StepGate
  <2>2. Fate(c)' /\ FalseIsTrue(c)' /\ OwnSuccess(c)'
    BY <1>1, StepFate, ByCalls
  <2>3. ASSUME NEW d \in Calls \ {c} PROVE Fate(d)' /\ FalseIsTrue(d)' /\ OwnSuccess(d)'
    <3>1. TypeOK /\ Fate(d) /\ FalseIsTrue(d) /\ OwnSuccess(d)
      BY ByCalls
    <3> QED
      BY <1>1, <3>1, OthersStay DEF Fate, FalseIsTrue, OwnSuccess
  <2> QED
    BY <2>1, <2>2, <2>3 DEF IInv, FatesHold, CreatedFalseIsTrue, SuccessIsItsOwn, FalseIsTrue,
       OwnSuccess
<1>2. CASE UNCHANGED vars
  BY <1>2 DEF vars, IInv, TypeOK, GateIsHeldOnce, FatesHold, Fate, CreatedFalseIsTrue,
     SuccessIsItsOwn
<1> QED
  BY <1>1, <1>2 DEF Next, Over

THEOREM Invariant == Spec => []IInv
  BY InitEstablishes, StepPreserves, PTL DEF Spec

\* Every variable of the calls stays in its type, for any number of them.
THEOREM TypeCorrect == Spec => []TypeOK
  BY Invariant, PTL DEF IInv

\* The gate is taken exactly while the one call that has it inserts, although
\* others go on without it (appWriteSerialized).
THEOREM GateHeldOnce == Spec => []GateIsHeldOnce
  BY Invariant, PTL DEF IInv

\* An answer that says a rejected insert created no section stays true: the
\* platform is done with it (appWriteVerifyPolling).
THEOREM CreatedFalseStaysTrue == Spec => []CreatedFalseIsTrue
  BY Invariant, PTL DEF IInv

\* A success is the call's own section, whatever others of its entity there are
\* (appWriteReadCreatedSection).
THEOREM SuccessIsAlwaysItsOwn == Spec => []SuccessIsItsOwn
  BY Invariant, PTL DEF IInv

\* The second insert is sent only by a call whose first one left nothing and is
\* over (appWriteCommitSection).
THEOREM SecondInsertIsAlwaysSafe == Spec => SecondInsertIsSafe
<1> DEFINE Safe == \A c \in Calls : attempt[c] = 1 /\ attempt'[c] = 2 =>
                       c \notin sections /\ platform[c] = "idle"
<1>1. IInv /\ [Next]_vars => [Safe]_vars
  <2> SUFFICES ASSUME IInv, Next, NEW c \in Calls, attempt[c] = 1, attempt'[c] = 2
               PROVE  c \notin sections /\ platform[c] = "idle"
    OBVIOUS
  <2>1. PICK d \in Calls : CallStep(d) \/ Environment(d)
    BY DEF Next, Over, vars
  <2>2. TypeOK /\ Fate(c)
    BY DEF IInv, FatesHold
  <2>3. d = c
    BY <2>1, <2>2, OthersStay
  <2>4. Acquire(c) \/ GoWithoutGate(c)
    BY <2>1, <2>3 DEF CallStep, Environment, Prepare, PreparationFails, GiveUp, InsertCommitted,
       InsertRefused, InsertAborted, InsertUnreadable, InsertTimesOut, InsertBreaks, CheckFinds,
       CheckMisses, ChecksAreOver, LoadApplication, FindSection, LoadFails, Commit, Reject, Remove
  <2> QED
    BY <2>2, <2>4 DEF Acquire, GoWithoutGate, Fate
<1> QED
  BY <1>1, Invariant, PTL DEF Spec, SecondInsertIsSafe

------------------------------------------------------------------------------
\* create-app-section implements SectionOutcome.  A step of a call, or of the
\* platform for it, as the abstract specification sees it.
Works(c) == platform[c] = "working"

Quiet(c) == Told(c)' = Told(c) /\ UNCHANGED <<sections, removed>>

Inserts(c) == Quiet(c) /\ Told(c) = "nothing" /\ ~Works(c) /\ c \notin sections /\ Works(c)'

Commits(c) ==
    /\ Told(c)' = Told(c)
    /\ Works(c) /\ c \notin sections /\ ~Works(c)'
    /\ sections' = sections \cup {c} /\ removed' = removed

Removes(c) ==
    /\ Told(c)' = Told(c) /\ Works(c)' = Works(c)
    /\ sections' = sections \ {c} /\ removed' = removed \cup {c}

Tells(c) ==
    /\ Told(c) = "nothing"
    /\ Told(c)' \in {"created", "absent", "open"}
    /\ Told(c)' = "created" => c \in sections \cup removed
    /\ Told(c)' = "absent" => c \notin sections /\ ~Works(c)
    /\ UNCHANGED <<sections, removed>>
    /\ \/ Works(c)' = Works(c)
       \/ Told(c)' = "open" /\ ~Works(c)'

Seen(c) ==
    \/ Quiet(c) /\ Works(c)' = Works(c)
    \/ Quiet(c) /\ ~Works(c)'
    \/ Inserts(c) \/ Commits(c) \/ Removes(c) \/ Tells(c)

LEMMA StepIsSeen ==
    ASSUME IInv, NEW c \in Calls, CallStep(c) \/ Environment(c)
    PROVE  Seen(c)
<1> USE DEF Seen, Works, Quiet, Told
<1>a. TypeOK /\ Fate(c)
  BY DEF IInv, FatesHold
<1>b. pc[c] # "done" => answer[c] = None
  BY <1>a DEF TypeOK, Fate
<1> USE <1>a, <1>b DEF TypeOK, Fate
<1>1. CASE Prepare(c)
  BY <1>1 DEF Prepare
<1>2. CASE PreparationFails(c) \/ GiveUp(c)
  BY <1>2 DEF PreparationFails, GiveUp, Tells
<1>3. CASE Acquire(c) \/ GoWithoutGate(c)
  BY <1>3 DEF Acquire, GoWithoutGate, Send, Inserts
<1>4. CASE InsertCommitted(c) \/ InsertAborted(c) \/ InsertTimesOut(c)
  BY <1>4 DEF InsertCommitted, InsertAborted, InsertTimesOut, Check, Unheard
<1>5. CASE InsertRefused(c)
  BY <1>5 DEF InsertRefused, Check, Tells
<1>6. CASE InsertUnreadable(c)
  BY <1>6 DEF InsertUnreadable, Check, Unheard, Tells
<1>7. CASE InsertBreaks(c)
  BY <1>7 DEF InsertBreaks, Unheard, Tells
<1>8. CASE CheckFinds(c) \/ CheckMisses(c)
  BY <1>8 DEF CheckFinds, CheckMisses
<1>9. CASE ChecksAreOver(c)
  BY <1>9 DEF ChecksAreOver, TriesAgain, FailureClass, SectionCreated, Visible, Tells
<1>10. CASE LoadApplication(c) \/ LoadFails(c)
  BY <1>10 DEF LoadApplication, LoadFails, Tells
<1>11. CASE FindSection(c)
  BY <1>11 DEF FindSection, Candidates, Tells
<1>12. CASE Commit(c)
  BY <1>12 DEF Commit, Heard, Commits
<1>13. CASE Reject(c)
  BY <1>13 DEF Reject, Heard
<1>14. CASE Remove(c)
  BY <1>14 DEF Remove, Removes
<1> QED
  BY <1>1, <1>2, <1>3, <1>4, <1>5, <1>6, <1>7, <1>8, <1>9, <1>10, <1>11, <1>12, <1>13, <1>14
  DEF CallStep, Environment

LEMMA StepIsPromised ==
    ASSUME IInv, NEW c \in Calls, CallStep(c) \/ Environment(c)
    PROVE  [Promise!Next]_(Promise!vars)
<1> DEFINE inserting == {d \in Calls : platform[d] = "working"}
           told == [d \in Calls |-> Told(d)]
<1>1. Seen(c)
  BY StepIsSeen
<1>2. \A d \in Calls \ {c} : Told(d)' = Told(d) /\ platform'[d] = platform[d]
  BY OthersStay DEF IInv, Told
<1>3. told' = [told EXCEPT ![c] = Told(c)']
  BY <1>2
<1>4. /\ Works(c)' => inserting' = inserting \cup {c}
      /\ ~Works(c)' => inserting' = inserting \ {c}
      /\ Works(c)' = Works(c) => inserting' = inserting
      /\ c \in inserting <=> Works(c)
      /\ told[c] = Told(c)
  BY <1>2 DEF Works
<1>5. Told(c)' = Told(c) => told' = told
  BY <1>2
<1> HIDE DEF inserting, told
<1> USE DEF Promise!vars
<1>6. CASE Quiet(c) /\ Works(c)' = Works(c)
  BY <1>4, <1>5, <1>6 DEF Quiet, inserting, told
<1>7. CASE Quiet(c) /\ ~Works(c)'
  <2>1. Promise!Fail(c)
    BY <1>4, <1>5, <1>7 DEF Quiet, Promise!Fail, inserting, told
  <2> QED
    BY <2>1 DEF Promise!Next
<1>8. CASE Inserts(c)
  <2>1. Promise!Insert(c)
    BY <1>4, <1>5, <1>8 DEF Inserts, Quiet, Promise!Insert, inserting, told
  <2> QED
    BY <2>1 DEF Promise!Next
<1>9. CASE Commits(c)
  <2>1. Promise!Commit(c)
    BY <1>4, <1>5, <1>9 DEF Commits, Promise!Commit, inserting, told
  <2> QED
    BY <2>1 DEF Promise!Next
<1>10. CASE Removes(c)
  <2>1. Promise!Remove(c)
    BY <1>4, <1>5, <1>10 DEF Removes, Promise!Remove, inserting, told
  <2> QED
    BY <2>1 DEF Promise!Next
<1>11. CASE Tells(c)
  <2>1. PICK what \in {"created", "absent", "open"} : Told(c)' = what
    BY <1>11 DEF Tells
  <2>2. Promise!Tell(c, what)
    BY <1>3, <1>4, <1>11, <2>1 DEF Tells, Promise!Tell, inserting, told
  <2> QED
    BY <2>2 DEF Promise!Next
<1> QED
  BY <1>1, <1>6, <1>7, <1>8, <1>9, <1>10, <1>11 DEF Seen

\* For any number of calls and of applications loaded again, create-app-section
\* is a system where a section is inserted only while there is none and no
\* insert of it is under way, and where every answer about it is true and stays
\* so, whatever is lost or deleted (appWriteCommitSection, appWriteVerifyPolling,
\* appWriteReadCreatedSection).
THEOREM OutcomesAreKept == Spec => ImplementsOutcome
<1>1. Init => Promise!Init
  BY DEF Init, Promise!Init, Told
<1>2. IInv /\ [Next]_vars => [Promise!Next]_(Promise!vars)
  <2> SUFFICES ASSUME IInv, [Next]_vars
               PROVE  [Promise!Next]_(Promise!vars)
    OBVIOUS
  <2>1. CASE UNCHANGED vars
    BY <2>1 DEF vars, Promise!vars, Told
  <2> QED
    BY <2>1, StepIsPromised DEF Next, Over
<1> QED
  BY <1>1, <1>2, Invariant, PTL DEF Spec, ImplementsOutcome, Promise!Spec
=============================================================================
