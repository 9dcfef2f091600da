--------------------------- MODULE SectionCreate ---------------------------
(***************************************************************************)
(* The calls of create-app-section for one application                     *)
(* (internal/creatio/appwrite_section_create.go).  A call reads what the   *)
(* application has, waits for its turn, inserts its section under an id of *)
(* its own, finds out what became of an insert whose answer does not say,  *)
(* tries once more what was rejected without a reason, and reads the       *)
(* section back for its answer.  The platform may go on with an insert     *)
(* whose answer was lost, and anybody may delete a section.                *)
(***************************************************************************)
EXTENDS Integers

CONSTANTS
    Calls,     \* each is also the id of the section it creates
    Loads      \* bound on the attempts to read the section back

ASSUME SectionAssumption == Loads \in Nat \ {0}

VARIABLES
    reuses,            \* the calls whose section is bound to one existing entity
    pc, attempt,       \* per call
    gate, acquired,    \* the gate's token, and who put it there
    before,            \* the sections the application had
    outcome,           \* of the insert, as far as the call knows it
    absent,            \* whether a check did not find the section
    loads, section, pages,
    answer, created,   \* error-class or success, and section-created
    platform,          \* per call: the platform's work on its insert
    sections, removed

turn == <<gate, acquired>>
known == <<outcome, absent>>
readback == <<loads, section, pages>>
said == <<answer, created>>
world == <<platform, sections, removed>>
vars == <<reuses, pc, attempt, turn, before, known, readback, said, world>>

None == "none"

TypeOK ==
    /\ reuses \subseteq Calls
    /\ pc \in [Calls -> {"start", "gate", "insert", "verify", "load", "find", "done"}]
    /\ attempt \in [Calls -> 0..2]
    /\ gate \in {"free", "taken"}
    /\ acquired \subseteq Calls
    /\ before \in [Calls -> SUBSET Calls]
    /\ outcome \in [Calls -> {None, "timeout", "contention", "refused", "unreadable"}]
    /\ absent \subseteq Calls
    /\ loads \in [Calls -> 0..Loads]
    /\ section \in [Calls -> Calls \cup {None}]
    /\ pages \in [Calls -> SUBSET Calls]
    /\ answer \in [Calls -> {None, "success", "transport", "creatio-timeout", "contention",
                             "server-error", "failed", "gone"}]
    /\ created \in [Calls -> {None, "false", "unknown"}]
    /\ platform \in [Calls -> {"idle", "working", "committed", "refused", "aborted"}]
    /\ sections \subseteq Calls /\ removed \subseteq Calls

Init ==
    /\ reuses \in SUBSET Calls
    /\ pc = [c \in Calls |-> "start"] /\ attempt = [c \in Calls |-> 0]
    /\ gate = "free" /\ acquired = {}
    /\ before = [c \in Calls |-> {}]
    /\ outcome = [c \in Calls |-> None] /\ absent = {}
    /\ loads = [c \in Calls |-> 0]
    /\ section = [c \in Calls |-> None] /\ pages = [c \in Calls |-> {}]
    /\ answer = [c \in Calls |-> None] /\ created = [c \in Calls |-> None]
    /\ platform = [c \in Calls |-> "idle"] /\ sections = {} /\ removed = {}

At(c, point) == pc[c] = point
Go(c, point) == pc' = [pc EXCEPT ![c] = point]

Reply(c, class, what) ==
    /\ Go(c, "done")
    /\ answer' = [answer EXCEPT ![c] = class]
    /\ created' = [created EXCEPT ![c] = what]

Silent == UNCHANGED said

Outcome(c, how) == platform' = [platform EXCEPT ![c] = how]

------------------------------------------------------------------------------
\* appWritePrepareSection reads the application before the insert.
Prepare(c) ==
    /\ At(c, "start")
    /\ before' = [before EXCEPT ![c] = sections]
    /\ Go(c, "gate")
    /\ UNCHANGED <<reuses, attempt, turn, known, readback, said, world>>

PreparationFails(c) ==
    /\ At(c, "start")
    /\ Reply(c, "failed", "false")
    /\ UNCHANGED <<reuses, attempt, turn, before, known, readback, world>>

\* The insert is sent once the call has the gate, or after the cap without it.
Send(c) ==
    /\ Go(c, "insert")
    /\ attempt' = [attempt EXCEPT ![c] = @ + 1]
    /\ Outcome(c, "working")
    /\ absent' = absent \ {c}

Acquire(c) ==
    /\ At(c, "gate") /\ gate = "free"
    /\ gate' = "taken" /\ acquired' = acquired \cup {c}
    /\ Send(c)
    /\ UNCHANGED <<reuses, before, outcome, readback, said, sections, removed>>

GoWithoutGate(c) ==
    /\ At(c, "gate") /\ gate = "taken"
    /\ Send(c)
    /\ UNCHANGED <<reuses, turn, before, outcome, readback, said, sections, removed>>

\* The caller left, which the waits of the call notice: for the gate, before the
\* second attempt, which is a wait for the gate here, and between two reads.
GiveUp(c) ==
    /\ pc[c] \in {"gate", "load"}
    /\ Reply(c, "gone", None)
    /\ UNCHANGED <<reuses, attempt, turn, before, known, readback, world>>

------------------------------------------------------------------------------
\* appWriteInsertAttempt, and the release of the gate after it, if it was
\* acquired.  (Slips: released by every call, or only after an answer.)
ByEveryCall(c) == TRUE
AfterAnAnswer(c) == c \in acquired /\ platform[c] \in {"committed", "refused", "aborted"}
Releases(c) == c \in acquired

Release(c) ==
    /\ gate' = IF Releases(c) THEN "free" ELSE gate
    /\ acquired' = acquired \ {c}

\* The platform may go on, whatever becomes of the request.
Unheard(c) == Outcome(c, IF platform[c] = "working" THEN "working" ELSE "idle")

InsertCommitted(c) ==
    /\ At(c, "insert") /\ platform[c] = "committed"
    /\ Release(c) /\ Outcome(c, "idle") /\ Go(c, "load") /\ Silent
    /\ UNCHANGED <<reuses, attempt, before, known, readback, sections, removed>>

\* What is checked next: an insert that was not answered in time or rejected
\* without a reason, and whatever failed the second attempt in an answer.
Check(c, what) ==
    /\ Go(c, "verify") /\ Silent
    /\ outcome' = [outcome EXCEPT ![c] = what]

InsertRefused(c) ==
    /\ At(c, "insert") /\ platform[c] = "refused"
    /\ Release(c) /\ Outcome(c, "idle")
    /\ IF attempt[c] = 1 THEN Reply(c, "server-error", "false") /\ UNCHANGED outcome
                         ELSE Check(c, "refused")
    /\ UNCHANGED <<reuses, attempt, before, absent, readback, sections, removed>>

InsertAborted(c) ==
    /\ At(c, "insert") /\ platform[c] = "aborted"
    /\ Release(c) /\ Outcome(c, "idle") /\ Check(c, "contention")
    /\ UNCHANGED <<reuses, attempt, before, absent, readback, sections, removed>>

\* An answer that is none, such as an error page.
InsertUnreadable(c) ==
    /\ At(c, "insert")
    /\ Release(c) /\ Unheard(c)
    /\ IF attempt[c] = 1 THEN Reply(c, "server-error", "unknown") /\ UNCHANGED outcome
                         ELSE Check(c, "unreadable")
    /\ UNCHANGED <<reuses, attempt, before, absent, readback, sections, removed>>

InsertTimesOut(c) ==
    /\ At(c, "insert")
    /\ Release(c) /\ Unheard(c) /\ Check(c, "timeout")
    /\ UNCHANGED <<reuses, attempt, before, absent, readback, sections, removed>>

\* The connection broke or the call was cancelled, before or after the platform
\* had the request; or the answer's body could not be read.
InsertBreaks(c) ==
    /\ At(c, "insert")
    /\ Release(c)
    /\ Outcome(c, "idle") \/ Unheard(c)
    /\ Reply(c, "transport", "false") \/ Reply(c, "failed", None)
    /\ UNCHANGED <<reuses, attempt, before, known, readback, sections, removed>>

------------------------------------------------------------------------------
\* appWriteVerifyPolling: some of its checks, or none, are answered.
CheckFinds(c) ==
    /\ At(c, "verify") /\ c \in sections
    /\ Go(c, "load")
    /\ UNCHANGED <<reuses, attempt, turn, before, known, readback, said, world>>

CheckMisses(c) ==
    /\ At(c, "verify") /\ c \notin sections \cup absent
    /\ absent' = absent \cup {c}
    /\ UNCHANGED <<reuses, pc, attempt, turn, before, outcome, readback, said, world>>

\* (Slips: checks that all failed say as much as one that was answered; an insert
\* is tried again although no check was answered.)
AlwaysAbsent(c) == "false"
Visible(c) == IF c \in absent THEN "false" ELSE "unknown"

AlsoUnchecked(c) == attempt[c] = 1 /\ outcome[c] = "contention"
TriesAgain(c) == attempt[c] = 1 /\ outcome[c] = "contention" /\ c \in absent

FailureClass(c) ==
    IF outcome[c] = "timeout" THEN "creatio-timeout"
    ELSE IF outcome[c] = "contention" THEN "contention" ELSE "server-error"

SectionCreated(c) ==
    IF outcome[c] = "refused" THEN "false"
    ELSE IF outcome[c] = "unreadable" THEN "unknown" ELSE Visible(c)

ChecksAreOver(c) ==
    /\ At(c, "verify")
    /\ IF TriesAgain(c) THEN Go(c, "gate") /\ Silent
                        ELSE Reply(c, FailureClass(c), SectionCreated(c))
    /\ UNCHANGED <<reuses, attempt, turn, before, known, readback, world>>

------------------------------------------------------------------------------
\* appWriteLoadCreatedSection: the application is read, whose new pages are those
\* it did not have before, and then its sections.
LoadApplication(c) ==
    /\ At(c, "load")
    /\ pages' = [pages EXCEPT ![c] = sections \ before[c]]
    /\ Go(c, "find")
    /\ UNCHANGED <<reuses, attempt, turn, before, known, loads, section, said, world>>

\* The section with the id, else one bound to the same entity.  (Slip: the
\* entity is as good as the id.)
Alike(c) == {s \in sections : {c, s} \subseteq reuses}
AnyAlike(c) == IF c \in sections THEN {c} \cup Alike(c) ELSE Alike(c)
Candidates(c) == IF c \in sections THEN {c} ELSE Alike(c)

FindSection(c) ==
    /\ At(c, "find")
    /\ \E s \in Candidates(c) : section' = [section EXCEPT ![c] = s]
    /\ Reply(c, "success", None)
    /\ UNCHANGED <<reuses, attempt, turn, before, known, loads, pages, world>>

\* A read or the update of the icon failed, or the section is not there.
LoadFails(c) ==
    /\ pc[c] \in {"load", "find"}
    /\ loads' = [loads EXCEPT ![c] = @ + 1]
    /\ IF loads'[c] = Loads THEN Reply(c, "failed", None) ELSE Go(c, "load") /\ Silent
    /\ UNCHANGED <<reuses, attempt, turn, before, known, section, pages, world>>

------------------------------------------------------------------------------
\* External: the platform, which may not be heard any more, commits the insert,
\* refuses it with a reason, or aborts it without one, whatever it committed.
Heard(c, hows) == \E how \in hows : Outcome(c, IF At(c, "insert") THEN how ELSE "idle")

Commit(c) ==
    /\ platform[c] = "working" /\ c \notin sections
    /\ sections' = sections \cup {c}
    /\ Heard(c, {"committed", "aborted"})
    /\ UNCHANGED <<reuses, pc, attempt, turn, before, known, readback, said, removed>>

Reject(c) ==
    /\ platform[c] = "working"
    /\ Heard(c, {"refused", "aborted"})
    /\ UNCHANGED <<reuses, pc, attempt, turn, before, known, readback, said, sections, removed>>

\* External: somebody deletes a section.
Remove(c) ==
    /\ c \in sections /\ c \notin removed
    /\ sections' = sections \ {c} /\ removed' = removed \cup {c}
    /\ UNCHANGED <<reuses, pc, attempt, turn, before, known, readback, said, platform>>

Over == (\A c \in Calls : pc[c] = "done" /\ platform[c] # "working") /\ UNCHANGED vars

CallStep(c) ==
    \/ Prepare(c) \/ PreparationFails(c) \/ Acquire(c) \/ GoWithoutGate(c) \/ GiveUp(c)
    \/ InsertCommitted(c) \/ InsertRefused(c) \/ InsertAborted(c) \/ InsertUnreadable(c)
    \/ InsertTimesOut(c) \/ InsertBreaks(c)
    \/ CheckFinds(c) \/ CheckMisses(c) \/ ChecksAreOver(c)
    \/ LoadApplication(c) \/ FindSection(c) \/ LoadFails(c)
Environment(c) == Commit(c) \/ Reject(c) \/ Remove(c)

Next == (\E c \in Calls : CallStep(c) \/ Environment(c)) \/ Over

Spec == Init /\ [][Next]_vars

\* Goroutines run, and every request and wait of a call has a timeout.
Fairness == \A c \in Calls : WF_vars(CallStep(c))
FairSpec == Spec /\ Fairness

------------------------------------------------------------------------------
\* Two inserts are under way at once only when one waited for the whole cap: the
\* gate is taken exactly while one call that has it inserts.  A call that went
\* on without it gives back nothing, and none keeps it.
GateIsHeldOnce ==
    /\ gate = "taken" <=> acquired # {}
    /\ \A c, d \in acquired : c = d
    /\ \A c \in acquired : pc[c] = "insert"

\* A section is inserted a second time only when the first insert is over and
\* left none; one whose fate is unknown never is.
SecondInsertIsSafe ==
    [][\A c \in Calls : attempt[c] = 1 /\ attempt'[c] = 2 =>
          c \notin sections /\ platform[c] = "idle"]_vars

\* "section-created: false" of a rejected insert is true then and stays true:
\* the section is not there, and the platform is not at it any more.
CreatedFalseIsTrue ==
    \A c \in Calls :
        created[c] = "false" /\ answer[c] \in {"contention", "server-error", "failed"} =>
            c \notin sections /\ platform[c] # "working"

\* A success is one: the call's own section was committed, and it is the one
\* the answer describes and whose icon was set, unless it was deleted meanwhile.
SuccessIsItsOwn ==
    \A c \in Calls : answer[c] = "success" =>
        c \in sections \cup removed /\ (section[c] = c \/ c \in removed)

\* create-app-section implements SectionOutcome: a second insert, the checks
\* and the answers go by what the platform really has of the call's section.
\* "section-created: false" counts where the insert was rejected or not sent.
Told(c) ==
    IF answer[c] = None THEN "nothing"
    ELSE IF answer[c] = "success" THEN "created"
    ELSE IF created[c] = "false" /\ answer[c] \in {"contention", "server-error", "failed"}
         THEN "absent" ELSE "open"

Promise == INSTANCE SectionOutcome WITH
    inserting <- {c \in Calls : platform[c] = "working"},
    told <- [c \in Calls |-> Told(c)]
ImplementsOutcome == Promise!Spec

\* Every call ends, and the gate is free when all of them have.
EveryCallEnds == <>[](gate = "free" /\ \A c \in Calls : pc[c] = "done")

\* The output contract of create-app-section calls the answer's pages "Created
\* page summaries": they are those of the section that was created.
PagesAreItsOwn == \A c \in Calls : answer[c] = "success" => pages[c] \subseteq {c}
=============================================================================
