--------------------------- MODULE KnowledgeStore ---------------------------
(***************************************************************************)
(* The knowledge installation store (internal/knowledge/store_write.go)    *)
(* under the lifecycle operations that write it (manage.go).  One source   *)
(* of one library: settings give every library one source, so the library  *)
(* lock is always taken inside the source lock and the two are one here.   *)
(*                                                                         *)
(* An operation is an install, update or delete of this server or of a     *)
(* clio process next to it, which take the same lock file.  Readers write  *)
(* nothing; what they can see is what the disk holds between the steps.    *)
(* Staging, quarantines and publisher-check.json, which no operation reads, *)
(* are left out, as is metadata beyond the bundle.                         *)
(***************************************************************************)
EXTENDS Integers, FiniteSets

CONSTANTS
    Ops,       \* the operations, each performed once
    Digests,   \* contents of bundles
    Bundles,   \* what the publisher offers: [sequence, digest]
    None,
    MaxFaults, \* bound on failed steps and crashes
    MaxDamage  \* bound on generations that something else damages

ASSUME KnowledgeAssumption ==
    /\ Bundles \subseteq [sequence : Nat \ {0}, digest : Digests]
    /\ MaxFaults \in Nat
    /\ MaxDamage \in Nat

VARIABLES
    ops,      \* each operation's locals
    lock,     \* who holds sources/.locks/<key>.lock
    marker,   \* current.json
    mark,     \* the library's high-water mark in sources/.history
    gens,     \* the directories under generations/
    damaged,  \* those whose content no longer has its digest
    serial,   \* activations so far, for activatedAtUtc and repair GUIDs
    faults, damages  \* events of the environment so far

disk == <<marker, mark, gens, damaged, serial>>
vars == <<ops, lock, marker, mark, gens, damaged, serial, faults, damages>>

Generation == [bundle : Bundles, repair : Nat]             \* a directory name
Pointer == [bundle : Bundles, repair : Nat, at : Nat]      \* GenerationPointer
Marker == [active : Pointer, previous : Pointer \cup {None}]

ASSUME NoneAssumption == None \notin Ops \cup Bundles \cup Pointer \cup Marker

GenerationOf(p) == [bundle |-> p.bundle, repair |-> p.repair]

Waiting == {"reconcile", "publish", "delete"}
Holding == {"recover", "check", "accept", "expose", "activate", "prune", "remove"}
Results == {"none", "current", "nocandidate", "refused", "published", "lost",
            "notinstalled", "deleted", "timeout", "error"}

Op == [kind : {"install", "update", "delete"},
       pc : {"start", "mark", "choose", "done"} \cup Waiting \cup Holding,
       seen : Pointer \cup {None},      \* the active pointer it works from
       candidate : Bundles \cup {None},
       result : Results]

TypeOK ==
    /\ ops \in [Ops -> Op]
    /\ lock \in Ops \cup {None}
    /\ marker \in Marker \cup {None}
    /\ mark \in Bundles \cup {None}
    /\ gens \subseteq Generation
    /\ damaged \subseteq gens
    /\ serial \in Nat
    /\ faults \in 0..MaxFaults
    /\ damages \in 0..MaxDamage

\* Nothing is installed, or one bundle was.
Init ==
    /\ \E kind \in [Ops -> {"install", "update", "delete"}] :
          ops = [o \in Ops |-> [kind |-> kind[o], pc |-> "start", seen |-> None,
                                candidate |-> None, result |-> "none"]]
    /\ lock = None
    /\ \/ /\ marker = None /\ mark = None /\ gens = {} /\ serial = 0
       \/ \E b \in Bundles :
             /\ marker = [active |-> [bundle |-> b, repair |-> 0, at |-> 1], previous |-> None]
             /\ mark = b
             /\ gens = {[bundle |-> b, repair |-> 0]}
             /\ serial = 1
    /\ damaged = {}
    /\ faults = 0
    /\ damages = 0

------------------------------------------------------------------------------
At(o, pc) == ops[o].pc = pc

\* The operation goes on to pc, or ends with a result.
Goto(o, pc) == ops' = [ops EXCEPT ![o].pc = pc]
End(o, result) == ops' = [ops EXCEPT ![o].pc = "done", ![o].result = result]

\* The deferred Unlock.  (Slip: a return leaves the lock taken.)
LockKept == lock' = lock
Free == lock' = None

\* conflictsWithAccepted, for an accepted bundle that may not exist.  (Slip:
\* sequences only.)
ConflictsBySequence(b, accepted) == accepted # None /\ b.sequence < accepted.sequence
Conflicts(b, accepted) ==
    /\ accepted # None
    /\ \/ b.sequence < accepted.sequence
       \/ b.sequence = accepted.sequence /\ b.digest # accepted.digest

\* The directories that prune keeps.  (Slip: the active one only.)
RetainedActive(m) == {GenerationOf(m.active)}
Retained(m) == {GenerationOf(p) : p \in {m.active, m.previous} \ {None}}

\* A pointer to a generation that is activated now.
Activated(g) == [bundle |-> g.bundle, repair |-> g.repair, at |-> serial + 1]

------------------------------------------------------------------------------
\* ReadCurrentForWrite reads the marker without the lock, then the mark.
ReadMarker(o) ==
    /\ At(o, "start") /\ ops[o].kind # "delete"
    /\ ops' = [ops EXCEPT ![o].seen = IF marker = None THEN None ELSE marker.active,
                          ![o].pc = IF marker = None THEN "choose" ELSE "mark"]
    /\ UNCHANGED <<lock, disk, faults, damages>>

ReadMark(o) ==
    /\ At(o, "mark")
    /\ Goto(o, IF Conflicts(ops[o].seen.bundle, mark) THEN "reconcile" ELSE "choose")
    /\ UNCHANGED <<lock, disk, faults, damages>>

\* The store's Delete looks for the source first.
StartDelete(o) ==
    /\ At(o, "start") /\ ops[o].kind = "delete"
    /\ \/ Goto(o, "delete")
       \/ marker = None /\ gens = {} /\ End(o, "notinstalled")
    /\ UNCHANGED <<lock, disk, faults, damages>>

\* acquireFileLock succeeds, or gives up after StoreLockTimeout.
Acquire(o) ==
    /\ ops[o].pc \in Waiting /\ lock = None
    /\ lock' = o
    /\ Goto(o, CASE At(o, "reconcile") -> "recover"
                 [] At(o, "publish") -> "check"
                 [] At(o, "delete") -> "remove")
    /\ UNCHANGED <<disk, faults, damages>>

LockTimeout(o) ==
    /\ ops[o].pc \in Waiting /\ lock # None
    /\ End(o, "timeout")
    /\ UNCHANGED <<lock, disk, faults, damages>>

------------------------------------------------------------------------------
\* reconcileInterruptedPublication, under the lock and from a fresh reading.
Accepted == [bundle |-> mark, repair |-> 0]

Lags == marker # None /\ Conflicts(marker.active.bundle, mark)

Recoverable ==
    /\ marker.active.bundle.sequence < mark.sequence
    /\ Accepted \in gens \ damaged

\* Another operation reconciled, or deleted, in the meantime.
NothingToRecover(o) ==
    /\ At(o, "recover") /\ ~Lags
    /\ ops' = [ops EXCEPT ![o].seen = IF marker = None THEN None ELSE marker.active,
                          ![o].pc = "choose"]
    /\ Free
    /\ UNCHANGED <<disk, faults, damages>>

CannotRecover(o) ==
    /\ At(o, "recover") /\ Lags /\ ~Recoverable
    /\ End(o, "lost")
    /\ Free
    /\ UNCHANGED <<disk, faults, damages>>

Recover(o) ==
    /\ At(o, "recover") /\ Lags /\ Recoverable
    /\ marker' = [active |-> Activated(Accepted), previous |-> marker.active]
    /\ serial' = serial + 1
    /\ ops' = [ops EXCEPT ![o].seen = Activated(Accepted), ![o].pc = "prune"]
    /\ UNCHANGED <<lock, mark, gens, damaged, faults, damages>>

------------------------------------------------------------------------------
\* isCurrentValid: what it read is there and is what it was.
CurrentIsValid(o) == ops[o].seen # None /\ GenerationOf(ops[o].seen) \in gens \ damaged

\* installOrUpdate's ways out before it asks the transport, and the
\* transport's answer that it has nothing, or nothing acceptable.
Refuse(o) ==
    /\ At(o, "choose")
    /\ \/ ops[o].kind = "update" /\ ops[o].seen = None /\ End(o, "notinstalled")
       \/ ops[o].kind = "install" /\ CurrentIsValid(o) /\ End(o, "current")
    /\ UNCHANGED <<lock, disk, faults, damages>>

Asks(o) ==
    /\ At(o, "choose")
    /\ IF ops[o].kind = "update" THEN ops[o].seen # None ELSE ~CurrentIsValid(o)

NoCandidate(o) ==
    /\ Asks(o)
    /\ End(o, "nocandidate")
    /\ UNCHANGED <<lock, disk, faults, damages>>

Retrieve(o) ==
    /\ Asks(o)
    /\ \E b \in Bundles :
          ops' = [ops EXCEPT ![o].candidate = b, ![o].pc = "publish"]
    /\ UNCHANGED <<lock, disk, faults, damages>>
------------------------------------------------------------------------------
\* publishLocked: the marker is no longer the one an update (or a repair)
\* started from.  (Slip: it is not compared.)
NeverChanged(o) == FALSE
Changed(o) ==
    /\ ops[o].seen # None
    /\ ~(marker # None /\ marker.active = ops[o].seen)

\* evaluateSequenceAcceptance.
NotAcceptable(o) ==
    LET b == ops[o].candidate
        repair == ops[o].kind = "install" /\ ops[o].seen # None
    IN  \/ Conflicts(b, mark)
        \/ /\ marker # None
           /\ \/ Conflicts(b, marker.active.bundle)
              \/ b.sequence = marker.active.bundle.sequence /\ ~repair
              \/ ops[o].seen = None

Repairing(o) == marker # None /\ ops[o].candidate.sequence = marker.active.bundle.sequence

\* The directory that is published: a repair gets one of its own.
Target(o) ==
    [bundle |-> ops[o].candidate, repair |-> IF Repairing(o) THEN serial + 1 ELSE 0]

\* removeRecoverableOrphan refuses a directory that is not what it should be.
OrphanIsForeign(o) ==
    /\ Target(o) \in gens
    /\ \/ Target(o) \in damaged
       \/ marker # None /\ Target(o) \in Retained(marker)

RefusePublication(o) ==
    /\ At(o, "check")
    /\ Changed(o) \/ NotAcceptable(o) \/ OrphanIsForeign(o)
    /\ End(o, "refused")
    /\ Free
    /\ UNCHANGED <<disk, faults, damages>>

\* An orphan of an earlier attempt is deleted before the bundle is staged anew.
Stage(o) ==
    /\ At(o, "check")
    /\ ~Changed(o) /\ ~NotAcceptable(o) /\ ~OrphanIsForeign(o)
    /\ gens' = gens \ {Target(o)}
    /\ Goto(o, "accept")
    /\ UNCHANGED <<lock, marker, mark, damaged, serial, faults, damages>>

\* writeHighWater, before the generation becomes visible.
Accept(o) ==
    /\ At(o, "accept")
    /\ mark' = ops[o].candidate
    /\ Goto(o, "expose")
    /\ UNCHANGED <<lock, marker, gens, damaged, serial, faults, damages>>

\* The staging directory is renamed into generations/.
Expose(o) ==
    /\ At(o, "expose")
    /\ gens' = gens \cup {Target(o)}
    /\ Goto(o, "activate")
    /\ UNCHANGED <<lock, marker, mark, damaged, serial, faults, damages>>

\* What a new marker keeps as previous.
PreviousAfter(o) ==
    IF marker = None THEN None
    ELSE IF Repairing(o) THEN marker.previous ELSE marker.active

\* writeCurrent replaces current.json.
Activate(o) ==
    /\ At(o, "activate")
    /\ marker' = [active |-> Activated(Target(o)), previous |-> PreviousAfter(o)]
    /\ serial' = serial + 1
    /\ ops' = [ops EXCEPT ![o].pc = "prune", ![o].result = "published"]
    /\ UNCHANGED <<lock, mark, gens, damaged, faults, damages>>

\* The directories that prune deletes.  (Slip: it keeps those of the same
\* bundle, so a repaired generation stays.)
ObsoleteBundles == {g \in gens : \A k \in Retained(marker) : g.bundle # k.bundle}
Obsolete == gens \ Retained(marker)

\* What is left of the damage.
DamagedIn(rest) == damaged \cap rest

PruneOne(o) ==
    /\ At(o, "prune")
    /\ \E g \in Obsolete :
          /\ gens' = gens \ {g}
          /\ damaged' = DamagedIn(gens \ {g})
    /\ UNCHANGED <<ops, lock, marker, mark, serial, faults, damages>>

\* The deferred unlock: a publication ends, a reconciled operation goes on.
PruneDone(o) ==
    /\ At(o, "prune") /\ Obsolete = {}
    /\ Goto(o, IF ops[o].result = "published" THEN "done" ELSE "choose")
    /\ Free
    /\ UNCHANGED <<disk, faults, damages>>

\* deleteRecoverably renames the source's directory away; the history stays.
\* It fails when another delete took the directory meanwhile, or when only the
\* renamed one cannot be emptied.
Remove(o) ==
    /\ At(o, "remove")
    /\ \E result \in {"deleted", "error"} : End(o, result)
    /\ marker' = None
    /\ gens' = {}
    /\ damaged' = {}
    /\ Free
    /\ UNCHANGED <<mark, serial, faults, damages>>

------------------------------------------------------------------------------
\* A disk step fails and the deferred unlock runs, or the process dies and the
\* system frees its lock: what was written stays, nothing more is.
Interrupt(o) ==
    /\ ops[o].pc \in Holding
    /\ faults < MaxFaults
    /\ faults' = faults + 1
    /\ End(o, "error")
    /\ Free
    /\ UNCHANGED <<disk, damages>>

\* External: a generation's files are changed or lost; also a deletion of a
\* directory that was interrupted halfway.
Damage ==
    /\ damages < MaxDamage
    /\ damages' = damages + 1
    /\ \E g \in gens \ damaged : damaged' = damaged \cup {g}
    /\ UNCHANGED <<ops, lock, marker, mark, gens, serial, faults>>

Step(o) ==
    \/ ReadMarker(o) \/ ReadMark(o) \/ StartDelete(o) \/ Acquire(o)
    \/ NothingToRecover(o) \/ CannotRecover(o) \/ Recover(o)
    \/ Refuse(o) \/ NoCandidate(o) \/ Retrieve(o)
    \/ RefusePublication(o) \/ Stage(o) \/ Accept(o) \/ Expose(o) \/ Activate(o)
    \/ PruneOne(o) \/ PruneDone(o) \/ Remove(o)

AllOver == (\A o \in Ops : At(o, "done")) /\ UNCHANGED vars

Next ==
    \/ \E o \in Ops : Step(o) \/ LockTimeout(o) \/ Interrupt(o)
    \/ Damage
    \/ AllOver

Spec == Init /\ [][Next]_vars

------------------------------------------------------------------------------
Named == {GenerationOf(p) : p \in {marker.active, marker.previous} \ {None}}

\* "no reader ever sees ... an activation marker whose generation is missing"
\* (concurrency_test.go:6): at no instant, interrupted or not, is the active or
\* the previous generation of current.json missing from generations/.
MarkerIsComplete == marker # None => Named \subseteq gens

\* The lock belongs to the operation at work under it, so two are never at the
\* disk together and none leaves it taken, whichever way it ends.
LockIsHeld == \A o \in Ops : ops[o].pc \in Holding <=> lock = o

\* The history never moves back, not by deletes, crashes or another process,
\* two bundles of one sequence are never both accepted, and only the bundle
\* accepted last is ever activated.
Activation == INSTANCE KnowledgeActivation WITH
    accepted <- mark,
    active <- IF marker = None THEN None ELSE marker.active.bundle

ImplementsActivation == Activation!Spec

\* Whenever no operation is at work under the lock, it is free again, however
\* they ended; and with no failure so far they leave a whole store behind: the
\* marker is at the accepted bundle and nothing but the active and previous
\* generations remains.
SettledWhenFree ==
    (\A o \in Ops : ops[o].pc \notin Holding) =>
        /\ lock = None
        /\ faults = 0 =>
              IF marker = None THEN gens = {}
              ELSE /\ mark = marker.active.bundle
                   /\ gens = Named

\* A publication replaces the activation its operation started from, and one
\* that started from none replaces none, however long it took in between.
ReplacesWhatItSaw ==
    [][\A o \in Ops : ops[o].result = "none" /\ ops'[o].result = "published" =>
           ops[o].seen = (IF marker = None THEN None ELSE marker.active)]_vars

\* "run any clio knowledge command ... to reconcile it" (store.go:302) is what
\* a reader says of an interrupted publication: then no command answers that
\* the activation cannot be recovered.
ConflictIsReconcilable == \A o \in Ops : ops[o].result # "lost"
=============================================================================
