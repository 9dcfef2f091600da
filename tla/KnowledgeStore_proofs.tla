------------------------ MODULE KnowledgeStore_proofs ------------------------
(***************************************************************************)
(* Proofs about KnowledgeStore for any operations, bundles, faults and     *)
(* damage: types, that the marker names existing generations, that the     *)
(* store is settled while nothing failed, that a publication replaces what *)
(* it started from, and that the store implements KnowledgeActivation.     *)
(*                                                                         *)
(* The argument is the lock.  The operation whose pc is under the lock is  *)
(* its holder, so what it found in its check stays true until it replaces  *)
(* the marker, and the disk in between is described by its pc alone.       *)
(***************************************************************************)
EXTENDS KnowledgeStore, TLAPS

ActiveNow == IF marker = None THEN None ELSE marker.active
NamedNow == IF marker = None THEN {} ELSE Named
Publishing == {"accept", "expose", "activate"}

HasCandidate ==
    \A o \in Ops : ops[o].pc \in {"publish", "check"} \cup Publishing =>
        ops[o].candidate \in Bundles

\* What the check under the lock established still holds.
CheckStands ==
    \A o \in Ops : ops[o].pc \in Publishing =>
        /\ ops[o].seen = ActiveNow
        /\ ~Conflicts(ops[o].candidate, mark)

\* What was written so far.
StepsAreDone ==
    \A o \in Ops :
        /\ ops[o].pc \in {"expose", "activate"} => mark = ops[o].candidate
        /\ ops[o].pc = "activate" => Target(o) \in gens

Settled == gens = NamedNow /\ (marker # None => mark = marker.active.bundle)

\* The disk by the step of the holder, as long as nothing failed.
UndisturbedDisk ==
    /\ (\A o \in Ops : ops[o].pc \notin {"expose", "activate", "prune"}) => Settled
    /\ \A o \in Ops :
          /\ ops[o].pc = "expose" => gens = NamedNow
          /\ ops[o].pc = "activate" => gens = NamedNow \cup {Target(o)}
          /\ ops[o].pc = "prune" =>
                marker # None /\ mark = marker.active.bundle /\ Named \subseteq gens

Undisturbed == faults = 0 => UndisturbedDisk

IInv ==
    /\ TypeOK
    /\ LockIsHeld
    /\ HasCandidate
    /\ CheckStands
    /\ StepsAreDone
    /\ MarkerIsComplete
    /\ Undisturbed

------------------------------------------------------------------------------
LEMMA InitEstablishes == Init => IInv
  <1> SUFFICES ASSUME Init PROVE IInv
    OBVIOUS
  <1> USE KnowledgeAssumption, NoneAssumption
  <1>1. \A o \in Ops : ops[o] \in Op /\ ops[o].pc = "start"
    BY DEF Init, Op, Results, Waiting, Holding
  <1>2. marker \in Marker \cup {None} /\ gens \subseteq Generation /\ mark \in Bundles \cup {None}
    BY DEF Init, Marker, Pointer, Generation
  <1>3. TypeOK
    BY <1>1, <1>2 DEF Init, TypeOK
  <1>4. Settled
    BY DEF Init, Settled, NamedNow, Named, GenerationOf, Marker, Pointer
  <1>5. lock \notin Ops
    BY DEF Init
  <1>6. MarkerIsComplete
    BY <1>4 DEF Settled, NamedNow, MarkerIsComplete
  <1> QED BY <1>1, <1>3, <1>4, <1>5, <1>6
    DEF IInv, LockIsHeld, HasCandidate, CheckStands, StepsAreDone, Undisturbed, UndisturbedDisk,
        Publishing, Holding

\* A step that writes nothing, of an operation that is not the holder.
LEMMA QuietPreserves ==
    ASSUME IInv, NEW o \in Ops,
           ops[o].pc \notin Holding, ops'[o].pc \notin Holding, ops'[o] \in Op,
           ops'[o].pc = "publish" => ops'[o].candidate \in Bundles,
           ops' = [ops EXCEPT ![o] = ops'[o]],
           UNCHANGED <<lock, disk, faults, damages>>
    PROVE  IInv'
  <1> USE DEF IInv
  <1>1. \A p \in Ops : p # o => ops'[p] = ops[p]
    BY DEF TypeOK
  <1>2. TypeOK'
    BY DEF TypeOK, disk
  <1>3. LockIsHeld'
    BY <1>1 DEF LockIsHeld
  <1>3a. HasCandidate'
    BY <1>1 DEF HasCandidate, Publishing, Holding
  <1>4. CheckStands'
    BY <1>1 DEF CheckStands, Publishing, Holding, ActiveNow, Conflicts, disk
  <1>5. StepsAreDone'
    BY <1>1 DEF StepsAreDone, Target, Repairing, Holding, disk
  <1>6. MarkerIsComplete'
    BY DEF MarkerIsComplete, Named, disk
  <1>7. Settled' = Settled /\ NamedNow' = NamedNow /\ Named' = Named
    BY DEF Settled, NamedNow, Named, disk
  <1>8. \A p \in Ops : p # o => Target(p)' = Target(p)
    BY <1>1 DEF Target, Repairing, disk
  <1>9. Undisturbed'
    BY <1>1, <1>7, <1>8 DEF Undisturbed, UndisturbedDisk, Holding, disk
  <1> QED BY <1>2, <1>3, <1>3a, <1>4, <1>5, <1>6, <1>9

\* The holder ends or goes on without the lock and writes nothing more: the
\* store is settled, or it was a fault.
LEMMA LeavePreserves ==
    ASSUME IInv, NEW o \in Ops,
           ops[o].pc \in Holding, ops'[o].pc \in {"choose", "done"}, ops'[o] \in Op,
           ops' = [ops EXCEPT ![o] = ops'[o]],
           Free, UNCHANGED <<disk, damages>>, faults' \in 0..MaxFaults,
           faults' = 0 => faults = 0 /\ Settled
    PROVE  IInv'
  <1> USE DEF IInv
  <1>1. \A p \in Ops : p # o => ops'[p] = ops[p] /\ ops[p].pc \notin Holding
    BY DEF TypeOK, LockIsHeld
  <1>2. \A p \in Ops : ops'[p].pc \notin Holding
    BY <1>1 DEF Holding
  <1>2a. HasCandidate'
    BY <1>1, <1>2 DEF HasCandidate, Publishing, Holding
  <1>3. TypeOK'
    BY DEF TypeOK, disk, Free
  <1>4. LockIsHeld'
    BY <1>2, NoneAssumption DEF LockIsHeld, Free
  <1>5. CheckStands' /\ StepsAreDone'
    BY <1>2 DEF CheckStands, StepsAreDone, Publishing, Holding
  <1>6. MarkerIsComplete'
    BY DEF MarkerIsComplete, Named, disk
  <1>7. Settled' = Settled
    BY DEF Settled, NamedNow, Named, disk
  <1>8. Undisturbed'
    BY <1>2, <1>7 DEF Undisturbed, UndisturbedDisk, Holding
  <1> QED BY <1>2a, <1>3, <1>4, <1>5, <1>6, <1>8

\* Only the holder is where the lock is needed.
LEMMA HolderIsAlone ==
    ASSUME LockIsHeld, NEW o \in Ops, ops[o].pc \in Holding
    PROVE  lock = o /\ \A p \in Ops : p # o => ops[p].pc \notin Holding
  BY DEF LockIsHeld

\* While nothing failed, a holder that has written nothing sees a settled store.
LEMMA UntouchedIsSettled ==
    ASSUME IInv, NEW o \in Ops, faults = 0,
           ops[o].pc \in {"recover", "check", "accept", "remove"}
    PROVE  Settled
  BY HolderIsAlone DEF IInv, Undisturbed, UndisturbedDisk, Holding

------------------------------------------------------------------------------
\* The operations that do not hold the lock before or after.
LEMMA QuietSteps ==
    ASSUME IInv, NEW o \in Ops,
           \/ ReadMarker(o) \/ ReadMark(o) \/ StartDelete(o) \/ LockTimeout(o)
           \/ Refuse(o) \/ NoCandidate(o) \/ Retrieve(o)
    PROVE  IInv'
  <1> USE KnowledgeAssumption, NoneAssumption
  <1>1. ops \in [Ops -> Op] /\ (marker # None => marker.active \in Pointer)
    BY DEF IInv, TypeOK, Marker
  <1>2. ops[o].pc \notin Holding
    BY DEF ReadMarker, ReadMark, StartDelete, LockTimeout, Refuse, NoCandidate, Retrieve,
           Asks, At, Holding, Waiting
  <1>3. /\ ops' = [ops EXCEPT ![o] = ops'[o]] /\ ops'[o] \in Op /\ ops'[o].pc \notin Holding
        /\ ops'[o].pc = "publish" => ops'[o].candidate \in Bundles
    <2>1. CASE ReadMarker(o)
      BY <1>1, <2>1 DEF ReadMarker, Op, Holding, Waiting
    <2>2. CASE ReadMark(o)
      BY <1>1, <2>2 DEF ReadMark, Goto, Op, Holding, Waiting
    <2>3. CASE StartDelete(o)
      BY <1>1, <2>3 DEF StartDelete, Goto, End, Op, Holding, Waiting, Results
    <2>4. CASE LockTimeout(o)
      BY <1>1, <2>4 DEF LockTimeout, End, Op, Holding, Waiting, Results
    <2>5. CASE Refuse(o)
      BY <1>1, <2>5 DEF Refuse, End, Op, Holding, Waiting, Results
    <2>6. CASE NoCandidate(o)
      BY <1>1, <2>6 DEF NoCandidate, End, Op, Holding, Waiting, Results
    <2>7. CASE Retrieve(o)
      <3>1. PICK b \in Bundles : ops' = [ops EXCEPT ![o].candidate = b, ![o].pc = "publish"]
        BY <2>7 DEF Retrieve
      <3> DEFINE r == [ops[o] EXCEPT !.candidate = b, !.pc = "publish"]
      <3>2. r \in Op /\ r.pc \notin Holding /\ r.candidate = b
        BY <1>1 DEF Op, Holding, Waiting
      <3>3. ops' = [ops EXCEPT ![o] = r]
        BY <1>1, <3>1
      <3> HIDE DEF r
      <3> QED BY <1>1, <3>2, <3>3
    <2> QED BY <2>1, <2>2, <2>3, <2>4, <2>5, <2>6, <2>7
  <1>4. UNCHANGED <<lock, disk, faults, damages>>
    BY DEF ReadMarker, ReadMark, StartDelete, LockTimeout, Refuse, NoCandidate, Retrieve
  <1> QED BY <1>2, <1>3, <1>4, QuietPreserves

\* The operations that give the lock back and write nothing.
LEMMA LeavingSteps ==
    ASSUME IInv, NEW o \in Ops,
           \/ NothingToRecover(o) \/ CannotRecover(o) \/ RefusePublication(o)
           \/ PruneDone(o) \/ Interrupt(o)
    PROVE  IInv'
  <1> USE KnowledgeAssumption, NoneAssumption
  <1>1. ops \in [Ops -> Op] /\ faults \in 0..MaxFaults /\ MaxFaults \in Nat
        /\ (marker # None => marker.active \in Pointer)
    BY DEF IInv, TypeOK, Marker
  <1>2. ops[o].pc \in Holding
    BY DEF NothingToRecover, CannotRecover, RefusePublication, PruneDone, Interrupt, At, Holding
  <1>3. Free /\ UNCHANGED <<disk, damages>>
    BY DEF NothingToRecover, CannotRecover, RefusePublication, PruneDone, Interrupt
  <1>4. /\ ops' = [ops EXCEPT ![o] = ops'[o]] /\ ops'[o] \in Op
        /\ ops'[o].pc \in {"choose", "done"}
        /\ faults' \in 0..MaxFaults
        /\ faults' = 0 => faults = 0 /\ Settled
    <2>1. CASE NothingToRecover(o)
      BY <1>1, <2>1, UntouchedIsSettled DEF NothingToRecover, At, Op, Holding, Waiting
    <2>2. CASE CannotRecover(o)
      BY <1>1, <2>2, UntouchedIsSettled DEF CannotRecover, At, End, Op, Holding, Waiting, Results
    <2>3. CASE RefusePublication(o)
      BY <1>1, <2>3, UntouchedIsSettled DEF RefusePublication, At, End, Op, Holding, Waiting, Results
    <2>4. CASE PruneDone(o)
      <3>1. faults = 0 => marker # None /\ mark = marker.active.bundle /\ Named \subseteq gens
        BY <2>4 DEF IInv, Undisturbed, UndisturbedDisk, PruneDone, At
      <3>2. faults = 0 => Settled
        BY <2>4, <3>1 DEF Settled, NamedNow, PruneDone, Obsolete, Retained, Named
      <3> QED BY <1>1, <2>4, <3>2 DEF PruneDone, Goto, Op, Holding, Waiting
    <2>5. CASE Interrupt(o)
      <3>1. faults' \in 0..MaxFaults /\ faults' # 0
        BY <1>1, <2>5 DEF Interrupt
      <3>2. ops' = [ops EXCEPT ![o].pc = "done", ![o].result = "error"]
        BY <2>5 DEF Interrupt, End
      <3> QED BY <1>1, <3>1, <3>2 DEF Op, Holding, Waiting, Results
    <2> QED BY <2>1, <2>2, <2>3, <2>4, <2>5
  <1> QED BY <1>2, <1>3, <1>4, LeavePreserves

LEMMA AcquirePreserves ==
    ASSUME IInv, NEW o \in Ops, Acquire(o)
    PROVE  IInv'
  <1> USE NoneAssumption
  <1>1. ops \in [Ops -> Op] /\ \A p \in Ops : ops[p].pc \notin Holding
    BY DEF IInv, TypeOK, LockIsHeld, Acquire
  <1>2. /\ ops'[o] \in Op /\ ops'[o].pc \in {"recover", "check", "remove"}
        /\ ops'[o].candidate = ops[o].candidate
        /\ ops'[o].pc = "check" => ops[o].pc = "publish"
        /\ ops' \in [Ops -> Op] /\ \A p \in Ops : p # o => ops'[p] = ops[p]
    BY <1>1 DEF Acquire, Goto, At, Op, Waiting, Holding
  <1>3. lock' = o /\ UNCHANGED <<marker, mark, gens, damaged, serial, faults, damages>>
    BY DEF Acquire, disk
  <1>4. TypeOK'
    BY <1>2, <1>3 DEF IInv, TypeOK
  <1>5. LockIsHeld'
    BY <1>1, <1>2, <1>3 DEF LockIsHeld, Holding
  <1>6. HasCandidate' /\ CheckStands' /\ StepsAreDone'
    BY <1>1, <1>2 DEF IInv, HasCandidate, CheckStands, StepsAreDone, Publishing, Holding
  <1>7. MarkerIsComplete'
    BY <1>3 DEF IInv, MarkerIsComplete, Named
  <1>8. faults = 0 => Settled
    BY <1>1 DEF IInv, Undisturbed, UndisturbedDisk, Holding
  <1>9. Undisturbed'
    BY <1>1, <1>2, <1>3, <1>8 DEF Undisturbed, UndisturbedDisk, Settled, NamedNow, Named, Holding
  <1> QED BY <1>4, <1>5, <1>6, <1>7, <1>9 DEF IInv

------------------------------------------------------------------------------
\* The steps that write while the lock is held and kept.  What is left to show
\* of each: its own types, and the disk it leaves for the step that follows.
LEMMA WritingPreserves ==
    ASSUME IInv, NEW o \in Ops, NEW pc \in Holding,
           ops[o].pc \in Holding, ops'[o].pc = pc,
           ops' \in [Ops -> Op], \A p \in Ops : p # o => ops'[p] = ops[p],
           UNCHANGED <<lock, faults, damages>>,
           TypeOK', MarkerIsComplete',
           pc # "check",
           pc \in Publishing =>
              /\ ops'[o].candidate \in Bundles
              /\ ops'[o].seen = ActiveNow'
              /\ ~Conflicts(ops[o].candidate, mark)',
           pc \in {"expose", "activate"} => mark' = ops'[o].candidate,
           pc = "activate" => Target(o)' \in gens',
           faults = 0 =>
              /\ pc \notin {"expose", "activate", "prune"} => Settled'
              /\ pc = "expose" => gens' = NamedNow'
              /\ pc = "activate" => gens' = NamedNow' \cup {Target(o)'}
              /\ pc = "prune" =>
                   marker' # None /\ mark' = marker'.active.bundle /\ Named' \subseteq gens'
    PROVE  IInv'
  <1>1. \A p \in Ops : p # o => ops'[p].pc \notin Holding
    BY HolderIsAlone DEF IInv
  <1>2. LockIsHeld'
    BY <1>1 DEF IInv, LockIsHeld
  <1>3. HasCandidate' /\ CheckStands'
    BY <1>1 DEF IInv, HasCandidate, CheckStands, Publishing, Holding
  <1>4. StepsAreDone'
    BY <1>1 DEF StepsAreDone, Holding
  <1>5. Undisturbed'
    BY <1>1 DEF Undisturbed, UndisturbedDisk, Holding
  <1> QED BY <1>2, <1>3, <1>4, <1>5 DEF IInv

LEMMA RecoverPreserves ==
    ASSUME IInv, NEW o \in Ops, Recover(o)
    PROVE  IInv'
  <1> USE KnowledgeAssumption, NoneAssumption
  <1> DEFINE q == Activated(Accepted)
  <1> DEFINE r == [ops[o] EXCEPT !.seen = q, !.pc = "prune"]
  <1>1. TypeOK /\ ops \in [Ops -> Op] /\ serial \in Nat /\ marker \in Marker /\ mark \in Bundles
    BY DEF IInv, TypeOK, Recover, Lags, Conflicts
  <1>2. q \in Pointer /\ GenerationOf(q) = Accepted /\ q.bundle = mark
    BY <1>1 DEF Activated, Accepted, Pointer, GenerationOf
  <1>3. ops' = [ops EXCEPT ![o] = r]
    BY <1>1 DEF Recover
  <1>4. r \in Op /\ r.pc = "prune"
    BY <1>1, <1>2 DEF Op, Holding
  <1>5. /\ ops[o].pc = "recover" /\ serial' = serial + 1
        /\ marker' = [active |-> q, previous |-> marker.active]
        /\ UNCHANGED <<lock, mark, gens, damaged, faults, damages>>
        /\ Accepted \in gens
    BY DEF Recover, At, Recoverable
  <1> HIDE DEF q, r
  <1>6. marker' \in Marker
    BY <1>1, <1>2, <1>5 DEF Marker
  <1>7. TypeOK'
    BY <1>1, <1>3, <1>4, <1>5, <1>6 DEF TypeOK
  <1>8. GenerationOf(marker.active) \in gens
    BY <1>1 DEF IInv, MarkerIsComplete, Named, Marker, Pointer
  <1>9. Named' \subseteq gens'
    BY <1>2, <1>5, <1>8 DEF Named, GenerationOf
  <1>10. ops'[o].pc = "prune" /\ \A p \in Ops : p # o => ops'[p] = ops[p]
    BY <1>1, <1>3, <1>4
  <1>11. marker' # None /\ mark' = marker'.active.bundle
    BY <1>2, <1>5, <1>6
  <1>12. faults # 0
    \* Without a failure the marker is at the mark and there is nothing to recover.
    <2>1. SUFFICES ASSUME faults = 0 PROVE FALSE
      OBVIOUS
    <2>2. marker # None /\ mark = marker.active.bundle
      BY <1>1, <1>5, <2>1, UntouchedIsSettled DEF Settled
    <2> QED BY <1>1, <2>2 DEF Recover, Lags, Conflicts
  <1> QED
    BY <1>5, <1>7, <1>9, <1>10, <1>12, WritingPreserves
    DEF TypeOK, MarkerIsComplete, Holding, Publishing

LEMMA StagePreserves ==
    ASSUME IInv, NEW o \in Ops, Stage(o)
    PROVE  IInv'
  <1> USE KnowledgeAssumption, NoneAssumption
  <1>1. TypeOK /\ ops \in [Ops -> Op]
    BY DEF IInv, TypeOK
  <1>2. /\ ops[o].pc = "check"
        /\ gens' = gens \ {Target(o)} /\ Target(o) \notin damaged
        /\ marker # None => Target(o) \notin Named
        /\ UNCHANGED <<lock, marker, mark, damaged, serial, faults, damages>>
    BY <1>1 DEF IInv, MarkerIsComplete, Stage, At, OrphanIsForeign, Retained, Named, TypeOK
  <1>3. ops' = [ops EXCEPT ![o] = [ops[o] EXCEPT !.pc = "accept"]]
    BY <1>1 DEF Stage, Goto
  <1>4. [ops[o] EXCEPT !.pc = "accept"] \in Op
    BY <1>1 DEF Op, Holding
  <1>5. /\ ops'[o].pc = "accept" /\ ops' \in [Ops -> Op]
        /\ ops'[o].candidate = ops[o].candidate /\ ops'[o].seen = ops[o].seen
        /\ \A p \in Ops : p # o => ops'[p] = ops[p]
    BY <1>1, <1>3, <1>4 DEF Op
  <1>6. TypeOK'
    BY <1>1, <1>2, <1>5 DEF TypeOK
  <1>7. MarkerIsComplete'
    BY <1>2 DEF IInv, MarkerIsComplete, Named
  <1>8. ops[o].seen = ActiveNow /\ ~Conflicts(ops[o].candidate, mark)
    BY DEF Stage, Changed, NotAcceptable, ActiveNow
  <1>9. ops[o].candidate \in Bundles
    BY <1>2 DEF IInv, HasCandidate
  <1>10. faults = 0 => Settled'
    <2>1. SUFFICES ASSUME faults = 0 PROVE Settled'
      OBVIOUS
    <2>2. Settled
      BY <1>2, <2>1, UntouchedIsSettled
    <2>3. gens' = gens
      BY <1>2, <2>2 DEF Settled, NamedNow
    <2> QED BY <1>2, <2>2, <2>3 DEF Settled, NamedNow, Named
  <1> QED
    BY <1>2, <1>5, <1>6, <1>7, <1>8, <1>9, <1>10, WritingPreserves
    DEF Holding, Publishing, ActiveNow, Conflicts

LEMMA AcceptPreserves ==
    ASSUME IInv, NEW o \in Ops, Accept(o)
    PROVE  IInv'
  <1> USE KnowledgeAssumption, NoneAssumption
  <1>1. TypeOK /\ ops \in [Ops -> Op]
    BY DEF IInv, TypeOK
  <1>2. /\ ops[o].pc = "accept" /\ mark' = ops[o].candidate
        /\ UNCHANGED <<lock, marker, gens, damaged, serial, faults, damages>>
    BY DEF Accept, At
  <1>3. ops' = [ops EXCEPT ![o] = [ops[o] EXCEPT !.pc = "expose"]]
    BY <1>1 DEF Accept, Goto
  <1>4. [ops[o] EXCEPT !.pc = "expose"] \in Op
    BY <1>1 DEF Op, Holding
  <1>5. /\ ops'[o].pc = "expose" /\ ops' \in [Ops -> Op]
        /\ ops'[o].candidate = ops[o].candidate /\ ops'[o].seen = ops[o].seen
        /\ \A p \in Ops : p # o => ops'[p] = ops[p]
    BY <1>1, <1>3, <1>4 DEF Op
  <1>6. ops[o].candidate \in Bundles /\ ops[o].seen = ActiveNow
    BY <1>2 DEF IInv, HasCandidate, CheckStands, Publishing
  <1>7. TypeOK'
    BY <1>1, <1>2, <1>5, <1>6 DEF TypeOK
  <1>8. MarkerIsComplete'
    BY <1>2 DEF IInv, MarkerIsComplete, Named
  <1>9. ~Conflicts(ops[o].candidate, mark)'
    BY <1>2, <1>5, <1>6 DEF Conflicts
  <1>10. faults = 0 => gens' = NamedNow'
    BY <1>2, UntouchedIsSettled DEF Settled, NamedNow, Named
  <1> QED
    BY <1>2, <1>5, <1>6, <1>7, <1>8, <1>9, <1>10, WritingPreserves
    DEF Holding, Publishing, ActiveNow

LEMMA ExposePreserves ==
    ASSUME IInv, NEW o \in Ops, Expose(o)
    PROVE  IInv'
  <1> USE KnowledgeAssumption, NoneAssumption
  <1>1. TypeOK /\ ops \in [Ops -> Op] /\ serial \in Nat
    BY DEF IInv, TypeOK
  <1>2. /\ ops[o].pc = "expose" /\ gens' = gens \cup {Target(o)}
        /\ UNCHANGED <<lock, marker, mark, damaged, serial, faults, damages>>
    BY DEF Expose, At
  <1>3. ops' = [ops EXCEPT ![o] = [ops[o] EXCEPT !.pc = "activate"]]
    BY <1>1 DEF Expose, Goto
  <1>4. [ops[o] EXCEPT !.pc = "activate"] \in Op
    BY <1>1 DEF Op, Holding
  <1>5. /\ ops'[o].pc = "activate" /\ ops' \in [Ops -> Op]
        /\ ops'[o].candidate = ops[o].candidate /\ ops'[o].seen = ops[o].seen
        /\ \A p \in Ops : p # o => ops'[p] = ops[p]
    BY <1>1, <1>3, <1>4 DEF Op
  <1>6. /\ ops[o].candidate \in Bundles /\ ops[o].seen = ActiveNow
        /\ ~Conflicts(ops[o].candidate, mark) /\ mark = ops[o].candidate
    BY <1>2 DEF IInv, HasCandidate, CheckStands, StepsAreDone, Publishing
  <1>7. Target(o) \in Generation /\ Target(o)' = Target(o)
    BY <1>1, <1>2, <1>5, <1>6 DEF Target, Repairing, Generation
  <1>8. TypeOK'
    BY <1>1, <1>2, <1>5, <1>7 DEF TypeOK
  <1>9. MarkerIsComplete'
    BY <1>2 DEF IInv, MarkerIsComplete, Named
  <1>10. faults = 0 => gens' = NamedNow' \cup {Target(o)'}
    BY <1>2, <1>7 DEF IInv, Undisturbed, UndisturbedDisk, NamedNow, Named
  <1> QED
    BY <1>2, <1>5, <1>6, <1>7, <1>8, <1>9, <1>10, WritingPreserves
    DEF Holding, Publishing, ActiveNow, Conflicts

LEMMA ActivatePreserves ==
    ASSUME IInv, NEW o \in Ops, Activate(o)
    PROVE  IInv'
  <1> USE KnowledgeAssumption, NoneAssumption
  <1> DEFINE q == Activated(Target(o))
  <1>1. /\ TypeOK /\ ops \in [Ops -> Op] /\ serial \in Nat
        /\ marker \in Marker \cup {None} /\ MarkerIsComplete
    BY DEF IInv, TypeOK
  <1>2. /\ ops[o].pc = "activate" /\ serial' = serial + 1
        /\ marker' = [active |-> q, previous |-> PreviousAfter(o)]
        /\ UNCHANGED <<lock, mark, gens, damaged, faults, damages>>
    BY DEF Activate, At
  <1> DEFINE r == [ops[o] EXCEPT !.pc = "prune", !.result = "published"]
  <1>3. ops' = [ops EXCEPT ![o] = r]
    BY <1>1 DEF Activate
  <1>4. r \in Op /\ r.pc = "prune"
    BY <1>1 DEF Op, Holding, Results
  <1>5. mark = ops[o].candidate /\ mark \in Bundles /\ Target(o) \in gens
    BY <1>2 DEF IInv, HasCandidate, StepsAreDone, Publishing
  <1>6. q \in Pointer /\ GenerationOf(q) = Target(o) /\ q.bundle = mark
    BY <1>1, <1>5 DEF Activated, Target, Pointer, GenerationOf
  <1> HIDE DEF q, r
  <1>7. PreviousAfter(o) \in Pointer \cup {None}
    BY <1>1 DEF PreviousAfter, Marker
  <1>8. PreviousAfter(o) # None => GenerationOf(PreviousAfter(o)) \in gens
    BY <1>1 DEF PreviousAfter, MarkerIsComplete, Named, Marker
  <1>9. marker' \in Marker
    BY <1>2, <1>6, <1>7 DEF Marker
  <1>10. TypeOK'
    BY <1>1, <1>2, <1>3, <1>4, <1>9 DEF TypeOK
  <1>11. Named' \subseteq gens'
    BY <1>2, <1>5, <1>6, <1>8 DEF Named, GenerationOf
  <1>12. ops'[o].pc = "prune" /\ ops' \in [Ops -> Op] /\ \A p \in Ops : p # o => ops'[p] = ops[p]
    BY <1>1, <1>3, <1>4
  <1>13. marker' # None /\ mark' = marker'.active.bundle
    BY <1>2, <1>6, <1>9
  <1> QED
    BY <1>2, <1>10, <1>11, <1>12, <1>13, WritingPreserves
    DEF MarkerIsComplete, Holding, Publishing

\* What both write is a marker at the accepted bundle.
LEMMA WrittenIsAccepted ==
    ASSUME IInv, NEW o \in Ops, Recover(o) \/ Activate(o)
    PROVE  marker' \in Marker /\ marker'.active.bundle = mark /\ mark' = mark
  <1> USE NoneAssumption
  <1>1. serial \in Nat /\ marker \in Marker \cup {None} /\ mark \in Bundles \cup {None}
    BY DEF IInv, TypeOK
  <1>2. ASSUME NEW g, g \in Generation
        PROVE  Activated(g) \in Pointer /\ Activated(g).bundle = g.bundle
    BY <1>1, <1>2 DEF Activated, Generation, Pointer
  <1>3. CASE Recover(o)
    <2>1. marker \in Marker /\ mark \in Bundles
      BY <1>1, <1>3 DEF Recover, Lags, Conflicts
    <2>2. Accepted \in Generation /\ Accepted.bundle = mark
      BY <2>1 DEF Accepted, Generation
    <2>3. marker' = [active |-> Activated(Accepted), previous |-> marker.active] /\ mark' = mark
      BY <1>3 DEF Recover
    <2> QED BY <1>2, <2>1, <2>2, <2>3 DEF Marker
  <1>4. CASE Activate(o)
    <2>1. mark = ops[o].candidate /\ mark \in Bundles
      BY <1>4 DEF IInv, HasCandidate, StepsAreDone, Publishing, Activate, At
    <2>2. Target(o) \in Generation /\ Target(o).bundle = mark
      BY <1>1, <2>1 DEF Target, Generation
    <2>3. PreviousAfter(o) \in Pointer \cup {None}
      BY <1>1 DEF PreviousAfter, Marker
    <2>4. marker' = [active |-> Activated(Target(o)), previous |-> PreviousAfter(o)] /\ mark' = mark
      BY <1>4 DEF Activate
    <2> QED BY <1>2, <2>2, <2>3, <2>4 DEF Marker
  <1> QED BY <1>3, <1>4

LEMMA PrunePreserves ==
    ASSUME IInv, NEW o \in Ops, PruneOne(o)
    PROVE  IInv'
  <1> USE NoneAssumption
  <1>1. TypeOK /\ MarkerIsComplete
    BY DEF IInv
  <1>2. PICK g \in Obsolete : gens' = gens \ {g} /\ damaged' = damaged \cap (gens \ {g})
    BY DEF PruneOne, DamagedIn
  <1>3. ops[o].pc = "prune" /\ UNCHANGED <<ops, lock, marker, mark, serial, faults, damages>>
    BY DEF PruneOne, At
  <1>4. TypeOK'
    BY <1>1, <1>2, <1>3 DEF TypeOK
  <1>5. MarkerIsComplete'
    BY <1>1, <1>2, <1>3 DEF MarkerIsComplete, Obsolete, Retained, Named
  <1>6. faults = 0 =>
          marker' # None /\ mark' = marker'.active.bundle /\ Named' \subseteq gens'
    BY <1>3, <1>5 DEF IInv, Undisturbed, UndisturbedDisk, MarkerIsComplete
  <1> QED
    BY <1>1, <1>3, <1>4, <1>5, <1>6, WritingPreserves DEF TypeOK, Holding, Publishing

LEMMA RemovePreserves ==
    ASSUME IInv, NEW o \in Ops, Remove(o)
    PROVE  IInv'
  <1> USE NoneAssumption
  <1>1. PICK result \in {"deleted", "error"} : End(o, result)
    BY DEF Remove
  <1>2. /\ ops[o].pc = "remove"
        /\ marker' = None /\ gens' = {} /\ damaged' = {} /\ lock' = None
        /\ UNCHANGED <<mark, serial, faults, damages>>
    BY DEF Remove, At, Free
  <1>3. TypeOK /\ ops \in [Ops -> Op]
    BY DEF IInv, TypeOK
  <1> DEFINE r == [ops[o] EXCEPT !.pc = "done", !.result = result]
  <1>4. ops' = [ops EXCEPT ![o] = r]
    BY <1>1, <1>3 DEF End
  <1>5. r \in Op /\ r.pc = "done"
    BY <1>3 DEF Op, Results
  <1> HIDE DEF r
  <1>6. ops' \in [Ops -> Op] /\ ops'[o].pc = "done" /\ \A p \in Ops : p # o => ops'[p] = ops[p]
    BY <1>3, <1>4, <1>5
  <1>7. \A p \in Ops : ops'[p].pc \notin Holding
    BY <1>2, <1>6, HolderIsAlone DEF IInv, Holding
  <1>8. TypeOK'
    BY <1>2, <1>3, <1>6 DEF TypeOK
  <1>9. LockIsHeld' /\ CheckStands' /\ StepsAreDone'
    BY <1>2, <1>7 DEF LockIsHeld, CheckStands, StepsAreDone, Publishing, Holding
  <1>10. HasCandidate'
    BY <1>6 DEF IInv, HasCandidate, Publishing
  <1>11. MarkerIsComplete' /\ Settled'
    BY <1>2 DEF MarkerIsComplete, Settled, NamedNow
  <1>12. Undisturbed'
    BY <1>7, <1>11 DEF Undisturbed, UndisturbedDisk, Holding
  <1> QED BY <1>8, <1>9, <1>10, <1>11, <1>12 DEF IInv

LEMMA DamagePreserves ==
    ASSUME IInv, Damage
    PROVE  IInv'
  <1>1. TypeOK
    BY DEF IInv
  <1>2. /\ damages' \in 0..MaxDamage
        /\ UNCHANGED <<ops, lock, marker, mark, gens, serial, faults>>
    BY <1>1, KnowledgeAssumption DEF Damage, TypeOK
  <1>3. damaged' \subseteq gens'
    BY <1>1 DEF Damage, TypeOK
  <1>4. TypeOK'
    BY <1>1, <1>2, <1>3 DEF TypeOK
  <1>5. LockIsHeld' /\ HasCandidate' /\ CheckStands' /\ MarkerIsComplete'
    BY <1>2 DEF IInv, LockIsHeld, HasCandidate, CheckStands, MarkerIsComplete, ActiveNow,
                Named, Conflicts
  <1>6. \A o \in Ops : Target(o)' = Target(o)
    BY <1>2 DEF Target, Repairing
  <1>7. StepsAreDone' /\ Undisturbed'
    BY <1>2, <1>6 DEF IInv, StepsAreDone, Undisturbed, UndisturbedDisk, Settled, NamedNow, Named
  <1> QED BY <1>4, <1>5, <1>7 DEF IInv

LEMMA NextPreserves ==
    ASSUME IInv, [Next]_vars
    PROVE  IInv'
  <1>1. UNCHANGED vars => IInv'
    BY DEF vars, disk, IInv, TypeOK, LockIsHeld, HasCandidate, CheckStands, StepsAreDone,
       MarkerIsComplete, Undisturbed, UndisturbedDisk, Settled, NamedNow, Named, ActiveNow,
       Conflicts, Target, Repairing
  <1>2. CASE Damage
    BY <1>2, DamagePreserves
  <1>2a. CASE AllOver
    BY <1>1, <1>2a DEF AllOver
  <1>3. ASSUME NEW o \in Ops, Step(o) \/ LockTimeout(o) \/ Interrupt(o)
        PROVE  IInv'
    BY <1>3, QuietSteps, LeavingSteps, AcquirePreserves, RecoverPreserves, StagePreserves,
       AcceptPreserves, ExposePreserves, ActivatePreserves, PrunePreserves, RemovePreserves
       DEF Step
  <1> QED BY <1>1, <1>2, <1>2a, <1>3 DEF Next

THEOREM Invariant == Spec => []IInv
  <1>1. Init => IInv
    BY InitEstablishes
  <1>2. IInv /\ [Next]_vars => IInv'
    BY NextPreserves
  <1> QED BY <1>1, <1>2, PTL DEF Spec

------------------------------------------------------------------------------
\* Every variable keeps its type.
THEOREM TypeCorrect == Spec => []TypeOK
  BY Invariant, PTL DEF IInv

\* current.json never names a generation that is missing from generations/
\* (store_write.go:756-780), whatever fails or dies.
THEOREM MarkerNamesGenerations == Spec => []MarkerIsComplete
  BY Invariant, PTL DEF IInv

\* No two operations work under the lock, and none leaves it taken
\* (filelock.go:35-41, store_write.go:310).
THEOREM LockIsExclusive == Spec => []LockIsHeld
  BY Invariant, PTL DEF IInv

\* Whenever no operation is at work the lock is free, and with no failure the
\* store is settled (store_write.go:296-310, 541-602).
THEOREM StoreSettles == Spec => []SettledWhenFree
  <1>1. IInv => SettledWhenFree
    <2>1. SUFFICES ASSUME IInv, \A o \in Ops : ops[o].pc \notin Holding
                   PROVE  lock = None /\ (faults = 0 => Settled)
      BY DEF SettledWhenFree, Settled, NamedNow
    <2>2. lock = None
      BY <2>1 DEF IInv, TypeOK, LockIsHeld
    <2> QED BY <2>1, <2>2 DEF IInv, Undisturbed, UndisturbedDisk, Holding
  <1> QED BY <1>1, Invariant, PTL

\* A publication replaces exactly the activation its operation started from
\* (store_write.go:552-561).
THEOREM NothingIsReplacedUnseen == Spec => ReplacesWhatItSaw
  <1> DEFINE Sees ==
        \A o \in Ops : ops[o].result = "none" /\ ops'[o].result = "published" =>
            ops[o].seen = (IF marker = None THEN None ELSE marker.active)
  <1>1. IInv /\ [Next]_vars => [Sees]_vars
    <2>1. SUFFICES ASSUME IInv, Next, NEW o \in Ops,
                          ops[o].result = "none", ops'[o].result = "published"
                   PROVE  ops[o].seen = ActiveNow
      BY DEF ActiveNow
    <2>2. ops \in [Ops -> Op]
      BY <2>1 DEF IInv, TypeOK
    <2>3. PICK p \in Ops : Step(p) \/ LockTimeout(p) \/ Interrupt(p)
      BY <2>1, <2>2 DEF Next, Damage, AllOver, vars, Op
    <2>4. Activate(p)
      <3>1. ASSUME NEW pc, Goto(p, pc) PROVE FALSE
        BY <2>1, <2>2, <3>1 DEF Goto, Op
      <3>2. ASSUME NEW result, End(p, result), result # "published" PROVE FALSE
        BY <2>1, <2>2, <3>2 DEF End, Op
      <3>3. CASE ReadMarker(p) \/ NothingToRecover(p) \/ Recover(p) \/ PruneOne(p)
        BY <2>1, <2>2, <3>3 DEF ReadMarker, NothingToRecover, Recover, PruneOne, Op
      <3>4. CASE Retrieve(p)
        <4>1. PICK b \in Bundles : ops' = [ops EXCEPT ![p].candidate = b, ![p].pc = "publish"]
          BY <3>4 DEF Retrieve
        <4> QED BY <2>1, <2>2, <4>1 DEF Op
      <3>5. CASE ReadMark(p) \/ StartDelete(p) \/ Acquire(p) \/ LockTimeout(p)
        BY <3>1, <3>2, <3>5 DEF ReadMark, StartDelete, Acquire, LockTimeout
      <3>6. CASE CannotRecover(p) \/ Refuse(p) \/ NoCandidate(p) \/ RefusePublication(p)
        BY <3>2, <3>6 DEF CannotRecover, Refuse, NoCandidate, RefusePublication
      <3>7. CASE Stage(p) \/ Accept(p) \/ Expose(p) \/ PruneDone(p)
        BY <3>1, <3>7 DEF Stage, Accept, Expose, PruneDone
      <3>8. CASE Remove(p) \/ Interrupt(p)
        BY <3>2, <3>8 DEF Remove, Interrupt
      <3> QED BY <2>3, <3>3, <3>4, <3>5, <3>6, <3>7, <3>8 DEF Step
    <2>5. p = o
      BY <2>1, <2>2, <2>4 DEF Activate
    <2>6. ops[o].pc = "activate"
      BY <2>4, <2>5 DEF Activate, At
    <2> QED BY <2>1, <2>6 DEF IInv, CheckStands, Publishing
  <1> QED BY <1>1, Invariant, PTL DEF Spec, ReplacesWhatItSaw

\* The store implements KnowledgeActivation: what is accepted only moves
\* forward, and only what was accepted last is activated.
THEOREM Implementation == Spec => ImplementsActivation
  <1> USE KnowledgeAssumption, NoneAssumption
  <1> DEFINE act == IF marker = None THEN None ELSE marker.active.bundle
  <1>1. Init => Activation!Init
    BY DEF Init, Activation!Init
  <1>2. IInv /\ [Next]_vars => [Activation!Next]_(Activation!vars)
    <2>1. SUFFICES ASSUME IInv, [Next]_vars, ~UNCHANGED <<mark, act>>
                   PROVE  Activation!Next
      BY DEF Activation!vars
    <2>2. TypeOK
      BY <2>1 DEF IInv
    <2>3. PICK o \in Ops : Recover(o) \/ Accept(o) \/ Activate(o) \/ Remove(o)
      BY <2>1 DEF vars, disk, Next, AllOver, Step, Damage, ReadMarker, ReadMark, StartDelete, Acquire,
         NothingToRecover, CannotRecover, Refuse, NoCandidate, Retrieve,
         RefusePublication, Stage, Expose, PruneOne, PruneDone, LockTimeout, Interrupt
    <2>4. CASE Accept(o)
      <3>1. /\ ops[o].candidate \in Bundles /\ mark' = ops[o].candidate /\ marker' = marker
            /\ ~Conflicts(ops[o].candidate, mark)
        BY <2>1, <2>4 DEF IInv, HasCandidate, CheckStands, Publishing, Accept, At
      <3>2. mark # None => mark.sequence < ops[o].candidate.sequence
        BY <2>1, <2>2, <3>1 DEF TypeOK, Conflicts
      <3> QED BY <3>1, <3>2 DEF Activation!Next, Activation!Accept
    <2>5. CASE Recover(o) \/ Activate(o)
      <3>1. marker' # None /\ marker'.active.bundle = mark /\ mark' = mark
        BY <2>1, <2>5, WrittenIsAccepted
      <3> QED BY <3>1 DEF Activation!Next, Activation!Activate
    <2>6. CASE Remove(o)
      BY <2>6 DEF Remove, Activation!Next, Activation!Remove
    <2> QED BY <2>3, <2>4, <2>5, <2>6
  <1> QED BY <1>1, <1>2, Invariant, PTL DEF Spec, Activation!Spec, ImplementsActivation
=============================================================================
