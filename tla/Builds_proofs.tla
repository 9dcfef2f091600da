---------------------------- MODULE Builds_proofs ----------------------------
(***************************************************************************)
(* Proofs about Builds for every number of calls, names and targets and    *)
(* for every edit of the settings: the type invariant, that no reservation *)
(* leaks or is held twice, that compile-status finds the compile that      *)
(* runs, that a target has one compile or migrator build while the         *)
(* settings stay, and that the tools implement BuildBoard.                 *)
(*                                                                         *)
(* What the operation store guarantees is taken from its own proofs,       *)
(* instantiated for the store of this module (StoreP).  The inductive      *)
(* invariant ties the two together: the compiles that are recorded hold    *)
(* reservations, so their keys differ, so none of them replaces another    *)
(* as its key's latest record, and the one that finishes closes its own.   *)
(***************************************************************************)
EXTENDS Builds, TLAPS

\* The operation store with the facts proved about it.
StoreP == INSTANCE OperationStore_proofs WITH Tenants <- Keys

\* The handler has handed over to its work exactly when there is work, and a
\* tool goes only through the steps it has.
Consistent ==
    \A c \in Calls :
        /\ calls[c].work = "none" <=>
              calls[c].handler \in {"idle", "resolved", "keyed", "reserved", "busy", "refused"}
        /\ calls[c].tool = "compile" => calls[c].work # "unreserved"
        /\ calls[c].tool = "migrator" => calls[c].handler # "reserved" /\ calls[c].work # "finished"
        /\ calls[c].tool = "install" =>
              /\ calls[c].handler # "reserved"
              /\ calls[c].work \notin {"unreserved", "started", "finished"}

\* A compile that is recorded has the open record that is its key's latest.
RecordsAreOpen ==
    \A c \in Calls : Recorded(c) =>
        /\ calls[c].op \in open
        /\ records[calls[c].op].tenant = calls[c].key
        /\ latest[calls[c].key] = calls[c].op

\* While nobody edits the settings, the key a call read is still the one of
\* its name, and its work builds the target of that key.
KeysAreCurrent ==
    edits = 0 => \A c \in Calls : calls[c].tool # "install" =>
        /\ calls[c].handler # "idle" => calls[c].key = TenantKey(calls[c].name)
        /\ calls[c].work = "building" => calls[c].client = calls[c].key

\* The inductive invariant.
IInv ==
    /\ TypeOK
    /\ StoreP!IInv
    /\ Consistent
    /\ ReservationsAreHeld
    /\ RecordsAreOpen
    /\ KeysAreCurrent

\* The keys of this module are tenants for the store.
LEMMA StoreAssumed == StoreP!StoreAssumption
  BY BuildsAssumption DEF Keys, StoreP!StoreAssumption

\* Both instances of the store mean the same by a type.
LEMMA StoreTyped ==
    /\ Store!TypeOK <=> StoreP!TypeOK
    /\ Store!TypeOK' <=> StoreP!TypeOK'
  BY DEF Store!TypeOK, StoreP!TypeOK, Store!Record, StoreP!Record

\* A step that leaves the store alone keeps its invariant.
LEMMA StoreStays ==
    ASSUME StoreP!IInv, UNCHANGED storeVars
    PROVE  StoreP!IInv'
  <1>1. StoreP!vars' = StoreP!vars
    BY DEF storeVars, StoreP!vars
  <1> QED BY <1>1, StoreAssumed, StoreP!StepPreserves

\* A begin of the store has the effect its proofs are about.
LEMMA StoreBegins ==
    ASSUME NEW key \in Keys, Store!Begin(key)
    PROVE  StoreP!BeginEffect(key)
  <1> DEFINE kept == {i \in DOMAIN records : ~Store!Idle(i)}
  <1>1. PICK victims \in Store!VictimSets(kept) :
          /\ records' = [i \in (kept \ victims) \cup {begun + 1} |->
                IF i = begun + 1
                THEN [tenant |-> key, status |-> "running", activity |-> now]
                ELSE records[i]]
          /\ latest' = [u \in Keys |->
                IF u = key THEN begun + 1
                ELSE Store!LatestAfter(u, DOMAIN records \ (kept \ victims))]
    BY DEF Store!Begin
  <1>2. victims \subseteq {id \in kept : ~Store!Running(id)}
    BY DEF Store!VictimSets
  <1>3. {id \in DOMAIN records : records[id].status = "running"} \subseteq kept \ victims
    BY <1>2 DEF Store!Idle, Store!Running
  <1> QED BY <1>1, <1>3 DEF Store!Begin, StoreP!BeginEffect, Store!LatestAfter

\* tenantKey gives a target, or the unregistered name.
LEMMA TenantKeyIsKey ==
    ASSUME TypeOK, NEW n \in Names
    PROVE  TenantKey(n) \in Keys
  BY DEF TypeOK, TenantKey, Keys

\* A step that gives or takes no reservation, and leaves the keys of the
\* holders alone.
LEMMA SameHolders ==
    ASSUME ReservationsAreHeld, UNCHANGED <<builds, installs>>,
           \A d \in Calls : /\ HoldsBuild(d)' <=> HoldsBuild(d)
                            /\ HoldsInstall(d)' <=> HoldsInstall(d)
                            /\ HoldsBuild(d) \/ HoldsInstall(d) => calls'[d].key = calls[d].key
    PROVE  ReservationsAreHeld'
  <1> DEFINE H == {d \in Calls : HoldsBuild(d)}
             I == {d \in Calls : HoldsInstall(d)}
  <1>1. H' = H /\ I' = I
    OBVIOUS
  <1>2. {calls[d].key : d \in H}' = {calls[d].key : d \in H}
    BY <1>1
  <1>3. {calls[d].key : d \in I}' = {calls[d].key : d \in I}
    BY <1>1
  <1>4. \A d, e \in Calls :
          /\ d # e /\ calls'[d].key = calls'[e].key
          /\ (HoldsBuild(d)' /\ HoldsBuild(e)') \/ (HoldsInstall(d)' /\ HoldsInstall(e)')
          => FALSE
    BY DEF ReservationsAreHeld
  <1> QED BY <1>2, <1>3, <1>4 DEF ReservationsAreHeld

\* A step that reserves a key nobody holds in pkgWriteBuilds.
LEMMA OneMoreHolder ==
    ASSUME ReservationsAreHeld, NEW c \in Calls,
           calls[c].key \notin builds,
           builds' = builds \cup {calls[c].key}, installs' = installs,
           HoldsBuild(c)', ~HoldsInstall(c), ~HoldsInstall(c)',
           \A d \in Calls : calls'[d].key = calls[d].key,
           \A d \in Calls \ {c} : /\ HoldsBuild(d)' <=> HoldsBuild(d)
                                  /\ HoldsInstall(d)' <=> HoldsInstall(d)
    PROVE  ReservationsAreHeld'
  <1> DEFINE H == {d \in Calls : HoldsBuild(d)}
             I == {d \in Calls : HoldsInstall(d)}
  <1>1. H' = H \cup {c} /\ I' = I
    OBVIOUS
  <1>2. {calls[d].key : d \in H}' = {calls[d].key : d \in H} \cup {calls[c].key}
    BY <1>1
  <1>3. {calls[d].key : d \in I}' = {calls[d].key : d \in I}
    BY <1>1
  <1>4. \A d \in H : calls[d].key # calls[c].key
    BY DEF ReservationsAreHeld
  <1>5. \A d, e \in Calls :
          /\ d # e /\ calls'[d].key = calls'[e].key
          /\ (HoldsBuild(d)' /\ HoldsBuild(e)') \/ (HoldsInstall(d)' /\ HoldsInstall(e)')
          => FALSE
    BY <1>4 DEF ReservationsAreHeld
  <1> QED BY <1>2, <1>3, <1>5 DEF ReservationsAreHeld

LEMMA ReadKeyPreserves ==
    ASSUME IInv, NEW c \in Calls, ReadKey(c)
    PROVE  IInv'
  <1> USE DEF IInv, ReadKey, At, Works, TenantKey
  <1>0. StoreP!IInv' /\ Store!TypeOK' /\ UNCHANGED storeVars
    BY StoreStays, StoreTyped DEF storeVars, StoreP!IInv, TypeOK, Store!TypeOK
  <1>1. TypeOK'
    BY <1>0, TenantKeyIsKey DEF TypeOK, Call, Keys, Tools, Answers
  <1>2. Consistent'
    BY DEF TypeOK, Call, Consistent, Tools, Answers
  <1>3. ReservationsAreHeld'
    <2>1. \A d \in Calls \ {c} : calls'[d] = calls[d]
      BY DEF TypeOK
    <2>2. ~HoldsBuild(c) /\ ~HoldsInstall(c) /\ ~HoldsBuild(c)' /\ ~HoldsInstall(c)'
      BY DEF TypeOK, Call, Consistent, HoldsBuild, HoldsInstall
    <2> QED BY <2>1, <2>2, SameHolders DEF HoldsBuild, HoldsInstall
  <1>4. RecordsAreOpen'
    BY <1>0 DEF TypeOK, Call, Consistent, RecordsAreOpen, Recorded, storeVars, Tools, Answers
  <1>5. KeysAreCurrent'
    BY DEF TypeOK, Call, Consistent, KeysAreCurrent, TenantKey
  <1> QED BY <1>0, <1>1, <1>2, <1>3, <1>4, <1>5

LEMMA ResolveInstallPreserves ==
    ASSUME IInv, NEW c \in Calls, ResolveInstall(c)
    PROVE  IInv'
  <1> USE DEF IInv, ResolveInstall, At, Works
  <1>0. StoreP!IInv' /\ Store!TypeOK' /\ UNCHANGED storeVars
    BY StoreStays, StoreTyped DEF storeVars, StoreP!IInv, TypeOK, Store!TypeOK
  <1>1. TypeOK'
    BY <1>0, TenantKeyIsKey DEF TypeOK, Call, Keys, Tools, Answers
  <1>2. Consistent'
    BY DEF TypeOK, Call, Consistent, Tools, Answers
  <1>3. ReservationsAreHeld'
    BY DEF TypeOK, Call, Consistent, ReservationsAreHeld, HoldsBuild, HoldsInstall, Tools, Answers
  <1>4. RecordsAreOpen'
    BY <1>0 DEF TypeOK, Call, Consistent, RecordsAreOpen, Recorded, storeVars, Tools, Answers
  <1>5. KeysAreCurrent'
    BY DEF TypeOK, Call, Consistent, KeysAreCurrent, TenantKey
  <1> QED BY <1>0, <1>1, <1>2, <1>3, <1>4, <1>5

LEMMA ReserveCompilePreserves ==
    ASSUME IInv, NEW c \in Calls, ReserveCompile(c)
    PROVE  IInv'
  <1> USE DEF IInv, ReserveCompile, At, Works, CanReserve
  <1>0. StoreP!IInv' /\ Store!TypeOK' /\ UNCHANGED storeVars
    BY StoreStays, StoreTyped DEF storeVars, StoreP!IInv, TypeOK, Store!TypeOK
  <1>1. TypeOK'
    BY <1>0, TenantKeyIsKey DEF TypeOK, Call, Keys, Tools, Answers
  <1>2. Consistent'
    BY DEF TypeOK, Call, Consistent, Tools, Answers
  <1>3. ReservationsAreHeld'
    <2>1. /\ \A d \in Calls \ {c} : calls'[d] = calls[d]
          /\ calls'[c].key = calls[c].key
      BY DEF TypeOK, Call
    <2>2. ~HoldsBuild(c) /\ ~HoldsInstall(c) /\ ~HoldsInstall(c)'
      BY DEF TypeOK, Call, Consistent, HoldsBuild, HoldsInstall
    <2>3. CASE calls[c].key \notin builds
      <3>1. builds' = builds \cup {calls[c].key} /\ installs' = installs /\ HoldsBuild(c)'
        BY <2>3 DEF TypeOK, Call, Consistent, HoldsBuild
      <3> QED BY <2>1, <2>2, <2>3, <3>1, OneMoreHolder DEF HoldsBuild, HoldsInstall
    <2>4. CASE calls[c].key \in builds
      <3>1. UNCHANGED <<builds, installs>> /\ ~HoldsBuild(c)'
        BY <2>4 DEF TypeOK, Call, Consistent, HoldsBuild
      <3> QED BY <2>1, <2>2, <3>1, SameHolders DEF HoldsBuild, HoldsInstall
    <2> QED BY <2>3, <2>4
  <1>4. RecordsAreOpen'
    <2>1. \A d \in Calls : Recorded(d)' =>
             Recorded(d) /\ calls'[d].op = calls[d].op /\ calls'[d].key = calls[d].key
      BY DEF TypeOK, Call, Consistent, Recorded
    <2> QED BY <1>0, <2>1 DEF RecordsAreOpen, storeVars
  <1>5. KeysAreCurrent'
    BY DEF TypeOK, Call, Consistent, KeysAreCurrent, TenantKey
  <1> QED BY <1>0, <1>1, <1>2, <1>3, <1>4, <1>5

LEMMA ReserveInstallPreserves ==
    ASSUME IInv, NEW c \in Calls, ReserveInstall(c)
    PROVE  IInv'
  <1> USE DEF IInv, ReserveInstall, At, Works, CanReserve
  <1>0. StoreP!IInv' /\ Store!TypeOK' /\ UNCHANGED storeVars
    BY StoreStays, StoreTyped DEF storeVars, StoreP!IInv, TypeOK, Store!TypeOK
  <1>1. TypeOK'
    BY <1>0, TenantKeyIsKey DEF TypeOK, Call, Keys, Tools, Answers
  <1>2. Consistent'
    BY DEF TypeOK, Call, Consistent, Tools, Answers
  <1>3. ReservationsAreHeld'
    BY DEF TypeOK, Call, Consistent, ReservationsAreHeld, HoldsBuild, HoldsInstall, Tools, Answers
  <1>4. RecordsAreOpen'
    BY <1>0 DEF TypeOK, Call, Consistent, RecordsAreOpen, Recorded, storeVars, Tools, Answers
  <1>5. KeysAreCurrent'
    BY DEF TypeOK, Call, Consistent, KeysAreCurrent, TenantKey
  <1> QED BY <1>0, <1>1, <1>2, <1>3, <1>4, <1>5

LEMMA StartMigratorPreserves ==
    ASSUME IInv, NEW c \in Calls, StartMigrator(c)
    PROVE  IInv'
  <1> USE DEF IInv, StartMigrator, At, Works
  <1>0. StoreP!IInv' /\ Store!TypeOK' /\ UNCHANGED storeVars
    BY StoreStays, StoreTyped DEF storeVars, StoreP!IInv, TypeOK, Store!TypeOK
  <1>1. TypeOK'
    <2>1. calls \in [Calls -> Call]
      BY DEF TypeOK
    <2>2. [calls[c] EXCEPT !.handler = "waiting", !.work = "unreserved"] \in Call
      BY <2>1 DEF Call
    <2>3. calls' = [calls EXCEPT
             ![c] = [calls[c] EXCEPT !.handler = "waiting", !.work = "unreserved"]]
      OBVIOUS
    <2> HIDE DEF StartMigrator
    <2>4. calls' \in [Calls -> Call]
      BY <2>1, <2>2, <2>3
    <2> QED BY <1>0, <2>4 DEF TypeOK, StartMigrator
  <1>2. Consistent'
    BY DEF TypeOK, Call, Consistent, Tools, Answers
  <1>3. ReservationsAreHeld'
    BY DEF TypeOK, Call, Consistent, ReservationsAreHeld, HoldsBuild, HoldsInstall, Tools, Answers
  <1>4. RecordsAreOpen'
    BY <1>0 DEF TypeOK, Call, Consistent, RecordsAreOpen, Recorded, storeVars, Tools, Answers
  <1>5. KeysAreCurrent'
    BY DEF TypeOK, Call, Consistent, KeysAreCurrent, TenantKey
  <1> QED BY <1>0, <1>1, <1>2, <1>3, <1>4, <1>5

LEMMA ReserveMigratorPreserves ==
    ASSUME IInv, NEW c \in Calls, ReserveMigrator(c)
    PROVE  IInv'
  <1> USE DEF IInv, ReserveMigrator, At, Works, CanReserve
  <1>0. StoreP!IInv' /\ Store!TypeOK' /\ UNCHANGED storeVars
    BY StoreStays, StoreTyped DEF storeVars, StoreP!IInv, TypeOK, Store!TypeOK
  <1>1. TypeOK'
    BY <1>0, TenantKeyIsKey DEF TypeOK, Call, Keys, Tools, Answers
  <1>2. Consistent'
    BY DEF TypeOK, Call, Consistent, Tools, Answers
  <1>3. ReservationsAreHeld'
    <2>1. /\ \A d \in Calls \ {c} : calls'[d] = calls[d]
          /\ calls'[c].key = calls[c].key
      BY DEF TypeOK, Call
    <2>2. ~HoldsBuild(c) /\ ~HoldsInstall(c) /\ ~HoldsInstall(c)'
      BY DEF TypeOK, Call, Consistent, HoldsBuild, HoldsInstall
    <2>3. CASE calls[c].key \notin builds
      <3>1. builds' = builds \cup {calls[c].key} /\ installs' = installs /\ HoldsBuild(c)'
        BY <2>3 DEF TypeOK, Call, Consistent, HoldsBuild
      <3> QED BY <2>1, <2>2, <2>3, <3>1, OneMoreHolder DEF HoldsBuild, HoldsInstall
    <2>4. CASE calls[c].key \in builds
      <3>1. UNCHANGED <<builds, installs>> /\ ~HoldsBuild(c)'
        BY <2>4 DEF TypeOK, Call, Consistent, HoldsBuild
      <3> QED BY <2>1, <2>2, <3>1, SameHolders DEF HoldsBuild, HoldsInstall
    <2> QED BY <2>3, <2>4
  <1>4. RecordsAreOpen'
    BY <1>0 DEF TypeOK, Call, Consistent, RecordsAreOpen, Recorded, storeVars, Tools, Answers
  <1>5. KeysAreCurrent'
    BY DEF TypeOK, Call, Consistent, KeysAreCurrent, TenantKey
  <1> QED BY <1>0, <1>1, <1>2, <1>3, <1>4, <1>5

LEMMA ResolveInWorkPreserves ==
    ASSUME IInv, NEW c \in Calls, ResolveInWork(c)
    PROVE  IInv'
  <1> USE DEF IInv, ResolveInWork, At, Works
  <1>0. StoreP!IInv' /\ Store!TypeOK' /\ UNCHANGED storeVars
    BY StoreStays, StoreTyped DEF storeVars, StoreP!IInv, TypeOK, Store!TypeOK
  <1>1. TypeOK'
    BY <1>0, TenantKeyIsKey DEF TypeOK, Call, Keys, Tools, Answers
  <1>2. Consistent'
    BY DEF TypeOK, Call, Consistent, Tools, Answers
  <1>3. ReservationsAreHeld'
    BY DEF TypeOK, Call, Consistent, ReservationsAreHeld, HoldsBuild, HoldsInstall, Tools, Answers
  <1>4. RecordsAreOpen'
    BY <1>0 DEF TypeOK, Call, Consistent, RecordsAreOpen, Recorded, storeVars, Tools, Answers
  <1>5. KeysAreCurrent'
    BY DEF TypeOK, Call, Consistent, KeysAreCurrent, TenantKey
  <1> QED BY <1>0, <1>1, <1>2, <1>3, <1>4, <1>5

LEMMA EndBuildPreserves ==
    ASSUME IInv, NEW c \in Calls, EndBuild(c)
    PROVE  IInv'
  <1> USE DEF IInv, EndBuild, At, Works, WorkCancelled
  <1>0. StoreP!IInv' /\ Store!TypeOK' /\ UNCHANGED storeVars
    BY StoreStays, StoreTyped DEF storeVars, StoreP!IInv, TypeOK, Store!TypeOK
  <1>1. TypeOK'
    <2>1. PICK aborted \in {FALSE} \cup {WorkCancelled(c)} :
            calls' = [calls EXCEPT ![c].work = "ended", ![c].aborted = aborted]
      OBVIOUS
    <2>2. aborted \in BOOLEAN
      BY DEF WorkCancelled
    <2>3. calls \in [Calls -> Call]
      BY DEF TypeOK
    <2>4. [calls[c] EXCEPT !.work = "ended", !.aborted = aborted] \in Call
      BY <2>2, <2>3 DEF Call
    <2>5. calls' \in [Calls -> Call]
      BY <2>1, <2>3, <2>4
    <2> QED BY <1>0, <2>5 DEF TypeOK
  <1>2. Consistent'
    BY DEF TypeOK, Call, Consistent, Tools, Answers
  <1>3. ReservationsAreHeld'
    BY DEF TypeOK, Call, Consistent, ReservationsAreHeld, HoldsBuild, HoldsInstall, Tools, Answers
  <1>4. RecordsAreOpen'
    BY <1>0 DEF TypeOK, Call, Consistent, RecordsAreOpen, Recorded, storeVars, Tools, Answers
  <1>5. KeysAreCurrent'
    BY DEF TypeOK, Call, Consistent, KeysAreCurrent, TenantKey
  <1> QED BY <1>0, <1>1, <1>2, <1>3, <1>4, <1>5

LEMMA ReleasePreserves ==
    ASSUME IInv, NEW c \in Calls, Release(c)
    PROVE  IInv'
  <1> USE DEF IInv, Release, At, Works, WorkReturned, ReleasedKey
  <1>0. StoreP!IInv' /\ Store!TypeOK' /\ UNCHANGED storeVars
    BY StoreStays, StoreTyped DEF storeVars, StoreP!IInv, TypeOK, Store!TypeOK
  <1>1. TypeOK'
    <2>1. calls' \in [Calls -> Call]
      BY DEF TypeOK, Call
    <2>2. builds' \subseteq Keys /\ installs' \subseteq Keys
      BY DEF TypeOK
    <2> QED BY <1>0, <2>1, <2>2 DEF TypeOK
  <1>2. Consistent'
    BY DEF TypeOK, Call, Consistent, Tools, Answers
  <1>3. ReservationsAreHeld'
    BY DEF TypeOK, Call, Consistent, ReservationsAreHeld, HoldsBuild, HoldsInstall, Tools, Answers
  <1>4. RecordsAreOpen'
    BY <1>0 DEF TypeOK, Call, Consistent, RecordsAreOpen, Recorded, storeVars, Tools, Answers
  <1>5. KeysAreCurrent'
    BY DEF TypeOK, Call, Consistent, KeysAreCurrent, TenantKey
  <1> QED BY <1>0, <1>1, <1>2, <1>3, <1>4, <1>5

LEMMA AnswerPreserves ==
    ASSUME IInv, NEW c \in Calls, Answer(c)
    PROVE  IInv'
  <1> USE DEF IInv, Answer, At, Works
  <1>0. StoreP!IInv' /\ Store!TypeOK' /\ UNCHANGED storeVars
    BY StoreStays, StoreTyped DEF storeVars, StoreP!IInv, TypeOK, Store!TypeOK
  <1>1. TypeOK'
    BY <1>0, TenantKeyIsKey DEF TypeOK, Call, Keys, Tools, Answers
  <1>2. Consistent'
    BY DEF TypeOK, Call, Consistent, Tools, Answers
  <1>3. ReservationsAreHeld'
    BY DEF TypeOK, Call, Consistent, ReservationsAreHeld, HoldsBuild, HoldsInstall, Tools, Answers
  <1>4. RecordsAreOpen'
    BY <1>0 DEF TypeOK, Call, Consistent, RecordsAreOpen, Recorded, storeVars, Tools, Answers
  <1>5. KeysAreCurrent'
    BY DEF TypeOK, Call, Consistent, KeysAreCurrent, TenantKey
  <1> QED BY <1>0, <1>1, <1>2, <1>3, <1>4, <1>5

LEMMA BeginCompilePreserves ==
    ASSUME IInv, NEW c \in Calls, BeginCompile(c)
    PROVE  IInv'
  <1> USE DEF IInv, BeginCompile, At, Works
  <1>1. calls[c].key \in Keys /\ HoldsBuild(c)
    BY DEF TypeOK, Call, HoldsBuild
  <1>2. StoreP!BeginEffect(calls[c].key)
    BY <1>1, StoreBegins
  <1>3. StoreP!IInv'
    BY <1>1, <1>2, StoreAssumed, StoreP!BeginPreserves
  <1>4. calls' = [calls EXCEPT ![c].op = begun + 1, ![c].handler = "waiting", ![c].work = "started"]
        /\ UNCHANGED <<settings, edits, builds, installs>>
    OBVIOUS
  <1> HIDE DEF BeginCompile
  <1>5. TypeOK'
    <2>1. begun + 1 \in Nat
      BY DEF StoreP!IInv, StoreP!TypeOK
    <2>2. calls \in [Calls -> Call]
      BY DEF TypeOK
    <2>3. [calls[c] EXCEPT !.op = begun + 1, !.handler = "waiting", !.work = "started"] \in Call
      BY <2>1, <2>2 DEF Call
    <2>4. calls' = [calls EXCEPT
             ![c] = [calls[c] EXCEPT !.op = begun + 1, !.handler = "waiting", !.work = "started"]]
      BY <1>4
    <2>5. calls' \in [Calls -> Call]
      BY <2>2, <2>3, <2>4
    <2>6. Store!TypeOK'
      BY <1>3, StoreTyped DEF StoreP!IInv
    <2> QED BY <1>4, <2>5, <2>6 DEF TypeOK
  <1>6. Consistent'
    BY <1>4 DEF TypeOK, Call, Consistent, BeginCompile
  <1>7. ReservationsAreHeld'
    <2>1. \A d \in Calls \ {c} : calls'[d] = calls[d]
      BY <1>4 DEF TypeOK
    <2>2. calls'[c].key = calls[c].key /\ HoldsBuild(c)' /\ ~HoldsInstall(c) /\ ~HoldsInstall(c)'
      BY <1>4 DEF TypeOK, Call, HoldsBuild, HoldsInstall, BeginCompile
    <2> QED BY <1>1, <1>4, <2>1, <2>2, SameHolders DEF HoldsBuild, HoldsInstall
  <1>8. RecordsAreOpen'
    <2>1. PICK stay \in SUBSET DOMAIN records :
            /\ {id \in DOMAIN records : records[id].status = "running"} \subseteq stay
            /\ records' = [i \in stay \cup {begun + 1} |->
                  IF i = begun + 1
                  THEN [tenant |-> calls[c].key, status |-> "running", activity |-> now]
                  ELSE records[i]]
            /\ latest' = [u \in Keys |->
                  IF u = calls[c].key THEN begun + 1
                  ELSE IF latest[u] \in DOMAIN records \ stay THEN 0 ELSE latest[u]]
      BY <1>2 DEF StoreP!BeginEffect
    <2>2. open' = open \cup {begun + 1} /\ begun + 1 \notin open
      BY <1>2 DEF StoreP!BeginEffect, StoreP!IInv, StoreP!TypeOK
    <2> SUFFICES ASSUME NEW d \in Calls, Recorded(d)'
                 PROVE  /\ calls'[d].op \in open'
                        /\ records'[calls'[d].op].tenant = calls'[d].key
                        /\ latest'[calls'[d].key] = calls'[d].op
      BY DEF RecordsAreOpen
    <2>3. CASE d = c
      <3>1. calls'[c].op = begun + 1 /\ calls'[c].key = calls[c].key
        BY <1>4 DEF TypeOK, Call
      <3> QED BY <2>1, <2>2, <2>3, <3>1, <1>1
    <2>4. CASE d # c
      <3>1. calls'[d] = calls[d] /\ Recorded(d)
        BY <2>4, <1>4 DEF TypeOK, Recorded, BeginCompile
      <3>2. HoldsBuild(d)
        BY <3>1 DEF Recorded, HoldsBuild
      <3>3. calls[d].key # calls[c].key /\ calls[d].key \in Keys
        BY <1>1, <2>4, <3>2 DEF ReservationsAreHeld, TypeOK, Call
      <3>4. /\ calls[d].op \in open
            /\ records[calls[d].op].tenant = calls[d].key
            /\ latest[calls[d].key] = calls[d].op
        BY <3>1 DEF RecordsAreOpen
      <3>5. calls[d].op \in stay /\ calls[d].op # begun + 1
        BY <3>4, <2>1, <2>2 DEF StoreP!IInv, StoreP!OpenIsTracked, StoreP!Running
      <3> QED BY <2>1, <2>2, <3>1, <3>3, <3>4, <3>5
    <2> QED BY <2>3, <2>4
  <1>9. KeysAreCurrent'
    BY <1>4 DEF TypeOK, Call, Consistent, KeysAreCurrent, TenantKey, BeginCompile
  <1> QED BY <1>3, <1>5, <1>6, <1>7, <1>8, <1>9

LEMMA FinishCompilePreserves ==
    ASSUME IInv, NEW c \in Calls, FinishCompile(c)
    PROVE  IInv'
  <1> USE DEF IInv, FinishCompile, FinishDue, At, Works
  <1>1. Recorded(c) /\ calls[c].op \in open
    BY DEF Recorded, RecordsAreOpen
  <1>2. StoreP!Finish(calls[c].op)
    BY DEF Store!Finish, StoreP!Finish
  <1>3. StoreP!IInv'
    BY <1>1, <1>2, StoreAssumed, StoreP!FinishPreserves
  <1>4. calls' = [calls EXCEPT ![c].work = "finished"]
        /\ UNCHANGED <<settings, edits, builds, installs>>
    OBVIOUS
  <1>5. TypeOK'
    <2>1. calls' \in [Calls -> Call]
      BY <1>4 DEF TypeOK, Call
    <2>2. Store!TypeOK'
      BY <1>3, StoreTyped DEF StoreP!IInv
    <2> QED BY <1>4, <2>1, <2>2 DEF TypeOK
  <1>6. Consistent'
    BY <1>4 DEF TypeOK, Call, Consistent
  <1>7. ReservationsAreHeld'
    <2>1. \A d \in Calls \ {c} : calls'[d] = calls[d]
      BY <1>4 DEF TypeOK
    <2>2. /\ calls'[c].key = calls[c].key /\ HoldsBuild(c) /\ HoldsBuild(c)'
          /\ ~HoldsInstall(c) /\ ~HoldsInstall(c)'
      BY <1>4 DEF TypeOK, Call, HoldsBuild, HoldsInstall
    <2> QED BY <1>4, <2>1, <2>2, SameHolders DEF HoldsBuild, HoldsInstall
  <1>8. RecordsAreOpen'
    <2> SUFFICES ASSUME NEW d \in Calls, Recorded(d)'
                 PROVE  /\ calls'[d].op \in open'
                        /\ records'[calls'[d].op].tenant = calls'[d].key
                        /\ latest'[calls'[d].key] = calls'[d].op
      BY DEF RecordsAreOpen
    <2>1. d # c /\ calls'[d] = calls[d] /\ Recorded(d)
      BY <1>4 DEF TypeOK, Call, Recorded
    <2>2. /\ calls[d].op \in open
          /\ records[calls[d].op].tenant = calls[d].key
          /\ latest[calls[d].key] = calls[d].op
      BY <2>1 DEF RecordsAreOpen
    <2>3. calls[d].key # calls[c].key
      BY <1>1, <2>1 DEF ReservationsAreHeld, Recorded, HoldsBuild
    <2>4. calls[d].op # calls[c].op
      BY <1>1, <2>2, <2>3 DEF RecordsAreOpen
    <2>5. open' = open \ {calls[c].op} /\ latest' = latest
          /\ records' = [i \in DOMAIN records \cup {calls[c].op} |->
                IF i # calls[c].op THEN records[i]
                ELSE [tenant |-> IF calls[c].op \in DOMAIN records
                                 THEN records[calls[c].op].tenant ELSE NoTenant,
                      status |-> "finished", activity |-> now]]
      BY <1>2 DEF StoreP!Finish
    <2>6. calls[d].op \in DOMAIN records
      BY <2>2 DEF StoreP!IInv, StoreP!OpenIsTracked
    <2> QED BY <2>1, <2>2, <2>4, <2>5, <2>6
  <1>9. KeysAreCurrent'
    BY <1>4 DEF TypeOK, Call, KeysAreCurrent, TenantKey
  <1> QED BY <1>3, <1>5, <1>6, <1>7, <1>8, <1>9

LEMMA EditSettingsPreserves == IInv /\ EditSettings => IInv'
  <1> SUFFICES ASSUME IInv, EditSettings
               PROVE  IInv'
    OBVIOUS
  <1> USE DEF IInv, EditSettings
  <1>1. StoreP!IInv' /\ Store!TypeOK' /\ UNCHANGED <<storeVars, calls, builds, installs>>
    BY StoreStays, StoreTyped DEF storeVars, StoreP!IInv, TypeOK, Store!TypeOK
  <1>2. TypeOK'
    BY <1>1 DEF TypeOK
  <1>3. KeysAreCurrent'
    BY DEF TypeOK, KeysAreCurrent
  <1> HIDE DEF EditSettings
  <1> QED BY <1>1, <1>2, <1>3 DEF Consistent, ReservationsAreHeld, HoldsBuild, HoldsInstall,
          At, Works, RecordsAreOpen, Recorded, storeVars

LEMMA TickPreserves == IInv /\ Tick => IInv'
  <1> SUFFICES ASSUME IInv, Tick
               PROVE  IInv'
    OBVIOUS
  <1>1. StoreP!Tick /\ UNCHANGED <<records, latest, open>> /\ UNCHANGED callVars
    BY DEF Tick, Store!Tick, StoreP!Tick
  <1>2. StoreP!IInv'
    BY <1>1, StoreAssumed, StoreP!StepPreserves DEF StoreP!Next, IInv
  <1>3. TypeOK'
    BY <1>1, <1>2, StoreTyped DEF callVars, IInv, TypeOK, StoreP!IInv
  <1> QED BY <1>1, <1>2, <1>3 DEF callVars, IInv, Consistent, ReservationsAreHeld, HoldsBuild,
          HoldsInstall, At, Works, RecordsAreOpen, Recorded,
          KeysAreCurrent, TenantKey

LEMMA InitEstablishes == Init => IInv
  <1> SUFFICES ASSUME Init
               PROVE  IInv
    OBVIOUS
  <1>1. StoreP!IInv
    <2>1. StoreP!Init
      BY DEF Init, Store!Init, StoreP!Init
    <2> QED BY <2>1, StoreAssumed, StoreP!InitEstablishes
  <1>2. PICK tool \in [Calls -> Tools], name \in [Calls -> Names] :
          calls = [c \in Calls |->
             [tool |-> tool[c], name |-> name[c], key |-> name[c], client |-> NoTarget,
              op |-> 0, handler |-> "idle", work |-> "none", aborted |-> FALSE]]
    BY DEF Init
  <1>3. calls \in [Calls -> Call]
    BY <1>2 DEF Call, Keys
  <1>4. TypeOK
    BY <1>1, <1>3, StoreTyped DEF Init, TypeOK, StoreP!IInv
  <1>5. Consistent /\ RecordsAreOpen /\ KeysAreCurrent
    BY <1>2 DEF Consistent, RecordsAreOpen, Recorded, KeysAreCurrent
  <1>6. ReservationsAreHeld
    <2>1. \A c \in Calls : ~HoldsBuild(c) /\ ~HoldsInstall(c)
      BY <1>2 DEF HoldsBuild, HoldsInstall, At, Works
    <2> QED BY <2>1 DEF ReservationsAreHeld, Init
  <1> QED BY <1>1, <1>4, <1>5, <1>6 DEF IInv

LEMMA StepPreserves == IInv /\ [Next]_vars => IInv'
  <1> SUFFICES ASSUME IInv, [Next]_vars
               PROVE  IInv'
    OBVIOUS
  <1>1. CASE \E c \in Calls : HandlerStep(c)
    BY <1>1, ReadKeyPreserves, ResolveInstallPreserves, ReserveCompilePreserves,
       BeginCompilePreserves, ReserveInstallPreserves, StartMigratorPreserves,
       AnswerPreserves DEF HandlerStep
  <1>2. CASE \E c \in Calls : WorkStep(c)
    BY <1>2, ReserveMigratorPreserves, ResolveInWorkPreserves, EndBuildPreserves,
       FinishCompilePreserves, ReleasePreserves DEF WorkStep
  <1>3. CASE EditSettings
    BY <1>3, EditSettingsPreserves
  <1>4. CASE Tick
    BY <1>4, TickPreserves
  <1>5. CASE UNCHANGED vars
    <2>1. UNCHANGED <<settings, edits, builds, installs, calls>> /\ UNCHANGED storeVars
      BY <1>5 DEF vars, storeVars
    <2>2. StoreP!IInv' /\ Store!TypeOK'
      BY <2>1, StoreStays, StoreTyped DEF IInv, StoreP!IInv
    <2> QED BY <2>1, <2>2 DEF IInv, TypeOK, Consistent, ReservationsAreHeld, HoldsBuild,
            HoldsInstall, At, Works, RecordsAreOpen, Recorded,
            KeysAreCurrent, TenantKey, storeVars
  <1> QED BY <1>1, <1>2, <1>3, <1>4, <1>5 DEF Next, AllOver

\* The inductive invariant holds in every state the tools reach.
THEOREM Invariant == Spec => []IInv
  BY InitEstablishes, StepPreserves, PTL DEF Spec

\* Every reachable state is well formed (tool_pkg_write_compile.go:33-36,
\* operations.go:153-174).
THEOREM TypeCorrect == Spec => []TypeOK
  BY Invariant, PTL DEF IInv

\* Every reservation is held by exactly one call, however many calls there
\* are and however often the settings change (tool_pkg_write_compile.go:33-52).
THEOREM NoReservationLeaks == Spec => []ReservationsAreHeld
  BY Invariant, PTL DEF IInv

\* compile-status without an operation id answers a running compile with its
\* own record (tool_pkg_write_compile.go:181-222, operations.go:242-254).
THEOREM PollingFinds == Spec => []PollFindsTheCompile
  <1>1. IInv => PollFindsTheCompile
    <2> SUFFICES ASSUME IInv, NEW c \in Calls, Recorded(c)
                 PROVE  /\ latest[calls[c].key] = calls[c].op
                        /\ Store!LookupFinds(calls[c].key)
                        /\ Store!Running(calls[c].op)
      BY DEF PollFindsTheCompile
    <2>1. /\ calls[c].op \in open
          /\ records[calls[c].op].tenant = calls[c].key
          /\ latest[calls[c].key] = calls[c].op
      BY DEF IInv, RecordsAreOpen
    <2>2. calls[c].op \in DOMAIN records /\ records[calls[c].op].status = "running"
      BY <2>1 DEF IInv, StoreP!IInv, StoreP!OpenIsTracked, StoreP!Running
    <2> QED BY <2>1, <2>2 DEF Store!LookupFinds, Store!Running
  <1> QED BY <1>1, Invariant, PTL

\* Without edits of the settings a target gets one compile or migrator build
\* at a time (tool_pkg_write_compile.go:38-52 and 194-195).
THEOREM OneBuildPerKey == Spec => []OneBuildWhileSettingsStay
  <1>1. IInv => OneBuildWhileSettingsStay
    BY DEF IInv, KeysAreCurrent, Consistent, ReservationsAreHeld, HoldsBuild, BuildsNow,
       OneBuildWhileSettingsStay
  <1> QED BY <1>1, Invariant, PTL

------------------------------------------------------------------------------
\* Both instances of the store mean the same by a begin.
LEMMA StoreBeginsAlike ==
    ASSUME NEW t \in Keys, Store!Begin(t)
    PROVE  StoreP!Begin(t)
  <1>1. \A S : Store!Cardinality(S) = StoreP!Cardinality(S)
    BY DEF Store!Cardinality, StoreP!Cardinality
  <1>2. \A kept : Store!VictimSets(kept) = StoreP!VictimSets(kept)
    BY <1>1 DEF Store!VictimSets, StoreP!VictimSets, Store!Running, StoreP!Running,
       Store!Excess, StoreP!Excess
  <1>3. {i \in DOMAIN records : ~Store!Idle(i)} = {i \in DOMAIN records : ~StoreP!Idle(i)}
    BY DEF Store!Idle, StoreP!Idle, Store!Running, StoreP!Running
  <1>4. \A u, removed : Store!LatestAfter(u, removed) = StoreP!LatestAfter(u, removed)
    BY DEF Store!LatestAfter, StoreP!LatestAfter
  <1> QED BY <1>2, <1>3, <1>4 DEF Store!Begin, StoreP!Begin

\* A step of the long tools is one call of the store, or none.
LEMMA StepIsStoreStep ==
    ASSUME IInv, [Next]_vars
    PROVE  [StoreP!Next]_(StoreP!vars)
  <1> USE DEF StoreP!vars, storeVars
  <1>1. ASSUME NEW c \in Calls, BeginCompile(c) PROVE StoreP!Next
    <2>1. calls[c].key \in Keys
      BY DEF IInv, TypeOK, Call
    <2> QED BY <1>1, <2>1, StoreBeginsAlike DEF BeginCompile, StoreP!Next
  <1>2. ASSUME NEW c \in Calls, FinishCompile(c) PROVE StoreP!Next
    BY <1>2 DEF FinishCompile, Store!Finish, StoreP!Finish, StoreP!Next
  <1>3. ASSUME NEW c \in Calls, HandlerStep(c), ~BeginCompile(c) PROVE UNCHANGED StoreP!vars
    BY <1>3 DEF HandlerStep, ReadKey, ResolveInstall, ReserveCompile, ReserveInstall,
       StartMigrator, Answer
  <1>4. ASSUME NEW c \in Calls, WorkStep(c), ~FinishCompile(c) PROVE UNCHANGED StoreP!vars
    BY <1>4 DEF WorkStep, ReserveMigrator, ResolveInWork, EndBuild, Release
  <1>5. Tick => StoreP!Next
    BY DEF Tick, Store!Tick, StoreP!Tick, StoreP!Next
  <1>6. EditSettings \/ UNCHANGED vars => UNCHANGED StoreP!vars
    BY DEF EditSettings, vars
  <1> QED BY <1>1, <1>2, <1>3, <1>4, <1>5, <1>6 DEF Next, AllOver

\* The tools use the store as OperationStore has it: every call they make of
\* it is a begin under a key, or the finish of an operation that is open
\* (tool_pkg_write_compile.go:38-52 and 181-222, operations.go:153-231).
THEOREM UsesTheStore == Spec => StoreP!Spec
  <1>1. Init => StoreP!Init
    BY DEF Init, Store!Init, StoreP!Init
  <1>2. IInv /\ [Next]_vars => [StoreP!Next]_(StoreP!vars)
    BY StepIsStoreStep
  <1> QED BY <1>1, <1>2, Invariant, PTL DEF Spec, StoreP!Spec

\* So a compile's status leaves the store early only when that is full of
\* other records, and a begin leaves no more than the capacity besides running
\* compiles (operations.go:256-291).
THEOREM StoreKeepsItsPromises ==
    Spec => StoreP!BeginRespectsCapacity /\ StoreP!KeptUnlessFull
  BY UsesTheStore, StoreAssumed, StoreP!CapacityBinds, StoreP!StatusIsKeptItsTime, PTL

------------------------------------------------------------------------------
\* What else the refinement needs: every compile has an operation of its own,
\* which is open no longer than it is recorded, and a result is told last.
OperationsAreOwn ==
    \A c \in Calls :
        /\ calls[c].op \in 0..begun
        /\ calls[c].work = "none" => calls[c].op = 0
        /\ calls[c].op \in open => Recorded(c)
        /\ calls[c].handler = "result" => calls[c].work = "sent"
        /\ \A d \in Calls : c # d /\ calls[c].op # 0 => calls[d].op # calls[c].op

\* A step of one call that begins and finishes no operation keeps it, when the
\* call is recorded before and after or neither.
LEMMA OperationsStay ==
    ASSUME IInv, OperationsAreOwn, NEW c \in Calls, UNCHANGED <<open, begun>>,
           NEW new \in Call, calls' = [calls EXCEPT ![c] = new],
           new.op = calls[c].op, Recorded(c)' <=> Recorded(c),
           new.work = "none" => calls[c].work = "none",
           new.handler = "result" => new.work = "sent"
    PROVE  OperationsAreOwn'
  <1>1. \A d \in Calls : d # c => calls'[d] = calls[d] /\ (Recorded(d)' <=> Recorded(d))
    BY DEF IInv, TypeOK, Recorded
  <1>2. calls'[c] = new
    BY DEF IInv, TypeOK
  <1> QED BY <1>1, <1>2 DEF OperationsAreOwn

LEMMA HandlerKeepsOperations ==
    ASSUME IInv, OperationsAreOwn, NEW c \in Calls, HandlerStep(c)
    PROVE  OperationsAreOwn'
  <1> USE DEF At
  <1>0. calls \in [Calls -> Call] /\ calls[c] \in Call
    BY DEF IInv, TypeOK
  <1>1. CASE ReadKey(c)
    <2>1. /\ calls' = [calls EXCEPT ![c] =
                [calls[c] EXCEPT !.key = TenantKey(calls[c].name), !.handler = "keyed"]]
          /\ UNCHANGED <<open, begun>>
      BY <1>0, <1>1 DEF ReadKey, storeVars
    <2>2. [calls[c] EXCEPT !.key = TenantKey(calls[c].name), !.handler = "keyed"] \in Call
      BY <1>0, TenantKeyIsKey DEF IInv, Call
    <2>3. Recorded(c)' <=> Recorded(c)
      BY <1>0, <2>1 DEF Recorded, Call
    <2> QED BY <1>0, <2>1, <2>2, <2>3, OperationsStay DEF Call
  <1>2. CASE ResolveInstall(c)
    <2> DEFINE answer == IF settings[calls[c].name] = NoTarget THEN "refused" ELSE "resolved"
    <2>1. /\ calls' = [calls EXCEPT ![c] =
                [calls[c] EXCEPT !.client = settings[calls[c].name], !.handler = answer]]
          /\ UNCHANGED <<open, begun>>
      BY <1>0, <1>2 DEF ResolveInstall, storeVars
    <2>2. [calls[c] EXCEPT !.client = settings[calls[c].name], !.handler = answer] \in Call
      BY <1>0 DEF IInv, TypeOK, Call, Answers
    <2>3. Recorded(c)' <=> Recorded(c)
      BY <1>0, <2>1 DEF Recorded, Call
    <2> QED BY <1>0, <2>1, <2>2, <2>3, OperationsStay DEF Call
  <1>3. CASE ReserveCompile(c)
    <2>1. PICK answer \in {"reserved", "busy"} :
             /\ calls' = [calls EXCEPT ![c] = [calls[c] EXCEPT !.handler = answer]]
             /\ UNCHANGED <<open, begun>>
      BY <1>0, <1>3 DEF ReserveCompile, storeVars
    <2>2. [calls[c] EXCEPT !.handler = answer] \in Call
      BY <1>0 DEF Call, Answers
    <2>3. Recorded(c)' <=> Recorded(c)
      BY <1>0, <2>1 DEF Recorded, Call
    <2> QED BY <1>0, <2>1, <2>2, <2>3, OperationsStay DEF Call
  <1>4. CASE BeginCompile(c)
    <2>1. calls' = [calls EXCEPT ![c] = [calls[c] EXCEPT
             !.op = begun + 1, !.handler = "waiting", !.work = "started"]]
          /\ begun' = begun + 1 /\ open' = open \cup {begun + 1} /\ begun \in Nat
          /\ calls[c].tool = "compile"
      BY <1>0, <1>4 DEF BeginCompile, Store!Begin, IInv, TypeOK, Store!TypeOK
    <2>2. \A d \in Calls : d # c => calls'[d] = calls[d] /\ (Recorded(d)' <=> Recorded(d))
      BY <1>0, <2>1 DEF Recorded
    <2>3. /\ calls'[c].op = begun + 1 /\ calls'[c].handler = "waiting"
          /\ calls'[c].work = "started" /\ Recorded(c)'
      BY <1>0, <2>1 DEF Recorded, Call
    <2> QED BY <2>1, <2>2, <2>3 DEF OperationsAreOwn
  <1>5. CASE ReserveInstall(c)
    <2>1. PICK answer \in {"waiting", "busy"}, work \in {"building", calls[c].work} :
             /\ calls' = [calls EXCEPT ![c] = [calls[c] EXCEPT !.handler = answer, !.work = work]]
             /\ UNCHANGED <<open, begun>> /\ calls[c].tool = "install"
      <3>1. CASE CanReserve(installs, calls[c].key)
        BY <1>0, <1>5, <3>1 DEF ReserveInstall, storeVars, Call
      <3>2. CASE ~CanReserve(installs, calls[c].key)
        <4>1. calls' = [calls EXCEPT ![c] = [calls[c] EXCEPT !.handler = "busy"]]
              /\ UNCHANGED <<open, begun>> /\ calls[c].tool = "install"
          BY <1>0, <1>5, <3>2 DEF ReserveInstall, storeVars
        <4>2. [calls[c] EXCEPT !.handler = "busy"]
                 = [calls[c] EXCEPT !.handler = "busy", !.work = calls[c].work]
          BY <1>0 DEF Call
        <4> QED BY <4>1, <4>2
      <3> QED BY <3>1, <3>2
    <2>2. [calls[c] EXCEPT !.handler = answer, !.work = work] \in Call
      BY <1>0 DEF Call, Answers
    <2>3. Recorded(c)' <=> Recorded(c)
      BY <1>0, <2>1 DEF Recorded, Call
    <2> QED BY <1>0, <2>1, <2>2, <2>3, OperationsStay DEF Call
  <1>6. CASE StartMigrator(c)
    <2>1. /\ calls' = [calls EXCEPT ![c] =
                [calls[c] EXCEPT !.handler = "waiting", !.work = "unreserved"]]
          /\ UNCHANGED <<open, begun>> /\ calls[c].tool = "migrator"
      BY <1>0, <1>6 DEF StartMigrator, storeVars
    <2>2. [calls[c] EXCEPT !.handler = "waiting", !.work = "unreserved"] \in Call
      BY <1>0 DEF Call
    <2>3. Recorded(c)' <=> Recorded(c)
      BY <1>0, <2>1 DEF Recorded, Call
    <2> QED BY <1>0, <2>1, <2>2, <2>3, OperationsStay DEF Call
  <1>7. CASE Answer(c)
    <2>1. PICK answer \in {"result", "inprogress", "cancelled"} :
             /\ calls' = [calls EXCEPT ![c] = [calls[c] EXCEPT !.handler = answer]]
             /\ answer = "result" => calls[c].work = "sent"
             /\ UNCHANGED <<open, begun>>
      BY <1>0, <1>7 DEF Answer, storeVars
    <2>2. [calls[c] EXCEPT !.handler = answer] \in Call
      BY <1>0 DEF Call, Answers
    <2>3. Recorded(c)' <=> Recorded(c)
      BY <1>0, <2>1 DEF Recorded, Call
    <2> QED BY <1>0, <2>1, <2>2, <2>3, OperationsStay DEF Call
  <1> QED BY <1>1, <1>2, <1>3, <1>4, <1>5, <1>6, <1>7 DEF HandlerStep

LEMMA WorkKeepsOperations ==
    ASSUME IInv, OperationsAreOwn, NEW c \in Calls, WorkStep(c)
    PROVE  OperationsAreOwn'
  <1> USE DEF Works
  <1>0. calls \in [Calls -> Call] /\ calls[c] \in Call
    BY DEF IInv, TypeOK
  <1>1. CASE ReserveMigrator(c)
    <2>1. PICK work \in {"started", "sent"} :
             /\ calls' = [calls EXCEPT ![c] = [calls[c] EXCEPT !.work = work]]
             /\ UNCHANGED <<open, begun>>
             /\ calls[c].tool = "migrator" /\ calls[c].work = "unreserved"
      BY <1>0, <1>1 DEF ReserveMigrator, storeVars
    <2>2. [calls[c] EXCEPT !.work = work] \in Call
      BY <1>0 DEF Call
    <2>3. (Recorded(c)' <=> Recorded(c)) /\ calls[c].handler # "result"
      BY <1>0, <2>1 DEF Recorded, Call, OperationsAreOwn
    <2> QED BY <1>0, <2>1, <2>2, <2>3, OperationsStay DEF Call
  <1>2. CASE ResolveInWork(c)
    <2> DEFINE work == IF settings[calls[c].name] = NoTarget THEN "ended" ELSE "building"
    <2>1. /\ calls' = [calls EXCEPT ![c] =
                [calls[c] EXCEPT !.client = settings[calls[c].name], !.work = work]]
          /\ UNCHANGED <<open, begun>> /\ calls[c].work = "started"
      BY <1>0, <1>2 DEF ResolveInWork, storeVars
    <2>2. [calls[c] EXCEPT !.client = settings[calls[c].name], !.work = work] \in Call
      BY <1>0 DEF IInv, TypeOK, Call
    <2>3. (Recorded(c)' <=> Recorded(c)) /\ calls[c].handler # "result"
      BY <1>0, <2>1 DEF Recorded, Call, OperationsAreOwn
    <2> QED BY <1>0, <2>1, <2>2, <2>3, OperationsStay DEF Call
  <1>3. CASE EndBuild(c)
    <2>1. PICK aborted \in BOOLEAN :
             /\ calls' = [calls EXCEPT ![c] =
                   [calls[c] EXCEPT !.work = "ended", !.aborted = aborted]]
             /\ UNCHANGED <<open, begun>> /\ calls[c].work = "building"
      BY <1>0, <1>3 DEF EndBuild, WorkCancelled, storeVars
    <2>2. [calls[c] EXCEPT !.work = "ended", !.aborted = aborted] \in Call
      BY <1>0 DEF Call
    <2>3. (Recorded(c)' <=> Recorded(c)) /\ calls[c].handler # "result"
      BY <1>0, <2>1 DEF Recorded, Call, OperationsAreOwn
    <2> QED BY <1>0, <2>1, <2>2, <2>3, OperationsStay DEF Call
  <1>4. CASE FinishCompile(c)
    <2>1. calls' = [calls EXCEPT ![c] = [calls[c] EXCEPT !.work = "finished"]]
          /\ begun' = begun /\ open' = open \ {calls[c].op} /\ calls[c].work = "ended"
      BY <1>0, <1>4 DEF FinishCompile, FinishDue, Store!Finish
    <2>2. \A d \in Calls : d # c => calls'[d] = calls[d] /\ (Recorded(d)' <=> Recorded(d))
      BY <1>0, <2>1 DEF Recorded
    <2>3. calls'[c].op = calls[c].op /\ calls'[c].work = "finished"
          /\ calls'[c].handler = calls[c].handler
      BY <1>0, <2>1 DEF Call
    <2> QED BY <2>1, <2>2, <2>3 DEF OperationsAreOwn
  <1>5. CASE Release(c)
    <2>1. /\ calls' = [calls EXCEPT ![c] = [calls[c] EXCEPT !.work = "sent"]]
          /\ UNCHANGED <<open, begun>>
          /\ calls[c].tool # "compile" \/ calls[c].work = "finished"
          /\ calls[c].work # "none"
      BY <1>0, <1>5 DEF Release, WorkReturned, storeVars
    <2>2. [calls[c] EXCEPT !.work = "sent"] \in Call
      BY <1>0 DEF Call
    <2>3. Recorded(c)' <=> Recorded(c)
      BY <1>0, <2>1 DEF Recorded, Call
    <2> QED BY <1>0, <2>1, <2>2, <2>3, OperationsStay DEF Call
  <1> QED BY <1>1, <1>2, <1>3, <1>4, <1>5 DEF WorkStep

LEMMA OperationsPreserved == IInv /\ OperationsAreOwn /\ [Next]_vars => OperationsAreOwn'
  <1> SUFFICES ASSUME IInv, OperationsAreOwn, [Next]_vars
               PROVE  OperationsAreOwn'
    OBVIOUS
  <1>1. ASSUME UNCHANGED <<calls, open, begun>> PROVE OperationsAreOwn'
    BY <1>1 DEF OperationsAreOwn, Recorded
  <1>2. EditSettings \/ Tick \/ UNCHANGED vars => UNCHANGED <<calls, open, begun>>
    BY DEF EditSettings, Tick, Store!Tick, callVars, storeVars, vars
  <1> QED BY <1>1, <1>2, HandlerKeepsOperations, WorkKeepsOperations DEF Next, AllOver

LEMMA OperationsBegin == Init => OperationsAreOwn
  <1> SUFFICES ASSUME Init
               PROVE  OperationsAreOwn
    OBVIOUS
  <1>1. PICK tool \in [Calls -> Tools], name \in [Calls -> Names] :
          calls = [c \in Calls |->
             [tool |-> tool[c], name |-> name[c], key |-> name[c], client |-> NoTarget,
              op |-> 0, handler |-> "idle", work |-> "none", aborted |-> FALSE]]
    BY DEF Init
  <1>2. begun = 0 /\ open = {}
    BY DEF Init, Store!Init
  <1> QED BY <1>1, <1>2 DEF OperationsAreOwn

\* A step that gives or takes no key is not seen in who holds what.
LEMMA HeldStays ==
    ASSUME \A d \in Calls : /\ HoldsBuild(d)' <=> HoldsBuild(d)
                            /\ HoldsBuild(d) => calls'[d].key = calls[d].key
    PROVE  Held' = Held
  <1> DEFINE H == {d \in Calls : HoldsBuild(d)}
  <1>1. H' = H
    OBVIOUS
  <1>2. {<<calls[d].key, d>> : d \in H}' = {<<calls[d].key, d>> : d \in H}
    BY <1>1
  <1> QED BY <1>2 DEF Held

\* A step that leaves the store and the calls' operations alone is not seen in
\* what compile-status says.
LEMMA SaysStays ==
    ASSUME UNCHANGED <<records, latest>>,
           \A d \in Calls : /\ calls'[d].op = calls[d].op
                            /\ calls[d].op # 0 => calls'[d].key = calls[d].key
    PROVE  Says' = Says
  <1>1. \A d \in Calls : StatusSays(d)' = StatusSays(d)
    BY DEF StatusSays
  <1> QED BY <1>1 DEF Says

LEMMA ToldStays ==
    ASSUME \A d \in Calls : calls'[d].handler = "result" <=> calls[d].handler = "result"
    PROVE  Told' = Told
  BY DEF Told

\* The pairs of the board are those of the calls that hold a reservation.
LEMMA HeldIs ==
    ASSUME NEW k, NEW c \in Calls
    PROVE  /\ <<k, c>> \in Held <=> HoldsBuild(c) /\ k = calls[c].key
           /\ Board!Holds(c) <=> HoldsBuild(c) /\ calls[c].key \in Keys
  BY DEF Held, Board!Holds

\* What compile-status calls running is a compile that is recorded.
LEMMA RunningIsRecorded ==
    ASSUME IInv, OperationsAreOwn, NEW c \in Calls, Says[c] = "running"
    PROVE  Recorded(c)
  <1>1. /\ calls[c].op # 0 /\ latest[calls[c].key] = calls[c].op
        /\ records[calls[c].op].status = "running"
    BY DEF Says, StatusSays
  <1>2. calls[c].key \in Keys
    BY DEF IInv, TypeOK, Call
  <1>3. calls[c].op \in DOMAIN records
    BY <1>1, <1>2 DEF IInv, StoreP!IInv, StoreP!LatestIsNewest, StoreP!LookupFinds
  <1>4. calls[c].op \in open
    BY <1>1, <1>3 DEF IInv, StoreP!IInv, StoreP!OpenIsTracked, StoreP!Running
  <1> QED BY <1>4 DEF OperationsAreOwn

\* A reservation in pkgWriteBuilds is a take on the board.
LEMMA ReserveTakes ==
    ASSUME IInv, NEW c \in Calls, calls[c].key \notin builds, ~HoldsBuild(c), HoldsBuild(c)',
           calls[c].handler # "result", UNCHANGED <<records, latest>>,
           \A d \in Calls : /\ calls'[d].op = calls[d].op
                            /\ calls'[d].key = calls[d].key
                            /\ calls'[d].handler = "result" <=> calls[d].handler = "result"
                            /\ d # c => (HoldsBuild(d)' <=> HoldsBuild(d))
    PROVE  Board!Take(calls[c].key, c)
  <1> DEFINE H == {d \in Calls : HoldsBuild(d)}
  <1>1. H' = H \cup {c}
    OBVIOUS
  <1>2. {<<calls[d].key, d>> : d \in H}'
           = {<<calls[d].key, d>> : d \in H} \cup {<<calls[c].key, c>>}
    BY <1>1
  <1>3. Held' = Held \cup {<<calls[c].key, c>>}
    BY <1>2 DEF Held
  <1>4. \A d \in Calls : <<calls[c].key, d>> \notin Held
    BY HeldIs DEF IInv, ReservationsAreHeld
  <1>5. ~Board!Holds(c) /\ c \notin Told
    BY HeldIs DEF Told
  <1> QED BY <1>3, <1>4, <1>5, SaysStays, ToldStays DEF Board!Take

LEMMA BeginBegins ==
    ASSUME IInv, OperationsAreOwn, NEW c \in Calls, BeginCompile(c)
    PROVE  Board!Begin(c)
  <1> USE DEF At, Works
  <1>0. calls \in [Calls -> Call] /\ calls[c].key \in Keys /\ calls[c].work = "none"
    BY DEF IInv, TypeOK, Call, Consistent, BeginCompile
  <1>1. calls' = [calls EXCEPT ![c] = [calls[c] EXCEPT
             !.op = begun + 1, !.handler = "waiting", !.work = "started"]]
        /\ calls[c].tool = "compile" /\ calls[c].handler = "reserved"
    BY <1>0 DEF BeginCompile
  <1>2. \A d \in Calls : /\ d # c => calls'[d] = calls[d]
                         /\ calls'[d].key = calls[d].key
                         /\ HoldsBuild(d)' <=> HoldsBuild(d)
                         /\ calls'[d].handler = "result" <=> calls[d].handler = "result"
    BY <1>0, <1>1 DEF Call, HoldsBuild
  <1>3. Held' = Held /\ Told' = Told
    BY <1>2, HeldStays, ToldStays
  <1>4. PICK stay \in SUBSET DOMAIN records :
          /\ {id \in DOMAIN records : records[id].status = "running"} \subseteq stay
          /\ records' = [i \in stay \cup {begun + 1} |->
                IF i = begun + 1
                THEN [tenant |-> calls[c].key, status |-> "running", activity |-> now]
                ELSE records[i]]
          /\ latest' = [u \in Keys |->
                IF u = calls[c].key THEN begun + 1
                ELSE IF latest[u] \in DOMAIN records \ stay THEN 0 ELSE latest[u]]
    <2>1. StoreP!BeginEffect(calls[c].key)
      BY <1>0, StoreBegins DEF BeginCompile
    <2> QED BY <2>1 DEF StoreP!BeginEffect
  <1>5. begun \in Nat
    BY DEF IInv, TypeOK, Store!TypeOK
  <1>6. StatusSays(c) = "nothing" /\ StatusSays(c)' = "running"
    <2>1. calls[c].op = 0
      BY <1>0 DEF OperationsAreOwn
    <2>2. calls'[c].op = begun + 1 /\ calls'[c].key = calls[c].key
      BY <1>0, <1>1 DEF Call
    <2>3. latest'[calls[c].key] = begun + 1 /\ records'[begun + 1].status = "running"
      BY <1>0, <1>4
    <2> QED BY <1>5, <2>1, <2>2, <2>3 DEF StatusSays
  <1>7. ASSUME NEW d \in Calls, d # c
        PROVE  \/ StatusSays(d)' = StatusSays(d)
               \/ StatusSays(d) = "finished" /\ StatusSays(d)' = "nothing"
    <2>1. calls'[d] = calls[d] /\ calls[d].op \in 0..begun /\ calls[d].key \in Keys
      BY <1>0, <1>2, <1>7 DEF OperationsAreOwn, Call
    <2>2. CASE calls[d].op = 0 \/ latest[calls[d].key] # calls[d].op
      <3>1. calls[d].op = 0 \/ latest'[calls[d].key] # calls[d].op
        BY <1>4, <1>5, <2>1, <2>2
      <3> QED BY <2>1, <2>2, <3>1 DEF StatusSays
    <2>3. CASE calls[d].op # 0 /\ latest[calls[d].key] = calls[d].op
      <3>1. calls[d].op \in DOMAIN records
        BY <2>1, <2>3 DEF IInv, StoreP!IInv, StoreP!LatestIsNewest, StoreP!LookupFinds
      <3>2. records[calls[d].op].status \in {"running", "finished"}
        BY <3>1 DEF IInv, TypeOK, Store!TypeOK, Store!Record
      <3>3. StatusSays(d) = records[calls[d].op].status
        BY <2>3 DEF StatusSays
      <3>4. calls[d].op # begun + 1
        BY <1>5, <2>1
      <3>5. CASE records[calls[d].op].status = "running"
        <4>1. Recorded(d)
          BY <3>3, <3>5, RunningIsRecorded DEF Says
        <4>2. HoldsBuild(d) /\ HoldsBuild(c)
          BY <1>1, <4>1 DEF Recorded, HoldsBuild
        <4>3. calls[d].key # calls[c].key
          BY <1>7, <4>2 DEF IInv, ReservationsAreHeld
        <4>4. calls[d].op \in stay
          BY <1>4, <3>1, <3>5
        <4>5. latest'[calls[d].key] = calls[d].op
          BY <1>4, <2>1, <2>3, <4>3, <4>4
        <4>6. records'[calls[d].op] = records[calls[d].op]
          BY <1>4, <3>4, <4>4
        <4> QED BY <2>1, <2>3, <3>3, <4>5, <4>6 DEF StatusSays
      <3>6. CASE records[calls[d].op].status = "finished" /\ latest'[calls[d].key] = calls[d].op
        <4>1. calls[d].op \in stay
          BY <1>4, <2>1, <2>3, <3>1, <3>4, <3>6
        <4>2. records'[calls[d].op] = records[calls[d].op]
          BY <1>4, <3>4, <4>1
        <4> QED BY <2>1, <2>3, <3>3, <3>6, <4>2 DEF StatusSays
      <3>7. CASE records[calls[d].op].status = "finished" /\ latest'[calls[d].key] # calls[d].op
        BY <2>1, <3>3, <3>7 DEF StatusSays
      <3> QED BY <3>2, <3>5, <3>6, <3>7
    <2> QED BY <2>2, <2>3
  <1>8. Board!Holds(c)
    BY <1>0, <1>1, HeldIs DEF HoldsBuild
  <1> DEFINE forgotten == {d \in Calls : Says[d] = "finished" /\ Says'[d] = "nothing"}
  <1>9. Says' = [d \in Calls |-> IF d = c THEN "running"
                                 ELSE IF d \in forgotten THEN "nothing" ELSE Says[d]]
    BY <1>6, <1>7 DEF Says
  <1>10. Says[c] = "nothing" /\ forgotten \in SUBSET {d \in Calls : Says[d] = "finished"}
    BY <1>6 DEF Says
  <1> QED BY <1>3, <1>8, <1>9, <1>10 DEF Board!Begin

LEMMA FinishEnds ==
    ASSUME IInv, OperationsAreOwn, NEW c \in Calls, FinishCompile(c)
    PROVE  Board!End(c)
  <1> USE DEF At, Works
  <1>0. calls \in [Calls -> Call] /\ calls[c].key \in Keys
    BY DEF IInv, TypeOK, Call
  <1>1. calls' = [calls EXCEPT ![c] = [calls[c] EXCEPT !.work = "finished"]]
        /\ calls[c].tool = "compile" /\ calls[c].work = "ended"
    BY <1>0 DEF FinishCompile, FinishDue
  <1>2. \A d \in Calls : /\ calls'[d].key = calls[d].key /\ calls'[d].op = calls[d].op
                         /\ HoldsBuild(d)' <=> HoldsBuild(d)
                         /\ calls'[d].handler = "result" <=> calls[d].handler = "result"
    BY <1>0, <1>1 DEF Call, HoldsBuild
  <1>3. Held' = Held /\ Told' = Told
    BY <1>2, HeldStays, ToldStays
  <1>4. /\ latest' = latest
        /\ records' = [i \in DOMAIN records \cup {calls[c].op} |->
              IF i # calls[c].op THEN records[i]
              ELSE [tenant |-> IF calls[c].op \in DOMAIN records
                               THEN records[calls[c].op].tenant ELSE NoTenant,
                    status |-> "finished", activity |-> now]]
    BY DEF FinishCompile, Store!Finish
  <1>5. Recorded(c) /\ calls[c].op \in open /\ latest[calls[c].key] = calls[c].op
    BY <1>1 DEF Recorded, IInv, RecordsAreOpen
  <1>6. calls[c].op # 0
    BY <1>5 DEF IInv, TypeOK, Store!TypeOK
  <1>7. records[calls[c].op].status = "running"
    BY <1>5 DEF IInv, StoreP!IInv, StoreP!OpenIsTracked, StoreP!Running
  <1>8. StatusSays(c) = "running" /\ StatusSays(c)' = "finished"
    BY <1>2, <1>4, <1>5, <1>6, <1>7 DEF StatusSays
  <1>9. ASSUME NEW d \in Calls, d # c PROVE StatusSays(d)' = StatusSays(d)
    <2>1. CASE calls[d].op # 0 /\ latest[calls[d].key] = calls[d].op
      <3>1. calls[d].op # calls[c].op
        BY <1>6, <1>9 DEF OperationsAreOwn
      <3>2. calls[d].key \in Keys
        BY <1>0 DEF Call
      <3>3. calls[d].op \in DOMAIN records
        BY <2>1, <3>2 DEF IInv, StoreP!IInv, StoreP!LatestIsNewest, StoreP!LookupFinds
      <3>4. records'[calls[d].op] = records[calls[d].op]
        BY <1>4, <3>1, <3>3
      <3> QED BY <1>2, <1>4, <3>4 DEF StatusSays
    <2>2. CASE ~(calls[d].op # 0 /\ latest[calls[d].key] = calls[d].op)
      BY <1>2, <1>4, <2>2 DEF StatusSays
    <2> QED BY <2>1, <2>2
  <1>10. Says' = [Says EXCEPT ![c] = "finished"] /\ Says[c] = "running"
    BY <1>8, <1>9 DEF Says
  <1>11. Board!Holds(c)
    BY <1>0, <1>1, HeldIs DEF HoldsBuild
  <1> QED BY <1>3, <1>10, <1>11 DEF Board!End

LEMMA ReleaseGives ==
    ASSUME IInv, OperationsAreOwn, NEW c \in Calls, Release(c), calls[c].tool # "install"
    PROVE  Board!Give(calls[c].key, c)
  <1> USE DEF At, Works
  <1>0. calls \in [Calls -> Call]
    BY DEF IInv, TypeOK
  <1>1. /\ calls' = [calls EXCEPT ![c] = [calls[c] EXCEPT !.work = "sent"]]
        /\ UNCHANGED <<records, latest>>
        /\ calls[c].work \in {"ended", "finished"}
        /\ calls[c].tool = "compile" => calls[c].work = "finished"
    BY <1>0 DEF Release, WorkReturned, storeVars
  <1>2. \A d \in Calls : /\ calls'[d].key = calls[d].key /\ calls'[d].op = calls[d].op
                         /\ d # c => (HoldsBuild(d)' <=> HoldsBuild(d))
                         /\ calls'[d].handler = "result" <=> calls[d].handler = "result"
    BY <1>0, <1>1 DEF Call, HoldsBuild
  <1>3. HoldsBuild(c) /\ ~HoldsBuild(c)' /\ ~Recorded(c)
    BY <1>0, <1>1 DEF Call, HoldsBuild, Recorded, IInv, Consistent
  <1> DEFINE H == {d \in Calls : HoldsBuild(d)}
  <1>4. H' = H \ {c}
    BY <1>2, <1>3
  <1>5. {<<calls[d].key, d>> : d \in H}' = {<<calls[d].key, d>> : d \in H} \ {<<calls[c].key, c>>}
    BY <1>2, <1>4
  <1>6. Held' = Held \ {<<calls[c].key, c>>}
    BY <1>5 DEF Held
  <1>7. Says[c] # "running"
    BY <1>3, RunningIsRecorded
  <1> QED BY <1>1, <1>2, <1>3, <1>6, <1>7, HeldIs, SaysStays, ToldStays DEF Board!Give

\* A result is told to a caller whose work is over.
LEMMA AnswerTells ==
    ASSUME IInv, OperationsAreOwn, NEW c \in Calls, Answer(c)
    PROVE  Board!Tell(c) \/ UNCHANGED Board!vars
  <1> USE DEF At, Works
  <1>0. calls \in [Calls -> Call]
    BY DEF IInv, TypeOK
  <1>1. PICK answer \in {"result", "inprogress", "cancelled"} :
          /\ calls' = [calls EXCEPT ![c] = [calls[c] EXCEPT !.handler = answer]]
          /\ answer = "result" => calls[c].work = "sent"
    BY <1>0 DEF Answer
  <1>2. calls[c].handler = "waiting" /\ UNCHANGED <<records, latest>>
    BY DEF Answer, storeVars
  <1>3. \A d \in Calls : /\ calls'[d].key = calls[d].key /\ calls'[d].op = calls[d].op
                         /\ HoldsBuild(d)' <=> HoldsBuild(d)
                         /\ d # c => calls'[d].handler = calls[d].handler
    BY <1>0, <1>1, <1>2 DEF Call, HoldsBuild
  <1>4. calls'[c].handler = answer
    BY <1>0, <1>1 DEF Call
  <1>5. Held' = Held /\ Says' = Says
    BY <1>2, <1>3, HeldStays, SaysStays
  <1>6. CASE answer = "result"
    <2>1. ~HoldsBuild(c) /\ ~Recorded(c)
      BY <1>1, <1>2, <1>6 DEF HoldsBuild, Recorded
    <2>2. ~Board!Holds(c) /\ Says[c] # "running"
      BY <2>1, HeldIs, RunningIsRecorded
    <2>3. Told' = Told \cup {c}
      BY <1>3, <1>4, <1>6 DEF Told
    <2> QED BY <1>5, <2>2, <2>3 DEF Board!Tell
  <1>7. CASE answer # "result"
    BY <1>2, <1>3, <1>4, <1>5, <1>7, ToldStays DEF Board!vars
  <1> QED BY <1>6, <1>7

\* Every other step is not seen on the board.
LEMMA OthersStutter ==
    ASSUME IInv, OperationsAreOwn, NEW c \in Calls,
           \/ ReadKey(c) \/ ResolveInstall(c) \/ ReserveInstall(c) \/ StartMigrator(c)
           \/ ResolveInWork(c) \/ EndBuild(c)
           \/ ReserveCompile(c) /\ calls[c].key \in builds
           \/ ReserveMigrator(c) /\ calls[c].key \in builds
           \/ Release(c) /\ calls[c].tool = "install"
    PROVE  UNCHANGED Board!vars
  <1> USE DEF At, Works
  <1>0. calls \in [Calls -> Call] /\ calls[c] \in Call
    BY DEF IInv, TypeOK
  <1>1. UNCHANGED <<records, latest>>
    BY DEF ReadKey, ResolveInstall, ReserveInstall, StartMigrator, ResolveInWork, EndBuild,
       ReserveCompile, ReserveMigrator, Release, storeVars
  <1>2. \A d \in Calls : d # c => calls'[d] = calls[d] /\ (HoldsBuild(d)' <=> HoldsBuild(d))
    BY <1>0 DEF HoldsBuild, ReadKey, ResolveInstall, ReserveInstall, StartMigrator,
       ResolveInWork, EndBuild, ReserveCompile, ReserveMigrator, Release
  <1>3. calls'[c].op = calls[c].op
    BY <1>0 DEF Call, ReadKey, ResolveInstall, ReserveInstall, StartMigrator, ResolveInWork,
       EndBuild, ReserveCompile, ReserveMigrator, Release
  <1>4. calls'[c].handler = "result" <=> calls[c].handler = "result"
    BY <1>0 DEF Call, ReadKey, ResolveInstall, ReserveInstall, StartMigrator, ResolveInWork,
       EndBuild, ReserveCompile, ReserveMigrator, Release
  <1>5. CASE ReadKey(c)
    <2>1. calls[c].work = "none" /\ calls'[c].work = "none" /\ calls'[c].handler = "keyed"
      BY <1>0, <1>5 DEF ReadKey, IInv, Consistent, Call
    <2>2. ~HoldsBuild(c) /\ ~HoldsBuild(c)' /\ calls[c].op = 0
      BY <1>5, <2>1 DEF ReadKey, HoldsBuild, OperationsAreOwn
    <2> QED BY <1>1, <1>2, <1>3, <1>4, <2>2, HeldStays, SaysStays, ToldStays DEF Board!vars
  <1>6. CASE ~ReadKey(c)
    <2>1. calls'[c].key = calls[c].key
      BY <1>0, <1>6 DEF Call, ResolveInstall, ReserveInstall, StartMigrator, ResolveInWork,
         EndBuild, ReserveCompile, ReserveMigrator, Release
    <2>2. HoldsBuild(c)' <=> HoldsBuild(c)
      <3>1. CASE ResolveInstall(c)
        BY <1>0, <3>1 DEF ResolveInstall, HoldsBuild, Call, IInv, Consistent
      <3>2. CASE ReserveInstall(c)
        BY <1>0, <3>2 DEF ReserveInstall, HoldsBuild, Call, IInv, Consistent
      <3>3. CASE StartMigrator(c)
        BY <1>0, <3>3 DEF StartMigrator, HoldsBuild, Call, IInv, Consistent
      <3>4. CASE ResolveInWork(c)
        BY <1>0, <3>4 DEF ResolveInWork, HoldsBuild, Call
      <3>5. CASE EndBuild(c)
        BY <1>0, <3>5 DEF EndBuild, HoldsBuild, Call, Tools
      <3>6. CASE ReserveCompile(c) /\ calls[c].key \in builds
        BY <1>0, <3>6 DEF ReserveCompile, CanReserve, HoldsBuild, Call, IInv, Consistent
      <3>7. CASE ReserveMigrator(c) /\ calls[c].key \in builds
        BY <1>0, <3>7 DEF ReserveMigrator, CanReserve, HoldsBuild, Call, IInv, Consistent
      <3>8. CASE Release(c) /\ calls[c].tool = "install"
        BY <1>0, <3>8 DEF Release, HoldsBuild, Call, IInv, Consistent
      <3> QED BY <1>6, <3>1, <3>2, <3>3, <3>4, <3>5, <3>6, <3>7, <3>8
    <2> QED BY <1>1, <1>2, <1>3, <1>4, <2>1, <2>2, HeldStays, SaysStays, ToldStays
            DEF Board!vars
  <1> QED BY <1>5, <1>6

LEMMA HandlerStepsOnBoard ==
    ASSUME IInv, OperationsAreOwn, NEW c \in Calls, HandlerStep(c)
    PROVE  [Board!Next]_(Board!vars)
  <1>0. calls \in [Calls -> Call] /\ calls[c].key \in Keys
    BY DEF IInv, TypeOK, Call
  <1>1. CASE ReserveCompile(c) /\ calls[c].key \notin builds
    <2>1. calls' = [calls EXCEPT ![c] = [calls[c] EXCEPT !.handler = "reserved"]]
          /\ UNCHANGED <<records, latest>> /\ At(c, {"compile"}, "keyed")
      BY <1>0, <1>1 DEF ReserveCompile, CanReserve, storeVars
    <2>2. ~HoldsBuild(c) /\ HoldsBuild(c)'
      BY <1>0, <2>1 DEF HoldsBuild, At, Works, Call, IInv, Consistent
    <2>3. \A d \in Calls : /\ calls'[d].op = calls[d].op
                           /\ calls'[d].key = calls[d].key
                           /\ calls'[d].handler = "result" <=> calls[d].handler = "result"
                           /\ d # c => (HoldsBuild(d)' <=> HoldsBuild(d))
      BY <1>0, <2>1 DEF Call, HoldsBuild, At, Works
    <2>4. Board!Take(calls[c].key, c)
      BY <1>1, <2>1, <2>2, <2>3, ReserveTakes DEF At
    <2> QED BY <1>0, <2>4 DEF Board!Next
  <1>2. CASE BeginCompile(c)
    BY <1>2, BeginBegins DEF Board!Next
  <1>3. CASE Answer(c)
    BY <1>3, AnswerTells DEF Board!Next
  <1> QED BY <1>1, <1>2, <1>3, OthersStutter DEF HandlerStep

LEMMA WorkStepsOnBoard ==
    ASSUME IInv, OperationsAreOwn, NEW c \in Calls, WorkStep(c)
    PROVE  [Board!Next]_(Board!vars)
  <1>0. calls \in [Calls -> Call] /\ calls[c].key \in Keys
    BY DEF IInv, TypeOK, Call
  <1>1. CASE ReserveMigrator(c) /\ calls[c].key \notin builds
    <2>1. calls' = [calls EXCEPT ![c] = [calls[c] EXCEPT !.work = "started"]]
          /\ UNCHANGED <<records, latest>> /\ Works(c, {"migrator"}, "unreserved")
      BY <1>0, <1>1 DEF ReserveMigrator, CanReserve, storeVars
    <2>2. ~HoldsBuild(c) /\ HoldsBuild(c)' /\ calls[c].handler # "result"
      BY <1>0, <2>1 DEF HoldsBuild, At, Works, Call, OperationsAreOwn
    <2>3. \A d \in Calls : /\ calls'[d].op = calls[d].op
                           /\ calls'[d].key = calls[d].key
                           /\ calls'[d].handler = "result" <=> calls[d].handler = "result"
                           /\ d # c => (HoldsBuild(d)' <=> HoldsBuild(d))
      BY <1>0, <2>1 DEF Call, HoldsBuild, At, Works
    <2>4. Board!Take(calls[c].key, c)
      BY <1>1, <2>1, <2>2, <2>3, ReserveTakes
    <2> QED BY <1>0, <2>4 DEF Board!Next
  <1>2. CASE FinishCompile(c)
    BY <1>2, FinishEnds DEF Board!Next
  <1>3. CASE Release(c) /\ calls[c].tool # "install"
    BY <1>0, <1>3, ReleaseGives DEF Board!Next
  <1> QED BY <1>1, <1>2, <1>3, OthersStutter DEF WorkStep

\* The board is all a caller has to know of the tools: for any number of calls,
\* names and targets, and however often the settings change, one call at a time
\* builds under a key, its status says running from its begin to its end, the
\* key is free only after that, and a result is told last
\* (tool_pkg_write_compile.go:38-52 and 194-218, operations.go:96-127).
THEOREM KeepsTheBoard == Spec => ImplementsBoard
  <1>1. Init => Board!Init
    <2> SUFFICES ASSUME Init
                 PROVE  Board!Init
      OBVIOUS
    <2>1. PICK tool \in [Calls -> Tools], name \in [Calls -> Names] :
            calls = [c \in Calls |->
               [tool |-> tool[c], name |-> name[c], key |-> name[c], client |-> NoTarget,
                op |-> 0, handler |-> "idle", work |-> "none", aborted |-> FALSE]]
      BY DEF Init
    <2>2. \A c \in Calls : ~HoldsBuild(c) /\ StatusSays(c) = "nothing" /\ c \notin Told
      BY <2>1 DEF HoldsBuild, At, Works, StatusSays, Told
    <2> QED BY <2>2 DEF Board!Init, Held, Says, Told
  <1>2. IInv /\ OperationsAreOwn /\ [Next]_vars => [Board!Next]_(Board!vars)
    <2> SUFFICES ASSUME IInv, OperationsAreOwn, [Next]_vars
                 PROVE  [Board!Next]_(Board!vars)
      OBVIOUS
    <2>1. ASSUME UNCHANGED <<calls, records, latest>> PROVE UNCHANGED Board!vars
      BY <2>1, HeldStays, SaysStays, ToldStays DEF Board!vars, HoldsBuild, At, Works
    <2>2. ASSUME Tick PROVE UNCHANGED Board!vars
      BY <2>1, <2>2 DEF Tick, Store!Tick, callVars
    <2>3. ASSUME EditSettings \/ UNCHANGED vars PROVE UNCHANGED Board!vars
      BY <2>1, <2>3 DEF EditSettings, storeVars, vars
    <2> QED BY <2>2, <2>3, HandlerStepsOnBoard, WorkStepsOnBoard DEF Next, AllOver
  <1>3. Spec => []OperationsAreOwn
    BY OperationsBegin, OperationsPreserved, Invariant, PTL DEF Spec
  <1> QED BY <1>1, <1>2, <1>3, Invariant, PTL DEF Spec, ImplementsBoard, Board!Spec
=============================================================================
