------------------------------- MODULE Builds -------------------------------
(***************************************************************************)
(* The long tools that build an environment's configuration:               *)
(* compile-creatio, install-dashboards-migrator and install-process-builder*)
(* (cmd/creatio-mcp-go/tool_pkg_write_compile.go, tool_pkg_write_bundled.go*)
(* and tool_process_install.go) over runLongOperation (operations.go).     *)
(*                                                                         *)
(* A call is a handler, which answers, and its work, a goroutine that      *)
(* outlives the handler once the response deadline passes.  compile and    *)
(* the migrator reserve a target key in pkgWriteBuilds, install in         *)
(* processInstallBuilds; compile also keeps a record in the operation      *)
(* store.  The settings file that says which target a name stands for can  *)
(* be edited between any two reads of it.                                  *)
(***************************************************************************)
EXTENDS Integers, FiniteSets

CONSTANTS
    Calls,     \* the calls made
    Names,     \* environment names
    Targets,   \* the environments names can stand for (a client's TargetKey)
    NoTarget,  \* what an unregistered name stands for
    NoTenant, Capacity, IdleTTL, MaxOperations, MaxTime,  \* of the store
    MaxEdits   \* bound: how often the settings file changes

ASSUME BuildsAssumption ==
    /\ Names \cap Targets = {}
    /\ NoTarget \notin Targets
    /\ NoTenant \notin Names \cup Targets
    /\ Capacity \in Nat \ {0}
    /\ IdleTTL \in Nat
    /\ MaxOperations \in Nat
    /\ MaxTime \in Nat
    /\ MaxEdits \in Nat

VARIABLES
    settings,  \* the target each name is registered for
    edits,     \* how often it changed
    builds,    \* pkgWriteBuilds.reserved
    installs,  \* processInstallBuilds.running
    calls,     \* each call's handler, work and locals
    records, latest, begun, open, now  \* compileOperations

\* An unregistered name has a key of its own ("unresolved:<name>").
Keys == Targets \cup Names

Store == INSTANCE OperationStore WITH Tenants <- Keys

callVars == <<settings, edits, builds, installs, calls>>
storeVars == <<records, latest, begun, open, now>>
vars == <<settings, edits, builds, installs, calls, records, latest, begun, open, now>>

Tools == {"compile", "migrator", "install"}
Answers == {"busy", "refused", "result", "inprogress", "cancelled"}

Call == [tool : Tools, name : Names, key : Keys,
         client : Targets \cup {NoTarget},
         op : Nat,                          \* the record's id, 0 for none
         handler : {"idle", "resolved", "keyed", "reserved", "waiting"} \cup Answers,
         work : {"none", "unreserved", "started", "building", "ended", "finished", "sent"},
         aborted : BOOLEAN]

TypeOK ==
    /\ settings \in [Names -> Targets \cup {NoTarget}]
    /\ edits \in Nat
    /\ builds \subseteq Keys
    /\ installs \subseteq Keys
    /\ calls \in [Calls -> Call]
    /\ Store!TypeOK

Init ==
    /\ settings \in [Names -> Targets \cup {NoTarget}]
    /\ edits = 0
    /\ builds = {}
    /\ installs = {}
    /\ \E tool \in [Calls -> Tools], name \in [Calls -> Names] :
          calls = [c \in Calls |->
             [tool |-> tool[c], name |-> name[c], key |-> name[c], client |-> NoTarget,
              op |-> 0, handler |-> "idle", work |-> "none", aborted |-> FALSE]]
    /\ Store!Init

------------------------------------------------------------------------------
\* tenantKey reads the settings as they are now.  (Slip: names are keys.)
TenantKeyIsName(n) == n
TenantKey(n) == IF settings[n] = NoTarget THEN n ELSE settings[n]

At(c, tools, handler) == calls[c].tool \in tools /\ calls[c].handler = handler
Works(c, tools, work) == calls[c].tool \in tools /\ calls[c].work = work

\* pkgWriteReserveBuild and processInstallReserve: check and reserve under the
\* mutex.  (Slip: reserving what is reserved succeeds.)
CanReserveAnything(reserved, key) == TRUE
CanReserve(reserved, key) == key \notin reserved

\* compile and the migrator read the key first, install after its client.
ReadKey(c) ==
    /\ At(c, {"compile", "migrator"}, "idle") \/ At(c, {"install"}, "resolved")
    /\ calls' = [calls EXCEPT ![c].key = TenantKey(calls[c].name), ![c].handler = "keyed"]
    /\ UNCHANGED <<settings, edits, builds, installs, storeVars>>

\* install resolves its client before it reads the key.
ResolveInstall(c) ==
    LET target == settings[calls[c].name]
    IN  /\ At(c, {"install"}, "idle")
        /\ calls' = [calls EXCEPT
              ![c].client = target,
              ![c].handler = IF target = NoTarget THEN "refused" ELSE "resolved"]
        /\ UNCHANGED <<settings, edits, builds, installs, storeVars>>

ReserveCompile(c) ==
    /\ At(c, {"compile"}, "keyed")
    /\ IF CanReserve(builds, calls[c].key)
       THEN builds' = builds \cup {calls[c].key} /\ calls' = [calls EXCEPT ![c].handler = "reserved"]
       ELSE calls' = [calls EXCEPT ![c].handler = "busy"] /\ UNCHANGED builds
    /\ UNCHANGED <<settings, edits, installs, storeVars>>

\* compile records the operation and starts its work.
BeginCompile(c) ==
    /\ At(c, {"compile"}, "reserved")
    /\ Store!Begin(calls[c].key)
    /\ calls' = [calls EXCEPT ![c].op = begun + 1, ![c].handler = "waiting", ![c].work = "started"]
    /\ UNCHANGED <<settings, edits, builds, installs>>

ReserveInstall(c) ==
    /\ At(c, {"install"}, "keyed")
    /\ IF CanReserve(installs, calls[c].key)
       THEN /\ installs' = installs \cup {calls[c].key}
            /\ calls' = [calls EXCEPT ![c].handler = "waiting", ![c].work = "building"]
       ELSE calls' = [calls EXCEPT ![c].handler = "busy"] /\ UNCHANGED installs
    /\ UNCHANGED <<settings, edits, builds, storeVars>>

\* The migrator reserves in its work.
StartMigrator(c) ==
    /\ At(c, {"migrator"}, "keyed")
    /\ calls' = [calls EXCEPT ![c].handler = "waiting", ![c].work = "unreserved"]
    /\ UNCHANGED <<settings, edits, builds, installs, storeVars>>

ReserveMigrator(c) ==
    /\ Works(c, {"migrator"}, "unreserved")
    /\ IF CanReserve(builds, calls[c].key)
       THEN builds' = builds \cup {calls[c].key} /\ calls' = [calls EXCEPT ![c].work = "started"]
       ELSE calls' = [calls EXCEPT ![c].work = "sent"] /\ UNCHANGED builds
    /\ UNCHANGED <<settings, edits, installs, storeVars>>

\* The work of compile and of the migrator resolves its client for itself.
ResolveInWork(c) ==
    LET target == settings[calls[c].name]
    IN  /\ Works(c, {"compile", "migrator"}, "started")
        /\ calls' = [calls EXCEPT
              ![c].client = target,
              ![c].work = IF target = NoTarget THEN "ended" ELSE "building"]
        /\ UNCHANGED <<settings, edits, builds, installs, storeVars>>

\* The work's context is cancelled only by a cancellation the waiting handler
\* forwards.
WorkCancelled(c) == calls[c].handler = "cancelled"

\* Compile, InstallProcessBuilder or InstallDashboardsMigrator returns, on its
\* own or because its context was cancelled.
EndBuild(c) ==
    /\ Works(c, Tools, "building")
    /\ \E aborted \in {FALSE} \cup {WorkCancelled(c)} :
          calls' = [calls EXCEPT ![c].work = "ended", ![c].aborted = aborted]
    /\ UNCHANGED <<settings, edits, builds, installs, storeVars>>

\* The record compile finishes when its build is over.  (Slip: only for a call
\* whose handler still waits.)
FinishWhileWaiting(c) == Works(c, {"compile"}, "ended") /\ calls[c].handler = "waiting"
FinishDue(c) == Works(c, {"compile"}, "ended")

FinishCompile(c) ==
    /\ FinishDue(c)
    /\ Store!Finish(calls[c].op)
    /\ calls' = [calls EXCEPT ![c].work = "finished"]
    /\ UNCHANGED <<settings, edits, builds, installs>>

\* What the deferred release deletes.  (Slip: the key is computed again.)
KeyComputedAgain(c) == TenantKey(calls[c].name)
ReleasedKey(c) == calls[c].key

\* When the deferred release runs.  (Slips: the release is not deferred, so a
\* cancelled build skips it; it comes before the record's finish.)
WorkReturnedUnlessAborted(c) ==
    ~calls[c].aborted /\ (Works(c, {"migrator", "install"}, "ended") \/ Works(c, {"compile"}, "finished"))
WorkReturnedUnfinished(c) == Works(c, Tools, "ended")
WorkReturned(c) == Works(c, {"migrator", "install"}, "ended") \/ Works(c, {"compile"}, "finished")

\* The deferred release runs, then the result is sent to the handler.
Release(c) ==
    /\ WorkReturned(c)
    /\ IF calls[c].tool = "install"
       THEN installs' = installs \ {ReleasedKey(c)} /\ UNCHANGED builds
       ELSE builds' = builds \ {ReleasedKey(c)} /\ UNCHANGED installs
    /\ calls' = [calls EXCEPT ![c].work = "sent"]
    /\ UNCHANGED <<settings, edits, storeVars>>

\* runLongOperation's select: the result, the deadline or the cancellation,
\* any of those that are there.
Answer(c) ==
    /\ At(c, Tools, "waiting")
    /\ \/ calls[c].work = "sent" /\ calls' = [calls EXCEPT ![c].handler = "result"]
       \/ calls' = [calls EXCEPT ![c].handler = "inprogress"]
       \/ calls' = [calls EXCEPT ![c].handler = "cancelled"]
    /\ UNCHANGED <<settings, edits, builds, installs, storeVars>>

\* Somebody registers, re-registers or removes an environment.
EditSettings ==
    /\ edits < MaxEdits
    /\ edits' = edits + 1
    /\ \E n \in Names, target \in Targets \cup {NoTarget} :
          /\ target # settings[n]
          /\ settings' = [settings EXCEPT ![n] = target]
    /\ UNCHANGED <<builds, installs, calls, storeVars>>

Tick == Store!Tick /\ UNCHANGED callVars

Over(c) == calls[c].handler \in Answers /\ calls[c].work \in {"none", "sent"}

AllOver == (\A c \in Calls : Over(c)) /\ UNCHANGED vars

HandlerStep(c) ==
    \/ ReadKey(c) \/ ResolveInstall(c) \/ ReserveCompile(c) \/ BeginCompile(c)
    \/ ReserveInstall(c) \/ StartMigrator(c) \/ Answer(c)

WorkStep(c) ==
    \/ ReserveMigrator(c) \/ ResolveInWork(c) \/ EndBuild(c)
    \/ FinishCompile(c) \/ Release(c)

Next ==
    \/ \E c \in Calls : HandlerStep(c) \/ WorkStep(c)
    \/ EditSettings
    \/ Tick
    \/ AllOver

Spec == Init /\ [][Next]_vars

\* The scheduler runs every goroutine; a build ends, as every request of it
\* has a timeout and the history poll a deadline.
Fairness == \A c \in Calls : WF_vars(HandlerStep(c)) /\ WF_vars(WorkStep(c))
FairSpec == Spec /\ Fairness

------------------------------------------------------------------------------
\* The calls that hold a reservation in pkgWriteBuilds and the ones that hold
\* one in processInstallBuilds.
HoldsBuild(c) ==
    \/ At(c, {"compile"}, "reserved")
    \/ Works(c, {"compile", "migrator"}, "started")
    \/ calls[c].tool # "install" /\ calls[c].work \in {"building", "ended", "finished"}

HoldsInstall(c) == calls[c].tool = "install" /\ calls[c].work \in {"building", "ended"}

\* Every reservation has exactly one call that holds it, and every key held is
\* reserved: none leaks when settings change or a call is cancelled, and none
\* is released under another call (pkgWriteBuilds, processInstallBuilds).
ReservationsAreHeld ==
    /\ builds = {calls[c].key : c \in {d \in Calls : HoldsBuild(d)}}
    /\ installs = {calls[c].key : c \in {d \in Calls : HoldsInstall(d)}}
    /\ \A c, d \in Calls :
          /\ c # d /\ calls[c].key = calls[d].key
          /\ (HoldsBuild(c) /\ HoldsBuild(d)) \/ (HoldsInstall(c) /\ HoldsInstall(d))
          => FALSE

\* A compile whose record is open.
Recorded(c) == calls[c].tool = "compile" /\ calls[c].work \in {"started", "building", "ended"}

\* While a compile runs, compile-status without an operation id answers with
\* that compile's record, running, for whatever name stands for its key: no
\* other operation of the key has become the latest ("Poll compile-status with
\* the same environment-name", tool_pkg_write_compile.go:157).
PollFindsTheCompile ==
    \A c \in Calls : Recorded(c) =>
        /\ latest[calls[c].key] = calls[c].op
        /\ Store!LookupFinds(calls[c].key)
        /\ Store!Running(calls[c].op)

\* What compile-status, asked without an operation id, says of a call's compile.
StatusSays(c) ==
    IF calls[c].op # 0 /\ latest[calls[c].key] = calls[c].op
    THEN records[calls[c].op].status ELSE "nothing"

Held == {<<calls[c].key, c>> : c \in {d \in Calls : HoldsBuild(d)}}
Says == [c \in Calls |-> StatusSays(c)]
Told == {c \in Calls : calls[c].handler = "result"}

Board == INSTANCE BuildBoard WITH held <- Held, says <- Says, told <- Told

\* The tools implement BuildBoard: one call at a time builds under a key, its
\* status says running exactly from its begin to its end, the key is free only
\* after that, and a result is told last (runLongOperation and the deferred
\* release, operations.go:96-127, tool_pkg_write_compile.go:194-218).
ImplementsBoard == Board!Spec

BuildsNow(c) == calls[c].work = "building"

\* As long as nobody edits the settings, compile and the migrator never build
\* one target at the same time, through whatever names they reach it.
OneBuildWhileSettingsStay ==
    edits = 0 =>
        \A c, d \in Calls :
            /\ c # d
            /\ calls[c].tool # "install" /\ calls[d].tool # "install"
            /\ BuildsNow(c) /\ BuildsNow(d)
            => calls[c].client # calls[d].client

\* Whatever happens to a call, its reservation is given back and the record its
\* caller was told to poll does not say running for ever.
EveryBuildEnds ==
    \A c \in Calls :
        /\ (HoldsBuild(c) \/ HoldsInstall(c)) ~> ~(HoldsBuild(c) \/ HoldsInstall(c))
        /\ Recorded(c) ~> (calls[c].op \notin open)
=============================================================================
