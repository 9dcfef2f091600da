# creatio-mcp-go: specifications, model checking and proofs

This directory holds TLA+ specifications of the concurrent and crash-prone core of
creatio-mcp-go, the TLC configurations that check them on small instances, and TLAPS
proofs of what matters most for instances of any size.

creatio-mcp-go is an MCP server that offers clio's tools for Creatio environments to an
agent. It reads clio's settings file, keeps one authenticated HTTP client per target, runs
some two hundred tools over those clients, keeps a registry of the operations that outlive
a call, and shares a knowledge store on disk with other server processes and with clio.
Nearly everything is a sequence of remote calls. The state that several actors share is
small, and that is what is modelled: the session, the operation registry, the long tools
that reserve, build, watch a compile, restart, launch a process and create a section, and
the knowledge store.

Paths below are relative to `src/`.

## 1. Inventory

### 1.1 Components and their state

| Component | Where | State | Operations |
|---|---|---|---|
| Authentication session | `internal/creatio/client.go` | cached session and its generation, the login in flight, each caller's login context | `currentSession`, `login`, `invalidateSession`, `doAuthenticated` |
| Operation registry | `cmd/creatio-mcp-go/operations.go` 1-310 | records by id, latest record by tenant, a clock | `begin`, `finish`, `finishAs`, `lookup`, two evictions |
| Long operations | `operations.go` 99-150 | a handler, a detached work goroutine and the channel between them | `runLongOperation` |
| Building tools | `tool_pkg_write_compile.go`, `tool_pkg_write_bundled.go`, `tool_process_install.go` | two maps of reserved target keys | reserve, release, compile, install |
| Restart tools | `tool_pkg_write_restart.go`, `internal/creatio/pkgwrite_restart.go` | a record, `accepted`, the attempts | request with retries, readiness wait |
| Compilation watcher | `internal/creatio/pkgwrite_compile.go` 370-1012 | rows seen, errors, outage and reload, the answer | history poll, reload probe, decision, verdict |
| Knowledge store | `internal/knowledge/store_write.go`, `store.go`, `manage.go`, `filelock.go` | lock file, `current.json`, high-water mark, `generations/` | install, update, delete, reconcile, prune |
| Knowledge runtime | `internal/knowledge/runtime.go` | activated libraries, observed and failed generations | `EnsureActivated`, `Verify`, reads |
| Environment registry | `cmd/creatio-mcp-go/environments.go` | snapshot and stamp of the settings, client cache | `client`, `snapshot`, `tenantKey` |
| Process launch | `datawrite_process.go`, `datawrite_process_verify.go`, `tool_data_write_process.go` | a three-state gate, a baseline of records, what was polled of the run | launch, withdraw, wait, report, cancel, clean up |
| File system mode | `adminwrite_fsm.go` | none between calls | set mode, restart, wait for a login |
| Section creation | `appwrite_section_create.go` | one gate per environment and application | insert, read back, recover |
| Page writes | `pagewrite_*.go`, `pagelock_*.go` | page files and a lock file | get, update, sync |
| Component registry cache | `componentinfo_registry.go` | cache files, one refresh gate per version | fetch, background refresh |
| Page smoke | `internal/pagesmoke` | pending DevTools commands, a child process | send, receive loop, dispose |
| Telemetry | `internal/telemetry` | consent file, event spool | record, flush |
| Read tools, schema, rule, process, data and admin writes | `internal/creatio` | the platform's only | one remote call or a sequence of them |
| Tool layer, redaction, contracts, mobile guide, workspace | `cmd/creatio-mcp-go`, `internal/...` | none between calls | conversions |

`PROJECT.json` lists all of them with what is modelled of each and why the rest is not.

### 1.2 How they interact

- A tool handler resolves a name to a client through the environment registry. The registry
  re-reads the settings file whenever it changes, so two resolutions of one call may differ.
- All calls to a target share that client, hence one session and one login.
- compile, restart and install start their work in a goroutine with a context of its own
  and wait for it up to a response deadline. After that the caller polls `compile-status` or
  `restart-status`, which read the registry.
- Registry records and reservations are keyed by `TargetKey`, the identity of the target, or
  by the name when it cannot be resolved.
- The knowledge store is files. Writers take a lock file, readers take nothing. The other
  actors are processes, which may die at any instant.

### 1.3 What is hard here, and what makes each part correct

| Part | Hard behaviour | Correct when |
|---|---|---|
| Session | calls refused at once, a late refusal of an old session, expiry during a login, cancelled leaders, tokens dead on arrival | concurrent calls share one login; a login is made only when needed; a usable session is dropped only if the server refused it; a retry goes out with a newer session; every call returns |
| Registry | eviction while operations run, finish of an evicted record, latest entries going stale | running operations are never evicted; the status without an id speaks of the newest operation; the capacity binds as far as running operations allow |
| Builds | settings edited between two reads, deadline and cancellation against the work, deferred release | reservations are held by exactly one call and always given back; polling finds the compile that runs, and no key is free while its status says running |
| Restarts | a request performed whose answer is lost, or carried out after it was given up, deadline during the request, cancelled waits | an answer agrees with the record; "accepted" is said only of a restart that happened; a restart after the final status is of a request that was given up; every record ends |
| Compile watcher | four goroutines, a request that is cut off by the build it starts, rows of earlier compiles, a busy application that looks like a reload, a last poll that comes late | a success is of this compile, true where the answer says so and never of a failure that was read; what silence infers takes the whole of it; errors seen fail it; it ends |
| Process launch | the deadline or the caller's leaving against the launch, records of other sessions and runs, circles of lookups, a lost answer to a cancellation or a deletion, a deletion cut off at its deadline | "not launched" is final; the answer says only what the run did; only the run's own records go, and after the deadline's answer only by a request that was cut off |
| Section creation | a gate that is given up after 120 s, inserts whose answer is lost, a second attempt, sections of other calls that look alike | one insert has the gate; no second insert over a first that may commit; what the answer says of the section is true |
| Knowledge store | crash between any two writes, stale reads before the lock, delete between read and publish, repairs | the marker always names directories that exist; the accepted sequence never goes back; nothing is replaced unseen; the lock is always given back |

## 2. Modules

    SessionLease          abstract: leases of numbered sessions, atomic logins
      ^ implements
    AuthSession           client.go                        AuthSession_proofs

    OperationStore        operations.go, the registry      OperationStore_proofs
      ^ uses and            ^ uses and
      | implements          | implements
    Builds                Restarts                         Builds_proofs, Restarts_proofs
      | compile, migrator,  | the two restart tools          (both use OperationStore_proofs)
      | process installer   |
      v implements          v implements
    BuildBoard            RestartPromise                   abstract: who builds and what the
                                                             status says; true answers

    CompileWatch          pkgwrite_compile.go              CompileWatch_proofs

    RunPromise            abstract: one launch, true status, timely deletions
      ^ implements
    ProcessRun            run-process                      ProcessRun_proofs

    SectionOutcome        abstract: one insert at a time, true answers
      ^ implements
    SectionCreate         appwrite_section_create.go       SectionCreate_proofs

    KnowledgeActivation   abstract: accepted and active bundle
      ^ implements
    KnowledgeStore        store_write.go, manage.go        KnowledgeStore_proofs

Each `MC*` module extends one of these and adds only symmetry sets, restrictions of the initial
states, the bundles a publisher offers and the records a platform may hold. Operators marked
"Slip" in a comment are plausible mistakes of the code beside the definition they would
replace; they are used only to confirm that a property notices the mistake. `PROJECT.json` maps
every definition to its source lines.

### 2.1 AuthSession

A call is one goroutine inside `doAuthenticated`. `generation`, `session` and `flight` are
the fields `authMu` guards; a session is represented by its generation. `expired` is the
clock as the code sees it: the generations whose `expiresAt` has passed while cached. Per
call there are its point (`pc`), the session it was handed (`held`), the generation its
first answer refused (`refusedAt`), its login context (`login`) and what it has been told
(`answer`).

`currentSession` is split where it unlocks: `UseSession`, `JoinFlight` and `StartFlight`
are the first critical section; `LoginAnswers` is the exchange without the mutex;
`StoreSession` and `FailFlight` are the second critical section, which clears the flight
and closes `done` (the waiters learn the result in that same step, because the flight's
fields no longer change). `WakeFailed`, `WakeAgain` and `GiveUpWaiting` are a waiter's
select. `SendEnds`, `SendRefused` and `DropSession` are `doAuthenticated`: the result, the
refusal that can be replayed, and `invalidateSession`. `EndLogin` is a cancellation or the
login timeout, possible at any time; `Expire` is the clock.

Left out: URLs, cookies and bodies, how a 401 or a redirect to the login page is recognised
(a refusal is a refusal), and `adminWriteForgetSession`, which invalidates the session
without a refusal.

`SessionLease` states what callers rely on without flights or waiting. A login there is one
step, taken only when nothing usable is cached. `AuthSession` implements it with the
refused generations as `refused` and every other variable as it is.

### 2.2 OperationStore

Every action is one call of the store, which holds its mutex throughout: `Begin` (with
`evictIdle` and `evictOverCapacity` inside it), `Finish` (`finish` and `finishAs`, which make
a record anew when it is gone) and `Tick`. Ids are numbers in the order of beginning.
`open` is not in the code: it holds the operations whose work has not yet called finish, so
that properties can speak of work and record together. Records that were last active at the
same time may leave in any order, as the code picks the oldest of a map.

### 2.3 Builds

A call is a handler (`handler`) and its work (`work`). compile and the migrator read their
key, reserve in `pkgWriteBuilds`, and resolve the client again in the work; the installer
resolves first, reads the key afterwards and reserves in a map of its own. compile also
keeps a record in an instance of `OperationStore` whose tenants are the keys. `Answer` is the
select of `runLongOperation` (result, deadline, cancellation, whichever is there). Only a
cancellation that the waiting handler forwards reaches the work's context. `EditSettings`
registers, re-registers or removes a name between any two steps.

Of the build itself only its end is modelled, with a verdict or aborted: how a compile comes
to its verdict is `CompileWatch`.

`BuildBoard` is what is left when settings, clients, goroutines, deadlines and the registry
are taken away: who builds under which key, what compile-status says of each compile, and
which calls were told a result. A key has one holder; a compile begins and ends while its call
holds the key; the key is given back only when the status says running no more, and a result
is told after that. `Builds` implements it with the holders of `pkgWriteBuilds` as `held`, the
status of a call's record as long as it is its key's latest as `says`, and the handlers that
returned a result as `told`.

### 2.4 Restarts

The same shape, with an instance of `OperationStore` for the restart registry. A call by
name or by credentials sends its request up to `Attempts` times. The target is external: it
may perform a request and lose the answer, which is what a restarting application does, or
keep a request whose sender has given up (its 30 seconds over, or the call cancelled) and
perform it at any later time, also after the record's final status. `unheard` counts these
requests per call and `RestartLater` is the target performing one.
`accepted` is set after the request returns and read by the handler at its deadline. The
target a call reaches is fixed here, since `Builds` already has the settings that change.
A call without `waitReady` keeps no record and has no deadline.

`RestartPromise` is what is left when attempts, waits, deadlines and the registry are taken
away: a record gets one final status, the target restarts for a call only before that or for a
request that was given up before it, ready,
done and accepted are said only after it restarted, and the deadline's answer is the
record's at that time. `Restarts` implements it with the calls that wait as `waits`, the
record's status as `status`, the calls with requests given up as `unheard` and the handler's
answer as `told`.

### 2.5 KnowledgeStore

An operation is an install, update or delete by any process. The disk is `marker`
(`current.json`), `mark` (the library's high-water mark), `gens` (the directories), `damaged`
(those whose content no longer has its digest) and `lock`. The steps are the disk's steps:
the marker and then the mark are read without the lock; under the lock a publication checks,
stages, advances the mark, renames the directory into place, replaces the marker and prunes;
a delete renames the source away. `Recover`, `NothingToRecover` and `CannotRecover` are the
reconciliation of a marker that lags behind the mark. `Interrupt` stands for a failed step
and for a killed process, whose lock the system frees: either way the rest is not done and
what was written stays. `Damage` is anything that breaks a generation's files.

Settings give every library one source, so the library lock is always taken inside the
source lock and the model has one lock for both. Left out: the freshness stamp, staging and
quarantine leftovers, metadata beyond sequence and digest, signatures, and the retries of
the candidate search.

`KnowledgeActivation` says what is promised of one source: the accepted bundle only moves to
later sequences, and the active one only becomes the accepted one or nothing.

### 2.6 CompileWatch

One compile, of the whole configuration or of a package, over an environment that compiles one
project after the other, keeps the result and then reloads. The four goroutines have a group of
variables each: the request (`request`, its channel), the history poller (`poll`, `cutoff`,
`observed`, `failing`), the reload prober (`probe`, `misses`, `signs`) and the decider (`pc`,
`baseline`, `answer`, `looked`, then `completion`, `result`, `verdict`). `Look` is the head of
either loop with its snapshot, `DecideFull` is `pkgWriteDecide` in its order, `Closed` waits
for both watchers, and `JudgeFull` is the verdict, which reads the last result over the
network. `DecidePackage`, `PackageUnmonitored` and `PackageTimesOut` are the loop of
`pkgWriteRebuildPackage`. Rows are numbered in the order of the history; row 0 is of an earlier
compile, and is what a compile without a baseline sees.

Durations are kept as what the code tells apart: `clock` (before the startup grace, after it,
past the deadline), `quiet` (no new row: less than the settle window, less than five
minutes, or more) and `since` (the same from the answer on, for packages). `silence` is a
history variable: the longest quiet while the build ran.

Assumed of the environment: it keeps the result of a build before it reloads, and reloads
only after a build. Nothing is assumed of the probes: any of them may fail while the
application is up, so a busy build may miss the three in a row that the code takes for its
reload, before or after the build has ended. What the environment does after the verdict is
left out, and so is a caller who cancels: it ends both loops as
their deadline does. So are clio as a child process and the reading of error texts.

### 2.7 ProcessRun

One call of run-process. `handler` and `pc` are the handler and its work, `gate` the
compare-and-swap between them, `clock` the deadline and the second before it, `caller` whether
the caller is still there. A record is a row of a watched entity; `world` fixes for each who
created it, which run holds it and where its lookups point, so that provenance has something to
find out: `Holders`, `ClosedUnder` and `Tied` are `runRecordProvenance`. `known` is the
baseline before the launch, `created` what is new after the wait, `ours` what cleanup chose.

The destructive requests are two steps each, the decision (`DecideCancel`, `DecideDelete`)
and the sending (`SendCancel`, `SendDelete`, or `NotSent` when a login fails in between), because
that is where a caller may leave. A request may fail before it arrives or lose its answer;
referential integrity refuses deletions of what another row refers to, and the deletion of a
record that is no longer there is answered like one. A deletion that is cut off, because its
timeout ends at the deadline or its connection breaks, may be carried out later all the same:
`unheard` holds the records of these requests and `DeleteLater` is the platform deleting one.
Records appear until the report is drawn up and are the business of others afterwards.

Assumed of the scheduler: between the check of the deadline and the sending of a deletion
less time passes than the second the code keeps in reserve.

`RunPromise` is what the caller may rely on, without goroutines, polls, provenance, passes
or failures: at most one launch and none after an answer that excludes it, a status that is
the run's when it is taken, and deletions only of records that came after the baseline, while
no answer speaks of them or for a request that was cut off before. `ProcessRun` implements it
with the gate as `launch`, the handler's answer as `told`, the baseline as `before`, `ours` as
`chosen` and the records of requests cut off as `unheard`.

### 2.8 SectionCreate

The calls for one application, each creating a section under an id of its own.
`Prepare` reads what the application has; `Acquire` or, after the cap, `GoWithoutGate`
sends the insert; the six `Insert*` actions are what becomes of the request, each with the
release of the gate; `CheckFinds`, `CheckMisses` and `ChecksAreOver` are the checks after an
insert whose answer does not say, with the second attempt; `LoadApplication`, `FindSection`
and `LoadFails` are the read-back. The platform (`platform`, `sections`) goes on with an
insert whose answer nobody waits for, may commit one that it reports as aborted, and
anybody may delete a section. `reuses` are the calls that bind their section to one
existing entity, which is what makes sections look alike.

The gate is one per server process; calls of other processes are calls that went on without
it. Whether a row names its entity at all is left out. Assumed: a rejection without details is
the platform's own and final. The statuses a proxy answers with (408, 429, 502, 503, 504) are
timeouts in the code and in the model; a proxy that rejected with a body of its own under
another status, for an insert that still goes on, is not modelled.

`SectionOutcome` speaks of each call's section only: it is inserted while there is none and
no insert of it is under way, and an answer that says created, or not created, is true for
good. `SectionCreate` implements it with the calls whose insert the platform still works on
as `inserting` and, as `told`, what the words of the answer say of the section (`Told`).

## 3. Runs

| Run | Instance | Distinct states | What it asks |
|---|---|---|---|
| `auth` | 2 calls, fair | 13,839 | one login at a time, never needless and never over a usable session; retry newer; SessionLease implemented; every call returns |
| `operation_store` | 2 tenants, capacity 2, 5 operations, idle time 1, time 4 | 608,798 | running operations survive evictions; latest is newest; eviction keeps the capacity and nothing leaves too early |
| `operation_not_found` | capacity 4, 4 operations, time 4 | violated | finding, section 6 |
| `builds` | 2 calls of any tools, 2 names, 1 target, 1 edit, capacity 1, fair | 223,102 | polling finds the compile; BuildBoard implemented; one build per target while nobody edits; reservations are held and given back; every record finishes |
| `restarts` | 2 calls, 2 targets, 2 attempts, fair | 639,536 | answers, statuses and the work agree; RestartPromise implemented; every record ends |
| `restart_requestfailed` | 2 calls, 2 attempts | violated | finding |
| `knowledge_store` | 3 operations, 3 sequences, 2 contents of one, 2 faults, 1 damage | 629,772 | lock given back; marker complete; nothing rolled back or replaced unseen; whole without failures |
| `knowledge_lost` | 2 operations, 1 fault | violated | finding |
| `process_run` | 2 records of one entity in 7 worlds, 1 fault, fair | 1,603,733 | not launched is final; the status is the run's; cleanup deletes only the run's and all of it, and in time; RunPromise implemented; the call ends |
| `compile_watch` | both kinds, 2 projects, at most one error, 1 fault, fair | 1,857,806 | success is true and of this compile; silence before an inferred success; errors fail it; the compile ends |
| `section_create` | 2 calls with one entity, 2 loads, fair | 1,065,120 | the gate is held once and given back; success and section-created are true; SectionOutcome implemented; every call ends |
| `section_pages` | 2 calls, 1 load | violated | finding |

Type invariants are in no run: `TypeOK` of every module is a theorem (section 5).
Deadlock is checked in every run. The models end in an explicit stuttering step
(`Terminated`, `Exhausted`, `AllOver`, `Over`) enabled only when everything has finished, so a
state in which someone is stuck before that is reported.

### 3.1 Bounds and why they suffice

- *Calls.* In `auth` two calls give a leader and a waiter, and a latecomer whose old session
  is refused after the other has logged in again, since each call sends at most twice; no
  bound on generations is needed. The theorems cover any number of calls.
- *Store.* Capacity 2 with five operations gives stores that are over capacity with only
  running records, stores that evict one record of several, and ties. Idle time 1 with
  time 4 gives records on both sides of the boundary. Both tenants may hold several records.
- *Settings.* One edit is enough for two reads of a call to differ. Two names for one
  target give two calls with one key, and an unregistered name gives a key of its own. Of the
  initial states that differ only by a renaming of calls and names, `ReducedSpec` keeps one;
  a symmetry set would not be sound for the liveness property.
- *Attempts.* Two attempts (the code has three) give a first, a repeated and a last one.
- *Store in Builds and Restarts.* Capacity 1 makes eviction happen as soon as there are two
  records; the store's own run covers larger ones.
- *Knowledge.* Three operations give a publisher, one that started from what the first is
  replacing, and a deleter or reconciler. Sequences 1, 2 and 3 with two contents of
  sequence 2 give older, equal, conflicting and newer candidates. Two faults let the
  recovery of an interruption be interrupted. One damaged generation gives repairs.
- *Compile.* Two projects give a build with rows before and after a silence, and one that
  fails after a row. One error among them or in the earlier compile: more only make
  failures likelier. One fault is a baseline that is not read, an answer that is none, a
  broken request, a failed poll or an unread result; the reload adds its own for free, and
  probes may fail without bound.
- *Process.* The seven worlds are the ways two records can hang together: held by the run,
  tied to it by a lookup, held by a sub-process or another run, pointing at each other with no
  run behind, blocked by another user's record. With two records the third pass never ends a
  cleanup early; chains of any length are covered by the proof (section 5) and the exception
  they make is in section 6.
- *Sections.* Two calls give a holder of the gate and one that goes on without it. All calls
  bind one entity: the fallback to a section alike is then possible, and what calls with
  entities of their own do is what these do without it. Two loads give a repeated read-back.
- *Symmetry.* Calls, tenants, names, targets and operations are interchangeable wherever a
  symmetry set is declared: initial states and actions treat them alike and no property names
  one. Runs that check liveness declare none.

### 3.2 Fairness

| Module | Assumed | Why the code justifies it |
|---|---|---|
| AuthSession | each call's own steps, weakly | goroutines are scheduled; a login ends by `loginTimeout`, a request by its timeout; the mutex is starvation free |
| Builds | each handler's and each work's steps, weakly | as above; a build's requests have timeouts and its wait has a deadline, so it ends |
| Restarts | each handler's and each work's steps, weakly | a request has a timeout of 30 seconds and a fixed number of attempts; the readiness wait has a limit of at most an hour |
| CompileWatch | the decider's, the prober's and the request's steps, the end of each watcher, and the clock, weakly | goroutines are scheduled; a poll, a probe and a request end by their timeouts; time passes. The environment owes nothing: a build may hang |
| ProcessRun | the handler's, the work's and the poll's steps, the clock, and the answer to a launch, weakly | as above; a launch is answered or ends by its own timeout, which is a year, so the run rests on the platform answering |
| SectionCreate | each call's steps, weakly | every request, wait and check of a call has a timeout |

Nothing is assumed of cancellations, deadlines, expiry, edits, a target coming up, or time.
`OperationStore` and `KnowledgeStore` have no fairness: their question is what is never
wrong, and that an operation always has a next step is the deadlock check together with
`SettledWhenFree`, which also says that the lock is free when nobody works under it.

## 4. Properties

The properties and the code they speak of:

- `SingleLogin`, `LoginReplacesUnusable`, `EveryLoginWasNeeded`: the flight of
  `currentSession`. A herd of refusals costs one login.
- `RetryUsesNewerSession`, `ImplementsLease`: the generation that
  `invalidateSession` compares. A late refusal does not log the others out.
- `EveryCallReturns`: whatever happens to a leader, nobody waits for ever.
- `OpenIsTracked`, `LatestIsNewest`: what the status tools answer. A running operation
  keeps its own record under its own tenant, and no older one is reported as the latest.
- `BeginRespectsCapacity`, `KeptUnlessFull`: the two evictions from both sides.
- `ReservationsAreHeld`, `EveryBuildEnds`: the maps and the deferred releases under edits,
  refusals and cancellations; and the record that finishes without its caller.
- `PollFindsTheCompile`: the reservation keeps a second compile of the key from replacing
  the record that a caller polls. It relates three structures: map, registry, calls.
- `ImplementsBoard`: the order of the deferred release, the record's finish and the answer, and
  who may do them, against every other call. A release before the finish would leave a free key
  whose status says running.
- `OneBuildWhileSettingsStay`: the reservation as far as it holds.
- `ImplementsPromise`, `AnswerAgreesWithStatus`, `StatusFollowsTheWork`,
  `EveryRestartEnds`: the three voices of a restart (answer, record, work).
- `MarkerIsComplete`, `SettledWhenFree`, `ReplacesWhatItSaw`: the store at
  every instant, crashes included.
- `SuccessIsTrue`, `SuccessNeedsSilence`, `ErrorsFailTheCompile`,
  `EveryCompileEnds`: how far the verdict of a compile can be trusted, whichever of the four
  sources it rests on. Where the code infers, the property says what the inference takes; the one
  inference for which it says nothing is the reload (section 6).
- `NotLaunchedIsFinal`, `StatusIsTheRuns`, `AtMostOneAfterCallerLeft`, `ImplementsPromise`:
  what a caller was told, or its absence, against what is sent afterwards.
- `DeletesInTime`: after the deadline's answer only a request that was cut off before it still
  deletes, and none is sent.
- `CleansOnlyTheRuns`, `CleanupIsThorough`: the provenance from both sides. The first says that
  the chosen records hang on the run and not only on each other. The second says that what is
  left of them is still referred to, or that the three passes were used up while each of them
  deleted something.
- `GateIsHeldOnce`, `CreatedFalseIsTrue`, `SuccessIsItsOwn`, `ImplementsOutcome`,
  `EveryCallEnds`: the gate and the words of the answer, for inserts whose fate the call
  does not know.
- `ImplementsLease`, `ImplementsActivation`, `ImplementsPromise` (of `Restarts` and of
  `ProcessRun`), `ImplementsOutcome`, `ImplementsBoard`: the refinements. They contain in their
  terms `AcceptedMeansPerformed` and `SecondInsertIsSafe` (no insert over a section or an insert
  under way), which are theorems but in no run.

## 5. Proofs

All theorems are for every value of the constants that satisfies the named assumptions of
the module (named `...Assumption` where it declares its constants), which TLC also evaluates
in the runs. Each module's type invariant is a theorem `TypeCorrect`.

**AuthSession_proofs.** `IInv` joins `TypeOK` and the four safety invariants of the run with
what makes them inductive: the cached session is the newest; a call that sends holds a session;
a call that drops holds the one it was refused (`HoldsWhatItUses`); and a call that has dropped
a session never finds that session cached again (`RefusalWasHeeded`). The last is why the retry
is newer. `SingleLogin` is needed for `LoginReplacesUnusable`: only the flight's owner stores.
The refinement maps the steps of a flight before its result to stutters and storing to a login.
`DroppedOnlyWhenRefused` is proved from the same invariant: a session is replaced only by the
flight's owner, who finds none usable, and removed only by a call that was refused it.

**OperationStore_proofs.** `TypeOK`, `OpenIsTracked` and `LatestIsNewest` are inductive
together. `VictimsFinished` is the lemma about the eviction; from it no open operation loses
its record, so `finish` never has to make one anew.

The two action properties need no more invariant but a count. `VictimsCounted` says what an
eviction leaves of any finite store: room for exactly the new record, or nothing finished at
all. With it `CapacityBinds` is read off `Begin`, and `StatusIsKeptItsTime` from the fact that
no other action removes a record.

**Builds_proofs.** The store's invariant is taken from `OperationStore_proofs`, instantiated.
`IInv` adds that handler and work agree (`Consistent`), that reservations are held, that
recorded compiles own the open and latest record of their key, and that, while nobody edits,
keys are current. The argument ties map and
registry together: recorded compiles hold reservations, so their keys differ, so none of
them replaces another as latest, so polling finds the one that runs.
`UsesTheStore` is the refinement: every step of `Builds`, seen through the instance, is a step
of the store or a stutter, because a call begins at most one record and finishes only its own.
So what is proved of the store holds in the composition, and `StoreKeepsItsPromises` carries
the two action properties over.
The refinement of `BuildBoard` (`KeepsTheBoard`) adds `OperationsAreOwn`: every compile has an
operation of its own, which is open no longer than the compile is recorded, and a result is
told after the work was over. So what the status calls running is a compile that holds its key
(`RunningIsRecorded`), a begin hides no other compile that runs (`BeginBegins`), and a release
comes after the finish (`ReleaseGives`).

**KnowledgeStore_proofs.** The argument is the lock. The operation at work under it is its
holder (`LockIsHeld`), so what its check found stays true until it replaces the marker
(`CheckStands`), and what is on disk in between is described by its point alone
(`StepsAreDone`, `Undisturbed`). `MarkerIsComplete` then survives prune because prune keeps
what the marker names, and survives a crash because every prefix of a publication leaves the
marker at generations nobody removes. The refinement maps `Accept`, `Activate` or `Recover`,
and `Remove` to the three abstract actions and everything else to a stutter; that
`Activate` activates the accepted bundle is `StepsAreDone`.

**Restarts_proofs.** As in `Builds_proofs` the store's invariant is instantiated, but here
nothing is reserved: several restarts of one target run at once. What keeps them apart is
`OwnOperations`: no two calls have an operation in common. So a call that closes its record
closes no other's, and its own stays open until then (`Agrees`). `OneCallSteps` is the
lemma for every action: one call changes, and in the store at most its own operation.
`UsesTheRegistry` and `RegistryKeepsItsPromises` are the refinement of the store, as above.
The refinement of `RestartPromise` (`KeepsItsPromise`) needs one more fact of a call (`Knows`):
it has been accepted just when its request is behind it and did not fail. `StepIsSeen`
reduces each step to what it does to the one call, as in `SectionCreate_proofs`.

**CompileWatch_proofs.** `EnvironmentAgrees` and `RowsAgree` carry `SuccessIsTrue`: with a
baseline, whatever was observed is a row of this build, an inferred verdict rests on such rows,
and the result that was read is the last one kept. `QuietAgrees` ties the
quiet a decision rests on to the silence of the running build. `VerdictAgrees` says what a
verdict may rest on by the point of the decider. `WatchersAreOver` is proved besides: neither
watcher does anything after a full compile has answered.

**ProcessRun_proofs.** The gate decides (`GateDecides`): no run without a launch, no launch
before the gate, and once withdrawn it stays so. For the cleanup the lemma is
`TiedIsAnchored`: a set that `Tied` builds from the records the run holds has no part that
hangs together by its own lookups only. It is a statement about every graph of lookups and every
subset that could be read, by the least set closed under the provenance's step.

That cleanup is thorough is about the passes (`PassesAgree`). `PassAccounts` says where each
chosen record is: waiting, in hand, refused or deleted, and one of these only. `PassTells` says
what a pass proves: until it deletes something, whatever refused it is still referred to,
since nothing that refers to it has gone; and every pass before it deleted at least one record. So
a cleanup that stops for lack of progress leaves only records in use, and one that stops at
its third pass has deleted more than two. Failures, the deadline and a caller who leaves are
the cases in which it promises nothing.

The refinement of `RunPromise` rests on all of it (`Sound`) and on `Settled`: an open gate means
that no answer excluded the launch, a withdrawn one that an answer did. The steps fall into
four lemmas, for the work up to the choice of records, the cleanup, the handler and the world.

**SectionCreate_proofs.** `Fate` says what a call's section may be at every point: an insert
that was not heard may still be at work, so a call is back at the gate only when its section
is absent and the platform idle. Every theorem is read off it. For the refinement of
`SectionOutcome` (`OutcomesAreKept`), `StepIsSeen` sorts the steps of a call and of the platform
for it into what shows of them: nothing, the start of an insert, its end, a commit, a removal
or an answer; `StepIsPromised` lifts that from one call to all of them.

What is only model-checked: the liveness properties, since fairness and ENABLED are beyond the
prover. Every safety property, action property and refinement that a passing run checks is
a theorem.

## 6. Where the code differs from what it says

1. **not-found with a record left** (`operation_not_found`, `operations.go:293`). Removing a
   tenant's latest record does not fall back to an older one. With two restarts of one
   environment, the newer finished and evicted while the older runs, restart-status says
   that the session holds no record of a restart.
2. **requestfailed although restarted** (`restart_requestfailed`, `pkgwrite_restart.go:53`).
   A lost answer counts as a failed attempt; "no restart happened" is not known.
3. **A conflict nothing reconciles** (`knowledge_lost`, `store_write.go:426`). A publication
   interrupted between the high-water mark and the rename leaves a mark without a
   generation; install and update then refuse before they download, and only a delete leads
   out, against what the reader's message says.
4. **Pages of another section** (`section_pages`, `appwrite_section_create.go:749`). The
   application is read before the call waits for its turn, so what others create meanwhile
   is listed among the created pages.

Seen while modelling, without a run of their own:

- Building tools. The key is read at the call and the client in the work
  (`tool_pkg_write_compile.go` 194 and 203): after an edit in between a compile runs on a
  target whose key it does not hold, against the comment at 31-32;
  `OneBuildWhileSettingsStay` is therefore restricted to behaviours without edits. The
  installer's reservation is its own; its comment still says that compile is not served yet.
  The migrator holds the compile reservation without a record, so a refused compile is told
  that a compilation runs which `compile-status` cannot show.
- Restarts. A request that was given up may be carried out after later attempts, and take the
  application down again after ready was reported. Records are keyed by target, so a restart by
  credentials of a registered target can be found under that target's name.
- Compile. "Never began" is said after 90 seconds without a row to a request that failed
  (`pkgwrite_compile.go` 629), and the environment may still have received it. Without a
  baseline, rows of an earlier compile and silence make a success of a compile that never ran. A
  package request that a proxy cuts off needs only 45 seconds of silence. A result that cannot be
  read after the reload, with an error row that was not polled yet, is a success.
- Compile, a busy environment. Three probes in a row without an answer within 5 s are an outage
  (`pkgwrite_compile.go` 515), and the next answer is "The environment reloaded and is answering
  again" (605). An environment that is only too busy building is taken for one that has reloaded:
  the compile is judged while it still builds, by the last result kept, which is the previous
  compile's. So success may be said of a build that still runs and fails later.
  `SuccessNeedsSilence` exempts this verdict; the model reaches it.
- Process. Refused records are "retried while a pass still deletes something", says the
  comment at `datawrite_process_verify.go` 1099-1100; the loop at 1110 makes three passes at
  most. Four records each of which is referred to by the next, come upon in the wrong order,
  lose one per pass, and the first stays although nothing refers to it any more.
  `CleanupIsThorough` excepts just this case. A record reported as left in place may be gone, if
  the answer to its deletion was lost, or go later, if its deletion was cut off. One request already
  decided on may start after the caller left; the property says at most one.
- Section. A call whose own section was removed before it is read back takes another section
  with the same code or entity for it and sets that section's icon
  (`appwrite_section_create.go` 719). `SuccessIsItsOwn` therefore speaks of calls whose section
  is still there. `transport` with section-created: false is also said of a connection that
  broke after the insert was sent, and "verified" of checks none of which was answered.

## 7. Not modelled

Conversions of documents (pages, schemas, rules, process models, the mobile guide), the read
tools, redaction and contracts are functions of their input; unit tests with recorded
answers cover them and there is no interleaving to explore. Remote sequences (admin, data
and application writes) change only the platform's state. They are by far most of the
repository's lines, which is why the map covers a small share of them: the modelled parts are
the ones with state that several actors share. What is concurrent and still missing is the
plan below; `PROJECT.json` lists the hazards of those parts with a note.

## 8. Plan

In the order of importance:

1. `KnowledgeRuntime` on `KnowledgeStore`: activation in each process, fallback to the
   previous generation, the failure's retry, and readers without the lock (`runtime.go`
   143-321, `store.go` 270-310). Safety: a served library was accepted and verified, its
   sequence in one process never goes back; a rejected generation is retried.
2. `CdpSession`: pending commands against the close of the session (`pagesmoke/cdp.go`
   100-220): every command is answered or failed.
3. `EnvironmentRegistry`: stamp, warning and client cache, with the file rewritten within one
   stamp; then the page lock with the baseline check.
4. File system mode: restart and wait for a login over `AuthSession`, whose session it
   forgets without a refusal.
5. A refinement of `EndBuild` of `Builds` by `CompileWatch`, and an abstract specification of
   the latter beside those of the other components.

The runs above are as many as are useful to keep at hand, so a new module takes the place of a
finding whose code has been corrected, or shares a run with a neighbour.
