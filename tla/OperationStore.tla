--------------------------- MODULE OperationStore ---------------------------
(***************************************************************************)
(* The registry compile-status and restart-status read                     *)
(* (cmd/creatio-mcp-go/operations.go): begin records a running operation   *)
(* and makes it its tenant's latest, finish closes it, and begin evicts    *)
(* what has been finished for too long or no longer fits.  Each action is  *)
(* one call of the store, which holds its mutex throughout.                *)
(*                                                                         *)
(* Operations are numbered in the order they begin; a record's tenant is   *)
(* the TargetKey it was begun under.                                       *)
(***************************************************************************)
EXTENDS Integers, FiniteSets

CONSTANTS
    Tenants,        \* the target keys operations are begun under
    NoTenant,       \* the tenant of a record that finish had to create
    Capacity,       \* maxOperationRecords
    IdleTTL,        \* operationIdleTTL
    MaxOperations,  \* bound: how many operations begin
    MaxTime         \* bound: how far the clock goes

ASSUME StoreAssumption ==
    /\ NoTenant \notin Tenants
    /\ Capacity \in Nat \ {0}
    /\ IdleTTL \in Nat
    /\ MaxOperations \in Nat
    /\ MaxTime \in Nat

VARIABLES
    records,  \* byID: a function on the ids that have a record
    latest,   \* latestByTenant, 0 where the tenant has no entry
    begun,    \* how many operations were begun
    open,     \* the operations whose work has not called finish yet
    now       \* the store's clock

vars == <<records, latest, begun, open, now>>

Record == [tenant : Tenants \cup {NoTenant},
           status : {"running", "finished"},
           activity : Nat]               \* lastActivity: finished, else started

TypeOK ==
    /\ begun \in Nat
    /\ DOMAIN records \subseteq 1..begun
    /\ records \in [DOMAIN records -> Record]
    /\ latest \in [Tenants -> 0..begun]
    /\ open \subseteq 1..begun
    /\ now \in Nat

Init ==
    /\ records = [id \in {} |-> id]
    /\ latest = [t \in Tenants |-> 0]
    /\ begun = 0
    /\ open = {}
    /\ now = 0

------------------------------------------------------------------------------
Running(id) == records[id].status = "running"

\* evictIdle: the finished records whose last activity is too long ago.
\* (Slip: the status is not looked at.)
IdleWhateverStatus(id) == now - records[id].activity > IdleTTL
Idle(id) == ~Running(id) /\ now - records[id].activity > IdleTTL

\* The store is over capacity by this much with n records and one more to come.
\* (Slips: the limit is reached one record early; one eviction is enough.)
ExcessEarly(n) == IF n + 1 >= Capacity THEN n + 2 - Capacity ELSE 0
ExcessOne(n) == IF n + 1 > Capacity THEN 1 ELSE 0
Excess(n) == IF n + 1 > Capacity THEN n + 1 - Capacity ELSE 0

\* evictOverCapacity: finished records leave, least recently active first,
\* until the store fits or only running ones (and the new one) are left.
\* Records with the same last activity leave in any order.
VictimSets(kept) ==
    LET finished == {id \in kept : ~Running(id)}
        excess == Excess(Cardinality(kept))
        size == IF excess < Cardinality(finished) THEN excess ELSE Cardinality(finished)
    IN  {victims \in SUBSET finished :
            /\ Cardinality(victims) = size
            /\ \A v \in victims, f \in finished \ victims :
                  records[v].activity <= records[f].activity}

\* remove also deletes the tenant entry that names the removed record.
\* (Slip: the entry is left behind.)
LatestKept(t, removed) == latest[t]
LatestAfter(t, removed) == IF latest[t] \in removed THEN 0 ELSE latest[t]

\* begin
Begin(t) ==
    LET id == begun + 1
        kept == {i \in DOMAIN records : ~Idle(i)}
    IN  /\ begun < MaxOperations
        /\ begun' = id
        /\ open' = open \cup {id}
        /\ \E victims \in VictimSets(kept) :
              LET stay == kept \ victims
              IN  /\ records' = [i \in stay \cup {id} |->
                        IF i = id
                        THEN [tenant |-> t, status |-> "running", activity |-> now]
                        ELSE records[i]]
                  /\ latest' = [u \in Tenants |->
                        IF u = t THEN id
                        ELSE LatestAfter(u, DOMAIN records \ stay)]
        /\ UNCHANGED now

\* finishAs: the record is closed; one that is not there is made anew, without
\* a tenant.
Finish(id) ==
    /\ id \in open
    /\ open' = open \ {id}
    /\ records' = [i \in DOMAIN records \cup {id} |->
          IF i # id THEN records[i]
          ELSE [tenant |-> IF id \in DOMAIN records THEN records[id].tenant ELSE NoTenant,
                status |-> "finished", activity |-> now]]
    /\ UNCHANGED <<latest, begun, now>>

Tick ==
    /\ now < MaxTime
    /\ now' = now + 1
    /\ UNCHANGED <<records, latest, begun, open>>

\* The bounds are reached and every operation has finished.
Exhausted ==
    /\ begun = MaxOperations /\ open = {} /\ now = MaxTime
    /\ UNCHANGED vars

Next ==
    \/ \E t \in Tenants : Begin(t)
    \/ \E id \in open : Finish(id)
    \/ Tick
    \/ Exhausted

Spec == Init /\ [][Next]_vars

------------------------------------------------------------------------------
\* The records that belong to a tenant.
RecordsOf(t) == {id \in DOMAIN records : records[id].tenant = t}

\* lookup without an operation id, as compile-status and restart-status call
\* it for an environment: the tenant's latest record, or nothing.
LookupFinds(t) ==
    latest[t] \in DOMAIN records /\ records[latest[t]].tenant = t

\* A running operation is never evicted ("a running one never evicted",
\* operations.go:14): whoever is still working finds its own record when it
\* finishes, with its tenant, and the status tools report no other as running.
OpenIsTracked ==
    /\ open = {id \in DOMAIN records : Running(id)}
    /\ \A id \in DOMAIN records : records[id].tenant \in Tenants

\* The status tools' answer without an operation id is about the operation of
\* that environment that began last, never about an older or a foreign one.
LatestIsNewest ==
    \A t \in Tenants :
        latest[t] # 0 =>
            /\ LookupFinds(t)
            /\ \A id \in RecordsOf(t) : id <= latest[t]

\* Evictions bring the store back under its capacity as far as running
\* operations allow ("at most 50 records", operations.go:14).
BeginRespectsCapacity ==
    [][begun' # begun =>
          \/ Cardinality(DOMAIN records') <= Capacity
          \/ \A id \in DOMAIN records' : records'[id].status = "running"]_vars

\* A record that has not been idle for the time it is kept ("for 5 minutes
\* after finishing", operations.go:13) leaves only a store that stays full.
KeptUnlessFull ==
    [][\A id \in DOMAIN records \ DOMAIN records' :
          now - records[id].activity <= IdleTTL
              => Cardinality(DOMAIN records') >= Capacity]_vars

\* What the status tools say when they find nothing: "This MCP server session
\* holds no record of a restart operation for this environment"
\* (tool_operation_status.go:20).
NotFoundMeansNoRecord ==
    \A t \in Tenants : LookupFinds(t) \/ RecordsOf(t) = {}
=============================================================================
