------------------------ MODULE OperationStore_proofs ------------------------
(***************************************************************************)
(* Proofs about OperationStore for every number of tenants and operations, *)
(* every capacity and every idle time: its type invariant, that a running  *)
(* operation is never evicted, and that a tenant's latest record is the    *)
(* newest of that tenant.                                                  *)
(*                                                                         *)
(* The two safety invariants and TypeOK are inductive together: what begin *)
(* evicts is finished, so open operations keep their record, and finish    *)
(* therefore never has to make a record anew, which would have no tenant.  *)
(***************************************************************************)
EXTENDS OperationStore, FiniteSetTheorems, TLAPS

\* The inductive invariant.
IInv == TypeOK /\ OpenIsTracked /\ LatestIsNewest

\* What evictOverCapacity removes is finished and was still in the store
\* (operations.go:274-291).
LEMMA VictimsFinished ==
    ASSUME NEW kept, NEW victims \in VictimSets(kept)
    PROVE  victims \subseteq {id \in kept : ~Running(id)}
  BY DEF VictimSets

\* What one begin does to the store, whatever it evicts.
BeginEffect(t) ==
    /\ begun' = begun + 1
    /\ open' = open \cup {begun + 1}
    /\ now' = now
    /\ \E stay \in SUBSET DOMAIN records :
          /\ {id \in DOMAIN records : records[id].status = "running"} \subseteq stay
          /\ records' = [i \in stay \cup {begun + 1} |->
                IF i = begun + 1
                THEN [tenant |-> t, status |-> "running", activity |-> now]
                ELSE records[i]]
          /\ latest' = [u \in Tenants |->
                IF u = t THEN begun + 1
                ELSE IF latest[u] \in DOMAIN records \ stay THEN 0 ELSE latest[u]]

LEMMA BeginHasEffect ==
    ASSUME NEW t \in Tenants, Begin(t)
    PROVE  BeginEffect(t)
  <1> DEFINE kept == {i \in DOMAIN records : ~Idle(i)}
  <1>1. PICK victims \in VictimSets(kept) :
          /\ records' = [i \in (kept \ victims) \cup {begun + 1} |->
                IF i = begun + 1
                THEN [tenant |-> t, status |-> "running", activity |-> now]
                ELSE records[i]]
          /\ latest' = [u \in Tenants |->
                IF u = t THEN begun + 1
                ELSE LatestAfter(u, DOMAIN records \ (kept \ victims))]
    BY DEF Begin
  <1>2. victims \subseteq {id \in kept : ~Running(id)}
    BY VictimsFinished
  <1>3. {id \in DOMAIN records : Running(id)} \subseteq kept \ victims
    BY <1>2 DEF Idle
  <1> QED BY <1>1, <1>3 DEF Begin, BeginEffect, Running, LatestAfter

LEMMA InitEstablishes == Init => IInv
  BY StoreAssumption DEF Init, IInv, TypeOK, OpenIsTracked, LatestIsNewest, LookupFinds,
     RecordsOf, Running

LEMMA BeginPreserves ==
    ASSUME IInv, NEW t \in Tenants, BeginEffect(t)
    PROVE  IInv'
  <1> USE DEF IInv
  <1>1. PICK stay \in SUBSET DOMAIN records :
          /\ {id \in DOMAIN records : records[id].status = "running"} \subseteq stay
          /\ records' = [i \in stay \cup {begun + 1} |->
                IF i = begun + 1
                THEN [tenant |-> t, status |-> "running", activity |-> now]
                ELSE records[i]]
          /\ latest' = [u \in Tenants |->
                IF u = t THEN begun + 1
                ELSE IF latest[u] \in DOMAIN records \ stay THEN 0 ELSE latest[u]]
    BY DEF BeginEffect
  <1>2. /\ begun' = begun + 1
        /\ open' = open \cup {begun + 1}
        /\ now' = now
        /\ begun \in Nat
        /\ begun + 1 \notin DOMAIN records
    BY DEF BeginEffect, TypeOK
  <1>3. DOMAIN records' = stay \cup {begun + 1}
    BY <1>1
  <1>4. \A i \in stay : records'[i] = records[i]
    BY <1>1, <1>2
  <1>5. records'[begun + 1] = [tenant |-> t, status |-> "running", activity |-> now]
    BY <1>1
  <1>6. TypeOK'
    <2>1. \A i \in stay \cup {begun + 1} : records'[i] \in Record
      BY <1>4, <1>5 DEF TypeOK, Record
    <2>2. records' \in [DOMAIN records' -> Record]
      BY <2>1, <1>1, <1>3
    <2>3. latest' \in [Tenants -> 0..begun']
      BY <1>1, <1>2 DEF TypeOK
    <2> QED BY <2>2, <2>3, <1>2, <1>3 DEF TypeOK
  <1>7. OpenIsTracked'
    <2>1. {id \in DOMAIN records' : records'[id].status = "running"}
             = {id \in DOMAIN records : Running(id)} \cup {begun + 1}
      BY <1>1, <1>2, <1>3, <1>4, <1>5 DEF Running
    <2>2. \A id \in DOMAIN records' : records'[id].tenant \in Tenants
      BY <1>3, <1>4, <1>5 DEF OpenIsTracked
    <2> QED BY <2>1, <2>2, <1>2 DEF OpenIsTracked, Running
  <1>8. LatestIsNewest'
    <2> SUFFICES ASSUME NEW u \in Tenants, latest'[u] # 0
                 PROVE  /\ latest'[u] \in DOMAIN records'
                        /\ records'[latest'[u]].tenant = u
                        /\ \A id \in DOMAIN records' :
                              records'[id].tenant = u => id <= latest'[u]
      BY DEF LatestIsNewest, LookupFinds, RecordsOf
    <2>1. CASE u = t
      BY <2>1, <1>1, <1>2, <1>3, <1>5 DEF TypeOK
    <2>2. CASE u # t
      <3>1. latest'[u] = latest[u] /\ latest[u] \in stay
        BY <2>2, <1>1 DEF LatestIsNewest, LookupFinds
      <3>2. records[latest[u]].tenant = u
              /\ \A id \in stay : records[id].tenant = u => id <= latest[u]
        BY <3>1 DEF LatestIsNewest, LookupFinds, RecordsOf
      <3> QED BY <2>2, <3>1, <3>2, <1>3, <1>4, <1>5
    <2> QED BY <2>1, <2>2
  <1> QED BY <1>6, <1>7, <1>8

LEMMA FinishPreserves ==
    ASSUME IInv, NEW id \in open, Finish(id)
    PROVE  IInv'
  <1> USE DEF IInv
  <1>1. id \in DOMAIN records /\ Running(id) /\ records[id].tenant \in Tenants
    BY DEF OpenIsTracked
  <1>2. /\ records' = [i \in DOMAIN records |->
              IF i # id THEN records[i]
              ELSE [tenant |-> records[id].tenant, status |-> "finished", activity |-> now]]
        /\ latest' = latest /\ begun' = begun /\ now' = now /\ open' = open \ {id}
    <2>1. DOMAIN records \cup {id} = DOMAIN records
      BY <1>1
    <2> QED BY <1>1, <2>1 DEF Finish
  <1>3. \A i \in DOMAIN records : records'[i].tenant = records[i].tenant
    BY <1>2
  <1>4. TypeOK'
    BY <1>1, <1>2 DEF TypeOK, Record
  <1>5. OpenIsTracked'
    BY <1>2, <1>3 DEF OpenIsTracked, Running
  <1>6. LatestIsNewest'
    BY <1>2, <1>3 DEF LatestIsNewest, LookupFinds, RecordsOf
  <1> QED BY <1>4, <1>5, <1>6

LEMMA StepPreserves == IInv /\ [Next]_vars => IInv'
  <1> SUFFICES ASSUME IInv, [Next]_vars
               PROVE  IInv'
    OBVIOUS
  <1>1. CASE \E t \in Tenants : Begin(t)
    BY <1>1, BeginHasEffect, BeginPreserves
  <1>2. CASE \E id \in open : Finish(id)
    BY <1>2, FinishPreserves
  <1>3. CASE Tick
    BY <1>3 DEF Tick, IInv, TypeOK, OpenIsTracked, LatestIsNewest, LookupFinds, RecordsOf, Running
  <1>4. CASE UNCHANGED vars
    BY <1>4 DEF vars, IInv, TypeOK, OpenIsTracked, LatestIsNewest, LookupFinds, RecordsOf, Running
  <1> QED BY <1>1, <1>2, <1>3, <1>4 DEF Next, Exhausted

\* The inductive invariant holds in every state the store reaches.
THEOREM Invariant == Spec => []IInv
  BY InitEstablishes, StepPreserves, PTL DEF Spec

\* Every reachable store is well formed (operations.go:153-174).
THEOREM TypeCorrect == Spec => []TypeOK
  BY Invariant, PTL DEF IInv

\* However many operations run and whatever is evicted, a running operation
\* keeps its record and its tenant until it finishes (operations.go:14).
THEOREM RunningIsKept == Spec => []OpenIsTracked
  BY Invariant, PTL DEF IInv

\* A status answer without an operation id is about the newest operation of
\* that environment (lookup, operations.go:242-254).
THEOREM StatusIsNewest == Spec => []LatestIsNewest
  BY Invariant, PTL DEF IInv

------------------------------------------------------------------------------
\* What evictOverCapacity takes out of n = Cardinality(kept) records is just
\* what does not fit beside the new one, or all the finished records
\* (operations.go:274-291).
LEMMA VictimsCounted ==
    ASSUME NEW kept, IsFiniteSet(kept), NEW victims \in VictimSets(kept)
    PROVE  /\ IsFiniteSet(kept \ victims)
           /\ \/ victims = {} /\ Cardinality(kept) + 1 <= Capacity
              \/ Cardinality(kept \ victims) + 1 = Capacity
              \/ /\ victims = {id \in kept : ~Running(id)}
                 /\ Cardinality(kept \ victims) + 1 >= Capacity
  <1> USE StoreAssumption
  <1> DEFINE finished == {id \in kept : ~Running(id)}
             excess == Excess(Cardinality(kept))
  <1>1. /\ IsFiniteSet(finished) /\ Cardinality(finished) \in Nat
        /\ Cardinality(kept) \in Nat
    BY FS_Subset, FS_CardinalityType
  <1>2. /\ victims \subseteq finished
        /\ Cardinality(victims) =
              IF excess < Cardinality(finished) THEN excess ELSE Cardinality(finished)
    BY DEF VictimSets
  <1>3. IsFiniteSet(victims) /\ Cardinality(victims) \in Nat
    BY <1>1, <1>2, FS_Subset, FS_CardinalityType
  <1>4. kept \cap victims = victims
    BY <1>2
  <1>5. /\ IsFiniteSet(kept \ victims)
        /\ Cardinality(kept \ victims) = Cardinality(kept) - Cardinality(victims)
    BY <1>4, FS_Difference
  <1>6. excess = IF Cardinality(kept) + 1 > Capacity THEN Cardinality(kept) + 1 - Capacity ELSE 0
    BY DEF Excess
  <1> HIDE DEF finished, excess
  <1>7. CASE excess < Cardinality(finished) /\ Cardinality(kept) + 1 > Capacity
    BY <1>1, <1>2, <1>5, <1>6, <1>7
  <1>8. CASE Cardinality(kept) + 1 <= Capacity
    <2>1. excess = 0 /\ Cardinality(victims) = 0
      BY <1>1, <1>2, <1>6, <1>8
    <2>2. victims = {}
      BY <2>1, <1>3, FS_EmptySet
    <2> QED BY <2>2, <1>5, <1>8
  <1>9. CASE ~(excess < Cardinality(finished)) /\ Cardinality(kept) + 1 > Capacity
    <2>1. Cardinality(victims) = Cardinality(finished) /\ Cardinality(victims) <= excess
      BY <1>1, <1>2, <1>6, <1>9
    <2>2. victims = finished
      BY <2>1, <1>1, <1>2, FS_Subset
    <2>3. Cardinality(kept \ victims) + 1 >= Capacity
      BY <2>1, <1>1, <1>3, <1>5, <1>6, <1>9
    <2> QED BY <2>2, <2>3, <1>5 DEF finished
  <1> QED BY <1>1, <1>7, <1>8, <1>9

\* What evictIdle leaves.
Kept == {i \in DOMAIN records : ~Idle(i)}

\* One begin, as far as the counting needs it.
LEMMA BeginCounts ==
    ASSUME TypeOK, NEW t \in Tenants, Begin(t)
    PROVE  \E victims \in VictimSets(Kept) :
              /\ DOMAIN records' = (Kept \ victims) \cup {begun + 1}
              /\ records'[begun + 1].status = "running"
              /\ \A i \in Kept \ victims : records'[i] = records[i]
              /\ IsFiniteSet(Kept \ victims)
              /\ Cardinality(DOMAIN records') = Cardinality(Kept \ victims) + 1
              /\ \/ victims = {} /\ Cardinality(Kept) + 1 <= Capacity
                 \/ Cardinality(Kept \ victims) + 1 = Capacity
                 \/ /\ victims = {id \in Kept : ~Running(id)}
                    /\ Cardinality(Kept \ victims) + 1 >= Capacity
  <1>1. PICK victims \in VictimSets(Kept) :
          records' = [i \in (Kept \ victims) \cup {begun + 1} |->
                IF i = begun + 1
                THEN [tenant |-> t, status |-> "running", activity |-> now]
                ELSE records[i]]
    BY DEF Begin, Kept
  <1>2. Kept \subseteq 1..begun /\ Kept \subseteq DOMAIN records /\ begun \in Nat
    BY DEF TypeOK, Kept
  <1>3. IsFiniteSet(Kept) /\ begun + 1 \notin Kept
    <2>1. IsFiniteSet(1..begun)
      BY <1>2, FS_Interval
    <2>2. IsFiniteSet(Kept)
      BY <1>2, <2>1, FS_Subset
    <2> QED BY <1>2, <2>2
  <1>4. /\ IsFiniteSet(Kept \ victims)
        /\ \/ victims = {} /\ Cardinality(Kept) + 1 <= Capacity
           \/ Cardinality(Kept \ victims) + 1 = Capacity
           \/ /\ victims = {id \in Kept : ~Running(id)}
              /\ Cardinality(Kept \ victims) + 1 >= Capacity
    BY <1>3, VictimsCounted
  <1>5. DOMAIN records' = (Kept \ victims) \cup {begun + 1}
    BY <1>1
  <1>6. Cardinality(DOMAIN records') = Cardinality(Kept \ victims) + 1
    BY <1>3, <1>4, <1>5, FS_AddElement
  <1>7. /\ records'[begun + 1].status = "running"
        /\ \A i \in Kept \ victims : records'[i] = records[i]
    BY <1>1, <1>3
  <1> QED BY <1>2, <1>4, <1>5, <1>6, <1>7 DEF Kept

\* The only step that begins an operation, or that lets a record go.
LEMMA OnlyBeginEvicts ==
    ASSUME [Next]_vars,
           begun' # begun \/ DOMAIN records \ DOMAIN records' # {}
    PROVE  \E t \in Tenants : Begin(t)
  <1>1. ASSUME NEW id \in open, Finish(id) PROVE FALSE
    <2>1. DOMAIN records' = DOMAIN records \cup {id} /\ begun' = begun
      BY <1>1 DEF Finish
    <2> QED BY <2>1
  <1> QED BY <1>1 DEF Next, Tick, Exhausted, vars

\* After every begin the store is within its capacity or holds only running
\* operations, for every capacity ("at most 50 records", operations.go:14).
LEMMA BeginStepCapacity ==
    ASSUME TypeOK, [Next]_vars, begun' # begun
    PROVE  \/ Cardinality(DOMAIN records') <= Capacity
           \/ \A id \in DOMAIN records' : records'[id].status = "running"
  <1>1. PICK t \in Tenants : Begin(t)
    BY OnlyBeginEvicts
  <1>2. PICK victims \in VictimSets(Kept) :
          /\ DOMAIN records' = (Kept \ victims) \cup {begun + 1}
          /\ records'[begun + 1].status = "running"
          /\ \A i \in Kept \ victims : records'[i] = records[i]
          /\ Cardinality(DOMAIN records') = Cardinality(Kept \ victims) + 1
          /\ \/ victims = {} /\ Cardinality(Kept) + 1 <= Capacity
             \/ Cardinality(Kept \ victims) + 1 = Capacity
             \/ victims = {id \in Kept : ~Running(id)}
    BY <1>1, BeginCounts
  <1>3. CASE victims = {} /\ Cardinality(Kept) + 1 <= Capacity
    <2>1. Kept \ victims = Kept
      BY <1>3
    <2> QED BY <1>2, <1>3, <2>1
  <1>4. CASE Cardinality(Kept \ victims) + 1 = Capacity
    BY <1>2, <1>4, StoreAssumption
  <1>5. CASE victims = {id \in Kept : ~Running(id)}
    BY <1>2, <1>5 DEF Running
  <1> QED BY <1>2, <1>3, <1>4, <1>5

\* A record leaves before its time only from a store that stays full.
LEMMA StepKeeps ==
    ASSUME TypeOK, [Next]_vars,
           NEW id \in DOMAIN records \ DOMAIN records',
           now - records[id].activity <= IdleTTL
    PROVE  Cardinality(DOMAIN records') >= Capacity
  <1>1. PICK t \in Tenants : Begin(t)
    BY OnlyBeginEvicts
  <1>2. PICK victims \in VictimSets(Kept) :
          /\ DOMAIN records' = (Kept \ victims) \cup {begun + 1}
          /\ Cardinality(DOMAIN records') = Cardinality(Kept \ victims) + 1
          /\ \/ victims = {} /\ Cardinality(Kept) + 1 <= Capacity
             \/ Cardinality(Kept \ victims) + 1 = Capacity
             \/ Cardinality(Kept \ victims) + 1 >= Capacity
    BY <1>1, BeginCounts
  <1>3. now \in Nat /\ records[id].activity \in Nat
    BY DEF TypeOK, Record
  <1>4. id \in Kept
    BY <1>2, <1>3, StoreAssumption DEF Idle, Kept
  <1>5. id \in victims
    BY <1>2, <1>4
  <1> QED BY <1>2, <1>5, StoreAssumption

\* Every begin brings the store back under its capacity as far as running
\* operations allow (evictOverCapacity, operations.go:274).
THEOREM CapacityBinds == Spec => BeginRespectsCapacity
  <1>1. TypeOK /\ [Next]_vars =>
          [begun' # begun =>
              \/ Cardinality(DOMAIN records') <= Capacity
              \/ \A id \in DOMAIN records' : records'[id].status = "running"]_vars
    BY BeginStepCapacity
  <1> QED BY <1>1, TypeCorrect, PTL DEF Spec, BeginRespectsCapacity

\* No status is lost before its time unless the store is full
\* (evictIdle and evictOverCapacity, operations.go:256-291).
THEOREM StatusIsKeptItsTime == Spec => KeptUnlessFull
  <1>1. TypeOK /\ [Next]_vars =>
          [\A id \in DOMAIN records \ DOMAIN records' :
              now - records[id].activity <= IdleTTL
                  => Cardinality(DOMAIN records') >= Capacity]_vars
    BY StepKeeps
  <1> QED BY <1>1, TypeCorrect, PTL DEF Spec, KeptUnlessFull
=============================================================================
