--------------------------- MODULE Restarts_proofs ---------------------------
(***************************************************************************)
(* What the restart tools tell, for every number of calls, targets and     *)
(* attempts: accepted is said only of a restart the target carried out,    *)
(* and a record says running exactly while its work goes on.               *)
(*                                                                         *)
(* What the registry guarantees is taken from its own proofs (StoreP).     *)
(* Each call has an operation of its own, so the record it closes is never *)
(* another call's, and it is open until then.                              *)
(***************************************************************************)
EXTENDS Restarts, TLAPS

\* The operation store with the facts proved about it.
StoreP == INSTANCE OperationStore_proofs WITH Tenants <- Targets

Working(c) == calls[c].work \in {"requesting", "probing"}

\* Handler, work, record and target of one call agree.
Agrees(c) ==
    /\ calls[c].work = "none" <=> calls[c].handler = "idle"
    /\ calls[c].work = "none" => calls[c].op = 0 /\ calls[c].status = "none"
    /\ calls[c].accepted => c \in performed
    /\ calls[c].handler = "accepted" => calls[c].accepted
    /\ calls[c].handler \in {"done", "failed"} => calls[c].work = calls[c].handler
    /\ calls[c].work = "probing" => calls[c].waitReady
    /\ ~calls[c].waitReady => calls[c].op = 0 /\ calls[c].status = "none"
    /\ calls[c].waitReady =>
          /\ calls[c].status = "running" <=> Working(c)
          /\ calls[c].op \in open <=> Working(c)
          /\ calls[c].work = "done" => calls[c].status = "ready"
          /\ calls[c].work = "failed" => calls[c].status \in {"requestfailed", "timedout"}
    /\ calls[c].op \in 0..begun

\* No two calls have an operation in common.
OwnOperations == \A c, d \in Calls : c # d /\ calls[c].op = calls[d].op => calls[c].op = 0

\* The inductive invariant.
IInv ==
    /\ TypeOK
    /\ StoreP!IInv
    /\ \A c \in Calls : Agrees(c)
    /\ OwnOperations

\* The targets of this module are tenants for the store.
LEMMA StoreAssumed == StoreP!StoreAssumption
  BY RestartsAssumption DEF StoreP!StoreAssumption

\* Both instances of the store mean the same by a type.
LEMMA StoreTyped ==
    /\ Store!TypeOK <=> StoreP!TypeOK
    /\ Store!TypeOK' <=> StoreP!TypeOK'
  BY DEF Store!TypeOK, StoreP!TypeOK, Store!Record, StoreP!Record

\* A step that leaves the store alone keeps its invariant.
LEMMA StoreStays ==
    ASSUME StoreP!IInv, UNCHANGED storeVars
    PROVE  StoreP!IInv' /\ Store!TypeOK' /\ open' = open /\ begun' = begun
  <1>1. StoreP!vars' = StoreP!vars
    BY DEF storeVars, StoreP!vars
  <1>2. StoreP!IInv'
    BY <1>1, StoreAssumed, StoreP!StepPreserves
  <1> QED BY <1>2, StoreTyped DEF StoreP!IInv, storeVars

\* An operation that is begun is the only one of its number.
LEMMA StoreBegins ==
    ASSUME StoreP!IInv, NEW t \in Targets, Store!Begin(t)
    PROVE  /\ StoreP!IInv' /\ Store!TypeOK'
           /\ begun' = begun + 1 /\ open' = open \cup {begun + 1}
  <1> DEFINE kept == {i \in DOMAIN records : ~Store!Idle(i)}
  <1>1. PICK victims \in Store!VictimSets(kept) :
          /\ records' = [i \in (kept \ victims) \cup {begun + 1} |->
                IF i = begun + 1
                THEN [tenant |-> t, status |-> "running", activity |-> now]
                ELSE records[i]]
          /\ latest' = [u \in Targets |->
                IF u = t THEN begun + 1
                ELSE Store!LatestAfter(u, DOMAIN records \ (kept \ victims))]
    BY DEF Store!Begin
  <1>2. victims \subseteq {id \in kept : ~Store!Running(id)}
    BY DEF Store!VictimSets
  <1>3. {id \in DOMAIN records : records[id].status = "running"} \subseteq kept \ victims
    BY <1>2 DEF Store!Idle, Store!Running
  <1>4. StoreP!BeginEffect(t)
    BY <1>1, <1>3 DEF Store!Begin, StoreP!BeginEffect, Store!LatestAfter
  <1>5. StoreP!IInv'
    BY <1>4, StoreAssumed, StoreP!BeginPreserves
  <1> QED BY <1>4, <1>5, StoreTyped DEF StoreP!IInv, StoreP!BeginEffect

\* A call that closes its record closes its own, and no other.
LEMMA Closes ==
    ASSUME IInv, NEW c \in Calls, Working(c), Close(c)
    PROVE  /\ StoreP!IInv' /\ Store!TypeOK' /\ begun' = begun
           /\ open' = IF calls[c].waitReady THEN open \ {calls[c].op} ELSE open
  <1>1. CASE ~calls[c].waitReady
    BY <1>1, StoreStays DEF IInv, Close
  <1>2. CASE calls[c].waitReady
    <2>1. StoreP!Finish(calls[c].op) /\ calls[c].op \in open
      BY <1>2 DEF Close, Store!Finish, StoreP!Finish
    <2>2. StoreP!IInv'
      BY <2>1, StoreAssumed, StoreP!FinishPreserves DEF IInv
    <2> QED BY <1>2, <2>1, <2>2, StoreTyped DEF StoreP!IInv, StoreP!Finish
  <1> QED BY <1>1, <1>2

\* Only one call changes, to a record r that agrees, and with it at most its
\* own operation is begun or closed.
LEMMA OneCallSteps ==
    ASSUME IInv, NEW c \in Calls, NEW r \in Call,
           calls' = [calls EXCEPT ![c] = r],
           StoreP!IInv', Store!TypeOK',
           performed' \in {performed, performed \cup {c}}, up' \subseteq Targets,
           unheard' \in [Calls -> Nat], begun' >= begun, r.op \in {calls[c].op, begun'},
           r.op # calls[c].op => begun' = begun + 1,
           \A id \in (1..begun) \ {r.op} : id \in open' <=> id \in open,
           Agrees(c)'
    PROVE  IInv'
  <1>1. TypeOK'
    BY DEF IInv, TypeOK
  <1>2. \A d \in Calls \ {c} : calls'[d] = calls[d]
    BY DEF IInv, TypeOK
  <1>3. calls'[c] = r
    BY DEF IInv, TypeOK
  <1>4. begun \in Nat /\ begun' \in Nat /\ open \subseteq 1..begun /\ open' \subseteq 1..begun'
    BY DEF IInv, TypeOK, Store!TypeOK
  <1>5. ASSUME NEW d \in Calls \ {c} PROVE Agrees(d)'
    <2>1. Agrees(d) /\ calls[d] \in Call
      BY DEF IInv, TypeOK
    <2>2. calls[d].op \in 0..begun /\ (calls[d].op = r.op => calls[d].op = 0)
      BY <2>1, <1>4 DEF IInv, OwnOperations, Agrees, Call
    <2>3. calls[d].op \in open' <=> calls[d].op \in open
      BY <2>2, <1>4
    <2>4. Working(d)' <=> Working(d)
      BY <1>2 DEF Working
    <2> QED BY <2>1, <2>2, <2>3, <2>4, <1>2, <1>4 DEF Agrees
  <1>6. OwnOperations'
    <2>1. \A d \in Calls : calls[d].op \in 0..begun
      BY DEF IInv, Agrees
    <2> QED BY <1>2, <1>3, <1>4, <2>1 DEF IInv, OwnOperations, Call
  <1> QED BY <1>1, <1>5, <1>6 DEF IInv

LEMMA BeginPreserves ==
    ASSUME IInv, NEW c \in Calls, Begin(c)
    PROVE  IInv'
  <1> DEFINE r == [calls[c] EXCEPT !.op = begun + 1, !.status = "running",
                                   !.handler = "waiting", !.work = "requesting"]
  <1>1. calls \in [Calls -> Call] /\ begun \in Nat /\ Agrees(c) /\ open \subseteq 1..begun
    BY DEF IInv, TypeOK, Store!TypeOK
  <1>2. calls[c] \in Call /\ calls[c].target \in Targets
    BY <1>1 DEF Call
  <1>3. /\ StoreP!IInv' /\ Store!TypeOK'
        /\ begun' = begun + 1 /\ open' = open \cup {begun + 1}
    BY <1>2, StoreBegins DEF IInv, Begin
  <1>4. r \in Call
    <2>1. [calls[c] EXCEPT !.op = begun + 1] \in Call
      BY <1>1, <1>2 DEF Call
    <2>2. \A q \in Call : /\ [q EXCEPT !.status = "running"] \in Call
                           /\ [q EXCEPT !.handler = "waiting"] \in Call
                           /\ [q EXCEPT !.work = "requesting"] \in Call
      BY DEF Call, Answers, Statuses
    <2> QED BY <2>1, <2>2
  <1>5. calls' = [calls EXCEPT ![c] = r]
    <2>1. calls' = [calls EXCEPT ![c].op = begun + 1, ![c].status = "running",
                                 ![c].handler = "waiting", ![c].work = "requesting"]
      BY DEF Begin
    <2> QED BY <1>1, <2>1
  <1>6. calls'[c] = r
    BY <1>1, <1>5
  <1>7. Agrees(c)'
    BY <1>1, <1>2, <1>3, <1>6 DEF Agrees, Working, Begin, Call
  <1>8. r.op = begun + 1
    BY <1>2 DEF Call
  <1> HIDE DEF r
  <1>9. \A id \in (1..begun) \ {r.op} : id \in open' <=> id \in open
    BY <1>1, <1>3, <1>8
  <1>10. /\ up' \subseteq Targets /\ performed' \in {performed, performed \cup {c}}
         /\ unheard' \in [Calls -> Nat]
    BY DEF Begin, IInv, TypeOK
  <1>11. begun' >= begun /\ r.op \in {calls[c].op, begun'} /\ begun' = begun + 1
    BY <1>1, <1>3, <1>8
  <1> QED BY <1>3, <1>4, <1>5, <1>7, <1>9, <1>10, <1>11, OneCallSteps

\* A step of one call that leaves the store alone, or closes its record.
LEMMA WithoutBegin ==
    ASSUME IInv, NEW c \in Calls, NEW r \in Call, r.op = calls[c].op,
           calls' = [calls EXCEPT ![c] = r],
           performed' \in {performed, performed \cup {c}}, up' \subseteq Targets,
           unheard' \in [Calls -> Nat],
           UNCHANGED storeVars \/ (Working(c) /\ Close(c)), Agrees(c)'
    PROVE  IInv'
  <1>1. /\ StoreP!IInv' /\ Store!TypeOK' /\ begun' = begun
        /\ open' \in {open, open \ {calls[c].op}}
    BY StoreStays, Closes DEF IInv
  <1>2. begun \in Nat
    BY DEF IInv, TypeOK, Store!TypeOK
  <1>3. \A id \in (1..begun) \ {r.op} : id \in open' <=> id \in open
    BY <1>1
  <1>4. begun' >= begun /\ r.op \in {calls[c].op, begun'}
    BY <1>1, <1>2
  <1>5. r.op # calls[c].op => begun' = begun + 1
    OBVIOUS
  <1> QED BY <1>1, <1>3, <1>4, <1>5, OneCallSteps

LEMMA StartDirectPreserves ==
    ASSUME IInv, NEW c \in Calls, StartDirect(c)
    PROVE  IInv'
  <1> DEFINE r == [calls[c] EXCEPT !.handler = "waiting", !.work = "requesting"]
  <1>1. calls \in [Calls -> Call] /\ Agrees(c) /\ calls[c] \in Call
    BY DEF IInv, TypeOK
  <1>2. calls' = [calls EXCEPT ![c].handler = "waiting", ![c].work = "requesting"]
        /\ UNCHANGED <<performed, unheard, up, storeVars>>
    BY DEF StartDirect
  <1>3. r \in Call /\ r.op = calls[c].op
    BY <1>1 DEF Call, Answers, Statuses
  <1>4. calls' = [calls EXCEPT ![c] = r]
    BY <1>1, <1>2
  <1>5. Agrees(c)'
    BY <1>1, <1>2 DEF Agrees, Working, StartDirect, Call, storeVars
  <1>6. /\ up' \subseteq Targets /\ performed' \in {performed, performed \cup {c}}
        /\ unheard' \in [Calls -> Nat]
    BY <1>2 DEF IInv, TypeOK
  <1> QED BY <1>2, <1>3, <1>4, <1>5, <1>6, WithoutBegin

LEMMA AnswerPreserves ==
    ASSUME IInv, NEW c \in Calls, Answer(c)
    PROVE  IInv'
  <1>1. calls \in [Calls -> Call] /\ Agrees(c) /\ calls[c] \in Call
    BY DEF IInv, TypeOK
  <1>2. PICK a \in AnswersNow(c) : calls' = [calls EXCEPT ![c].handler = a]
    BY DEF Answer
  <1>3. a \in Answers /\ calls[c].handler = "waiting" /\ UNCHANGED <<performed, unheard, up, storeVars>>
    BY DEF Answer, AnswersNow, DeadlineAnswer, Answers
  <1> DEFINE r == [calls[c] EXCEPT !.handler = a]
  <1>4. r \in Call /\ r.op = calls[c].op
    BY <1>1, <1>3 DEF Call
  <1>5. calls' = [calls EXCEPT ![c] = r]
    BY <1>1, <1>2
  <1>6. /\ a = "accepted" => calls[c].accepted
        /\ a \in {"done", "failed"} => calls[c].work = a
        /\ a # "idle"
    BY DEF AnswersNow, DeadlineAnswer
  <1>7. Agrees(c)'
    BY <1>1, <1>2, <1>3, <1>6 DEF Agrees, Working, Call, storeVars
  <1>8. /\ up' \subseteq Targets /\ performed' \in {performed, performed \cup {c}}
        /\ unheard' \in [Calls -> Nat]
    BY <1>3 DEF IInv, TypeOK
  <1> QED BY <1>3, <1>4, <1>5, <1>7, <1>8, WithoutBegin

LEMMA RequestSucceedsPreserves ==
    ASSUME IInv, NEW c \in Calls, RequestSucceeds(c)
    PROVE  IInv'
  <1> DEFINE w == IF calls[c].waitReady THEN "probing" ELSE "done"
             r == [calls[c] EXCEPT !.accepted = TRUE, !.work = w]
  <1>1. calls \in [Calls -> Call] /\ Agrees(c) /\ calls[c] \in Call /\ calls[c].work = "requesting"
    BY DEF IInv, TypeOK, RequestSucceeds, Requesting
  <1>2. /\ calls' = [calls EXCEPT ![c].accepted = TRUE, ![c].work = w]
        /\ performed' = performed \cup {c} /\ up' = up \ {calls[c].target}
        /\ UNCHANGED <<unheard, storeVars>>
    BY DEF RequestSucceeds, Perform
  <1>3. w \in {"probing", "done"} /\ (w = "probing" <=> calls[c].waitReady)
    BY <1>1 DEF Call
  <1> HIDE DEF w
  <1>4. r \in Call /\ r.op = calls[c].op
    BY <1>1, <1>3 DEF Call
  <1>5. calls' = [calls EXCEPT ![c] = r]
    BY <1>1, <1>2
  <1>6. Agrees(c)'
    BY <1>1, <1>2, <1>3 DEF Agrees, Working, Call, storeVars
  <1>7. /\ up' \subseteq Targets /\ performed' \in {performed, performed \cup {c}}
        /\ unheard' \in [Calls -> Nat]
    BY <1>2 DEF IInv, TypeOK
  <1> QED BY <1>2, <1>4, <1>5, <1>6, <1>7, WithoutBegin

\* The work of a call ends, and its record is closed with a final status.
LEMMA EndPreserves ==
    ASSUME IInv, NEW c \in Calls, Working(c), Close(c),
           NEW w \in {"failed", "done"}, NEW s \in Statuses, NEW n \in 0..Attempts,
           ~calls[c].waitReady => w = "failed" /\ s = "none",
           calls[c].waitReady => \/ w = "done" /\ s = "ready"
                                 \/ w = "failed" /\ s \in {"requestfailed", "timedout"},
           calls' = [calls EXCEPT ![c].attempt = n, ![c].work = w, ![c].status = s],
           performed' \in {performed, performed \cup {c}}, up' \subseteq Targets,
           unheard' \in [Calls -> Nat]
    PROVE  IInv'
  <1> DEFINE r == [calls[c] EXCEPT !.attempt = n, !.work = w, !.status = s]
  <1>1. calls \in [Calls -> Call] /\ Agrees(c) /\ calls[c] \in Call
    BY DEF IInv, TypeOK
  <1>2. r \in Call /\ r.op = calls[c].op
    BY <1>1 DEF Call
  <1>3. calls' = [calls EXCEPT ![c] = r]
    BY <1>1
  <1>4. /\ begun' = begun
        /\ open' = IF calls[c].waitReady THEN open \ {calls[c].op} ELSE open
    BY Closes
  <1>5. Agrees(c)'
    BY <1>1, <1>4 DEF Agrees, Working, Call
  <1> QED BY <1>2, <1>3, <1>5, WithoutBegin

LEMMA RequestFailsPreserves ==
    ASSUME IInv, NEW c \in Calls, RequestFails(c)
    PROVE  IInv'
  <1> DEFINE last == calls[c].attempt + 1 >= Attempts \/ calls[c].handler = "cancelled"
  <1>1. calls \in [Calls -> Call] /\ Agrees(c) /\ calls[c] \in Call /\ calls[c].work = "requesting"
    BY DEF IInv, TypeOK, RequestFails, Requesting
  <1>2. /\ up' \subseteq Targets /\ performed' \in {performed, performed \cup {c}}
        /\ unheard' \in [Calls -> Nat]
    BY DEF RequestFails, Perform, IInv, TypeOK
  <1>3. calls' = [calls EXCEPT
              ![c].attempt = IF last THEN @ ELSE @ + 1,
              ![c].accepted = calls[c].accepted,
              ![c].work = IF last THEN "failed" ELSE "requesting",
              ![c].status = IF last THEN StatusOf(c, "requestfailed") ELSE @]
    BY DEF RequestFails, AcceptedAfter
  <1>4. IF last THEN Close(c) ELSE UNCHANGED storeVars
    BY DEF RequestFails
  <1> HIDE DEF last
  <1>5. CASE last
    <2> DEFINE s == StatusOf(c, "requestfailed")
    <2>1. calls' = [calls EXCEPT ![c].attempt = calls[c].attempt, ![c].work = "failed", ![c].status = s]
      BY <1>1, <1>3, <1>5 DEF Call
    <2>2. /\ s \in Statuses
          /\ ~calls[c].waitReady => s = "none"
          /\ calls[c].waitReady => s = "requestfailed"
      BY DEF StatusOf, Statuses
    <2>3. calls[c].attempt \in 0..Attempts
      BY <1>1 DEF Call
    <2> HIDE DEF s
    <2> QED BY <1>1, <1>2, <1>4, <1>5, <2>1, <2>2, <2>3, EndPreserves DEF Working
  <1>6. CASE ~last
    <2> DEFINE r == [calls[c] EXCEPT !.attempt = calls[c].attempt + 1]
    <2>1. calls[c].attempt + 1 \in 0..Attempts
      BY <1>1, <1>6, RestartsAssumption DEF last, Call
    <2>2. r \in Call /\ r.op = calls[c].op
      BY <1>1, <2>1 DEF Call
    <2>3. calls' = [calls EXCEPT ![c] = r]
      <3>1. calls' = [calls EXCEPT ![c].attempt = calls[c].attempt + 1,
                                   ![c].accepted = calls[c].accepted,
                                   ![c].work = calls[c].work, ![c].status = calls[c].status]
        BY <1>1, <1>3, <1>6
      <3>2. calls' = [calls EXCEPT ![c].attempt = calls[c].attempt + 1]
        BY <1>1, <3>1 DEF Call
      <3> QED BY <1>1, <3>2
    <2>4. Agrees(c)'
      BY <1>1, <1>2, <1>4, <1>6, <2>3 DEF Agrees, Working, Call, storeVars
    <2> QED BY <1>2, <1>4, <1>6, <2>2, <2>3, <2>4, WithoutBegin
  <1> QED BY <1>5, <1>6

LEMMA ResolveFailsPreserves ==
    ASSUME IInv, NEW c \in Calls, ResolveFails(c)
    PROVE  IInv'
  <1> DEFINE s == StatusOf(c, "requestfailed")
  <1>1. calls \in [Calls -> Call] /\ calls[c] \in Call /\ calls[c].attempt \in 0..Attempts
    BY DEF IInv, TypeOK, Call
  <1>2. /\ s \in Statuses
        /\ ~calls[c].waitReady => s = "none"
        /\ calls[c].waitReady => s = "requestfailed"
    BY DEF StatusOf, Statuses
  <1>3. calls' = [calls EXCEPT ![c].work = "failed", ![c].status = s]
        /\ Working(c) /\ Close(c) /\ UNCHANGED <<performed, unheard, up>>
    BY DEF ResolveFails, Requesting, Working
  <1> HIDE DEF s
  <1>4. calls' = [calls EXCEPT ![c].attempt = calls[c].attempt, ![c].work = "failed", ![c].status = s]
    BY <1>1, <1>3 DEF Call
  <1>5. /\ up' \subseteq Targets /\ performed' \in {performed, performed \cup {c}}
        /\ unheard' \in [Calls -> Nat]
    BY <1>3 DEF IInv, TypeOK
  <1> QED BY <1>1, <1>2, <1>3, <1>4, <1>5, EndPreserves

LEMMA ReadyPreserves ==
    ASSUME IInv, NEW c \in Calls, Ready(c) \/ NotReady(c)
    PROVE  IInv'
  <1>1. /\ calls \in [Calls -> Call] /\ calls[c] \in Call /\ calls[c].attempt \in 0..Attempts
        /\ Agrees(c)
    BY DEF IInv, TypeOK, Call
  <1>2. Working(c) /\ Close(c) /\ UNCHANGED <<performed, unheard, up>> /\ calls[c].waitReady
    BY <1>1 DEF Ready, NotReady, Working, Agrees
  <1>3. PICK w \in {"failed", "done"}, s \in {"ready", "timedout"} :
          /\ (w = "done" /\ s = "ready") \/ (w = "failed" /\ s = "timedout")
          /\ calls' = [calls EXCEPT ![c].work = w, ![c].status = s]
    BY DEF Ready, NotReady
  <1>4. calls' = [calls EXCEPT ![c].attempt = calls[c].attempt, ![c].work = w, ![c].status = s]
    BY <1>1, <1>3 DEF Call
  <1>5. /\ up' \subseteq Targets /\ performed' \in {performed, performed \cup {c}} /\ s \in Statuses
        /\ unheard' \in [Calls -> Nat]
    BY <1>2 DEF IInv, TypeOK, Statuses
  <1> QED BY <1>1, <1>2, <1>3, <1>4, <1>5, EndPreserves

\* A step that changes no call keeps what the calls have in common.
LEMMA CallsStay ==
    ASSUME IInv, UNCHANGED <<calls, open, begun>>,
           performed \subseteq performed', performed' \subseteq Calls,
           unheard' \in [Calls -> Nat], StoreP!IInv', up' \subseteq Targets
    PROVE  IInv'
  <1>1. Store!TypeOK'
    BY StoreTyped DEF StoreP!IInv
  <1> QED BY <1>1 DEF IInv, TypeOK, Agrees, Working, OwnOperations

LEMMA TickPreserves == IInv /\ Tick => IInv'
  <1> SUFFICES ASSUME IInv, Tick
               PROVE  IInv'
    OBVIOUS
  <1>1. StoreP!Tick /\ UNCHANGED <<open, begun, calls, performed, unheard, up>>
    BY DEF Tick, Store!Tick, StoreP!Tick
  <1>2. StoreP!IInv'
    BY <1>1, StoreAssumed, StoreP!StepPreserves DEF StoreP!Next, IInv
  <1>3. up' \subseteq Targets /\ performed' \subseteq Calls /\ unheard' \in [Calls -> Nat]
    BY <1>1 DEF IInv, TypeOK
  <1> QED BY <1>1, <1>2, <1>3, CallsStay

LEMMA InitEstablishes == Init => IInv
  <1> SUFFICES ASSUME Init
               PROVE  IInv
    OBVIOUS
  <1>1. StoreP!IInv /\ Store!TypeOK
    <2>1. StoreP!Init
      BY DEF Init, Store!Init, StoreP!Init
    <2> QED BY <2>1, StoreAssumed, StoreP!InitEstablishes, StoreTyped DEF StoreP!IInv
  <1>2. PICK target \in [Calls -> Targets], waitReady \in [Calls -> BOOLEAN] :
          calls = [c \in Calls |->
             [target |-> target[c], waitReady |-> waitReady[c],
              op |-> 0, status |-> "none", handler |-> "idle", work |-> "none",
              attempt |-> 0, accepted |-> FALSE]]
    BY DEF Init
  <1>3. calls \in [Calls -> Call]
    BY <1>2, RestartsAssumption DEF Call, Statuses
  <1>4. TypeOK
    BY <1>1, <1>3 DEF Init, TypeOK
  <1>5. open = {} /\ begun = 0
    BY DEF Init, Store!Init
  <1>6. \A c \in Calls : Agrees(c)
    BY <1>2, <1>5 DEF Agrees, Working
  <1>7. OwnOperations
    BY <1>2 DEF OwnOperations
  <1> QED BY <1>1, <1>4, <1>6, <1>7 DEF IInv

LEMMA StepPreserves == IInv /\ [Next]_vars => IInv'
  <1> SUFFICES ASSUME IInv, [Next]_vars
               PROVE  IInv'
    OBVIOUS
  <1>1. CASE \E c \in Calls : HandlerStep(c) \/ WorkStep(c)
    BY <1>1, BeginPreserves, StartDirectPreserves, AnswerPreserves, RequestSucceedsPreserves,
       RequestFailsPreserves, ResolveFailsPreserves, ReadyPreserves DEF HandlerStep, WorkStep
  <1>2. CASE (\E c \in Calls : RestartLater(c)) \/ (\E t \in Targets : Boot(t)) \/ UNCHANGED vars
    <2>1. /\ UNCHANGED <<calls, storeVars>> /\ up' \subseteq Targets
          /\ performed \subseteq performed' /\ performed' \subseteq Calls
          /\ unheard' \in [Calls -> Nat]
      BY <1>2 DEF RestartLater, Perform, Boot, vars, storeVars, IInv, TypeOK
    <2>2. StoreP!IInv'
      BY <2>1, StoreStays DEF IInv
    <2> QED BY <2>1, <2>2, CallsStay DEF storeVars
  <1>3. CASE Tick
    BY <1>3, TickPreserves
  <1> QED BY <1>1, <1>2, <1>3 DEF Next, AllOver

\* The inductive invariant holds in every state the restart tools reach.
THEOREM Invariant == Spec => []IInv
  BY InitEstablishes, StepPreserves, PTL DEF Spec

\* Every reachable state is well formed (tool_pkg_write_restart.go:150-236).
THEOREM TypeCorrect == Spec => []TypeOK
  BY Invariant, PTL DEF IInv

\* The deadline says accepted only of a restart the target carried out,
\* however many attempts the request took (tool_pkg_write_restart.go:180-236).
THEOREM AcceptedIsTold == Spec => []AcceptedMeansPerformed
  <1>1. IInv => AcceptedMeansPerformed
    BY DEF IInv, Agrees, AcceptedMeansPerformed
  <1> QED BY <1>1, Invariant, PTL

\* How the restart ended is answered as restart-status reports it
\* (tool_pkg_write_restart.go:187-226).
THEOREM AnswersAgree == Spec => []AnswerAgreesWithStatus
  <1>1. IInv => AnswerAgreesWithStatus
    BY DEF IInv, Agrees, Working, AnswerAgreesWithStatus
  <1> QED BY <1>1, Invariant, PTL

\* A record says running exactly as long as its work goes on, whatever other
\* calls begin and close (operations.go:153-174 and 200-231).
THEOREM StatusIsKept == Spec => []StatusFollowsTheWork
  <1>1. IInv => StatusFollowsTheWork
    <2> SUFFICES ASSUME IInv, NEW c \in Calls
                 PROVE  calls[c].status = "running" <=> calls[c].op \in open /\ Working(c)
      BY DEF StatusFollowsTheWork, Working
    <2>1. Agrees(c) /\ open \subseteq 1..begun /\ begun \in Nat
      BY DEF IInv, TypeOK, Store!TypeOK
    <2>2. calls[c] \in Call
      BY DEF IInv, TypeOK
    <2> QED BY <2>1, <2>2 DEF Agrees, Call
  <1> QED BY <1>1, Invariant, PTL

------------------------------------------------------------------------------
\* Both instances of the store mean the same by a begin.
LEMMA StoreBeginsAlike ==
    ASSUME NEW t \in Targets, Store!Begin(t)
    PROVE  StoreP!Begin(t)
  <1>1. \A S : Store!Cardinality(S) = StoreP!Cardinality(S)
    BY DEF Store!Cardinality, StoreP!Cardinality
  <1>2. \A kept : Store!VictimSets(kept) = StoreP!VictimSets(kept)
    BY <1>1 DEF Store!VictimSets, StoreP!VictimSets, Store!Running, StoreP!Running,
       Store!Excess, StoreP!Excess
  <1>3. {i \in DOMAIN records : ~Store!Idle(i)} = {i \in DOMAIN records : ~StoreP!Idle(i)}
    BY DEF Store!Idle, StoreP!Idle, Store!Running, StoreP!Running
  <1>4. \A u, removed : Store!LatestAfter(u, removed) = StoreP!LatestAfter(u, removed)
    BY DEF Store!LatestAfter, StoreP!LatestAfter
  <1> QED BY <1>2, <1>3, <1>4 DEF Store!Begin, StoreP!Begin

\* A step of the restart tools is one call of the registry, or none.
LEMMA StepIsRegistryStep ==
    ASSUME IInv, [Next]_vars
    PROVE  [StoreP!Next]_(StoreP!vars)
  <1> USE DEF StoreP!vars, storeVars
  <1>1. \A c \in Calls : Close(c) => StoreP!Next \/ UNCHANGED StoreP!vars
    BY DEF Close, Store!Finish, StoreP!Finish, StoreP!Next
  <1>2. ASSUME NEW c \in Calls, Begin(c) PROVE StoreP!Next
    <2>1. calls[c].target \in Targets
      BY DEF IInv, TypeOK, Call
    <2> QED BY <1>2, <2>1, StoreBeginsAlike DEF Begin, StoreP!Next
  <1>3. ASSUME NEW c \in Calls, StartDirect(c) \/ Answer(c) \/ RequestSucceeds(c)
        PROVE  UNCHANGED StoreP!vars
    BY <1>3 DEF StartDirect, Answer, RequestSucceeds
  <1>4. ASSUME NEW c \in Calls, RequestFails(c) \/ ResolveFails(c) \/ Ready(c) \/ NotReady(c)
        PROVE  Close(c) \/ UNCHANGED StoreP!vars
    BY <1>4 DEF RequestFails, ResolveFails, Ready, NotReady
  <1>5. Tick => StoreP!Next
    BY DEF Tick, Store!Tick, StoreP!Tick, StoreP!Next
  <1>6. (\E c \in Calls : RestartLater(c)) \/ (\E t \in Targets : Boot(t)) \/ UNCHANGED vars
            => UNCHANGED StoreP!vars
    BY DEF RestartLater, Boot, vars
  <1> QED BY <1>1, <1>2, <1>3, <1>4, <1>5, <1>6 DEF Next, HandlerStep, WorkStep, AllOver

\* The restart tools use their registry as OperationStore has it: every call
\* they make of it is a begin with a target, or the finish of an operation
\* that is open (tool_pkg_write_restart.go:150-236, operations.go:153-231).
THEOREM UsesTheRegistry == Spec => StoreP!Spec
  <1>1. Init => StoreP!Init
    BY DEF Init, Store!Init, StoreP!Init
  <1>2. IInv /\ [Next]_vars => [StoreP!Next]_(StoreP!vars)
    BY StepIsRegistryStep
  <1> QED BY <1>1, <1>2, Invariant, PTL DEF Spec, StoreP!Spec

\* So a restart's status leaves the registry early only when that is full of
\* other records, and a begin leaves no more than the capacity besides running
\* restarts (operations.go:256-291).
THEOREM RegistryKeepsItsPromises ==
    Spec => StoreP!BeginRespectsCapacity /\ StoreP!KeptUnlessFull
  BY UsesTheRegistry, StoreAssumed, StoreP!CapacityBinds, StoreP!StatusIsKeptItsTime, PTL

------------------------------------------------------------------------------
\* The restart tools implement RestartPromise.  What a call knows of its
\* restart: it was accepted when the request is behind it, unless that failed.
Knows(c) ==
    /\ calls[c].accepted => calls[c].work \in {"probing", "done", "failed"}
    /\ calls[c].work \in {"probing", "done"} => calls[c].accepted
    /\ calls[c].status \in {"ready", "timedout"} => calls[c].accepted
    /\ calls[c].status = "requestfailed" => ~calls[c].accepted
    /\ ~calls[c].waitReady => calls[c].handler \in {"idle", "waiting", "done", "failed"}

\* What a step does to the one call it is a step of.
OnlyCall(c) ==
    /\ \A d \in Calls \ {c} : calls'[d] = calls[d]
    /\ calls'[c].waitReady = calls[c].waitReady

Shows(c) == IF calls[c].handler \in Answers THEN calls[c].handler ELSE "nothing"

Starts(c) ==
    /\ calls[c].work = "none" /\ calls[c].handler = "idle"
    /\ calls'[c].status = IF calls[c].waitReady THEN "running" ELSE calls[c].status
    /\ calls'[c].work = "requesting" /\ calls'[c].handler = "waiting"
    /\ calls'[c].accepted = calls[c].accepted
    /\ UNCHANGED <<performed, unheard>>

Succeeds(c) ==
    /\ calls[c].work = "requesting"
    /\ calls'[c].status = calls[c].status /\ calls'[c].handler = calls[c].handler
    /\ calls'[c].work = IF calls[c].waitReady THEN "probing" ELSE "done"
    /\ calls'[c].accepted = TRUE
    /\ performed' = performed \cup {c} /\ unheard' = unheard

Fails(c) ==
    /\ calls[c].work = "requesting"
    /\ calls'[c].handler = calls[c].handler /\ calls'[c].accepted = calls[c].accepted
    /\ \/ calls'[c].work = "requesting" /\ calls'[c].status = calls[c].status
       \/ /\ calls'[c].work = "failed"
          /\ calls'[c].status = IF calls[c].waitReady THEN "requestfailed" ELSE "none"
    /\ \/ performed' \in {performed, performed \cup {c}} /\ unheard' = unheard
       \/ performed' = performed /\ unheard' = [unheard EXCEPT ![c] = @ + 1]

Settles(c) ==
    /\ calls[c].work = "probing"
    /\ \/ calls'[c].work = "done" /\ calls'[c].status = "ready"
       \/ calls'[c].work = "failed" /\ calls'[c].status = "timedout"
    /\ calls'[c].handler = calls[c].handler /\ calls'[c].accepted = calls[c].accepted
    /\ UNCHANGED <<performed, unheard>>

Tells(c) ==
    /\ calls[c].handler = "waiting"
    /\ calls'[c].handler \in AnswersNow(c)
    /\ calls'[c].work = calls[c].work /\ calls'[c].status = calls[c].status
    /\ calls'[c].accepted = calls[c].accepted
    /\ UNCHANGED <<performed, unheard>>

LEMMA StepIsSeen ==
    ASSUME IInv, NEW c \in Calls, HandlerStep(c) \/ WorkStep(c)
    PROVE  /\ OnlyCall(c)
           /\ Starts(c) \/ Succeeds(c) \/ Fails(c) \/ Settles(c) \/ Tells(c)
<1>1. calls \in [Calls -> Call] /\ calls[c] \in Call /\ Agrees(c)
    BY DEF IInv, TypeOK
<1> USE DEF OnlyCall
<1>2. CASE Begin(c)
    BY <1>1, <1>2 DEF Begin, Starts, Agrees, Call
<1>3. CASE StartDirect(c)
    BY <1>1, <1>3 DEF StartDirect, Starts, Agrees, Call
<1>4. CASE Answer(c)
    <2>1. PICK a \in AnswersNow(c) : calls' = [calls EXCEPT ![c].handler = a]
        BY <1>4 DEF Answer
    <2>2. calls[c].handler = "waiting" /\ UNCHANGED <<performed, unheard>>
        BY <1>4 DEF Answer
    <2> QED BY <1>1, <2>1, <2>2 DEF Tells, Call
<1>5. CASE RequestSucceeds(c)
    BY <1>1, <1>5 DEF RequestSucceeds, Requesting, Perform, Succeeds, Call
<1>6. CASE RequestFails(c)
    BY <1>1, <1>6 DEF RequestFails, Requesting, Perform, Fails, Call, StatusOf, AcceptedAfter
<1>7. CASE ResolveFails(c)
    BY <1>1, <1>7 DEF ResolveFails, Requesting, Fails, Call, StatusOf
<1>8. CASE Ready(c) \/ NotReady(c)
    BY <1>1, <1>8 DEF Ready, NotReady, Settles, Call
<1> QED
    BY <1>2, <1>3, <1>4, <1>5, <1>6, <1>7, <1>8 DEF HandlerStep, WorkStep

LEMMA StepKnows ==
    ASSUME IInv, \A c \in Calls : Knows(c), [Next]_vars
    PROVE  \A c \in Calls : Knows(c)'
<1>1. ASSUME NEW c \in Calls, HandlerStep(c) \/ WorkStep(c)
      PROVE  Knows(c)'
    <2>1. Knows(c) /\ Agrees(c) /\ OnlyCall(c) /\ calls[c] \in Call
        BY <1>1, StepIsSeen DEF IInv, TypeOK
    <2> USE DEF Knows, Agrees, OnlyCall
    <2>2. CASE Starts(c)
        BY <2>1, <2>2 DEF Starts
    <2>3. CASE Succeeds(c)
        BY <2>1, <2>3 DEF Succeeds, Working
    <2>4. CASE Fails(c)
        BY <2>1, <2>4 DEF Fails
    <2>5. CASE Settles(c)
        BY <2>1, <2>5 DEF Settles
    <2>6. CASE Tells(c)
        BY <2>1, <2>6 DEF Tells, AnswersNow
    <2> QED BY <1>1, <2>2, <2>3, <2>4, <2>5, <2>6, StepIsSeen
<1>2. ASSUME NEW c \in Calls, HandlerStep(c) \/ WorkStep(c), NEW d \in Calls \ {c}
      PROVE  Knows(d)'
    <2>1. Knows(d) /\ calls'[d] = calls[d]
        BY <1>2, StepIsSeen DEF OnlyCall
    <2> QED BY <2>1 DEF Knows
<1>3. CASE (\E c \in Calls : RestartLater(c)) \/ (\E t \in Targets : Boot(t)) \/ Tick \/ UNCHANGED vars
    BY <1>3 DEF RestartLater, Boot, Tick, vars, Knows
<1> QED
    BY <1>1, <1>2, <1>3 DEF Next, AllOver

\* What the caller, the record and the target show of a step of one call.
LEMMA OnlyCallShows ==
    ASSUME NEW c \in Calls, OnlyCall(c)
    PROVE  /\ {d \in Calls : calls[d].waitReady}' = {d \in Calls : calls[d].waitReady}
           /\ [d \in Calls |-> calls[d].status]' =
                 [[d \in Calls |-> calls[d].status] EXCEPT ![c] = calls'[c].status]
           /\ [d \in Calls |-> Shows(d)]' = [[d \in Calls |-> Shows(d)] EXCEPT ![c] = Shows(c)']
    BY DEF OnlyCall, Shows

LEMMA StepIsPromised ==
    ASSUME IInv, \A c \in Calls : Knows(c), [Next]_vars
    PROVE  [Promise!Next]_(Promise!vars)
<1> DEFINE waits == {c \in Calls : calls[c].waitReady}
           status == [c \in Calls |-> calls[c].status]
           told == [c \in Calls |-> IF calls[c].handler \in Answers THEN calls[c].handler ELSE "nothing"]
           lost == {c \in Calls : unheard[c] > 0}
<1>0. unheard \in [Calls -> Nat]
    BY DEF IInv, TypeOK
<1>1. ASSUME NEW c \in Calls, HandlerStep(c) \/ WorkStep(c)
      PROVE  [Promise!Next]_(Promise!vars)
    <2>1. Knows(c) /\ Agrees(c) /\ OnlyCall(c) /\ calls[c] \in Call
        BY <1>1, StepIsSeen DEF IInv, TypeOK
    <2>2. /\ waits' = waits
          /\ status' = [status EXCEPT ![c] = calls'[c].status]
          /\ told' = [told EXCEPT ![c] = Shows(c)']
        BY <2>1, OnlyCallShows DEF Shows
    <2>3. status[c] = calls[c].status /\ told[c] = Shows(c) /\ (c \in waits <=> calls[c].waitReady)
        BY DEF Shows
    <2>4. calls'[c].status = calls[c].status => status' = status
        BY <2>2, <2>3
    <2>5. Shows(c)' = Shows(c) => told' = told
        BY <2>1 DEF OnlyCall, Shows
    <2>11. unheard' = unheard => lost' = lost
        OBVIOUS
    <2>12. unheard' = [unheard EXCEPT ![c] = @ + 1] => lost' = lost \cup {c}
        BY <1>0
    <2> HIDE DEF waits, status, told, lost
    <2> USE DEF Promise!vars
    <2> USE <2>1, <2>2, <2>3, <2>11, <2>12
    <2>6. CASE Starts(c)
        <3>1. Shows(c)' = "nothing" /\ Shows(c) = "nothing"
            BY <2>6 DEF Starts, Shows, Answers
        <3>2. CASE calls[c].waitReady
            <4>1. Promise!Begin(c)
                BY <2>5, <2>6, <3>1, <3>2 DEF Starts, Agrees, Promise!Begin, waits, status, told, lost
            <4> QED BY <4>1 DEF Promise!Next
        <3>3. CASE ~calls[c].waitReady
            <4>1. status' = status /\ told' = told /\ performed' = performed /\ lost' = lost
                BY <2>4, <2>5, <2>6, <3>1, <3>3 DEF Starts
            <4> QED BY <4>1 DEF waits, status, told, lost
        <3> QED BY <3>2, <3>3
    <2>7. CASE Succeeds(c)
        <3>1. status' = status /\ told' = told
            BY <2>4, <2>5, <2>7 DEF Succeeds, Shows
        <3>2. IF c \in waits THEN status[c] = "running" ELSE told[c] = "nothing"
            BY <2>7 DEF Succeeds, Agrees, Knows, Working, Shows, Answers
        <3>3. Promise!Restart(c)
            BY <2>7, <3>1, <3>2 DEF Succeeds, Promise!Restart, Promise!Asks, waits, status, told, lost
        <3> QED BY <3>3 DEF Promise!Next
    <2>8. CASE Fails(c)
        <3>1. told' = told
            BY <2>5, <2>8 DEF Fails, Shows
        <3>2. IF c \in waits THEN status[c] = "running" ELSE told[c] = "nothing"
            BY <2>8 DEF Fails, Agrees, Knows, Working, Shows, Answers
        <3>3. CASE calls'[c].status = calls[c].status
            <4>1. status' = status
                BY <2>4, <3>3
            <4>2. CASE performed' = performed /\ lost' = lost
                BY <3>1, <4>1, <4>2 DEF waits, status, told, lost
            <4>3. CASE performed' = performed \cup {c} /\ lost' = lost
                <5>1. Promise!Restart(c)
                    BY <3>1, <3>2, <4>1, <4>3 DEF Promise!Restart, Promise!Asks, waits, status, told, lost
                <5> QED BY <5>1 DEF Promise!Next
            <4>4. CASE performed' = performed /\ lost' = lost \cup {c}
                <5>1. Promise!Abandon(c)
                    BY <3>1, <3>2, <4>1, <4>4 DEF Promise!Abandon, Promise!Asks, waits, status, told, lost
                <5> QED BY <5>1 DEF Promise!Next
            <4> QED BY <2>8, <4>2, <4>3, <4>4 DEF Fails
        <3>4. CASE calls'[c].status # calls[c].status
            <4>1. calls[c].waitReady /\ calls'[c].status = "requestfailed"
                BY <2>8, <3>4 DEF Fails, Agrees
            <4>2. told[c] # "accepted"
                BY <2>8 DEF Fails, Agrees, Knows, Shows
            <4>3. Promise!GiveUp(c)
                BY <2>8, <3>1, <3>2, <4>1, <4>2 DEF Fails, Promise!GiveUp, waits, status, told, lost
            <4> QED BY <4>3 DEF Promise!Next
        <3> QED BY <3>3, <3>4
    <2>9. CASE Settles(c)
        <3>1. told' = told /\ performed' = performed /\ lost' = lost
            BY <2>5, <2>9 DEF Settles, Shows
        <3>2. status[c] = "running" /\ c \in performed
            BY <2>9 DEF Settles, Agrees, Knows, Working
        <3>3. PICK final \in {"ready", "timedout"} : calls'[c].status = final
            BY <2>9 DEF Settles
        <3>4. Promise!End(c, final)
            BY <3>1, <3>2, <3>3 DEF Promise!End, waits, status, told, lost
        <3> QED BY <3>4 DEF Promise!Next
    <2>10. CASE Tells(c)
        <3>1. PICK what \in Answers : what \in AnswersNow(c) /\ calls'[c].handler = what
            BY <2>10 DEF Tells, AnswersNow, DeadlineAnswer, Answers
        <3>2. Shows(c)' = what /\ told[c] = "nothing"
            BY <2>10, <3>1 DEF Tells, Shows, Answers
        <3>3. status' = status /\ performed' = performed /\ lost' = lost
            BY <2>4, <2>10 DEF Tells
        <3>4. /\ what \in {"done", "failed"} => calls[c].work = what
              /\ what = "accepted" => calls[c].accepted
              /\ what = "pending" => ~calls[c].accepted
              /\ ~calls[c].waitReady => what \in {"done", "failed"}
            BY <3>1 DEF AnswersNow, DeadlineAnswer, Call
        <3>5. /\ c \in waits =>
                    /\ status[c] # "none"
                    /\ what = "done" => status[c] = "ready"
                    /\ what = "failed" => status[c] \in {"requestfailed", "timedout"}
                    /\ what = "accepted" => status[c] # "requestfailed"
                    /\ what = "pending" => status[c] \in {"running", "requestfailed"}
              /\ what \in {"done", "accepted"} => c \in performed
            BY <2>10, <3>4 DEF Tells, Agrees, Knows, Working, Call, Statuses
        <3>6. Promise!Tell(c, what)
            BY <3>2, <3>3, <3>4, <3>5 DEF Promise!Tell, waits, status, told, lost
        <3> QED BY <3>1, <3>6 DEF Promise!Next, Answers
    <2> QED
        BY <1>1, <2>6, <2>7, <2>8, <2>9, <2>10, StepIsSeen
<1>2. ASSUME NEW c \in Calls, RestartLater(c)
      PROVE  Promise!Next
    <2>1. UNCHANGED <<waits, status, told>> /\ performed' = performed \cup {c}
        BY <1>2 DEF RestartLater, Perform
    <2>2. c \in lost /\ lost' \in {lost, lost \ {c}}
        BY <1>0, <1>2 DEF RestartLater
    <2>3. Promise!RestartLate(c)
        BY <2>1, <2>2 DEF Promise!RestartLate
    <2> QED BY <2>3 DEF Promise!Next
<1>3. CASE (\E t \in Targets : Boot(t)) \/ Tick \/ UNCHANGED vars
    BY <1>3 DEF Boot, Tick, vars, Promise!vars
<1> QED
    BY <1>1, <1>2, <1>3 DEF Next, AllOver

\* For any number of calls, targets and attempts the restart tools are a
\* system where a restart is reported ready, done or accepted only after the
\* target carried it out, where nothing is restarted for a call whose record
\* is final except by a request it had given up, and where the deadline's answer is the record's at that time
\* (pkgWriteRestart, tool_pkg_write_restart.go:189-230).
THEOREM KeepsItsPromise == Spec => ImplementsPromise
<1>1. Init => (\A c \in Calls : Knows(c)) /\ Promise!Init
    <2> SUFFICES ASSUME Init
                 PROVE  (\A c \in Calls : Knows(c)) /\ Promise!Init
        OBVIOUS
    <2>1. \A c \in Calls : /\ calls[c].status = "none" /\ calls[c].handler = "idle"
                           /\ calls[c].work = "none" /\ calls[c].accepted = FALSE
        BY DEF Init
    <2> QED
        BY <2>1 DEF Init, Promise!Init, Knows, Answers
<1>2. (\A c \in Calls : Knows(c)) /\ IInv /\ [Next]_vars => (\A c \in Calls : Knows(c))'
    BY StepKnows
<1>3. (\A c \in Calls : Knows(c)) /\ IInv /\ [Next]_vars => [Promise!Next]_(Promise!vars)
    BY StepIsPromised
<1> QED
    BY <1>1, <1>2, <1>3, Invariant, PTL DEF Spec, ImplementsPromise, Promise!Spec
=============================================================================
