------------------------- MODULE AuthSession_proofs -------------------------
(***************************************************************************)
(* Proofs about AuthSession for every set of calls: type correctness, one  *)
(* login at a time, no login without need, a retry that never repeats the  *)
(* refused session, and the implementation of SessionLease.                *)
(***************************************************************************)
EXTENDS AuthSession, TLAPS

\* The cached session, when there is one, is the newest.
CurrentIsNewest == session # 0 => session = generation

\* A call that may send holds a session, and a call about to invalidate holds
\* the one it was refused.
HoldsWhatItUses ==
    \A c \in Calls :
        /\ pc[c] = "send" => held[c] # 0
        /\ pc[c] = "drop" => held[c] # 0 /\ refusedAt[c] = held[c]

\* Once a call has invalidated the session it was refused, that session is
\* cached no more.
RefusalWasHeeded ==
    \A c \in Calls :
        pc[c] \in {"session", "wait", "login", "store"} /\ refusedAt[c] # 0
            => session # refusedAt[c]

IInv ==
    /\ TypeOK
    /\ SingleLogin
    /\ LoginReplacesUnusable
    /\ EveryLoginWasNeeded
    /\ RetryUsesNewerSession
    /\ CurrentIsNewest
    /\ HoldsWhatItUses
    /\ RefusalWasHeeded

USE CallsAssumption
USE DEF Points, Contexts, Failures, Answers, Outcomes

LEMMA InitIInv == Init => IInv
BY SMTT(30) DEF Init, IInv, TypeOK, SingleLogin, LoginReplacesUnusable, EveryLoginWasNeeded,
   RetryUsesNewerSession, CurrentIsNewest, HoldsWhatItUses, RefusalWasHeeded, Valid

\* The variables keep their types.
LEMMA TypeStep == TypeOK /\ [Next]_vars => TypeOK'
<1> SUFFICES ASSUME TypeOK, [Next]_vars PROVE TypeOK'
    OBVIOUS
<1> USE DEF TypeOK, Goto, LeaveLogin, Finish
<1>1. ASSUME NEW c \in Calls, UseSession(c) PROVE TypeOK'
    BY <1>1 DEF UseSession, cache
<1>2. ASSUME NEW c \in Calls, JoinFlight(c) PROVE TypeOK'
    BY <1>2 DEF JoinFlight, OpenLogin, cache
<1>3. ASSUME NEW c \in Calls, StartFlight(c) PROVE TypeOK'
    BY <1>3 DEF StartFlight, OpenLogin, cache
<1>4. ASSUME NEW c \in Calls, LoginAnswers(c) PROVE TypeOK'
  <2>1. PICK raw \in {"ok", "rejected", "transport"} :
            answer' = [answer EXCEPT ![c] = LoginResult(c, raw)]
      BY <1>4 DEF LoginAnswers
  <2>2. LoginResult(c, raw) \in Answers
      BY DEF LoginResult, LoginFailure
  <2>3. answer' \in [Calls -> Answers]
      BY <2>1, <2>2
  <2> QED BY <1>4, <2>3 DEF LoginAnswers, cache
<1>5. ASSUME NEW c \in Calls, StoreSession(c) PROVE TypeOK'
    BY <1>5 DEF StoreSession, NumberSession, CloseFlight, ClearFlight, TellWaiters, Waiting
<1>6. ASSUME NEW c \in Calls, FailFlight(c) PROVE TypeOK'
    BY <1>6 DEF FailFlight, CloseFlight, ClearFlight, TellWaiters, Waiting, cache
<1>7. ASSUME NEW c \in Calls, WakeFailed(c) PROVE TypeOK'
    BY <1>7 DEF WakeFailed, cache
<1>8. ASSUME NEW c \in Calls, WakeAgain(c) PROVE TypeOK'
    BY <1>8 DEF WakeAgain, cache
<1>9. ASSUME NEW c \in Calls, GiveUpWaiting(c) PROVE TypeOK'
    BY <1>9 DEF GiveUpWaiting, LoginFailure, cache
<1>10. ASSUME NEW c \in Calls, SendEnds(c) PROVE TypeOK'
    BY <1>10 DEF SendEnds, cache
<1>11. ASSUME NEW c \in Calls, SendRefused(c) PROVE TypeOK'
    BY <1>11 DEF SendRefused, cache
<1>12. ASSUME NEW c \in Calls, DropSession(c) PROVE TypeOK'
    BY <1>12 DEF DropSession
<1>13. ASSUME NEW c \in Calls, EndLogin(c) PROVE TypeOK'
    BY <1>13 DEF EndLogin, cache
<1>14. CASE Expire
    BY <1>14 DEF Expire, Valid
<1>15. CASE UNCHANGED vars
    BY <1>15 DEF vars, cache
<1> QED
    BY <1>1, <1>2, <1>3, <1>4, <1>5, <1>6, <1>7, <1>8, <1>9, <1>10, <1>11, <1>12,
       <1>13, <1>14, <1>15 DEF Next, CallStep, Terminated

\* Type correctness of the client's authentication state.
THEOREM TypeCorrect == Spec => []TypeOK
<1>1. Init => TypeOK
    BY InitIInv DEF IInv
<1> QED BY <1>1, TypeStep, PTL DEF Spec
\* Each step keeps the rest of the invariant.
LEMMA InvariantStep == IInv /\ [Next]_vars => IInv'
<1> SUFFICES ASSUME IInv, [Next]_vars PROVE IInv'
    OBVIOUS
<1>0. TypeOK /\ TypeOK'
    BY TypeStep DEF IInv
<1> USE <1>0 DEF IInv, TypeOK, SingleLogin, LoginReplacesUnusable, EveryLoginWasNeeded,
        RetryUsesNewerSession, CurrentIsNewest, HoldsWhatItUses, RefusalWasHeeded,
        Valid, Refused, Goto, LeaveLogin, Finish
<1>1. ASSUME NEW c \in Calls, UseSession(c) PROVE IInv'
    BY <1>1, SMTT(30) DEF UseSession, cache
<1>2. ASSUME NEW c \in Calls, JoinFlight(c) PROVE IInv'
    BY <1>2, SMTT(30) DEF JoinFlight, OpenLogin, MayLead, cache
<1>3. ASSUME NEW c \in Calls, StartFlight(c) PROVE IInv'
    BY <1>3, SMTT(30) DEF StartFlight, OpenLogin, MayLead, cache
<1>4. ASSUME NEW c \in Calls, LoginAnswers(c) PROVE IInv'
    BY <1>4, SMTT(30) DEF LoginAnswers, cache
<1>5. ASSUME NEW c \in Calls, StoreSession(c) PROVE IInv'
    BY <1>5, SMTT(30) DEF StoreSession, NumberSession, CloseFlight, ClearFlight
<1>6. ASSUME NEW c \in Calls, FailFlight(c) PROVE IInv'
    BY <1>6, SMTT(30) DEF FailFlight, CloseFlight, ClearFlight, cache
<1>7. ASSUME NEW c \in Calls, WakeFailed(c) PROVE IInv'
    BY <1>7, SMTT(30) DEF WakeFailed, cache
<1>8. ASSUME NEW c \in Calls, WakeAgain(c) PROVE IInv'
    BY <1>8, SMTT(30) DEF WakeAgain, cache
<1>9. ASSUME NEW c \in Calls, GiveUpWaiting(c) PROVE IInv'
    BY <1>9, SMTT(30) DEF GiveUpWaiting, cache
<1>10. ASSUME NEW c \in Calls, SendEnds(c) PROVE IInv'
    BY <1>10, SMTT(30) DEF SendEnds, cache
<1>11. ASSUME NEW c \in Calls, SendRefused(c) PROVE IInv'
    BY <1>11, SMTT(30) DEF SendRefused, cache
<1>12. ASSUME NEW c \in Calls, DropSession(c) PROVE IInv'
    BY <1>12, SMTT(30) DEF DropSession, DropsSession
<1>13. ASSUME NEW c \in Calls, EndLogin(c) PROVE IInv'
    BY <1>13, SMTT(30) DEF EndLogin, cache
<1>14. CASE Expire
    BY <1>14, SMTT(30) DEF Expire
<1>15. CASE UNCHANGED vars
    BY <1>15, SMTT(30) DEF vars, cache
<1> QED
    BY <1>1, <1>2, <1>3, <1>4, <1>5, <1>6, <1>7, <1>8, <1>9, <1>10, <1>11, <1>12,
       <1>13, <1>14, <1>15 DEF Next, CallStep, Terminated

\* The inductive invariant holds throughout.
THEOREM Invariant == Spec => []IInv
<1> QED BY InitIInv, InvariantStep, PTL DEF Spec

\* Concurrent calls share one login: only the owner of authFlight logs in.
THEOREM OneLoginAtATime == Spec => []SingleLogin
<1>1. IInv => SingleLogin
    BY DEF IInv
<1> QED BY <1>1, Invariant, PTL

\* A login's result never replaces a session that could still be used.
THEOREM NoLoginOverUsable == Spec => []LoginReplacesUnusable
<1>1. IInv => LoginReplacesUnusable
    BY DEF IInv
<1> QED BY <1>1, Invariant, PTL

\* However many calls are refused at once, every session but the current one
\* was given up for a reason of its own.
THEOREM NoNeedlessLogin == Spec => []EveryLoginWasNeeded
<1>1. IInv => EveryLoginWasNeeded
    BY DEF IInv
<1> QED BY <1>1, Invariant, PTL

\* The retry of a refused request goes out with a newer session.
THEOREM RetryIsNewer == Spec => []RetryUsesNewerSession
<1>1. IInv => RetryUsesNewerSession
    BY DEF IInv
<1> QED BY <1>1, Invariant, PTL

------------------------------------------------------------------------------
\* Each step of the client is a step of the lease specification, or none.
LEMMA LeaseStep == IInv /\ [Next]_vars => [Lease!Next]_(Lease!vars)
<1> SUFFICES ASSUME IInv, [Next]_vars PROVE [Lease!Next]_(Lease!vars)
    OBVIOUS
<1> USE DEF IInv, TypeOK, Refused, Goto, LeaveLogin, Finish, cache, Lease!vars
<1> DEFINE Stutters == UNCHANGED Lease!vars
<1>1. ASSUME NEW c \in Calls, UseSession(c) PROVE Lease!Lease(c)
    BY <1>1 DEF UseSession, Valid, Lease!Lease, Lease!Usable
<1>2. ASSUME NEW c \in Calls, JoinFlight(c) \/ StartFlight(c) PROVE Stutters
    BY <1>2 DEF JoinFlight, StartFlight
<1>3. ASSUME NEW c \in Calls, LoginAnswers(c) PROVE Stutters
    BY <1>3 DEF LoginAnswers
<1>4. ASSUME NEW c \in Calls, StoreSession(c) PROVE Lease!Login(c)
    BY <1>4 DEF StoreSession, NumberSession, SingleLogin, LoginReplacesUnusable, Valid,
                Lease!Login, Lease!Usable
<1>5. ASSUME NEW c \in Calls,
             FailFlight(c) \/ WakeFailed(c) \/ GiveUpWaiting(c) \/ SendEnds(c)
      PROVE  Lease!Return(c)
    BY <1>5 DEF FailFlight, WakeFailed, GiveUpWaiting, SendEnds, Lease!Return
<1>6. ASSUME NEW c \in Calls, WakeAgain(c) \/ EndLogin(c) PROVE Stutters
    BY <1>6 DEF WakeAgain, EndLogin
<1>7. ASSUME NEW c \in Calls, SendRefused(c) PROVE Lease!Refuse(c)
  <2>1. held[c] # 0 /\ refusedAt[c] = 0
      BY <1>7 DEF SendRefused, HoldsWhatItUses
  <2>2. Refused' = Refused \cup {held[c]}
    <3>1. refusedAt' = [refusedAt EXCEPT ![c] = held[c]]
        BY <1>7 DEF SendRefused
    <3> QED BY <2>1, <3>1
  <2> QED BY <1>7, <2>1, <2>2 DEF SendRefused, Lease!Refuse
<1>8. ASSUME NEW c \in Calls, DropSession(c) PROVE Lease!GiveUp(c) \/ Lease!Return(c)
  <2>1. held[c] \in Refused
      BY <1>8 DEF DropSession, HoldsWhatItUses
  <2>2. CASE session = held[c]
      BY <1>8, <2>1, <2>2 DEF DropSession, DropsSession, Lease!GiveUp
  <2>3. CASE session # held[c]
      BY <1>8, <2>3 DEF DropSession, DropsSession, Lease!Return
  <2> QED BY <2>2, <2>3
<1>9. CASE Expire
    BY <1>9 DEF Expire, Valid, Lease!Next, Lease!Expire
<1>10. CASE UNCHANGED vars
    BY <1>10 DEF vars
<1> QED
    BY <1>1, <1>2, <1>3, <1>4, <1>5, <1>6, <1>7, <1>8, <1>9, <1>10
       DEF Next, CallStep, Terminated, Lease!Next

\* The client implements the leases its callers rely on: logins look atomic,
\* and a session is given up only after the server refused it.
THEOREM ClientImplementsLease == Spec => ImplementsLease
<1>1. Init => Lease!Init
    BY DEF Init, Lease!Init, Refused
<1> QED BY <1>1, Invariant, LeaseStep, PTL DEF Spec, ImplementsLease, Lease!Spec

\* A usable session is given up only after the server refused that session.
THEOREM DropsOnlyTheRefused == Spec => DroppedOnlyWhenRefused
<1>1. IInv /\ [Next]_vars =>
         [Valid /\ session' # session => session' = 0 /\ session \in Refused]_vars
  <2> SUFFICES ASSUME IInv, [Next]_vars, Valid, session' # session
               PROVE  session' = 0 /\ session \in Refused
      OBVIOUS
  <2>1. \E c \in Calls : StoreSession(c) \/ DropSession(c)
      BY DEF Next, CallStep, Terminated, UseSession, JoinFlight, StartFlight, LoginAnswers,
             FailFlight, WakeFailed, WakeAgain, GiveUpWaiting, SendEnds, SendRefused,
             Expire, EndLogin, vars, cache
  <2>2. PICK c \in Calls : StoreSession(c) \/ DropSession(c)
      BY <2>1
  <2>3. ~StoreSession(c)
      BY DEF StoreSession, IInv, TypeOK, SingleLogin, LoginReplacesUnusable
  <2>4. session = held[c] /\ session' = 0 /\ refusedAt[c] = held[c] /\ held[c] # 0
      BY <2>2, <2>3 DEF DropSession, DropsSession, IInv, HoldsWhatItUses
  <2> QED BY <2>4 DEF Refused
<1> QED BY <1>1, Invariant, PTL DEF Spec, DroppedOnlyWhenRefused
=============================================================================
