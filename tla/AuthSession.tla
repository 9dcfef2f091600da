----------------------------- MODULE AuthSession -----------------------------
(***************************************************************************)
(* The authentication state one creatio.Client shares between concurrent   *)
(* calls (internal/creatio/client.go): the cached session with its         *)
(* generation number, the single login in flight, and doAuthenticated,     *)
(* which sends a request, drops the session the server refused, logs in    *)
(* again and retries the request exactly once.                             *)
(*                                                                         *)
(* A call is one goroutine inside doAuthenticated.  Every step below is    *)
(* one critical section under authMu, one network exchange, or one wait,   *)
(* so all the orders in which the calls can meet are explored.             *)
(***************************************************************************)
EXTENDS Integers, FiniteSets

CONSTANTS
    Calls,     \* the concurrent calls, each of which runs doAuthenticated once
    NoCall     \* authFlight is nil

ASSUME CallsAssumption == NoCall \notin Calls

VARIABLES
    generation,  \* c.generation: how many logins were stored
    session,     \* c.session's generation; 0 when c.session is nil
    expired,     \* the generations whose expiresAt passed while they were cached
    flight,      \* c.authFlight: the call that is logging in
    pc,          \* where each call is
    held,        \* the generation of the session a call was handed (0: none)
    refusedAt,   \* the generation the first answer refused (0: not refused)
    login,       \* a call's login context: not made, open, or how it ended
    answer,      \* a login's result: the leader's own, or what a waiter was told
    outcome      \* how a call ended

cache == <<generation, session, expired>>
vars  == <<cache, flight, pc, held, refusedAt, login, answer, outcome>>

Points   == {"session", "wait", "login", "store", "send", "drop", "done"}
Contexts == {"none", "open", "cancelled", "late"}
Failures == {"rejected", "transport", "timeout", "cancelled"}
Answers  == {"none", "ok"} \cup Failures
Outcomes == {"none", "ok", "refused", "failed"} \cup Failures

TypeOK ==
    /\ generation \in Nat
    /\ session \in 0..generation
    /\ expired \subseteq 1..generation
    /\ flight \in Calls \cup {NoCall}
    /\ pc \in [Calls -> Points]
    /\ held \in [Calls -> 0..generation]
    /\ refusedAt \in [Calls -> 0..generation]
    /\ login \in [Calls -> Contexts]
    /\ answer \in [Calls -> Answers]
    /\ outcome \in [Calls -> Outcomes]

Init ==
    /\ generation = 0
    /\ session = 0
    /\ expired = {}
    /\ flight = NoCall
    /\ pc = [c \in Calls |-> "session"]
    /\ held = [c \in Calls |-> 0]
    /\ refusedAt = [c \in Calls |-> 0]
    /\ login = [c \in Calls |-> "none"]
    /\ answer = [c \in Calls |-> "none"]
    /\ outcome = [c \in Calls |-> "none"]

------------------------------------------------------------------------------
\* authSession.valid: there is a session and its expiry has not passed.
Valid == session # 0 /\ session \notin expired

Ended(c) == login[c] \in {"cancelled", "late"}

\* loginFailure: past the login timeout no answer came in time; cancelled by
\* the caller, the failure keeps the cancellation.
LoginFailure(c) == IF login[c] = "late" THEN "timeout" ELSE "cancelled"

\* authFlight is nil, so the call may lead a flight of its own.
\* (Slip: currentSession logs in without looking at authFlight.)
MayLeadAlways == TRUE
MayLead == flight = NoCall

\* invalidateSession's comparison of the cached generation with the refused one.
\* (Slips: any refusal drops whatever is cached; the refusal drops nothing.)
DropsAnySession(c) == TRUE
DropsNoSession(c) == FALSE
DropsSession(c) == session = held[c]

Goto(c, point) == pc' = [pc EXCEPT ![c] = point]

\* currentSession returns: stop() releases the login context.
LeaveLogin(c) == login' = [login EXCEPT ![c] = "none"]

\* The call returns.
Finish(c, result) ==
    /\ Goto(c, "done")
    /\ held' = [held EXCEPT ![c] = 0]
    /\ outcome' = [outcome EXCEPT ![c] = result]

------------------------------------------------------------------------------
\* currentSession, first critical section: a valid session is handed out.
UseSession(c) ==
    /\ pc[c] = "session"
    /\ Valid
    /\ held' = [held EXCEPT ![c] = session]
    /\ Goto(c, "send")
    /\ LeaveLogin(c)
    /\ UNCHANGED <<cache, flight, refusedAt, answer, outcome>>

\* The login context is made the first time the call has to log in or wait.
OpenLogin(c) ==
    login' = [login EXCEPT ![c] = IF login[c] = "none" THEN "open" ELSE login[c]]

\* ... another call is logging in: wait for its flight.
JoinFlight(c) ==
    /\ pc[c] = "session"
    /\ ~Valid
    /\ ~MayLead
    /\ OpenLogin(c)
    /\ Goto(c, "wait")
    /\ UNCHANGED <<cache, flight, held, refusedAt, answer, outcome>>

\* ... nobody is logging in: this call leads the flight.
StartFlight(c) ==
    /\ pc[c] = "session"
    /\ ~Valid
    /\ MayLead
    /\ OpenLogin(c)
    /\ flight' = c
    /\ Goto(c, "login")
    /\ UNCHANGED <<cache, held, refusedAt, answer, outcome>>

\* A login context that has ended turns an accepted login and a transport
\* failure into its own failure; a rejection stays a rejection.
LoginResult(c, raw) ==
    IF Ended(c) /\ raw # "rejected" THEN LoginFailure(c) ELSE raw

\* The login exchange ends: accepted, rejected, or without an answer.
LoginAnswers(c) ==
    /\ pc[c] = "login"
    /\ \E raw \in {"ok", "rejected", "transport"} :
          answer' = [answer EXCEPT ![c] = LoginResult(c, raw)]
    /\ Goto(c, "store")
    /\ UNCHANGED <<cache, flight, held, refusedAt, login, outcome>>

\* A waiter that has not been told anything yet.
Waiting(d) == pc[d] = "wait" /\ answer[d] = "none"

\* The leader clears authFlight.  (Slip: it stays set.)
KeepFlight(c) == flight' = flight
ClearFlight(c) == flight' = IF flight = c THEN NoCall ELSE flight

\* Closing flight.done: every call that waits on the flight learns its result.
\* (Slip: done is closed only after a successful login.)
TellSuccess(c) ==
    answer' = [d \in Calls |-> IF d = c THEN "none"
                               ELSE IF Waiting(d) /\ answer[c] = "ok" THEN "ok"
                               ELSE answer[d]]
TellWaiters(c) ==
    answer' = [d \in Calls |-> IF d = c THEN "none"
                               ELSE IF Waiting(d) THEN answer[c]
                               ELSE answer[d]]

CloseFlight(c) == ClearFlight(c) /\ TellWaiters(c)

\* The stored session is numbered with the next generation.
NumberSession == session' = generation + 1 /\ generation' = generation + 1

\* currentSession, second critical section, after a successful login: the
\* session is numbered and stored, and the leader is handed its own session.
\* A token may have a lifetime of zero, or expire before it is stored.
StoreSession(c) ==
    /\ pc[c] = "store"
    /\ answer[c] = "ok"
    /\ NumberSession
    /\ expired' \in {expired, expired \cup {generation + 1}}
    /\ CloseFlight(c)
    /\ held' = [held EXCEPT ![c] = generation + 1]
    /\ Goto(c, "send")
    /\ LeaveLogin(c)
    /\ UNCHANGED <<refusedAt, outcome>>

\* ... and after a failed one: nothing is stored, every waiter fails with it.
FailFlight(c) ==
    /\ pc[c] = "store"
    /\ answer[c] \in Failures
    /\ CloseFlight(c)
    /\ Finish(c, answer[c])
    /\ LeaveLogin(c)
    /\ UNCHANGED <<cache, refusedAt>>

\* A waiter sees the flight closed: it fails with the leader's error ...
WakeFailed(c) ==
    /\ pc[c] = "wait"
    /\ answer[c] \in Failures
    /\ Finish(c, answer[c])
    /\ answer' = [answer EXCEPT ![c] = "none"]
    /\ LeaveLogin(c)
    /\ UNCHANGED <<cache, flight, refusedAt>>

\* ... or goes round the loop and looks at the session again.
WakeAgain(c) ==
    /\ pc[c] = "wait"
    /\ answer[c] = "ok"
    /\ Goto(c, "session")
    /\ answer' = [answer EXCEPT ![c] = "none"]
    /\ UNCHANGED <<cache, flight, held, refusedAt, login, outcome>>

\* A waiter's own login context ends before it takes the flight's answer.
GiveUpWaiting(c) ==
    /\ pc[c] = "wait"
    /\ Ended(c)
    /\ Finish(c, LoginFailure(c))
    /\ answer' = [answer EXCEPT ![c] = "none"]
    /\ LeaveLogin(c)
    /\ UNCHANGED <<cache, flight, refusedAt>>

\* The request is answered, it fails (transport, the caller's deadline or
\* cancellation, a body that cannot be built), or its refusal is final: the
\* retry was refused, or the request cannot be replayed.
SendEnds(c) ==
    /\ pc[c] = "send"
    /\ \E result \in {"ok", "failed", "refused"} : Finish(c, result)
    /\ UNCHANGED <<cache, flight, refusedAt, login, answer>>

\* The first answer asks for authentication and the request can be replayed.
SendRefused(c) ==
    /\ pc[c] = "send"
    /\ refusedAt[c] = 0
    /\ refusedAt' = [refusedAt EXCEPT ![c] = held[c]]
    /\ Goto(c, "drop")
    /\ UNCHANGED <<cache, flight, held, login, answer, outcome>>

\* invalidateSession(session.generation)
DropSession(c) ==
    /\ pc[c] = "drop"
    /\ session' = IF DropsSession(c) THEN 0 ELSE session
    /\ held' = [held EXCEPT ![c] = 0]
    /\ Goto(c, "session")
    /\ UNCHANGED <<generation, expired, flight, refusedAt, login, answer, outcome>>

------------------------------------------------------------------------------
\* The environment.  The cached session's expiry passes.
Expire ==
    /\ Valid
    /\ expired' = expired \cup {session}
    /\ UNCHANGED <<generation, session, flight, pc, held, refusedAt, login,
                   answer, outcome>>

\* loginContext: the caller's cancellation is forwarded to the login context,
\* or loginTimeout runs out on the context's own clock.
EndLogin(c) ==
    /\ login[c] = "open"
    /\ \E how \in {"cancelled", "late"} : login' = [login EXCEPT ![c] = how]
    /\ UNCHANGED <<cache, flight, pc, held, refusedAt, answer, outcome>>

\* All calls have returned.
Terminated == (\A c \in Calls : pc[c] = "done") /\ UNCHANGED vars

------------------------------------------------------------------------------
\* The steps a call's goroutine takes by itself.
CallStep(c) ==
    \/ UseSession(c) \/ JoinFlight(c) \/ StartFlight(c)
    \/ LoginAnswers(c) \/ StoreSession(c) \/ FailFlight(c)
    \/ WakeFailed(c) \/ WakeAgain(c) \/ GiveUpWaiting(c)
    \/ SendEnds(c) \/ SendRefused(c) \/ DropSession(c)

Next ==
    \/ \E c \in Calls : CallStep(c) \/ EndLogin(c)
    \/ Expire
    \/ Terminated

Spec == Init /\ [][Next]_vars

\* Goroutines are scheduled, authMu is starvation free, and every exchange
\* ends: a login by loginTimeout at the latest, a request by its timeout.
\* Nothing is assumed of expiry or of how a login context ends.
FairSpec == Spec /\ \A c \in Calls : WF_vars(CallStep(c))

------------------------------------------------------------------------------
\* The generations some call's first answer refused.
Refused == {refusedAt[c] : c \in Calls} \ {0}

\* Only the call that owns the flight is logging in: concurrent calls share
\* one login (currentSession's authFlight).
SingleLogin ==
    \A c \in Calls : pc[c] \in {"login", "store"} <=> flight = c

\* A login in flight never competes with a usable session: when its result is
\* stored it replaces a dropped or an expired session, whatever refusals and
\* expiries happened while the exchange was on the wire.
LoginReplacesUnusable == flight # NoCall => ~Valid

\* A herd of refusals costs one login: every session but the current one was
\* given up because the server refused it or because it expired.
EveryLoginWasNeeded ==
    \A g \in 1..generation : g # session => g \in Refused \cup expired

\* The single retry never repeats the session the server has just refused:
\* whatever the other calls did in between, it goes out with a newer one.
RetryUsesNewerSession ==
    \A c \in Calls :
        pc[c] = "send" /\ refusedAt[c] # 0 => held[c] > refusedAt[c]

\* A usable session is given up only after the server refused that very
\* session, and never in exchange for an older one: a late refusal of an old
\* session does not log the other calls out of a newer one.
DroppedOnlyWhenRefused ==
    [][Valid /\ session' # session => session' = 0 /\ session \in Refused]_vars

\* Every call returns: a cancelled or failed login leaves nobody waiting.
EveryCallReturns == \A c \in Calls : <>(pc[c] = "done")

\* The callers see leases of numbered sessions and atomic logins.
Lease == INSTANCE SessionLease WITH refused <- Refused
ImplementsLease == Lease!Spec
==============================================================================
