---------------------------- MODULE SessionLease ----------------------------
(***************************************************************************)
(* What the authentication state of a creatio.Client promises its callers, *)
(* with no login in flight, no waiting and no contexts: sessions are       *)
(* numbered, a caller is leased the current one, a login happens in one    *)
(* step and only when there is nothing usable to lease, and a session is   *)
(* given up only after the server refused that very session.  AuthSession  *)
(* implements it.                                                          *)
(***************************************************************************)
EXTENDS Integers

CONSTANT Calls

VARIABLES
    generation,  \* how many sessions were ever made
    session,     \* the current one, 0 for none
    expired,     \* the sessions that were seen to expire
    refused,     \* the sessions the server refused a request of
    held         \* the session each caller leases, 0 for none

vars == <<generation, session, expired, refused, held>>

Init ==
    /\ generation = 0
    /\ session = 0
    /\ expired = {}
    /\ refused = {}
    /\ held = [c \in Calls |-> 0]

Usable == session # 0 /\ session \notin expired

Lease(c) ==
    /\ Usable
    /\ held' = [held EXCEPT ![c] = session]
    /\ UNCHANGED <<generation, session, expired, refused>>

\* A new session, which may be dead on arrival.
Login(c) ==
    /\ ~Usable
    /\ generation' = generation + 1
    /\ session' = generation + 1
    /\ expired' \in {expired, expired \cup {generation + 1}}
    /\ held' = [held EXCEPT ![c] = generation + 1]
    /\ UNCHANGED refused

\* A leased session is refused for the first time a caller uses one.
Refuse(c) ==
    /\ held[c] # 0
    /\ refused' = refused \cup {held[c]}
    /\ UNCHANGED <<generation, session, expired, held>>

\* A lease ends.
Return(c) ==
    /\ held' = [held EXCEPT ![c] = 0]
    /\ UNCHANGED <<generation, session, expired, refused>>

\* A caller whose session was refused has it given up, if it is still current.
GiveUp(c) ==
    /\ held[c] = session
    /\ session \in refused
    /\ session' = 0
    /\ held' = [held EXCEPT ![c] = 0]
    /\ UNCHANGED <<generation, expired, refused>>

Expire ==
    /\ session # 0
    /\ expired' = expired \cup {session}
    /\ UNCHANGED <<generation, session, refused, held>>

Next ==
    \/ Expire
    \/ \E c \in Calls :
          Lease(c) \/ Login(c) \/ Refuse(c) \/ Return(c) \/ GiveUp(c)

Spec == Init /\ [][Next]_vars
=============================================================================
