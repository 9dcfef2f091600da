------------------------ MODULE KnowledgeActivation ------------------------
(***************************************************************************)
(* What the knowledge store promises of one source, with no files, locks,  *)
(* operations or failures: the library's accepted bundle only moves        *)
(* forward, and the activated one only becomes the accepted one or nothing. *)
(* KnowledgeStore implements it.                                           *)
(***************************************************************************)
EXTENDS Integers

CONSTANTS
    Bundles,  \* records with a sequence and a digest
    None

VARIABLES
    accepted,  \* the bundle of the highest sequence ever accepted
    active     \* the bundle that is activated

vars == <<accepted, active>>

Init ==
    /\ accepted \in Bundles \cup {None}
    /\ active \in {None, accepted}

\* A bundle of a later sequence is accepted.
Accept ==
    /\ \E b \in Bundles :
          /\ accepted # None => accepted.sequence < b.sequence
          /\ accepted' = b
    /\ UNCHANGED active

Activate ==
    /\ active' = accepted
    /\ UNCHANGED accepted

Remove ==
    /\ active' = None
    /\ UNCHANGED accepted

Next == Accept \/ Activate \/ Remove

Spec == Init /\ [][Next]_vars
=============================================================================
