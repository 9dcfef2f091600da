--------------------------- MODULE MCAuthSession ---------------------------
(* AuthSession for two concurrent calls: a leader and a follower, or two    *)
(* calls that hold sessions of different age.                               *)
EXTENDS AuthSession
=============================================================================
