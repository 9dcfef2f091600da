-------------------------- MODULE MCOperationStore --------------------------
(* OperationStore with a small capacity, a short idle time and few          *)
(* operations; the tenants are interchangeable.                             *)
EXTENDS OperationStore, TLC

TenantSymmetry == Permutations(Tenants)
=============================================================================
