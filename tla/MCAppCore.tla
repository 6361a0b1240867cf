----------------------------- MODULE MCAppCore ------------------------------
(***************************************************************************)
(* AppCore for TLC: one person, whom the server offers one tenant, which   *)
(* the session names or not.                                               *)
(***************************************************************************)
EXTENDS AppCore, TLC

AllOffered == [p \in People |-> Tenants]

Symmetry == Permutations(Calls)
=============================================================================
