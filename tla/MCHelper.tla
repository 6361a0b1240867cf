------------------------------ MODULE MCHelper ------------------------------
(***************************************************************************)
(* Helper for TLC.  The app's connections carry one request each and are   *)
(* interchangeable, as the keys and the bearers are.                       *)
(***************************************************************************)
EXTENDS Helper, TLC

Symmetry == Permutations(Conns) \cup Permutations(Keys) \cup Permutations(Bearers)
=============================================================================
