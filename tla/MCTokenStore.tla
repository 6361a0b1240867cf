---------------------------- MODULE MCTokenStore ----------------------------
(***************************************************************************)
(* TokenStore for TLC.                                                     *)
(***************************************************************************)
EXTENDS TokenStore, TLC

Symmetry == Permutations(Threads) \cup Permutations(Sessions) \cup Permutations(Inodes)
=============================================================================
