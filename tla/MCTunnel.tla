------------------------------ MODULE MCTunnel ------------------------------
(***************************************************************************)
(* Tunnel for TLC: three entries, of which two name one route.             *)
(***************************************************************************)
EXTENDS Tunnel, TLC

CONSTANTS e1, e2, e3, r1, r2

ThreeEntries == {e1, e2, e3}

TwoRoutes == (e1 :> r1) @@ (e2 :> r1) @@ (e3 :> r2)

\* The two entries of one route are interchangeable.
Symmetry == Permutations({e1, e2})
=============================================================================
