------------------------------ MODULE MCSignIn ------------------------------
(***************************************************************************)
(* SignIn for TLC.                                                         *)
(***************************************************************************)
EXTENDS SignIn, TLC

CONSTANTS l1, l2

\* Overlapping logins share the prompt only, so that each flow beside the one
\* with the fewest states is enough.
EachBesideGoAuthn ==
    {(l1 :> p @@ l2 :> "go-authn") : p \in {"github", "oidc", "go-authn"}}

Symmetry == Permutations(Callbacks)
=============================================================================
