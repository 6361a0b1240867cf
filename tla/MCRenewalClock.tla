--------------------------- MODULE MCRenewalClock ---------------------------
(***************************************************************************)
(* RenewalClock for TLC, in units of ten seconds: the delays of the code,  *)
(* the two ceilings lowered alike so that a lease of a few minutes reaches *)
(* them, and the app's 45 s rounded up.  The leases are one below the      *)
(* helper's floor, one renewed at its half, and one at the ceiling.        *)
(***************************************************************************)
EXTENDS RenewalClock
=============================================================================
