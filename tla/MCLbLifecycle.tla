---------------------------- MODULE MCLbLifecycle ----------------------------
(***************************************************************************)
(* Values for the constants of LbLifecycle.                                *)
(***************************************************************************)
EXTENDS LbLifecycle, TLC

CONSTANTS s1, s2

\* Services are compared only for equality.
Symmetry == Permutations(Services)
==============================================================================
