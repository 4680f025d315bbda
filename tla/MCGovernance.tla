----------------------------- MODULE MCGovernance -----------------------------
(***************************************************************************)
(* An instance of Governance for TLC: three requests, two of them in one   *)
(* process, two ceilings and two trust tiers.                              *)
(***************************************************************************)
EXTENDS GovernanceProps, TLC

CONSTANTS q1, q2, q3, p1, p2

TwoInOne == (q1 :> p1) @@ (q2 :> p1) @@ (q3 :> p2)
SmallCeilings == {1, 2}
SmallTiers == {0, 1}
SameProcess == Permutations({q1, q2})
=============================================================================
