--------------------------- MODULE MCRiskFeedback ---------------------------
(***************************************************************************)
(* Instances of RiskFeedback for TLC.                                      *)
(***************************************************************************)
EXTENDS RiskFeedback, TLC

CONSTANTS j1, j2, o1, o2, s1, s2

Symmetry == Permutations(Jobs) \cup Permutations(Owners)
=============================================================================
