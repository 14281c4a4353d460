---------------------------- MODULE MCSourceSync ----------------------------
(* Instances for TLC: see SourceSync.cfg and SourceRows.cfg. *)
EXTENDS SourceSync, TLC

Symmetry == Permutations(Workers)
=============================================================================
