----------------------- MODULE MCConversationBranches -----------------------
(***************************************************************************)
(* Instances of ConversationBranches for TLC.  Lines are ordered (their    *)
(* ids follow the order of creation), so only the questions are symmetric. *)
(***************************************************************************)
EXTENDS ConversationBranches, TLC

CONSTANTS q1, q2

Symmetry == Permutations(Turns)
=============================================================================
