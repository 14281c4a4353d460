-------------------------- MODULE MCContextPreview --------------------------
(* The instance for TLC: see ContextPreview.cfg. *)
EXTENDS ContextPreview

(* The group message is as old as the first turn. *)
MCMessageDay == [m \in Messages |-> 1]
=============================================================================
