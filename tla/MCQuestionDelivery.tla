------------------------- MODULE MCQuestionDelivery -------------------------
(* Instance for TLC: see QuestionDelivery.cfg. *)
EXTENDS QuestionDelivery
=============================================================================
