--------------------------- MODULE AnswerPromise ---------------------------
(* What a user who presses "confirm" on a preview card is promised, without
   runs, threads, stores or messages: a press is taken up at most once, it
   leads to one answer or to one word that there is none, and unless the
   process loses it, it does lead there. *)

CONSTANT Presses        \* the confirm presses, one callback event id each

VARIABLE outcome        \* what became of each press so far

Outcomes == {"unasked", "open", "answered", "told", "lost"}

Init == outcome = [p \in Presses |-> "unasked"]

(* The press is taken up: a run exists and will be worked on. *)
Open(p) == /\ outcome[p] = "unasked"
           /\ outcome' = [outcome EXCEPT ![p] = "open"]

(* The question is answered, or its asker is told that it will not be. *)
Settle(p) == /\ outcome[p] = "open"
             /\ \E o \in {"answered", "told"} :
                  outcome' = [outcome EXCEPT ![p] = o]

(* A press that is refused, and presses that are open when the process dies:
   a crash loses all of them at once. *)
Lose(P) == /\ P # {}
           /\ \A p \in P : outcome[p] \in {"unasked", "open"}
           /\ outcome' = [p \in Presses |-> IF p \in P THEN "lost" ELSE outcome[p]]

Next == \/ \E p \in Presses : Open(p) \/ Settle(p)
        \/ \E P \in SUBSET Presses : Lose(P)

SafeSpec == Init /\ [][Next]_outcome

(* Nothing stays open for ever. *)
Closes == \A p \in Presses : outcome[p] = "open" ~> outcome[p] # "open"

Spec == SafeSpec /\ Closes
=============================================================================
