-------------------------- MODULE MCMemoryApproval --------------------------
(***************************************************************************)
(* Instances of MemoryApproval for TLC.                                    *)
(***************************************************************************)
EXTENDS MemoryApproval, TLC

CONSTANTS k1, k2, t1, t2

(* One fact, told in one way.                                              *)
OneClaim == {[key |-> k1, text |-> t1]}

(* The third claim shares its fact key with the first and its text with    *)
(* the second.                                                             *)
OverlappingClaims == {[key |-> k1, text |-> t1], [key |-> k2, text |-> t2],
                      [key |-> k1, text |-> t2]}

(* Callers leave valid_from out.                                           *)
AtOnce == {Never}

(* Time passes while at most two proposals exist or are being created.     *)
Known(p) == proposal[p].status # "absent" \/ \E w \in Workers : work[w].id = p
FewWhenLate == now = 0 \/ Cardinality({p \in Proposals : Known(p)}) <= 2

Symmetry == Permutations(Workers) \cup Permutations(Proposals) \cup Permutations(Memories)
=============================================================================
