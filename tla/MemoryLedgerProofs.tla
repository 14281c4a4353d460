------------------------- MODULE MemoryLedgerProofs -------------------------
(***************************************************************************)
(* The version chain of MemoryLedger is a line that never loops, for any   *)
(* number of memories.                                                     *)
(***************************************************************************)
EXTENDS MemoryLedger, TLAPS

(* A memory that was replaced is retired and stays so; one that was never  *)
(* recorded replaces nothing.  Both are needed for the other two to        *)
(* survive a Supersede step.                                               *)
LedgerInv ==
    /\ LedgerType
    /\ ReplacedIsRetired
    /\ AbsentReplacesNothing
    /\ LinearChain
    /\ WellFoundedChain

(* Nothing has been recorded at first, so nothing replaces anything.       *)
LEMMA InitLedgerInv ==
    ASSUME NoMemory \notin Memories
    PROVE  LedgerInit => LedgerInv
BY DEF LedgerInit, LedgerInv, LedgerType, ReplacedIsRetired, AbsentReplacesNothing,
    LinearChain, WellFoundedChain

(* A first version and a retirement leave the chain alone.                 *)
LEMMA KeepChain ==
    ASSUME NoMemory \notin Memories, LedgerInv, UNCHANGED replaces, NEW m \in Memories, Record(m) \/ Retire(m)
    PROVE  LedgerInv'
<1>1. LedgerType'
  BY DEF LedgerInv, LedgerType, Record, Retire
<1>2. ReplacedIsRetired'
  BY DEF LedgerInv, LedgerType, ReplacedIsRetired, Record, Retire
<1>3. AbsentReplacesNothing'
  BY DEF LedgerInv, LedgerType, AbsentReplacesNothing, Record, Retire
<1>4. LinearChain' /\ WellFoundedChain'
  BY DEF LedgerInv, LinearChain, WellFoundedChain
<1> QED
  BY <1>1, <1>2, <1>3, <1>4 DEF LedgerInv

(* A replacement adds one link, from a memory nothing points at to one     *)
(* that nothing had replaced.                                              *)
LEMMA ExtendChain ==
    ASSUME NoMemory \notin Memories, LedgerInv, NEW m \in Memories, NEW old \in Memories, Supersede(m, old)
    PROVE  LedgerInv'
<1>0. /\ LedgerType /\ ReplacedIsRetired /\ AbsentReplacesNothing
      /\ LinearChain /\ WellFoundedChain
      /\ state[m] = "absent" /\ state[old] = "live" /\ m # old
      /\ state' = [state EXCEPT ![m] = "live", ![old] = "retired"]
      /\ replaces' = [replaces EXCEPT ![m] = old]
  BY DEF LedgerInv, Supersede
<1>a. \A n \in Memories : replaces[n] # m /\ replaces[n] # old
  BY <1>0 DEF ReplacedIsRetired
<1>1. LedgerType'
  BY <1>0 DEF LedgerType
<1>2. ReplacedIsRetired'
  BY <1>0, <1>a DEF LedgerType, ReplacedIsRetired
<1>3. AbsentReplacesNothing'
  BY <1>0 DEF LedgerType, AbsentReplacesNothing
<1>4. LinearChain'
  BY <1>0, <1>a DEF LedgerType, LinearChain
<1>5. WellFoundedChain'
  <2> SUFFICES ASSUME NEW S \in SUBSET Memories, S # {}
               PROVE  \E n \in S : replaces'[n] \notin S
    BY DEF WellFoundedChain
  <2>1. CASE S = {m}
    BY <2>1, <1>0 DEF LedgerType
  <2>2. CASE S # {m}
    <3>1. PICK n \in S \ {m} : replaces[n] \notin S \ {m}
      BY <2>2, <1>0 DEF WellFoundedChain
    <3>2. replaces'[n] = replaces[n] /\ replaces[n] # m
      BY <3>1, <1>0, <1>a DEF LedgerType
    <3> QED
      BY <3>1, <3>2
  <2> QED
    BY <2>1, <2>2
<1> QED
  BY <1>1, <1>2, <1>3, <1>4, <1>5 DEF LedgerInv

LEMMA NextLedgerInv ==
    ASSUME NoMemory \notin Memories
    PROVE  LedgerInv /\ [LedgerNext]_ledger => LedgerInv'
<1> SUFFICES ASSUME LedgerInv, [LedgerNext]_ledger PROVE LedgerInv'
  OBVIOUS
<1>1. CASE \E m \in Memories : Record(m) \/ Retire(m)
  BY <1>1, KeepChain DEF Record, Retire
<1>2. CASE \E m, old \in Memories : Supersede(m, old)
  BY <1>2, ExtendChain
<1>3. CASE UNCHANGED ledger
  BY <1>3 DEF ledger, LedgerInv, LedgerType, ReplacedIsRetired, AbsentReplacesNothing,
              LinearChain, WellFoundedChain
<1> QED
  BY <1>1, <1>2, <1>3 DEF LedgerNext

(* Every version of a fact has at most one successor and is not its own    *)
(* ancestor: what a reader of the chain (list_memory_versions) relies on.  *)
THEOREM LedgerCorrect ==
    ASSUME NoMemory \notin Memories
    PROVE  LedgerSpec => [](LinearChain /\ WellFoundedChain /\ ReplacedIsRetired)
<1>1. LedgerInv => LinearChain /\ WellFoundedChain /\ ReplacedIsRetired
  BY DEF LedgerInv
<1> QED
  BY <1>1, InitLedgerInv, NextLedgerInv, PTL DEF LedgerSpec
=============================================================================
