---------------------------- MODULE MemoryLedger ----------------------------
(***************************************************************************)
(* What the memory store promises about project memories, without saying   *)
(* how: a memory is recorded once, it is live until it is retired, it is   *)
(* never live again, and a replacement becomes live in the very step that  *)
(* retires the memory it replaces.  MemoryApproval implements it.          *)
(***************************************************************************)
CONSTANTS Memories, NoMemory    \* a value that is no memory

VARIABLES state,      \* what became of each memory
          replaces    \* the memory each one replaced

ledger == <<state, replaces>>

LedgerType ==
    /\ state \in [Memories -> {"absent", "live", "retired"}]
    /\ replaces \in [Memories -> Memories \cup {NoMemory}]

LedgerInit ==
    /\ state = [m \in Memories |-> "absent"]
    /\ replaces = [m \in Memories |-> NoMemory]

Record(m) ==
    /\ state[m] = "absent"
    /\ state' = [state EXCEPT ![m] = "live"]
    /\ UNCHANGED replaces

Supersede(m, old) ==
    /\ state[m] = "absent"
    /\ state[old] = "live"
    /\ state' = [state EXCEPT ![m] = "live", ![old] = "retired"]
    /\ replaces' = [replaces EXCEPT ![m] = old]

Retire(m) ==
    /\ state[m] = "live"
    /\ state' = [state EXCEPT ![m] = "retired"]
    /\ UNCHANGED replaces

LedgerNext == \/ \E m \in Memories : Record(m) \/ Retire(m)
              \/ \E m, old \in Memories : Supersede(m, old)

LedgerSpec == LedgerInit /\ [][LedgerNext]_ledger

-----------------------------------------------------------------------------
(* A memory that something replaced is retired.                            *)
ReplacedIsRetired ==
    \A m \in Memories : replaces[m] # NoMemory => state[replaces[m]] = "retired"

(* A memory that was not recorded replaces nothing.                        *)
AbsentReplacesNothing ==
    \A m \in Memories : state[m] = "absent" => replaces[m] = NoMemory

(* No memory has two successors: versions of a fact form a line.           *)
LinearChain ==
    \A m, n \in Memories : replaces[m] = replaces[n] /\ replaces[m] # NoMemory => m = n

(* No memory is its own ancestor: every set of memories has one whose      *)
(* predecessor is outside it.                                              *)
WellFoundedChain ==
    \A S \in SUBSET Memories : S # {} => \E m \in S : replaces[m] \notin S
=============================================================================
