--------------------------- MODULE MemoryApproval ---------------------------
(***************************************************************************)
(* The memory-approval path of ProjectLens: proposals for long-term        *)
(* project memory, the gateway that decides them, and the SQLite store     *)
(* that keeps both tables.  HTTP handlers run on a thread pool and the     *)
(* Feishu card handler on the event loop, so several requests execute the  *)
(* same code at once.  SQLiteDatabase serialises single statements (each   *)
(* commits on its own) and one explicit transaction; one action here is    *)
(* what runs between two acquisitions of that lock.                        *)
(*                                                                         *)
(* One project is modelled: every query is scoped by (tenant, project).    *)
(* A claim stands for a memory's type, fact key and normalised text.       *)
(* Permission, evidence and provenance checks refuse a request without     *)
(* touching the store, so they are part of the nondeterministic refusals.  *)
(***************************************************************************)
EXTENDS Naturals, FiniteSets

CONSTANTS Workers,      \* concurrent request handlers
          Proposals,    \* proposal ids (uuid4)
          Memories,     \* memory ids (uuid4)
          Claims,       \* records [key, text]: the fact key and the text
          NoKey,        \* the fact key of a claim with no subject and no slot
          NoProposal,
          NoMemory,     \* replaces_memory_id is None
          Starts,       \* the valid_from values that proposals carry
          TTL,          \* lifetime of a pending proposal, in ticks
          MaxTime       \* bound of the clock

ASSUME MemoryAssumption ==
    /\ NoMemory \notin Memories
    /\ NoProposal \notin Proposals
    /\ TTL \in Nat
    /\ MaxTime \in Nat
    /\ Claims # {}
    /\ Starts \subseteq 0..MaxTime \cup {MaxTime + TTL + 1}

VARIABLES now,        \* the clock, in ticks
          proposal,   \* table memory_proposals
          memory,     \* table project_memories
          work,       \* what each request handler is doing
          contested   \* history: proposals that overlapping requests decided

vars == <<now, proposal, memory, work, contested>>

Time == 0..MaxTime
Never == MaxTime + TTL + 1          \* valid_to is None

ProposalStatus == {"absent", "pending", "approved", "rejected", "expired"}
MemoryStatus == {"absent", "active", "revoked", "superseded"}
Step == {"idle", "target", "conflict", "insert", "expire", "load", "check",
         "write", "record", "replace"}

Draft == [claim : Claims, target : Memories \cup {NoMemory},
          from : Time \cup {Never}]

AnyDraft == [claim |-> CHOOSE c \in Claims : TRUE, target |-> NoMemory, from |-> Never]

(***************************************************************************)
(* draft.from = Never stands for valid_from = None, filled in by the       *)
(* approval.                                                               *)
(***************************************************************************)
ProposalRow == [status : ProposalStatus, draft : Draft, expires : Nat]

MemoryRow == [status : MemoryStatus, claim : Claims,
              proposal : Proposals \cup {NoProposal},
              supersedes : Memories \cup {NoMemory},
              from : Time, to : Time \cup {Never}]

(***************************************************************************)
(* A handler holds the status it read (seen), the step it takes after a    *)
(* lazy expiry (after), the outcome asked for, the row it is about to      *)
(* insert (draft, expires) and the valid_from it computed (from).          *)
(***************************************************************************)
Handler == [pc : Step, id : Proposals \cup {NoProposal}, approved : BOOLEAN,
            seen : ProposalStatus, after : Step, draft : Draft, expires : Nat,
            from : Time]

Idle == [pc |-> "idle", id |-> NoProposal, approved |-> FALSE, seen |-> "absent",
         after |-> "idle", draft |-> AnyDraft, expires |-> 0, from |-> 0]

Init ==
    /\ now = 0
    /\ proposal = [p \in Proposals |-> [status |-> "absent", draft |-> AnyDraft, expires |-> 0]]
    /\ memory = [m \in Memories |-> [status |-> "absent", claim |-> AnyDraft.claim,
                                     proposal |-> NoProposal, supersedes |-> NoMemory,
                                     from |-> 0, to |-> Never]]
    /\ work = [w \in Workers |-> Idle]
    /\ contested = {}

-----------------------------------------------------------------------------
(* Reading the tables                                                      *)

(* _memory_is_current: the rows list_memories returns as of a moment.      *)
CurrentAt(m, t) ==
    /\ memory[m].status = "active"
    /\ memory[m].from <= t
    /\ memory[m].to > t

CurrentMemories == {m \in Memories : CurrentAt(m, now)}

(* The test of _assert_no_unresolved_conflict: same fact key or same text. *)
SameFact(c, d) == \/ c.key # NoKey /\ c.key = d.key
                  \/ c.text = d.text

Conflicting(d) == {m \in CurrentMemories : SameFact(d.claim, memory[m].claim)}

(* The check scans the rows and stops at the first conflicting one: it     *)
(* passes there when that row is the replacement target, and refuses       *)
(* otherwise.  SQLite fixes no row order, so either row may come first.    *)
NoUnresolvedConflict(d) == Conflicting(d) = {} \/ d.target \in Conflicting(d)
UnresolvedConflict(d) == Conflicting(d) \ {d.target} # {}

TargetExists(d) == d.target = NoMemory \/ memory[d.target].status # "absent"
TargetIsActive(d) == d.target = NoMemory \/ d.target \in CurrentMemories

PastExpiry(p) == now >= proposal[p].expires
Expired(p) == proposal[p].status = "pending" /\ now >= proposal[p].expires

Goto(w, h, pc) == work' = [work EXCEPT ![w] = [h EXCEPT !.pc = pc]]
Return(w) == work' = [work EXCEPT ![w] = Idle]

(* A handler that read its proposal pending and will not look at the row   *)
(* again before it writes it.                                              *)
Holding(h) == h.pc \in {"write", "expire"} \/ (h.pc = "check" /\ h.seen = "pending")
HoldsPending(v, p) == work[v].id = p /\ Holding(work[v])

(* The status of p is written while another handler holds it pending.      *)
NoteOverlap(w, p) ==
    contested' = contested \cup
        {q \in {p} : \E v \in Workers \ {w} : HoldsPending(v, p)}

-----------------------------------------------------------------------------
(* create_proposal                                                         *)

(* The id is fresh (uuid4), so get_proposal returns None and the row to    *)
(* insert is built with its expiry.                                        *)
CreateStart(w, p, d) ==
    /\ work[w].pc = "idle"
    /\ proposal[p].status = "absent"
    /\ \A v \in Workers : work[v].id # p
    /\ Goto(w, [Idle EXCEPT !.id = p, !.draft = d, !.expires = now + TTL], "target")
    /\ UNCHANGED <<now, proposal, memory, contested>>

(* _assert_replace_target, then _assert_no_unresolved_conflict: two reads  *)
(* of project_memories, each a statement of its own.                       *)
CreateTarget(w) ==
    /\ work[w].pc = "target"
    /\ IF TargetIsActive(work[w].draft) THEN Goto(w, work[w], "conflict") ELSE Return(w)
    /\ UNCHANGED <<now, proposal, memory, contested>>

CreateConflict(w) ==
    /\ work[w].pc = "conflict"
    /\ \/ NoUnresolvedConflict(work[w].draft) /\ Goto(w, work[w], "insert")
       \/ UnresolvedConflict(work[w].draft) /\ Return(w)
    /\ UNCHANGED <<now, proposal, memory, contested>>

CreateInsert(w) ==
    /\ work[w].pc = "insert"
    /\ proposal' = [proposal EXCEPT ![work[w].id] =
                        [status |-> "pending", draft |-> work[w].draft,
                         expires |-> work[w].expires]]
    /\ Return(w)
    /\ UNCHANGED <<now, memory, contested>>

-----------------------------------------------------------------------------
(* get_proposal, on its own and inside a decision                          *)

(* SELECT the row; when it is pending and past its expiry the caller       *)
(* writes the expired copy back (Expire) before going on to `next'.        *)
Fetch(w, h, next) ==
    LET q == proposal[h.id] IN
    IF Expired(h.id)
    THEN Goto(w, [h EXCEPT !.seen = "expired", !.after = next], "expire")
    ELSE Goto(w, IF next = "idle" THEN Idle ELSE [h EXCEPT !.seen = q.status], next)

Expire(w) ==
    /\ work[w].pc = "expire"
    /\ proposal' = [proposal EXCEPT ![work[w].id].status = "expired"]
    /\ NoteOverlap(w, work[w].id)
    /\ IF work[w].after = "idle" THEN Return(w)
       ELSE Goto(w, [work[w] EXCEPT !.after = "idle"], work[w].after)
    /\ UNCHANGED <<now, memory>>

(* GET /memory-proposals/{id}, and create_proposal for an id that exists.  *)
Peek(w, p) ==
    /\ work[w].pc = "idle"
    /\ proposal[p].status # "absent"
    /\ Fetch(w, [Idle EXCEPT !.id = p], "idle")
    /\ UNCHANGED <<now, proposal, memory, contested>>

(* MemoryApprovalGateway.decide_memory_proposal reads the proposal and     *)
(* routes it: approvals of replacements go to the transactional path.      *)
GatewayDecide(w, p, approved) ==
    /\ work[w].pc = "idle"
    /\ proposal[p].status # "absent"
    /\ Fetch(w, [Idle EXCEPT !.id = p, !.approved = approved],
             IF approved /\ proposal[p].draft.target # NoMemory THEN "replace" ELSE "load")
    /\ UNCHANGED <<now, proposal, memory, contested>>

(* decide_proposal reads the row again.                                    *)
DecideLoad(w) ==
    /\ work[w].pc = "load"
    /\ Fetch(w, work[w], "check")
    /\ UNCHANGED <<now, proposal, memory, contested>>

(* prepare_decision on that copy: an expired or decided proposal and a     *)
(* caller outside allowed_approvers are refused; a copy that expired since *)
(* the read is written back as expired, and refused.                       *)
MayDecideAgain(h) == h.seen # "expired"
MayDecide(h) == h.seen = "pending"

StartsAsDrafted(d) == d.from
ValidFrom(d) == IF d.from = Never THEN now ELSE d.from

DecideCheck(w) ==
    LET h == work[w]
        d == proposal[h.id].draft
    IN
    /\ h.pc = "check"
    /\ \/ Return(w)
       \/ /\ MayDecide(h)
          /\ now >= proposal[h.id].expires
          /\ Goto(w, [h EXCEPT !.seen = "expired"], "expire")
       \/ /\ MayDecide(h)
          /\ now < proposal[h.id].expires
          /\ Goto(w, [h EXCEPT !.from = ValidFrom(d)], "write")
    /\ UNCHANGED <<now, proposal, memory, contested>>

(* The decided row goes in with no look at what the table holds by now.    *)
DecideWrite(w) ==
    LET h == work[w] IN
    /\ h.pc = "write"
    /\ proposal' = [proposal EXCEPT ![h.id].status =
                        IF h.approved THEN "approved" ELSE "rejected"]
    /\ NoteOverlap(w, h.id)
    /\ IF h.approved THEN Goto(w, h, "record") ELSE Return(w)
    /\ UNCHANGED <<now, memory>>

MemoryWithoutPredecessor(p, from) ==
    [status |-> "active", claim |-> proposal[p].draft.claim, proposal |-> p,
     supersedes |-> NoMemory, from |-> from, to |-> Never]

NewMemory(p, from) ==
    [status |-> "active", claim |-> proposal[p].draft.claim, proposal |-> p,
     supersedes |-> proposal[p].draft.target, from |-> from, to |-> Never]

(* The memory itself is a second, separate statement.  The gateway sends   *)
(* no approved replacement here, so there is no target to supersede.       *)
DecideRecord(w) ==
    /\ work[w].pc = "record"
    /\ \E m \in Memories :
          /\ memory[m].status = "absent"
          /\ memory' = [memory EXCEPT ![m] = NewMemory(work[w].id, work[w].from)]
    /\ Return(w)
    /\ UNCHANGED <<now, proposal, contested>>

-----------------------------------------------------------------------------
(* approve_replacement: one BEGIN IMMEDIATE transaction                    *)

(* The copy of a row that _revoke_memory and revoke_memory write back.     *)
IntervalClosed(row, status, at) == [row EXCEPT !.to = at]
Retired(row, status, at) == [row EXCEPT !.status = status, !.to = at]

ReplaceCommit(w) ==
    LET p == work[w].id
        d == proposal[p].draft
        from == ValidFrom(d)
    IN
    /\ work[w].pc = "replace"
    /\ proposal[p].status = "pending"
    /\ now < proposal[p].expires
    /\ TargetIsActive(d)
    /\ NoUnresolvedConflict(d)
    /\ \E m \in Memories :
          /\ memory[m].status = "absent"
          /\ memory' = [memory EXCEPT
                 ![d.target] = Retired(@, "superseded", from),
                 ![m] = NewMemory(p, from)]
    /\ proposal' = [proposal EXCEPT ![p].status = "approved"]
    /\ NoteOverlap(w, p)
    /\ Return(w)
    /\ UNCHANGED now

(* Any failed check raises and rolls the transaction back, the expiry it   *)
(* may have written included.                                              *)
ReplaceRefuse(w) ==
    /\ work[w].pc = "replace"
    /\ Return(w)
    /\ UNCHANGED <<now, proposal, memory, contested>>

-----------------------------------------------------------------------------
(* revoke_memory, the clock and the process                                *)

(* POST /memories/{id}/revoke: any stored memory, whatever its status.     *)
(* It writes back a copy it read a statement earlier, but a row changes in *)
(* nothing that this write does not set.                                   *)
Revoke(m) ==
    /\ memory[m].status # "absent"
    /\ memory' = [memory EXCEPT ![m] = Retired(@, "revoked", now)]
    /\ UNCHANGED <<now, proposal, work, contested>>

Tick ==
    /\ now < MaxTime
    /\ now' = now + 1
    /\ UNCHANGED <<proposal, memory, work, contested>>

(* The process dies and starts again on the same database file.            *)
Crash ==
    /\ \E w \in Workers : work[w].pc # "idle"
    /\ work' = [w \in Workers |-> Idle]
    /\ UNCHANGED <<now, proposal, memory, contested>>

Drafts == {d \in Draft : d.from \in Starts}

Create(w) == \/ \E p \in Proposals, d \in Drafts : CreateStart(w, p, d)
             \/ CreateTarget(w) \/ CreateConflict(w) \/ CreateInsert(w)

Decide(w) == \/ \E p \in Proposals, b \in BOOLEAN : GatewayDecide(w, p, b)
             \/ DecideLoad(w) \/ DecideCheck(w) \/ DecideWrite(w) \/ DecideRecord(w)
             \/ ReplaceCommit(w) \/ ReplaceRefuse(w)

Read(w) == Expire(w) \/ \E p \in Proposals : Peek(w, p)

Next == \/ \E w \in Workers : Create(w) \/ Decide(w) \/ Read(w)
        \/ \E m \in Memories : Revoke(m)
        \/ Tick \/ Crash

Spec == Init /\ [][Next]_vars

-----------------------------------------------------------------------------
(* Properties                                                              *)

TypeOK ==
    /\ now \in Time
    /\ proposal \in [Proposals -> ProposalRow]
    /\ memory \in [Memories -> MemoryRow]
    /\ work \in [Workers -> Handler]
    /\ contested \subseteq Proposals

(* The memories of MemoryLedger: current or not, an active row is live.    *)
LedgerState == [m \in Memories |-> CASE memory[m].status = "absent" -> "absent"
                                     [] memory[m].status = "active" -> "live"
                                     [] OTHER -> "retired"]

LedgerReplaces == [m \in Memories |-> memory[m].supersedes]

Ledger == INSTANCE MemoryLedger WITH state <- LedgerState, replaces <- LedgerReplaces

(* Whatever requests interleave and wherever the process dies, memories    *)
(* live the life MemoryLedger promises.  approve_replacement (555-611) is  *)
(* the step that could break it: its target must still be active in the    *)
(* transaction that retires it.                                            *)
ImplementsLedger == Ledger!LedgerSpec

(* Two replacements approved for the same memory never both commit, and a  *)
(* retired version always has its replacement: versions form a line with   *)
(* no gap, across crashes (SQLiteMemoryStore.approve_replacement).         *)
VersionChain ==
    /\ Ledger!LinearChain
    /\ Ledger!WellFoundedChain
    /\ \A m \in Memories : memory[m].status = "superseded"
                              => \E n \in Memories : memory[n].supersedes = m

(* A stored memory says what its proposal said, replaces what its proposal *)
(* named, and was never stored while the proposal was still open           *)
(* (_apply_decision, and the order of writes in decide_proposal).          *)
MemoryFollowsDecision ==
    \A m \in Memories : memory[m].status # "absent" =>
        LET q == proposal[memory[m].proposal] IN
        /\ memory[m].proposal \in Proposals
        /\ q.status \notin {"absent", "pending"}
        /\ memory[m].claim = q.draft.claim
        /\ memory[m].supersedes = q.draft.target

OneCurrentVersion ==
    \A m, n \in CurrentMemories : SameFact(memory[m].claim, memory[n].claim) => m = n

Added(m) == memory[m].status = "absent" /\ memory'[m].status # "absent"

(* A fact never becomes a second current memory by approving a             *)
(* replacement.  _assert_no_unresolved_conflict inside approve_replacement *)
(* is there for it, and does not do it: it returns at the target (156),    *)
(* before it has seen the other memories of the fact.                      *)
ReplacementKeepsOneVersion ==
    [][(/\ OneCurrentVersion
        /\ \E m \in Memories : /\ Added(m)
                               /\ memory'[m].supersedes # NoMemory
                               /\ memory'[m].from <= now)
            => OneCurrentVersion']_vars

(* No handler is left that could still write the decided proposal p.       *)
Settled(p) ==
    /\ proposal[p].status \notin {"absent", "pending"}
    /\ \A w \in Workers : ~HoldsPending(w, p)

(* Once a proposal is decided and every request that read it pending has   *)
(* ended, its decision is final, whoever asks and whatever they ask        *)
(* (prepare_decision refuses a decided copy).                              *)
DecisionIsFinal ==
    [][\A p \in Proposals :
          Settled(p) => Settled(p)' /\ proposal'[p].status = proposal[p].status]_vars

(* Only an approved proposal has a memory, and one at most.                *)
ApprovedOnce(m) ==
    /\ proposal[memory[m].proposal].status = "approved"
    /\ \A n \in Memories : memory[n].proposal = memory[m].proposal => m = n

Stored == {m \in Memories : memory[m].status # "absent"}

(* What the approval promises of every memory (decide_proposal).           *)
MemoryOnlyFromApproval == \A m \in Stored : ApprovedOnce(m)

(* Overlapping decisions of one proposal are the only way to break that:   *)
(* crashes, expiry, replacements, revocations and later requests are not.  *)
ApprovedUnlessContested ==
    \A m \in Stored : memory[m].proposal \notin contested => ApprovedOnce(m)
=============================================================================
