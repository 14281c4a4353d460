------------------------ MODULE MemoryApprovalProofs ------------------------
(***************************************************************************)
(* MemoryApproval for any number of handlers, proposals and memories: its  *)
(* types, what ties a memory to its proposal, that it implements           *)
(* MemoryLedger, from which the version chain follows, and what requests   *)
(* that decide one proposal together can do to it.                         *)
(***************************************************************************)
EXTENDS MemoryApproval, TLAPS

Creating(h) == h.pc \in {"target", "conflict", "insert"}
Target(h) == proposal[h.id].draft.target

(* What a handler between two statements may rely on, of itself and of the *)
(* row q of its proposal.                                                  *)
Fits(h, q) ==
    /\ Creating(h) => q.status = "absent"
    /\ h.pc # "idle" /\ ~Creating(h) => q.status # "absent"
    /\ h.pc = "replace" \/ h.after = "replace" => q.draft.target # NoMemory
    /\ (h.pc \in {"load", "check", "write", "record"} \/ h.after \in {"load", "check"})
          /\ h.approved => q.draft.target = NoMemory
    /\ h.pc = "record" => h.approved /\ q.status \notin {"absent", "pending"}

HandlerOK(h) ==
    /\ h.pc = "idle" => h.id = NoProposal
    /\ h.pc # "idle" => h.id \in Proposals
    /\ h.pc # "expire" => h.after = "idle"
    /\ h.after \in {"idle", "load", "check", "replace"}
    /\ Fits(h, proposal[h.id])

HandlersOK == \A w \in Workers : HandlerOK(work[w])

(* Two requests never build a proposal under one id.                       *)
OneCreator ==
    \A v, w \in Workers : Creating(work[w]) /\ work[v].id = work[w].id => v = w

AbsentIsBlank ==
    \A m \in Memories : memory[m].status = "absent" => memory[m].supersedes = NoMemory

Inv == TypeOK /\ HandlersOK /\ OneCreator /\ AbsentIsBlank /\ MemoryFollowsDecision

USE DEF Time, Never, ProposalStatus, MemoryStatus, Step, Draft, ProposalRow, MemoryRow, Handler

(* A draft exists, so that Init and Idle are well typed.                   *)
LEMMA AnyDraftType == AnyDraft \in Draft
BY MemoryAssumption DEF AnyDraft

(* A handler that does nothing relies on nothing.                          *)
LEMMA IdleType == Idle \in Handler /\ HandlerOK(Idle)
BY MemoryAssumption, AnyDraftType DEF Idle, HandlerOK, Fits, Creating

(* Init.                                                                   *)
LEMMA InitInv == Init => Inv
BY MemoryAssumption, AnyDraftType, IdleType
DEF Init, Inv, TypeOK, HandlersOK, OneCreator, AbsentIsBlank, MemoryFollowsDecision, AnyDraft,
    Idle, HandlerOK, Fits, Creating

(* A step of handler w that leaves the tables alone keeps the invariant    *)
(* when the handler's own new state is well formed.                        *)
LEMMA LocalStep ==
    ASSUME Inv, NEW w \in Workers, NEW h \in Handler,
           HandlerOK(h),
           h.pc = "idle" \/ h.id = work[w].id \/ \A v \in Workers : work[v].id # h.id,
           Creating(h) => Creating(work[w]) \/ \A v \in Workers : work[v].id # h.id,
           work' = [work EXCEPT ![w] = h],
           UNCHANGED <<proposal, memory, contested>>, now' \in Time
    PROVE  Inv'
<1>1. TypeOK'
  BY DEF Inv, TypeOK
<1>2. HandlersOK'
  BY DEF Inv, TypeOK, HandlersOK, HandlerOK, Fits, Target, Creating
<1>3. OneCreator'
  <2> SUFFICES ASSUME NEW u \in Workers, NEW v \in Workers,
                      Creating(work'[v]), work'[u].id = work'[v].id
               PROVE  u = v
    BY DEF OneCreator, Creating
  <2>1. /\ \A x \in Workers : x # w => work'[x] = work[x]
        /\ work'[w] = h
        /\ HandlersOK /\ OneCreator
    BY DEF Inv, TypeOK
  <2>2. CASE u # w /\ v # w
    BY <2>1, <2>2 DEF OneCreator
  <2>3. CASE u = w /\ v # w
    <3>1. work[v].id \in Proposals /\ Creating(work[v]) /\ h.id = work[v].id
      BY <2>1, <2>3 DEF HandlersOK, HandlerOK, Fits, Creating
    <3>2. h.pc # "idle"
      BY <3>1, MemoryAssumption DEF HandlerOK, Fits
    <3> QED
      BY <2>1, <2>3, <3>1, <3>2 DEF OneCreator
  <2>4. CASE u # w /\ v = w
    <3>1. Creating(h) /\ h.pc # "idle" /\ h.id = work[u].id
      BY <2>1, <2>4 DEF Creating
    <3> QED
      BY <2>1, <2>4, <3>1 DEF OneCreator
  <2> QED
    BY <2>2, <2>3, <2>4
<1> QED
  BY <1>1, <1>2, <1>3 DEF Inv, AbsentIsBlank, MemoryFollowsDecision

(* A refusal, or an answer, drops the handler's state.                     *)
LEMMA ReturnStep ==
    ASSUME Inv, NEW w \in Workers, Return(w),
           UNCHANGED <<proposal, memory, contested>>, now' \in Time
    PROVE  Inv'
<1>1. Idle.pc = "idle" /\ ~Creating(Idle) /\ work' = [work EXCEPT ![w] = Idle]
  BY DEF Return, Idle, Creating
<1> QED
  BY <1>1, IdleType, LocalStep

(* SELECT and lazy expiry: the copy is typed, and the handler goes on to   *)
(* next, at once or after writing the expired row.                         *)
LEMMA FetchStep ==
    ASSUME Inv, NEW w \in Workers, NEW h \in Handler,
           NEW next \in {"idle", "load", "check", "replace"},
           work[w].pc = "idle" \/ h.id = work[w].id,
           ~Creating(work[w]), h.after = "idle",
           h.id \in Proposals, proposal[h.id].status # "absent",
           next = "replace" => Target(h) # NoMemory,
           next \in {"load", "check"} /\ h.approved => Target(h) = NoMemory,
           Fetch(w, h, next), UNCHANGED <<now, proposal, memory, contested>>
    PROVE  Inv'
<1>1. now' \in Time /\ proposal[h.id].status \in ProposalStatus
  BY DEF Inv, TypeOK
<1>2. \A v \in Workers : Creating(work[v]) => work[v].id # h.id
  BY DEF Inv, HandlersOK, HandlerOK, Fits
<1>3. ASSUME NEW g \in Handler, work' = [work EXCEPT ![w] = g], HandlerOK(g), ~Creating(g),
             g.pc = "idle" \/ g.id = h.id
      PROVE  Inv'
  <2>1. TypeOK' /\ HandlersOK'
    BY <1>3 DEF Inv, TypeOK, HandlersOK, HandlerOK, Fits, Target, Creating
  <2>2. OneCreator'
    <3> SUFFICES ASSUME NEW u \in Workers, NEW v \in Workers,
                        Creating(work'[v]), work'[u].id = work'[v].id
                 PROVE  u = v
      BY DEF OneCreator, Creating
    <3>1. /\ \A x \in Workers : x # w => work'[x] = work[x]
          /\ work'[w] = g /\ HandlersOK /\ OneCreator
      BY <1>3 DEF Inv, TypeOK
    <3>2. v # w /\ Creating(work[v]) /\ work[v].id \in Proposals
      BY <1>3, <3>1 DEF Creating, HandlersOK, HandlerOK, Fits
    <3>3. CASE u = w
      BY <1>2, <1>3, <3>1, <3>2, <3>3, MemoryAssumption DEF HandlerOK, Fits
    <3> QED
      BY <3>1, <3>2, <3>3 DEF OneCreator
  <2> QED
    BY <2>1, <2>2 DEF Inv, AbsentIsBlank, MemoryFollowsDecision
<1>4. CASE Expired(h.id)
  <2> DEFINE g == [h EXCEPT !.seen = "expired", !.after = next, !.pc = "expire"]
  <2>1. work' = [work EXCEPT ![w] = g] /\ g \in Handler
    BY <1>4 DEF Fetch, Goto
  <2>2. HandlerOK(g) /\ ~Creating(g) /\ g.id = h.id
    BY DEF HandlerOK, Fits, Creating, Target
  <2> QED
    BY <1>3, <2>1, <2>2
<1>5. CASE ~Expired(h.id) /\ next = "idle"
  <2>1. work' = [work EXCEPT ![w] = Idle] /\ Idle.pc = "idle" /\ ~Creating(Idle)
    BY <1>5 DEF Fetch, Goto, Idle, Creating
  <2> QED
    BY <1>3, <2>1, IdleType
<1>6. CASE ~Expired(h.id) /\ next # "idle"
  <2> DEFINE g == [h EXCEPT !.seen = proposal[h.id].status, !.pc = next]
  <2>1. work' = [work EXCEPT ![w] = g] /\ g \in Handler
    BY <1>1, <1>6 DEF Fetch, Goto
  <2>2. HandlerOK(g) /\ ~Creating(g) /\ g.id = h.id
    BY <1>6 DEF HandlerOK, Fits, Creating, Target
  <2> QED
    BY <1>3, <2>1, <2>2
<1> QED
  BY <1>4, <1>5, <1>6

-----------------------------------------------------------------------------
(* One lemma per group of actions                                          *)

(* The reads of create_proposal: the target and the conflict check.        *)
LEMMA CreateReads ==
    ASSUME Inv, NEW w \in Workers,
           \/ \E p \in Proposals, d \in Drafts : CreateStart(w, p, d)
           \/ CreateTarget(w) \/ CreateConflict(w)
    PROVE  Inv'
<1>1. ASSUME NEW p \in Proposals, NEW d \in Drafts, CreateStart(w, p, d)
      PROVE  Inv'
  <2> DEFINE g == [[Idle EXCEPT !.id = p, !.draft = d, !.expires = now + TTL] EXCEPT !.pc = "target"]
  <2>1. /\ work' = [work EXCEPT ![w] = g] /\ \A v \in Workers : work[v].id # p
        /\ proposal[p].status = "absent" /\ UNCHANGED <<now, proposal, memory, contested>>
    BY <1>1 DEF CreateStart, Goto
  <2>a. d \in Draft /\ now + TTL \in Nat
    BY MemoryAssumption DEF Inv, TypeOK, Drafts
  <2>2. g \in Handler /\ g.id = p
    BY <2>a, IdleType, MemoryAssumption DEF Idle
  <2>3. HandlerOK(g)
    BY <2>1, <2>2 DEF HandlerOK, Fits, Creating, Target, Idle
  <2> QED
    <3>1. now' \in Time /\ (\A v \in Workers : work[v].id # g.id)
      BY <2>1, <2>2 DEF Inv, TypeOK
    <3> HIDE DEF g
    <3> QED
      BY <2>1, <2>2, <2>3, <3>1, LocalStep
<1>2. ASSUME Creating(work[w]), NEW pc \in {"conflict", "insert"}, Goto(w, work[w], pc),
             UNCHANGED <<now, proposal, memory, contested>>
      PROVE  Inv'
  <2> DEFINE g == [work[w] EXCEPT !.pc = pc]
  <2>a. work[w] \in Handler /\ pc \in Step
    BY DEF Inv, TypeOK
  <2>1. work' = [work EXCEPT ![w] = g] /\ g \in Handler /\ g.id = work[w].id
    BY <1>2, <2>a DEF Goto
  <2>2. HandlerOK(g)
    BY <1>2 DEF Inv, TypeOK, HandlersOK, HandlerOK, Fits, Creating, Target
  <2> QED
    <3>1. now' \in Time
      BY <1>2 DEF Inv, TypeOK
    <3> HIDE DEF g
    <3> QED
      BY <1>2, <2>1, <2>2, <3>1, LocalStep
<1>3. CASE CreateTarget(w)
  BY <1>2, <1>3, ReturnStep DEF CreateTarget, Creating, Inv, TypeOK
<1>4. CASE CreateConflict(w)
  BY <1>2, <1>4, ReturnStep DEF CreateConflict, Creating, Inv, TypeOK
<1> QED
  BY <1>1, <1>3, <1>4

(* A handler writes its proposal's row and moves on: no other handler      *)
(* relies on what the write changes.                                       *)
LEMMA RowWrite ==
    ASSUME Inv, NEW w \in Workers, NEW g \in Handler, NEW row \in ProposalRow,
           work[w].pc # "idle",
           proposal' = [proposal EXCEPT ![work[w].id] = row],
           work' = [work EXCEPT ![w] = g],
           ~Creating(g),
           \/ g = Idle
           \/ g.pc # "idle" /\ g.id = work[w].id /\ g.after = "idle" /\ Fits(g, row),
           \/ row.draft = proposal[work[w].id].draft /\ row.status \notin {"absent", "pending"}
              /\ ~Creating(work[w])
           \/ row.status = "pending" /\ Creating(work[w])
    PROVE  HandlersOK' /\ OneCreator'
<1> DEFINE p == work[w].id
<1>1. /\ p \in Proposals /\ proposal' = [proposal EXCEPT ![p] = row]
      /\ \A x \in Workers : x # w => work'[x] = work[x]
      /\ work'[w] = g /\ HandlersOK /\ OneCreator /\ TypeOK
  BY DEF Inv, TypeOK, HandlersOK, HandlerOK, Fits
<1>b. \/ g = Idle
      \/ g.pc # "idle" /\ g.id = p /\ g.after = "idle" /\ Fits(g, proposal'[p])
  BY <1>1 DEF TypeOK
<1>c. HandlerOK(work[w])'
  BY <1>1, <1>b DEF HandlerOK, Fits, Creating, Idle
<1>3. HandlersOK'
  <2> SUFFICES ASSUME NEW v \in Workers, v # w PROVE HandlerOK(work[v])'
    BY <1>c DEF HandlersOK
  <2>1. CASE work[v].id # p
    <3>1. work[v].pc # "idle" => proposal'[work[v].id] = proposal[work[v].id]
      BY <1>1, <2>1 DEF TypeOK, HandlersOK, HandlerOK, Fits
    <3>2. HandlerOK(work[v])
      BY <1>1 DEF HandlersOK
    <3> QED
      BY <1>1, <3>1, <3>2 DEF HandlerOK, Fits, Target, Creating
  <2>2. CASE work[v].id = p
    <3>1. ~Creating(work[v]) /\ ~Creating(work[w])
      BY <1>1, <2>2 DEF OneCreator, HandlersOK, HandlerOK, Fits, Creating
    <3>2. proposal'[p].draft = proposal[p].draft /\ proposal'[p].status \notin {"absent", "pending"}
      BY <1>1, <3>1 DEF TypeOK
    <3>3. HandlerOK(work[v])
      BY <1>1 DEF HandlersOK
    <3> QED
      BY <1>1, <2>2, <3>1, <3>2, <3>3 DEF HandlerOK, Fits, Target, Creating
  <2> QED
    BY <2>1, <2>2
<1>4. OneCreator'
  <2> SUFFICES ASSUME NEW u \in Workers, NEW v \in Workers,
                      Creating(work'[v]), work'[u].id = work'[v].id
               PROVE  u = v
    BY DEF OneCreator, Creating
  <2>1. v # w /\ Creating(work[v]) /\ work[v].id \in Proposals
    BY <1>1 DEF Creating, HandlersOK, HandlerOK, Fits
  <2>2. CASE u = w
    <3>1. g.pc # "idle" /\ g.id = p
      BY <1>1, <2>1, <2>2, MemoryAssumption DEF Idle
    <3> QED
      BY <1>1, <2>1, <2>2, <3>1 DEF OneCreator
  <2> QED
    BY <1>1, <2>1, <2>2 DEF OneCreator
<1> QED
  BY <1>3, <1>4

(* The same when project_memories stays as it is.                          *)
LEMMA ProposalWrite ==
    ASSUME Inv, NEW w \in Workers, NEW g \in Handler, NEW row \in ProposalRow,
           work[w].pc # "idle",
           proposal' = [proposal EXCEPT ![work[w].id] = row],
           work' = [work EXCEPT ![w] = g],
           ~Creating(g), UNCHANGED <<now, memory>>, contested' \subseteq Proposals,
           \/ g = Idle
           \/ g.pc # "idle" /\ g.id = work[w].id /\ g.after = "idle" /\ Fits(g, row),
           \/ row.draft = proposal[work[w].id].draft /\ row.status \notin {"absent", "pending"}
              /\ ~Creating(work[w])
           \/ row.status = "pending" /\ Creating(work[w])
    PROVE  Inv'
<1> DEFINE p == work[w].id
<1>1. HandlersOK' /\ OneCreator'
  BY RowWrite
<1>2. /\ p \in Proposals /\ TypeOK /\ MemoryFollowsDecision
      /\ Creating(work[w]) => proposal[p].status = "absent"
  BY DEF Inv, TypeOK, HandlersOK, HandlerOK, Fits
<1>3. TypeOK'
  BY <1>2 DEF TypeOK
<1>4. MemoryFollowsDecision'
  BY <1>2 DEF TypeOK, MemoryFollowsDecision
<1> QED
  BY <1>1, <1>3, <1>4 DEF Inv, AbsentIsBlank

(* create_proposal's INSERT, the lazy expiry, and the decided row.         *)
LEMMA ProposalWrites ==
    ASSUME Inv, NEW w \in Workers, CreateInsert(w) \/ Expire(w) \/ DecideWrite(w)
    PROVE  Inv'
<1> DEFINE h == work[w]
           p == h.id
<1>a. p \in Proposals => (NoteOverlap(w, p) => contested' \subseteq Proposals)
  BY DEF Inv, TypeOK, NoteOverlap
<1>1. /\ h \in Handler /\ HandlerOK(h) /\ Idle \in Handler /\ Idle.pc = "idle" /\ ~Creating(Idle)
  BY IdleType, MemoryAssumption DEF Inv, TypeOK, HandlersOK, HandlerOK, Fits, Idle, Creating
<1>2. CASE CreateInsert(w)
  <2> DEFINE row == [status |-> "pending", draft |-> h.draft, expires |-> h.expires]
  <2>1. /\ row \in ProposalRow /\ row.status = "pending" /\ Creating(h)
        /\ proposal' = [proposal EXCEPT ![p] = row] /\ work' = [work EXCEPT ![w] = Idle]
        /\ h.pc # "idle" /\ UNCHANGED <<now, memory>> /\ contested' \subseteq Proposals
    BY <1>1, <1>2 DEF CreateInsert, Return, Creating, Inv, TypeOK
  <2> HIDE DEF row
  <2> QED
    BY <1>1, <2>1, ProposalWrite
<1>3. CASE Expire(w)
  <2> DEFINE row == [proposal[p] EXCEPT !.status = "expired"]
             g == [[h EXCEPT !.after = "idle"] EXCEPT !.pc = h.after]
  <2>1. h.pc = "expire" /\ p \in Proposals /\ ~Creating(h) /\ proposal[p].status # "absent"
    BY <1>1, <1>3 DEF Expire, HandlerOK, Fits, Creating
  <2>2. /\ row \in ProposalRow /\ row.status = "expired" /\ row.draft = proposal[p].draft
        /\ proposal' = [proposal EXCEPT ![p] = row] /\ UNCHANGED <<now, memory>>
        /\ contested' \subseteq Proposals
    BY <1>3, <1>a, <2>1 DEF Expire, Inv, TypeOK
  <2>3. proposal'[p] = row
    BY <2>1, <2>2 DEF Inv, TypeOK
  <2>4. CASE h.after = "idle"
    <3>1. work' = [work EXCEPT ![w] = Idle]
      BY <1>3, <2>4 DEF Expire, Return
    <3> HIDE DEF row
    <3> QED
      BY <1>1, <2>1, <2>2, <3>1, ProposalWrite
  <2>5. CASE h.after # "idle"
    <3>1. work' = [work EXCEPT ![w] = g] /\ g \in Handler /\ g.id = p /\ ~Creating(g)
      BY <1>1, <1>3, <2>5 DEF Expire, Goto, HandlerOK, Fits, Creating
    <3>2. g.pc # "idle" /\ g.after = "idle" /\ Fits(g, row)
      BY <1>1, <2>1, <2>2, <2>5 DEF HandlerOK, Fits, Creating
    <3> HIDE DEF row, g
    <3> QED
      BY <1>1, <2>1, <2>2, <3>1, <3>2, ProposalWrite
  <2> QED
    BY <2>4, <2>5
<1>4. CASE DecideWrite(w)
  <2> DEFINE row == [proposal[p] EXCEPT !.status = IF h.approved THEN "approved" ELSE "rejected"]
             g == [h EXCEPT !.pc = "record"]
  <2>1. h.pc = "write" /\ p \in Proposals /\ ~Creating(h) /\ proposal[p].status # "absent"
    BY <1>1, <1>4 DEF DecideWrite, HandlerOK, Fits, Creating
  <2>2. /\ row \in ProposalRow /\ row.status \notin {"absent", "pending"}
        /\ row.draft = proposal[p].draft
        /\ proposal' = [proposal EXCEPT ![p] = row] /\ UNCHANGED <<now, memory>>
        /\ contested' \subseteq Proposals
    BY <1>4, <1>a, <2>1 DEF DecideWrite, Inv, TypeOK
  <2>3. proposal'[p] = row
    BY <2>1, <2>2 DEF Inv, TypeOK
  <2>4. CASE ~h.approved
    <3>1. work' = [work EXCEPT ![w] = Idle]
      BY <1>4, <2>4 DEF DecideWrite, Return
    <3> HIDE DEF row
    <3> QED
      BY <1>1, <2>1, <2>2, <3>1, ProposalWrite
  <2>5. CASE h.approved
    <3>1. work' = [work EXCEPT ![w] = g] /\ g \in Handler /\ g.id = p /\ ~Creating(g)
      BY <1>1, <1>4, <2>5 DEF DecideWrite, Goto, Creating
    <3>2. g.pc # "idle" /\ g.after = "idle" /\ Fits(g, row)
      BY <1>1, <2>1, <2>2, <2>5 DEF HandlerOK, Fits, Creating
    <3> HIDE DEF row, g
    <3> QED
      BY <1>1, <2>1, <2>2, <3>1, <3>2, ProposalWrite
  <2> QED
    BY <2>4, <2>5
<1> QED
  BY <1>2, <1>3, <1>4

(* Reading a proposal, routing and checking a decision, and refusing it.   *)
LEMMA DecisionReads ==
    ASSUME Inv, NEW w \in Workers,
           \/ \E p \in Proposals : Peek(w, p)
           \/ \E p \in Proposals, b \in BOOLEAN : GatewayDecide(w, p, b)
           \/ DecideLoad(w) \/ DecideCheck(w) \/ ReplaceRefuse(w)
    PROVE  Inv'
<1> DEFINE h == work[w]
<1>1. h \in Handler /\ HandlerOK(h) /\ now \in Time /\ proposal \in [Proposals -> ProposalRow]
  BY DEF Inv, TypeOK, HandlersOK
<1>2. ASSUME NEW p \in Proposals, NEW b \in BOOLEAN,
             h.pc = "idle", proposal[p].status # "absent",
             NEW next \in {"idle", "load", "replace"},
             next = "replace" => proposal[p].draft.target # NoMemory,
             next = "load" /\ b => proposal[p].draft.target = NoMemory,
             Fetch(w, [Idle EXCEPT !.id = p, !.approved = b], next),
             UNCHANGED <<now, proposal, memory, contested>>
      PROVE  Inv'
  <2> DEFINE g == [Idle EXCEPT !.id = p, !.approved = b]
  <2>1. /\ g \in Handler /\ g.after = "idle" /\ g.id = p /\ g.approved = b
        /\ ~Creating(h)
    BY <1>2, IdleType DEF Idle, Creating
  <2>2. /\ next = "replace" => Target(g) # NoMemory
        /\ next \in {"load", "check"} /\ g.approved => Target(g) = NoMemory
    BY <1>2, <2>1 DEF Target
  <2>3. work[w].pc = "idle" /\ ~Creating(work[w]) /\ Fetch(w, g, next)
    BY <1>2, <2>1
  <2> HIDE DEF g
  <2> QED
    BY <1>2, <2>1, <2>2, <2>3, FetchStep
<1>3. CASE \E p \in Proposals : Peek(w, p)
  <2> PICK p \in Proposals : Peek(w, p)
    BY <1>3
  <2>1. [Idle EXCEPT !.id = p] \in Handler /\ [Idle EXCEPT !.id = p].after = "idle"
        /\ [Idle EXCEPT !.id = p].id = p /\ ~Creating(h)
    BY IdleType DEF Idle, Creating, Peek
  <2> QED
    BY <2>1, FetchStep DEF Peek
<1>4. CASE \E p \in Proposals, b \in BOOLEAN : GatewayDecide(w, p, b)
  <2> PICK p \in Proposals, b \in BOOLEAN : GatewayDecide(w, p, b)
    BY <1>4
  <2> DEFINE next == IF b /\ proposal[p].draft.target # NoMemory THEN "replace" ELSE "load"
  <2>1. /\ next \in {"idle", "load", "replace"}
        /\ next = "replace" => proposal[p].draft.target # NoMemory
        /\ next = "load" /\ b => proposal[p].draft.target = NoMemory
    OBVIOUS
  <2>2. h.pc = "idle" /\ proposal[p].status # "absent" /\ UNCHANGED <<now, proposal, memory, contested>>
        /\ Fetch(w, [Idle EXCEPT !.id = p, !.approved = b], next)
    BY DEF GatewayDecide
  <2> HIDE DEF next
  <2> QED
    BY <1>2, <2>1, <2>2
<1>5. CASE DecideLoad(w)
  <2>1. /\ h.pc = "load" /\ ~Creating(h) /\ h.after = "idle" /\ h.id \in Proposals
        /\ proposal[h.id].status # "absent" /\ (h.approved => Target(h) = NoMemory)
        /\ Fetch(w, h, "check") /\ UNCHANGED <<now, proposal, memory, contested>>
    BY <1>1, <1>5 DEF DecideLoad, HandlerOK, Fits, Creating, Target
  <2>2. work[w] \in Handler /\ "check" \in {"idle", "load", "check", "replace"}
    BY <1>1
  <2> HIDE DEF h
  <2> QED
    BY <1>1, <2>1, <2>2, FetchStep DEF h
<1>6. ASSUME NEW g \in Handler, work' = [work EXCEPT ![w] = g], g.id = h.id,
             HandlerOK(g), ~Creating(g), UNCHANGED <<now, proposal, memory, contested>>
      PROVE  Inv'
  BY <1>1, <1>6, LocalStep
<1>7. CASE DecideCheck(w)
  <2> DEFINE d == proposal[h.id].draft
             e == [[h EXCEPT !.seen = "expired"] EXCEPT !.pc = "expire"]
             g == [[h EXCEPT !.from = ValidFrom(d)] EXCEPT !.pc = "write"]
  <2>1. /\ h.pc = "check" /\ h.id \in Proposals /\ UNCHANGED <<now, proposal, memory, contested>>
        /\ \/ Return(w)
           \/ MayDecide(h) /\ work' = [work EXCEPT ![w] = e]
           \/ MayDecide(h) /\ work' = [work EXCEPT ![w] = g]
    BY <1>1, <1>7 DEF DecideCheck, Goto, HandlerOK, Fits
  <2>2. ValidFrom(d) \in Time
    BY <1>1, <2>1, MemoryAssumption DEF ValidFrom
  <2>3. e \in Handler /\ e.id = h.id /\ HandlerOK(e) /\ ~Creating(e)
    BY <1>1, <2>1 DEF HandlerOK, Fits, Creating, Target
  <2>4. g \in Handler /\ g.id = h.id /\ HandlerOK(g) /\ ~Creating(g)
    BY <1>1, <2>1, <2>2 DEF HandlerOK, Fits, Creating, Target
  <2> HIDE DEF e, g
  <2> QED
    BY <1>1, <1>6, <2>1, <2>3, <2>4, ReturnStep
<1>8. CASE ReplaceRefuse(w)
  BY <1>1, <1>8, ReturnStep DEF ReplaceRefuse
<1> QED
  BY <1>3, <1>4, <1>5, <1>7, <1>8

(* The memory row an approval stores.                                      *)
LEMMA NewMemoryType ==
    ASSUME TypeOK, NEW p \in Proposals, NEW from \in Time
    PROVE  /\ NewMemory(p, from) \in MemoryRow
           /\ NewMemory(p, from).status = "active" /\ NewMemory(p, from).proposal = p
           /\ NewMemory(p, from).claim = proposal[p].draft.claim
           /\ NewMemory(p, from).supersedes = proposal[p].draft.target
BY MemoryAssumption DEF TypeOK, NewMemory

(* Retiring a row changes its status and the end of its interval.          *)
LEMMA RetiredType ==
    ASSUME NEW row \in MemoryRow, NEW at \in Time
    PROVE  \A status \in {"superseded", "revoked"} :
              LET new == Retired(row, status, at) IN
              /\ new \in MemoryRow /\ new.status = status
              /\ new.proposal = row.proposal /\ new.claim = row.claim
              /\ new.supersedes = row.supersedes
BY DEF Retired

(* The memory that decide_proposal stores in its second statement.         *)
LEMMA RecordStep ==
    ASSUME Inv, NEW w \in Workers, DecideRecord(w)
    PROVE  Inv'
<1> DEFINE h == work[w]
<1>a. /\ h.pc = "record" /\ UNCHANGED <<now, proposal, contested>>
      /\ work' = [work EXCEPT ![w] = Idle]
  BY DEF DecideRecord, Return
<1>b. /\ h \in Handler /\ HandlerOK(h)
      /\ TypeOK /\ AbsentIsBlank /\ MemoryFollowsDecision
  BY DEF Inv, TypeOK, HandlersOK
<1>1. h.id \in Proposals /\ proposal[h.id].status \notin {"absent", "pending"}
  BY <1>a, <1>b DEF HandlerOK, Fits
<1>2. PICK m \in Memories : memory' = [memory EXCEPT ![m] = NewMemory(h.id, h.from)]
  BY DEF DecideRecord
<1>3. /\ memory'[m] \in MemoryRow /\ memory'[m].status = "active" /\ memory'[m].proposal = h.id
      /\ memory'[m].claim = proposal[h.id].draft.claim
      /\ memory'[m].supersedes = proposal[h.id].draft.target
      /\ \A n \in Memories : n # m => memory'[n] = memory[n]
      /\ memory' \in [Memories -> MemoryRow]
  <2> DEFINE row == NewMemory(h.id, h.from)
  <2>1. h.from \in Time
    BY <1>b
  <2>2. /\ row \in MemoryRow /\ row.status = "active" /\ row.proposal = h.id
        /\ row.claim = proposal[h.id].draft.claim
        /\ row.supersedes = proposal[h.id].draft.target
    BY <1>b, <1>1, <2>1, NewMemoryType
  <2>3. memory \in [Memories -> MemoryRow] /\ memory' = [memory EXCEPT ![m] = row]
    BY <1>b, <1>2 DEF TypeOK
  <2> HIDE DEF row
  <2> QED
    BY <2>2, <2>3
<1>4. TypeOK'
  BY <1>a, <1>b, <1>1, <1>3, IdleType DEF TypeOK
<1>5. HandlersOK' /\ OneCreator'
  <2>1. HandlersOK'
    BY <1>a, <1>b, <1>1, IdleType DEF Inv, TypeOK, HandlersOK, HandlerOK, Fits, Creating
  <2>2. \A v \in Workers : Creating(work'[v]) => v # w /\ work[v].id \in Proposals
    BY <1>a, <1>b, <1>1 DEF Inv, TypeOK, HandlersOK, HandlerOK, Creating, Idle
  <2>3. OneCreator'
    BY <1>a, <1>b, <1>1, <2>2, MemoryAssumption DEF Inv, TypeOK, OneCreator, Creating, Idle
  <2> QED
    BY <2>1, <2>3
<1>6. AbsentIsBlank'
  BY <1>a, <1>b, <1>1, <1>3 DEF AbsentIsBlank
<1>7. MemoryFollowsDecision'
  BY <1>a, <1>b, <1>1, <1>3 DEF MemoryFollowsDecision
<1> QED
  BY <1>4, <1>5, <1>6, <1>7 DEF Inv

(* What approve_replacement finds and leaves: a live target, a fresh       *)
(* memory that replaces it, and a proposal that is decided.                *)
LEMMA CommitFacts ==
    ASSUME Inv, NEW w \in Workers, ReplaceCommit(w)
    PROVE  LET p == work[w].id
               old == proposal[p].draft.target
               from == ValidFrom(proposal[p].draft)
               row == [proposal[p] EXCEPT !.status = "approved"]
           IN  /\ p \in Proposals /\ from \in Time /\ work[w].pc = "replace"
               /\ old \in Memories /\ memory[old].status = "active"
               /\ row \in ProposalRow /\ row.status = "approved" /\ row.draft = proposal[p].draft
               /\ proposal' = [proposal EXCEPT ![p] = row] /\ UNCHANGED now
               /\ work' = [work EXCEPT ![w] = Idle] /\ NoteOverlap(w, p)
               /\ contested' \subseteq Proposals
               /\ \E m \in Memories :
                      /\ memory[m].status = "absent"
                      /\ memory' = [memory EXCEPT ![old] = Retired(memory[old], "superseded", from),
                                                  ![m] = NewMemory(p, from)]
<1> DEFINE p == work[w].id
           d == proposal[p].draft
<1>1. /\ work[w].pc = "replace" /\ UNCHANGED now /\ work' = [work EXCEPT ![w] = Idle]
      /\ TargetIsActive(d) /\ NoteOverlap(w, p)
  BY DEF ReplaceCommit, Return
<1>2. HandlerOK(work[w]) /\ TypeOK
  BY DEF Inv, HandlersOK
<1>3. p \in Proposals /\ d.target # NoMemory
  BY <1>1, <1>2 DEF HandlerOK, Fits
<1>4. d \in Draft /\ proposal[p] \in ProposalRow /\ now \in Time
  BY <1>2, <1>3 DEF TypeOK
<1>5. ValidFrom(d) \in Time
  BY <1>4, MemoryAssumption DEF ValidFrom, ReplaceCommit
<1>6. d.target \in Memories /\ memory[d.target].status = "active"
  BY <1>1, <1>3 DEF TargetIsActive, CurrentMemories, CurrentAt
<1>7. proposal' = [proposal EXCEPT ![p] = [proposal[p] EXCEPT !.status = "approved"]]
  BY <1>2, <1>3 DEF ReplaceCommit, TypeOK
<1>8. \E m \in Memories :
         /\ memory[m].status = "absent"
         /\ memory' = [memory EXCEPT ![d.target] = Retired(memory[d.target], "superseded", ValidFrom(d)),
                                     ![m] = NewMemory(p, ValidFrom(d))]
  BY <1>2, <1>6 DEF ReplaceCommit, TypeOK
<1>9. contested' \subseteq Proposals
  BY <1>1, <1>2, <1>3 DEF TypeOK, NoteOverlap
<1> QED
  BY <1>1, <1>3, <1>4, <1>5, <1>6, <1>7, <1>8, <1>9

(* The transaction of approve_replacement.                                 *)
LEMMA ReplaceStep ==
    ASSUME Inv, NEW w \in Workers, ReplaceCommit(w)
    PROVE  Inv'
<1> DEFINE p == work[w].id
           old == proposal[p].draft.target
           from == ValidFrom(proposal[p].draft)
           row == [proposal[p] EXCEPT !.status = "approved"]
           fresh == NewMemory(p, from)
           retired == Retired(memory[old], "superseded", from)
<1>1. /\ p \in Proposals /\ from \in Time /\ work[w].pc = "replace"
      /\ old \in Memories /\ memory[old].status = "active"
      /\ row \in ProposalRow /\ row.status = "approved" /\ row.draft = proposal[p].draft
      /\ proposal' = [proposal EXCEPT ![p] = row] /\ UNCHANGED now
      /\ work' = [work EXCEPT ![w] = Idle] /\ contested' \subseteq Proposals
  BY CommitFacts
<1>2. PICK m \in Memories :
         /\ memory[m].status = "absent"
         /\ memory' = [memory EXCEPT ![old] = retired, ![m] = fresh]
  BY CommitFacts
<1>3. TypeOK /\ AbsentIsBlank /\ MemoryFollowsDecision
  BY DEF Inv
<1>4. /\ fresh \in MemoryRow /\ fresh.status = "active" /\ fresh.proposal = p
      /\ fresh.claim = proposal[p].draft.claim /\ fresh.supersedes = old
  BY <1>1, <1>3, NewMemoryType
<1>5. /\ retired \in MemoryRow /\ retired.status = "superseded"
      /\ retired.proposal = memory[old].proposal /\ retired.claim = memory[old].claim
      /\ retired.supersedes = memory[old].supersedes
  <2>1. memory[old] \in MemoryRow
    BY <1>1, <1>3 DEF TypeOK
  <2> QED
    BY <1>1, <2>1, RetiredType
<1>6. HandlersOK' /\ OneCreator'
  <2>1. Idle \in Handler /\ ~Creating(Idle) /\ ~Creating(work[w]) /\ work[w].pc # "idle"
    BY <1>1, IdleType DEF Idle, Creating
  <2> HIDE DEF row
  <2> QED
    BY <1>1, <2>1, RowWrite
<1> HIDE DEF row, fresh, retired, p, old, from
<1>7. /\ memory' \in [Memories -> MemoryRow] /\ m # old
      /\ memory'[m] = fresh /\ memory'[old] = retired
      /\ \A n \in Memories : n # m /\ n # old => memory'[n] = memory[n]
  BY <1>1, <1>2, <1>3, <1>4, <1>5 DEF TypeOK
<1>8. /\ proposal' \in [Proposals -> ProposalRow]
      /\ proposal'[p].status = "approved"
      /\ \A q \in Proposals : /\ q # p => proposal'[q] = proposal[q]
                              /\ proposal'[q].draft = proposal[q].draft
  BY <1>1, <1>3 DEF TypeOK
<1>9. TypeOK'
  BY <1>1, <1>3, <1>7, <1>8, IdleType DEF TypeOK
<1>10. AbsentIsBlank'
  BY <1>3, <1>4, <1>5, <1>7 DEF AbsentIsBlank
<1>11. MemoryFollowsDecision'
  <2>1. fresh.supersedes = proposal[p].draft.target
    BY <1>4 DEF old
  <2>2. memory[old].status # "absent"
    BY <1>1
  <2> QED
    BY <1>1, <1>3, <1>4, <1>5, <1>7, <1>8, <2>1, <2>2 DEF MemoryFollowsDecision
<1> QED
  BY <1>6, <1>9, <1>10, <1>11 DEF Inv

(* A revocation, a tick and a restart leave the proposals alone.           *)
LEMMA OtherSteps ==
    ASSUME Inv, Tick \/ Crash \/ \E m \in Memories : Revoke(m)
    PROVE  Inv'
<1>1. CASE Tick
  BY <1>1, MemoryAssumption
  DEF Tick, Inv, TypeOK, HandlersOK, HandlerOK, OneCreator, AbsentIsBlank, MemoryFollowsDecision
<1>2. CASE Crash
  <2>1. /\ work' = [w \in Workers |-> Idle] /\ UNCHANGED <<now, proposal, memory, contested>>
        /\ Idle.pc = "idle" /\ ~Creating(Idle) /\ Idle \in Handler
    BY <1>2, IdleType DEF Crash, Idle, Creating
  <2>2. HandlersOK'
    BY <2>1, IdleType DEF HandlersOK, HandlerOK
  <2>3. OneCreator'
    BY <2>1 DEF OneCreator, Creating
  <2> QED
    BY <2>1, <2>2, <2>3 DEF Inv, TypeOK, AbsentIsBlank, MemoryFollowsDecision
<1>3. CASE \E m \in Memories : Revoke(m)
  <2> PICK m \in Memories : Revoke(m)
    BY <1>3
  <2>1. /\ UNCHANGED <<now, proposal, work, contested>> /\ TypeOK /\ memory[m].status # "absent"
        /\ AbsentIsBlank /\ MemoryFollowsDecision /\ HandlersOK /\ OneCreator
    BY DEF Revoke, Inv
  <2>2. /\ memory' \in [Memories -> MemoryRow] /\ memory'[m].status = "revoked"
        /\ \A n \in Memories : n # m => memory'[n] = memory[n]
        /\ memory'[m].proposal = memory[m].proposal /\ memory'[m].claim = memory[m].claim
        /\ memory'[m].supersedes = memory[m].supersedes
    <3> DEFINE row == Retired(memory[m], "revoked", now)
    <3>1. /\ row \in MemoryRow /\ row.status = "revoked" /\ row.proposal = memory[m].proposal
          /\ row.claim = memory[m].claim /\ row.supersedes = memory[m].supersedes
      <4>1. memory[m] \in MemoryRow /\ now \in Time
        BY <2>1 DEF TypeOK
      <4> QED
        BY <4>1, RetiredType
    <3>2. memory' = [memory EXCEPT ![m] = row] /\ memory \in [Memories -> MemoryRow]
      BY <2>1 DEF Revoke, TypeOK
    <3> HIDE DEF row
    <3> QED
      BY <3>1, <3>2
  <2>3. TypeOK' /\ HandlersOK' /\ OneCreator'
    BY <2>1, <2>2 DEF TypeOK, HandlersOK, HandlerOK, OneCreator
  <2>4. AbsentIsBlank' /\ MemoryFollowsDecision'
    BY <2>1, <2>2 DEF AbsentIsBlank, MemoryFollowsDecision
  <2> QED
    BY <2>3, <2>4 DEF Inv
<1> QED
  BY <1>1, <1>2, <1>3

(* Every step keeps the invariant, and so it always holds.                 *)
LEMMA NextInv == Inv /\ [Next]_vars => Inv'
<1> SUFFICES ASSUME Inv, [Next]_vars PROVE Inv'
  OBVIOUS
<1>1. ASSUME NEW w \in Workers, Create(w) PROVE Inv'
  BY <1>1, CreateReads, ProposalWrites DEF Create
<1>2. ASSUME NEW w \in Workers, Decide(w) PROVE Inv'
  BY <1>2, DecisionReads, ProposalWrites, RecordStep, ReplaceStep DEF Decide
<1>3. ASSUME NEW w \in Workers, Read(w) PROVE Inv'
  BY <1>3, DecisionReads, ProposalWrites DEF Read
<1>4. CASE UNCHANGED vars
  BY <1>4 DEF vars, Inv, TypeOK, HandlersOK, HandlerOK, OneCreator, AbsentIsBlank,
              MemoryFollowsDecision
<1> QED
  BY <1>1, <1>2, <1>3, <1>4, OtherSteps DEF Next

LEMMA Invariance == Spec => []Inv
BY InitInv, NextInv, PTL DEF Spec

(* Every variable stays in its type, the handlers' local state included.   *)
THEOREM Typed == Spec => []TypeOK
<1>1. Inv => TypeOK
  BY DEF Inv
<1> QED
  BY <1>1, Invariance, PTL

(* A stored memory says what a decided proposal said, however requests     *)
(* interleave and wherever the process dies (decide_proposal,              *)
(* approve_replacement).                                                   *)
THEOREM FollowsDecision == Spec => []MemoryFollowsDecision
<1>1. Inv => MemoryFollowsDecision
  BY DEF Inv
<1> QED
  BY <1>1, Invariance, PTL

-----------------------------------------------------------------------------
(* Refinement of MemoryLedger                                              *)

(* What the three actions that write project_memories do to the table:     *)
(* they add one memory, replace one, or retire one.                        *)
Adds(m) ==
    /\ memory[m].status = "absent" /\ memory[m].supersedes = NoMemory
    /\ memory'[m].status = "active" /\ memory'[m].supersedes = NoMemory
    /\ \A n \in Memories \ {m} : memory'[n] = memory[n]

Replaces(m, old) ==
    /\ memory[m].status = "absent" /\ memory[old].status = "active"
    /\ memory[m].supersedes = NoMemory
    /\ memory'[m].status = "active" /\ memory'[m].supersedes = old
    /\ memory'[old].status = "superseded" /\ memory'[old].supersedes = memory[old].supersedes
    /\ \A n \in Memories \ {m, old} : memory'[n] = memory[n]

Retires(m) ==
    /\ memory[m].status # "absent" /\ memory'[m].status = "revoked"
    /\ memory'[m].supersedes = memory[m].supersedes
    /\ \A n \in Memories \ {m} : memory'[n] = memory[n]

(* No other action writes project_memories.                                *)
LEMMA MemoryWrites ==
    ASSUME Inv, [Next]_vars
    PROVE  \/ UNCHANGED memory
           \/ \E m \in Memories : Adds(m) \/ Retires(m)
           \/ \E w \in Workers, m, old \in Memories : ReplaceCommit(w) /\ Replaces(m, old)
<1>0. TypeOK /\ AbsentIsBlank /\ HandlersOK
  BY DEF Inv
<1>1. ASSUME NEW w \in Workers, DecideRecord(w)
      PROVE  \E m \in Memories : Adds(m)
  <2> DEFINE p == work[w].id
             row == NewMemory(p, work[w].from)
  <2>1. p \in Proposals /\ proposal[p].draft.target = NoMemory /\ work[w].from \in Time
    <3>1. work[w].pc = "record" /\ HandlerOK(work[w]) /\ work[w] \in Handler
      BY <1>0, <1>1 DEF DecideRecord, HandlersOK, TypeOK
    <3> QED
      BY <3>1 DEF HandlerOK, Fits
  <2>2. row.status = "active" /\ row.supersedes = NoMemory
    BY <1>0, <2>1, NewMemoryType
  <2>3. PICK m \in Memories : memory[m].status = "absent" /\ memory' = [memory EXCEPT ![m] = row]
    BY <1>1 DEF DecideRecord
  <2> HIDE DEF row
  <2> QED
    BY <1>0, <2>2, <2>3 DEF Adds, AbsentIsBlank, TypeOK
<1>2. ASSUME NEW w \in Workers, ReplaceCommit(w)
      PROVE  \E m, old \in Memories : Replaces(m, old)
  <2> DEFINE p == work[w].id
             old == proposal[p].draft.target
             from == ValidFrom(proposal[p].draft)
             fresh == NewMemory(p, from)
             retired == Retired(memory[old], "superseded", from)
  <2>1. p \in Proposals /\ from \in Time /\ old \in Memories /\ memory[old].status = "active"
    BY <1>2, CommitFacts
  <2>2. PICK m \in Memories :
           /\ memory[m].status = "absent"
           /\ memory' = [memory EXCEPT ![old] = retired, ![m] = fresh]
    BY <1>2, CommitFacts
  <2>3. fresh.status = "active" /\ fresh.supersedes = old
    BY <1>0, <2>1, NewMemoryType
  <2>4. retired.status = "superseded" /\ retired.supersedes = memory[old].supersedes
    <3>1. memory[old] \in MemoryRow
      BY <1>0, <2>1 DEF TypeOK
    <3> QED
      BY <2>1, <3>1, RetiredType
  <2> HIDE DEF fresh, retired, old
  <2> QED
    BY <1>0, <2>1, <2>2, <2>3, <2>4 DEF Replaces, AbsentIsBlank, TypeOK
<1>3. ASSUME NEW m \in Memories, Revoke(m)
      PROVE  Retires(m)
  <2> DEFINE row == Retired(memory[m], "revoked", now)
  <2>1. row.status = "revoked" /\ row.supersedes = memory[m].supersedes
    <3>1. memory[m] \in MemoryRow /\ now \in Time
      BY <1>0 DEF TypeOK
    <3> QED
      BY <3>1, RetiredType
  <2>2. memory[m].status # "absent" /\ memory' = [memory EXCEPT ![m] = row]
    BY <1>3 DEF Revoke
  <2> HIDE DEF row
  <2> QED
    BY <1>0, <2>1, <2>2 DEF Retires, TypeOK
<1>4. ASSUME NEW w \in Workers, Create(w) \/ Decide(w) \/ Read(w),
             ~DecideRecord(w), ~ReplaceCommit(w)
      PROVE  UNCHANGED memory
  BY <1>4 DEF Create, CreateStart, CreateTarget, CreateConflict, CreateInsert, Decide,
              GatewayDecide, DecideLoad, DecideCheck, DecideWrite, ReplaceRefuse, Read,
              Expire, Peek
<1> QED
  BY <1>1, <1>2, <1>3, <1>4 DEF Next, Tick, Crash, vars

(* Under the mapping, adding is recording, replacing is superseding, and   *)
(* retiring a memory that is retired already is a stutter.                 *)
LEMMA LedgerStep ==
    ASSUME Inv, [Next]_vars
    PROVE  [Ledger!LedgerNext]_(Ledger!ledger)
<1>0. \A m \in Memories : memory[m].status \in MemoryStatus
  BY DEF Inv, TypeOK
<1>1. CASE UNCHANGED memory
  BY <1>1 DEF Ledger!ledger, LedgerState, LedgerReplaces
<1>2. ASSUME NEW m \in Memories, Adds(m)
      PROVE  Ledger!Record(m)
  <2>1. LedgerState[m] = "absent"
    BY <1>2 DEF Adds, LedgerState
  <2>2. LedgerState' = [LedgerState EXCEPT ![m] = "live"]
    BY <1>2 DEF Adds, LedgerState
  <2>3. LedgerReplaces' = LedgerReplaces
    BY <1>2 DEF Adds, LedgerReplaces
  <2> QED
    BY <2>1, <2>2, <2>3 DEF Ledger!Record
<1>3. ASSUME NEW m \in Memories, NEW old \in Memories, Replaces(m, old)
      PROVE  Ledger!Supersede(m, old)
  <2>1. LedgerState[m] = "absent" /\ LedgerState[old] = "live"
    BY <1>3 DEF Replaces, LedgerState
  <2>2. LedgerState' = [LedgerState EXCEPT ![m] = "live", ![old] = "retired"]
    BY <1>3 DEF Replaces, LedgerState
  <2>3. LedgerReplaces' = [LedgerReplaces EXCEPT ![m] = old]
    BY <1>3 DEF Replaces, LedgerReplaces
  <2> QED
    BY <2>1, <2>2, <2>3 DEF Ledger!Supersede
<1>4. ASSUME NEW m \in Memories, Retires(m)
      PROVE  Ledger!Retire(m) \/ UNCHANGED <<LedgerState, LedgerReplaces>>
  <2>1. LedgerReplaces' = LedgerReplaces
    BY <1>4 DEF Retires, LedgerReplaces
  <2>2. CASE memory[m].status = "active"
    <3>1. LedgerState[m] = "live"
      BY <2>2 DEF LedgerState
    <3>2. LedgerState' = [LedgerState EXCEPT ![m] = "retired"]
      BY <1>4, <2>2 DEF Retires, LedgerState
    <3> QED
      BY <2>1, <3>1, <3>2 DEF Ledger!Retire
  <2>3. CASE memory[m].status # "active"
    <3>1. LedgerState' = LedgerState
      BY <1>4, <2>3 DEF Retires, LedgerState
    <3> QED
      BY <2>1, <3>1
  <2> QED
    BY <2>2, <2>3
<1> QED
  BY <1>1, <1>2, <1>3, <1>4, MemoryWrites DEF Ledger!LedgerNext, Ledger!ledger

(* The store implements the abstract ledger: a replacement is recorded in  *)
(* the step that retires what it replaces, and nothing comes back to life  *)
(* (approve_replacement, revoke_memory, decide_proposal).                  *)
THEOREM Refinement == Spec => ImplementsLedger
<1>1. Init => Ledger!LedgerInit
  BY DEF Init, Ledger!LedgerInit, LedgerState, LedgerReplaces
<1> QED
  BY <1>1, LedgerStep, Invariance, PTL DEF Spec, ImplementsLedger, Ledger!LedgerSpec

-----------------------------------------------------------------------------
(* The version chain                                                       *)

LedgerProofs == INSTANCE MemoryLedgerProofs
                WITH state <- LedgerState, replaces <- LedgerReplaces

HasSuccessor ==
    \A m \in Memories : memory[m].status = "superseded"
                           => \E n \in Memories : memory[n].supersedes = m

(* A replacement creates the successor of what it supersedes, and no row   *)
(* ever changes what it supersedes.                                        *)
LEMMA SuccessorStep ==
    ASSUME Inv, HasSuccessor, [Next]_vars
    PROVE  HasSuccessor'
<1> SUFFICES ASSUME NEW m \in Memories, memory'[m].status = "superseded"
             PROVE  \E n \in Memories : memory'[n].supersedes = m
  BY DEF HasSuccessor
<1>1. CASE UNCHANGED memory
  BY <1>1 DEF HasSuccessor
<1>2. ASSUME NEW k \in Memories, Adds(k) \/ Retires(k)
      PROVE  \E n \in Memories : memory'[n].supersedes = m
  <2>1. m # k /\ memory[m].status = "superseded"
    BY <1>2 DEF Adds, Retires
  <2>2. PICK n \in Memories : memory[n].supersedes = m
    BY <2>1 DEF HasSuccessor
  <2>3. memory'[n].supersedes = m
    BY <1>2, <2>2, MemoryAssumption DEF Adds, Retires
  <2> QED
    BY <2>3
<1>3. ASSUME NEW k \in Memories, NEW old \in Memories, Replaces(k, old)
      PROVE  \E n \in Memories : memory'[n].supersedes = m
  <2>1. CASE m = old
    BY <1>3, <2>1 DEF Replaces
  <2>2. CASE m # old
    <3>1. m # k /\ memory[m].status = "superseded"
      BY <1>3, <2>2 DEF Replaces
    <3>2. PICK n \in Memories : memory[n].supersedes = m
      BY <3>1 DEF HasSuccessor
    <3>3. memory'[n].supersedes = m
      BY <1>3, <3>2, MemoryAssumption DEF Replaces
    <3> QED
      BY <3>3
  <2> QED
    BY <2>1, <2>2
<1> QED
  BY <1>1, <1>2, <1>3, MemoryWrites

(* Versions of a fact form a line: no memory has two successors, none is   *)
(* its own ancestor, and a superseded one has its successor, across        *)
(* concurrent requests and crashes (approve_replacement).                  *)
THEOREM VersionsFormALine == Spec => []VersionChain
<1>1. Init => LedgerProofs!LedgerInv
  <2>1. Init => LedgerProofs!LedgerInit
    BY DEF Init, LedgerProofs!LedgerInit, LedgerState, LedgerReplaces
  <2> QED
    BY <2>1, LedgerProofs!InitLedgerInv, MemoryAssumption
<1>2. Inv /\ LedgerProofs!LedgerInv /\ [Next]_vars => LedgerProofs!LedgerInv'
  <2>1. [Ledger!LedgerNext]_(Ledger!ledger)
          => [LedgerProofs!LedgerNext]_(LedgerProofs!ledger)
    BY DEF LedgerProofs!LedgerNext, LedgerProofs!Record, LedgerProofs!Retire,
           LedgerProofs!Supersede, LedgerProofs!ledger,
           Ledger!LedgerNext, Ledger!Record, Ledger!Retire, Ledger!Supersede, Ledger!ledger
  <2> QED
    BY <2>1, LedgerStep, LedgerProofs!NextLedgerInv, MemoryAssumption
<1>3. Init => HasSuccessor
  BY DEF Init, HasSuccessor
<1>4. Inv /\ HasSuccessor /\ [Next]_vars => HasSuccessor'
  BY SuccessorStep
<1>5. LedgerProofs!LedgerInv /\ HasSuccessor => VersionChain
  BY DEF LedgerProofs!LedgerInv, LedgerProofs!LinearChain, LedgerProofs!WellFoundedChain,
         Ledger!LinearChain, Ledger!WellFoundedChain, VersionChain, HasSuccessor
<1> QED
  BY <1>1, <1>2, <1>3, <1>4, <1>5, Invariance, PTL DEF Spec

-----------------------------------------------------------------------------
(* Overlapping decisions                                                   *)

Recording(v, p) == work[v].id = p /\ work[v].pc = "record"

(* An uncontested proposal: who holds it pending is right about it, one    *)
(* handler at most still owes it its memory, and it has one memory at      *)
(* most.                                                                   *)
HoldersAreRight(p) == \A v \in Workers : HoldsPending(v, p) => proposal[p].status = "pending"

RecorderIsAlone(p) ==
    \A v \in Workers : Recording(v, p) =>
        /\ proposal[p].status = "approved"
        /\ \A m \in Memories : memory[m].proposal # p
        /\ \A u \in Workers : Recording(u, p) => u = v

MemoryIsAlone(p) ==
    \A m \in Memories : memory[m].proposal = p =>
        /\ proposal[p].status = "approved"
        /\ \A n \in Memories : memory[n].proposal = p => m = n

Orderly(p) == HoldersAreRight(p) /\ RecorderIsAlone(p) /\ MemoryIsAlone(p)

(* Who writes an expiry knows it, so the write does not lead to another.   *)
ExpiryIsSeen == \A w \in Workers : work[w].pc = "expire" => work[w].seen = "expired"

OverlapInv == ExpiryIsSeen /\ \A p \in Proposals \ contested : Orderly(p)

SettledStays ==
    \A p \in Proposals :
        Settled(p) => Settled(p)' /\ proposal'[p].status = proposal[p].status

(* A handler goes on to h without a write: it may begin to hold a          *)
(* proposal that is pending.                                               *)
LEMMA LookStep ==
    ASSUME Inv, OverlapInv, NEW w \in Workers, NEW h \in Handler,
           work' = [work EXCEPT ![w] = h], UNCHANGED <<proposal, memory, contested>>,
           h.pc = "expire" => h.seen = "expired", h.pc # "record",
           Holding(h) => proposal[h.id].status = "pending" \/ HoldsPending(w, h.id)
    PROVE  OverlapInv' /\ SettledStays
<1>1. work'[w] = h /\ \A v \in Workers : v # w => work'[v] = work[v]
  BY DEF Inv, TypeOK
<1>2. ExpiryIsSeen'
  BY <1>1 DEF OverlapInv, ExpiryIsSeen
<1>3. ASSUME NEW p \in Proposals, NEW v \in Workers, HoldsPending(v, p)'
      PROVE  HoldsPending(v, p) \/ proposal[p].status = "pending"
  BY <1>1, <1>3 DEF HoldsPending, Holding
<1>4. ASSUME NEW p \in Proposals, NEW v \in Workers, Recording(v, p)'
      PROVE  Recording(v, p)
  BY <1>1, <1>4 DEF Recording
<1>5. ASSUME NEW p \in Proposals, Orderly(p) PROVE Orderly(p)'
  BY <1>3, <1>4, <1>5 DEF Orderly, HoldersAreRight, RecorderIsAlone, MemoryIsAlone
<1>6. SettledStays
  BY <1>3 DEF SettledStays, Settled
<1> QED
  BY <1>2, <1>5, <1>6 DEF OverlapInv

LEMMA IdleHoldsNothing == Idle \in Handler /\ Idle.pc = "idle" /\ ~Holding(Idle)
BY IdleType DEF Idle, Holding

LEMMA ReturnLook ==
    ASSUME Inv, OverlapInv, NEW w \in Workers, Return(w),
           UNCHANGED <<proposal, memory, contested>>
    PROVE  OverlapInv' /\ SettledStays
BY IdleHoldsNothing, LookStep DEF Return

LEMMA GotoLook ==
    ASSUME Inv, OverlapInv, NEW w \in Workers, NEW h \in Handler, NEW pc \in Step,
           Goto(w, h, pc), UNCHANGED <<proposal, memory, contested>>,
           pc \in {"expire", "write"} \/ (pc = "check" /\ h.seen = "pending")
              => proposal[h.id].status = "pending" \/ HoldsPending(w, h.id),
           pc = "expire" => h.seen = "expired", pc # "record"
    PROVE  OverlapInv' /\ SettledStays
<1> DEFINE g == [h EXCEPT !.pc = pc]
<1>1. g \in Handler /\ g.pc = pc /\ g.id = h.id /\ g.seen = h.seen
  OBVIOUS
<1>2. Holding(g) => proposal[g.id].status = "pending" \/ HoldsPending(w, g.id)
  BY <1>1 DEF Holding
<1>3. work' = [work EXCEPT ![w] = g]
  BY DEF Goto
<1> HIDE DEF g
<1> QED
  BY <1>1, <1>2, <1>3, LookStep

LEMMA FetchLook ==
    ASSUME Inv, OverlapInv, NEW w \in Workers, NEW h \in Handler,
           NEW next \in {"idle", "load", "check", "replace"},
           h.id \in Proposals, Fetch(w, h, next), UNCHANGED <<proposal, memory, contested>>
    PROVE  OverlapInv' /\ SettledStays
<1>1. proposal[h.id].status \in ProposalStatus
  BY DEF Inv, TypeOK
<1>2. CASE Expired(h.id)
  <2> DEFINE g == [h EXCEPT !.seen = "expired", !.after = next]
  <2>1. g \in Handler /\ g.id = h.id /\ g.seen = "expired" /\ Goto(w, g, "expire")
    BY <1>2 DEF Fetch
  <2>2. proposal[g.id].status = "pending"
    BY <1>2, <2>1 DEF Expired
  <2> HIDE DEF g
  <2> QED
    BY <2>1, <2>2, GotoLook
<1>3. CASE ~Expired(h.id) /\ next = "idle"
  BY <1>3, IdleType, GotoLook DEF Fetch
<1>4. CASE ~Expired(h.id) /\ next # "idle"
  <2> DEFINE g == [h EXCEPT !.seen = proposal[h.id].status]
  <2>1. g \in Handler /\ g.id = h.id /\ g.seen = proposal[h.id].status /\ Goto(w, g, next)
    BY <1>1, <1>4 DEF Fetch
  <2> HIDE DEF g
  <2> QED
    BY <2>1, GotoLook
<1> QED
  BY <1>2, <1>3, <1>4

(* A handler that held p pending writes its decision or its expiry.  If p  *)
(* stays uncontested nobody else held it, so p was still pending, had no   *)
(* memory and none was on its way.                                         *)
LEMMA WriteLook ==
    ASSUME Inv, OverlapInv, NEW w \in Workers, NEW p \in Proposals,
           NEW row \in ProposalRow, NEW h \in Handler,
           HoldsPending(w, p), NoteOverlap(w, p),
           proposal' = [proposal EXCEPT ![p] = row], UNCHANGED memory,
           work' = [work EXCEPT ![w] = h], ~Holding(h),
           h.pc = "record" => h.id = p /\ row.status = "approved"
    PROVE  OverlapInv' /\ SettledStays
<1>1. /\ work'[w] = h /\ \A v \in Workers : v # w => work'[v] = work[v]
      /\ proposal'[p] = row /\ \A q \in Proposals : q # p => proposal'[q] = proposal[q]
      /\ contested \subseteq contested'
      /\ p \notin contested' => \A v \in Workers : HoldsPending(v, p) => v = w
  BY DEF Inv, TypeOK, NoteOverlap
<1>2. ExpiryIsSeen'
  BY <1>1 DEF OverlapInv, ExpiryIsSeen, Holding
<1>3. \A v \in Workers, q \in Proposals : HoldsPending(v, q)' => HoldsPending(v, q) /\ v # w
  BY <1>1 DEF HoldsPending
<1>4. ASSUME NEW q \in Proposals, q \notin contested', q # p
      PROVE  Orderly(q)'
  <2>1. Orderly(q)
    BY <1>1, <1>4 DEF OverlapInv
  <2>2. \A v \in Workers : Recording(v, q)' => Recording(v, q)
    BY <1>1, <1>4 DEF Recording
  <2> QED
    BY <1>1, <1>3, <1>4, <2>1, <2>2
    DEF Orderly, HoldersAreRight, RecorderIsAlone, MemoryIsAlone
<1>5. ASSUME p \notin contested'
      PROVE  Orderly(p)'
  <2>1. Orderly(p)
    BY <1>1, <1>5 DEF OverlapInv
  <2>2. /\ \A v \in Workers : ~Recording(v, p)
        /\ \A m \in Memories : memory[m].proposal # p
    BY <2>1 DEF Orderly, HoldersAreRight, RecorderIsAlone, MemoryIsAlone
  <2>3. \A v \in Workers : Recording(v, p)' => v = w /\ row.status = "approved"
    BY <1>1, <2>2 DEF Recording
  <2>4. \A v \in Workers : ~HoldsPending(v, p)'
    BY <1>1, <1>3, <1>5
  <2> QED
    BY <1>1, <2>2, <2>3, <2>4 DEF Orderly, HoldersAreRight, RecorderIsAlone, MemoryIsAlone
<1>6. SettledStays
  BY <1>1, <1>3 DEF SettledStays, Settled
<1> QED
  BY <1>2, <1>4, <1>5, <1>6 DEF OverlapInv

(* create_proposal: the reads, and the INSERT of a row nobody has read.    *)
LEMMA CreateLooks ==
    ASSUME Inv, OverlapInv, NEW w \in Workers, Create(w)
    PROVE  OverlapInv' /\ SettledStays
<1>0. work[w] \in Handler /\ HandlerOK(work[w])
  BY DEF Inv, TypeOK, HandlersOK
<1>1. ASSUME NEW p \in Proposals, NEW d \in Drafts, CreateStart(w, p, d)
      PROVE  OverlapInv' /\ SettledStays
  <2> DEFINE h == [Idle EXCEPT !.id = p, !.draft = d, !.expires = now + TTL]
  <2>1. d \in Draft /\ now + TTL \in Nat
    BY MemoryAssumption DEF Drafts, Inv, TypeOK
  <2>2. h \in Handler
    BY <2>1, IdleType DEF Idle
  <2>3. Goto(w, h, "target") /\ UNCHANGED <<proposal, memory, contested>>
    BY <1>1 DEF CreateStart
  <2> HIDE DEF h
  <2> QED
    BY <2>2, <2>3, GotoLook
<1>2. CASE CreateTarget(w) \/ CreateConflict(w)
  BY <1>0, <1>2, GotoLook, ReturnLook DEF CreateTarget, CreateConflict
<1>3. CASE CreateInsert(w)
  <2> DEFINE p == work[w].id
             row == [status |-> "pending", draft |-> work[w].draft, expires |-> work[w].expires]
  <2>1. p \in Proposals /\ proposal[p].status = "absent"
    BY <1>0, <1>3 DEF CreateInsert, HandlerOK, Fits, Creating
  <2>2. /\ proposal'[p] = row /\ \A q \in Proposals : q # p => proposal'[q] = proposal[q]
        /\ work'[w] = Idle /\ \A v \in Workers : v # w => work'[v] = work[v]
        /\ UNCHANGED <<memory, contested>>
    BY <1>3, <2>1 DEF CreateInsert, Return, Inv, TypeOK
  <2>3. \A v \in Workers : ~HoldsPending(v, p)
    BY <1>3, <2>1 DEF HoldsPending, Holding, CreateInsert, Inv, HandlersOK, HandlerOK, Fits, Creating
  <2>4. \A v \in Workers, q \in Proposals : /\ HoldsPending(v, q)' => HoldsPending(v, q)
                                            /\ Recording(v, q)' => Recording(v, q)
    BY <2>2, IdleHoldsNothing DEF HoldsPending, Recording
  <2>5. ASSUME NEW q \in Proposals, Orderly(q) PROVE Orderly(q)'
    <3>1. CASE q # p
      BY <2>2, <2>4, <2>5, <3>1 DEF Orderly, HoldersAreRight, RecorderIsAlone, MemoryIsAlone
    <3>2. CASE q = p
      BY <2>1, <2>2, <2>3, <2>4, <2>5, <3>2
      DEF Orderly, HoldersAreRight, RecorderIsAlone, MemoryIsAlone
    <3> QED
      BY <3>1, <3>2
  <2>6. ExpiryIsSeen'
    BY <2>2, IdleHoldsNothing DEF OverlapInv, ExpiryIsSeen
  <2>7. SettledStays
    BY <2>1, <2>2, <2>4 DEF SettledStays, Settled
  <2> QED
    BY <2>2, <2>5, <2>6, <2>7 DEF OverlapInv
<1> QED
  BY <1>1, <1>2, <1>3 DEF Create

(* The reads of a decision, its check, and the lazy expiry.                *)
LEMMA DecisionLooks ==
    ASSUME Inv, OverlapInv, NEW w \in Workers,
           \/ Read(w) \/ DecideLoad(w) \/ DecideCheck(w) \/ ReplaceRefuse(w)
           \/ \E p \in Proposals, b \in BOOLEAN : GatewayDecide(w, p, b)
    PROVE  OverlapInv' /\ SettledStays
<1> DEFINE h == work[w]
<1>0. h \in Handler /\ HandlerOK(h) /\ (h.pc = "expire" => h.seen = "expired")
  BY DEF Inv, TypeOK, HandlersOK, OverlapInv, ExpiryIsSeen
<1>1. CASE Expire(w)
  <2>1. /\ h.id \in Proposals /\ h.pc = "expire" /\ HoldsPending(w, h.id)
        /\ h.after \in {"idle", "load", "check", "replace"} /\ NoteOverlap(w, h.id)
    BY <1>0, <1>1 DEF Expire, HandlerOK, HoldsPending, Holding
  <2> DEFINE row == [proposal[h.id] EXCEPT !.status = "expired"]
  <2>2. proposal' = [proposal EXCEPT ![h.id] = row] /\ UNCHANGED memory
    BY <1>1 DEF Expire, Inv, TypeOK
  <2>5. row \in ProposalRow
    BY <2>1 DEF Inv, TypeOK
  <2> HIDE DEF row
  <2>3. CASE h.after = "idle"
    <3>1. work' = [work EXCEPT ![w] = Idle]
      BY <1>1, <2>3 DEF Expire, Return
    <3> HIDE DEF h
    <3> QED
      BY <2>1, <2>2, <2>5, <3>1, IdleHoldsNothing, WriteLook
  <2>4. CASE h.after # "idle"
    <3> DEFINE g == [h EXCEPT !.after = "idle", !.pc = h.after]
    <3>1. work' = [work EXCEPT ![w] = g] /\ g.pc \in {"load", "check", "replace"} /\ g.seen = h.seen
      BY <1>0, <1>1, <2>1, <2>4 DEF Expire, Goto
    <3>2. g \in Handler /\ ~Holding(g)
      BY <1>0, <2>1, <3>1 DEF Holding
    <3> HIDE DEF g, h
    <3> QED
      BY <2>1, <2>2, <2>5, <3>1, <3>2, WriteLook
  <2> QED
    BY <2>3, <2>4
<1>2. ASSUME NEW p \in Proposals, Peek(w, p)
      PROVE  OverlapInv' /\ SettledStays
  <2> DEFINE g == [Idle EXCEPT !.id = p]
  <2>1. g \in Handler /\ g.id = p
    BY IdleType DEF Idle
  <2>2. Fetch(w, g, "idle") /\ UNCHANGED <<proposal, memory, contested>>
    BY <1>2 DEF Peek
  <2> HIDE DEF g
  <2> QED
    BY <2>1, <2>2, FetchLook
<1>3. CASE DecideLoad(w)
  <2>1. h.id \in Proposals
    BY <1>0, <1>3 DEF DecideLoad, HandlerOK
  <2> QED
    BY <1>0, <1>3, <2>1, FetchLook DEF DecideLoad
<1>4. CASE DecideCheck(w)
  <2>0. UNCHANGED <<proposal, memory, contested>> /\ h.pc = "check"
    BY <1>4 DEF DecideCheck
  <2>1. CASE Return(w)
    BY <2>0, <2>1, ReturnLook
  <2>2. CASE MayDecide(h) /\ Goto(w, [h EXCEPT !.seen = "expired"], "expire")
    <3> DEFINE g == [h EXCEPT !.seen = "expired"]
    <3>1. g \in Handler /\ g.id = h.id /\ g.seen = "expired" /\ HoldsPending(w, g.id)
      BY <1>0, <2>0, <2>2 DEF MayDecide, HoldsPending, Holding
    <3> HIDE DEF g
    <3>2. Goto(w, g, "expire")
      BY <2>2 DEF g
    <3> QED
      BY <2>0, <3>1, <3>2, GotoLook
  <2>3. CASE /\ MayDecide(h) /\ now < proposal[h.id].expires
             /\ Goto(w, [h EXCEPT !.from = ValidFrom(proposal[h.id].draft)], "write")
    <3> DEFINE g == [h EXCEPT !.from = ValidFrom(proposal[h.id].draft)]
    <3>1. HoldsPending(w, h.id) /\ h.id \in Proposals
      BY <1>0, <2>0, <2>3 DEF MayDecide, HoldsPending, Holding, HandlerOK
    <3>2. ValidFrom(proposal[h.id].draft) \in Time
      BY <3>1, MemoryAssumption DEF ValidFrom, Inv, TypeOK
    <3>3. g \in Handler /\ g.id = h.id
      BY <1>0, <3>2
    <3> HIDE DEF g
    <3>4. Goto(w, g, "write")
      BY <2>3 DEF g
    <3> QED
      BY <2>0, <3>1, <3>3, <3>4, GotoLook
  <2> QED
    BY <1>4, <2>1, <2>2, <2>3 DEF DecideCheck
<1>5. CASE ReplaceRefuse(w)
  BY <1>5, ReturnLook DEF ReplaceRefuse
<1>6. ASSUME NEW p \in Proposals, NEW b \in BOOLEAN, GatewayDecide(w, p, b)
      PROVE  OverlapInv' /\ SettledStays
  <2> DEFINE g == [Idle EXCEPT !.id = p, !.approved = b]
             next == IF b /\ proposal[p].draft.target # NoMemory THEN "replace" ELSE "load"
  <2>1. g \in Handler /\ g.id = p /\ next \in {"load", "replace"}
    BY IdleType DEF Idle
  <2>2. Fetch(w, g, next) /\ UNCHANGED <<proposal, memory, contested>>
    BY <1>6 DEF GatewayDecide
  <2> HIDE DEF g, next
  <2> QED
    BY <2>1, <2>2, FetchLook
<1> QED
  BY <1>1, <1>2, <1>3, <1>4, <1>5, <1>6 DEF Read

(* The decided row.                                                        *)
LEMMA DecideLooks ==
    ASSUME Inv, OverlapInv, NEW w \in Workers, DecideWrite(w)
    PROVE  OverlapInv' /\ SettledStays
<1> DEFINE h == work[w]
           row == [proposal[h.id] EXCEPT !.status = IF h.approved THEN "approved" ELSE "rejected"]
<1>1. h \in Handler /\ HandlerOK(h) /\ h.pc = "write"
  BY DEF Inv, TypeOK, HandlersOK, DecideWrite
<1>2. h.id \in Proposals /\ HoldsPending(w, h.id) /\ NoteOverlap(w, h.id)
  BY <1>1 DEF HandlerOK, HoldsPending, Holding, DecideWrite
<1>3. row \in ProposalRow /\ (h.approved => row.status = "approved")
  BY <1>1, <1>2 DEF Inv, TypeOK
<1>4. proposal' = [proposal EXCEPT ![h.id] = row] /\ UNCHANGED memory
  BY <1>2 DEF Inv, TypeOK, DecideWrite
<1> HIDE DEF row
<1>5. CASE h.approved
  <2> DEFINE g == [h EXCEPT !.pc = "record"]
  <2>1. g \in Handler /\ g.pc = "record" /\ g.id = h.id /\ ~Holding(g)
    BY <1>1 DEF Holding
  <2>2. work' = [work EXCEPT ![w] = g]
    BY <1>5 DEF DecideWrite, Goto
  <2> HIDE DEF g
  <2>3. row.status = "approved"
    BY <1>3, <1>5
  <2> HIDE DEF h
  <2> QED
    BY <1>2, <1>3, <1>4, <2>1, <2>2, <2>3, WriteLook
<1>6. CASE ~h.approved
  <2>1. work' = [work EXCEPT ![w] = Idle]
    BY <1>6 DEF DecideWrite, Return
  <2> HIDE DEF h
  <2> QED
    BY <1>2, <1>3, <1>4, <2>1, IdleHoldsNothing, WriteLook
<1> QED
  BY <1>5, <1>6

(* A new memory m of proposal p: when p is uncontested it had none, and    *)
(* nobody but w was about to record one.                                   *)
LEMMA AddLook ==
    ASSUME Inv, OverlapInv, NEW w \in Workers, NEW p \in Proposals, NEW m \in Memories,
           work' = [work EXCEPT ![w] = Idle], memory'[m].proposal = p,
           \A n \in Memories \ {m} : memory'[n].proposal = memory[n].proposal,
           \A q \in Proposals \ {p} : proposal'[q] = proposal[q],
           contested \subseteq contested',
           p \notin contested' => /\ proposal'[p].status = "approved"
                                  /\ \A n \in Memories : memory[n].proposal # p
                                  /\ \A v \in Workers \ {w} : ~HoldsPending(v, p) /\ ~Recording(v, p)
    PROVE  OverlapInv'
<1>1. /\ work'[w] = Idle /\ \A v \in Workers : v # w => work'[v] = work[v]
      /\ \A v \in Workers, q \in Proposals :
            /\ HoldsPending(v, q)' => HoldsPending(v, q) /\ v # w
            /\ Recording(v, q)' => Recording(v, q) /\ v # w
  BY IdleHoldsNothing DEF HoldsPending, Recording, Inv, TypeOK
<1>2. ExpiryIsSeen'
  BY <1>1, IdleHoldsNothing DEF OverlapInv, ExpiryIsSeen
<1>3. ASSUME NEW q \in Proposals, q \notin contested', q # p
      PROVE  Orderly(q)'
  <2>1. Orderly(q)
    BY <1>3 DEF OverlapInv
  <2>2. \A n \in Memories : memory'[n].proposal = q => n # m /\ memory[n].proposal = q
    BY <1>3
  <2>3. proposal'[q] = proposal[q]
    BY <1>3
  <2>4. HoldersAreRight(q)'
    BY <1>1, <2>1, <2>3 DEF Orderly, HoldersAreRight
  <2>5. RecorderIsAlone(q)'
    BY <1>1, <2>1, <2>2, <2>3 DEF Orderly, RecorderIsAlone
  <2>6. MemoryIsAlone(q)'
    BY <2>1, <2>2, <2>3 DEF Orderly, MemoryIsAlone
  <2> QED
    BY <2>4, <2>5, <2>6 DEF Orderly
<1>4. ASSUME p \notin contested'
      PROVE  Orderly(p)'
  BY <1>1, <1>4 DEF Orderly, HoldersAreRight, RecorderIsAlone, MemoryIsAlone
<1> QED
  BY <1>2, <1>3, <1>4 DEF OverlapInv

(* The second statement of decide_proposal.                                *)
LEMMA RecordLooks ==
    ASSUME Inv, OverlapInv, NEW w \in Workers, DecideRecord(w)
    PROVE  OverlapInv' /\ SettledStays
<1> DEFINE h == work[w]
<1>1. h \in Handler /\ HandlerOK(h) /\ h.pc = "record" /\ TypeOK
  BY DEF Inv, TypeOK, HandlersOK, DecideRecord
<1>2. h.id \in Proposals /\ Recording(w, h.id) /\ h.from \in Time
  BY <1>1 DEF HandlerOK, Recording
<1>3. PICK m \in Memories : memory' = [memory EXCEPT ![m] = NewMemory(h.id, h.from)]
  BY DEF DecideRecord
<1>4. /\ memory'[m].proposal = h.id
      /\ \A n \in Memories \ {m} : memory'[n].proposal = memory[n].proposal
  <2> DEFINE row == NewMemory(h.id, h.from)
  <2>1. row.proposal = h.id
    BY <1>1, <1>2, NewMemoryType
  <2>2. memory' = [memory EXCEPT ![m] = row]
    BY <1>3
  <2> HIDE DEF row
  <2> QED
    BY <1>1, <2>1, <2>2 DEF TypeOK
<1>5. work' = [work EXCEPT ![w] = Idle] /\ UNCHANGED <<proposal, contested>>
  BY DEF DecideRecord, Return
<1>6. h.id \notin contested' => /\ proposal'[h.id].status = "approved"
                                /\ \A n \in Memories : memory[n].proposal # h.id
                                /\ \A v \in Workers \ {w} : /\ ~HoldsPending(v, h.id)
                                                            /\ ~Recording(v, h.id)
  BY <1>2, <1>5 DEF OverlapInv, Orderly, HoldersAreRight, RecorderIsAlone
<1> HIDE DEF h
<1>7. OverlapInv'
  BY <1>2, <1>4, <1>5, <1>6, AddLook
<1>8. \A v \in Workers, q \in Proposals : HoldsPending(v, q)' => HoldsPending(v, q)
  BY <1>1, <1>5, IdleHoldsNothing DEF HoldsPending, TypeOK
<1>9. SettledStays
  BY <1>5, <1>8 DEF SettledStays, Settled
<1> QED
  BY <1>7, <1>9

(* The transaction of approve_replacement.                                 *)
LEMMA ReplaceLooks ==
    ASSUME Inv, OverlapInv, NEW w \in Workers, ReplaceCommit(w)
    PROVE  OverlapInv' /\ SettledStays
<1> DEFINE p == work[w].id
           old == proposal[p].draft.target
           from == ValidFrom(proposal[p].draft)
           row == [proposal[p] EXCEPT !.status = "approved"]
           fresh == NewMemory(p, from)
           retired == Retired(memory[old], "superseded", from)
<1>1. /\ p \in Proposals /\ from \in Time /\ work[w].pc = "replace"
      /\ old \in Memories /\ memory[old].status = "active"
      /\ row.status = "approved"
      /\ proposal' = [proposal EXCEPT ![p] = row]
      /\ work' = [work EXCEPT ![w] = Idle] /\ NoteOverlap(w, p)
  BY CommitFacts
<1>2. PICK m \in Memories : /\ memory[m].status = "absent"
                            /\ memory' = [memory EXCEPT ![old] = retired, ![m] = fresh]
  BY CommitFacts
<1>3. TypeOK /\ proposal[p].status = "pending"
  BY DEF Inv, ReplaceCommit
<1>4. fresh.proposal = p
  BY <1>1, <1>3, NewMemoryType
<1>5. retired.proposal = memory[old].proposal
  <2>1. memory[old] \in MemoryRow
    BY <1>1, <1>3 DEF TypeOK
  <2> QED
    BY <1>1, <2>1, RetiredType
<1> HIDE DEF row, fresh, retired, old, from
<1>6. /\ contested \subseteq contested'
      /\ p \notin contested' => \A v \in Workers \ {w} : ~HoldsPending(v, p)
  BY <1>1 DEF NoteOverlap
<1>7. p \notin contested' => /\ \A n \in Memories : memory[n].proposal # p
                             /\ \A v \in Workers : ~Recording(v, p)
  BY <1>1, <1>3, <1>6 DEF OverlapInv, Orderly, RecorderIsAlone, MemoryIsAlone
<1> HIDE DEF p
<1>8. /\ memory'[m].proposal = p
      /\ \A n \in Memories \ {m} : memory'[n].proposal = memory[n].proposal
  BY <1>1, <1>2, <1>3, <1>4, <1>5 DEF TypeOK
<1>9. /\ proposal'[p].status = "approved"
      /\ \A q \in Proposals \ {p} : proposal'[q] = proposal[q]
  BY <1>1, <1>3 DEF TypeOK
<1>10. OverlapInv'
  BY <1>1, <1>6, <1>7, <1>8, <1>9, AddLook
<1>11. \A v \in Workers, q \in Proposals : HoldsPending(v, q)' => HoldsPending(v, q)
  BY <1>1, <1>3, IdleHoldsNothing DEF HoldsPending, TypeOK
<1>12. SettledStays
  BY <1>3, <1>9, <1>11 DEF SettledStays, Settled
<1> QED
  BY <1>10, <1>12

(* A revocation, a tick and a restart.                                     *)
LEMMA OtherLooks ==
    ASSUME Inv, OverlapInv, Tick \/ Crash \/ \E m \in Memories : Revoke(m)
    PROVE  OverlapInv' /\ SettledStays
<1>1. UNCHANGED <<proposal, contested>>
  BY DEF Tick, Crash, Revoke
<1>2. \A n \in Memories : memory'[n].proposal = memory[n].proposal
  <2>1. ASSUME NEW m \in Memories, Revoke(m), NEW n \in Memories
        PROVE  memory'[n].proposal = memory[n].proposal
    <3> DEFINE row == Retired(memory[m], "revoked", now)
    <3>1. memory[m] \in MemoryRow /\ now \in Time /\ memory \in [Memories -> MemoryRow]
      BY DEF Inv, TypeOK
    <3>2. row.proposal = memory[m].proposal
      BY <3>1, RetiredType
    <3>3. memory' = [memory EXCEPT ![m] = row]
      BY <2>1, <3>1 DEF Revoke
    <3> HIDE DEF row
    <3> QED
      BY <3>1, <3>2, <3>3
  <2> QED
    BY <2>1 DEF Tick, Crash
<1>3. \A v \in Workers : work'[v] = work[v] \/ work'[v] = Idle
  BY DEF Tick, Crash, Revoke
<1>4. \A v \in Workers, q \in Proposals : /\ HoldsPending(v, q)' => HoldsPending(v, q)
                                          /\ Recording(v, q)' => Recording(v, q)
  BY <1>3, IdleHoldsNothing DEF HoldsPending, Recording
<1>5. ASSUME NEW q \in Proposals, Orderly(q) PROVE Orderly(q)'
  BY <1>1, <1>2, <1>4, <1>5 DEF Orderly, HoldersAreRight, RecorderIsAlone, MemoryIsAlone
<1>6. ExpiryIsSeen'
  BY <1>3, IdleHoldsNothing DEF OverlapInv, ExpiryIsSeen
<1>7. SettledStays
  BY <1>1, <1>4 DEF SettledStays, Settled
<1> QED
  BY <1>1, <1>5, <1>6, <1>7 DEF OverlapInv

LEMMA OverlapInit == Init => OverlapInv
BY MemoryAssumption, IdleHoldsNothing
DEF Init, OverlapInv, ExpiryIsSeen, Orderly, HoldersAreRight, RecorderIsAlone, MemoryIsAlone,
    HoldsPending, Recording

LEMMA OverlapNext ==
    ASSUME Inv, OverlapInv, [Next]_vars
    PROVE  OverlapInv' /\ SettledStays
<1>1. ASSUME NEW w \in Workers, Create(w) \/ Decide(w) \/ Read(w)
      PROVE  OverlapInv' /\ SettledStays
  BY <1>1, CreateLooks, DecisionLooks, DecideLooks, RecordLooks, ReplaceLooks DEF Decide
<1>2. CASE UNCHANGED vars
  BY <1>2 DEF vars, OverlapInv, ExpiryIsSeen, Orderly, HoldersAreRight, RecorderIsAlone,
              MemoryIsAlone, HoldsPending, Recording, SettledStays, Settled
<1> QED
  BY <1>1, <1>2, OtherLooks DEF Next

(* With any number of requests at once, with crashes, expiry, replacements *)
(* and revocations: unless two of them decided a proposal together, its    *)
(* memory comes from an approval and is its only one (decide_proposal,     *)
(* approve_replacement).                                                   *)
THEOREM OneMemoryPerApproval == Spec => []ApprovedUnlessContested
<1>1. OverlapInv /\ Inv /\ [Next]_vars => OverlapInv'
  BY OverlapNext
<1>2. Inv /\ OverlapInv => ApprovedUnlessContested
  BY DEF Inv, MemoryFollowsDecision, OverlapInv, Orderly, MemoryIsAlone,
         ApprovedUnlessContested, ApprovedOnce, Stored
<1> QED
  BY <1>1, <1>2, OverlapInit, Invariance, PTL DEF Spec

(* A decided proposal that no request still holds pending keeps its        *)
(* decision for good, with any number of requests at once                  *)
(* (prepare_decision refuses a decided copy).                              *)
THEOREM DecisionsAreFinal == Spec => DecisionIsFinal
<1>1. OverlapInv /\ Inv /\ [Next]_vars => OverlapInv'
  BY OverlapNext
<1>2. OverlapInv /\ Inv /\ [Next]_vars
        => [\A p \in Proposals :
               Settled(p) => Settled(p)' /\ proposal'[p].status = proposal[p].status]_vars
  BY OverlapNext DEF SettledStays
<1> QED
  BY <1>1, <1>2, OverlapInit, Invariance, PTL DEF Spec, DecisionIsFinal
=============================================================================
