# ProjectLens: formal models

TLA+ models of the ProjectLens service (`src/src/project_lens`), the TLC
configurations that check them on small instances, and proofs of their main
invariants.  ProjectLens answers questions about software projects, keeps a
governed long-term project memory, scans for risks, holds branching
conversations and synchronises documents and connectors, from HTTP and from
Feishu (cards, messages, webhooks).

All paths below are relative to `src/src/project_lens/` unless they start with
`src/`.

## 1. What runs concurrently

The program is one Python process with a FastAPI event loop.

* HTTP routes declared `def` run on a thread pool; `async def` routes, the
  Feishu message and card handlers and the schedulers run on the event loop.
  Two requests therefore interleave at any point between two statements of the
  store, and two coroutines interleave at every `await`.
* `persistence/sqlite.py:SQLiteDatabase` owns one connection under an `RLock`.
  `execute` and `fetch*` take the lock for one statement, which commits by
  itself; `transaction()` holds it for a `BEGIN IMMEDIATE` block.  A sequence
  get / check / save of three calls is therefore *not* atomic.
* The database file survives a crash; everything held in Python objects does
  not.  In-memory stores (`InMemory*`) lose all on restart.

The models use the grain that follows: one action is the code between two lock
acquisitions (or two awaits), and everything a handler remembers from an
earlier read is part of its local state.

## 2. Inventory

| Part | State | Operations | Interacts with |
|---|---|---|---|
| **Memory governance** `context/memory_store.py`, `runtime/memory_approval_gateway.py`, `domain/memory.py` | tables `memory_proposals`, `project_memories`, summary cache, FTS rows | create / read (lazy expiry) / decide proposal, approve replacement, revoke memory, list as of a moment | HTTP `api/memory*`, Feishu cards, Hermes tools |
| **Risk lifecycle** `application/risk_engine.py`, `risk_feedback_service.py`, `risk_notification_service.py`, `hermes_risk_scheduler.py` | risks with status, risk events, feedback rows, delivery marks, claimed brief keys | scan, submit feedback, transition, wake snoozes, notify, escalate, digest | context engine (scan on every snapshot), Feishu cards, scheduler |
| **Conversation branches** `application/conversation_service.py`, `context/conversation_store.py`, `domain/conversation.py` | session rows, the active session of each binding, turns, summaries, pinned items | resolve or create, fork, switch, delete, record turn, edit context, expire | Feishu service, project agent |
| **Context preview** `application/conversation_service.py`, `domain/conversation.py`, `workflow/context_compression.py` | turns kept verbatim, last compression, citations, pending set, date window, ticks | ask, answer, remove, restore, join, pick a message, pick dates, confirm | Feishu cards, compression, group history |
| **Agent loop** `runtime/loop.py`, `runtime/tool_gateway.py` | message list, token / iteration counters, event stream | think, call tools, stop on limits, time out, cancel | model client, tools |
| **Run lifecycle** `application/run_service.py` | run records, event log | create, complete externally, list | HTTP, Hermes gateway |
| **Feishu ingress** `integrations/feishu/*` | seen event ids, pending approvals, group bindings | message, card action, redelivery, approvals | everything above |
| **Approvals in SQLite** `persistence/sqlite.py` | approval rows, deduplication keys | decide, mark seen | Feishu cards |
| **Connector and document sync** `application/connector_sync.py`, `feishu_doc_sync.py`, `feishu_doc_sync_scheduler.py`, `context/source_store.py` | cursors, attempts, sources, in-memory index, reviews | sync a connector, apply a batch, sync documents, revoke a source | connectors, index, memory reviews |
| **Memory reviews** `context/memory_review_queue.py`, `application/memory_review_service.py` | review rows | open, resolve | connector sync, Hermes |
| **Context engine and retrieval** `context/*`, `context/indexing`, `context/knowledge_index` | snapshots, indexes | build context, search | agent |
| **Project agent and Hermes** `agent/*`, `application/hermes_runtime.py`, `application/project_agent_*` | prompts, tool traces | answer a question | loop, tools |
| **Policies** `project_space/policies.py` | none | access scope = role, group and project scopes intersected | every entry point |
| **HTTP API, configuration, evaluation, graph, Obsidian** | mostly none | parse, format, wire | all |

What each part must get right, and what makes it hard:

* **Memory.**  A memory exists only because a proposal was approved, says what
  it said, has at most one successor; one current version per fact.  Hard:
  two decisions of one proposal at once, lazy expiry written from a stale
  read, a crash between the two writes of an approval, replacements racing.
* **Risk.**  A user's acknowledgement or dismissal is not undone except by
  the documented triggers; every accepted feedback is applied; nothing is
  announced twice or lost.  Hard: scans that write a snapshot of the status,
  marks written before the send they stand for.
* **Conversation.**  The active line is writable, frozen branches do not
  change, a binding keeps a line.  Hard: read-modify-write of whole sessions,
  crash in the middle of a fork, deletes that race.
* **Preview.**  What is sent is what the card shows, no turn gets out of reach,
  a removed item is not sent.  Hard: several saves by one button, old cards,
  answers that come back while the user edits.
* **Loop.**  Ends with exactly one terminal event within its limits.
* **Runs.**  One terminal event per run, event log and status agree.
* **Ingress.**  Every event has an effect exactly once, or at least once
  when handling fails.  Hard: marking before handling.
* **Sync.**  A stored source is searchable, a revoked one is not, a cursor
  never passes work that was not done.  Hard: two stores, failure between.

## 3. Plan

Order: the most consequential state first, each module shaped for proof
(parameters as constants with named assumptions, one action per operation,
no recursive operators).

| Module | Composes or implements | State |
|---|---|---|
| `MemoryLedger`, `MemoryApproval` | the second implements the first | checked and proved, section 4 |
| `ConversationBranches` | service, store and the handlers of cards | checked and proved, section 5 |
| `RiskFeedback` | engine, feedback and notification | checked and proved, section 6 |
| `AnswerPromise`, `QuestionDelivery` | ingress, Hermes runner and run service; the second implements the first, with liveness | checked and proved but for liveness, section 7 |
| `ContextPreview` | service, compression and card handlers | checked and proved, section 8 |
| `SourceSync` | connector sync, both stores, reviews and approvals | checked and proved, section 9 |

Every safety property of a passing run has a theorem; the two liveness
properties of the questions run stay with TLC.  Left: the daily digest and the
Hermes review loop in `RiskFeedback`; the SQLite approvals of cards; the
documents that are read by token; clipping of text to a token budget and access
scopes as operators against reference definitions; an abstract specification of
a conversation line, which the service would be shown to implement.

## 4. Memory governance

`MemoryApproval` models `context/memory_store.py` and
`runtime/memory_approval_gateway.py`; `MemoryLedger` is the abstract promise
about versions.

| Model | Code |
|---|---|
| `proposal`, `memory` | the tables `memory_proposals` and `project_memories` |
| `work[w]` | what a request handler remembers between two statements: the proposal it read, the row it will insert, the start it computed |
| `CreateStart` .. `CreateInsert` | `create_proposal`: target looked up, conflict scan, insert, three statements |
| `Fetch`, `Expire`, `Peek` | `get_proposal`, with the lazy expiry written from the copy that was read |
| `GatewayDecide`, `DecideLoad`, `DecideCheck`, `DecideWrite`, `DecideRecord` | the gateway's `decide` and `decide_proposal`: read twice, check, write the decision, insert the memory |
| `ReplaceCommit`, `ReplaceRefuse` | `approve_replacement`, one transaction; a refusal rolls back the lazy expiry it wrote |
| `Revoke` | `revoke_memory` |
| `Crash` | the process dies; the tables stay, every handler is gone |

Memory routes are `def` functions on the thread pool and the Feishu card
handler runs on the event loop, so `Workers` interleave between statements.
The gateway sends every approval with a target to `approve_replacement`; the
superseding branch inside `decide_proposal` is never reached through it and is
not modelled.  A claim is a fact key and a normalised text: the two things the
conflict scan compares.

**Runs.**  `memory_concurrent`: two handlers and three proposals, a first
version and two rival replacements of it, with lazy expiry and crashes;
467,703 states.  It checks types, the version chain, that a memory says what
its decided proposal said, the refinement of `MemoryLedger`, and what two
overlapping requests can and cannot do to a decision.  `contested` is a history
variable: the proposals whose status one handler wrote while another held it
pending, that is, between its read and its write.  Such an overlap is the only
thing that leaves a memory without an approval or a second memory of one
proposal (`ApprovedUnlessContested`), and once no handler holds a decided
proposal pending its decision is final (`DecisionIsFinal`).

Two runs find what a document promises and the code does not do:

* `memory_race`: an approval and a rejection of one proposal both pass the
  check, and a rejected proposal keeps its memory
  (`MemoryOnlyFromApproval`, `ApprovedUnlessContested` without its condition);
* `memory_versions`: `_assert_no_unresolved_conflict`
  (`context/memory_store.py:156`) returns at the first conflicting row when
  that is the replacement target.  A replacement that has the fact key of its
  target and the text of another current memory is approved, and the fact is
  current twice, against
  `src/docs/projectlens-long-term-memory-development-plan.md:514` and `:518`.
  One handler is enough.

Three more such behaviours are in the model without a run:

* a crash between `DecideWrite` and `DecideRecord` leaves an approved proposal
  with no memory;
* two proposals of one fact that were pending together both become current
  memories, because approval does not scan for conflicts again;
* a read as of an earlier moment asks for status ACTIVE whatever the moment is
  (`context/memory_store.py:238`), so it misses the versions that were replaced
  since, against `src/docs/projectlens-long-term-memory-development-spec.md:582`.

**Bounds.**  Three proposals are a first version and two rivals for its place;
two handlers are what a race takes.  The clock has one tick, after which a
proposal is expired, and ticks only while at most two proposals are known
(`FewWhenLate` in `MCMemoryApproval`): the rivals race at one moment, and
expiry is checked between a version and one replacement.  Callers leave
`valid_from` out (`AtOnce`); the theorems cover every start.

**Proofs.**  `MemoryLedgerProofs` proves that the ledger's version chain is
linear, has no loop, and that what was replaced is retired, if `NoMemory` is
no memory; the absence of loops needs that a memory replaces nothing before it
is recorded.
`MemoryApprovalProofs` proves types, `MemoryFollowsDecision` and the
refinement of the ledger under `LedgerState` and `LedgerReplaces`, for any
number of handlers, proposals and memories.  The inductive invariant is

    Inv == TypeOK /\ HandlersOK /\ OneCreator /\ AbsentIsBlank /\ MemoryFollowsDecision

`HandlersOK` says what a handler in the middle of an operation may rely on
after others have moved (a proposal it read decided is still decided, what it
is about to record was decided so); without it `MemoryFollowsDecision` is not
preserved by the handler's next statement.  `OneCreator` says that a fresh id
belongs to one request.  The assumption is `MemoryAssumption`: markers are not
ids, the bounds are naturals, there is some claim.  `VersionChain` follows
from the refinement and the ledger's theorem.

`OneMemoryPerApproval` and `DecisionsAreFinal` hold for any number of requests
at once and have no hypothesis.  Their invariant is

    OverlapInv == ExpiryIsSeen /\ \A p \in Proposals \ contested : Orderly(p)

`Orderly` says of a proposal that no overlap has touched: who holds it pending
is right about it (`HoldersAreRight`), at most one handler still owes it a
memory (`RecorderIsAlone`), and it has one memory at most, of an approval
(`MemoryIsAlone`).  An expiry is written by a handler that goes on with an
expired copy and so writes no decision after it (`ExpiryIsSeen`).  No theorem
states `ReplacementKeepsOneVersion`, which the code breaks.

## 5. Conversation branches

`ConversationBranches` models `ConversationService`,
`SQLiteConversationStore` and the handlers of `integrations/feishu/service.py`
that use them, for one binding (tenant, chat, user, project).

| Model | Code |
|---|---|
| `store.session`, `store.active` | session rows and the binding's row |
| `turn[t]` | a question: asked on a line, answered in the background, recorded or lost |
| `script` | the store calls the running handler still makes |
| `tool[t]` | a Hermes tool in a worker thread, between its statements |
| `Chat`, `Ask`, `Confirm`, `Edit`, `Stage`, `Fork`, `Switch`, `Delete` | the handlers: what they read, the guards, and the calls that follow |
| `Persist` | `_persist_hermes_turn`: the answer is written to the line it was asked on |
| `Upsert`, `SetActiveSession`, `DeleteRow`, `DeleteBinding`, `ChooseSurvivor`, `ShowBranches` | one store call each |
| `ByBinding`, `Fallback`, `Read` | reads that drop expired rows and repair the binding |
| `ToolLookup`, `ToolRead`, `ToolUnbind`, `ToolSave` | `get_by_binding` statement by statement and the save of `get_citation_body` |

A handler is synchronous code inside an async route, so no other handler runs
before its script is done; a crash may cut the script at any call, and tools
interleave with it.  Any card that was ever shown can be pressed again: `\E s
\in Lines` ranges over all sessions that exist or did.

**Runs.**  `conversation_lines`: three lines and two questions, every order of
asking, confirming twice, editing, forking, switching and deleting.  Three
lines give a parent, a child and a sibling; with two questions one answer
comes back after another was recorded.  It shows that one line is in
progress, that letters are not reused while taken, that a binding with a line
keeps one, and that turns go to the line they were asked on.
`conversation_faults` adds expiry, crashes and tools: whatever is lost, a line
never holds a turn from outside its lineage.  Two lines are enough for a
foreign turn.  `get_citation_body` in a worker thread saves the copy of the
session it read before a turn was recorded, and the turn is gone
(`application/conversation_service.py:1063`, against the comment at line 375,
by which overflowed turns stay retrievable).  The history variable `dropped`
has, for each line, the turns that such saves overwrote; `TurnsAreKept` says
that nothing else loses one: no handler, crash or expiry, whatever tools do
between its calls.

Three more disagreements are in the model without a run.  A crash between the
calls of a fork leaves the binding on the frozen parent, and every message is
refused until a card switches lines.  A tick on an old edit card (`Stage`)
saves the staged edits of a frozen line, though `domain/conversation.py:279`
says that stopped lines refuse writes.  Once the letters are used up, a
numbered label may repeat: with A to Z, branch-27 and branch-28 in use, delete
branch-27 and fork, and there are two branch-28; hence `UniqueLetters` speaks
of letters only.

**Proofs.**  `ConversationBranchesProofs` holds for any number of lines,
letters, questions and ticks.  A handler reads a row, and what it saves later
is a copy of it: in the script, or in the hands of a tool.  The invariant

    Inv == Types /\ RowsFit(store, turn) /\ ScriptFits /\ ToolsFit

says of every copy what it says of the rows: its turns were asked on the line
or on a line it descends from (`Descends`), and the letter and the parent are
those the line was created with (`Kin`), so that a stale copy changes no
lineage.  `Lineage` is the least set closed under the parent, which needs no
recursion to be stated.  `Typed` and `TurnsAreOfTheLine` follow, with no
hypothesis about faults or expiry.

`RecordedTurnsStay` has none either.  Of the saves a handler has still to make
it says that each has the turns of its line, but for those a tool dropped, and
the turns of the saves before it (`Spared`); and of the copy in the hands of a
tool, that it has no turn its line has lost otherwise (`CopyFits`).

The other four properties are about what a script will do undisturbed by tools.
`Works(d, tn, w)` says of the calls `w` still to be made on the store `d` that a
save keeps the turns of its line and of the saves before it (`Kept`), that a
turn which is new to an existing line was asked there, and all calls up to that
save are on this line, bound or bindable (`Going`), and that a removal comes
first and leaves another line (`Removing`).  Each handler starts a script of one
of four shapes (`Starts`), each shape works, and what works still works after
its first call (`RestWorks`).  That gives `LateAnswersStayOut` and
`ALineRemains`.  `LinesInv` adds that the script settles: it holds on to an
open line and binds it if it is not bound yet (`Holds`), or it is the rest of a
deletion that leaves a line (`Clears`), and that it creates a line only under a
free name (`Lettered`).  That gives `OneLineIsInProgress` and
`LettersAreUnique`.

The hypotheses say which disturbances are out, and each is needed:

* `"tool" \notin Faults`, all four: the tool that saves an old copy writes to a
  line that was left, and its `ToolUnbind` may drop a binding in the middle of
  a script;
* `MaxTime <= TTL`, the last three: a clock that never passes `session_ttl`
  drops no line.  The last line may expire; when the active one expires, its
  siblings may all be stopped, and a new root takes the letter A again;
* `Faults = {}`, the last two: a crash inside a fork leaves the frozen parent
  bound, and one inside a deletion leaves a binding to nothing, beside which a
  new root is called A.

**Bounds.**  `Letters` is 2 instead of 26, so that the numbered labels occur
with few lines.  `MaxLines` bounds the session ids, `MaxTime` the clock,
`TTL` is one tick where expiry matters and the clock stands still where it
does not.  `OneLineInProgress` and `UniqueLetters` are checked without expiry:
when the active line expires and its siblings live, a new root is opened that
is called "A" whatever the siblings are called.

## 6. Risks

`RiskFeedback` models one risk in `RiskEngine`, `RiskFeedbackService` and
`RiskNotificationService`.

| Model | Code |
|---|---|
| `risk` | the row of `risk_findings`: state and evidence signature |
| `feedback`, `claims` | the tables `risk_feedback` and `risk_notifications` |
| `delivered`, `doubtful`, `lost` | history: how often a message arrived (never, once, more often), the messages whose messenger was in doubt, and claims whose job died with the process |
| `job[j]` | a callback or dispatch between two statements or at an await |
| `ScanFinds`, `ScanMisses` | `RiskEngine.scan` with and without the finding |
| `Submit`, `Apply` | `RiskFeedbackService.submit`: the row, then the transition |
| `RequestHelp` | `request_help` / `escalate_to_group` in the background |
| `DispatchImmediate`, `DispatchDue`, `Reopen`, `NextRecipient` | the two dispatches: marker, reopening, one claim for each recipient |
| `SendSucceeds`, `SendFails`, `Restore`, `Unmark`, `Release` | the answer of the messenger and the clean-up after a failure, statement by statement |
| `Arrives`, `ArrivesInDoubt` | `HttpFeishuMessenger._post_sync`: one request that arrives, or requests that arrive and end in an error or a lost answer |

Everything is on one event loop: a job yields only at `await` (pc "await") or
while it waits in the background ("queued"), which `LoopIsFree` expresses.

**Runs.**  `risk_decisions`: no failures; an owner's decision is undone only
by later feedback or because the evidence is gone, and a sleeping risk can be
woken.  `risk_failures`: with sends that fail and crashes anywhere, no message
goes out twice unless the messenger was in doubt about it; a claim belongs to
a message that was delivered, is under way or is about to be given back, except
for what was under way in a crash (`lost`); and a due snooze counts as handled
only when every owner was told.

A send can fail although the card arrived.  The messenger
(`integrations/feishu/http_adapter.py:147`) posts again after an error of the
server, and raises when its retries are used up or the answer to a request is
lost; Feishu may have accepted any of these requests, and the request has no
key by which it could tell.  `_post_sync` may thus deliver twice, and after it
raised the service gives the claim back and the next dispatch sends once more.
`SendSucceeds` and `SendFails` both have this outcome: the message is put in
`doubtful` and counted as arrived more than once.  So "reopens and reminds
once" (`src/docs/projectlens-change-log.md:176`) does not hold for such a
message; `RemindedOnce` shows that it holds for all others: the claims, their
release and the markers never repeat one.
`risk_asleep` finds that the restoration after a failed reminder overwrites
what an owner decided while the send was awaited, and that the risk then
sleeps for good.

**Bounds.**  Two jobs and two owners: the hazards are a second dispatch, and a
failure after a first recipient was told.  Two feedback rows: a snooze and a
decision or a second snooze on top.  Evidence changes once in
`risk_decisions`.  The clock passes one snooze, there two.
Ids of feedback are positions in the table, as the code takes the latest row.

**Proof.**  `RiskFeedbackProofs` proves `RemindedOnce` and `TypeOK` for any
number of jobs, owners, signatures and feedback rows, with failures, messages
in doubt and crashes, from `RiskAssumption` (there is a signature; the group, the owners
and the marker's recipient are different).  `RemindedOnce` is not inductive:
that a message waiting at the messenger was not delivered depends on who holds
its claim.  The invariant

    IInv == TypeOK /\ JobsOK /\ ClaimHeld /\ OneHolder /\ DeliveredOnce

says that a job at or after its await holds a claim, which no other job holds,
for a message not delivered so far or in doubt (`ClaimHeld`, `OneHolder`), that
a delivered message without doubt keeps its claim (`DeliveredOnce`), and that a
job's step fits its kind (`JobsOK`).  Three lemmas cover the ways a claim is
treated (kept, taken, finished with); each action is an instance of one, except
`Unmark`, which removes a marker: no message, so no holder's claim.

`RiskReminderProofs` proves the other four on top of it.  `ClaimsAreDelivered`
and `RemindersReachEveryOwner` hold with failing sends and crashes, from

    RemindInv == OneAtLoop /\ KeyFits /\ Accounted /\ Reminders

At most one job is between two awaits (`OneAtLoop`), a claim not delivered has
a job that holds it (`Accounted`), and of the jobs that remind, at most one
reminds of a snooze, because its marker stays claimed until that job is about
to end (`DueMarked`, `OneDue`).  Hence whoever it has passed over was told, or
was being told when the process died (`Told`): a claim it finds taken is nobody
else's (`KeyFits`).  `DecisionsStand` assumes that no send fails: `Restore`
writes "snoozed" over whatever was decided meanwhile.  `SleepersCanBeWoken`
assumes that there are no faults at all: `risk_asleep` is what a failed send
does, and a crash between the feedback row and the transition leaves a snooze
asleep under feedback that is none.

## 7. From a press to an answer

`QuestionDelivery` follows a confirm press from the Feishu callback
(`integrations/feishu/service.py`) through `application/hermes_runtime.py`,
`integrations/feishu/hermes_loop_runner.py` and `application/run_service.py`
to the posted answer and the recorded turn.  `AnswerPromise` says what the user
is promised, without runs, threads, stores or messages.

| Model | Code |
|---|---|
| `seen` | `feishu_events`: an id is inserted before anything is done about it |
| `run`, `log`, `episode` | the run row, `agent_events`, the run as the history store has it |
| `task[p]` | where the background task of a press stands; lost when the process dies |
| `evidence`, `result` | what the runner holds: a tool result with citations, and what it handed back |
| `chat`, `turn` | the messages attempted, and whether the session got its turn |
| `DeliverAgain`, `Refuse`, `Accept`, `AcceptRaises`, `AcceptDies` | the handler, whole, cut where a store call raises or the process dies |
| `Converse`, `Recover`, `Parse`, `Repair` | the rounds of `HermesLoopRunner.run` in a worker thread |
| `Complete`, `CompleteAsFailed`, `CompleteFails`, `CompleteDies` | `execute_prepared`: `complete_external` writes row, event and episode; its except branch does so again |
| `Reply`, `ReplyUnexpected`, `Record` | the reply, a notice when posting raises, and `record_turn` |
| `Crash` | the process dies while tasks wait |

**Run** `questions`: two presses, each delivered up to twice, two faults, one
death of the process; 168,333 states.  Two faults are what it takes to have a
completion raise and the second completion raise too; the presses share nothing
but the process, so two show that one does not take the other along except in
a crash.  It shows that an answer that was shown is the one all three stores
keep, that nothing is completed without evidence, that a redelivered callback
never asks again, that every run ends, and that each step keeps the promise.

**Fairness.**  `WF_vars(Work(p))` for each press: the event loop and the thread
pool run what is ready, and the Hermes agent is called with a bound on its
iterations.  `Callback`, `CompleteDies` and `Crash` have none: nothing is
assumed of Feishu or of failures.  A model call that never returns is outside
this assumption: there is no timeout around the thread
(`integrations/feishu/hermes_tool_loop.py:414`), and the run then stays
accepted and the chat silent.

A press that is refused, that raises or that dies in the handler is `lost` in
the promise: its id stays marked, so a redelivery does nothing.

**Proofs.**  `QuestionDeliveryProofs` proves types, `ShownIsKept`,
`AnswersAreGrounded`, `NeverAskedTwice` and that the delivery implements
`AnswerPromise!SafeSpec`, for any number of presses, deliveries, faults and
crashes, from `Bounds` (the three bounds are naturals).  The invariant

    IInv == TypeOK /\ \A p \in Presses : Sound(p)

says for each stage of the task what the stores, the thread and the chat hold:
nothing is written before the runner has settled (`Unwritten`), nothing said
before the reply (`Spoken`), evidence wherever a completed run can still come
of it (`Grounded`), and the result about to be posted is the stored one
(`Agreed`).  None of the properties is inductive without it: that a shown
answer is kept depends on the second completion never following a reply.
Only model-checked: `EveryRunEnds` and the liveness part of `KeepsPromise`.

## 8. The preview of a question

`ContextPreview` models one line between two questions: the pool of turns, the
citations, and the pending set of the preview card.

| Model | Code |
|---|---|
| `turns`, `recent`, `cycle` | turns recorded, those kept verbatim, those of the last compression |
| `ledger` | the citations of the session, of turns and of group messages |
| `pending`, `window`, `stage` | the pending set, the date window, what is ticked on the edit card |
| `script` | the saves the running handler still makes |
| `flight` | questions sent and not answered yet |
| `Ask`, `DirectAnswer`, `AskSyncStatus`, `AnswerBack` | messages, the answer button, and `record_turn` with its compression |
| `ExcludeItem` .. `ConfirmDateWindow` | the buttons of any card still in the chat |
| `DoExclude` .. `DoClear` | one save each |
| `Crash` | the process dies between two saves or with answers under way |

A handler runs whole on the event loop, so buttons and answers do not
interleave with its saves; the process may die between them.  Days are the
numbers of turns.  The order of the items is restored at each save, so a set is
enough.

**Run** `preview`: five turns, two kept verbatim and compressed two at a time
(the code keeps eight and compresses four), so that the fifth turn starts the
second compression; three presses, which allow two ticks and a confirmation;
one group message; one day for the date picker; one crash; 2.88 million
states.  `RemovedStaysOut` is stated while the date window is left alone: a
picked date or its confirmation builds the set anew and brings back what was
taken off, against
`src/docs/projectlens-context-manager-development-plan.md:191` "从预览去掉的条目，
本次不得发送".  In the model, without a property of their own:

* a preview is never dropped (`clear_pending_send` has no caller), so "answer
  now" works again, and an old card sends the newest set;
* citations and ticks of one question carry over to the preview of the next;
* an answer that comes back does not refresh the pending set, and clears the
  ticks on the edit card.

**Proofs.**  `ContextPreviewProofs` proves types, `PoolIsContiguous`,
`EveryTurnIsCited` and `OneCitationPerMessage` for any limits and any number of
turns, buttons and crashes, from `PreviewAssumption`.  The invariant

    IInv == Shaped /\ Contiguous /\ Places /\ NextCites

adds the places of the citations on the ledger (`Places`) and what the saves
still to come may cite (`NextCites`): that a message is cited once depends on a
citation being the first save of its script.

    PreviewInv == OutStaysOut /\ WindowInv /\ TickInv

gives the other three, for all constants and with crashes.  `WindowInv`: a
changed window is followed by the save that builds the set anew, and after that
every save adds items of the window only (`WindowHolds` speaks of the time
before a crash, which may come between those two).  `TickInv` follows a
confirmation through its four saves, which remove, restore, join and clear: at
each of them what was ticked and is already done stays done, since the saves
that follow only add what was ticked, and no other button can tick before the
last one.  `OutStaysOut`: until a date window builds the set anew, what was
removed is not in it.

## 9. Sources, the search and reviews

`SourceSync` models `ConnectorSyncService.sync_connector` with
`apply_sync_batch`, the record store, the evidence index, the review queue, and
the proposals and approvals of memories that cite a source.

| Model | Code |
|---|---|
| `feed`, `whole` | the rows of the source system; whether a read returns what is there now (GitHub) or the rows after a cursor |
| `cursor` | `connector_sync_states` |
| `record`, `index` | the table `source_records`, and the index in memory |
| `memory`, `review` | memories with the revision they cite, `memory_reviews` |
| `work[w]` | a running sync: what it read, its batch, what it stored and has not indexed |
| `taken`, `shadowed`, `alone`, `crashed` | history, for the properties |
| `Start`, `Attempt`, `Fetch`, `FetchFails` | last state, attempt saved, `connector.sync`, failure saved |
| `ReadPrior`, `Look`, `Insert`, `AddMany`, `RevokeIndexed`, `RevokeStored` | prior revisions, `put` in two statements for each row, `add_many`, both revocations |
| `Save`, `ReviewRevised`, `ReviewGone` | the success with its cursor, then the reviews, one row at a time |
| `Propose`, `Approve`, `Resolve` | routes on the thread pool |
| `Publish`, `Withdraw`, `Crash` | outside: the source system, the operating system |

Syncs are started by routes on the event loop and by a Hermes tool in a worker
thread, so they interleave at every statement.  A batch is a set of rows worked
through in order; `Onward` gives the stage that follows.

**Runs.**  `sync`: two syncs, three rows of one source, one memory, one crash;
3,668,266 states, with the two workers symmetric.  Three rows are a revision, its
withdrawal and a new revision, or three revisions in one batch or several.
`TakenIsApplied` says that nothing behind the cursor is left to do, although
cursors are written from stale reads.  `SearchAgreesWithRecords` is stated
while no two syncs overlapped and the process lives: overlapping syncs may
index what the other has just revoked, and after a restart the index is empty
and nothing rebuilds it.  `OutdatedIsReviewed` is stated for runs without a
crash, or for a connector that reads everything again: a crash between the
cursor and the reviews loses them.  Rows that were read behind another row of
their source (`shadowed`) are left out of `TakenIsApplied`; `sync_rows` shows
why: `_record_for` takes the first record of the batch with the source id, so
the second of two revisions is dropped and the cursor passes it.

In the model or beside it, without a property:

* additions are applied before withdrawals, whatever their order in the batch,
  so a source that is withdrawn and published again in one batch ends revoked;
* a source withdrawn a second time opens no review, because both withdrawals
  have one trigger key;
* approval does not look at the cited sources again, against
  `src/docs/projectlens-long-term-memory-development-spec.md:657`; such a memory is
  not reviewed until the next change (`after` in `memory`);
* a document with no text ends the loop over the documents
  (`application/feishu_doc_sync.py:146`), against
  `src/docs/projectlens-pilot-development-spec.md:162` "单个来源失败不阻塞其他来源同步";
* after the last page of a table the Bitable connector saves a count of rows,
  which the next sync sends as a page token
  (`context/connectors/feishu_bitable.py:110`).

**Proofs.**  `SourceSyncProofs` proves all six properties of `sync` for any number of
overlapping syncs, sources, memories and rows, from `SyncAssumption` (the bound
on rows is a natural).  The invariant

    IInv == Shaped /\ AllApplied /\ Searchable /\ Grounded /\ Looked /\ Reviewed

has a part for each argument.  `AllApplied`: the cursor a sync started from was
applied, and so is what lies behind it in its batch; hence any cursor it writes
is, however stale.  `Searchable`: what the index lacks at each stage, while one
sync runs.  `Grounded` and `Looked`: a cited revision is stored, so it was
among the prior revisions the sync has read, unless the memory was approved
later and knows of the batch.  `Reviewed`: a review that is missing is in the
hands of a running sync.  Each part has a lemma for each stage.

## 10. What the results rest on

*Fairness.*  `QuestionDelivery` alone assumes any (section 7).  Elsewhere no
liveness is stated: nothing in `src` calls `dispatch_immediate`,
`dispatch_due_snoozes` or `scan_risks` (only tests do), no sweep expires
proposals or sessions, and syncs are started by users, so fairness of those
steps would be invented.  Deadlock is checked where something can always
happen; the memory, question and preview runs switch it off, since ids, the
clock, deliveries and presses are used up.

*History variables* (`contested`, `dropped`, `delivered`, `doubtful`, `lost`,
and `taken`, `shadowed`, `alone` of the sync) are read by properties only: no
guard and no other variable depends on them, so they change nothing that the
program can do.  `crashed` of the sync also allows one crash at most.

*Proved and checked.*  Theorems hold for every value of the constants under
the named assumptions; the runs show the same properties on small instances,
and the others only there.  Out of the prover's reach are liveness, `ENABLED`,
recursive operators and induction over data; of the properties here that leaves
`EveryRunEnds` and the liveness part of `KeepsPromise` to the questions run.
Where a theorem has a hypothesis about faults, it names the disturbance
under which the code breaks the property; the runs and the sections above say
how.

*Symmetry* is over handlers, ids of proposals and memories, questions, jobs,
owners and syncs, which the specifications only compare.  The questions run
checks liveness and uses none.

*Not modelled*: the other rows of section 2, with the reasons in
`PROJECT.json`.  Most of the code is of kinds that have no state a step could
break: card layout and rendering (`integrations/feishu/cards.py`), parsing and
wiring of routes, prompts and read-only tools of the agent, ranking of
evidence, evaluation of recorded answers, graph and wiki building, reading and
writing Obsidian notes.  They are the larger part of the source, which is why
the modules stand for a small share of its lines.  `runtime/loop.py` is driven
by tests only.  Within the modelled parts: the memory summary cache and
full-text index, operations with no caller (`mark_needs_review`,
`submit_consolidated_episodes`, `get_memory_summary`), the text of turns and
summaries, the severity of risks, the daily digest and the audit events, the
routing of group messages and commands, documents synchronised by token, and
reviews by revoked evidence or a due date.

*Other hazards met while reading, with no property:* an answer that was posted
is not recorded when its line was frozen meanwhile
(`integrations/feishu/service.py:1766`); two decisions of one approval both read
it pending (`persistence/sqlite.py:246`, `:292`); the review key of a risk brief is
claimed before the brief is emitted (`application/hermes_risk_scheduler.py:39`); the request
context is reset before the recovery conversation runs its tools
(`integrations/feishu/hermes_loop_runner.py:184`); the date picker's time zone
is cut off (`integrations/feishu/service.py:1969`); a document whose revision is
stored is skipped although it was never indexed
(`application/feishu_doc_sync.py:102`); a question may walk the index while
another thread adds to it (`context/store.py:57`).
