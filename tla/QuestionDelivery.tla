-------------------------- MODULE QuestionDelivery --------------------------
(* One question from the confirm button of a preview card to the answer in
   the chat: the Feishu callback with its event id, the run that is created
   for it, the Hermes conversation in a worker thread, the completion of the
   run, the reply, and the turn in the session.

   Code: integrations/feishu/service.py (callback, reply, bookkeeping),
   application/hermes_runtime.py (prepare, execute_prepared),
   integrations/feishu/hermes_loop_runner.py (conversation, recovery, repair),
   integrations/feishu/hermes_tool_loop.py (thread, audit events),
   application/run_service.py (run rows, events, episodes).

   The callback handler has no await: it runs whole on the event loop.  The
   background task yields only while its thread runs and while a message is
   posted.  Everything between two such points is one action, and the store
   calls inside it are cut where a store call raises or the process dies. *)
EXTENDS Naturals, Sequences, FiniteSets

CONSTANTS
  Presses,          \* confirm presses; each has its callback event id
  MaxDeliveries,    \* bound: how often one callback is delivered
  MaxFaults,        \* bound: store calls that raise
  MaxCrashes        \* bound: deaths of the process

ASSUME Bounds == /\ MaxDeliveries \in Nat
                 /\ MaxFaults \in Nat
                 /\ MaxCrashes \in Nat

VARIABLES
  delivered,    \* deliveries of each callback so far
  seen,         \* feishu_events: the ids marked seen (durable)
  run,          \* status of the run row of each press (durable)
  log,          \* agent_events of each run (durable)
  episode,      \* the run as the history store last saw it (durable)
  task,         \* where the background task of each press stands (volatile)
  evidence,     \* a tool result with citations is among the messages
  result,       \* what the runner handed back
  chat,         \* messages about the press that were attempted, in order
  turn,         \* the session got a turn for the press (durable)
  faults, crashes

vars == <<delivered, seen, run, log, episode, task, evidence, result, chat,
          turn, faults, crashes>>
thread == <<evidence, result>>
stored == <<run, log, episode>>
budget == <<faults, crashes>>

RunStatus == {"accepted", "completed", "failed"}
Stages == {"none", "queued", "asking", "recovering", "parsing", "repairing",
           "settled", "replying", "unexpected", "recording", "finished", "lost"}
InFlight == Stages \ {"none", "finished", "lost"}
Results == {"none", "answer", "failure", "raised"}
Messages == {"answer", "failure", "notice", "unexpected"}

At(p, stage) == task[p] = stage
Goto(p, stage) == task' = [task EXCEPT ![p] = stage]

(* A death of the process takes every task in memory with it. *)
Died(t) == [p \in Presses |-> IF t[p] \in InFlight THEN "lost" ELSE t[p]]

Init ==
  /\ delivered = [p \in Presses |-> 0]
  /\ seen = {}
  /\ run = [p \in Presses |-> "none"]
  /\ log = [p \in Presses |-> <<>>]
  /\ episode = [p \in Presses |-> "none"]
  /\ task = [p \in Presses |-> "none"]
  /\ evidence = [p \in Presses |-> FALSE]
  /\ result = [p \in Presses |-> "none"]
  /\ chat = [p \in Presses |-> <<>>]
  /\ turn = [p \in Presses |-> FALSE]
  /\ faults = 0 /\ crashes = 0

-----------------------------------------------------------------------------
(* The callback *)

Arrives(p) == /\ delivered[p] < MaxDeliveries
              /\ delivered' = [delivered EXCEPT ![p] = @ + 1]

(* Mutant: the id is stored, and nobody looks whether it was new. *)
MarkSeenTwice(p) == seen' = seen \cup {p}

(* An INSERT OR IGNORE on the event id: only the first one goes on. *)
MarkSeen(p) == p \notin seen /\ seen' = seen \cup {p}

(* A callback whose id is known is answered "duplicate". *)
DeliverAgain(p) ==
  /\ Arrives(p)
  /\ p \in seen
  /\ UNCHANGED <<seen, stored, task, thread, chat, turn, budget>>

(* Preview gone, line frozen, access denied, empty question: an error
   response.  The id stays marked, and nothing else happens. *)
Refuse(p) ==
  /\ Arrives(p) /\ MarkSeen(p)
  /\ UNCHANGED <<stored, task, thread, chat, turn, budget>>

(* RunService.create: the row, a lifecycle event in memory, the episode. *)
CreateRun(p, rows) ==
  /\ run' = IF "row" \in rows THEN [run EXCEPT ![p] = "accepted"] ELSE run
  /\ episode' = IF "episode" \in rows THEN [episode EXCEPT ![p] = "accepted"]
                                      ELSE episode
  /\ UNCHANGED log

(* The press is accepted: the run is created and the task handed to the
   event loop. *)
Accept(p) ==
  /\ Arrives(p) /\ MarkSeen(p)
  /\ CreateRun(p, {"row", "episode"})
  /\ Goto(p, "queued")
  /\ UNCHANGED <<thread, chat, turn, budget>>

(* A store call of the creation raises: the response is an error, the run row
   may exist, the episode too when an index write after it raised, and no task
   will ever work on the run. *)
AcceptRaises(p) ==
  /\ faults < MaxFaults
  /\ Arrives(p) /\ MarkSeen(p)
  /\ \E rows \in {{}, {"row"}, {"row", "episode"}} : CreateRun(p, rows)
  /\ faults' = faults + 1
  /\ UNCHANGED <<task, thread, chat, turn, crashes>>

(* The process dies in the handler, after any of its store calls. *)
AcceptDies(p) ==
  /\ crashes < MaxCrashes
  /\ Arrives(p) /\ MarkSeen(p)
  /\ \E rows \in {{}, {"row"}, {"row", "episode"}} : CreateRun(p, rows)
  /\ task' = Died([task EXCEPT ![p] = "queued"])
  /\ crashes' = crashes + 1
  /\ UNCHANGED <<thread, chat, turn, faults>>

-----------------------------------------------------------------------------
(* The Hermes conversation, in a worker thread *)

(* asyncio.to_thread(runner.run). *)
Start(p) ==
  /\ At(p, "queued")
  /\ Goto(p, "asking")
  /\ UNCHANGED <<delivered, seen, stored, thread, chat, turn, budget>>

Handed(p, r) ==
  /\ Goto(p, "settled")
  /\ result' = [result EXCEPT ![p] = r]

(* The conversation needs a second round when no tool result can be cited or
   there is no text. *)
NeedsRecovery(cited, text) == ~cited \/ ~text

(* The first conversation: it fails, or it ends with or without citations
   and text. *)
Converse(p) ==
  /\ At(p, "asking")
  /\ \/ Handed(p, "failure") /\ UNCHANGED evidence
     \/ \E cited, text \in BOOLEAN :
          /\ evidence' = [evidence EXCEPT ![p] = cited]
          /\ Goto(p, IF NeedsRecovery(cited, text) THEN "recovering" ELSE "parsing")
          /\ UNCHANGED result
  /\ UNCHANGED <<delivered, seen, stored, chat, turn, budget>>

(* Mutant: whatever the second round found is taken for an answer. *)
RecoverUnchecked(p) ==
  /\ At(p, "recovering")
  /\ \E cited \in BOOLEAN : evidence' = [evidence EXCEPT ![p] = @ \/ cited]
  /\ Goto(p, "parsing")
  /\ UNCHANGED <<delivered, seen, stored, result, chat, turn, budget>>

(* Mutant: a round without citations is followed by one more, and so on. *)
RecoverForEver(p) ==
  /\ At(p, "recovering")
  /\ \E cited \in BOOLEAN :
       /\ evidence' = [evidence EXCEPT ![p] = @ \/ cited]
       /\ Goto(p, IF evidence'[p] THEN "parsing" ELSE "asking")
  /\ UNCHANGED <<delivered, seen, stored, result, chat, turn, budget>>

(* One more conversation, whose messages are appended to the first ones.
   Without a citation after it there is no answer. *)
Recover(p) ==
  /\ At(p, "recovering")
  /\ \/ Handed(p, "failure") /\ UNCHANGED evidence
     \/ \E cited \in BOOLEAN :
          /\ evidence' = [evidence EXCEPT ![p] = @ \/ cited]
          /\ IF evidence'[p] THEN Goto(p, "parsing") /\ UNCHANGED result
                             ELSE Handed(p, "failure")
  /\ UNCHANGED <<delivered, seen, stored, chat, turn, budget>>

(* The final text is a structured draft, or Hermes is asked once to reformat
   it.  Verification of the draft may raise in the thread. *)
Parse(p) ==
  /\ At(p, "parsing")
  /\ \/ \E r \in {"answer", "raised"} : Handed(p, r)
     \/ Goto(p, "repairing") /\ UNCHANGED result
  /\ UNCHANGED <<delivered, seen, stored, evidence, chat, turn, budget>>

(* With or without a repaired draft there is one: plain text is parsed as a
   last resort. *)
Repair(p) ==
  /\ At(p, "repairing")
  /\ \E r \in {"answer", "raised"} : Handed(p, r)
  /\ UNCHANGED <<delivered, seen, stored, evidence, chat, turn, budget>>

-----------------------------------------------------------------------------
(* Completion of the run *)

Stored(p) == [run |-> run[p], log |-> log[p], episode |-> episode[p]]
Store(p, s) == /\ run' = [run EXCEPT ![p] = s.run]
               /\ log' = [log EXCEPT ![p] = s.log]
               /\ episode' = [episode EXCEPT ![p] = s.episode]

(* The tool events of the loop and "answer composed". *)
Audited(s) == [s EXCEPT !.log = Append(@, "tools")]

(* The first n of the three writes of complete_external: row, event, episode.
   It does not look at the status it overwrites. *)
Completed(s, status, n) ==
  [run |-> IF n >= 1 THEN status ELSE s.run,
   log |-> IF n >= 2 THEN Append(s.log, status) ELSE s.log,
   episode |-> IF n >= 3 THEN status ELSE s.episode]

(* Mutant: the status of the run is what the runner handed back. *)
StatusOfRaw(r) == r

StatusOf(r) == IF r = "answer" THEN "completed" ELSE "failed"

(* What the stores can hold when the runner or one of the store calls after it
   has raised: nothing new, or the writes up to the one that raised (all three
   when it was an index write after the episode). *)
AfterRaise(p) ==
  {Stored(p)} \cup
  IF result[p] = "raised" THEN {}
  ELSE {Completed(Audited(Stored(p)), StatusOf(result[p]), n) : n \in 0..3}

RaiseCost(p) == IF result[p] = "raised" THEN 0 ELSE 1

Complete(p) ==
  /\ At(p, "settled")
  /\ result[p] # "raised"
  /\ Store(p, Completed(Audited(Stored(p)), StatusOf(result[p]), 3))
  /\ Goto(p, "replying")
  /\ UNCHANGED <<delivered, seen, thread, chat, turn, budget>>

(* Mutant: the except branch forgets to replace the result. *)
CompleteKeepingResult(p) ==
  /\ At(p, "settled")
  /\ result[p] # "raised"
  /\ faults < MaxFaults
  /\ \E s \in AfterRaise(p) : Store(p, Completed(s, "failed", 3))
  /\ Goto(p, "replying")
  /\ faults' = faults + 1
  /\ UNCHANGED <<delivered, seen, thread, chat, turn, crashes>>

(* The except branch of execute_prepared: the run is completed once more, as
   failed, whatever the first completion has written. *)
CompleteAsFailed(p) ==
  /\ At(p, "settled")
  /\ faults + RaiseCost(p) <= MaxFaults
  /\ \E s \in AfterRaise(p) : Store(p, Completed(s, "failed", 3))
  /\ result' = [result EXCEPT ![p] = "failure"]
  /\ Goto(p, "replying")
  /\ faults' = faults + RaiseCost(p)
  /\ UNCHANGED <<delivered, seen, evidence, chat, turn, crashes>>

(* That completion raises as well. *)
CompleteFails(p) ==
  /\ At(p, "settled")
  /\ faults + RaiseCost(p) < MaxFaults
  /\ \E s \in AfterRaise(p), n \in 0..3 : Store(p, Completed(s, "failed", n))
  /\ Goto(p, "unexpected")
  /\ faults' = faults + RaiseCost(p) + 1
  /\ UNCHANGED <<delivered, seen, thread, chat, turn, crashes>>

(* The process dies between two writes of the first completion or, after a
   raise, of the second. *)
CompleteDies(p) ==
  /\ At(p, "settled")
  /\ crashes < MaxCrashes
  /\ \E s \in AfterRaise(p) :
       \/ Store(p, s) /\ UNCHANGED faults
       \/ /\ faults + RaiseCost(p) <= MaxFaults
          /\ faults' = faults + RaiseCost(p)
          /\ \E n \in 1..3 : Store(p, Completed(s, "failed", n))
  /\ task' = Died(task)
  /\ crashes' = crashes + 1
  /\ UNCHANGED <<delivered, seen, thread, chat, turn>>

-----------------------------------------------------------------------------
(* The reply and the session *)

Post(p, messages) == chat' = [chat EXCEPT ![p] = @ \o messages]

(* The answer or the reason of the failure is posted first.  When that raises,
   delivered or not, a notice of the failed delivery is tried. *)
Reply(p) ==
  /\ At(p, "replying")
  /\ \E notice \in {<<>>, <<"notice">>} : Post(p, <<result[p]>> \o notice)
  /\ Goto(p, "recording")
  /\ UNCHANGED <<delivered, seen, stored, thread, turn, budget>>

(* Mutant: the exception ends the background task without a word. *)
ReplyNothing(p) ==
  /\ At(p, "unexpected")
  /\ Goto(p, "finished")
  /\ UNCHANGED <<delivered, seen, stored, thread, chat, turn, budget>>

(* execute_prepared itself raised: one message, and no turn. *)
ReplyUnexpected(p) ==
  /\ At(p, "unexpected")
  /\ Post(p, <<"unexpected">>)
  /\ Goto(p, "finished")
  /\ UNCHANGED <<delivered, seen, stored, thread, turn, budget>>

(* The turn is recorded, unless the line was frozen or removed meanwhile: then
   record_turn raises, which is logged. *)
Record(p) ==
  /\ At(p, "recording")
  /\ \E kept \in BOOLEAN : turn' = [turn EXCEPT ![p] = kept]
  /\ Goto(p, "finished")
  /\ UNCHANGED <<delivered, seen, stored, thread, chat, budget>>

(* The process dies while its tasks wait for a thread or for the network. *)
Crash ==
  /\ crashes < MaxCrashes
  /\ \E p \in Presses : task[p] \in InFlight
  /\ task' = Died(task)
  /\ crashes' = crashes + 1
  /\ UNCHANGED <<delivered, seen, stored, thread, chat, turn, faults>>

Callback(p) == \/ DeliverAgain(p) \/ Refuse(p) \/ Accept(p)
               \/ AcceptRaises(p) \/ AcceptDies(p)

(* The steps of the background task itself. *)
Work(p) == \/ Start(p) \/ Converse(p) \/ Recover(p) \/ Parse(p) \/ Repair(p)
           \/ Complete(p) \/ CompleteAsFailed(p) \/ CompleteFails(p)
           \/ Reply(p) \/ ReplyUnexpected(p) \/ Record(p)

Next == \/ \E p \in Presses : Callback(p) \/ Work(p) \/ CompleteDies(p)
        \/ Crash

SafeSpec == Init /\ [][Next]_vars

(* The event loop and the thread pool run what is ready, and the Hermes agent
   returns: it is called with a bound on its iterations, and the code has no
   unbounded loop around it.  Nothing is assumed of Feishu or of crashes. *)
Spec == SafeSpec /\ \A p \in Presses : WF_vars(Work(p))

-----------------------------------------------------------------------------
TypeOK ==
  /\ delivered \in [Presses -> 0..MaxDeliveries]
  /\ seen \subseteq Presses
  /\ run \in [Presses -> RunStatus \cup {"none"}]
  /\ log \in [Presses -> Seq({"tools", "completed", "failed"})]
  /\ episode \in [Presses -> RunStatus \cup {"none"}]
  /\ task \in [Presses -> Stages]
  /\ evidence \in [Presses -> BOOLEAN]
  /\ result \in [Presses -> Results]
  /\ chat \in [Presses -> Seq(Messages)]
  /\ turn \in [Presses -> BOOLEAN]
  /\ faults \in 0..MaxFaults
  /\ crashes \in 0..MaxCrashes

Said(p, m) == m \in {chat[p][i] : i \in DOMAIN chat[p]}

(* An answer that was shown in the chat is the one the stores keep: whatever
   store call raised and whenever the process died, the run row, the episode
   and the event log (with one terminal event) all say completed.  About the
   order row / event / episode / reply and the second completion in the except
   branch (hermes_runtime.py, run_service.py). *)
ShownIsKept ==
  \A p \in Presses : Said(p, "answer") =>
    /\ run[p] = "completed"
    /\ episode[p] = "completed"
    /\ log[p] = <<"tools", "completed">>

(* No answer without project evidence: a run can be completed only after a
   tool result with citations, over the first conversation, the recovery round
   and the reformatting round (hermes_loop_runner.py). *)
AnswersAreGrounded ==
  \A p \in Presses : run[p] = "completed" => evidence[p]

(* A callback that is delivered again, also after a restart, never starts the
   question again: what is settled stays settled, and a task that was lost
   stays lost (mark_seen before any work, service.py). *)
NeverAskedTwice ==
  [][\A p \in Presses : task[p] \in {"finished", "lost"} =>
       task'[p] = task[p] /\ chat'[p] = chat[p] /\ log'[p] = log[p]]_vars

(* Every run that is created comes to an end, if no store call has raised and
   the process has not died while it was in flight. *)
Ended(p) == run[p] \in {"completed", "failed"}
EveryRunEnds ==
  \A p \in Presses :
    run[p] = "accepted" ~> (Ended(p) \/ task[p] = "lost" \/ faults > 0)

(* The promise to the user. *)
Outcome(p) ==
  IF Said(p, "answer") THEN "answered"
  ELSE IF chat[p] # <<>> THEN "told"
  ELSE IF task[p] = "lost" \/ (p \in seen /\ task[p] = "none") THEN "lost"
  ELSE IF task[p] = "none" THEN "unasked"
  ELSE "open"

Promise == INSTANCE AnswerPromise WITH outcome <- [p \in Presses |-> Outcome(p)]

(* Every step of the delivery is a step of the promise or none, and no press
   stays open for ever. *)
KeepsPromise == Promise!Spec
=============================================================================
