----------------------- MODULE QuestionDeliveryProofs -----------------------
(* Theorems about QuestionDelivery, for any number of presses, deliveries,
   faults and crashes.  The inductive invariant says what each stage of the
   background task implies about the stores, the thread and the chat. *)
EXTENDS QuestionDelivery, SequenceTheorems, TLAPS

Fresh == {"none", "queued", "asking", "recovering", "parsing", "repairing", "settled"}
Silent == Fresh \cup {"replying", "unexpected"}

Kept(p) == /\ run[p] = "completed" /\ episode[p] = "completed"
           /\ log[p] = <<"tools", "completed">>

(* Only a press that is marked seen has a task. *)
Marked(p) == p \notin seen => task[p] = "none"

(* Nothing is written about the outcome before the runner has settled it. *)
Unwritten(p) == task[p] \in Fresh => log[p] = <<>> /\ run[p] # "completed"

(* Messages are posted at the two reply stages and nowhere else. *)
Spoken(p) == /\ task[p] \in Silent => chat[p] = <<>>
             /\ task[p] \in {"recording", "finished"} => chat[p] # <<>>

(* Evidence goes with everything that can become a completed run. *)
Grounded(p) == /\ task[p] \in {"parsing", "repairing"} => evidence[p]
               /\ result[p] \in {"answer", "raised"} => evidence[p]
               /\ run[p] = "completed" => evidence[p]

(* The result that is about to be posted is the one that is stored. *)
Agreed(p) == /\ task[p] \in Fresh \ {"settled"} => result[p] = "none"
             /\ task[p] = "settled" => result[p] # "none"
             /\ task[p] = "replying" => /\ result[p] \in {"answer", "failure"}
                                        /\ result[p] = "answer" => Kept(p)
             /\ Said(p, "answer") => Kept(p)

Sound(p) == Marked(p) /\ Unwritten(p) /\ Spoken(p) /\ Grounded(p) /\ Agreed(p)

IInv == TypeOK /\ \A p \in Presses : Sound(p)

-----------------------------------------------------------------------------
(* What a step leaves alone *)

(* Nothing about the press changes, except that it may be marked seen. *)
Same(p) == /\ task'[p] = task[p] /\ run'[p] = run[p] /\ log'[p] = log[p]
           /\ episode'[p] = episode[p] /\ evidence'[p] = evidence[p]
           /\ result'[p] = result[p] /\ chat'[p] = chat[p]
           /\ seen \subseteq seen'

LEMMA SameIsSound ==
    ASSUME NEW p \in Presses, Sound(p), Same(p)
    PROVE  Sound(p)'
<1>1. Kept(p)' <=> Kept(p)
  BY DEF Same, Kept
<1>2. Said(p, "answer")' <=> Said(p, "answer")
  BY DEF Same, Said
<1>3. Marked(p)'
  BY DEF Sound, Same, Marked
<1>4. Unwritten(p)' /\ Spoken(p)' /\ Grounded(p)'
  BY DEF Sound, Same, Unwritten, Spoken, Grounded
<1>5. Agreed(p)'
  BY <1>1, <1>2 DEF Sound, Same, Agreed
<1> QED
  BY <1>3, <1>4, <1>5 DEF Sound

(* The process dies: the task may be gone, the stores stay. *)
Bereft(p) == /\ task'[p] = IF task[p] \in InFlight THEN "lost" ELSE task[p]
             /\ run'[p] = run[p] /\ log'[p] = log[p]
             /\ episode'[p] = episode[p] /\ evidence'[p] = evidence[p]
             /\ result'[p] = result[p] /\ chat'[p] = chat[p]
             /\ seen \subseteq seen'

LEMMA BereftIsSound ==
    ASSUME NEW p \in Presses, Sound(p), Bereft(p)
    PROVE  Sound(p)'
<1>1. CASE task[p] \notin InFlight
  BY <1>1, SameIsSound DEF Bereft, Same
<1>2. CASE task[p] \in InFlight
  <2>1. task'[p] = "lost"
    BY <1>2 DEF Bereft
  <2>2. p \in seen'
    BY <1>2 DEF Bereft, Sound, Marked, InFlight, Stages
  <2>3. Said(p, "answer")' => Kept(p)'
    BY DEF Bereft, Sound, Agreed, Said, Kept
  <2>4. Grounded(p)'
    BY <2>1 DEF Bereft, Sound, Grounded
  <2> QED
    BY <2>1, <2>2, <2>3, <2>4 DEF Sound, Marked, Unwritten, Spoken, Agreed, Fresh, Silent
<1> QED
  BY <1>1, <1>2

-----------------------------------------------------------------------------
(* Writes of a completion *)

Status == RunStatus \cup {"none"}
Entries == {"tools", "completed", "failed"}
Writes == [run : Status, log : Seq(Entries), episode : Status]

LEMMA CompletedWrites ==
    ASSUME NEW s \in Writes, NEW status \in {"completed", "failed"}, NEW n
    PROVE  /\ Completed(s, status, n) \in Writes
           /\ Completed(s, status, n).run \in {s.run, status}
<1>1. Append(s.log, status) \in Seq(Entries)
  BY DEF Writes, Entries
<1> QED
  BY <1>1 DEF Completed, Writes, Status, RunStatus

LEMMA AuditedWrites ==
    ASSUME NEW s \in Writes
    PROVE  Audited(s) \in Writes /\ Audited(s).run = s.run
<1>1. Append(s.log, "tools") \in Seq(Entries)
  BY DEF Writes, Entries
<1> QED
  BY <1>1 DEF Audited, Writes

LEMMA StoredWrites ==
    ASSUME TypeOK, NEW p \in Presses
    PROVE  Stored(p) \in Writes
BY DEF TypeOK, Stored, Writes, Status, Entries

(* The stores after a raise hold a completed run only for an answer. *)
LEMMA AfterRaiseWrites ==
    ASSUME TypeOK, NEW p \in Presses, Sound(p), task[p] = "settled",
           NEW s \in AfterRaise(p)
    PROVE  s \in Writes /\ (s.run = "completed" => evidence[p])
<1>1. Stored(p) \in Writes /\ Stored(p).run # "completed"
  BY StoredWrites DEF Sound, Unwritten, Fresh, Stored
<1>2. CASE s = Stored(p)
  BY <1>1, <1>2
<1>3. CASE \E n \in 0..3 : s = Completed(Audited(Stored(p)), StatusOf(result[p]), n)
  <2>1. PICK n \in 0..3 : s = Completed(Audited(Stored(p)), StatusOf(result[p]), n)
    BY <1>3
  <2>2. StatusOf(result[p]) \in {"completed", "failed"}
    BY DEF StatusOf
  <2>3. StatusOf(result[p]) = "completed" => evidence[p]
    BY DEF StatusOf, Sound, Grounded
  <2>4. Audited(Stored(p)) \in Writes /\ Audited(Stored(p)).run # "completed"
    BY <1>1, AuditedWrites
  <2> QED
    BY <2>1, <2>2, <2>3, <2>4, CompletedWrites
<1> QED
  BY <1>2, <1>3 DEF AfterRaise

(* Two entries, one after the other. *)
LEMMA AppendToOne ==
    ASSUME NEW S, NEW a \in S, NEW b \in S
    PROVE  Append(<<a>>, b) = <<a, b>>
<1>1. <<a>> \in Seq(S) /\ <<a, b>> \in Seq(S)
  OBVIOUS
<1>2. Len(Append(<<a>>, b)) = Len(<<a, b>>)
  BY <1>1, AppendProperties
<1>3. Append(<<a>>, b)[1] = a /\ Append(<<a>>, b)[2] = b
  BY <1>1, AppendProperties
<1>4. \A i \in 1..Len(<<a, b>>) : Append(<<a>>, b)[i] = <<a, b>>[i]
  BY <1>3
<1> QED
  BY <1>1, <1>2, <1>4, AppendProperties, SeqEqual

(* Completing as failed keeps what the press must keep. *)
LEMMA FailedWrites ==
    ASSUME TypeOK, NEW p \in Presses, Sound(p), task[p] = "settled",
           NEW s \in AfterRaise(p), NEW n
    PROVE  /\ Completed(s, "failed", n) \in Writes
           /\ Completed(s, "failed", n).run = "completed" => evidence[p]
BY AfterRaiseWrites, CompletedWrites

-----------------------------------------------------------------------------
(* Types *)

LEMMA PostTypes ==
    ASSUME TypeOK, NEW p \in Presses, NEW m \in Seq(Messages), Post(p, m)
    PROVE  chat' \in [Presses -> Seq(Messages)]
<1>1. chat[p] \o m \in Seq(Messages)
  BY ConcatProperties DEF TypeOK
<1> QED
  BY <1>1 DEF TypeOK, Post

LEMMA StoreTypes ==
    ASSUME TypeOK, NEW p \in Presses, NEW s \in Writes, Store(p, s)
    PROVE  /\ run' \in [Presses -> RunStatus \cup {"none"}]
           /\ log' \in [Presses -> Seq({"tools", "completed", "failed"})]
           /\ episode' \in [Presses -> RunStatus \cup {"none"}]
BY DEF TypeOK, Store, Writes, Status, Entries

LEMMA DiedTypes ==
    ASSUME NEW t \in [Presses -> Stages]
    PROVE  Died(t) \in [Presses -> Stages]
BY DEF Died, Stages

LEMMA CallbackTypes ==
    ASSUME TypeOK, NEW p \in Presses, Callback(p)
    PROVE  TypeOK'
<1>1. delivered' \in [Presses -> 0..MaxDeliveries]
  <2>1. Arrives(p)
    BY DEF Callback, DeliverAgain, Refuse, Accept, AcceptRaises, AcceptDies
  <2>2. delivered[p] + 1 \in 0..MaxDeliveries
    BY <2>1, Bounds DEF TypeOK, Arrives
  <2> QED
    BY <2>1, <2>2 DEF TypeOK, Arrives
<1>2. seen' \subseteq Presses
  BY DEF TypeOK, Callback, DeliverAgain, Refuse, Accept, AcceptRaises, AcceptDies, MarkSeen
<1>3. /\ run' \in [Presses -> RunStatus \cup {"none"}]
      /\ episode' \in [Presses -> RunStatus \cup {"none"}]
      /\ log' = log
  <2>1. UNCHANGED stored \/ \E rows : CreateRun(p, rows)
    BY DEF Callback, DeliverAgain, Refuse, Accept, AcceptRaises, AcceptDies
  <2>2. CASE UNCHANGED stored
    BY <2>2 DEF stored, TypeOK
  <2>3. CASE \E rows : CreateRun(p, rows)
    BY <2>3 DEF CreateRun, TypeOK, RunStatus
  <2> QED
    BY <2>1, <2>2, <2>3
<1>4. task' \in [Presses -> Stages]
  <2>1. [task EXCEPT ![p] = "queued"] \in [Presses -> Stages]
    BY DEF TypeOK, Stages
  <2>2. Died([task EXCEPT ![p] = "queued"]) \in [Presses -> Stages]
    BY <2>1, DiedTypes
  <2> QED
    BY <2>1, <2>2 DEF TypeOK, Callback, DeliverAgain, Refuse, Accept, AcceptRaises, AcceptDies, Goto
<1>5. UNCHANGED <<thread, chat, turn>>
  BY DEF Callback, DeliverAgain, Refuse, Accept, AcceptRaises, AcceptDies
<1>6. faults' \in 0..MaxFaults /\ crashes' \in 0..MaxCrashes
  BY Bounds DEF TypeOK, Callback, DeliverAgain, Refuse, Accept, AcceptRaises, AcceptDies, budget
<1> QED
  BY <1>1, <1>2, <1>3, <1>4, <1>5, <1>6 DEF TypeOK, thread

(* The thread hands something back or goes on: the stores stay. *)
Thinks(p) == Start(p) \/ Converse(p) \/ Recover(p) \/ Parse(p) \/ Repair(p)

LEMMA ThinkTypes ==
    ASSUME TypeOK, NEW p \in Presses, Thinks(p)
    PROVE  TypeOK'
<1>1. UNCHANGED <<delivered, seen, stored, chat, turn, budget>>
  BY DEF Thinks, Start, Converse, Recover, Parse, Repair
<1>2. task' \in [Presses -> Stages] /\ result' \in [Presses -> Results]
  <2>1. \/ UNCHANGED result /\ \E t \in Stages : Goto(p, t)
        \/ \E r \in Results : Handed(p, r)
    <3>1. CASE Start(p)
      BY <3>1 DEF Start, thread, Stages
    <3>2. CASE Converse(p)
      BY <3>2 DEF Converse, Stages, Results
    <3>3. CASE Recover(p)
      BY <3>3 DEF Recover, Stages, Results
    <3>4. CASE Parse(p)
      BY <3>4 DEF Parse, Stages, Results
    <3>5. CASE Repair(p)
      BY <3>5 DEF Repair, Results
    <3> QED
      BY <3>1, <3>2, <3>3, <3>4, <3>5 DEF Thinks
  <2> QED
    BY <2>1 DEF TypeOK, Goto, Handed, Stages
<1>3. evidence' \in [Presses -> BOOLEAN]
  <2>1. CASE UNCHANGED evidence
    BY <2>1 DEF TypeOK
  <2>2. CASE \E c \in BOOLEAN : evidence' = [evidence EXCEPT ![p] = c]
    BY <2>2 DEF TypeOK
  <2>3. CASE \E c \in BOOLEAN : evidence' = [evidence EXCEPT ![p] = @ \/ c]
    BY <2>3 DEF TypeOK
  <2> QED
    BY <2>1, <2>2, <2>3 DEF Thinks, Start, Converse, Recover, Parse, Repair, thread
<1> QED
  BY <1>1, <1>2, <1>3 DEF TypeOK, stored, budget

(* A completion writes the stores and counts faults and crashes. *)
Finishes(p) == Complete(p) \/ CompleteAsFailed(p) \/ CompleteFails(p) \/ CompleteDies(p)

LEMMA StoredBy ==
    ASSUME TypeOK, NEW p \in Presses, Sound(p), Finishes(p)
    PROVE  \E s \in Writes : Store(p, s) /\ (s.run = "completed" => evidence[p])
<1>0. task[p] = "settled"
  BY DEF Finishes, Complete, CompleteAsFailed, CompleteFails, CompleteDies, At
<1>1. CASE Complete(p)
  <2> DEFINE s == Completed(Audited(Stored(p)), StatusOf(result[p]), 3)
  <2>1. StatusOf(result[p]) \in {"completed", "failed"}
    BY DEF StatusOf
  <2>2. s \in Writes
    BY <2>1, StoredWrites, AuditedWrites, CompletedWrites
  <2>3. s.run = StatusOf(result[p])
    BY DEF Completed
  <2>4. s.run = "completed" => evidence[p]
    BY <2>3 DEF StatusOf, Sound, Grounded
  <2>5. Store(p, s)
    BY <1>1 DEF Complete
  <2> QED
    BY <2>2, <2>4, <2>5
<1>2. CASE \E s \in AfterRaise(p) : Store(p, s)
  BY <1>0, <1>2, AfterRaiseWrites
<1>3. CASE \E s \in AfterRaise(p), n \in 0..3 : Store(p, Completed(s, "failed", n))
  BY <1>0, <1>3, FailedWrites
<1> QED
  BY <1>1, <1>2, <1>3 DEF Finishes, CompleteAsFailed, CompleteFails, CompleteDies

LEMMA FinishTypes ==
    ASSUME TypeOK, NEW p \in Presses, Sound(p), Finishes(p)
    PROVE  TypeOK'
<1>1. UNCHANGED <<delivered, seen, evidence, chat, turn>>
  BY DEF Finishes, Complete, CompleteAsFailed, CompleteFails, CompleteDies, thread
<1>2. /\ run' \in [Presses -> RunStatus \cup {"none"}]
      /\ log' \in [Presses -> Seq({"tools", "completed", "failed"})]
      /\ episode' \in [Presses -> RunStatus \cup {"none"}]
  BY StoredBy, StoreTypes
<1>3. task' \in [Presses -> Stages]
  BY DiedTypes DEF TypeOK, Finishes, Complete, CompleteAsFailed, CompleteFails, CompleteDies, Goto, Stages
<1>4. result' \in [Presses -> Results]
  BY DEF TypeOK, Finishes, Complete, CompleteAsFailed, CompleteFails, CompleteDies, thread, Results
<1>5. faults' \in 0..MaxFaults /\ crashes' \in 0..MaxCrashes
  BY Bounds DEF TypeOK, Finishes, Complete, CompleteAsFailed, CompleteFails, CompleteDies, budget, RaiseCost
<1> QED
  BY <1>1, <1>2, <1>3, <1>4, <1>5 DEF TypeOK

LEMMA SingleMessage ==
    ASSUME NEW m \in Messages
    PROVE  <<m>> \in Seq(Messages)
OBVIOUS

(* A message goes out, or the turn is recorded. *)
Speaks(p) == Reply(p) \/ ReplyUnexpected(p) \/ Record(p)

LEMMA SpeakTypes ==
    ASSUME TypeOK, NEW p \in Presses, Sound(p), Speaks(p)
    PROVE  TypeOK'
<1>1. UNCHANGED <<delivered, seen, stored, thread, budget>>
  BY DEF Speaks, Reply, ReplyUnexpected, Record
<1>2. task' \in [Presses -> Stages]
  BY DEF TypeOK, Speaks, Reply, ReplyUnexpected, Record, Goto, Stages
<1>3. chat' \in [Presses -> Seq(Messages)]
  <2>1. CASE Reply(p)
    <3>1. PICK notice \in {<<>>, <<"notice">>} : Post(p, <<result[p]>> \o notice)
      BY <2>1 DEF Reply
    <3>2. result[p] \in Messages
      BY <2>1 DEF Reply, At, Sound, Agreed, Messages
    <3>3. <<result[p]>> \in Seq(Messages) /\ notice \in Seq(Messages)
      <4>1. <<>> \in Seq(Messages) /\ "notice" \in Messages
        BY DEF Messages
      <4> QED
        BY <3>2, <4>1, SingleMessage
    <3>4. <<result[p]>> \o notice \in Seq(Messages)
      BY <3>3, ConcatProperties
    <3> QED
      BY <3>1, <3>4, PostTypes
  <2>2. CASE ReplyUnexpected(p)
    <3>1. "unexpected" \in Messages
      BY DEF Messages
    <3>2. <<"unexpected">> \in Seq(Messages)
      BY <3>1, SingleMessage
    <3> QED
      BY <2>2, <3>2, PostTypes DEF ReplyUnexpected
  <2>3. CASE Record(p)
    BY <2>3 DEF Record, TypeOK
  <2> QED
    BY <2>1, <2>2, <2>3 DEF Speaks
<1>4. turn' \in [Presses -> BOOLEAN]
  BY DEF TypeOK, Speaks, Reply, ReplyUnexpected, Record
<1> QED
  BY <1>1, <1>2, <1>3, <1>4 DEF TypeOK, stored, thread, budget

LEMMA CrashTypes ==
    ASSUME TypeOK, Crash
    PROVE  TypeOK'
BY Bounds, DiedTypes DEF TypeOK, Crash, stored, thread

-----------------------------------------------------------------------------
(* The invariant, step by step: what happens to the press that acts, and that
   the others are as they were, or bereft of their tasks. *)

Others(p) == \A q \in Presses \ {p} : Same(q) \/ Bereft(q)

LEMMA OthersStaySound ==
    ASSUME IInv, NEW p \in Presses, Others(p), Sound(p)'
    PROVE  \A q \in Presses : Sound(q)'
<1> TAKE q \in Presses
<1>1. CASE q = p
  BY <1>1
<1>2. CASE q # p
  BY <1>2, SameIsSound, BereftIsSound DEF Others, IInv
<1> QED
  BY <1>1, <1>2

(* Callbacks *)
LEMMA CallbackIsSound ==
    ASSUME IInv, NEW p \in Presses, Callback(p)
    PROVE  Others(p) /\ Sound(p)'
<1> USE DEF IInv
<1>0. UNCHANGED <<log, evidence, result, chat>> /\ seen \subseteq seen'
  BY DEF Callback, DeliverAgain, Refuse, Accept, AcceptRaises, AcceptDies, MarkSeen,
         CreateRun, stored, thread
<1>1. /\ \A q \in Presses \ {p} : run'[q] = run[q] /\ episode'[q] = episode[q]
      /\ \A q \in Presses \ {p} : \/ task'[q] = task[q]
                                   \/ task'[q] = IF task[q] \in InFlight THEN "lost" ELSE task[q]
  <2>1. CASE DeliverAgain(p) \/ Refuse(p)
    BY <2>1 DEF DeliverAgain, Refuse, stored
  <2>2. CASE Accept(p)
    BY <2>2 DEF Accept, CreateRun, Goto, TypeOK
  <2>3. CASE AcceptRaises(p)
    BY <2>3 DEF AcceptRaises, CreateRun, TypeOK
  <2>4. CASE AcceptDies(p)
    BY <2>4 DEF AcceptDies, CreateRun, Died, TypeOK
  <2> QED
    BY <2>1, <2>2, <2>3, <2>4 DEF Callback
<1>2. Others(p)
  BY <1>0, <1>1 DEF Others, Same, Bereft
<1>3. CASE DeliverAgain(p) \/ Refuse(p)
  BY <1>0, <1>2, <1>3, SameIsSound DEF DeliverAgain, Refuse, Same, stored
<1>4. CASE ~(DeliverAgain(p) \/ Refuse(p))
  <2>1. p \notin seen /\ p \in seen' /\ task[p] = "none"
    BY <1>4 DEF Callback, Accept, AcceptRaises, AcceptDies, MarkSeen, Sound, Marked
  <2>2. chat[p] = <<>> /\ log[p] = <<>> /\ run[p] # "completed"
    BY <2>1 DEF Sound, Unwritten, Spoken, Fresh, Silent
  <2>3. run'[p] # "completed"
    BY <1>4, <2>2 DEF Callback, Accept, AcceptRaises, AcceptDies, CreateRun, TypeOK
  <2>4. task'[p] \in {"none", "queued", "lost"}
    BY <1>4, <2>1 DEF Callback, Accept, AcceptRaises, AcceptDies, Goto, Died, TypeOK, InFlight, Stages
  <2>5. ~Said(p, "answer")'
    BY <1>0, <2>2 DEF Said
  <2> QED
    BY <1>0, <1>2, <2>1, <2>2, <2>3, <2>4, <2>5
    DEF Sound, Marked, Unwritten, Spoken, Grounded, Agreed, Fresh, Silent
<1> QED
  BY <1>2, <1>3, <1>4

(* The thread *)
LEMMA ThinkIsSound ==
    ASSUME IInv, NEW p \in Presses, Thinks(p)
    PROVE  Others(p) /\ Sound(p)'
<1> USE DEF IInv
<1>1. UNCHANGED <<seen, run, log, episode, chat>>
  BY DEF Thinks, Start, Converse, Recover, Parse, Repair, stored
<1>2. \A q \in Presses \ {p} : /\ task'[q] = task[q] /\ result'[q] = result[q]
                               /\ evidence'[q] = evidence[q]
  <2>1. CASE Start(p)
    BY <2>1 DEF Start, Goto, thread, TypeOK
  <2>2. CASE Converse(p)
    BY <2>2 DEF Converse, Goto, Handed, TypeOK
  <2>3. CASE Recover(p)
    BY <2>3 DEF Recover, Goto, Handed, TypeOK
  <2>4. CASE Parse(p) \/ Repair(p)
    BY <2>4 DEF Parse, Repair, Goto, Handed, TypeOK
  <2> QED
    BY <2>1, <2>2, <2>3, <2>4 DEF Thinks
<1>3. Others(p)
  BY <1>1, <1>2 DEF Others, Same
<1>4. /\ task[p] \in Fresh \ {"none", "settled"}
      /\ task'[p] \in Fresh \ {"none"}
      /\ task'[p] = "settled" => result'[p] \in {"answer", "failure", "raised"}
      /\ task'[p] \in {"parsing", "repairing"} => evidence'[p]
      /\ result'[p] \in {"answer", "raised"} => evidence'[p]
      /\ task'[p] # "settled" => result'[p] = "none"
  <2>0. /\ task[p] \in {"queued", "asking", "recovering", "parsing", "repairing"}
        /\ task[p] \in {"parsing", "repairing"} => evidence[p]
        /\ result[p] = "none"
    <3>1. task[p] \in {"queued", "asking", "recovering", "parsing", "repairing"}
      BY DEF Thinks, Start, Converse, Recover, Parse, Repair, At
    <3> QED
      BY <3>1 DEF Sound, Grounded, Agreed, Fresh
  <2>1. CASE Start(p)
    BY <2>0, <2>1 DEF Start, Goto, Fresh, thread, TypeOK
  <2>2. CASE Converse(p)
    BY <2>0, <2>2 DEF Converse, Goto, Handed, NeedsRecovery, Fresh, TypeOK
  <2>3. CASE Recover(p)
    BY <2>0, <2>3 DEF Recover, Goto, Handed, Fresh, TypeOK
  <2>4. CASE Parse(p)
    BY <2>0, <2>4 DEF Parse, Goto, Handed, Fresh, TypeOK, At
  <2>5. CASE Repair(p)
    BY <2>0, <2>5 DEF Repair, Goto, Handed, Fresh, TypeOK, At
  <2> QED
    BY <2>0, <2>1, <2>2, <2>3, <2>4, <2>5 DEF Thinks, Fresh
<1>5. Sound(p)
  OBVIOUS
<1>6. Marked(p)' /\ Unwritten(p)' /\ Spoken(p)'
  BY <1>1, <1>4, <1>5 DEF Sound, Marked, Unwritten, Spoken, Fresh, Silent
<1>7. Grounded(p)'
  BY <1>1, <1>4, <1>5 DEF Sound, Unwritten, Grounded
<1>8. ~Said(p, "answer")'
  BY <1>1, <1>4, <1>5 DEF Sound, Spoken, Said, Silent, Fresh
<1>9. Agreed(p)'
  BY <1>4, <1>8 DEF Agreed, Fresh
<1> QED
  BY <1>3, <1>6, <1>7, <1>9 DEF Sound

(* The completion *)
LEMMA FinishIsSound ==
    ASSUME IInv, NEW p \in Presses, Finishes(p)
    PROVE  Others(p) /\ Sound(p)'
<1> USE DEF IInv
<1>0. task[p] = "settled" /\ Sound(p)
  BY DEF Finishes, Complete, CompleteAsFailed, CompleteFails, CompleteDies, At
<1>1. UNCHANGED <<seen, evidence, chat>>
  BY DEF Finishes, Complete, CompleteAsFailed, CompleteFails, CompleteDies, thread
<1>2. PICK s \in Writes : Store(p, s) /\ (s.run = "completed" => evidence[p])
  BY <1>0, StoredBy
<1>3. /\ \A q \in Presses \ {p} : run'[q] = run[q] /\ log'[q] = log[q] /\ episode'[q] = episode[q]
      /\ run'[p] = s.run /\ log'[p] = s.log /\ episode'[p] = s.episode
  BY <1>2 DEF Store, TypeOK
<1>4. /\ \A q \in Presses \ {p} : result'[q] = result[q]
      /\ \A q \in Presses \ {p} : \/ task'[q] = task[q]
                                   \/ task'[q] = IF task[q] \in InFlight THEN "lost" ELSE task[q]
      /\ task'[p] \in {"replying", "unexpected", "lost"}
      /\ result'[p] \in {result[p], "failure"}
  <2>1. CASE Complete(p)
    BY <1>0, <2>1 DEF Complete, Goto, thread, TypeOK
  <2>2. CASE CompleteAsFailed(p)
    BY <1>0, <2>2 DEF CompleteAsFailed, Goto, TypeOK
  <2>3. CASE CompleteFails(p)
    BY <1>0, <2>3 DEF CompleteFails, Goto, thread, TypeOK
  <2>4. CASE CompleteDies(p)
    BY <1>0, <2>4 DEF CompleteDies, Died, InFlight, Stages, thread, TypeOK
  <2> QED
    BY <2>1, <2>2, <2>3, <2>4 DEF Finishes
<1>5. Others(p)
  BY <1>1, <1>3, <1>4 DEF Others, Same, Bereft
<1>6. Marked(p)' /\ Unwritten(p)' /\ Spoken(p)'
  BY <1>0, <1>1, <1>4 DEF Sound, Marked, Unwritten, Spoken, Fresh, Silent
<1>7. Grounded(p)'
  BY <1>0, <1>1, <1>2, <1>3, <1>4 DEF Sound, Grounded
<1>8. ~Said(p, "answer")'
  BY <1>0, <1>1 DEF Sound, Spoken, Said, Silent, Fresh
<1>9. task'[p] = "replying" => /\ result'[p] \in {"answer", "failure"}
                               /\ result'[p] = "answer" => Kept(p)'
  <2>1. CASE Complete(p)
    <3>1. result[p] \in {"answer", "failure"} /\ result'[p] = result[p]
      BY <1>0, <2>1 DEF Complete, thread, Sound, Agreed, TypeOK, Results
    <3>2. ASSUME result[p] = "answer" PROVE Kept(p)'
      <4>1. Store(p, Completed(Audited(Stored(p)), "completed", 3))
        BY <2>1, <3>2 DEF Complete, StatusOf
      <4>2. log[p] = <<>>
        BY <1>0 DEF Sound, Unwritten, Fresh
      <4>3. Audited(Stored(p)).log = <<"tools">>
        BY <4>2 DEF Audited, Stored
      <4>4. /\ Completed(Audited(Stored(p)), "completed", 3).run = "completed"
            /\ Completed(Audited(Stored(p)), "completed", 3).episode = "completed"
            /\ Completed(Audited(Stored(p)), "completed", 3).log = <<"tools", "completed">>
        <5>1. Append(<<"tools">>, "completed") = <<"tools", "completed">>
          <6>1. "tools" \in Entries /\ "completed" \in Entries
            BY DEF Entries
          <6> QED
            BY <6>1, AppendToOne
        <5>2. /\ Completed(Audited(Stored(p)), "completed", 3).run = "completed"
              /\ Completed(Audited(Stored(p)), "completed", 3).episode = "completed"
              /\ Completed(Audited(Stored(p)), "completed", 3).log
                   = Append(Audited(Stored(p)).log, "completed")
          BY DEF Completed
        <5> QED
          BY <4>3, <5>1, <5>2
      <4> QED
        BY <4>1, <4>4 DEF Store, Kept, TypeOK
    <3> QED
      BY <3>1, <3>2
  <2>2. CASE CompleteAsFailed(p)
    BY <2>2 DEF CompleteAsFailed, TypeOK
  <2>3. CASE CompleteFails(p)
    BY <2>3 DEF CompleteFails, Goto, TypeOK
  <2>4. CASE CompleteDies(p)
    BY <1>0, <2>4 DEF CompleteDies, Died, InFlight, Stages, TypeOK
  <2> QED
    BY <2>1, <2>2, <2>3, <2>4 DEF Finishes
<1>10. Agreed(p)'
  BY <1>4, <1>8, <1>9 DEF Agreed, Fresh
<1> QED
  BY <1>5, <1>6, <1>7, <1>10 DEF Sound

(* The reply and the session *)
LEMMA ReplyPosts ==
    ASSUME IInv, NEW p \in Presses, Reply(p)
    PROVE  /\ chat'[p] # <<>>
           /\ Said(p, "answer")' <=> result[p] = "answer"
<1> USE DEF IInv
<1>1. chat[p] = <<>> /\ result[p] \in {"answer", "failure"}
  BY DEF Reply, At, Sound, Spoken, Agreed, Silent
<1>2. PICK notice \in {<<>>, <<"notice">>} : Post(p, <<result[p]>> \o notice)
  BY DEF Reply
<1>3. /\ <<result[p]>> \in Seq(Messages) /\ notice \in Seq(Messages)
      /\ <<>> \in Seq(Messages)
  <2>1. result[p] \in Messages /\ "notice" \in Messages /\ <<>> \in Seq(Messages)
    BY <1>1 DEF Messages
  <2> QED
    BY <2>1, SingleMessage
<1>4. chat'[p] = <<result[p]>> \o notice
  <2>1. <<result[p]>> \o notice \in Seq(Messages)
    BY <1>3, ConcatProperties
  <2>2. <<>> \o (<<result[p]>> \o notice) = <<result[p]>> \o notice
    BY <2>1, ConcatEmptySeq
  <2> QED
    BY <1>1, <1>2, <2>2 DEF Post, TypeOK
<1>5. /\ DOMAIN chat'[p] = 1..1 + Len(notice)
      /\ chat'[p][1] = result[p]
      /\ \A i \in 2..1 + Len(notice) : chat'[p][i] = "notice"
  <2>1. /\ Len(<<result[p]>> \o notice) = 1 + Len(notice)
        /\ <<result[p]>> \o notice \in Seq(Messages)
        /\ \A i \in 1..1 + Len(notice) : (<<result[p]>> \o notice)[i]
              = IF i <= 1 THEN <<result[p]>>[i] ELSE notice[i - 1]
    BY <1>3, ConcatProperties
  <2>2. Len(notice) \in {0, 1} /\ \A i \in 1..Len(notice) : notice[i] = "notice"
    OBVIOUS
  <2> QED
    BY <1>4, <2>1, <2>2
<1>6. Len(notice) \in Nat
  BY <1>3
<1> QED
  BY <1>1, <1>5, <1>6 DEF Said

LEMMA SpeakIsSound ==
    ASSUME IInv, NEW p \in Presses, Speaks(p)
    PROVE  Others(p) /\ Sound(p)'
<1> USE DEF IInv
<1>0. Sound(p)
  OBVIOUS
<1>1. UNCHANGED <<seen, run, log, episode, evidence, result>>
  BY DEF Speaks, Reply, ReplyUnexpected, Record, stored, thread
<1>2. \A q \in Presses \ {p} : task'[q] = task[q] /\ chat'[q] = chat[q]
  BY DEF Speaks, Reply, ReplyUnexpected, Record, Goto, Post, TypeOK
<1>3. Others(p)
  BY <1>1, <1>2 DEF Others, Same
<1>4. /\ task[p] \in {"replying", "unexpected", "recording"}
      /\ task'[p] \in {"recording", "finished"}
  BY DEF Speaks, Reply, ReplyUnexpected, Record, Goto, At, TypeOK
<1>5. chat'[p] # <<>> /\ (Said(p, "answer")' => Kept(p)')
  <2>0. Kept(p)' <=> Kept(p)
    BY <1>1 DEF Kept
  <2>1. CASE Reply(p)
    BY <1>0, <2>0, <2>1, ReplyPosts DEF Reply, At, Sound, Agreed
  <2>2. CASE ReplyUnexpected(p)
    <3>1. chat[p] = <<>>
      BY <1>0, <2>2 DEF ReplyUnexpected, At, Sound, Spoken, Silent
    <3>2. "unexpected" \in Messages
      BY DEF Messages
    <3>3. <<"unexpected">> \in Seq(Messages)
      BY <3>2, SingleMessage
    <3>4. chat'[p] = <<"unexpected">>
      BY <2>2, <3>1, <3>3, ConcatEmptySeq DEF ReplyUnexpected, Post, TypeOK
    <3> QED
      BY <3>4 DEF Said
  <2>3. CASE Record(p)
    BY <1>0, <2>0, <2>3 DEF Record, At, Sound, Spoken, Agreed, Said
  <2> QED
    BY <2>1, <2>2, <2>3 DEF Speaks
<1>6. Marked(p)' /\ Unwritten(p)' /\ Spoken(p)'
  BY <1>0, <1>1, <1>4, <1>5 DEF Sound, Marked, Unwritten, Spoken, Fresh, Silent
<1>7. Grounded(p)' /\ Agreed(p)'
  BY <1>0, <1>1, <1>4, <1>5 DEF Sound, Grounded, Agreed, Fresh
<1> QED
  BY <1>3, <1>6, <1>7 DEF Sound

LEMMA CrashIsSound ==
    ASSUME IInv, Crash, NEW p \in Presses
    PROVE  Sound(p)'
<1>1. Bereft(p)
  BY DEF IInv, TypeOK, Crash, Died, Bereft, stored, thread
<1> QED
  BY <1>1, BereftIsSound DEF IInv

-----------------------------------------------------------------------------
(* The theorems *)

LEMMA Initially ==
    ASSUME Init
    PROVE  IInv
<1>1. TypeOK
  BY Bounds DEF Init, TypeOK, RunStatus, Stages, Results
<1>2. ASSUME NEW p \in Presses PROVE Sound(p)
  BY DEF Init, Sound, Marked, Unwritten, Spoken, Grounded, Agreed, Said, Fresh, Silent
<1> QED
  BY <1>1, <1>2 DEF IInv

LEMMA Actors ==
    ASSUME Next
    PROVE  \/ \E p \in Presses : Callback(p) \/ Thinks(p) \/ Finishes(p) \/ Speaks(p)
           \/ Crash
BY DEF Next, Work, Thinks, Finishes, Speaks

LEMMA EachStep ==
    ASSUME IInv, [Next]_vars
    PROVE  IInv'
<1>1. CASE UNCHANGED vars
  <2>1. TypeOK'
    BY <1>1 DEF vars, IInv, TypeOK
  <2>2. ASSUME NEW p \in Presses PROVE Sound(p)'
    BY <1>1, SameIsSound DEF vars, IInv, Same
  <2> QED
    BY <2>1, <2>2 DEF IInv
<1>2. CASE Crash
  BY <1>2, CrashTypes, CrashIsSound DEF IInv
<1>3. ASSUME NEW p \in Presses, Callback(p) \/ Thinks(p) \/ Finishes(p) \/ Speaks(p)
      PROVE  IInv'
  <2>1. TypeOK'
    BY <1>3, CallbackTypes, ThinkTypes, FinishTypes, SpeakTypes DEF IInv
  <2>2. Others(p) /\ Sound(p)'
    BY <1>3, CallbackIsSound, ThinkIsSound, FinishIsSound, SpeakIsSound
  <2> QED
    BY <2>1, <2>2, OthersStaySound DEF IInv
<1> QED
  BY <1>1, <1>2, <1>3, Actors

LEMMA Invariance == SafeSpec => []IInv
BY Initially, EachStep, PTL DEF SafeSpec

(* Every variable stays in its type: bounded counters of deliveries, faults and
   crashes, and only known stages, results, statuses and messages. *)
THEOREM Typed == SafeSpec => []TypeOK
<1>1. IInv => TypeOK
  BY DEF IInv
<1> QED
  BY <1>1, Invariance, PTL

(* An answer that was shown is the one the run row, the episode and the log
   keep (hermes_runtime.py, run_service.py). *)
THEOREM ShownAnswersAreKept == SafeSpec => []ShownIsKept
<1>1. IInv => ShownIsKept
  BY DEF IInv, Sound, Agreed, Kept, ShownIsKept
<1> QED
  BY <1>1, Invariance, PTL

(* A run is completed only with citations (hermes_loop_runner.py). *)
THEOREM CompletedRunsAreGrounded == SafeSpec => []AnswersAreGrounded
<1>1. IInv => AnswersAreGrounded
  BY DEF IInv, Sound, Grounded, AnswersAreGrounded
<1> QED
  BY <1>1, Invariance, PTL

(* A press that is finished or lost is never worked on again, however often
   its callback is delivered (mark_seen, service.py). *)
LEMMA SettledStays ==
    ASSUME IInv, [Next]_vars, NEW p \in Presses, task[p] \in {"finished", "lost"}
    PROVE  task'[p] = task[p] /\ chat'[p] = chat[p] /\ log'[p] = log[p]
<1>1. CASE UNCHANGED vars
  BY <1>1 DEF vars
<1>2. CASE Crash
  BY <1>2 DEF IInv, TypeOK, Crash, Died, InFlight, stored
<1>3. ASSUME NEW q \in Presses, Callback(q) \/ Thinks(q) \/ Finishes(q) \/ Speaks(q)
      PROVE  task'[p] = task[p] /\ chat'[p] = chat[p] /\ log'[p] = log[p]
  <2>1. CASE q # p
    <3>1. Others(q)
      BY <1>3, CallbackIsSound, ThinkIsSound, FinishIsSound, SpeakIsSound
    <3> QED
      BY <2>1, <3>1 DEF Others, Same, Bereft, InFlight
  <2>2. CASE q = p
    <3>1. Callback(p)
      BY <1>3, <2>2 DEF Thinks, Start, Converse, Recover, Parse, Repair, Finishes, Complete,
            CompleteAsFailed, CompleteFails, CompleteDies, Speaks, Reply, ReplyUnexpected,
            Record, At
    <3>2. p \in seen
      BY DEF IInv, Sound, Marked
    <3> QED
      BY <3>1, <3>2 DEF Callback, DeliverAgain, Refuse, Accept, AcceptRaises, AcceptDies,
            MarkSeen, stored
  <2> QED
    BY <2>1, <2>2
<1> QED
  BY <1>1, <1>2, <1>3, Actors

THEOREM SettledIsFinal == SafeSpec => NeverAskedTwice
<1>1. IInv /\ [Next]_vars =>
        [\A p \in Presses : task[p] \in {"finished", "lost"} =>
           task'[p] = task[p] /\ chat'[p] = chat[p] /\ log'[p] = log[p]]_vars
  BY SettledStays
<1> QED
  BY <1>1, Invariance, PTL DEF SafeSpec, NeverAskedTwice

-----------------------------------------------------------------------------
(* The refinement: each step is a step of AnswerPromise or none *)

LEMMA SameOutcome ==
    ASSUME NEW p \in Presses, Same(p), p \in seen' <=> p \in seen
    PROVE  Outcome(p)' = Outcome(p)
<1>1. Said(p, "answer")' <=> Said(p, "answer")
  BY DEF Same, Said
<1> QED
  BY <1>1 DEF Same, Outcome

LEMMA BereftOutcome ==
    ASSUME NEW p \in Presses, Sound(p), Bereft(p), p \in seen' <=> p \in seen
    PROVE  \/ Outcome(p)' = Outcome(p)
           \/ Outcome(p) = "open" /\ Outcome(p)' = "lost"
<1>1. Said(p, "answer")' <=> Said(p, "answer")
  BY DEF Bereft, Said
<1>2. CASE task[p] \in InFlight
  BY <1>1, <1>2 DEF Bereft, Outcome, InFlight, Stages
<1>3. CASE task[p] \notin InFlight
  BY <1>1, <1>3 DEF Bereft, Outcome
<1> QED
  BY <1>2, <1>3

(* Losing any set of open and unasked presses. *)
Dropped(p) == Outcome(p) \in {"unasked", "open"} /\ Outcome(p)' = "lost"

LEMMA LosesOrStutters ==
    ASSUME \A p \in Presses : Outcome(p)' = Outcome(p) \/ Dropped(p)
    PROVE  [Promise!Next]_([p \in Presses |-> Outcome(p)])
<1> DEFINE P == {p \in Presses : Dropped(p)}
<1>1. CASE P = {}
  BY <1>1
<1>2. CASE P # {}
  <2>1. Promise!Lose(P)
    BY <1>2 DEF Promise!Lose, Dropped
  <2> QED
    BY <2>1 DEF Promise!Next
<1> QED
  BY <1>1, <1>2

(* One press is opened or settled, the others stay. *)
LEMMA OpensOrSettles ==
    ASSUME NEW p \in Presses, \A q \in Presses \ {p} : Outcome(q)' = Outcome(q),
           \/ Outcome(p) = "unasked" /\ Outcome(p)' = "open"
           \/ Outcome(p) = "open" /\ Outcome(p)' \in {"answered", "told"}
    PROVE  [Promise!Next]_([q \in Presses |-> Outcome(q)])
<1> DEFINE before == [q \in Presses |-> Outcome(q)]
           after == [q \in Presses |-> Outcome(q)']
<1>1. after = [before EXCEPT ![p] = Outcome(p)']
  OBVIOUS
<1>2. Promise!Open(p) \/ Promise!Settle(p)
  BY <1>1 DEF Promise!Open, Promise!Settle
<1> QED
  BY <1>2 DEF Promise!Next

(* A fresh press: unasked before the callback is marked, open in the hands of
   its task. *)
LEMMA SilentOutcome ==
    ASSUME NEW p \in Presses, Sound(p), task[p] \in Silent
    PROVE  /\ task[p] # "none" => Outcome(p) = "open"
           /\ task[p] = "none" => Outcome(p) = IF p \in seen THEN "lost" ELSE "unasked"
<1>1. chat[p] = <<>> /\ ~Said(p, "answer")
  BY DEF Sound, Spoken, Said
<1>2. task[p] # "lost"
  BY DEF Silent, Fresh
<1> QED
  BY <1>1, <1>2 DEF Outcome

LEMMA CallbackPromise ==
    ASSUME IInv, NEW p \in Presses, Callback(p)
    PROVE  [Promise!Next]_([q \in Presses |-> Outcome(q)])
<1> USE DEF IInv
<1>1. Others(p) /\ Sound(p)'
  BY CallbackIsSound
<1>2. \A q \in Presses \ {p} : q \in seen' <=> q \in seen
  BY DEF Callback, DeliverAgain, Refuse, Accept, AcceptRaises, AcceptDies, MarkSeen
<1>3. \A q \in Presses \ {p} : Outcome(q)' = Outcome(q) \/ Dropped(q)
  BY <1>1, <1>2, SameOutcome, BereftOutcome DEF Others, Dropped
<1>4. CASE DeliverAgain(p)
  <2>1. Same(p) /\ seen' = seen
    BY <1>4 DEF DeliverAgain, Same, stored, thread
  <2> QED
    BY <1>3, <2>1, SameOutcome, LosesOrStutters
<1>5. CASE ~DeliverAgain(p)
  <2>1. p \notin seen /\ p \in seen'
    BY <1>5 DEF Callback, Refuse, Accept, AcceptRaises, AcceptDies, MarkSeen
  <2>2. task[p] = "none" /\ Outcome(p) = "unasked"
    BY <2>1, SilentOutcome DEF Sound, Marked, Silent, Fresh
  <2>3. CASE Accept(p)
    <3>1. task'[p] = "queued"
      BY <2>3 DEF Accept, Goto, TypeOK
    <3>2. Outcome(p)' = "open"
      <4>1. chat'[p] = <<>> /\ ~Said(p, "answer")'
        BY <1>1, <3>1 DEF Sound, Spoken, Silent, Fresh, Said
      <4> QED
        BY <3>1, <4>1 DEF Outcome
    <3>3. \A q \in Presses \ {p} : Same(q)
      BY <2>3 DEF Accept, MarkSeen, CreateRun, Goto, Same, thread, TypeOK
    <3> QED
      BY <1>2, <2>2, <3>2, <3>3, SameOutcome, OpensOrSettles
  <2>4. CASE ~Accept(p)
    <3>1. chat'[p] = <<>>
      BY <1>5, <2>2, <2>4 DEF Callback, Refuse, AcceptRaises, AcceptDies, Sound, Spoken, Silent, Fresh
    <3>2. task'[p] \in {"none", "lost"}
      BY <1>5, <2>2, <2>4 DEF Callback, Refuse, AcceptRaises, AcceptDies, Died, InFlight, Stages, TypeOK
    <3>3. Outcome(p)' = "lost"
      BY <2>1, <3>1, <3>2 DEF Outcome, Said
    <3> QED
      BY <1>3, <2>2, <3>3, LosesOrStutters DEF Dropped
  <2> QED
    BY <2>3, <2>4
<1> QED
  BY <1>4, <1>5

(* The task at work: the outcome stays open, or its tasks are gone. *)
LEMMA WorkPromise ==
    ASSUME IInv, NEW p \in Presses, Thinks(p) \/ Finishes(p)
    PROVE  [Promise!Next]_([q \in Presses |-> Outcome(q)])
<1> USE DEF IInv
<1>1. Others(p) /\ Sound(p)'
  BY ThinkIsSound, FinishIsSound
<1>2. seen' = seen /\ chat' = chat
  BY DEF Thinks, Start, Converse, Recover, Parse, Repair, Finishes, Complete,
         CompleteAsFailed, CompleteFails, CompleteDies
<1>3. \A q \in Presses \ {p} : Outcome(q)' = Outcome(q) \/ Dropped(q)
  BY <1>1, <1>2, SameOutcome, BereftOutcome DEF Others, Dropped
<1>4. task[p] \in Silent \ {"none"}
  BY DEF Thinks, Start, Converse, Recover, Parse, Repair, Finishes, Complete,
         CompleteAsFailed, CompleteFails, CompleteDies, At, Silent, Fresh
<1>5. Outcome(p) = "open"
  BY <1>4, SilentOutcome
<1>6. chat'[p] = <<>> /\ ~Said(p, "answer")'
  BY <1>2, <1>4 DEF Sound, Spoken, Said
<1>7. task'[p] # "none"
  BY <1>4 DEF Thinks, Start, Converse, Recover, Parse, Repair, Finishes, Complete,
         CompleteAsFailed, CompleteFails, CompleteDies, Goto, Handed, Died, TypeOK
<1>8. Outcome(p)' \in {"open", "lost"}
  BY <1>6, <1>7 DEF Outcome
<1> QED
  BY <1>3, <1>5, <1>8, LosesOrStutters DEF Dropped

LEMMA SpeakPromise ==
    ASSUME IInv, NEW p \in Presses, Speaks(p)
    PROVE  [Promise!Next]_([q \in Presses |-> Outcome(q)])
<1> USE DEF IInv
<1>1. \A q \in Presses \ {p} : Same(q) /\ (q \in seen' <=> q \in seen)
  BY DEF Speaks, Reply, ReplyUnexpected, Record, Goto, Post, Same, stored, thread, TypeOK
<1>2. \A q \in Presses \ {p} : Outcome(q)' = Outcome(q)
  BY <1>1, SameOutcome
<1>3. Sound(p)'
  BY SpeakIsSound
<1>4. task'[p] \in {"recording", "finished"} /\ chat'[p] # <<>>
  BY <1>3 DEF Speaks, Reply, ReplyUnexpected, Record, Goto, TypeOK, Sound, Spoken
<1>5. Outcome(p)' \in {"answered", "told"}
  BY <1>4 DEF Outcome
<1>6. CASE Reply(p) \/ ReplyUnexpected(p)
  <2>1. task[p] \in Silent \ {"none"}
    BY <1>6 DEF Reply, ReplyUnexpected, At, Silent, Fresh
  <2> QED
    BY <1>2, <1>5, <2>1, SilentOutcome, OpensOrSettles
<1>7. CASE Record(p)
  <2>1. task[p] = "recording" /\ chat' = chat
    BY <1>7 DEF Record, At
  <2>2. chat[p] # <<>>
    BY <2>1 DEF Sound, Spoken
  <2>3. Outcome(p)' = Outcome(p)
    BY <1>4, <2>1, <2>2 DEF Outcome, Said
  <2> QED
    BY <1>2, <2>3, LosesOrStutters
<1> QED
  BY <1>6, <1>7 DEF Speaks

LEMMA PromiseStep ==
    ASSUME IInv, [Next]_vars
    PROVE  [Promise!Next]_([q \in Presses |-> Outcome(q)])
<1>1. CASE UNCHANGED vars
  <2>1. \A q \in Presses : Same(q) /\ (q \in seen' <=> q \in seen)
    BY <1>1 DEF vars, Same
  <2> QED
    BY <2>1, SameOutcome, LosesOrStutters
<1>2. CASE Crash
  <2>1. \A q \in Presses : Bereft(q) /\ (q \in seen' <=> q \in seen)
    BY <1>2 DEF Crash, Died, Bereft, stored, thread, IInv, TypeOK
  <2> QED
    BY <2>1, BereftOutcome, LosesOrStutters DEF Dropped, IInv
<1> QED
  BY <1>1, <1>2, Actors, CallbackPromise, WorkPromise, SpeakPromise

(* The delivery implements what the user was promised, liveness aside: a press
   is taken up at most once and comes to one outcome, which never changes. *)
THEOREM DeliveryKeepsPromise == SafeSpec => Promise!SafeSpec
<1>1. Init => Promise!Init
  BY DEF Init, Promise!Init, Outcome, Said
<1>2. IInv /\ [Next]_vars => [Promise!Next]_([p \in Presses |-> Outcome(p)])
  BY PromiseStep
<1> QED
  BY <1>1, <1>2, Invariance, PTL DEF SafeSpec, Promise!SafeSpec
=============================================================================
