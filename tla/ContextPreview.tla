--------------------------- MODULE ContextPreview ---------------------------
(* What one line of a conversation shows before a question is sent: the
   pending set on the preview card, built from the recent turns and the last
   compression and edited by the buttons of any card that is still in the
   chat, and the turns that come back and change the pool it is built from.

   Code: application/conversation_service.py, domain/conversation.py,
   workflow/context_compression.py, and the card handlers of
   integrations/feishu/service.py.

   A handler runs whole on the event loop, but it may save the session more
   than once: "script" holds the saves it still has to make, and the process
   may die between two of them.  The order of the pending items is the order
   of their times, which the code restores at every save; the set is enough. *)
EXTENDS Naturals, Sequences, FiniteSets

CONSTANTS
  Messages,            \* group messages that can be picked
  MessageDay,          \* the day each was written on
  PickedDays,          \* bound: days chosen in the date picker
  RecentTurnLimit,     \* turns that stay verbatim
  DefaultTurnLimit,    \* from this limit on a whole batch is compressed (8)
  CompressEnd,         \* size of the batch (4)
  MaxTurns,            \* bound: turns of the line
  MaxEdits,            \* bound: buttons pressed
  MaxCrashes           \* bound: deaths of the process

ASSUME PreviewAssumption ==
  /\ MessageDay \in [Messages -> Nat]
  /\ PickedDays \subseteq 0..MaxTurns
  /\ RecentTurnLimit \in Nat \ {0} /\ DefaultTurnLimit \in Nat
  /\ CompressEnd \in 1..RecentTurnLimit
  /\ MaxTurns \in Nat /\ MaxEdits \in Nat /\ MaxCrashes \in Nat

VARIABLES
  turns,       \* number of turns recorded so far; a turn's number is its day
  recent,      \* the turns kept verbatim
  cycle,       \* the turns of the last compression
  ledger,      \* the citations, in the order they were written
  pending,     \* ids of the pending items
  asked,       \* a preview exists (it is never dropped again)
  window,      \* the date window of the session
  stage,       \* what is ticked on the edit card
  script,      \* the saves the running handler still makes
  flight,      \* number of questions sent and not answered yet
  removed,     \* history: items taken off this question's preview
  rebuilt,     \* history: a date window rebuilt this question's preview
  edits, crashes

vars == <<turns, recent, cycle, ledger, pending, asked, window, stage, script,
          flight, removed, rebuilt, edits, crashes>>
pool == <<turns, recent, cycle>>
history == <<removed, rebuilt>>
budget == <<edits, crashes>>

NoDay == MaxTurns + 1
NoStage == [exclude |-> {}, restore |-> {}, join |-> {}]

Turn(t) == [kind |-> "turn", at |-> t]
Summary(t) == [kind |-> "summary", at |-> t]
Citation(i) == [kind |-> "citation", at |-> i]

Init ==
  /\ turns = 0 /\ recent = <<>> /\ cycle = {}
  /\ ledger = <<>>
  /\ pending = {} /\ asked = FALSE
  /\ window = [start |-> NoDay, end |-> NoDay]
  /\ stage = NoStage
  /\ script = <<>> /\ flight = 0
  /\ removed = {} /\ rebuilt = FALSE
  /\ edits = 0 /\ crashes = 0

-----------------------------------------------------------------------------
(* The default pool *)

InDateWindow(day, w) == /\ w.start # NoDay => day >= w.start
                        /\ w.end # NoDay => day <= w.end

Oldest(T) == CHOOSE t \in T : \A u \in T : t <= u

Turns(s) == {s[i] : i \in DOMAIN s}

(* One row for the last compression, dated by its oldest turn, and one for
   each recent turn. *)
DefaultItems(w) ==
  {Summary(t) : t \in {u \in cycle : u = Oldest(cycle) /\ InDateWindow(u, w)}}
  \cup {Turn(t) : t \in {u \in Turns(recent) : InDateWindow(u, w)}}

(* The default pool and the chosen citations that lie in the window. *)
PendingItems(w, cited) ==
  DefaultItems(w)
  \cup {Citation(i) : i \in {j \in cited \cap DOMAIN ledger :
                                InDateWindow(ledger[j].day, w)}}

Cited(items) == {i \in DOMAIN ledger : Citation(i) \in items}

(* Mutant: the batch is compressed one turn too late. *)
SplitAtLater(s) == IF Len(s) <= RecentTurnLimit + 1 THEN 0 ELSE CompressEnd

(* The turns to compress and the turns to keep: the oldest batch, or with a
   small limit whatever exceeds it. *)
SplitAt(s) ==
  IF Len(s) <= RecentTurnLimit THEN 0
  ELSE IF RecentTurnLimit >= DefaultTurnLimit THEN CompressEnd
  ELSE Len(s) - RecentTurnLimit

(* The new batch takes the place of the last one. *)
Compressed(s, n) == IF n = 0 THEN cycle ELSE Turns(SubSeq(s, 1, n))

(* Mutant: turns are cited as messages. *)
MessageCitation(t) == [source |-> "message", of |-> t, day |-> t]

TurnCitation(t) == [source |-> "turn", of |-> t, day |-> t]

(* Mutant: a turn is cited when it is compressed. *)
RecordTurnCitingLate ==
  LET t == turns + 1
      s == Append(recent, t)
      n == SplitAt(s)
  IN /\ turns' = t
     /\ ledger' = ledger \o [i \in 1..n |-> TurnCitation(s[i])]
     /\ recent' = SubSeq(s, n + 1, Len(s))
     /\ cycle' = Compressed(s, n)
     /\ stage' = NoStage

(* record_turn: the citation first, then the compression; one save.  Nothing
   happens to the pending set, but the scratchpad is written back from a model
   that does not know the edit stage: the ticks are lost. *)
RecordTurn ==
  LET t == turns + 1
      s == Append(recent, t)
      n == SplitAt(s)
  IN /\ turns' = t
     /\ ledger' = Append(ledger, TurnCitation(t))
     /\ recent' = SubSeq(s, n + 1, Len(s))
     /\ cycle' = Compressed(s, n)
     /\ stage' = NoStage

-----------------------------------------------------------------------------
(* The saves a handler makes, one after the other *)

Idle == script = <<>>
Run(ops) == script' = ops

Exclude(ids) == [op |-> "exclude", ids |-> ids]
Restore(ids) == [op |-> "restore", ids |-> ids]
Join(ids)    == [op |-> "join", ids |-> ids]
Cite(entry)  == [op |-> "cite", entry |-> entry]
SetWindow(w) == [op |-> "window", to |-> w]
Rebuild      == [op |-> "rebuild"]
ClearStage   == [op |-> "clear"]

Doing(op) == script # <<>> /\ Head(script).op = op /\ script' = Tail(script)
Now == Head(script)

DoExclude ==
  /\ Doing("exclude")
  /\ pending' = pending \ Now.ids
  /\ removed' = removed \cup Now.ids
  /\ UNCHANGED <<pool, ledger, asked, window, stage, flight, rebuilt, budget>>

(* Mutant: a row comes back whatever its day. *)
DoRestoreAnyDay ==
  /\ Doing("restore")
  /\ pending' = pending \cup Now.ids /\ removed' = removed \ Now.ids
  /\ UNCHANGED <<pool, ledger, asked, window, stage, flight, rebuilt, budget>>

(* Rows of the default pool or of the ledger come back; ids that are in
   neither any more are ignored. *)
DoRestore ==
  /\ Doing("restore")
  /\ LET back == Now.ids \cap (DefaultItems(window)
                               \cup {Citation(i) : i \in DOMAIN ledger})
     IN pending' = pending \cup back /\ removed' = removed \ Now.ids
  /\ UNCHANGED <<pool, ledger, asked, window, stage, flight, rebuilt, budget>>

(* Mutant: the preview is built anew with the chosen citations. *)
DoJoinAnew ==
  /\ Doing("join")
  /\ pending' = PendingItems(window, Cited(pending) \cup Now.ids)
  /\ removed' = removed \ {Citation(i) : i \in Now.ids}
  /\ UNCHANGED <<pool, ledger, asked, window, stage, flight, rebuilt, budget>>

(* Chosen citations, whatever the date window says. *)
DoJoin ==
  /\ Doing("join")
  /\ LET back == {Citation(i) : i \in Now.ids \cap DOMAIN ledger}
     IN pending' = pending \cup back /\ removed' = removed \ back
  /\ UNCHANGED <<pool, ledger, asked, window, stage, flight, rebuilt, budget>>

DoCite ==
  /\ Doing("cite")
  /\ ledger' = Append(ledger, Now.entry)
  /\ UNCHANGED <<pool, pending, asked, window, stage, flight, history, budget>>

DoWindow ==
  /\ Doing("window")
  /\ window' = Now.to
  /\ UNCHANGED <<pool, ledger, pending, asked, stage, flight, history, budget>>

(* refresh_pending_send for the same question: the whole pool again, with the
   citations that are still pending.  What was taken off is not remembered. *)
DoRebuild ==
  /\ Doing("rebuild")
  /\ pending' = PendingItems(window, Cited(pending))
  /\ rebuilt' = TRUE
  /\ UNCHANGED <<pool, ledger, asked, window, stage, flight, removed, budget>>

DoClear ==
  /\ Doing("clear")
  /\ stage' = NoStage
  /\ UNCHANGED <<pool, ledger, pending, asked, window, flight, history, budget>>

Save == \/ DoExclude \/ DoRestore \/ DoJoin \/ DoCite \/ DoWindow \/ DoRebuild
        \/ DoClear

-----------------------------------------------------------------------------
(* Messages and answers *)

(* A question: the preview is built for it.  The citations of the last preview
   are carried over, and so is what is ticked on an edit card. *)
Ask ==
  /\ Idle
  /\ pending' = PendingItems(window, Cited(pending))
  /\ asked' = TRUE
  /\ removed' = {} /\ rebuilt' = FALSE
  /\ UNCHANGED <<pool, ledger, window, stage, script, flight, budget>>

(* A question about the document sync or the bot itself, or small talk, is a
   turn at once, without a preview. *)
AskSyncStatus ==
  /\ Idle
  /\ turns + flight < MaxTurns
  /\ RecordTurn
  /\ UNCHANGED <<pending, asked, window, script, flight, history, budget>>

(* "Answer now", on any preview card: the pending set goes out as it is.  It
   stays, so the button works again. *)
DirectAnswer ==
  /\ Idle /\ asked
  /\ turns + flight < MaxTurns
  /\ flight' = flight + 1
  /\ UNCHANGED <<pool, ledger, pending, asked, window, stage, script, history,
                 budget>>

(* An answer comes back and is recorded. *)
AnswerBack ==
  /\ Idle
  /\ flight > 0 /\ flight' = flight - 1
  /\ RecordTurn
  /\ UNCHANGED <<pending, asked, window, script, history, budget>>

-----------------------------------------------------------------------------
(* Buttons *)

Press == /\ Idle /\ asked /\ edits < MaxEdits
         /\ edits' = edits + 1
         /\ UNCHANGED <<pool, ledger, pending, asked, window, flight, history,
                        crashes>>

(* The items the buttons name: an item that is neither pending nor in the pool
   nor on the ledger any more has buttons on old cards, which change nothing. *)
Shown == pending \cup {Citation(i) : i \in DOMAIN ledger}
         \cup DefaultItems([start |-> NoDay, end |-> NoDay])

(* "Remove", "restore" and "join" on a preview card take effect at once. *)
ExcludeItem(item) == Press /\ Run(<<Exclude({item})>>) /\ UNCHANGED stage
RestoreItem(item) == Press /\ Run(<<Restore({item})>>) /\ UNCHANGED stage
SelectHistory(i) == Press /\ Run(<<Join({i})>>) /\ UNCHANGED stage

(* The same on an edit card are ticks: a second one takes the first back. *)
Flip(S, x) == IF x \in S THEN S \ {x} ELSE S \cup {x}

Tick(field, x) ==
  /\ Press
  /\ stage' = [stage EXCEPT ![field] = Flip(@, x)]
  /\ UNCHANGED script

(* Opening the edit card, and going back from it, drops the ticks. *)
OpenOrLeaveEdit == Press /\ stage' = NoStage /\ UNCHANGED script

(* "Confirm" on an edit card: removals, then what is restored, then what is
   joined, then the stage is cleared; a save each. *)
WhenTicked(ids, op) == IF ids = {} THEN <<>> ELSE <<op>>

(* Mutant: removals last. *)
RemovalsLast(s) == WhenTicked(s.restore, Restore(s.restore))
                   \o WhenTicked(s.join, Join(s.join))
                   \o WhenTicked(s.exclude, Exclude(s.exclude))
                   \o <<ClearStage>>

ApplyStage(s) == WhenTicked(s.exclude, Exclude(s.exclude))
                 \o WhenTicked(s.restore, Restore(s.restore))
                 \o WhenTicked(s.join, Join(s.join))
                 \o <<ClearStage>>

ConfirmEdit == Press /\ Run(ApplyStage(stage)) /\ UNCHANGED stage

(* A group message: cited once, then joined. *)
CitationsOf(m) == {i \in DOMAIN ledger : ledger[i].source = "message"
                                         /\ ledger[i].of = m}
(* Mutant: nobody looks whether the message is cited. *)
SelectMessageAgain(m) ==
  /\ Press
  /\ Run(<<Cite([source |-> "message", of |-> m, day |-> MessageDay[m]]),
           Join({Len(ledger) + 1})>>)
  /\ UNCHANGED stage

SelectGroupMessage(m) ==
  /\ Press
  /\ IF CitationsOf(m) # {}
     THEN Run(<<Join({Oldest(CitationsOf(m))})>>)
     ELSE Run(<<Cite([source |-> "message", of |-> m, day |-> MessageDay[m]]),
                Join({Len(ledger) + 1})>>)
  /\ UNCHANGED stage

(* A date picker changes one bound; an empty window is refused.  The pending
   set is rebuilt, and no card shows it. *)
SetDateBound(bound, day) ==
  LET w == [window EXCEPT ![bound] = day]
  IN /\ Press
     /\ w.start # NoDay /\ w.end # NoDay => w.start <= w.end
     /\ Run(<<SetWindow(w), Rebuild>>)
     /\ UNCHANGED stage

ClearDateWindow == /\ Press
                   /\ Run(<<SetWindow([start |-> NoDay, end |-> NoDay]), Rebuild>>)
                   /\ UNCHANGED stage

ConfirmDateWindow == Press /\ Run(<<Rebuild>>) /\ UNCHANGED stage

(* The process dies: the session is as it was last saved, the rest is gone. *)
Crash ==
  /\ crashes < MaxCrashes
  /\ script # <<>> \/ flight > 0
  /\ script' = <<>> /\ flight' = 0
  /\ crashes' = crashes + 1
  /\ UNCHANGED <<pool, ledger, pending, asked, window, stage, history, edits>>

Buttons ==
  \/ \E item \in Shown : \/ ExcludeItem(item) \/ RestoreItem(item)
                         \/ Tick("exclude", item) \/ Tick("restore", item)
  \/ \E i \in DOMAIN ledger : SelectHistory(i) \/ Tick("join", i)
  \/ \E m \in Messages : SelectGroupMessage(m)
  \/ OpenOrLeaveEdit \/ ConfirmEdit
  \/ \E bound \in {"start", "end"}, day \in PickedDays : SetDateBound(bound, day)
  \/ ClearDateWindow \/ ConfirmDateWindow

Next == \/ Save
        \/ Ask \/ AskSyncStatus \/ DirectAnswer \/ AnswerBack
        \/ Buttons
        \/ Crash

Spec == Init /\ [][Next]_vars

-----------------------------------------------------------------------------
Items == [kind : {"turn", "summary", "citation"}, at : Nat]
Windows == [start : PickedDays \cup {NoDay}, end : PickedDays \cup {NoDay}]

TypeOK ==
  /\ turns \in 0..MaxTurns
  /\ recent \in Seq(1..MaxTurns) /\ cycle \subseteq 1..MaxTurns
  /\ \A i \in DOMAIN ledger :
       \/ ledger[i].source = "turn" /\ ledger[i].of \in 1..MaxTurns
       \/ ledger[i].source = "message" /\ ledger[i].of \in Messages
  /\ pending \subseteq Items /\ asked \in BOOLEAN
  /\ window \in Windows
  /\ stage.exclude \subseteq Items /\ stage.restore \subseteq Items
  /\ stage.join \subseteq Nat
  /\ flight \in 0..MaxTurns
  /\ removed \subseteq Items /\ rebuilt \in BOOLEAN
  /\ edits \in 0..MaxEdits /\ crashes \in 0..MaxCrashes

(* The pool never has a hole: the recent turns are the newest ones, the last
   compression holds the turns right before them, and neither grows beyond its
   limit.  About record_turn, split_recent_turns_for_compression and the sliding
   window of compress_overflow_into_summary. *)
PoolIsContiguous ==
  /\ \A i \in DOMAIN recent : recent[i] = turns - Len(recent) + i
  /\ Len(recent) <= RecentTurnLimit
  /\ turns > Len(recent) =>
       \E first \in 1..turns : cycle = first..(turns - Len(recent))
  /\ Cardinality(cycle) <= CompressEnd

(* No turn is forgotten: whatever was compressed since, each recorded turn has
   one citation through which it can be fetched (record_turn: "citation must
   be written before compression"). *)
EveryTurnIsCited ==
  \A t \in 1..turns :
    Cardinality({i \in DOMAIN ledger : ledger[i] = TurnCitation(t)}) = 1

(* A group message is cited once, however often it is picked and wherever the
   process dies between the two saves. *)
OneCitationPerMessage == \A m \in Messages : Cardinality(CitationsOf(m)) <= 1

(* The default items on the card lie in the date window, over every way they
   get there and every change of the window, while no handler is between its
   saves.  (A process that dies between the window and the rebuilt set leaves
   the old set until the next question.) *)
WindowFilters ==
  Idle /\ crashes = 0 =>
    \A item \in pending : item.kind # "citation" => InDateWindow(item.at, window)

(* The last save of "confirm" leaves what was ticked: every tick to restore or
   to join is in the set, as far as it still exists, and every tick to remove
   is out unless it was also ticked to come back.  Over up to four saves, a
   process that dies between them, and a second press. *)
TicksAreApplied ==
  [][(script = <<ClearStage>> /\ stage # NoStage /\ stage' = NoStage) =>
       LET joined == {Citation(i) : i \in stage.join \cap DOMAIN ledger}
           known == DefaultItems(window) \cup {Citation(i) : i \in DOMAIN ledger}
       IN /\ joined \cup (stage.restore \cap known) \subseteq pending'
          /\ stage.exclude \cap pending' \subseteq joined \cup stage.restore]_vars

(* An item taken off the preview is not sent with this question, as long as the
   date window is left alone: a new window, or the confirmation of the old one,
   builds the set anew and brings back what was taken off. *)
RemovedStaysOut ==
  [][flight' = flight + 1 /\ ~rebuilt => pending \cap removed = {}]_vars
=============================================================================
