------------------------ MODULE ConversationBranches ------------------------
(***************************************************************************)
(* The branching conversation lines of one Feishu binding (tenant, chat,   *)
(* user, project): ConversationService, SQLiteConversationStore and the    *)
(* Feishu handlers that drive them.                                        *)
(*                                                                         *)
(* A Feishu handler runs whole on the event loop: it reads (Start of an    *)
(* action below) and then executes `script', the store calls it makes one  *)
(* after the other.  Each store call commits by itself, so a crash may cut *)
(* a script anywhere.  No other handler starts meanwhile.  An answer to a  *)
(* confirmed question is computed in the background and comes back at any  *)
(* later moment; the tools it uses run in a worker thread and interleave   *)
(* with the store calls of any script.                                     *)
(*                                                                         *)
(* A turn stands for the question, its answer and the citation written     *)
(* with them.  Contents, summaries and the items of the pending context    *)
(* are left out; `pending' says that pending_send is set.  A store call    *)
(* that stores a row and then binds it when nothing is bound is one step.  *)
(***************************************************************************)
EXTENDS Naturals, Sequences, FiniteSets, FiniteSetsExt

CONSTANTS MaxLines,     \* bound: session ids that may be allocated
          Turns,        \* questions of users
          NoLine,
          Letters,      \* single-letter branch labels: 26 in the code
          TTL,          \* session_ttl, in ticks
          MaxTime,      \* bound of the clock
          Faults        \* which of "crash" and "tool" happen

ASSUME ConversationAssumption ==
    /\ MaxLines \in Nat \ {0}
    /\ Letters \in Nat \ {0}
    /\ TTL \in Nat
    /\ MaxTime \in Nat
    /\ NoLine \notin 1..MaxLines
    /\ Faults \subseteq {"crash", "tool"}

VARIABLES now,      \* the clock
          store,    \* the SQLite file: session rows and the binding
          turn,     \* what became of each question
          tool,     \* the worker-thread tool of each running answer
          script,   \* store calls the handler on the event loop still makes
          dropped   \* history: turns a tool's save has dropped from a line

vars == <<now, store, turn, tool, script, dropped>>

(* Session ids are handed out in order: uuid4 in the code, and ties in the *)
(* name order of list_by_binding keep insertion order.                     *)
Lines == 1..MaxLines

(* Label number n: the letters A, B, ... are 0..Letters-1, "branch-k" is   *)
(* Letters + k.                                                            *)
Names == 0..(Letters + MaxLines + 1)

(* No row ("unused"), a row, or a row that was deleted or dropped.         *)
Row == [state : {"unused", "stored", "deleted"}, name : Names, stopped : BOOLEAN,
        expires : 0..(MaxTime + TTL), parent : Lines \cup {NoLine},
        turns : SUBSET Turns, pending : BOOLEAN]

Blank == [state |-> "unused", name |-> 0, stopped |-> FALSE, expires |-> 0,
          parent |-> NoLine, turns |-> {}, pending |-> FALSE]

Store == [session : [Lines -> Row], active : Lines \cup {NoLine}]

(* A question is asked ("running") on a line and its answer is written to  *)
(* that line ("done"), or lost with the process.                           *)
Asked == [pc : {"new", "running", "done", "lost"}, line : Lines \cup {NoLine}]

(* The tool of an answer has read the binding ("read": id is the active    *)
(* session), has found a copy to save ("save"), or found no session and is *)
(* about to delete the binding ("unbind").                                 *)
Tool == [pc : {"none", "read", "save", "unbind"}, id : Lines \cup {NoLine}, row : Row]
NoTool == [pc |-> "none", id |-> NoLine, row |-> Blank]

Call == [op : {"put", "activate", "remove", "unbind", "survive", "list"},
         id : Lines \cup {NoLine}, row : Row]

Put(s, row) == [op |-> "put", id |-> s, row |-> row]
Activate(s) == [op |-> "activate", id |-> s, row |-> Blank]
Remove(s) == [op |-> "remove", id |-> s, row |-> Blank]
Unbind(s) == [op |-> "unbind", id |-> s, row |-> Blank]
PickSurvivor == [op |-> "survive", id |-> NoLine, row |-> Blank]
ListBranches == [op |-> "list", id |-> NoLine, row |-> Blank]

Init ==
    /\ now = 0
    /\ store = [session |-> [s \in Lines |-> Blank], active |-> NoLine]
    /\ turn = [t \in Turns |-> [pc |-> "new", line |-> NoLine]]
    /\ tool = [t \in Turns |-> NoTool]
    /\ script = <<>>
    /\ dropped = [s \in Lines |-> {}]

-----------------------------------------------------------------------------
(* The store: reads drop what has expired                                  *)

Stored(d) == {s \in Lines : d.session[s].state = "stored"}
Live(d) == {s \in Stored(d) : d.session[s].expires >= now}

(* _hydrate_or_drop of the rows S: an expired row goes, and with it the    *)
(* binding that names it.                                                  *)
Read(d, S) ==
    LET gone == (Stored(d) \ Live(d)) \cap S IN
    [session |-> [s \in Lines |-> IF s \in gone THEN [d.session[s] EXCEPT !.state = "deleted"]
                                                ELSE d.session[s]],
     active |-> IF d.active \in gone THEN NoLine ELSE d.active]

(* list_by_binding sorts by branch_name.                                   *)
Earliest(d, S) ==
    CHOOSE s \in S : \A u \in S : \/ d.session[s].name < d.session[u].name
                                  \/ d.session[s].name = d.session[u].name /\ s <= u

(* The first line that accepts writes, otherwise the first line.           *)
Preferred(d) ==
    LET open == {s \in Live(d) : ~d.session[s].stopped} IN
    Earliest(d, IF open = {} THEN Live(d) ELSE open)

(* _legacy_binding_fallback: nothing is bound, so bind some line.          *)
Fallback(d) ==
    LET listed == Read(d, Lines) IN
    IF Live(listed) = {} THEN listed ELSE [listed EXCEPT !.active = Preferred(listed)]

(* get_by_binding.  It returns the session d.active names afterwards; a    *)
(* binding to a missing or expired session is deleted and None returned.   *)
ByBinding(d) ==
    IF d.active = NoLine THEN Fallback(d)
    ELSE IF d.active \in Live(d) THEN d
    ELSE [Read(d, {d.active}) EXCEPT !.active = NoLine]

Upserted(d, s, row) ==
    [session |-> [d.session EXCEPT ![s] = row],
     active |-> IF d.active = NoLine THEN s ELSE d.active]

-----------------------------------------------------------------------------
(* ConversationService: the rows it builds                                 *)

NewLine == [Blank EXCEPT !.state = "stored", !.expires = now + TTL]

TouchedAgain(row) == [row EXCEPT !.expires = @ + TTL]
Touched(row) == [row EXCEPT !.expires = now + TTL]
Refreshed(row) == [Touched(row) EXCEPT !.pending = TRUE]

RecordedAlone(row, t) == [Touched(row) EXCEPT !.turns = {t}]
Recorded(row, t) == [Touched(row) EXCEPT !.turns = @ \cup {t}]

Frozen(row) == [Touched(row) EXCEPT !.stopped = TRUE]

ThawedNot(row) == Touched(row)
Thawed(row) == IF row.stopped THEN [Touched(row) EXCEPT !.stopped = FALSE] ELSE row

Branch(row, s, name) == [Touched(row) EXCEPT !.stopped = FALSE, !.parent = s, !.name = name]

(* _next_branch_name: the least unused letter, else "branch-N".            *)
NextNameByCount(used) == Cardinality(used)
NextName(used) ==
    LET free == (0..(Letters - 1)) \ used IN
    IF free # {} THEN Min(free) ELSE Letters + Cardinality(used) + 1

(* _require_writable, on the copy of s the caller holds.                   *)
WritableIfNotStopped(d, s) == ~d.session[s].stopped
Writable(d, s) == ~d.session[s].stopped /\ d.active = s

(* Deleting is refused when it would leave no line.                        *)
MayDeleteAny(d) == Live(d) # {}
MayDelete(d) == Cardinality(Live(d)) >= 2

HasPending(d, s) == s \in Live(d) /\ d.session[s].pending

(* Rows a card button can name: sessions that exist or once did.           *)
Known == {s \in Lines : store.session[s].state # "unused"}
Unused == Lines \ Known

(* store.get of the button's session, and _require_writable's read of the  *)
(* binding when the copy is not stopped.                                   *)
Opened(s) ==
    LET d == Read(store, {s}) IN
    IF HasPending(d, s) /\ ~d.session[s].stopped THEN ByBinding(d) ELSE d

(* A card that shows the preview lists the branches; others do not.        *)
Shown == {<<>>, <<ListBranches>>}

(* The handler read the store (d) and goes on with calls, or is refused.   *)
Handle(d, accepted, calls) ==
    /\ store' = d
    /\ script' = IF accepted THEN calls ELSE <<>>

Idle == script = <<>>

-----------------------------------------------------------------------------
(* Feishu handlers                                                         *)

(* get_or_create: the bound line, or a new root called "A".                *)
Current(d) == IF d.active # NoLine THEN d.active ELSE Min(Unused)
CurrentRow(d) == IF d.active # NoLine THEN d.session[d.active] ELSE NewLine
Created(d) ==
    IF d.active # NoLine THEN <<>>
    ELSE <<Put(Current(d), NewLine), Activate(Current(d))>>

Accepts(d) == d.active = NoLine \/ Writable(d, d.active)
Room(d) == d.active # NoLine \/ Unused # {}

(* A chat message answered at once (sync status, bot and small talk, role  *)
(* view): attach_runtime_access saves the session, record_turn the turn.   *)
Chat(t) ==
    LET d == ByBinding(store)  s == Current(d)  row == CurrentRow(d) IN
    /\ Idle /\ Room(d)
    /\ turn[t].pc = "new"
    /\ Handle(d, Accepts(d), Created(d) \o <<Put(s, row), Put(s, Recorded(row, t))>>)
    /\ turn' = IF Accepts(d) THEN [turn EXCEPT ![t] = [pc |-> "done", line |-> s]] ELSE turn
    /\ UNCHANGED <<now, tool, dropped>>

(* A project question, by message or card: refresh_pending_send, and the   *)
(* preview card.  A card asking for the sync status stops after the first  *)
(* save.                                                                   *)
Ask ==
    LET d == ByBinding(store)  s == Current(d)  row == CurrentRow(d) IN
    /\ Idle /\ Room(d)
    /\ \E rest \in {<<>>, <<Put(s, Refreshed(row)), ListBranches>>} :
           Handle(d, Accepts(d), Created(d) \o <<Put(s, row)>> \o rest)
    /\ UNCHANGED <<now, turn, tool, dropped>>

(* The preview is confirmed: access is attached and the answer starts in   *)
(* the background.  pending_send stays set.                                *)
Confirm(s, t) ==
    LET d == Opened(s)  ok == HasPending(d, s) /\ Writable(d, s) IN
    /\ Idle
    /\ s \in Known /\ turn[t].pc = "new"
    /\ Handle(d, ok, <<Put(s, d.session[s])>>)
    /\ turn' = IF ok THEN [turn EXCEPT ![t] = [pc |-> "running", line |-> s]] ELSE turn
    /\ UNCHANGED <<now, tool, dropped>>

(* Changes of the pending context, the date window or the citations, each  *)
(* behind _require_writable.  Confirming staged edits saves the row once   *)
(* per kind of edit; those saves differ only in the items left out here.   *)
Edit(s) ==
    LET d == Opened(s) IN
    /\ Idle
    /\ s \in Known
    /\ \E card \in Shown :
           Handle(d, HasPending(d, s) /\ Writable(d, s),
                  <<Put(s, Touched(d.session[s]))>> \o card)
    /\ UNCHANGED <<now, turn, tool, dropped>>

(* A tick on the edit card (toggle_context_edit_*, clear_context_edit_     *)
(* stage): saved with no look at the binding, and for "exclude" none at    *)
(* write_stopped either.                                                   *)
Stage(s) ==
    LET d == Read(store, {s}) IN
    /\ Idle
    /\ s \in Known
    /\ \E card \in Shown :
           Handle(d, HasPending(d, s), <<Put(s, Touched(d.session[s]))>> \o card)
    /\ UNCHANGED <<now, turn, tool, dropped>>

(* fork_session: freeze the parent, store the copy, bind it.               *)
Fork(s) ==
    LET d == Read(Opened(s), Lines)
        row == d.session[s]
        child == Min(Unused)
        name == NextName({d.session[u].name : u \in Live(d)}) IN
    /\ Idle
    /\ s \in Known /\ Unused # {}
    /\ Handle(d, HasPending(d, s) /\ Writable(Opened(s), s),
              <<Put(s, Frozen(row)), Put(child, Branch(row, s, name)), Activate(child),
                ListBranches>>)
    /\ UNCHANGED <<now, turn, tool, dropped>>

(* Continue on line u: thaw it, bind it, give it a preview if it has none. *)
Resume(u, row) ==
    (IF row.stopped THEN <<Put(u, Thawed(row))>> ELSE <<>>)
    \o <<Activate(u)>>
    \o (IF row.pending THEN <<>> ELSE <<Put(u, Refreshed(Thawed(row)))>>)
    \o <<ListBranches>>

Switch(s, u) ==
    LET d == Read(store, {s, u}) IN
    /\ Idle
    /\ s \in Known /\ u \in Known
    /\ Handle(d, HasPending(d, s) /\ u \in Live(d), Resume(u, d.session[u]))
    /\ UNCHANGED <<now, turn, tool, dropped>>

Delete(s, u) ==
    LET d == Read(store, {s, u})
        listed == IF HasPending(d, s) /\ u \in Live(d) THEN Read(d, Lines) ELSE d IN
    /\ Idle
    /\ s \in Known /\ u \in Known
    /\ Handle(listed, HasPending(d, s) /\ u \in Live(d) /\ MayDelete(listed),
              <<Remove(u), Unbind(u), PickSurvivor>>)
    /\ UNCHANGED <<now, turn, tool, dropped>>

(* The answer is back and was posted; _persist_hermes_turn writes it to    *)
(* the session the question was confirmed on, if that still takes writes.  *)
ActiveLine(t) == store.active
AnswerLine(t) == turn[t].line

Persist(t) ==
    LET s == AnswerLine(t)
        g == Read(store, {s})
        found == s \in Live(g)
        d == IF found /\ ~g.session[s].stopped THEN ByBinding(g) ELSE g
        row == Recorded(g.session[s], t) IN
    /\ Idle
    /\ turn[t].pc = "running" /\ tool[t].pc = "none"
    /\ Handle(d, found /\ Writable(d, s), <<Put(s, row), Put(s, row)>>)
    /\ turn' = [turn EXCEPT ![t].pc = "done"]
    /\ UNCHANGED <<now, tool, dropped>>

-----------------------------------------------------------------------------
(* The store calls of the running handler                                  *)

Next_(op) == ~Idle /\ Head(script).op = op
Done == script' = Tail(script) /\ UNCHANGED <<now, turn, tool, dropped>>

Upsert ==
    /\ Next_("put")
    /\ store' = Upserted(store, Head(script).id, Head(script).row)
    /\ Done

SetActiveSession ==
    /\ Next_("activate")
    /\ store' = [store EXCEPT !.active = Head(script).id]
    /\ Done

(* store.delete: the row, and then the binding if it names that row.       *)
DeleteRow ==
    /\ Next_("remove")
    /\ store' = [store EXCEPT !.session[Head(script).id].state = "deleted"]
    /\ Done

DeleteBinding ==
    /\ Next_("unbind")
    /\ store' = IF store.active = Head(script).id THEN [store EXCEPT !.active = NoLine]
                                                  ELSE store
    /\ Done

(* The rest of delete_session: the bound line, or the preferred one.       *)
ChooseSurvivor ==
    LET listed == Read(store, Lines)
        d == ByBinding(listed)
        u == IF d.active # NoLine THEN d.active ELSE Preferred(d) IN
    /\ Next_("survive")
    /\ IF Live(listed) = {}
       THEN store' = listed /\ script' = <<>>
       ELSE store' = d /\ script' = Resume(u, d.session[u])
    /\ UNCHANGED <<now, turn, tool, dropped>>

ShowBranches ==
    /\ Next_("list")
    /\ store' = ByBinding(Read(store, Lines))
    /\ Done

-----------------------------------------------------------------------------
(* The tools of a running answer (get_citation_body, active_date_window)   *)

SetTool(t, pc, s, row) == tool' = [tool EXCEPT ![t] = [pc |-> pc, id |-> s, row |-> row]]

(* get_by_binding, first statement.  With nothing bound, the fallback      *)
(* binds a line and hands it over.                                         *)
ToolLookup(t) ==
    LET d == ByBinding(store) IN
    /\ "tool" \in Faults
    /\ turn[t].pc = "running" /\ tool[t].pc = "none"
    /\ IF store.active # NoLine
       THEN UNCHANGED store /\ SetTool(t, "read", store.active, Blank)
       ELSE /\ store' = d
            /\ IF d.active # NoLine /\ ~d.session[d.active].stopped
               THEN SetTool(t, "save", d.active, d.session[d.active])
               ELSE UNCHANGED tool
    /\ UNCHANGED <<now, turn, script, dropped>>

(* get_by_binding, second statement: the session it named.  Only a copy    *)
(* that needs its citation body filled in, and is not stopped, is saved.   *)
ToolRead(t) ==
    LET s == tool[t].id  d == Read(store, {s}) IN
    /\ tool[t].pc = "read"
    /\ store' = d
    /\ \/ s \notin Live(d) /\ SetTool(t, "unbind", s, Blank)
       \/ s \in Live(d) /\ ~d.session[s].stopped /\ SetTool(t, "save", s, d.session[s])
       \/ s \in Live(d) /\ SetTool(t, "none", NoLine, Blank)
    /\ UNCHANGED <<now, turn, script, dropped>>

(* get_by_binding, third statement: whatever is bound now is unbound.      *)
ToolUnbind(t) ==
    /\ tool[t].pc = "unbind"
    /\ store' = [store EXCEPT !.active = NoLine]
    /\ SetTool(t, "none", NoLine, Blank)
    /\ UNCHANGED <<now, turn, script, dropped>>

(* The copy goes back as it was read, over what was saved meanwhile.       *)
ToolSave(t) ==
    LET s == tool[t].id IN
    /\ tool[t].pc = "save"
    /\ store' = Upserted(store, s, tool[t].row)
    /\ dropped' = [dropped EXCEPT ![s] = @ \cup (store.session[s].turns \ tool[t].row.turns)]
    /\ SetTool(t, "none", NoLine, Blank)
    /\ UNCHANGED <<now, turn, script>>

-----------------------------------------------------------------------------
(* The process dies and restarts: the file stays.                          *)
Crash ==
    /\ "crash" \in Faults
    /\ ~Idle \/ \E t \in Turns : turn[t].pc = "running"
    /\ script' = <<>>
    /\ tool' = [t \in Turns |-> NoTool]
    /\ turn' = [t \in Turns |-> IF turn[t].pc = "running" THEN [turn[t] EXCEPT !.pc = "lost"]
                                                          ELSE turn[t]]
    /\ UNCHANGED <<now, store, dropped>>

(* A handler takes no time on the scale of session_ttl.                    *)
Tick ==
    /\ Idle
    /\ now < MaxTime
    /\ now' = now + 1
    /\ UNCHANGED <<store, turn, tool, script, dropped>>

StoreCall == \/ Upsert \/ SetActiveSession \/ DeleteRow
             \/ DeleteBinding \/ ChooseSurvivor \/ ShowBranches

Next ==
    \/ Ask
    \/ \E t \in Turns : \/ Chat(t) \/ Persist(t)
                        \/ ToolLookup(t) \/ ToolRead(t) \/ ToolUnbind(t) \/ ToolSave(t)
    \/ \E s \in Lines : Edit(s) \/ Stage(s) \/ Fork(s)
    \/ \E s \in Lines, t \in Turns : Confirm(s, t)
    \/ \E s, u \in Lines : Switch(s, u) \/ Delete(s, u)
    \/ StoreCall
    \/ Crash
    \/ Tick

Spec == Init /\ [][Next]_vars

-----------------------------------------------------------------------------
(* Properties                                                              *)

(* Every variable has its type.                                            *)
TypeOK ==
    /\ now \in 0..MaxTime
    /\ store \in Store
    /\ turn \in [Turns -> Asked]
    /\ tool \in [Turns -> Tool]
    /\ script \in Seq(Call)
    /\ dropped \in [Lines -> SUBSET Turns]

(* Between two handlers the binding that has lines has one in progress: it *)
(* names a stored line that accepts writes.                                *)
OneLineInProgress ==
    Idle /\ Stored(store) # {} =>
        /\ store.active \in Stored(store)
        /\ ~store.session[store.active].stopped

(* Two branches never carry the same letter: a letter is taken again only  *)
(* after its branch is gone.                                               *)
UniqueLetters ==
    \A s, u \in Stored(store) :
        store.session[s].name = store.session[u].name /\ store.session[s].name < Letters
            => s = u

(* Once the binding has a line it always keeps one, whatever is deleted    *)
(* and however often the delete button of an old card is pressed.          *)
SomeLineStays == [][Stored(store) # {} => Stored(store') # {}]_vars

(* A line that exists gains a turn only while it is the one in progress,   *)
(* and only a turn that was asked on it: late answers never reach a line   *)
(* the user has left.                                                      *)
TurnsGoToTheirLine ==
    [][\A s \in Stored(store) \cap Stored(store') :
           \A t \in store'.session[s].turns \ store.session[s].turns :
               store'.active = s /\ turn'[t].line = s]_vars

(* As long as a line exists it keeps every turn recorded on it, unless the *)
(* tool of an answer saves an older copy of the session over the turn: no  *)
(* handler, crash or expiry drops one, whatever tools do in between.       *)
TurnsAreKept ==
    [][\A s \in Stored(store) \cap Stored(store') :
           store.session[s].turns \ store'.session[s].turns \subseteq dropped'[s]]_vars

(* The line itself and the lines it was forked from, up to the root: the   *)
(* least set with the line in it and the parent of each member.            *)
Lineage(d, s) ==
    LET Closed(S) == \A v \in S : d.session[v].parent \in Lines => d.session[v].parent \in S
    IN {u \in Lines : \A S \in SUBSET Lines : s \in S /\ Closed(S) => u \in S}

(* A line holds only turns asked on it or on a line it descends from.      *)
NoForeignTurns ==
    \A s \in Stored(store) : \A t \in store.session[s].turns : turn[t].line \in Lineage(store, s)
=============================================================================
