--------------------- MODULE ConversationBranchesProofs ---------------------
(***************************************************************************)
(* ConversationBranches for any number of lines, letters, questions and    *)
(* ticks.  A copy of a row lives in the store, in the calls a handler has  *)
(* still to make and in the tools of running answers; the invariant Inv    *)
(* says of each copy where its turns come from and that a line keeps the   *)
(* letter it was created with and the parent it was forked from.           *)
(*                                                                         *)
(* More invariants say what the rest of a script is good for: Spared, that *)
(* its saves lose no turn but those a tool has dropped; Works, without the *)
(* tools of answers, that they lose none at all, bring a new one only to   *)
(* its own line and remove no last line; Settles and Lettered, that it     *)
(* ends with a line in progress and takes no letter that is in use.  Each  *)
(* has a lemma for every handler that starts a script and for every call   *)
(* it makes.                                                               *)
(***************************************************************************)
EXTENDS ConversationBranches, FiniteSetTheorems, SequenceTheorems, WellFoundedInduction, TLAPS

(* The turns of the copy r of line s were asked on it or on an ancestor.   *)
Descends(d, tn, s, r) ==
    \A t \in r.turns : /\ tn[t].pc # "new"
                       /\ \/ tn[t].line = s
                          \/ r.parent \in Lines /\ tn[t].line \in Lineage(d, r.parent)

(* A row is saved with the whole session_ttl before it.                    *)
Lives(r) == r.state = "stored" /\ r.expires >= TTL

Exists(d, s) == d.session[s].state # "unused"

RowsFit(d, tn) ==
    \A s \in Lines : /\ Descends(d, tn, s, d.session[s])
                     /\ ~Exists(d, s) => d.session[s] = Blank
                     /\ d.session[s].state = "stored" => Lives(d.session[s])

(* Parent and letter of a line are for life.                               *)
Kin(r, q) == r.parent = q.parent /\ r.name = q.name

(* The calls of a handler that may create line c as a copy of the row f.   *)
Calls(d, tn, c, f) ==
    {k \in Call : /\ k.op \notin {"survive", "list"} => k.id \in Lines
                  /\ k.op = "remove" => Exists(d, k.id)
                  /\ k.op = "put" =>
                        /\ Lives(k.row)
                        /\ Descends(d, tn, k.id, k.row)
                        /\ IF Exists(d, k.id) THEN Kin(k.row, d.session[k.id])
                                              ELSE k.id = c /\ Kin(k.row, f)}

Parents == Lines \cup {NoLine}

ScriptFits == \E c \in Lines, f \in Row : script \in Seq(Calls(store, turn, c, f))

(* A tool that is about to save holds such a copy of a line that exists.   *)
ToolFits(d, tn, w) ==
    /\ w.pc # "none" => w.id \in Lines
    /\ w.pc = "save" => /\ Exists(d, w.id) /\ Lives(w.row)
                        /\ Kin(w.row, d.session[w.id])
                        /\ Descends(d, tn, w.id, w.row)

ToolsFit == \A t \in Turns : ToolFits(store, turn, tool[t])

(* The types of what the program keeps: of every variable but the history. *)
Types ==
    /\ now \in 0..MaxTime
    /\ store \in Store
    /\ turn \in [Turns -> Asked]
    /\ tool \in [Turns -> Tool]
    /\ script \in Seq(Call)

Inv == Types /\ RowsFit(store, turn) /\ ScriptFits /\ ToolsFit

-----------------------------------------------------------------------------
(* Lines, names and what a read of the store leaves                        *)

LEMMA LineTypes ==
    /\ Lines \subseteq Nat \ {0} /\ NoLine \notin Lines /\ MaxLines \in Nat \ {0}
    /\ IsFiniteSet(Lines) /\ Cardinality(Lines) = MaxLines
<1>1. MaxLines \in Nat \ {0} /\ NoLine \notin 1..MaxLines
  BY ConversationAssumption
<1>2. IsFiniteSet(Lines) /\ Cardinality(Lines) = MaxLines
  BY <1>1, FS_Interval DEF Lines
<1> QED
  BY <1>1, <1>2 DEF Lines

Less == {ss \in Nat \X Nat : ss[1] < ss[2]}

LEMMA LessIsWellFounded == IsWellFoundedOn(Less, Nat)
BY NatLessThanWellFounded, Zenon DEF OpToRel, Less

LEMMA HasLeast ==
    ASSUME NEW S \in SUBSET Nat, S # {}
    PROVE  \E x \in S : \A y \in S : x <= y
<1>1. PICK x \in S : \A y \in S : ~ (<<y, x>> \in Less)
  BY LessIsWellFounded, WFMin
<1>2. ASSUME NEW y \in S PROVE x <= y
  <2>1. x \in Nat /\ y \in Nat
    OBVIOUS
  <2>2. ~ (y < x)
    <3>1. ~ (<<y, x>> \in Less)
      BY <1>1
    <3>2. y < x => <<y, x>> \in Less
      BY <2>1 DEF Less
    <3> QED
      BY <3>1, <3>2
  <2> QED
    BY <2>1, <2>2
<1> QED
  BY <1>2

LEMMA LeastLine ==
    ASSUME NEW S \in SUBSET Nat, S # {}
    PROVE  Min(S) \in S /\ \A y \in S : Min(S) <= y
BY HasLeast DEF Min

(* Lines are sorted by name, so there is a first one.                      *)
LEMMA EarliestIsOne ==
    ASSUME NEW d \in Store, NEW S \in SUBSET Lines, S # {}
    PROVE  Earliest(d, S) \in S
<1> DEFINE names == {d.session[s].name : s \in S}
           First(s) == \A u \in S : \/ d.session[s].name < d.session[u].name
                                    \/ d.session[s].name = d.session[u].name /\ s <= u
<1>1. \A s \in S : d.session[s].name \in Nat /\ s \in Nat
  BY LineTypes, ConversationAssumption DEF Store, Row, Names
<1>2. PICK n \in names : \A m \in names : n <= m
  BY <1>1, HasLeast
<1> DEFINE same == {s \in S : d.session[s].name = n}
<1>3. same # {} /\ same \in SUBSET Nat
  BY <1>1
<1>4. PICK s \in same : \A u \in same : s <= u
  BY <1>3, HasLeast
<1>5. First(s)
  <2> SUFFICES ASSUME NEW u \in S
               PROVE  \/ d.session[s].name < d.session[u].name
                      \/ d.session[s].name = d.session[u].name /\ s <= u
    OBVIOUS
  <2>1. n <= d.session[u].name /\ d.session[s].name = n /\ n \in Nat /\ d.session[u].name \in Nat
    BY <1>1, <1>2
  <2>2. CASE d.session[u].name = n
    BY <1>4, <2>1, <2>2
  <2>3. CASE d.session[u].name # n
    BY <2>1, <2>3
  <2> QED
    BY <2>2, <2>3
<1>6. s \in S /\ First(s)
  BY <1>5
<1> QED
  BY <1>6 DEF Earliest

(* A read marks some expired rows as deleted and may change the binding.   *)
Aged(d, e) ==
    \A s \in Lines : \/ e.session[s] = d.session[s]
                     \/ /\ d.session[s].state = "stored" /\ s \notin Live(d)
                        /\ e.session[s] = [d.session[s] EXCEPT !.state = "deleted"]

ReadOf(d, e) == e \in Store /\ Aged(d, e) /\ Live(e) = Live(d)

LEMMA ReadAges ==
    ASSUME NEW d \in Store, NEW S
    PROVE  /\ ReadOf(d, Read(d, S))
           /\ Read(d, S).active \in {d.active, NoLine}
<1> DEFINE e == Read(d, S)
           gone == (Stored(d) \ Live(d)) \cap S
<1>1. /\ e.active = IF d.active \in gone THEN NoLine ELSE d.active
      /\ e.session = [s \in Lines |-> IF s \in gone THEN [d.session[s] EXCEPT !.state = "deleted"]
                                      ELSE d.session[s]]
      /\ e = [session |-> e.session, active |-> e.active]
  BY DEF Read
<1>2. \A s \in gone : s \in Lines /\ s \notin Live(d) /\ d.session[s].state = "stored"
  BY DEF Stored
<1> HIDE DEF e, gone
<1>3. \A s \in Lines : d.session[s] \in Row /\ [d.session[s] EXCEPT !.state = "deleted"] \in Row
  BY DEF Store, Row
<1>4. e.session \in [Lines -> Row] /\ e.active \in Lines \cup {NoLine}
  BY <1>1, <1>3 DEF Store
<1>5. e \in Store
  BY <1>1, <1>4 DEF Store
<1>6. Aged(d, e)
  BY <1>1, <1>2 DEF Aged
<1>7. Live(e) = Live(d)
  <2>1. ASSUME NEW s \in Lines PROVE s \in Live(e) <=> s \in Live(d)
    <3>1. CASE s \in gone
      <4>1. e.session[s].state = "deleted"
        BY <1>1, <1>3, <3>1 DEF Row
      <4> QED
        BY <1>2, <3>1, <4>1 DEF Live, Stored
    <3>2. CASE s \notin gone
      BY <1>1, <3>2 DEF Live, Stored
    <3> QED
      BY <3>1, <3>2
  <2> QED
    BY <2>1 DEF Live, Stored
<1> QED
  BY <1>1, <1>5, <1>6, <1>7 DEF ReadOf, e

LEMMA ReadOfRead ==
    ASSUME NEW d \in Store, NEW e, NEW f, ReadOf(d, e), ReadOf(e, f)
    PROVE  ReadOf(d, f)
<1>1. \A s \in Lines : d.session[s] \in Row
  BY DEF Store
<1>2. ASSUME NEW s \in Lines
      PROVE  \/ f.session[s] = d.session[s]
             \/ /\ d.session[s].state = "stored" /\ s \notin Live(d)
                /\ f.session[s] = [d.session[s] EXCEPT !.state = "deleted"]
  BY <1>1 DEF ReadOf, Aged, Row
<1> QED
  BY <1>2 DEF ReadOf, Aged

LEMMA SameReadOf ==
    ASSUME NEW d \in Store
    PROVE  ReadOf(d, d)
BY DEF ReadOf, Aged

(* What is bound plays no part in it.                                      *)
LEMMA BoundReadOf ==
    ASSUME NEW d, NEW e, ReadOf(d, e), NEW a \in Parents
    PROVE  ReadOf(d, [e EXCEPT !.active = a]) /\ [e EXCEPT !.active = a].active = a
<1> DEFINE f == [e EXCEPT !.active = a]
<1>1. f.session = e.session /\ f.active = a /\ f \in Store
  BY DEF ReadOf, Store, Parents
<1> HIDE DEF f
<1>2. Live(f) = Live(e) /\ (Aged(d, f) <=> Aged(d, e))
  BY <1>1 DEF Live, Stored, Aged
<1> QED
  BY <1>1, <1>2 DEF ReadOf, f

LEMMA PreferredIsLive ==
    ASSUME NEW d \in Store, Live(d) # {}
    PROVE  Preferred(d) \in Live(d)
<1> DEFINE open == {s \in Live(d) : ~d.session[s].stopped}
           S == IF open = {} THEN Live(d) ELSE open
<1>1. S \in SUBSET Lines /\ S # {} /\ S \subseteq Live(d)
  BY DEF Live, Stored
<1>2. Preferred(d) = Earliest(d, S)
  BY DEF Preferred
<1> HIDE DEF S
<1> QED
  BY <1>1, <1>2, EarliestIsOne

(* get_by_binding returns a live line or nothing.                          *)
LEMMA BindingIsLive ==
    ASSUME NEW d \in Store
    PROVE  /\ ReadOf(d, ByBinding(d))
           /\ ByBinding(d).active \in Live(d) \cup {NoLine}
           /\ d.active = NoLine /\ Live(d) # {} => ByBinding(d).active # NoLine
<1>0. NoLine \notin Lines /\ Live(d) \subseteq Lines
  BY LineTypes DEF Live, Stored
<1>1. CASE d.active = NoLine
  <2> DEFINE listed == Read(d, Lines)
  <2>1. ReadOf(d, listed) /\ listed.active = NoLine
    BY <1>1, ReadAges
  <2>2. ByBinding(d) = IF Live(listed) = {} THEN listed
                       ELSE [listed EXCEPT !.active = Preferred(listed)]
    BY <1>1 DEF ByBinding, Fallback
  <2> HIDE DEF listed
  <2>3. CASE Live(listed) = {}
    BY <2>1, <2>2, <2>3 DEF ReadOf
  <2>4. CASE Live(listed) # {}
    <3>1. Preferred(listed) \in Live(d) /\ Live(listed) = Live(d)
      BY <2>1, <2>4, PreferredIsLive DEF ReadOf
    <3>2. Preferred(listed) \in Parents
      BY <1>0, <3>1 DEF Parents
    <3> QED
      BY <1>0, <2>1, <2>2, <2>4, <3>1, <3>2, BoundReadOf
  <2> QED
    BY <2>3, <2>4
<1>2. CASE d.active # NoLine /\ d.active \in Live(d)
  BY <1>2, SameReadOf DEF ByBinding
<1>3. CASE d.active # NoLine /\ d.active \notin Live(d)
  <2>1. ByBinding(d) = [Read(d, {d.active}) EXCEPT !.active = NoLine]
    BY <1>3 DEF ByBinding
  <2>2. ReadOf(d, Read(d, {d.active})) /\ NoLine \in Parents
    BY ReadAges DEF Parents
  <2>3. ReadOf(d, ByBinding(d)) /\ ByBinding(d).active = NoLine
    BY <2>1, <2>2, BoundReadOf
  <2> QED
    BY <1>3, <2>3
<1> QED
  BY <1>1, <1>2, <1>3

LEMMA OpenedIsRead ==
    ASSUME store \in Store, NEW s
    PROVE  ReadOf(store, Opened(s))
<1> DEFINE d == Read(store, {s})
<1>1. ReadOf(store, d) /\ d \in Store
  BY ReadAges DEF ReadOf
<1>2. Opened(s) = IF HasPending(d, s) /\ ~d.session[s].stopped THEN ByBinding(d) ELSE d
  BY DEF Opened
<1> HIDE DEF d
<1> QED
  BY <1>1, <1>2, BindingIsLive, ReadOfRead

-----------------------------------------------------------------------------
(* Copies of rows                                                          *)

(* A line that exists keeps its parent and its letter.                     *)
Later(d, e) ==
    \A s \in Lines : Exists(d, s) => Exists(e, s) /\ Kin(e.session[s], d.session[s])

(* A question that was asked stays asked, and on its line.                 *)
TurnsGo(tn, un) ==
    \A t \in Turns : tn[t].pc # "new" => un[t].pc # "new" /\ un[t].line = tn[t].line

LEMMA LineageHasParents ==
    ASSUME NEW d, NEW s \in Lines
    PROVE  /\ s \in Lineage(d, s)
           /\ d.session[s].parent \in Lines => Lineage(d, d.session[s].parent) \subseteq Lineage(d, s)
BY DEF Lineage

LEMMA LineageGrows ==
    ASSUME NEW d, NEW e, NEW tn, RowsFit(d, tn), Later(d, e), NEW s
    PROVE  Lineage(d, s) \subseteq Lineage(e, s)
<1>1. ASSUME NEW v \in Lines, d.session[v].parent \in Lines
      PROVE  e.session[v].parent = d.session[v].parent
  BY <1>1, LineTypes DEF RowsFit, Later, Kin, Blank
<1>2. ASSUME NEW S \in SUBSET Lines,
             \A v \in S : e.session[v].parent \in Lines => e.session[v].parent \in S
      PROVE  \A v \in S : d.session[v].parent \in Lines => d.session[v].parent \in S
  BY <1>1, <1>2
<1>3. ASSUME NEW u \in Lineage(d, s) PROVE u \in Lineage(e, s)
  <2>1. /\ u \in Lines
        /\ \A S \in SUBSET Lines :
              s \in S /\ (\A v \in S : d.session[v].parent \in Lines => d.session[v].parent \in S)
              => u \in S
    BY DEF Lineage
  <2>2. \A S \in SUBSET Lines :
           s \in S /\ (\A v \in S : e.session[v].parent \in Lines => e.session[v].parent \in S)
           => u \in S
    BY <1>2, <2>1
  <2> QED
    BY <2>1, <2>2 DEF Lineage
<1> QED
  BY <1>3

LEMMA DescendsStill ==
    ASSUME NEW d, NEW e, NEW tn, NEW un, RowsFit(d, tn), Later(d, e), TurnsGo(tn, un),
           NEW s, NEW r \in Row, Descends(d, tn, s, r)
    PROVE  Descends(e, un, s, r)
<1>1. r.turns \subseteq Turns
  BY DEF Row
<1>2. \A p : Lineage(d, p) \subseteq Lineage(e, p)
  BY LineageGrows
<1> QED
  BY <1>1, <1>2 DEF Descends, TurnsGo

LEMMA CallsStill ==
    ASSUME NEW d, NEW e, NEW tn, NEW un, RowsFit(d, tn), Later(d, e), TurnsGo(tn, un),
           NEW c, NEW f,
           \A s \in Lines : ~Exists(d, s) /\ Exists(e, s) => s = c /\ Kin(e.session[s], f)
    PROVE  Calls(d, tn, c, f) \subseteq Calls(e, un, c, f)
<1> SUFFICES ASSUME NEW k \in Calls(d, tn, c, f)
             PROVE  k \in Calls(e, un, c, f)
  OBVIOUS
<1>1. /\ k \in Call /\ (k.op \notin {"survive", "list"} => k.id \in Lines)
      /\ k.op = "remove" => Exists(e, k.id)
  BY DEF Calls, Later
<1>2. ASSUME k.op = "put"
      PROVE  /\ Lives(k.row)
             /\ Descends(e, un, k.id, k.row)
             /\ IF Exists(e, k.id) THEN Kin(k.row, e.session[k.id])
                ELSE k.id = c /\ Kin(k.row, f)
  <2>1. /\ Lives(k.row) /\ Descends(d, tn, k.id, k.row) /\ k.id \in Lines
        /\ IF Exists(d, k.id) THEN Kin(k.row, d.session[k.id])
           ELSE k.id = c /\ Kin(k.row, f)
    BY <1>2 DEF Calls
  <2>2. Descends(e, un, k.id, k.row)
    BY <1>1, <2>1, DescendsStill DEF Call
  <2> QED
    BY <2>1, <2>2 DEF Later, Kin
<1> QED
  BY <1>1, <1>2 DEF Calls

LEMMA AgedFits ==
    ASSUME NEW d \in Store, NEW e, NEW tn, NEW un, RowsFit(d, tn), ReadOf(d, e), TurnsGo(tn, un)
    PROVE  /\ Later(d, e) /\ RowsFit(e, un)
           /\ \A s \in Lines : Exists(e, s) <=> Exists(d, s)
<1>1. ASSUME NEW s \in Lines
      PROVE  /\ Kin(e.session[s], d.session[s]) /\ e.session[s].turns = d.session[s].turns
             /\ e.session[s].parent = d.session[s].parent
             /\ Exists(e, s) <=> Exists(d, s)
             /\ e.session[s].state # "deleted" => e.session[s] = d.session[s]
             /\ d.session[s] \in Row
  <2>1. d.session[s] \in Row
    BY DEF Store
  <2>2. CASE e.session[s] = d.session[s]
    BY <2>1, <2>2 DEF Exists, Kin
  <2>3. CASE /\ d.session[s].state = "stored"
             /\ e.session[s] = [d.session[s] EXCEPT !.state = "deleted"]
    BY <2>1, <2>3 DEF Exists, Row, Kin
  <2> QED
    BY <2>1, <2>2, <2>3 DEF ReadOf, Aged
<1>2. Later(d, e)
  BY <1>1 DEF Later
<1>3. RowsFit(e, un)
  <2> SUFFICES ASSUME NEW s \in Lines
               PROVE  /\ Descends(e, un, s, e.session[s])
                      /\ ~Exists(e, s) => e.session[s] = Blank
                      /\ e.session[s].state = "stored" => Lives(e.session[s])
    BY DEF RowsFit
  <2>1. Descends(e, un, s, d.session[s])
    BY <1>1, <1>2, DescendsStill DEF RowsFit
  <2>2. Descends(e, un, s, e.session[s])
    BY <1>1, <2>1 DEF Descends
  <2>3. d.session[s].state = "stored" => Lives(d.session[s])
    BY DEF RowsFit
  <2>4. ~Exists(e, s) => e.session[s] = Blank
    BY <1>1 DEF RowsFit, Exists
  <2> QED
    BY <1>1, <2>2, <2>3, <2>4
<1> QED
  BY <1>1, <1>2, <1>3

LEMMA ToolFitsStill ==
    ASSUME NEW d, NEW e, NEW tn, NEW un, RowsFit(d, tn), Later(d, e), TurnsGo(tn, un),
           NEW w \in Tool, ToolFits(d, tn, w)
    PROVE  ToolFits(e, un, w)
<1> SUFFICES ASSUME w.pc = "save" PROVE ToolFits(e, un, w)
  BY DEF ToolFits
<1>1. /\ w.id \in Lines /\ w.row \in Row /\ Exists(d, w.id) /\ Lives(w.row)
      /\ Kin(w.row, d.session[w.id]) /\ Descends(d, tn, w.id, w.row)
  BY DEF ToolFits, Tool
<1>2. Descends(e, un, w.id, w.row)
  BY <1>1, DescendsStill
<1> QED
  BY <1>1, <1>2 DEF ToolFits, Later, Kin

-----------------------------------------------------------------------------
(* The rows a handler builds and the calls it makes                        *)

LEMMA BlankIsRow == Blank \in Row
BY ConversationAssumption DEF Blank, Row, Names

(* A row built from r keeps its state, its parent and its letter.          *)
From(r, q) == q \in Row /\ q.state = r.state /\ Kin(q, r) /\ (Lives(r) => Lives(q))

LEMMA BuiltRows ==
    ASSUME now \in 0..MaxTime, NEW r \in Row
    PROVE  /\ From(r, Touched(r)) /\ Touched(r).turns = r.turns
           /\ From(r, Refreshed(r)) /\ Refreshed(r).turns = r.turns
           /\ From(r, Frozen(r)) /\ Frozen(r).turns = r.turns
           /\ From(r, Thawed(r)) /\ Thawed(r).turns = r.turns
           /\ \A t \in Turns : /\ From(r, Recorded(r, t))
                               /\ Recorded(r, t).turns = r.turns \cup {t}
           /\ \A s \in Lines, n \in Names : /\ Branch(r, s, n) \in Row
                                            /\ Lives(r) => Lives(Branch(r, s, n))
                                            /\ Branch(r, s, n).parent = s
                                            /\ Branch(r, s, n).name = n
                                            /\ ~Branch(r, s, n).stopped
                                            /\ Branch(r, s, n).turns = r.turns
<1> DEFINE q == Touched(r)
<1>1. now + TTL \in 0..(MaxTime + TTL)
  BY ConversationAssumption
<1>2. /\ q \in Row /\ q.state = r.state /\ Kin(q, r) /\ q.turns = r.turns
      /\ q.expires >= TTL
  <2>1. now + TTL >= TTL
    BY ConversationAssumption
  <2>2. q.expires = now + TTL
    BY DEF Touched, Row
  <2> QED
    BY <1>1, <2>1, <2>2 DEF Touched, Row, Kin
<1>3. From(r, q) /\ q.turns = r.turns
  BY <1>2 DEF From, Lives
<1> HIDE DEF q
<1>4. From(r, [q EXCEPT !.pending = TRUE]) /\ [q EXCEPT !.pending = TRUE].turns = r.turns
  BY <1>2 DEF From, Row, Kin, Lives
<1>5. From(r, [q EXCEPT !.stopped = TRUE]) /\ [q EXCEPT !.stopped = TRUE].turns = r.turns
  BY <1>2 DEF From, Row, Kin, Lives
<1>6. From(r, [q EXCEPT !.stopped = FALSE]) /\ [q EXCEPT !.stopped = FALSE].turns = r.turns
  BY <1>2 DEF From, Row, Kin, Lives
<1>7. From(r, Thawed(r)) /\ Thawed(r).turns = r.turns
  BY <1>6 DEF Thawed, From, Kin, q
<1>8. ASSUME NEW t \in Turns
      PROVE  From(r, Recorded(r, t)) /\ Recorded(r, t).turns = r.turns \cup {t}
  <2>1. r.turns \cup {t} \in SUBSET Turns
    BY DEF Row
  <2>2. Recorded(r, t) = [q EXCEPT !.turns = r.turns \cup {t}]
    BY <1>2 DEF Recorded, q
  <2> QED
    BY <1>2, <2>1, <2>2 DEF From, Row, Kin, Lives
<1>9. ASSUME NEW s \in Lines, NEW n \in Names
      PROVE  /\ Branch(r, s, n) \in Row /\ (Lives(r) => Lives(Branch(r, s, n)))
             /\ Branch(r, s, n).parent = s /\ Branch(r, s, n).turns = r.turns
             /\ Branch(r, s, n).name = n /\ ~Branch(r, s, n).stopped
  <2>1. Branch(r, s, n) = [q EXCEPT !.stopped = FALSE, !.parent = s, !.name = n]
    BY DEF Branch, q
  <2> QED
    BY <1>2, <2>1 DEF Row, Lives
<1> QED
  BY <1>3, <1>4, <1>5, <1>7, <1>8, <1>9 DEF Refreshed, Frozen, q

LEMMA NewLineIsBlank ==
    ASSUME now \in 0..MaxTime
    PROVE  /\ NewLine \in Row /\ Lives(NewLine)
           /\ NewLine.turns = {} /\ ~NewLine.stopped
<1>1. now + TTL \in 0..(MaxTime + TTL)
  BY ConversationAssumption
<1>2. Blank \in Row /\ ~Blank.stopped /\ Blank.turns = {}
  BY BlankIsRow DEF Blank
<1>3. now + TTL >= TTL
  BY ConversationAssumption
<1> QED
  BY <1>1, <1>2, <1>3 DEF NewLine, Row, Lives

(* The next branch name is a name: there are as many names as lines.       *)
LEMMA NextNameIsName ==
    ASSUME NEW d \in Store, NEW S \in SUBSET Lines
    PROVE  NextName({d.session[u].name : u \in S}) \in Names
<1> DEFINE used == {d.session[u].name : u \in S}
           f == [u \in S |-> d.session[u].name]
           free == (0..(Letters - 1)) \ used
<1> SUFFICES NextName(used) \in Names
  OBVIOUS
<1>1. f \in Surjection(S, used)
  BY DEF Surjection
<1>2. IsFiniteSet(S) /\ Cardinality(S) <= MaxLines
  BY LineTypes, FS_Subset
<1>3. IsFiniteSet(used) /\ Cardinality(used) <= Cardinality(S)
  <2> HIDE DEF f, used
  <2> QED
    BY <1>1, <1>2, FS_Surjection
<1>4. Cardinality(used) \in Nat /\ Cardinality(S) \in Nat
  BY <1>2, <1>3, FS_CardinalityType
<1>5. Cardinality(used) <= MaxLines
  BY <1>2, <1>3, <1>4, LineTypes
<1>6. free # {} => Min(free) \in free
  <2>1. free \in SUBSET Nat
    OBVIOUS
  <2> HIDE DEF free
  <2> QED
    BY <2>1, LeastLine
<1>7. Letters \in Nat \ {0} /\ MaxLines \in Nat
  BY ConversationAssumption
<1>8. NextName(used) = IF free # {} THEN Min(free) ELSE Letters + Cardinality(used) + 1
  BY DEF NextName
<1> HIDE DEF used
<1>9. CASE free # {}
  BY <1>6, <1>7, <1>8, <1>9 DEF Names
<1>10. CASE free = {}
  <2> HIDE DEF free
  <2> QED
    BY <1>4, <1>5, <1>7, <1>8, <1>10 DEF Names
<1> QED
  BY <1>9, <1>10

LEMMA PutFits ==
    ASSUME NEW d, NEW tn, NEW c, NEW f, NEW s \in Lines, NEW r \in Row,
           Lives(r), Descends(d, tn, s, r),
           IF Exists(d, s) THEN Kin(r, d.session[s]) ELSE s = c /\ Kin(r, f)
    PROVE  Put(s, r) \in Calls(d, tn, c, f)
<1> DEFINE k == Put(s, r)
<1>1. k \in Call /\ k.op = "put" /\ k.id = s /\ k.row = r
  BY DEF Put, Call
<1> HIDE DEF k
<1> QED
  BY <1>1 DEF Calls, k

LEMMA OtherCallsFit ==
    ASSUME NEW d, NEW tn, NEW c, NEW f
    PROVE  /\ \A s \in Lines : /\ Activate(s) \in Calls(d, tn, c, f)
                               /\ Exists(d, s) => Remove(s) \in Calls(d, tn, c, f)
                               /\ Unbind(s) \in Calls(d, tn, c, f)
           /\ PickSurvivor \in Calls(d, tn, c, f) /\ ListBranches \in Calls(d, tn, c, f)
BY BlankIsRow DEF Activate, Remove, Unbind, PickSurvivor, ListBranches, Calls, Call

(* The line that a handler reads may be written back.                      *)
LEMMA ReadFits ==
    ASSUME NEW d \in Store, NEW tn, NEW un, RowsFit(d, tn), TurnsGo(tn, un), NEW s \in Stored(d)
    PROVE  /\ s \in Lines /\ d.session[s] \in Row /\ Lives(d.session[s])
           /\ Exists(d, s) /\ Descends(d, un, s, d.session[s])
<1>1. s \in Lines /\ d.session[s].state = "stored" /\ d.session[s] \in Row
  BY DEF Stored, Store
<1>2. ReadOf(d, d)
  BY SameReadOf
<1>3. RowsFit(d, un)
  BY <1>2, AgedFits
<1> QED
  BY <1>1, <1>3 DEF Exists, RowsFit

(* And so may a row built from it.                                         *)
LEMMA BuiltFits ==
    ASSUME NEW d \in Store, NEW tn, NEW un, RowsFit(d, tn), TurnsGo(tn, un), NEW c, NEW f,
           NEW s \in Stored(d), NEW q, From(d.session[s], q),
           \A t \in q.turns \ d.session[s].turns : un[t].pc # "new" /\ un[t].line = s
    PROVE  Put(s, q) \in Calls(d, un, c, f)
<1>1. /\ s \in Lines /\ Exists(d, s) /\ Lives(d.session[s])
      /\ Descends(d, un, s, d.session[s])
  BY ReadFits
<1>2. q \in Row /\ Lives(q) /\ Kin(q, d.session[s])
  BY <1>1 DEF From
<1>3. Descends(d, un, s, q)
  BY <1>1, <1>2 DEF Descends, Kin
<1> QED
  BY <1>1, <1>2, <1>3, PutFits

-----------------------------------------------------------------------------
(* Steps                                                                   *)

LEMMA EmptyScriptFits == ASSUME NEW d, NEW tn
                         PROVE  \E c \in Lines, f \in Row : <<>> \in Seq(Calls(d, tn, c, f))
<1>1. 1 \in Lines /\ Blank \in Row
  BY ConversationAssumption, BlankIsRow DEF Lines
<1> QED
  BY <1>1

LEMMA StepFits ==
    ASSUME Inv, store' \in Store, now' \in 0..MaxTime,
           turn' \in [Turns -> Asked], tool' \in [Turns -> Tool],
           Later(store, store'), TurnsGo(turn, turn'), RowsFit(store', turn'), ScriptFits',
           \A t \in Turns : tool'[t] = tool[t] \/ ToolFits(store', turn', tool'[t])
    PROVE  Inv'
<1>1. script' \in Seq(Call)
  <2>1. PICK c \in Lines, f \in Row : script' \in Seq(Calls(store', turn', c, f))
    BY DEF ScriptFits
  <2>2. Calls(store', turn', c, f) \subseteq Call
    BY DEF Calls
  <2> QED
    BY <2>1, <2>2, SeqMonotonic
<1>2. Types'
  BY <1>1 DEF Types
<1>3. ASSUME NEW t \in Turns PROVE ToolFits(store', turn', tool'[t])
  <2>1. tool[t] \in Tool /\ ToolFits(store, turn, tool[t]) /\ RowsFit(store, turn)
    BY DEF Inv, Types, ToolsFit
  <2>2. ToolFits(store', turn', tool[t])
    BY <2>1, ToolFitsStill
  <2> QED
    BY <2>2
<1>4. ToolsFit'
  BY <1>3 DEF ToolsFit
<1> QED
  BY <1>2, <1>4 DEF Inv

(* A handler starts: it has read the store and holds its calls.            *)
LEMMA StartFits ==
    ASSUME Inv, ReadOf(store, store'), UNCHANGED <<now, tool>>, turn' \in [Turns -> Asked],
           TurnsGo(turn, turn'), NEW c \in Lines, NEW f \in Row,
           script' \in Seq(Calls(store', turn', c, f))
    PROVE  Inv'
<1>1. store \in Store /\ RowsFit(store, turn) /\ now \in 0..MaxTime /\ tool \in [Turns -> Tool]
  BY DEF Inv, Types
<1>2. Later(store, store') /\ RowsFit(store', turn') /\ store' \in Store
  BY <1>1, AgedFits DEF ReadOf
<1>3. ScriptFits'
  BY DEF ScriptFits
<1> QED
  BY <1>1, <1>2, <1>3, StepFits

(* A store call or a tool: the rest of the script is still to come.        *)
LEMMA RestFits ==
    ASSUME Inv, Later(store, store'), TurnsGo(turn, turn'), NEW c \in Lines, NEW f \in Row,
           script \in Seq(Calls(store, turn, c, f)),
           \A s \in Lines : ~Exists(store, s) /\ Exists(store', s)
                            => s = c /\ Kin(store'.session[s], f),
           script' = script \/ (script # <<>> /\ script' = Tail(script))
    PROVE  ScriptFits'
<1>1. RowsFit(store, turn)
  BY DEF Inv
<1>2. Calls(store, turn, c, f) \subseteq Calls(store', turn', c, f)
  BY <1>1, CallsStill
<1>3. script' \in Seq(Calls(store, turn, c, f))
  BY HeadTailProperties
<1>4. script' \in Seq(Calls(store', turn', c, f))
  BY <1>2, <1>3, SeqMonotonic
<1> QED
  BY <1>4 DEF ScriptFits

-----------------------------------------------------------------------------
(* The handlers                                                            *)

LEMMA HandleFits ==
    ASSUME Inv, NEW d, NEW accepted, NEW calls, ReadOf(store, d), Handle(d, accepted, calls),
           UNCHANGED <<now, tool>>, turn' \in [Turns -> Asked], TurnsGo(turn, turn'),
           NEW c \in Lines, NEW f \in Row,
           accepted => calls \in Seq(Calls(d, turn', c, f))
    PROVE  Inv'
<1>1. store' = d /\ script' = IF accepted THEN calls ELSE <<>>
  BY DEF Handle
<1>2. CASE accepted
  BY <1>1, <1>2, StartFits
<1>3. CASE ~accepted
  <2>1. script' \in Seq(Calls(store', turn', c, f))
    BY <1>1, <1>3
  <2> QED
    BY <1>1, <2>1, StartFits
<1> QED
  BY <1>2, <1>3

LEMMA TurnGoes ==
    ASSUME turn \in [Turns -> Asked], NEW t \in Turns, NEW v \in Asked, v.pc # "new",
           turn[t].pc = "new" \/ v.line = turn[t].line
    PROVE  /\ [turn EXCEPT ![t] = v] \in [Turns -> Asked] /\ [turn EXCEPT ![t] = v][t] = v
           /\ TurnsGo(turn, [turn EXCEPT ![t] = v])
BY DEF TurnsGo

LEMMA SameTurns == ASSUME NEW tn PROVE TurnsGo(tn, tn)
BY DEF TurnsGo

(* What any handler may rely on when it has read the store.                *)
LEMMA ReadKeeps ==
    ASSUME Inv, NEW d, ReadOf(store, d)
    PROVE  /\ d \in Store /\ RowsFit(d, turn) /\ now \in 0..MaxTime
           /\ turn \in [Turns -> Asked] /\ tool \in [Turns -> Tool] /\ store \in Store
           /\ Live(d) = Live(store) /\ Live(d) \subseteq Stored(d)
           /\ \A s \in Lines : Exists(d, s) <=> Exists(store, s)
           /\ \A s \in Live(d) : d.session[s] = store.session[s]
<1>1. /\ store \in Store /\ RowsFit(store, turn) /\ now \in 0..MaxTime
      /\ turn \in [Turns -> Asked] /\ tool \in [Turns -> Tool]
  BY DEF Inv, Types
<1>2. RowsFit(d, turn) /\ \A s \in Lines : Exists(d, s) <=> Exists(store, s)
  BY <1>1, SameTurns, AgedFits
<1>3. d \in Store /\ Live(d) = Live(store)
  BY DEF ReadOf
<1>4. Live(d) \subseteq Stored(d)
  BY DEF Live
<1>5. \A s \in Live(d) : d.session[s] = store.session[s]
  BY <1>3 DEF ReadOf, Aged, Live, Stored
<1> QED
  BY <1>1, <1>2, <1>3, <1>4, <1>5

(* get_or_create: the line a message goes to may be written, with what is  *)
(* built from it.                                                          *)
LEMMA CurrentFits ==
    ASSUME Inv, NEW d, ReadOf(store, d), d.active \in Live(store) \cup {NoLine}, Room(d),
           NEW tn, TurnsGo(turn, tn)
    PROVE  /\ Current(d) \in Lines /\ CurrentRow(d) \in Row
           /\ Created(d) \in Seq(Calls(d, tn, Current(d), NewLine))
           /\ \A q : /\ From(CurrentRow(d), q)
                     /\ \A t \in q.turns \ CurrentRow(d).turns :
                           tn[t].pc # "new" /\ tn[t].line = Current(d)
                     => Put(Current(d), q) \in Calls(d, tn, Current(d), NewLine)
<1> DEFINE c == Current(d)
           r == CurrentRow(d)
<1>1. /\ d \in Store /\ RowsFit(d, turn) /\ now \in 0..MaxTime /\ Live(d) = Live(store)
      /\ Live(d) \subseteq Stored(d) /\ \A s \in Lines : Exists(d, s) <=> Exists(store, s)
  BY ReadKeeps
<1>2. CASE d.active # NoLine
  <2>1. c = d.active /\ r = d.session[c] /\ Created(d) = <<>> /\ c \in Stored(d)
    BY <1>1, <1>2 DEF Current, CurrentRow, Created
  <2> HIDE DEF c, r
  <2>2. c \in Lines /\ r \in Row
    BY <1>1, <2>1 DEF Stored, Store
  <2>3. ASSUME NEW q, From(r, q), \A t \in q.turns \ r.turns : tn[t].pc # "new" /\ tn[t].line = c
        PROVE  Put(c, q) \in Calls(d, tn, c, NewLine)
    BY <1>1, <2>1, <2>3, BuiltFits
  <2>4. Created(d) \in Seq(Calls(d, tn, c, NewLine))
    BY <2>1
  <2> QED
    BY <2>2, <2>3, <2>4 DEF c, r
<1>3. CASE d.active = NoLine
  <2>1. c = Min(Unused) /\ r = NewLine /\ Created(d) = <<Put(c, NewLine), Activate(c)>>
    BY <1>3 DEF Current, CurrentRow, Created
  <2>2. c \in Unused
    <3>1. Unused \in SUBSET Nat /\ Unused # {}
      BY <1>3, LineTypes DEF Unused, Room
    <3> QED
      BY <2>1, <3>1, LeastLine
  <2> HIDE DEF c, r
  <2>3. c \in Lines /\ ~Exists(d, c)
    BY <1>1, <2>2 DEF Unused, Known, Exists
  <2>4. r \in Row /\ Lives(r) /\ r = NewLine /\ r.turns = {}
    BY <1>1, <2>1, NewLineIsBlank
  <2>5. ASSUME NEW q, From(r, q), \A t \in q.turns \ r.turns : tn[t].pc # "new" /\ tn[t].line = c
        PROVE  Put(c, q) \in Calls(d, tn, c, NewLine)
    <3>1. q \in Row /\ Lives(q) /\ Kin(q, NewLine) /\ Descends(d, tn, c, q)
      BY <2>4, <2>5 DEF From, Descends
    <3> QED
      BY <2>3, <3>1, PutFits
  <2>6. Put(c, r) \in Calls(d, tn, c, NewLine)
    <3>1. From(r, r)
      BY <2>4 DEF From, Kin, Lives
    <3> QED
      BY <2>5, <3>1
  <2>7. Created(d) \in Seq(Calls(d, tn, c, NewLine))
    BY <2>1, <2>3, <2>6, OtherCallsFit
  <2> QED
    BY <2>3, <2>4, <2>5, <2>7 DEF c, r
<1> QED
  BY <1>2, <1>3

LEMMA ChatKeeps ==
    ASSUME Inv, NEW t \in Turns, Chat(t)
    PROVE  Inv'
<1> DEFINE d == ByBinding(store)
           s == Current(d)
           row == CurrentRow(d)
           calls == Created(d) \o <<Put(s, row), Put(s, Recorded(row, t))>>
<1>1. store \in Store /\ turn \in [Turns -> Asked] /\ now \in 0..MaxTime
  BY DEF Inv, Types
<1>2. ReadOf(store, d) /\ d.active \in Live(store) \cup {NoLine}
  BY <1>1, BindingIsLive
<1>3. /\ Room(d) /\ turn[t].pc = "new" /\ Handle(d, Accepts(d), calls)
      /\ turn' = IF Accepts(d) THEN [turn EXCEPT ![t] = [pc |-> "done", line |-> s]] ELSE turn
      /\ UNCHANGED <<now, tool>>
  BY DEF Chat
<1>4. s \in Lines /\ row \in Row
  BY <1>2, <1>3, SameTurns, CurrentFits
<1>5. NewLine \in Row
  BY <1>1, NewLineIsBlank
<1> HIDE DEF d, s, row
<1>6. CASE Accepts(d)
  <2> DEFINE v == [pc |-> "done", line |-> s]
  <2>1. v \in Asked /\ v.pc # "new" /\ v.line = s /\ turn' = [turn EXCEPT ![t] = v]
    BY <1>3, <1>4, <1>6 DEF Asked
  <2> HIDE DEF v
  <2>2. turn' \in [Turns -> Asked] /\ TurnsGo(turn, turn') /\ turn'[t] = v
    <3>1. turn[t].pc = "new" /\ turn \in [Turns -> Asked]
      BY <1>1, <1>3
    <3>2. /\ [turn EXCEPT ![t] = v] \in [Turns -> Asked] /\ [turn EXCEPT ![t] = v][t] = v
          /\ TurnsGo(turn, [turn EXCEPT ![t] = v])
      BY <2>1, <3>1, TurnGoes
    <3> QED
      BY <2>1, <3>2
  <2>3. /\ Created(d) \in Seq(Calls(d, turn', s, NewLine))
        /\ \A q : /\ From(row, q)
                  /\ \A x \in q.turns \ row.turns : turn'[x].pc # "new" /\ turn'[x].line = s
                  => Put(s, q) \in Calls(d, turn', s, NewLine)
    BY <1>2, <1>3, <2>2, CurrentFits DEF s, row
  <2>4. Put(s, row) \in Calls(d, turn', s, NewLine)
    <3>1. From(row, row)
      BY <1>4 DEF From, Kin, Lives
    <3> QED
      BY <2>3, <3>1
  <2>5. Put(s, Recorded(row, t)) \in Calls(d, turn', s, NewLine)
    <3>1. From(row, Recorded(row, t)) /\ Recorded(row, t).turns = row.turns \cup {t}
      BY <1>1, <1>4, BuiltRows
    <3> QED
      BY <2>1, <2>2, <2>3, <3>1
  <2>6. <<Put(s, row), Put(s, Recorded(row, t))>> \in Seq(Calls(d, turn', s, NewLine))
    BY <2>4, <2>5
  <2>7. calls \in Seq(Calls(d, turn', s, NewLine))
    BY <2>3, <2>6, ConcatProperties
  <2> HIDE DEF calls
  <2> QED
    BY <1>2, <1>3, <1>4, <1>5, <2>2, <2>7, HandleFits
<1>7. CASE ~Accepts(d)
  <2>1. turn' = turn
    BY <1>3, <1>7
  <2>2. TurnsGo(turn, turn') /\ turn' \in [Turns -> Asked]
    BY <1>1, <2>1, SameTurns
  <2> HIDE DEF calls
  <2> QED
    BY <1>2, <1>3, <1>4, <1>5, <1>7, <2>2, HandleFits
<1> QED
  BY <1>6, <1>7

LEMMA AskKeeps ==
    ASSUME Inv, Ask
    PROVE  Inv'
<1> DEFINE d == ByBinding(store)
           s == Current(d)
           row == CurrentRow(d)
<1>1. store \in Store /\ turn \in [Turns -> Asked] /\ now \in 0..MaxTime
  BY DEF Inv, Types
<1>2. ReadOf(store, d) /\ d.active \in Live(store) \cup {NoLine}
  BY <1>1, BindingIsLive
<1>3. Room(d) /\ UNCHANGED <<now, turn, tool>>
  BY DEF Ask
<1>4. PICK rest \in {<<>>, <<Put(s, Refreshed(row)), ListBranches>>} :
         Handle(d, Accepts(d), Created(d) \o <<Put(s, row)>> \o rest)
  BY DEF Ask
<1>5. TurnsGo(turn, turn') /\ turn' \in [Turns -> Asked] /\ NewLine \in Row
  BY <1>1, <1>3, SameTurns, NewLineIsBlank
<1>6. /\ s \in Lines /\ row \in Row /\ Created(d) \in Seq(Calls(d, turn', s, NewLine))
      /\ \A q : /\ From(row, q)
                /\ \A x \in q.turns \ row.turns : turn'[x].pc # "new" /\ turn'[x].line = s
                => Put(s, q) \in Calls(d, turn', s, NewLine)
  BY <1>2, <1>3, <1>5, CurrentFits
<1> HIDE DEF d, s, row
<1>7. Put(s, row) \in Calls(d, turn', s, NewLine)
  <2>1. From(row, row)
    BY <1>6 DEF From, Kin, Lives
  <2> QED
    BY <1>6, <2>1
<1>8. Put(s, Refreshed(row)) \in Calls(d, turn', s, NewLine)
  <2>1. From(row, Refreshed(row)) /\ Refreshed(row).turns = row.turns
    BY <1>1, <1>6, BuiltRows
  <2> QED
    BY <1>6, <2>1
<1>9. ListBranches \in Calls(d, turn', s, NewLine)
  BY OtherCallsFit
<1>10. /\ <<Put(s, row)>> \in Seq(Calls(d, turn', s, NewLine))
       /\ rest \in Seq(Calls(d, turn', s, NewLine))
  <2> DEFINE C == Calls(d, turn', s, NewLine)
             a == Put(s, Refreshed(row))
  <2>1. Put(s, row) \in C /\ a \in C /\ ListBranches \in C /\ rest \in {<<>>, <<a, ListBranches>>}
    BY <1>4, <1>7, <1>8, <1>9
  <2> HIDE DEF C, a
  <2>2. <<>> \in Seq(C) /\ <<Put(s, row)>> \in Seq(C) /\ <<a, ListBranches>> \in Seq(C)
    BY <2>1
  <2>3. rest \in Seq(C)
    BY <2>1, <2>2, Zenon
  <2> QED
    BY <2>2, <2>3 DEF C
<1>11. Created(d) \o <<Put(s, row)>> \o rest \in Seq(Calls(d, turn', s, NewLine))
  BY <1>6, <1>10, ConcatProperties
<1> QED
  BY <1>2, <1>3, <1>4, <1>5, <1>6, <1>11, HandleFits

(* A pending preview is on a line that is live.                            *)
LEMMA PendingFits ==
    ASSUME Inv, NEW d, ReadOf(store, d), NEW s, HasPending(d, s), NEW tn, TurnsGo(turn, tn),
           NEW c, NEW f, NEW q, From(d.session[s], q), q.turns = d.session[s].turns
    PROVE  s \in Lines /\ d.session[s] \in Row /\ Put(s, q) \in Calls(d, tn, c, f)
<1>1. d \in Store /\ RowsFit(d, turn) /\ s \in Stored(d)
  BY ReadKeeps DEF HasPending
<1>2. s \in Lines /\ d.session[s] \in Row
  BY <1>1, ReadFits
<1>3. \A t \in q.turns \ d.session[s].turns : tn[t].pc # "new" /\ tn[t].line = s
  OBVIOUS
<1>4. Put(s, q) \in Calls(d, tn, c, f)
  BY <1>1, <1>3, BuiltFits
<1> QED
  BY <1>2, <1>4

LEMMA ShownFits ==
    ASSUME NEW d, NEW tn, NEW c, NEW f, NEW k \in Calls(d, tn, c, f), NEW card \in Shown
    PROVE  <<k>> \o card \in Seq(Calls(d, tn, c, f))
<1> DEFINE C == Calls(d, tn, c, f)
<1>1. ListBranches \in C
  BY OtherCallsFit
<1> HIDE DEF C
<1>2. <<>> \in Seq(C) /\ <<ListBranches>> \in Seq(C)
  BY <1>1
<1>3. card \in Seq(C)
  BY <1>2, Zenon DEF Shown
<1>4. k \in C
  BY DEF C
<1>5. <<k>> \in Seq(C)
  BY <1>4
<1>6. <<k>> \o card \in Seq(C)
  BY <1>3, <1>5, ConcatProperties
<1> QED
  BY <1>6 DEF C

LEMMA ConfirmKeeps ==
    ASSUME Inv, NEW s \in Lines, NEW t \in Turns, Confirm(s, t)
    PROVE  Inv'
<1> DEFINE d == Opened(s)
           ok == HasPending(d, s) /\ Writable(d, s)
<1>1. store \in Store /\ turn \in [Turns -> Asked] /\ now \in 0..MaxTime /\ Blank \in Row
  BY BlankIsRow DEF Inv, Types
<1>2. ReadOf(store, d)
  BY <1>1, OpenedIsRead
<1>3. /\ Handle(d, ok, <<Put(s, d.session[s])>>) /\ turn[t].pc = "new"
      /\ turn' = IF ok THEN [turn EXCEPT ![t] = [pc |-> "running", line |-> s]] ELSE turn
      /\ UNCHANGED <<now, tool>>
  BY DEF Confirm
<1> HIDE DEF d
<1>4. turn' \in [Turns -> Asked] /\ TurnsGo(turn, turn')
  <2> DEFINE v == [pc |-> "running", line |-> s]
  <2>1. v \in Asked /\ v.pc # "new" /\ turn[t].pc = "new" /\ turn \in [Turns -> Asked]
    BY <1>1, <1>3 DEF Asked
  <2>2. turn' = turn \/ turn' = [turn EXCEPT ![t] = v]
    BY <1>3
  <2> HIDE DEF v
  <2>3. [turn EXCEPT ![t] = v] \in [Turns -> Asked] /\ TurnsGo(turn, [turn EXCEPT ![t] = v])
    BY <2>1, TurnGoes
  <2> QED
    BY <1>1, <2>2, <2>3, SameTurns
<1>5. ok => <<Put(s, d.session[s])>> \in Seq(Calls(d, turn', s, Blank))
  <2> SUFFICES ASSUME HasPending(d, s)
               PROVE  <<Put(s, d.session[s])>> \in Seq(Calls(d, turn', s, Blank))
    OBVIOUS
  <2>1. From(d.session[s], d.session[s])
    <3>1. d \in Store
      BY <1>2, ReadKeeps
    <3> QED
      BY <3>1 DEF From, Kin, Lives, Store
  <2>2. Put(s, d.session[s]) \in Calls(d, turn', s, Blank)
    BY <1>2, <1>4, <2>1, PendingFits
  <2> QED
    BY <2>2
<1> HIDE DEF ok
<1> QED
  BY <1>1, <1>2, <1>3, <1>4, <1>5, HandleFits

(* Edit and Stage differ in what they read and what they ask for.          *)
LEMMA SaveTouchedKeeps ==
    ASSUME Inv, NEW s \in Lines, NEW d, ReadOf(store, d), NEW accepted, accepted => HasPending(d, s),
           NEW card \in Shown,
           Handle(d, accepted, <<Put(s, Touched(d.session[s]))>> \o card),
           UNCHANGED <<now, turn, tool>>
    PROVE  Inv'
<1>1. turn' \in [Turns -> Asked] /\ now \in 0..MaxTime /\ TurnsGo(turn, turn') /\ Blank \in Row
  BY SameTurns, BlankIsRow DEF Inv, Types
<1>2. ASSUME accepted
      PROVE  <<Put(s, Touched(d.session[s]))>> \o card \in Seq(Calls(d, turn', s, Blank))
  <2>1. d.session[s] \in Row
    <3>1. d \in Store
      BY ReadKeeps
    <3> QED
      BY <3>1 DEF Store
  <2>2. From(d.session[s], Touched(d.session[s])) /\ Touched(d.session[s]).turns = d.session[s].turns
    BY <1>1, <2>1, BuiltRows
  <2>3. Put(s, Touched(d.session[s])) \in Calls(d, turn', s, Blank)
    BY <1>1, <1>2, <2>2, PendingFits
  <2> QED
    BY <2>3, ShownFits
<1> DEFINE calls == <<Put(s, Touched(d.session[s]))>> \o card
<1>3. Handle(d, accepted, calls) /\ (accepted => calls \in Seq(Calls(d, turn', s, Blank)))
  BY <1>2
<1> HIDE DEF calls
<1> QED
  BY <1>1, <1>3, HandleFits

LEMMA EditKeeps ==
    ASSUME Inv, NEW s \in Lines, Edit(s)
    PROVE  Inv'
<1> DEFINE d == Opened(s)
<1>1. ReadOf(store, d)
  BY OpenedIsRead DEF Inv, Types
<1>2. UNCHANGED <<now, turn, tool>>
  BY DEF Edit
<1>3. PICK card \in Shown : Handle(d, HasPending(d, s) /\ Writable(d, s),
                                   <<Put(s, Touched(d.session[s]))>> \o card)
  BY DEF Edit
<1> DEFINE accepted == HasPending(d, s) /\ Writable(d, s)
<1>4. Handle(d, accepted, <<Put(s, Touched(d.session[s]))>> \o card)
      /\ (accepted => HasPending(d, s))
  BY <1>3
<1> HIDE DEF d, accepted
<1> QED
  BY <1>1, <1>2, <1>4, SaveTouchedKeeps

LEMMA StageKeeps ==
    ASSUME Inv, NEW s \in Lines, Stage(s)
    PROVE  Inv'
<1> DEFINE d == Read(store, {s})
<1>1. ReadOf(store, d)
  BY ReadAges DEF Inv, Types
<1>2. UNCHANGED <<now, turn, tool>>
  BY DEF Stage
<1>3. PICK card \in Shown : Handle(d, HasPending(d, s), <<Put(s, Touched(d.session[s]))>> \o card)
  BY DEF Stage
<1> DEFINE accepted == HasPending(d, s)
<1>4. Handle(d, accepted, <<Put(s, Touched(d.session[s]))>> \o card)
      /\ (accepted => HasPending(d, s))
  BY <1>3
<1> HIDE DEF d, accepted
<1> QED
  BY <1>1, <1>2, <1>4, SaveTouchedKeeps

LEMMA ForkKeeps ==
    ASSUME Inv, NEW s \in Lines, Fork(s)
    PROVE  Inv'
<1> DEFINE e == Opened(s)
           d == Read(e, Lines)
           row == d.session[s]
           child == Min(Unused)
           name == NextName({d.session[u].name : u \in Live(d)})
           accepted == HasPending(d, s) /\ Writable(e, s)
           calls == <<Put(s, Frozen(row)), Put(child, Branch(row, s, name)), Activate(child),
                      ListBranches>>
<1>1. store \in Store /\ turn \in [Turns -> Asked] /\ now \in 0..MaxTime
  BY DEF Inv, Types
<1>2. ReadOf(store, d)
  <2>1. ReadOf(store, e) /\ e \in Store
    BY <1>1, OpenedIsRead DEF ReadOf
  <2> HIDE DEF e
  <2>2. ReadOf(e, d)
    BY <2>1, ReadAges
  <2> QED
    BY <1>1, <2>1, <2>2, ReadOfRead
<1>3. Handle(d, accepted, calls) /\ UNCHANGED <<now, turn, tool>> /\ Unused # {}
  BY DEF Fork
<1>4. child \in Unused
  <2>1. Unused \in SUBSET Nat
    BY LineTypes DEF Unused
  <2> QED
    BY <1>3, <2>1, LeastLine
<1>5. name \in Names
  <2>1. d \in Store /\ Live(d) \in SUBSET Lines
    BY <1>2, ReadKeeps DEF Live, Stored
  <2> HIDE DEF d
  <2> QED
    BY <2>1, NextNameIsName
<1>6. /\ TurnsGo(turn, turn') /\ turn' \in [Turns -> Asked] /\ d \in Store
      /\ Branch(row, s, name) \in Row
  <2>1. d \in Store
    BY <1>2, ReadKeeps
  <2>2. row \in Row
    BY <2>1 DEF Store
  <2> QED
    BY <1>1, <1>3, <1>5, <2>1, <2>2, SameTurns, BuiltRows
<1> HIDE DEF e, d, child, name
<1>7. child \in Lines /\ ~Exists(d, child)
  BY <1>2, <1>4, ReadKeeps DEF Unused, Known, Exists
<1>8. ASSUME HasPending(d, s)
      PROVE  calls \in Seq(Calls(d, turn', child, Branch(row, s, name)))
  <2> DEFINE C == Calls(d, turn', child, Branch(row, s, name))
  <2>1. d \in Store /\ RowsFit(d, turn) /\ s \in Stored(d)
    BY <1>2, <1>8, ReadKeeps DEF HasPending
  <2>2. row \in Row /\ Lives(row) /\ Exists(d, s) /\ Descends(d, turn', s, row)
    BY <1>6, <2>1, ReadFits
  <2>3. Put(s, Frozen(row)) \in C
    <3>1. From(row, Frozen(row)) /\ Frozen(row).turns = row.turns
      BY <1>1, <2>2, BuiltRows
    <3> QED
      BY <1>2, <1>6, <1>8, <3>1, PendingFits
  <2>4. Put(child, Branch(row, s, name)) \in C
    <3> DEFINE b == Branch(row, s, name)
    <3>1. b \in Row /\ Lives(b) /\ b.parent = s /\ b.turns = row.turns
      BY <1>1, <1>5, <2>2, BuiltRows
    <3> HIDE DEF b
    <3>2. /\ s \in Lineage(d, s)
          /\ row.parent \in Lines => Lineage(d, row.parent) \subseteq Lineage(d, s)
      BY LineageHasParents
    <3>3. Descends(d, turn', child, b)
      BY <2>2, <3>1, <3>2 DEF Descends
    <3>4. Put(child, b) \in Calls(d, turn', child, b)
      BY <1>7, <3>1, <3>3, PutFits DEF Kin
    <3> QED
      BY <3>4 DEF b
  <2>5. Activate(child) \in C /\ ListBranches \in C
    BY <1>7, OtherCallsFit
  <2> HIDE DEF C, row
  <2>6. calls \in Seq(C)
    BY <2>3, <2>4, <2>5
  <2> QED
    BY <2>6 DEF C
<1> HIDE DEF calls
<1> QED
  BY <1>2, <1>3, <1>6, <1>7, <1>8, HandleFits

(* The calls that make line u the one in progress.                         *)
LEMMA ResumeFits ==
    ASSUME Inv, NEW d, ReadOf(store, d), NEW u \in Live(d), NEW tn, TurnsGo(turn, tn),
           NEW c, NEW f
    PROVE  u \in Lines /\ Resume(u, d.session[u]) \in Seq(Calls(d, tn, c, f))
<1> DEFINE C == Calls(d, tn, c, f)
           r == d.session[u]
           thaw == IF r.stopped THEN <<Put(u, Thawed(r))>> ELSE <<>>
           card == IF r.pending THEN <<>> ELSE <<Put(u, Refreshed(Thawed(r)))>>
<1>1. d \in Store /\ RowsFit(d, turn) /\ u \in Stored(d) /\ now \in 0..MaxTime
  BY ReadKeeps
<1>2. r \in Row /\ u \in Lines
  BY <1>1, ReadFits, SameTurns
<1>3. From(r, Thawed(r)) /\ Thawed(r).turns = r.turns
  BY <1>1, <1>2, BuiltRows
<1>4. From(r, Refreshed(Thawed(r))) /\ Refreshed(Thawed(r)).turns = r.turns
  <2> DEFINE q == Thawed(r)
  <2>1. q \in Row /\ q.state = r.state /\ Kin(q, r) /\ q.turns = r.turns /\ (Lives(r) => Lives(q))
    BY <1>3 DEF From
  <2> HIDE DEF q
  <2>2. From(q, Refreshed(q)) /\ Refreshed(q).turns = q.turns
    BY <1>1, <2>1, BuiltRows
  <2> QED
    BY <2>1, <2>2 DEF From, Kin, Lives, q
<1>5. Put(u, Thawed(r)) \in C
  BY <1>1, <1>3, BuiltFits
<1>6. Put(u, Refreshed(Thawed(r))) \in C
  BY <1>1, <1>4, BuiltFits
<1>7. Activate(u) \in C /\ ListBranches \in C
  BY <1>2, OtherCallsFit
<1>8. Resume(u, r) = thaw \o <<Activate(u)>> \o card \o <<ListBranches>>
  BY DEF Resume
<1> HIDE DEF C, r
<1>9. <<>> \in Seq(C) /\ <<Put(u, Thawed(r))>> \in Seq(C)
  BY <1>5
<1>10. thaw \in Seq(C)
  BY <1>9, Zenon
<1>11. <<Put(u, Refreshed(Thawed(r)))>> \in Seq(C)
  BY <1>6
<1>12. card \in Seq(C)
  BY <1>9, <1>11, Zenon
<1>13. <<Activate(u)>> \in Seq(C) /\ <<ListBranches>> \in Seq(C)
  BY <1>7
<1> HIDE DEF thaw, card
<1>14. thaw \o <<Activate(u)>> \in Seq(C)
  BY <1>10, <1>13, ConcatProperties
<1>15. (thaw \o <<Activate(u)>>) \o card \in Seq(C)
  BY <1>12, <1>14, ConcatProperties
<1>16. ((thaw \o <<Activate(u)>>) \o card) \o <<ListBranches>> \in Seq(C)
  BY <1>13, <1>15, ConcatProperties
<1> QED
  BY <1>2, <1>8, <1>16 DEF C, r

LEMMA SwitchKeeps ==
    ASSUME Inv, NEW s \in Lines, NEW u \in Lines, Switch(s, u)
    PROVE  Inv'
<1> DEFINE d == Read(store, {s, u})
           accepted == HasPending(d, s) /\ u \in Live(d)
           calls == Resume(u, d.session[u])
<1>1. ReadOf(store, d) /\ Blank \in Row
  BY ReadAges, BlankIsRow DEF Inv, Types
<1>2. Handle(d, accepted, calls) /\ UNCHANGED <<now, turn, tool>>
  BY DEF Switch
<1>3. TurnsGo(turn, turn') /\ turn' \in [Turns -> Asked]
  BY <1>2, SameTurns DEF Inv, Types
<1> HIDE DEF d
<1>4. accepted => calls \in Seq(Calls(d, turn', u, Blank))
  BY <1>1, <1>3, ResumeFits
<1> HIDE DEF accepted, calls
<1> QED
  BY <1>1, <1>2, <1>3, <1>4, HandleFits

LEMMA DeleteKeeps ==
    ASSUME Inv, NEW s \in Lines, NEW u \in Lines, Delete(s, u)
    PROVE  Inv'
<1> DEFINE d == Read(store, {s, u})
           listed == IF HasPending(d, s) /\ u \in Live(d) THEN Read(d, Lines) ELSE d
           accepted == HasPending(d, s) /\ u \in Live(d) /\ MayDelete(listed)
           calls == <<Remove(u), Unbind(u), PickSurvivor>>
<1>1. ReadOf(store, d) /\ Blank \in Row /\ store \in Store /\ d \in Store
  BY ReadAges, BlankIsRow DEF ReadOf, Inv, Types
<1>2. Handle(listed, accepted, calls) /\ UNCHANGED <<now, turn, tool>>
  BY DEF Delete
<1>3. TurnsGo(turn, turn') /\ turn' \in [Turns -> Asked]
  BY <1>2, SameTurns DEF Inv, Types
<1> HIDE DEF d
<1>4. ReadOf(store, listed)
  BY <1>1, ReadAges, ReadOfRead
<1> HIDE DEF listed
<1>5. accepted => calls \in Seq(Calls(listed, turn', u, Blank))
  <2> DEFINE C == Calls(listed, turn', u, Blank)
  <2>1. u \in Live(d) => u \in Live(store) /\ u \in Stored(store)
    BY <1>1 DEF ReadOf, Live
  <2>2. accepted => Exists(listed, u)
    BY <1>4, <2>1, ReadKeeps DEF Exists, Stored
  <2>3. accepted => Remove(u) \in C /\ Unbind(u) \in C /\ PickSurvivor \in C
    BY <2>2, OtherCallsFit
  <2> HIDE DEF C, accepted
  <2>4. accepted => calls \in Seq(C)
    BY <2>3
  <2> QED
    BY <2>4 DEF C
<1> HIDE DEF accepted, calls
<1> QED
  BY <1>1, <1>2, <1>3, <1>4, <1>5, HandleFits

LEMMA PersistKeeps ==
    ASSUME Inv, NEW t \in Turns, Persist(t)
    PROVE  Inv'
<1> DEFINE s == AnswerLine(t)
           g == Read(store, {s})
           found == s \in Live(g)
           d == IF found /\ ~g.session[s].stopped THEN ByBinding(g) ELSE g
           row == Recorded(g.session[s], t)
           accepted == found /\ Writable(d, s)
           calls == <<Put(s, row), Put(s, row)>>
           v == [turn[t] EXCEPT !.pc = "done"]
<1>1. store \in Store /\ turn \in [Turns -> Asked] /\ Blank \in Row /\ now \in 0..MaxTime
  BY BlankIsRow DEF Inv, Types
<1>2. ReadOf(store, g) /\ g \in Store
  BY <1>1, ReadAges DEF ReadOf
<1>3. /\ Handle(d, accepted, calls) /\ UNCHANGED <<now, tool>>
      /\ turn' = [turn EXCEPT ![t].pc = "done"] /\ turn[t].pc = "running"
  BY DEF Persist
<1>4. v \in Asked /\ v.pc = "done" /\ v.line = turn[t].line /\ s = v.line
  BY <1>1 DEF Asked, AnswerLine
<1>5. turn' = [turn EXCEPT ![t] = v]
  BY <1>3
<1> HIDE DEF s, g, v
<1>6. turn' \in [Turns -> Asked] /\ TurnsGo(turn, turn') /\ turn'[t] = v
  <2>1. v.pc # "new"
    BY <1>4
  <2>2. /\ [turn EXCEPT ![t] = v] \in [Turns -> Asked] /\ [turn EXCEPT ![t] = v][t] = v
        /\ TurnsGo(turn, [turn EXCEPT ![t] = v])
    BY <1>1, <1>4, <2>1, TurnGoes
  <2> QED
    BY <1>5, <2>2
<1>7. ReadOf(store, d)
  BY <1>1, <1>2, BindingIsLive, ReadOfRead
<1> HIDE DEF d
<1>8. \E c \in Lines : accepted => calls \in Seq(Calls(d, turn', c, Blank))
  <2>1. CASE found
    <3>1. Live(d) = Live(g) /\ d.session[s] = g.session[s] /\ s \in Live(d)
      BY <1>2, <1>7, <2>1, ReadKeeps DEF ReadOf
    <3>2. d \in Store /\ RowsFit(d, turn) /\ s \in Stored(d)
      BY <1>7, <3>1, ReadKeeps
    <3>3. s \in Lines /\ d.session[s] \in Row
      BY <3>2, SameTurns, ReadFits
    <3>4. From(d.session[s], row) /\ row.turns = d.session[s].turns \cup {t}
      BY <1>1, <3>1, <3>3, BuiltRows
    <3> HIDE DEF row
    <3>5. Put(s, row) \in Calls(d, turn', s, Blank)
      BY <1>4, <1>6, <3>2, <3>4, BuiltFits
    <3>6. calls \in Seq(Calls(d, turn', s, Blank))
      BY <3>5
    <3> QED
      BY <3>3, <3>6
  <2>2. CASE ~found
    <3>1. 1 \in Lines
      BY LineTypes DEF Lines
    <3> QED
      BY <2>2, <3>1
  <2> QED
    BY <2>1, <2>2
<1> HIDE DEF accepted, calls
<1> QED
  BY <1>1, <1>3, <1>6, <1>7, <1>8, HandleFits

-----------------------------------------------------------------------------
(* The store calls and the tools                                           *)

LEMMA UpsertedFits ==
    ASSUME NEW d \in Store, NEW tn, RowsFit(d, tn), NEW s \in Lines, NEW r \in Row,
           Lives(r), Descends(d, tn, s, r),
           Exists(d, s) => Kin(r, d.session[s])
    PROVE  /\ Upserted(d, s, r) \in Store /\ Later(d, Upserted(d, s, r))
           /\ RowsFit(Upserted(d, s, r), tn)
           /\ \A u \in Lines : ~Exists(d, u) /\ Exists(Upserted(d, s, r), u)
                               => u = s /\ Upserted(d, s, r).session[u] = r
<1> DEFINE e == Upserted(d, s, r)
<1>1. /\ e = [session |-> e.session, active |-> e.active]
      /\ e.session = [d.session EXCEPT ![s] = r]
      /\ e.active = IF d.active = NoLine THEN s ELSE d.active
  BY DEF Upserted
<1> HIDE DEF e
<1>2. d.session \in [Lines -> Row] /\ d.active \in Lines \cup {NoLine}
  BY DEF Store
<1>3. e \in Store
  BY <1>1, <1>2 DEF Store
<1>4. \A u \in Lines : e.session[u] = IF u = s THEN r ELSE d.session[u]
  BY <1>1, <1>2
<1>5. Later(d, e)
  BY <1>4 DEF Later, Exists, Kin, Lives
<1>6. RowsFit(e, tn)
  <2> SUFFICES ASSUME NEW u \in Lines
               PROVE  /\ Descends(e, tn, u, e.session[u])
                      /\ ~Exists(e, u) => e.session[u] = Blank
                      /\ e.session[u].state = "stored" => Lives(e.session[u])
    BY DEF RowsFit
  <2>1. TurnsGo(tn, tn)
    BY SameTurns
  <2>2. CASE u = s
    BY <1>4, <1>5, <2>1, <2>2, DescendsStill DEF Exists, Lives
  <2>3. CASE u # s
    <3>1. e.session[u] = d.session[u] /\ d.session[u] \in Row /\ Descends(d, tn, u, d.session[u])
      BY <1>2, <1>4, <2>3 DEF RowsFit
    <3> QED
      BY <1>5, <2>1, <3>1, DescendsStill DEF Exists, RowsFit
  <2> QED
    BY <2>2, <2>3
<1>7. \A u \in Lines : ~Exists(d, u) /\ Exists(e, u) => u = s /\ e.session[u] = r
  BY <1>4 DEF Exists
<1> QED
  BY <1>3, <1>5, <1>6, <1>7 DEF e

(* A step that keeps the rows and their parents, whatever is bound.        *)
LEMMA ReadStepKeeps ==
    ASSUME Inv, ReadOf(store, store'), UNCHANGED <<now, turn>>,
           script' = script \/ (script # <<>> /\ script' = Tail(script)),
           tool' \in [Turns -> Tool],
           \A t \in Turns : tool'[t] = tool[t] \/ ToolFits(store', turn', tool'[t])
    PROVE  Inv'
<1>1. /\ store \in Store /\ RowsFit(store, turn) /\ now' \in 0..MaxTime
      /\ turn' \in [Turns -> Asked] /\ TurnsGo(turn, turn')
  BY SameTurns DEF Inv, Types
<1>2. /\ Later(store, store') /\ RowsFit(store', turn') /\ store' \in Store
      /\ \A s \in Lines : Exists(store', s) <=> Exists(store, s)
  BY <1>1, AgedFits DEF ReadOf
<1>3. PICK c \in Lines, f \in Row : script \in Seq(Calls(store, turn, c, f))
  BY DEF Inv, ScriptFits
<1>4. ScriptFits'
  BY <1>1, <1>2, <1>3, RestFits
<1> QED
  BY <1>1, <1>2, <1>4, StepFits

(* The first call of the script.                                           *)
LEMMA FirstCall ==
    ASSUME Inv, NEW op, Next_(op)
    PROVE  \E c \in Lines, f \in Row :
              /\ script \in Seq(Calls(store, turn, c, f)) /\ script # <<>>
              /\ Head(script) \in Calls(store, turn, c, f) /\ Head(script).op = op
              /\ Tail(script) \in Seq(Calls(store, turn, c, f))
<1>1. PICK c \in Lines, f \in Row : script \in Seq(Calls(store, turn, c, f))
  BY DEF Inv, ScriptFits
<1>2. script # <<>> /\ Head(script).op = op
  BY DEF Next_, Idle
<1> QED
  BY <1>1, <1>2, HeadTailProperties

LEMMA UpsertKeeps ==
    ASSUME Inv, Upsert
    PROVE  Inv'
<1> DEFINE k == Head(script)
           s == k.id
           r == k.row
<1>1. PICK c \in Lines, f \in Row :
         /\ script \in Seq(Calls(store, turn, c, f)) /\ script # <<>>
         /\ k \in Calls(store, turn, c, f) /\ k.op = "put"
  BY FirstCall DEF Upsert
<1>2. /\ s \in Lines /\ r \in Row /\ Lives(r) /\ Descends(store, turn, s, r)
      /\ IF Exists(store, s) THEN Kin(r, store.session[s]) ELSE s = c /\ Kin(r, f)
  BY <1>1 DEF Calls, Call
<1>3. store' = Upserted(store, s, r) /\ script' = Tail(script) /\ UNCHANGED <<now, turn, tool>>
  BY DEF Upsert, Done
<1>4. /\ store \in Store /\ RowsFit(store, turn) /\ now' \in 0..MaxTime
      /\ turn' \in [Turns -> Asked] /\ TurnsGo(turn, turn') /\ tool' \in [Turns -> Tool]
  BY <1>3, SameTurns DEF Inv, Types
<1> HIDE DEF k, s, r
<1>5. /\ store' \in Store /\ Later(store, store') /\ RowsFit(store', turn')
      /\ \A u \in Lines : ~Exists(store, u) /\ Exists(store', u)
                          => u = s /\ store'.session[u] = r
  BY <1>2, <1>3, <1>4, UpsertedFits
<1>6. ScriptFits'
  <2>1. \A u \in Lines : ~Exists(store, u) /\ Exists(store', u)
                         => u = c /\ Kin(store'.session[u], f)
    BY <1>2, <1>5
  <2> QED
    BY <1>1, <1>3, <1>4, <1>5, <2>1, RestFits
<1> QED
  BY <1>3, <1>4, <1>5, <1>6, StepFits

LEMMA SetActiveSessionKeeps ==
    ASSUME Inv, SetActiveSession
    PROVE  Inv'
<1>1. PICK c \in Lines, f \in Row :
         script # <<>> /\ Head(script) \in Calls(store, turn, c, f) /\ Head(script).op = "activate"
  BY FirstCall DEF SetActiveSession
<1>2. Head(script).id \in Parents
  BY <1>1 DEF Calls, Call, Parents
<1>3. /\ store' = [store EXCEPT !.active = Head(script).id]
      /\ script' = Tail(script) /\ UNCHANGED <<now, turn, tool>>
  BY DEF SetActiveSession, Done
<1>4. ReadOf(store, store') /\ tool' \in [Turns -> Tool]
  BY <1>2, <1>3, SameReadOf, BoundReadOf DEF Inv, Types
<1> QED
  BY <1>1, <1>3, <1>4, ReadStepKeeps

LEMMA DeleteBindingKeeps ==
    ASSUME Inv, DeleteBinding
    PROVE  Inv'
<1>1. script # <<>> /\ store \in Store
  BY DEF DeleteBinding, Next_, Idle, Inv, Types
<1>2. /\ store' = [store EXCEPT !.active = NoLine] \/ store' = store
      /\ script' = Tail(script) /\ UNCHANGED <<now, turn, tool>>
  BY DEF DeleteBinding, Done
<1>3. NoLine \in Parents /\ ReadOf(store, store) /\ tool' \in [Turns -> Tool]
  BY <1>1, <1>2, SameReadOf DEF Parents, Inv, Types
<1>4. ReadOf(store, store')
  BY <1>2, <1>3, BoundReadOf
<1> QED
  BY <1>1, <1>2, <1>3, <1>4, ReadStepKeeps

LEMMA ShowBranchesKeeps ==
    ASSUME Inv, ShowBranches
    PROVE  Inv'
<1>1. script # <<>> /\ store \in Store
  BY DEF ShowBranches, Next_, Idle, Inv, Types
<1>2. store' = ByBinding(Read(store, Lines)) /\ script' = Tail(script) /\ UNCHANGED <<now, turn, tool>>
  BY DEF ShowBranches, Done
<1>3. ReadOf(store, store')
  <2> DEFINE e == Read(store, Lines)
  <2>1. ReadOf(store, e) /\ e \in Store
    BY <1>1, ReadAges DEF ReadOf
  <2> HIDE DEF e
  <2>2. ReadOf(e, ByBinding(e))
    BY <2>1, BindingIsLive
  <2>3. ReadOf(store, ByBinding(e))
    BY <1>1, <2>1, <2>2, ReadOfRead
  <2> QED
    BY <1>2, <2>3 DEF e
<1>4. tool' \in [Turns -> Tool]
  BY <1>2 DEF Inv, Types
<1> QED
  BY <1>1, <1>2, <1>3, <1>4, ReadStepKeeps

LEMMA DeleteRowKeeps ==
    ASSUME Inv, DeleteRow
    PROVE  Inv'
<1> DEFINE s == Head(script).id
           q == [store.session[s] EXCEPT !.state = "deleted"]
<1>1. PICK c \in Lines, f \in Row :
         /\ script \in Seq(Calls(store, turn, c, f)) /\ script # <<>>
         /\ Head(script) \in Calls(store, turn, c, f) /\ Head(script).op = "remove"
  BY FirstCall DEF DeleteRow
<1>2. s \in Lines /\ Exists(store, s)
  BY <1>1 DEF Calls
<1>3. script' = Tail(script) /\ UNCHANGED <<now, turn, tool>>
  BY DEF DeleteRow, Done
<1>4. /\ store \in Store /\ RowsFit(store, turn) /\ now' \in 0..MaxTime
      /\ turn' \in [Turns -> Asked] /\ TurnsGo(turn, turn') /\ tool' \in [Turns -> Tool]
  BY <1>3, SameTurns DEF Inv, Types
<1>5. store' = [store EXCEPT !.session[s].state = "deleted"]
  BY DEF DeleteRow
<1> HIDE DEF s
<1>6. store' = [store EXCEPT !.session = [store.session EXCEPT ![s] = q]]
  BY <1>2, <1>4, <1>5 DEF Store
<1>7. store.session \in [Lines -> Row] /\ store.active \in Lines \cup {NoLine}
  BY <1>4 DEF Store
<1>8. /\ q \in Row /\ q.state = "deleted" /\ Kin(q, store.session[s])
      /\ q.turns = store.session[s].turns /\ q.parent = store.session[s].parent
  BY <1>2, <1>7 DEF Row, Kin
<1> HIDE DEF q
<1>9. /\ store' \in Store
      /\ \A u \in Lines : store'.session[u] = IF u = s THEN q ELSE store.session[u]
  BY <1>2, <1>4, <1>6, <1>7, <1>8 DEF Store
<1>10. Later(store, store') /\ \A u \in Lines : Exists(store', u) <=> Exists(store, u)
  BY <1>2, <1>8, <1>9 DEF Later, Exists, Kin
<1>11. RowsFit(store', turn')
  <2> SUFFICES ASSUME NEW u \in Lines
               PROVE  /\ Descends(store', turn', u, store'.session[u])
                      /\ ~Exists(store', u) => store'.session[u] = Blank
                      /\ store'.session[u].state = "stored" => Lives(store'.session[u])
    BY DEF RowsFit
  <2>1. store.session[u] \in Row /\ Descends(store, turn, u, store.session[u])
    BY <1>4, <1>7 DEF RowsFit
  <2>2. Descends(store', turn', u, store.session[u])
    BY <1>4, <1>10, <2>1, DescendsStill
  <2>3. Descends(store', turn', u, store'.session[u])
    BY <1>8, <1>9, <2>2 DEF Descends
  <2> QED
    BY <1>2, <1>4, <1>8, <1>9, <1>10, <2>3 DEF RowsFit
<1>12. ScriptFits'
  BY <1>1, <1>3, <1>4, <1>10, RestFits
<1> QED
  BY <1>3, <1>4, <1>9, <1>10, <1>11, <1>12, StepFits

LEMMA ChooseSurvivorKeeps ==
    ASSUME Inv, ChooseSurvivor
    PROVE  Inv'
<1> DEFINE listed == Read(store, Lines)
           d == ByBinding(listed)
           u == IF d.active # NoLine THEN d.active ELSE Preferred(d)
<1>1. ReadOf(store, listed) /\ listed \in Store /\ store \in Store
  BY ReadAges DEF ReadOf, Inv, Types
<1>2. /\ IF Live(listed) = {} THEN store' = listed /\ script' = <<>>
         ELSE store' = d /\ script' = Resume(u, d.session[u])
      /\ UNCHANGED <<now, turn, tool>>
  BY DEF ChooseSurvivor
<1>3. turn' \in [Turns -> Asked] /\ TurnsGo(turn, turn') /\ Blank \in Row /\ 1 \in Lines
  BY <1>2, SameTurns, LineTypes, BlankIsRow DEF Inv, Types, Lines
<1> HIDE DEF listed
<1>4. CASE Live(listed) = {}
  <2>1. script' \in Seq(Calls(store', turn', 1, Blank))
    BY <1>2, <1>4
  <2> QED
    BY <1>1, <1>2, <1>3, <1>4, <2>1, StartFits
<1>5. CASE Live(listed) # {}
  <2>1. ReadOf(listed, d) /\ d.active \in Live(listed) \cup {NoLine}
    BY <1>1, BindingIsLive
  <2> HIDE DEF d
  <2>2. ReadOf(store, d) /\ d \in Store /\ Live(d) = Live(listed)
    BY <1>1, <2>1, ReadOfRead DEF ReadOf
  <2>3. u \in Live(d)
    BY <1>5, <2>1, <2>2, PreferredIsLive
  <2> HIDE DEF u
  <2>4. u \in Lines /\ Resume(u, d.session[u]) \in Seq(Calls(d, turn', u, Blank))
    BY <1>3, <2>2, <2>3, ResumeFits
  <2>5. store' = d /\ script' = Resume(u, d.session[u])
    BY <1>2, <1>5
  <2> QED
    BY <1>2, <1>3, <2>2, <2>4, <2>5, StartFits
<1> QED
  BY <1>4, <1>5

(* What a tool may become: it knows a line, or holds a live row.           *)
LEMMA ToolSet ==
    ASSUME Inv, NEW t \in Turns, NEW pc \in {"none", "read", "save", "unbind"},
           NEW s \in Parents, NEW r \in Row, SetTool(t, pc, s, r),
           pc # "none" => s \in Lines,
           NEW d, pc = "save" => /\ Exists(d, s) /\ Lives(r)
                                 /\ Kin(r, d.session[s]) /\ Descends(d, turn, s, r)
    PROVE  /\ tool' \in [Turns -> Tool]
           /\ \A x \in Turns : tool'[x] = tool[x] \/ ToolFits(d, turn, tool'[x])
<1> DEFINE w == [pc |-> pc, id |-> s, row |-> r]
<1>1. w \in Tool /\ w.pc = pc /\ w.id = s /\ w.row = r
  BY DEF Tool, Parents
<1>2. tool' = [tool EXCEPT ![t] = w] /\ tool \in [Turns -> Tool]
  BY DEF SetTool, Inv, Types
<1> HIDE DEF w
<1>3. ToolFits(d, turn, w)
  BY <1>1 DEF ToolFits
<1> QED
  BY <1>1, <1>2, <1>3

LEMMA LiveFits ==
    ASSUME Inv, NEW d, ReadOf(store, d), NEW s \in Live(d)
    PROVE  /\ s \in Lines /\ s \in Parents /\ d.session[s] \in Row /\ Exists(d, s)
           /\ Lives(d.session[s]) /\ Descends(d, turn, s, d.session[s])
           /\ Kin(d.session[s], d.session[s])
<1>1. d \in Store /\ RowsFit(d, turn) /\ s \in Stored(d)
  BY ReadKeeps
<1> QED
  BY <1>1, SameTurns, ReadFits DEF Parents, Kin

LEMMA ToolLookupKeeps ==
    ASSUME Inv, NEW t \in Turns, ToolLookup(t)
    PROVE  Inv'
<1> DEFINE d == ByBinding(store)
<1>1. UNCHANGED <<now, turn, script>>
  BY DEF ToolLookup
<1>2. CASE store.active # NoLine
  <2>1. UNCHANGED store /\ SetTool(t, "read", store.active, Blank)
    BY <1>2 DEF ToolLookup
  <2>2. store.active \in Lines /\ store.active \in Parents /\ Blank \in Row
    BY <1>2, BlankIsRow DEF Inv, Types, Store, Parents
  <2>3. /\ tool' \in [Turns -> Tool]
        /\ \A x \in Turns : tool'[x] = tool[x] \/ ToolFits(store, turn, tool'[x])
    BY <2>1, <2>2, ToolSet
  <2>4. ReadOf(store, store')
    BY <2>1, SameReadOf DEF Inv, Types
  <2> QED
    BY <1>1, <2>1, <2>3, <2>4, ReadStepKeeps
<1>3. CASE store.active = NoLine
  <2>1. /\ store' = d
        /\ IF d.active # NoLine /\ ~d.session[d.active].stopped
           THEN SetTool(t, "save", d.active, d.session[d.active]) ELSE UNCHANGED tool
    BY <1>3 DEF ToolLookup
  <2>2. ReadOf(store, d) /\ d.active \in Live(d) \cup {NoLine}
    BY BindingIsLive DEF ReadOf, Inv, Types
  <2> HIDE DEF d
  <2>3. /\ tool' \in [Turns -> Tool]
        /\ \A x \in Turns : tool'[x] = tool[x] \/ ToolFits(d, turn, tool'[x])
    <3>1. CASE tool' = tool
      BY <3>1 DEF Inv, Types
    <3>2. CASE d.active # NoLine /\ SetTool(t, "save", d.active, d.session[d.active])
      BY <2>2, <3>2, LiveFits, ToolSet
    <3> QED
      BY <2>1, <3>1, <3>2
  <2> QED
    BY <1>1, <2>1, <2>2, <2>3, ReadStepKeeps
<1> QED
  BY <1>2, <1>3

LEMMA ToolReadKeeps ==
    ASSUME Inv, NEW t \in Turns, ToolRead(t)
    PROVE  Inv'
<1> DEFINE s == tool[t].id
           d == Read(store, {s})
<1>1. /\ UNCHANGED <<now, turn, script>> /\ store' = d
      /\ \/ SetTool(t, "unbind", s, Blank)
         \/ s \in Live(d) /\ SetTool(t, "save", s, d.session[s])
         \/ SetTool(t, "none", NoLine, Blank)
  BY DEF ToolRead
<1>2. s \in Lines /\ s \in Parents /\ NoLine \in Parents /\ Blank \in Row
  BY BlankIsRow DEF ToolRead, Inv, ToolsFit, ToolFits, Parents
<1>3. ReadOf(store, d)
  BY ReadAges DEF Inv, Types
<1> HIDE DEF s, d
<1>4. /\ tool' \in [Turns -> Tool]
      /\ \A x \in Turns : tool'[x] = tool[x] \/ ToolFits(d, turn, tool'[x])
  <2>1. CASE SetTool(t, "unbind", s, Blank)
    BY <1>2, <2>1, ToolSet
  <2>2. CASE s \in Live(d) /\ SetTool(t, "save", s, d.session[s])
    BY <1>3, <2>2, LiveFits, ToolSet
  <2>3. CASE SetTool(t, "none", NoLine, Blank)
    BY <1>2, <2>3, ToolSet
  <2> QED
    BY <1>1, <2>1, <2>2, <2>3
<1> QED
  BY <1>1, <1>3, <1>4, ReadStepKeeps

LEMMA ToolUnbindKeeps ==
    ASSUME Inv, NEW t \in Turns, ToolUnbind(t)
    PROVE  Inv'
<1>1. /\ UNCHANGED <<now, turn, script>> /\ store' = [store EXCEPT !.active = NoLine]
      /\ SetTool(t, "none", NoLine, Blank)
  BY DEF ToolUnbind
<1>2. NoLine \in Parents /\ Blank \in Row /\ ReadOf(store, store)
  BY BlankIsRow, SameReadOf DEF Inv, Types, Parents
<1>3. ReadOf(store, store')
  BY <1>1, <1>2, BoundReadOf
<1>4. /\ tool' \in [Turns -> Tool]
      /\ \A x \in Turns : tool'[x] = tool[x] \/ ToolFits(store', turn, tool'[x])
  BY <1>1, <1>2, ToolSet
<1> QED
  BY <1>1, <1>3, <1>4, ReadStepKeeps

LEMMA ToolSaveKeeps ==
    ASSUME Inv, NEW t \in Turns, ToolSave(t)
    PROVE  Inv'
<1> DEFINE s == tool[t].id
           r == tool[t].row
<1>1. /\ UNCHANGED <<now, turn, script>> /\ store' = Upserted(store, s, r)
      /\ SetTool(t, "none", NoLine, Blank)
  BY DEF ToolSave
<1>2. /\ s \in Lines /\ r \in Row /\ Exists(store, s) /\ Lives(r)
      /\ Kin(r, store.session[s]) /\ Descends(store, turn, s, r)
  <2>1. tool[t] \in Tool /\ tool[t].pc = "save" /\ ToolFits(store, turn, tool[t])
    BY DEF ToolSave, Inv, Types, ToolsFit
  <2> QED
    BY <2>1 DEF Tool, ToolFits
<1> HIDE DEF s, r
<1>3. /\ store \in Store /\ RowsFit(store, turn) /\ now' \in 0..MaxTime
      /\ turn' \in [Turns -> Asked] /\ TurnsGo(turn, turn') /\ NoLine \in Parents /\ Blank \in Row
  BY <1>1, SameTurns, BlankIsRow DEF Inv, Types, Parents
<1>4. /\ store' \in Store /\ Later(store, store') /\ RowsFit(store', turn')
      /\ \A u \in Lines : ~Exists(store, u) /\ Exists(store', u) => u = s
  BY <1>1, <1>2, <1>3, UpsertedFits
<1>5. PICK c \in Lines, f \in Row : script \in Seq(Calls(store, turn, c, f))
  BY DEF Inv, ScriptFits
<1>6. ScriptFits'
  BY <1>1, <1>2, <1>3, <1>4, <1>5, RestFits
<1>7. /\ tool' \in [Turns -> Tool]
      /\ \A x \in Turns : tool'[x] = tool[x] \/ ToolFits(store', turn, tool'[x])
  BY <1>1, <1>3, ToolSet
<1> QED
  BY <1>1, <1>3, <1>4, <1>6, <1>7, StepFits

LEMMA CrashKeeps ==
    ASSUME Inv, Crash
    PROVE  Inv'
<1>1. /\ script' = <<>> /\ tool' = [t \in Turns |-> NoTool] /\ UNCHANGED <<now, store>>
      /\ turn' = [t \in Turns |-> IF turn[t].pc = "running" THEN [turn[t] EXCEPT !.pc = "lost"]
                                  ELSE turn[t]]
  BY DEF Crash
<1>2. store \in Store /\ RowsFit(store, turn) /\ now \in 0..MaxTime /\ turn \in [Turns -> Asked]
  BY DEF Inv, Types
<1>3. turn' \in [Turns -> Asked] /\ TurnsGo(turn, turn')
  <2>1. \A t \in Turns : /\ [turn[t] EXCEPT !.pc = "lost"] \in Asked
                         /\ [turn[t] EXCEPT !.pc = "lost"].pc = "lost"
                         /\ [turn[t] EXCEPT !.pc = "lost"].line = turn[t].line
    BY <1>2 DEF Asked
  <2> QED
    BY <1>1, <1>2, <2>1 DEF TurnsGo
<1>4. Later(store, store') /\ RowsFit(store', turn')
  <2>1. ReadOf(store, store')
    BY <1>1, <1>2, SameReadOf
  <2> QED
    BY <1>2, <1>3, <2>1, AgedFits
<1>5. NoTool \in Tool /\ \A d, tn : ToolFits(d, tn, NoTool)
  BY BlankIsRow DEF NoTool, Tool, ToolFits
<1>6. ScriptFits'
  BY <1>1, EmptyScriptFits DEF ScriptFits
<1> QED
  BY <1>1, <1>2, <1>3, <1>4, <1>5, <1>6, StepFits

LEMMA TickKeeps ==
    ASSUME Inv, Tick
    PROVE  Inv'
<1>1. now < MaxTime /\ now' = now + 1 /\ UNCHANGED <<store, turn, tool, script>>
  BY DEF Tick
<1>2. now' \in 0..MaxTime
  BY <1>1, ConversationAssumption DEF Inv, Types
<1>3. Types'
  BY <1>1, <1>2 DEF Inv, Types
<1>4. RowsFit(store, turn)' /\ ScriptFits' /\ ToolsFit'
  BY <1>1 DEF Inv, ScriptFits, ToolsFit
<1> QED
  BY <1>3, <1>4 DEF Inv

LEMMA InitInv ==
    ASSUME Init
    PROVE  Inv
<1>1. /\ now = 0 /\ store = [session |-> [s \in Lines |-> Blank], active |-> NoLine]
      /\ turn = [t \in Turns |-> [pc |-> "new", line |-> NoLine]]
      /\ tool = [t \in Turns |-> NoTool] /\ script = <<>>
  BY DEF Init
<1>2. Blank \in Row /\ Blank.state = "unused" /\ Blank.parent = NoLine /\ Blank.turns = {}
  BY BlankIsRow DEF Blank
<1>3. store \in Store /\ store.session = [s \in Lines |-> Blank]
  BY <1>1, <1>2 DEF Store
<1>4. NoTool \in Tool /\ \A d, tn : ToolFits(d, tn, NoTool)
  BY <1>2 DEF NoTool, Tool, ToolFits
<1>5. Types
  <2>1. now \in 0..MaxTime /\ script \in Seq(Call)
    BY <1>1, ConversationAssumption
  <2>2. turn \in [Turns -> Asked]
    BY <1>1 DEF Asked
  <2> QED
    BY <1>1, <1>3, <1>4, <2>1, <2>2 DEF Types
<1>6. RowsFit(store, turn)
  BY <1>2, <1>3 DEF RowsFit, Descends
<1>7. ScriptFits
  BY <1>1, EmptyScriptFits DEF ScriptFits
<1>8. ToolsFit
  BY <1>1, <1>4 DEF ToolsFit
<1> QED
  BY <1>5, <1>6, <1>7, <1>8 DEF Inv

LEMMA StutterKeeps == Inv /\ UNCHANGED vars => Inv'
BY DEF Inv, Types, ScriptFits, ToolsFit, vars

LEMMA NextInv ==
    ASSUME Inv, [Next]_vars
    PROVE  Inv'
<1>1. CASE StoreCall
  BY <1>1, UpsertKeeps, SetActiveSessionKeeps, DeleteRowKeeps, DeleteBindingKeeps,
     ChooseSurvivorKeeps, ShowBranchesKeeps DEF StoreCall
<1>2. CASE Ask \/ Crash \/ Tick
  BY <1>2, AskKeeps, CrashKeeps, TickKeeps
<1>3. ASSUME NEW t \in Turns, Chat(t) \/ Persist(t) PROVE Inv'
  BY <1>3, ChatKeeps, PersistKeeps
<1>4. ASSUME NEW t \in Turns, ToolLookup(t) \/ ToolRead(t) \/ ToolUnbind(t) \/ ToolSave(t)
      PROVE  Inv'
  BY <1>4, ToolLookupKeeps, ToolReadKeeps, ToolUnbindKeeps, ToolSaveKeeps
<1>5. ASSUME NEW s \in Lines, Edit(s) \/ Stage(s) \/ Fork(s) PROVE Inv'
  BY <1>5, EditKeeps, StageKeeps, ForkKeeps
<1>6. ASSUME NEW s \in Lines, NEW t \in Turns, Confirm(s, t) PROVE Inv'
  BY <1>6, ConfirmKeeps
<1>7. ASSUME NEW s \in Lines, NEW u \in Lines, Switch(s, u) \/ Delete(s, u) PROVE Inv'
  BY <1>7, SwitchKeeps, DeleteKeeps
<1>8. CASE UNCHANGED vars
  BY <1>8, StutterKeeps
<1> QED
  BY <1>1, <1>2, <1>3, <1>4, <1>5, <1>6, <1>7, <1>8 DEF Next

THEOREM Invariance == Spec => []Inv
<1>1. Init => Inv
  BY InitInv
<1>2. Inv /\ [Next]_vars => Inv'
  BY NextInv
<1> QED
  BY <1>1, <1>2, PTL DEF Spec

(* Every variable has its type, whatever faults happen.                    *)
THEOREM Typed == Spec => []TypeOK
<1>1. Init => dropped \in [Lines -> SUBSET Turns]
  BY DEF Init
<1>2. Inv /\ dropped \in [Lines -> SUBSET Turns] /\ [Next]_vars
         => (dropped \in [Lines -> SUBSET Turns])'
  <2> SUFFICES ASSUME Inv, dropped \in [Lines -> SUBSET Turns], [Next]_vars
               PROVE  dropped' \in [Lines -> SUBSET Turns]
    OBVIOUS
  <2>1. ASSUME NEW t \in Turns, ToolSave(t) PROVE dropped' \in [Lines -> SUBSET Turns]
    <3>1. tool[t].id \in Lines /\ tool[t].pc = "save"
      BY <2>1 DEF ToolSave, Inv, ToolsFit, ToolFits
    <3>2. store.session[tool[t].id].turns \subseteq Turns
      BY <3>1 DEF Inv, Types, Store, Row
    <3> QED
      BY <2>1, <3>1, <3>2 DEF ToolSave
  <2>2. CASE \E t \in Turns : ToolSave(t)
    BY <2>1, <2>2
  <2>3. CASE dropped' = dropped
    BY <2>3
  <2>4. (\E t \in Turns : ToolSave(t)) \/ dropped' = dropped
    <3>1. CASE StoreCall
      BY <3>1 DEF StoreCall, Upsert, SetActiveSession, DeleteRow, DeleteBinding, ChooseSurvivor,
                  ShowBranches, Done
    <3>2. CASE Ask \/ Crash \/ Tick \/ UNCHANGED vars
      BY <3>2 DEF Ask, Crash, Tick, vars
    <3>3. ASSUME NEW t \in Turns, Chat(t) \/ Persist(t) \/ ToolLookup(t) \/ ToolRead(t)
                                  \/ ToolUnbind(t)
          PROVE  dropped' = dropped
      BY <3>3 DEF Chat, Persist, ToolLookup, ToolRead, ToolUnbind
    <3>4. ASSUME NEW s \in Lines, Edit(s) \/ Stage(s) \/ Fork(s) PROVE dropped' = dropped
      BY <3>4 DEF Edit, Stage, Fork
    <3>5. ASSUME NEW s \in Lines, NEW t \in Turns, Confirm(s, t) PROVE dropped' = dropped
      BY <3>5 DEF Confirm
    <3>6. ASSUME NEW s \in Lines, NEW u \in Lines, Switch(s, u) \/ Delete(s, u)
          PROVE  dropped' = dropped
      BY <3>6 DEF Switch, Delete
    <3> QED
      BY <3>1, <3>2, <3>3, <3>4, <3>5, <3>6 DEF Next
  <2> QED
    BY <2>2, <2>3, <2>4
<1>3. Inv /\ dropped \in [Lines -> SUBSET Turns] => TypeOK
  BY DEF Inv, Types, TypeOK
<1> QED
  BY <1>1, <1>2, <1>3, Invariance, PTL DEF Spec

(* A line holds only turns asked on it or on a line it descends from, with *)
(* crashes and with the tools of answers at any moment.                    *)
THEOREM TurnsAreOfTheLine == Spec => []NoForeignTurns
<1>1. Inv => NoForeignTurns
  <2> SUFFICES ASSUME Inv, NEW s \in Stored(store), NEW t \in store.session[s].turns
               PROVE  turn[t].line \in Lineage(store, s)
    BY DEF NoForeignTurns
  <2>1. s \in Lines /\ Descends(store, turn, s, store.session[s])
    BY DEF Inv, RowsFit, Stored
  <2> QED
    BY <2>1, LineageHasParents DEF Descends
<1> QED
  BY <1>1, Invariance, PTL

-----------------------------------------------------------------------------
(* What the scripts do to the turns of lines                               *)

(* Calls on line s alone, calls that save the turns a line has, and calls  *)
(* that save turn t with them.                                             *)
On(s) == {k \in Call : k.op \in {"put", "activate"} /\ k.id = s}
Plain(d) == {k \in Call : k.op # "remove" /\ (k.op = "put" => k.row.turns = d.session[k.id].turns)}
Adding(d, s, t) == {k \in Call : k.op = "put" /\ k.id = s
                                 /\ k.row.turns = d.session[s].turns \cup {t}}

Adds(d, un, w) ==
    \E s \in Lines, t \in Turns :
        \E a \in Seq(On(s) \cap Plain(d)), b \in Seq(Adding(d, s, t)) :
            w = a \o b /\ un[t].line = s /\ d.active \in {s, NoLine}

Forks(d, w) ==
    \E s \in Lines, c \in Lines, q \in Row, r \in Row :
        /\ w = <<Put(s, q), Put(c, r), Activate(c), ListBranches>>
        /\ s # c /\ c \notin Stored(d) /\ d.session[c].turns = {}
        /\ q.turns = d.session[s].turns

Deletes(d, w) ==
    \E u \in Lines : /\ w = <<Remove(u), Unbind(u), PickSurvivor>>
                     /\ \E v \in Stored(d) : v # u

Starts(d, un, w) ==
    w \in Seq(Plain(d)) \/ Adds(d, un, w) \/ Forks(d, w) \/ Deletes(d, w)

LEMMA NothingStarts == ASSUME NEW d, NEW un PROVE Starts(d, un, <<>>)
BY DEF Starts

LEMMA PutIsPlain ==
    ASSUME NEW d, NEW s \in Lines, NEW q \in Row, q.turns = d.session[s].turns
    PROVE  Put(s, q) \in Plain(d) /\ Put(s, q) \in On(s)
BY DEF Put, Plain, On, Call

LEMMA OtherCallsArePlain ==
    ASSUME NEW d
    PROVE  /\ \A s \in Lines : Activate(s) \in Plain(d) /\ Activate(s) \in On(s)
           /\ ListBranches \in Plain(d)
BY BlankIsRow DEF Activate, ListBranches, Plain, On, Call

LEMMA PutIsAdding ==
    ASSUME NEW d, NEW s \in Lines, NEW t, NEW q \in Row, q.turns = d.session[s].turns \cup {t}
    PROVE  Put(s, q) \in Adding(d, s, t)
BY DEF Put, Adding, Call

(* Shown's cards after one call.                                           *)
LEMMA ShownIsPlain ==
    ASSUME NEW d, NEW k \in Plain(d), NEW card \in Shown
    PROVE  <<k>> \o card \in Seq(Plain(d))
<1>1. ListBranches \in Plain(d)
  BY OtherCallsArePlain
<1> DEFINE C == Plain(d)
<1> SUFFICES <<k>> \o card \in Seq(C)
  OBVIOUS
<1>2. ListBranches \in C /\ k \in C
  BY <1>1
<1> HIDE DEF C
<1>3. <<>> \in Seq(C) /\ <<ListBranches>> \in Seq(C) /\ <<k>> \in Seq(C)
  BY <1>2
<1>4. card \in Seq(C)
  BY <1>3, Zenon DEF Shown
<1> QED
  BY <1>3, <1>4, ConcatProperties

(* get_or_create makes its calls on one line, which is blank when it is    *)
(* new.                                                                    *)
LEMMA CurrentIsPlain ==
    ASSUME Inv, NEW d, ReadOf(store, d), d.active \in Live(store) \cup {NoLine}, Room(d)
    PROVE  /\ Current(d) \in Lines /\ CurrentRow(d) \in Row
           /\ CurrentRow(d).turns = d.session[Current(d)].turns
           /\ d.active \in {Current(d), NoLine}
           /\ Created(d) \in Seq(On(Current(d)) \cap Plain(d))
<1> DEFINE c == Current(d)
           r == CurrentRow(d)
           C == On(c) \cap Plain(d)
<1>1. c \in Lines /\ r \in Row
  BY SameTurns, CurrentFits
<1>2. /\ RowsFit(d, turn) /\ now \in 0..MaxTime
      /\ \A s \in Lines : Exists(d, s) <=> Exists(store, s)
  BY ReadKeeps
<1>3. CASE d.active # NoLine
  BY <1>1, <1>3 DEF Current, CurrentRow, Created
<1>4. CASE d.active = NoLine
  <2>1. c = Min(Unused) /\ r = NewLine /\ Created(d) = <<Put(c, NewLine), Activate(c)>>
    BY <1>4 DEF Current, CurrentRow, Created
  <2>2. c \in Unused
    <3>1. Unused \in SUBSET Nat /\ Unused # {}
      BY <1>4, LineTypes DEF Unused, Room
    <3> QED
      BY <2>1, <3>1, LeastLine
  <2>3. ~Exists(d, c)
    BY <1>1, <1>2, <2>2 DEF Unused, Known, Exists
  <2>4. d.session[c] = Blank /\ Blank.turns = {} /\ r.turns = {}
    BY <1>1, <1>2, <2>1, <2>3, NewLineIsBlank DEF RowsFit, Blank
  <2>5. Put(c, r) \in C /\ Activate(c) \in C
    <3> HIDE DEF c, r
    <3> QED
      BY <1>1, <2>4, PutIsPlain, OtherCallsArePlain
  <2> HIDE DEF C, c
  <2>6. <<Put(c, r), Activate(c)>> \in Seq(C)
    BY <2>5
  <2> QED
    BY <1>1, <1>4, <2>1, <2>4, <2>6 DEF C, c
<1> QED
  BY <1>3, <1>4

LEMMA SplitLast ==
    ASSUME NEW w \in Seq(Call), NEW x \in Call, NEW y \in Call
    PROVE  w \o <<x, y>> = (w \o <<x>>) \o <<y>>
<1> DEFINE u == <<x>>
           v == <<y>>
           uv == <<x, y>>
<1>1. u \in Seq(Call) /\ Len(u) = 1 /\ u[1] = x
  OBVIOUS
<1>2. v \in Seq(Call) /\ Len(v) = 1 /\ v[1] = y
  OBVIOUS
<1>3. uv \in Seq(Call) /\ Len(uv) = 2 /\ uv[1] = x /\ uv[2] = y
  OBVIOUS
<1> HIDE DEF u, v, uv
<1>4. uv = u \o v
  <2>1. /\ u \o v \in Seq(Call) /\ Len(u \o v) = 2
        /\ \A i \in 1..2 : (u \o v)[i] = IF i <= 1 THEN u[i] ELSE v[i - 1]
    BY <1>1, <1>2, ConcatProperties
  <2>2. \A i \in 1..2 : uv[i] = (u \o v)[i]
    BY <1>1, <1>2, <1>3, <2>1
  <2> QED
    BY <1>3, <2>1, <2>2, SeqEqual
<1>5. w \o (u \o v) = (w \o u) \o v
  BY <1>1, <1>2, ConcatAssociative
<1> QED
  BY <1>4, <1>5 DEF u, v, uv

LEMMA ChatStarts ==
    ASSUME Inv, NEW t \in Turns, Chat(t)
    PROVE  ReadOf(store, store') /\ Starts(store', turn', script')
<1> DEFINE d == ByBinding(store)
           s == Current(d)
           row == CurrentRow(d)
<1>1. ReadOf(store, d) /\ d.active \in Live(store) \cup {NoLine}
  BY BindingIsLive DEF Inv, Types
<1>2. /\ Room(d) /\ store' = d
      /\ script' = IF Accepts(d) THEN Created(d) \o <<Put(s, row), Put(s, Recorded(row, t))>>
                   ELSE <<>>
      /\ turn' = IF Accepts(d) THEN [turn EXCEPT ![t] = [pc |-> "done", line |-> s]] ELSE turn
      /\ turn \in [Turns -> Asked] /\ now \in 0..MaxTime
  BY DEF Chat, Handle, Inv, Types
<1>3. /\ s \in Lines /\ row \in Row /\ row.turns = d.session[s].turns
      /\ d.active \in {s, NoLine} /\ Created(d) \in Seq(On(s) \cap Plain(d))
  BY <1>1, <1>2, CurrentIsPlain
<1> HIDE DEF d, s, row
<1>4. CASE Accepts(d)
  <2> DEFINE a == Created(d) \o <<Put(s, row)>>
             b == <<Put(s, Recorded(row, t))>>
  <2>1. Put(s, row) \in On(s) \cap Plain(d)
    BY <1>3, PutIsPlain
  <2>2. <<Put(s, row)>> \in Seq(On(s) \cap Plain(d))
    BY <2>1
  <2>3. a \in Seq(On(s) \cap Plain(d))
    BY <1>3, <2>2, ConcatProperties
  <2>4. Put(s, Recorded(row, t)) \in Adding(d, s, t)
    <3>1. From(row, Recorded(row, t)) /\ Recorded(row, t).turns = row.turns \cup {t}
      BY <1>2, <1>3, BuiltRows
    <3> QED
      BY <1>3, <3>1, PutIsAdding DEF From
  <2>5. b \in Seq(Adding(d, s, t))
    BY <2>4
  <2>6. script' = a \o b
    <3>1. script' = Created(d) \o <<Put(s, row), Put(s, Recorded(row, t))>>
      BY <1>2, <1>4
    <3>2. Created(d) \in Seq(Call)
      <4>1. On(s) \cap Plain(d) \subseteq Call
        BY DEF On
      <4> QED
        BY <1>3, <4>1, SeqMonotonic
    <3>3. Put(s, row) \in Call /\ Put(s, Recorded(row, t)) \in Call
      BY <2>1, <2>4 DEF On, Adding
    <3> QED
      BY <3>1, <3>2, <3>3, SplitLast
  <2>7. turn'[t].line = s
    BY <1>2, <1>4
  <2> HIDE DEF a, b
  <2>8. Adds(d, turn', script')
    BY <1>3, <2>3, <2>5, <2>6, <2>7 DEF Adds
  <2> QED
    BY <1>1, <1>2, <2>8 DEF Starts
<1>5. CASE ~Accepts(d)
  BY <1>1, <1>2, <1>5, NothingStarts
<1> QED
  BY <1>4, <1>5

LEMMA AskStarts ==
    ASSUME Inv, Ask
    PROVE  ReadOf(store, store') /\ Starts(store', turn', script')
<1> DEFINE d == ByBinding(store)
           s == Current(d)
           row == CurrentRow(d)
           C == Plain(d)
<1>1. ReadOf(store, d) /\ d.active \in Live(store) \cup {NoLine}
  BY BindingIsLive DEF Inv, Types
<1>2. PICK rest \in {<<>>, <<Put(s, Refreshed(row)), ListBranches>>} :
         script' = IF Accepts(d) THEN Created(d) \o <<Put(s, row)>> \o rest ELSE <<>>
  BY DEF Ask, Handle
<1>3. Room(d) /\ store' = d /\ now \in 0..MaxTime
  BY DEF Ask, Handle, Inv, Types
<1>4. /\ s \in Lines /\ row \in Row /\ row.turns = d.session[s].turns
      /\ Created(d) \in Seq(On(s) \cap Plain(d))
  BY <1>1, <1>3, CurrentIsPlain
<1> HIDE DEF d, s, row
<1>5. Created(d) \in Seq(C)
  BY <1>4, SeqMonotonic
<1>6. Put(s, row) \in C /\ Put(s, Refreshed(row)) \in C /\ ListBranches \in C
  <2>1. Refreshed(row) \in Row /\ Refreshed(row).turns = row.turns
    BY <1>3, <1>4, BuiltRows DEF From
  <2> QED
    BY <1>4, <2>1, PutIsPlain, OtherCallsArePlain
<1> DEFINE y == Put(s, Refreshed(row))
           x == Put(s, row)
<1>7. x \in C /\ y \in C /\ ListBranches \in C /\ rest \in {<<>>, <<y, ListBranches>>}
  BY <1>2, <1>6
<1>8. Created(d) \o <<x>> \o rest \in Seq(C)
  <2> HIDE DEF C, x, y
  <2>1. <<>> \in Seq(C) /\ <<x>> \in Seq(C) /\ <<y, ListBranches>> \in Seq(C)
    BY <1>7
  <2>2. rest \in Seq(C)
    BY <1>7, <2>1, Zenon
  <2> QED
    BY <1>5, <2>1, <2>2, ConcatProperties
<1>9. script' \in Seq(C)
  BY <1>2, <1>8
<1> QED
  BY <1>1, <1>3, <1>9 DEF Starts

LEMMA ConfirmStarts ==
    ASSUME Inv, NEW s \in Lines, NEW t \in Turns, Confirm(s, t)
    PROVE  ReadOf(store, store') /\ Starts(store', turn', script')
<1> DEFINE d == Opened(s)
<1>1. ReadOf(store, d)
  BY OpenedIsRead DEF Inv, Types
<1>2. store' = d /\ (script' = <<Put(s, d.session[s])>> \/ script' = <<>>)
  BY DEF Confirm, Handle
<1> HIDE DEF d
<1>3. d.session[s] \in Row
  BY <1>1 DEF ReadOf, Store
<1>4. Put(s, d.session[s]) \in Plain(d)
  BY <1>3, PutIsPlain
<1>5. <<Put(s, d.session[s])>> \in Seq(Plain(d))
  BY <1>4
<1> QED
  BY <1>1, <1>2, <1>5, NothingStarts DEF Starts

LEMMA TouchedStarts ==
    ASSUME now \in 0..MaxTime, NEW s \in Lines, NEW d \in Store, NEW card \in Shown, NEW un
    PROVE  Starts(d, un, <<Put(s, Touched(d.session[s]))>> \o card)
<1>1. d.session[s] \in Row
  BY DEF Store
<1>2. Touched(d.session[s]) \in Row /\ Touched(d.session[s]).turns = d.session[s].turns
  BY <1>1, BuiltRows DEF From
<1>3. Put(s, Touched(d.session[s])) \in Plain(d)
  BY <1>2, PutIsPlain
<1> QED
  BY <1>3, ShownIsPlain DEF Starts

LEMMA EditStarts ==
    ASSUME Inv, NEW s \in Lines, Edit(s) \/ Stage(s)
    PROVE  ReadOf(store, store') /\ Starts(store', turn', script')
<1> DEFINE d == IF Edit(s) THEN Opened(s) ELSE Read(store, {s})
<1>1. ReadOf(store, d) /\ d \in Store /\ now \in 0..MaxTime
  BY OpenedIsRead, ReadAges DEF ReadOf, Inv, Types
<1>2. /\ store' = d
      /\ \/ \E card \in Shown : script' = <<Put(s, Touched(d.session[s]))>> \o card
         \/ script' = <<>>
  <2>1. CASE Edit(s)
    BY <2>1 DEF Edit, Handle
  <2>2. CASE ~Edit(s) /\ Stage(s)
    BY <2>2 DEF Stage, Handle
  <2> QED
    BY <2>1, <2>2
<1> HIDE DEF d
<1> QED
  BY <1>1, <1>2, TouchedStarts, NothingStarts

LEMMA ForkStarts ==
    ASSUME Inv, NEW s \in Lines, Fork(s)
    PROVE  ReadOf(store, store') /\ Starts(store', turn', script')
<1> DEFINE e == Opened(s)
           d == Read(e, Lines)
           row == d.session[s]
           child == Min(Unused)
           name == NextName({d.session[u].name : u \in Live(d)})
           calls == <<Put(s, Frozen(row)), Put(child, Branch(row, s, name)), Activate(child),
                      ListBranches>>
<1>1. store \in Store /\ now \in 0..MaxTime
  BY DEF Inv, Types
<1>2. ReadOf(store, d)
  <2>1. ReadOf(store, e) /\ e \in Store
    BY <1>1, OpenedIsRead DEF ReadOf
  <2> HIDE DEF e
  <2> QED
    BY <1>1, <2>1, ReadAges, ReadOfRead
<1>3. /\ store' = d /\ (script' = calls \/ script' = <<>>)
      /\ Unused # {} /\ s \in Known
  BY DEF Fork, Handle
<1>4. child \in Unused
  <2>1. Unused \in SUBSET Nat
    BY LineTypes DEF Unused
  <2> QED
    BY <1>3, <2>1, LeastLine
<1>5. name \in Names
  <2>1. d \in Store /\ Live(d) \in SUBSET Lines
    BY <1>2, ReadKeeps DEF Live, Stored
  <2> HIDE DEF d
  <2> QED
    BY <2>1, NextNameIsName
<1> HIDE DEF e, d, child, name
<1>6. d \in Store /\ RowsFit(d, turn) /\ row \in Row
  BY <1>2, ReadKeeps DEF Store
<1>7. child \in Lines /\ ~Exists(d, child) /\ child # s
  BY <1>2, <1>3, <1>4, ReadKeeps DEF Unused, Known, Exists
<1>8. child \notin Stored(d) /\ d.session[child].turns = {}
  BY <1>6, <1>7 DEF RowsFit, Stored, Exists, Blank
<1>9. /\ Frozen(row) \in Row /\ Frozen(row).turns = row.turns
      /\ Branch(row, s, name) \in Row
  BY <1>1, <1>5, <1>6, BuiltRows DEF From
<1>10. Forks(d, calls)
  BY <1>7, <1>8, <1>9 DEF Forks
<1> QED
  BY <1>2, <1>3, <1>10, NothingStarts DEF Starts

LEMMA ResumeStarts ==
    ASSUME Inv, NEW d, ReadOf(store, d), NEW u \in Live(d), NEW un
    PROVE  Starts(d, un, Resume(u, d.session[u]))
<1> DEFINE C == Plain(d)
           r == d.session[u]
           thaw == IF r.stopped THEN <<Put(u, Thawed(r))>> ELSE <<>>
           card == IF r.pending THEN <<>> ELSE <<Put(u, Refreshed(Thawed(r)))>>
<1>1. u \in Lines /\ r \in Row /\ now \in 0..MaxTime
  BY LiveFits DEF Inv, Types
<1>2. /\ Thawed(r) \in Row /\ Thawed(r).turns = r.turns
      /\ Refreshed(Thawed(r)) \in Row /\ Refreshed(Thawed(r)).turns = r.turns
  <2>1. Thawed(r) \in Row /\ Thawed(r).turns = r.turns
    BY <1>1, BuiltRows DEF From
  <2>2. Refreshed(Thawed(r)) \in Row /\ Refreshed(Thawed(r)).turns = Thawed(r).turns
    BY <1>1, <2>1, BuiltRows DEF From
  <2> QED
    BY <2>1, <2>2
<1>3. /\ Put(u, Thawed(r)) \in C /\ Put(u, Refreshed(Thawed(r))) \in C
      /\ Activate(u) \in C /\ ListBranches \in C
  BY <1>1, <1>2, PutIsPlain, OtherCallsArePlain
<1>4. Resume(u, r) = thaw \o <<Activate(u)>> \o card \o <<ListBranches>>
  BY DEF Resume
<1> HIDE DEF C, r
<1>5. /\ <<>> \in Seq(C) /\ <<Put(u, Thawed(r))>> \in Seq(C)
      /\ <<Put(u, Refreshed(Thawed(r)))>> \in Seq(C)
      /\ <<Activate(u)>> \in Seq(C) /\ <<ListBranches>> \in Seq(C)
  BY <1>3
<1>6. thaw \in Seq(C) /\ card \in Seq(C)
  BY <1>5, Zenon
<1> HIDE DEF thaw, card
<1>7. ((thaw \o <<Activate(u)>>) \o card) \o <<ListBranches>> \in Seq(C)
  BY <1>5, <1>6, ConcatProperties
<1> QED
  BY <1>4, <1>7 DEF Starts, C, r

LEMMA SwitchStarts ==
    ASSUME Inv, NEW s \in Lines, NEW u \in Lines, Switch(s, u)
    PROVE  ReadOf(store, store') /\ Starts(store', turn', script')
<1> DEFINE d == Read(store, {s, u})
<1>1. ReadOf(store, d)
  BY ReadAges DEF Inv, Types
<1>2. store' = d /\ ((u \in Live(d) /\ script' = Resume(u, d.session[u])) \/ script' = <<>>)
  BY DEF Switch, Handle
<1> HIDE DEF d
<1> QED
  BY <1>1, <1>2, ResumeStarts, NothingStarts

LEMMA AnotherLine ==
    ASSUME NEW S \in SUBSET Lines, Cardinality(S) >= 2, NEW u
    PROVE  \E v \in S : v # u
<1>1. SUFFICES ASSUME S \subseteq {u} PROVE FALSE
  OBVIOUS
<1>2. IsFiniteSet({u}) /\ Cardinality({u}) = 1
  BY FS_Singleton
<1>3. Cardinality(S) <= 1 /\ Cardinality(S) \in Nat
  BY <1>1, <1>2, FS_Subset, FS_CardinalityType
<1> QED
  BY <1>3

LEMMA DeleteStarts ==
    ASSUME Inv, NEW s \in Lines, NEW u \in Lines, Delete(s, u)
    PROVE  ReadOf(store, store') /\ Starts(store', turn', script')
<1> DEFINE d == Read(store, {s, u})
           listed == IF HasPending(d, s) /\ u \in Live(d) THEN Read(d, Lines) ELSE d
           calls == <<Remove(u), Unbind(u), PickSurvivor>>
<1>1. ReadOf(store, d) /\ store \in Store /\ d \in Store
  BY ReadAges DEF ReadOf, Inv, Types
<1>2. store' = listed /\ ((MayDelete(listed) /\ script' = calls) \/ script' = <<>>)
  BY DEF Delete, Handle
<1> HIDE DEF d
<1>3. ReadOf(store, listed)
  BY <1>1, ReadAges, ReadOfRead
<1> HIDE DEF listed
<1>4. MayDelete(listed) => Deletes(listed, calls)
  <2>1. Live(listed) \in SUBSET Lines /\ Live(listed) \subseteq Stored(listed)
    BY DEF Live, Stored
  <2>2. MayDelete(listed) => \E v \in Stored(listed) : v # u
    BY <2>1, AnotherLine DEF MayDelete
  <2> QED
    BY <2>2 DEF Deletes
<1> HIDE DEF calls
<1> QED
  BY <1>2, <1>3, <1>4, NothingStarts DEF Starts

LEMMA PersistStarts ==
    ASSUME Inv, NEW t \in Turns, Persist(t)
    PROVE  ReadOf(store, store') /\ Starts(store', turn', script')
<1> DEFINE s == AnswerLine(t)
           g == Read(store, {s})
           found == s \in Live(g)
           d == IF found /\ ~g.session[s].stopped THEN ByBinding(g) ELSE g
           row == Recorded(g.session[s], t)
           calls == <<Put(s, row), Put(s, row)>>
<1>1. store \in Store /\ turn \in [Turns -> Asked] /\ now \in 0..MaxTime
  BY DEF Inv, Types
<1>2. ReadOf(store, g) /\ g \in Store
  BY <1>1, ReadAges DEF ReadOf
<1>3. /\ store' = d /\ ((found /\ Writable(d, s) /\ script' = calls) \/ script' = <<>>)
      /\ turn' = [turn EXCEPT ![t].pc = "done"]
  BY DEF Persist, Handle
<1>4. turn'[t].line = s
  BY <1>1, <1>3 DEF Asked, AnswerLine
<1> HIDE DEF s, g
<1>5. ReadOf(store, d)
  BY <1>1, <1>2, BindingIsLive, ReadOfRead
<1> HIDE DEF d
<1>6. ASSUME found, Writable(d, s)
      PROVE  Adds(d, turn', calls)
  <2>1. d.session[s] = g.session[s] /\ s \in Live(d)
    BY <1>2, <1>5, <1>6, ReadKeeps DEF ReadOf
  <2>2. s \in Lines /\ d.session[s] \in Row
    BY <1>5, <2>1, LiveFits
  <2>3. row \in Row /\ row.turns = d.session[s].turns \cup {t}
    <3> DEFINE r == d.session[s]
    <3>1. r \in Row /\ now \in 0..MaxTime /\ row = Recorded(r, t)
      BY <1>1, <2>1, <2>2
    <3> HIDE DEF r, row
    <3>2. From(r, Recorded(r, t)) /\ Recorded(r, t).turns = r.turns \cup {t}
      BY <3>1, BuiltRows
    <3> QED
      BY <3>1, <3>2 DEF From, r
  <2> HIDE DEF row
  <2>4. Put(s, row) \in Adding(d, s, t)
    BY <2>2, <2>3, PutIsAdding
  <2> DEFINE a == <<>>
             C == On(s) \cap Plain(d)
  <2>5. calls \in Seq(Adding(d, s, t))
    BY <2>4
  <2>6. a \in Seq(C) /\ calls = a \o calls
    BY <2>5, ConcatEmptySeq
  <2>7. d.active = s
    BY <1>6 DEF Writable
  <2> HIDE DEF calls, a
  <2> QED
    BY <1>4, <2>2, <2>5, <2>6, <2>7 DEF Adds
<1> HIDE DEF calls
<1> QED
  BY <1>3, <1>5, <1>6, NothingStarts DEF Starts

LEMMA ChooseSurvivorStarts ==
    ASSUME Inv, ChooseSurvivor
    PROVE  ReadOf(store, store') /\ Starts(store', turn', script')
<1> DEFINE listed == Read(store, Lines)
           d == ByBinding(listed)
           u == IF d.active # NoLine THEN d.active ELSE Preferred(d)
<1>1. ReadOf(store, listed) /\ listed \in Store /\ store \in Store
  BY ReadAges DEF ReadOf, Inv, Types
<1>2. IF Live(listed) = {} THEN store' = listed /\ script' = <<>>
      ELSE store' = d /\ script' = Resume(u, d.session[u])
  BY DEF ChooseSurvivor
<1> HIDE DEF listed
<1>3. CASE Live(listed) = {}
  BY <1>1, <1>2, <1>3, NothingStarts
<1>4. CASE Live(listed) # {}
  <2>1. ReadOf(listed, d) /\ d.active \in Live(listed) \cup {NoLine}
    BY <1>1, BindingIsLive
  <2> HIDE DEF d
  <2>2. ReadOf(store, d) /\ d \in Store /\ Live(d) = Live(listed)
    BY <1>1, <2>1, ReadOfRead DEF ReadOf
  <2>3. u \in Live(d)
    BY <1>4, <2>1, <2>2, PreferredIsLive
  <2> HIDE DEF u
  <2> QED
    BY <1>2, <1>4, <2>2, <2>3, ResumeStarts
<1> QED
  BY <1>3, <1>4

-----------------------------------------------------------------------------
(* Without the tools of answers, the store changes under a script only by  *)
(* its own calls                                                           *)

PutsOn(w, s) == {i \in 1..Len(w) : w[i].op = "put" /\ w[i].id = s}

(* Each save of a line has the turns the line has when it is made.         *)
Kept(d, w) ==
    \A s \in Lines : \A i \in PutsOn(w, s) :
        /\ d.session[s].turns \subseteq w[i].row.turns
        /\ \A j \in PutsOn(w, s) : i < j => w[i].row.turns \subseteq w[j].row.turns

(* A turn is new to a line that was asked it and is, or is about to be,    *)
(* bound; or the line itself is new.                                       *)
Going(d, tn, w) ==
    \A s \in Lines : \A i \in PutsOn(w, s) : \A t \in w[i].row.turns :
        \/ t \in d.session[s].turns
        \/ s \notin Stored(d) /\ PutsOn(w, s) = {i}
        \/ /\ tn[t].line = s /\ d.active \in {s, NoLine}
           /\ \A j \in 1..i : w[j] \in On(s)

Removing(d, w) ==
    \A i \in 1..Len(w) : w[i].op = "remove" => i = 1 /\ \E v \in Stored(d) : v # w[1].id

Works(d, tn, w) == Kept(d, w) /\ Going(d, tn, w) /\ Removing(d, w)

LEMMA PlainWorks ==
    ASSUME NEW d, NEW tn, NEW w \in Seq(Plain(d))
    PROVE  Works(d, tn, w)
<1>1. \A i \in 1..Len(w) : /\ w[i].op # "remove"
                           /\ w[i].op = "put" => w[i].row.turns = d.session[w[i].id].turns
  <2>1. \A i \in 1..Len(w) : w[i] \in Plain(d)
    BY ElementOfSeq
  <2> QED
    BY <2>1 DEF Plain
<1>2. Removing(d, w)
  BY <1>1 DEF Removing
<1>3. \A s \in Lines : \A i \in PutsOn(w, s) : w[i].row.turns = d.session[s].turns
  BY <1>1 DEF PutsOn
<1> QED
  BY <1>2, <1>3 DEF Works, Kept, Going

LEMMA AddsWorks ==
    ASSUME NEW d, NEW tn, NEW w, Adds(d, tn, w)
    PROVE  Works(d, tn, w)
<1>1. PICK s \in Lines, t \in Turns :
         \E a \in Seq(On(s) \cap Plain(d)), b \in Seq(Adding(d, s, t)) :
            w = a \o b /\ tn[t].line = s /\ d.active \in {s, NoLine}
  BY DEF Adds
<1>2. PICK a \in Seq(On(s) \cap Plain(d)), b \in Seq(Adding(d, s, t)) :
         w = a \o b /\ tn[t].line = s /\ d.active \in {s, NoLine}
  BY <1>1
<1>3. \A i \in 1..Len(a) : a[i] \in On(s) /\ a[i] \in Plain(d)
  BY ElementOfSeq
<1>4. \A i \in 1..Len(b) : b[i] \in Adding(d, s, t)
  BY ElementOfSeq
<1>5. /\ Len(w) = Len(a) + Len(b) /\ Len(a) \in Nat /\ Len(b) \in Nat
      /\ \A i \in 1..Len(w) : w[i] = IF i <= Len(a) THEN a[i] ELSE b[i - Len(a)]
  <2>1. a \in Seq(Call) /\ b \in Seq(Call)
    <3>1. On(s) \cap Plain(d) \subseteq Call /\ Adding(d, s, t) \subseteq Call
      BY DEF On, Adding
    <3> QED
      BY <3>1, SeqMonotonic
  <2> QED
    BY <1>2, <2>1, ConcatProperties, LenProperties
<1>6. \A i \in 1..Len(w) : \/ i <= Len(a) /\ w[i] \in On(s) /\ w[i] \in Plain(d)
                           \/ i > Len(a) /\ w[i] \in Adding(d, s, t)
  BY <1>3, <1>4, <1>5
<1>7. \A i \in 1..Len(w) :
         /\ w[i] \in On(s) /\ w[i].id = s /\ w[i].op # "remove"
         /\ w[i].op = "put" => \/ i <= Len(a) /\ w[i].row.turns = d.session[s].turns
                               \/ i > Len(a) /\ w[i].row.turns = d.session[s].turns \cup {t}
  BY <1>6 DEF On, Plain, Adding
<1>8. Kept(d, w)
  <2> SUFFICES ASSUME NEW x \in Lines, NEW i \in PutsOn(w, x)
               PROVE  /\ d.session[x].turns \subseteq w[i].row.turns
                      /\ \A j \in PutsOn(w, x) : i < j => w[i].row.turns \subseteq w[j].row.turns
    BY DEF Kept
  <2>1. x = s /\ i \in 1..Len(w) /\ \A j \in PutsOn(w, x) : j \in 1..Len(w) /\ w[j].op = "put"
    BY <1>7 DEF PutsOn
  <2> QED
    BY <1>5, <1>7, <2>1
<1>9. Going(d, tn, w)
  <2> SUFFICES ASSUME NEW x \in Lines, NEW i \in PutsOn(w, x), NEW v \in w[i].row.turns,
                      v \notin d.session[x].turns
               PROVE  /\ tn[v].line = x /\ d.active \in {x, NoLine}
                      /\ \A j \in 1..i : w[j] \in On(x)
    BY DEF Going
  <2>1. x = s /\ i \in 1..Len(w) /\ w[i].op = "put"
    BY <1>7 DEF PutsOn
  <2>2. v = t
    BY <1>7, <2>1
  <2>3. \A j \in 1..i : j \in 1..Len(w)
    BY <1>5, <2>1
  <2> QED
    BY <1>2, <1>7, <2>1, <2>2, <2>3
<1>10. Removing(d, w)
  BY <1>7 DEF Removing
<1> QED
  BY <1>8, <1>9, <1>10 DEF Works

LEMMA PutFields ==
    ASSUME NEW s, NEW r
    PROVE  /\ Put(s, r).op = "put" /\ Put(s, r).id = s /\ Put(s, r).row = r
           /\ Activate(s).op = "activate" /\ Activate(s).id = s
           /\ Remove(s).op = "remove" /\ Remove(s).id = s
           /\ Unbind(s).op = "unbind" /\ Unbind(s).id = s
           /\ PickSurvivor.op = "survive" /\ ListBranches.op = "list"
BY DEF Put, Activate, Remove, Unbind, PickSurvivor, ListBranches

LEMMA ForksWorks ==
    ASSUME NEW d, NEW tn, NEW w, Forks(d, w)
    PROVE  Works(d, tn, w)
<1>1. PICK s \in Lines, c \in Lines, q \in Row, r \in Row :
         /\ w = <<Put(s, q), Put(c, r), Activate(c), ListBranches>>
         /\ s # c /\ c \notin Stored(d) /\ d.session[c].turns = {}
         /\ q.turns = d.session[s].turns
  BY DEF Forks
<1>2. /\ Len(w) = 4 /\ w[1] = Put(s, q) /\ w[2] = Put(c, r)
      /\ w[3] = Activate(c) /\ w[4] = ListBranches
  BY <1>1
<1>3. PutsOn(w, s) = {1} /\ PutsOn(w, c) = {2} /\ \A x \in Lines \ {s, c} : PutsOn(w, x) = {}
  BY <1>1, <1>2, PutFields DEF PutsOn
<1>4. w[1].row.turns = d.session[s].turns
  BY <1>1, <1>2, PutFields
<1>5. Kept(d, w)
  <2> SUFFICES ASSUME NEW x \in Lines, NEW i \in PutsOn(w, x)
               PROVE  /\ d.session[x].turns \subseteq w[i].row.turns
                      /\ \A j \in PutsOn(w, x) : i < j => w[i].row.turns \subseteq w[j].row.turns
    BY DEF Kept
  <2> QED
    BY <1>1, <1>3, <1>4
<1>6. Going(d, tn, w)
  BY <1>1, <1>3, <1>4 DEF Going
<1>7. Removing(d, w)
  BY <1>2, PutFields DEF Removing
<1> QED
  BY <1>5, <1>6, <1>7 DEF Works

LEMMA DeletesWorks ==
    ASSUME NEW d, NEW tn, NEW w, Deletes(d, w)
    PROVE  Works(d, tn, w)
<1>1. PICK u \in Lines : /\ w = <<Remove(u), Unbind(u), PickSurvivor>>
                         /\ \E v \in Stored(d) : v # u
  BY DEF Deletes
<1>2. Len(w) = 3 /\ w[1] = Remove(u) /\ w[2] = Unbind(u) /\ w[3] = PickSurvivor
  BY <1>1
<1>3. \A x \in Lines : PutsOn(w, x) = {}
  BY <1>2, PutFields DEF PutsOn
<1>4. Removing(d, w)
  BY <1>1, <1>2, PutFields DEF Removing
<1> QED
  BY <1>3, <1>4 DEF Works, Kept, Going

LEMMA StartsWorks ==
    ASSUME NEW d, NEW un, NEW w, Starts(d, un, w)
    PROVE  Works(d, un, w)
BY PlainWorks, AddsWorks, ForksWorks, DeletesWorks DEF Starts

(* The first call is made, the others are still to come.                   *)
LEMMA RestWorks ==
    ASSUME NEW d, NEW e, NEW tn, NEW w \in Seq(Call), w # <<>>, Works(d, tn, w),
           \A s \in Lines : e.session[s].turns = IF Head(w).op = "put" /\ Head(w).id = s
                                                 THEN Head(w).row.turns ELSE d.session[s].turns,
           \A s \in Stored(e) : s \in Stored(d) \/ (Head(w).op = "put" /\ Head(w).id = s),
           \A s \in Lines : Head(w) \in On(s) /\ d.active \in {s, NoLine} => e.active = s
    PROVE  Works(e, tn, Tail(w))
<1> DEFINE h == Head(w)
           v == Tail(w)
<1>1. /\ h = w[1] /\ Len(w) \in Nat \ {0} /\ Len(v) = Len(w) - 1
      /\ \A i \in 1..Len(v) : v[i] = w[i + 1] /\ i + 1 \in 1..Len(w)
  <2>1. Len(w) \in Nat \ {0}
    BY EmptySeq, LenProperties
  <2>2. Len(v) = Len(w) - 1 /\ \A i \in 1..Len(v) : v[i] = w[i + 1]
    BY HeadTailProperties
  <2> QED
    BY <2>1, <2>2
<1> HIDE DEF h, v
<1>2. ASSUME NEW s \in Lines, NEW i \in PutsOn(v, s)
      PROVE  /\ i \in Nat \ {0} /\ i + 1 \in PutsOn(w, s) /\ v[i] = w[i + 1]
             /\ \A j \in PutsOn(v, s) : j \in Nat /\ j + 1 \in PutsOn(w, s) /\ v[j] = w[j + 1]
  BY <1>1 DEF PutsOn
<1>3. ASSUME NEW s \in Lines, h.op = "put", h.id = s
      PROVE  1 \in PutsOn(w, s)
  BY <1>1, <1>3 DEF PutsOn
<1>4. Kept(e, v)
  <2> SUFFICES ASSUME NEW s \in Lines, NEW i \in PutsOn(v, s)
               PROVE  /\ e.session[s].turns \subseteq v[i].row.turns
                      /\ \A j \in PutsOn(v, s) : i < j => v[i].row.turns \subseteq v[j].row.turns
    BY DEF Kept
  <2>1. /\ i \in Nat \ {0} /\ i + 1 \in PutsOn(w, s) /\ v[i] = w[i + 1]
        /\ \A j \in PutsOn(v, s) : j \in Nat /\ j + 1 \in PutsOn(w, s) /\ v[j] = w[j + 1]
    BY <1>2
  <2>2. d.session[s].turns \subseteq w[i + 1].row.turns
    BY <2>1 DEF Works, Kept
  <2>3. h.op = "put" /\ h.id = s => h.row.turns \subseteq w[i + 1].row.turns
    BY <1>1, <1>3, <2>1 DEF Works, Kept
  <2>4. e.session[s].turns \subseteq v[i].row.turns
    BY <2>1, <2>2, <2>3 DEF h
  <2>5. ASSUME NEW j \in PutsOn(v, s), i < j
        PROVE  v[i].row.turns \subseteq v[j].row.turns
    <3>1. j \in Nat /\ j + 1 \in PutsOn(w, s) /\ v[j] = w[j + 1] /\ i + 1 < j + 1
      BY <2>1, <2>5
    <3> QED
      BY <2>1, <3>1 DEF Works, Kept
  <2> QED
    BY <2>4, <2>5
<1>5. Going(e, tn, v)
  <2> SUFFICES ASSUME NEW s \in Lines, NEW i \in PutsOn(v, s), NEW t \in v[i].row.turns
               PROVE  \/ t \in e.session[s].turns
                      \/ s \notin Stored(e) /\ PutsOn(v, s) = {i}
                      \/ /\ tn[t].line = s /\ e.active \in {s, NoLine}
                         /\ \A j \in 1..i : v[j] \in On(s)
    BY DEF Going
  <2>1. /\ i \in Nat \ {0} /\ i + 1 \in PutsOn(w, s) /\ v[i] = w[i + 1]
        /\ \A j \in PutsOn(v, s) : j \in Nat /\ j + 1 \in PutsOn(w, s) /\ v[j] = w[j + 1]
    BY <1>2
  <2>2. CASE t \in d.session[s].turns
    <3>1. h.op = "put" /\ h.id = s => d.session[s].turns \subseteq h.row.turns
      BY <1>1, <1>3 DEF Works, Kept
    <3> QED
      BY <2>2, <3>1 DEF h
  <2>3. CASE s \notin Stored(d) /\ PutsOn(w, s) = {i + 1}
    <3>1. ~(h.op = "put" /\ h.id = s)
      BY <1>3, <2>1, <2>3
    <3>2. s \notin Stored(e)
      BY <2>3, <3>1 DEF h
    <3>3. ASSUME NEW j \in PutsOn(v, s) PROVE j = i
      <4>1. j \in Nat /\ j + 1 = i + 1
        BY <2>1, <2>3
      <4> QED
        BY <2>1, <4>1
    <3> QED
      BY <3>2, <3>3
  <2>4. CASE /\ tn[t].line = s /\ d.active \in {s, NoLine}
             /\ \A j \in 1..(i + 1) : w[j] \in On(s)
    <3>1. h \in On(s)
      BY <1>1, <2>1, <2>4
    <3>2. e.active = s
      BY <2>4, <3>1 DEF h
    <3>3. \A j \in 1..i : v[j] = w[j + 1] /\ j + 1 \in 1..(i + 1)
      <4>1. i \in 1..Len(v)
        BY DEF PutsOn
      <4> QED
        BY <1>1, <2>1, <4>1
    <3> QED
      BY <2>4, <3>2, <3>3
  <2> QED
    BY <2>1, <2>2, <2>3, <2>4 DEF Works, Going
<1>6. Removing(e, v)
  BY <1>1 DEF Works, Removing
<1> QED
  BY <1>4, <1>5, <1>6 DEF Works, v

-----------------------------------------------------------------------------
(* The kinds of steps                                                      *)

NoTools == \A t \in Turns : tool[t].pc = "none"

(* A handler starts or chooses the line to go on with.                     *)
StartStep == /\ ReadOf(store, store') /\ Starts(store', turn', script')
             /\ UNCHANGED <<now, tool, dropped>>

CallStep(h) == script # <<>> /\ h = Head(script) /\ script' = Tail(script)
               /\ UNCHANGED <<now, turn, tool, dropped>>

SaveStep == \E h \in Call : /\ CallStep(h) /\ h.op = "put" /\ h.id \in Lines /\ Lives(h.row)
                            /\ store' = Upserted(store, h.id, h.row)

RemoveStep == \E h \in Call :
    /\ CallStep(h) /\ h.op = "remove" /\ h.id \in Lines
    /\ \A s \in Lines : /\ store'.session[s].turns = store.session[s].turns
                        /\ s \in Stored(store') <=> s \in Stored(store) /\ s # h.id

BindStep == \E h \in Call : /\ CallStep(h) /\ h.op \in {"activate", "unbind", "list"}
                            /\ ReadOf(store, store')
                            /\ h.op = "activate" => store'.active = h.id

QuietStep == /\ store' = store /\ dropped' = dropped
             /\ \/ UNCHANGED <<turn, tool, script>>
                \/ script' = <<>> /\ tool' = [t \in Turns |-> NoTool]

ToolStep(t) == ToolLookup(t) \/ ToolRead(t) \/ ToolUnbind(t) \/ ToolSave(t)

LEMMA SaveStepKind ==
    ASSUME Inv, Upsert
    PROVE  SaveStep
<1>1. PICK c \in Lines, f \in Row :
         /\ script # <<>> /\ Head(script) \in Calls(store, turn, c, f) /\ Head(script).op = "put"
  BY FirstCall DEF Upsert
<1>2. Head(script) \in Call /\ Head(script).id \in Lines /\ Lives(Head(script).row)
  BY <1>1 DEF Calls
<1>3. /\ store' = Upserted(store, Head(script).id, Head(script).row)
      /\ script' = Tail(script) /\ UNCHANGED <<now, turn, tool, dropped>>
  BY DEF Upsert, Done
<1> DEFINE h == Head(script)
<1>4. h \in Call /\ CallStep(h) /\ h.op = "put"
  BY <1>1, <1>2, <1>3 DEF CallStep
<1>5. h.id \in Lines /\ Lives(h.row) /\ store' = Upserted(store, h.id, h.row)
  BY <1>2, <1>3
<1> HIDE DEF h
<1> QED
  BY <1>4, <1>5 DEF SaveStep

LEMMA RemoveStepKind ==
    ASSUME Inv, DeleteRow
    PROVE  RemoveStep
<1> DEFINE h == Head(script)
<1>1. PICK c \in Lines, f \in Row :
         /\ script # <<>> /\ h \in Calls(store, turn, c, f) /\ h.op = "remove"
  BY FirstCall DEF DeleteRow
<1>2. h \in Call /\ h.id \in Lines
  BY <1>1 DEF Calls
<1>3. /\ store' = [store EXCEPT !.session[h.id].state = "deleted"]
      /\ script' = Tail(script) /\ UNCHANGED <<now, turn, tool, dropped>>
  BY DEF DeleteRow, Done
<1>4. CallStep(h)
  BY <1>1, <1>3 DEF CallStep
<1> HIDE DEF h
<1>5. store.session \in [Lines -> Row] /\ store \in Store
  BY DEF Inv, Types, Store
<1>6. store'.session = [store.session EXCEPT ![h.id].state = "deleted"]
  BY <1>3, <1>5 DEF Store
<1>7. ASSUME NEW s \in Lines
      PROVE  /\ store'.session[s].turns = store.session[s].turns
             /\ s \in Stored(store') <=> s \in Stored(store) /\ s # h.id
  <2>1. store.session[s] \in Row
    BY <1>5
  <2>2. CASE s = h.id
    <3>1. store'.session[s] = [store.session[s] EXCEPT !.state = "deleted"]
      BY <1>2, <1>5, <1>6, <2>2
    <3> QED
      BY <2>1, <2>2, <3>1 DEF Row, Stored
  <2>3. CASE s # h.id
    BY <1>5, <1>6, <2>3 DEF Stored
  <2> QED
    BY <2>2, <2>3
<1> QED
  BY <1>1, <1>2, <1>4, <1>7 DEF RemoveStep

LEMMA BindStepKind ==
    ASSUME Inv, SetActiveSession \/ DeleteBinding \/ ShowBranches
    PROVE  BindStep
<1> DEFINE h == Head(script)
<1>1. \E op \in {"activate", "unbind", "list"} : Next_(op)
  BY DEF SetActiveSession, DeleteBinding, ShowBranches
<1>2. /\ script # <<>> /\ h.op \in {"activate", "unbind", "list"} /\ h \in Call
      /\ h.op = "activate" => h.id \in Parents
  <2>1. PICK op \in {"activate", "unbind", "list"} : Next_(op)
    BY <1>1
  <2>2. PICK c \in Lines, f \in Row :
           script # <<>> /\ Head(script) \in Calls(store, turn, c, f) /\ Head(script).op = op
    BY <2>1, FirstCall
  <2> QED
    BY <2>2 DEF Calls, Parents
<1>3. script' = Tail(script) /\ UNCHANGED <<now, turn, tool, dropped>>
  BY DEF SetActiveSession, DeleteBinding, ShowBranches, Done
<1>4. store \in Store /\ NoLine \in Parents
  BY DEF Inv, Types, Parents
<1>5. ReadOf(store, store)
  BY <1>4, SameReadOf
<1>6. CASE SetActiveSession
  <2>1. store' = [store EXCEPT !.active = h.id] /\ h.op = "activate"
    BY <1>6 DEF SetActiveSession, Next_
  <2> HIDE DEF h
  <2>2. ReadOf(store, store') /\ store'.active = h.id
    BY <1>2, <1>5, <2>1, BoundReadOf
  <2> QED
    BY <1>2, <1>3, <2>2 DEF BindStep, CallStep, h
<1>7. CASE DeleteBinding
  <2>1. h.op = "unbind" /\ (store' = store \/ store' = [store EXCEPT !.active = NoLine])
    BY <1>7 DEF DeleteBinding, Next_
  <2>2. ReadOf(store, store')
    BY <1>4, <1>5, <2>1, BoundReadOf
  <2> QED
    BY <1>2, <1>3, <2>1, <2>2 DEF BindStep, CallStep
<1>8. CASE ShowBranches
  <2> DEFINE e == Read(store, Lines)
  <2>1. h.op = "list" /\ store' = ByBinding(e)
    BY <1>8 DEF ShowBranches, Next_
  <2>2. ReadOf(store, e) /\ e \in Store
    BY <1>4, ReadAges DEF ReadOf
  <2> HIDE DEF e
  <2>3. ReadOf(store, ByBinding(e))
    BY <1>4, <2>2, BindingIsLive, ReadOfRead
  <2> QED
    BY <1>2, <1>3, <2>1, <2>3 DEF BindStep, CallStep
<1> QED
  BY <1>6, <1>7, <1>8

LEMMA StepKinds ==
    ASSUME Inv, [Next]_vars
    PROVE  \/ StartStep \/ SaveStep \/ RemoveStep \/ BindStep \/ QuietStep
           \/ \E t \in Turns : ToolStep(t)
<1>2. CASE StoreCall
  <2>1. CASE ChooseSurvivor
    <3>1. UNCHANGED <<now, tool, dropped>>
      BY <2>1 DEF ChooseSurvivor
    <3> QED
      BY <2>1, <3>1, ChooseSurvivorStarts DEF StartStep
  <2> QED
    BY <1>2, <2>1, SaveStepKind, RemoveStepKind, BindStepKind DEF StoreCall
<1>3. CASE Ask
  <2>1. UNCHANGED <<now, tool, dropped>>
    BY <1>3 DEF Ask
  <2> QED
    BY <1>3, <2>1, AskStarts DEF StartStep
<1>4. CASE Crash \/ Tick \/ UNCHANGED vars
  BY <1>4 DEF Crash, Tick, vars, QuietStep
<1>5. ASSUME NEW t \in Turns, Chat(t) \/ Persist(t) PROVE StartStep
  <2>1. UNCHANGED <<now, tool, dropped>>
    BY <1>5 DEF Chat, Persist
  <2> QED
    BY <1>5, <2>1, ChatStarts, PersistStarts DEF StartStep
<1>6. ASSUME NEW s \in Lines, Edit(s) \/ Stage(s) \/ Fork(s) PROVE StartStep
  <2>1. UNCHANGED <<now, tool, dropped>>
    BY <1>6 DEF Edit, Stage, Fork
  <2> QED
    BY <1>6, <2>1, EditStarts, ForkStarts DEF StartStep
<1>7. ASSUME NEW s \in Lines, NEW t \in Turns, Confirm(s, t) PROVE StartStep
  <2>1. UNCHANGED <<now, tool, dropped>>
    BY <1>7 DEF Confirm
  <2> QED
    BY <1>7, <2>1, ConfirmStarts DEF StartStep
<1>8. ASSUME NEW s \in Lines, NEW u \in Lines, Switch(s, u) \/ Delete(s, u) PROVE StartStep
  <2>1. UNCHANGED <<now, tool, dropped>>
    BY <1>8 DEF Switch, Delete
  <2> QED
    BY <1>8, <2>1, SwitchStarts, DeleteStarts DEF StartStep
<1> QED
  BY <1>2, <1>3, <1>4, <1>5, <1>6, <1>7, <1>8 DEF Next, ToolStep

LEMMA HandlerKinds ==
    ASSUME Inv, NoTools, "tool" \notin Faults, [Next]_vars
    PROVE  StartStep \/ SaveStep \/ RemoveStep \/ BindStep \/ QuietStep
<1>1. ASSUME NEW t \in Turns, ToolStep(t) PROVE FALSE
  BY <1>1 DEF ToolStep, ToolLookup, ToolRead, ToolUnbind, ToolSave, NoTools
<1> QED
  BY <1>1, StepKinds

TurnsInv == Inv /\ NoTools /\ Works(store, turn, script)

LEMMA ReadTurns ==
    ASSUME store \in Store, ReadOf(store, store')
    PROVE  /\ \A s \in Lines : store'.session[s].turns = store.session[s].turns
           /\ Stored(store') \subseteq Stored(store)
<1>1. ASSUME NEW s \in Lines
      PROVE  /\ store'.session[s].turns = store.session[s].turns
             /\ s \in Stored(store') => s \in Stored(store)
  <2>1. store.session[s] \in Row
    BY DEF Store
  <2>2. CASE store'.session[s] = store.session[s]
    BY <2>2 DEF Stored
  <2>3. CASE store'.session[s] = [store.session[s] EXCEPT !.state = "deleted"]
    BY <2>1, <2>3 DEF Row, Stored
  <2> QED
    BY <2>2, <2>3 DEF ReadOf, Aged
<1> QED
  BY <1>1 DEF Stored

LEMMA SavedTurns ==
    ASSUME store \in Store, NEW h \in Call, h.op = "put", h.id \in Lines,
           store' = Upserted(store, h.id, h.row)
    PROVE  /\ \A s \in Lines : store'.session[s] = IF s = h.id THEN h.row ELSE store.session[s]
           /\ store'.active = IF store.active = NoLine THEN h.id ELSE store.active
<1>1. store.session \in [Lines -> Row]
  BY DEF Store
<1>2. /\ store'.session = [store.session EXCEPT ![h.id] = h.row]
      /\ store'.active = IF store.active = NoLine THEN h.id ELSE store.active
  BY DEF Upserted
<1> QED
  BY <1>1, <1>2

(* A store call that adds no turn but those of the row it saves keeps the  *)
(* rest of the script working.                                             *)
LEMMA TurnsCall ==
    ASSUME TurnsInv, Inv', NEW h \in Call, CallStep(h),
           \A s \in Lines : store'.session[s].turns = IF h.op = "put" /\ h.id = s
                                                      THEN h.row.turns
                                                      ELSE store.session[s].turns,
           \A s \in Stored(store') : s \in Stored(store) \/ (h.op = "put" /\ h.id = s),
           \A s \in Lines : h \in On(s) /\ store.active \in {s, NoLine} => store'.active = s
    PROVE  TurnsInv'
<1>1. store \in Store /\ store' \in Store /\ script \in Seq(Call)
  BY DEF TurnsInv, Inv, Types
<1>2. script # <<>> /\ h = Head(script) /\ script' = Tail(script) /\ turn' = turn /\ tool' = tool
  BY DEF CallStep
<1>3. Works(store, turn, script)
  BY DEF TurnsInv
<1>4. \A s \in Lines : store'.session[s].turns = IF Head(script).op = "put" /\ Head(script).id = s
                                                 THEN Head(script).row.turns
                                                 ELSE store.session[s].turns
  BY <1>2
<1>5. \A s \in Stored(store') : s \in Stored(store)
                              \/ (Head(script).op = "put" /\ Head(script).id = s)
  BY <1>2
<1>6. \A s \in Lines : Head(script) \in On(s) /\ store.active \in {s, NoLine}
                          => store'.active = s
  BY <1>2
<1>7. Works(store', turn, Tail(script))
  BY <1>1, <1>2, <1>3, <1>4, <1>5, <1>6, RestWorks
<1> QED
  BY <1>2, <1>7 DEF TurnsInv, NoTools

LEMMA TurnsStep ==
    ASSUME TurnsInv, "tool" \notin Faults, [Next]_vars
    PROVE  TurnsInv'
<1>1. store \in Store /\ script \in Seq(Call) /\ tool \in [Turns -> Tool] /\ Inv'
  BY NextInv DEF TurnsInv, Inv, Types
<1>2. CASE StartStep
  BY <1>1, <1>2, StartsWorks DEF StartStep, TurnsInv, NoTools
<1>3. CASE QuietStep
  <2>1. CASE UNCHANGED <<turn, tool, script>>
    BY <1>1, <1>3, <2>1 DEF QuietStep, TurnsInv, NoTools
  <2>2. CASE script' = <<>> /\ tool' = [t \in Turns |-> NoTool]
    <3>1. NoTools'
      BY <2>2 DEF NoTools, NoTool
    <3>2. Works(store', turn', script')
      BY <2>2, NothingStarts, StartsWorks
    <3> QED
      BY <1>1, <3>1, <3>2 DEF TurnsInv
  <2> QED
    BY <1>3, <2>1, <2>2 DEF QuietStep
<1>5. CASE SaveStep
  <2>1. PICK h \in Call : /\ CallStep(h) /\ h.op = "put" /\ h.id \in Lines
                          /\ store' = Upserted(store, h.id, h.row)
    BY <1>5 DEF SaveStep
  <2>2. /\ \A s \in Lines : store'.session[s] = IF s = h.id THEN h.row ELSE store.session[s]
        /\ store'.active = IF store.active = NoLine THEN h.id ELSE store.active
    BY <1>1, <2>1, SavedTurns
  <2>3. \A s \in Lines : store'.session[s].turns = IF h.op = "put" /\ h.id = s
                                                   THEN h.row.turns ELSE store.session[s].turns
    BY <2>1, <2>2
  <2>4. \A s \in Stored(store') : s \in Stored(store) \/ (h.op = "put" /\ h.id = s)
    <3>1. \A s \in Lines : s # h.id => store'.session[s] = store.session[s]
      BY <2>2
    <3>2. \A s \in Stored(store') : s \in Lines /\ store'.session[s].state = "stored"
      BY DEF Stored
    <3>3. \A s \in Lines : store.session[s].state = "stored" => s \in Stored(store)
      BY DEF Stored
    <3> QED
      BY <2>1, <3>1, <3>2, <3>3
  <2>5. \A s \in Lines : h \in On(s) /\ store.active \in {s, NoLine} => store'.active = s
    BY <2>2 DEF On
  <2> QED
    BY <1>1, <2>1, <2>3, <2>4, <2>5, TurnsCall
<1>6. CASE RemoveStep
  <2>1. PICK h \in Call :
           /\ CallStep(h) /\ h.op = "remove"
           /\ \A s \in Lines : /\ store'.session[s].turns = store.session[s].turns
                               /\ s \in Stored(store') => s \in Stored(store)
    BY <1>6 DEF RemoveStep
  <2>2. \A s \in Stored(store') : s \in Stored(store) \/ (h.op = "put" /\ h.id = s)
    BY <2>1 DEF Stored
  <2>3. \A s \in Lines : h \in On(s) /\ store.active \in {s, NoLine} => store'.active = s
    BY <2>1 DEF On
  <2>4. \A s \in Lines : store'.session[s].turns = IF h.op = "put" /\ h.id = s
                                                   THEN h.row.turns ELSE store.session[s].turns
    BY <2>1
  <2>5. CallStep(h)
    BY <2>1
  <2> QED
    BY <1>1, <2>2, <2>3, <2>4, <2>5, TurnsCall
<1>7. CASE BindStep
  <2>1. PICK h \in Call : /\ CallStep(h) /\ h.op \in {"activate", "unbind", "list"}
                          /\ ReadOf(store, store') /\ (h.op = "activate" => store'.active = h.id)
    BY <1>7 DEF BindStep
  <2>2. /\ \A s \in Lines : store'.session[s].turns = store.session[s].turns
        /\ \A s \in Stored(store') : s \in Stored(store) \/ (h.op = "put" /\ h.id = s)
    BY <1>1, <2>1, ReadTurns
  <2>3. \A s \in Lines : h \in On(s) /\ store.active \in {s, NoLine} => store'.active = s
    BY <2>1 DEF On
  <2>4. \A s \in Lines : store'.session[s].turns = IF h.op = "put" /\ h.id = s
                                                   THEN h.row.turns ELSE store.session[s].turns
    BY <2>1, <2>2
  <2>5. CallStep(h)
    BY <2>1
  <2> QED
    BY <1>1, <2>2, <2>3, <2>4, <2>5, TurnsCall
<1> QED
  BY <1>2, <1>3, <1>5, <1>6, <1>7, HandlerKinds DEF TurnsInv

LEMMA TurnsInvariance == ASSUME "tool" \notin Faults PROVE Spec => []TurnsInv
<1>1. ASSUME Init PROVE TurnsInv
  <2>1. Inv /\ script = <<>> /\ tool = [t \in Turns |-> NoTool]
    BY <1>1, InitInv DEF Init
  <2>2. NoTools
    BY <2>1 DEF NoTools, NoTool
  <2> QED
    BY <2>1, <2>2, NothingStarts, StartsWorks DEF TurnsInv
<1>2. TurnsInv /\ [Next]_vars => TurnsInv'
  BY TurnsStep
<1> QED
  BY <1>1, <1>2, PTL DEF Spec

(* A save adds to a line that exists only the turn it was just asked.      *)
LEMMA SavesGo ==
    ASSUME TurnsInv, SaveStep, NEW s \in Stored(store)
    PROVE  /\ store.session[s].turns \subseteq store'.session[s].turns
           /\ \A t \in store'.session[s].turns \ store.session[s].turns :
                 store'.active = s /\ turn'[t].line = s
<1>1. PICK h \in Call : /\ CallStep(h) /\ h.op = "put" /\ h.id \in Lines
                        /\ store' = Upserted(store, h.id, h.row)
  BY DEF SaveStep
<1>2. /\ script \in Seq(Call) /\ script # <<>> /\ h = Head(script) /\ turn' = turn
      /\ store \in Store /\ s \in Lines
  BY <1>1 DEF CallStep, TurnsInv, Inv, Types, Stored
<1>3. /\ store'.session[s] = IF s = h.id THEN h.row ELSE store.session[s]
      /\ store'.active = IF store.active = NoLine THEN h.id ELSE store.active
  BY <1>1, <1>2, SavedTurns
<1>4. CASE s # h.id
  BY <1>3, <1>4
<1>5. CASE s = h.id
  <2>1. h = script[1] /\ 1 \in PutsOn(script, s)
    <3>1. Len(script) \in Nat \ {0} /\ h = script[1]
      BY <1>2, EmptySeq, LenProperties
    <3> QED
      BY <1>1, <1>5, <3>1 DEF PutsOn
  <2>2. store.session[s].turns \subseteq h.row.turns
    BY <1>2, <2>1 DEF TurnsInv, Works, Kept
  <2>3. ASSUME NEW t \in h.row.turns, t \notin store.session[s].turns
        PROVE  turn[t].line = s /\ store.active \in {s, NoLine}
    BY <1>2, <2>1, <2>3 DEF TurnsInv, Works, Going
  <2> QED
    BY <1>2, <1>3, <1>5, <2>2, <2>3
<1> QED
  BY <1>4, <1>5

LEMMA OthersKeepTurns ==
    ASSUME TurnsInv, StartStep \/ RemoveStep \/ BindStep \/ QuietStep, NEW s \in Lines
    PROVE  store'.session[s].turns = store.session[s].turns
BY ReadTurns DEF TurnsInv, Inv, Types, StartStep, RemoveStep, BindStep, QuietStep

(* Whatever crashes and expires, a turn reaches a line that exists only    *)
(* while that line is the one in progress, and only if it was asked on it, *)
(* as long as no tool of an answer saves a session.                        *)
THEOREM LateAnswersStayOut ==
    ASSUME "tool" \notin Faults
    PROVE  Spec => TurnsGoToTheirLine
<1>1. ASSUME TurnsInv, [Next]_vars
      PROVE  [\A s \in Stored(store) \cap Stored(store') :
                 \A t \in store'.session[s].turns \ store.session[s].turns :
                     store'.active = s /\ turn'[t].line = s]_vars
  <2> SUFFICES ASSUME NEW s \in Stored(store) \cap Stored(store'),
                      NEW t \in store'.session[s].turns \ store.session[s].turns
               PROVE  store'.active = s /\ turn'[t].line = s
    OBVIOUS
  <2>1. s \in Lines
    BY DEF Stored
  <2>2. SaveStep
    BY <1>1, <2>1, OthersKeepTurns, HandlerKinds DEF TurnsInv
  <2> QED
    BY <1>1, <2>2, SavesGo
<1> QED
  BY <1>1, TurnsInvariance, PTL DEF Spec, TurnsGoToTheirLine

-----------------------------------------------------------------------------
(* With the tools of answers: what a tool's save drops from a line is all  *)
(* that is ever lost                                                       *)

(* The saves of a script lose no turn but those a tool has dropped.        *)
Spared(d, x, w) ==
    \A s \in Lines : \A i \in PutsOn(w, s) :
        /\ d.session[s].turns \ x[s] \subseteq w[i].row.turns
        /\ \A j \in PutsOn(w, s) : i < j => w[i].row.turns \subseteq w[j].row.turns

(* A tool about to save has no turn its line has lost otherwise.           *)
CopyFits(d, x, v) == v.pc = "save" => v.row.turns \subseteq d.session[v.id].turns \cup x[v.id]

KeptInv == /\ Inv
           /\ dropped \in [Lines -> SUBSET Turns]
           /\ Spared(store, dropped, script)
           /\ \A t \in Turns : CopyFits(store, dropped, tool[t])

LEMMA StartsSpared ==
    ASSUME NEW d, NEW un, NEW w, NEW x, Starts(d, un, w)
    PROVE  Spared(d, x, w)
<1>1. Kept(d, w)
  BY StartsWorks DEF Works
<1> QED
  BY <1>1 DEF Kept, Spared

(* The first call is made: the line it saves has the turns of its row.     *)
LEMMA RestSpared ==
    ASSUME NEW d, NEW e, NEW x, NEW w \in Seq(Call), w # <<>>, Spared(d, x, w),
           \A s \in Lines : e.session[s].turns = IF Head(w).op = "put" /\ Head(w).id = s
                                                 THEN Head(w).row.turns ELSE d.session[s].turns
    PROVE  Spared(e, x, Tail(w))
<1> DEFINE h == Head(w)
           v == Tail(w)
<1>1. /\ h = w[1] /\ Len(w) \in Nat \ {0} /\ Len(v) = Len(w) - 1
      /\ \A i \in 1..Len(v) : v[i] = w[i + 1] /\ i + 1 \in 1..Len(w)
  <2>1. Len(w) \in Nat \ {0}
    BY EmptySeq, LenProperties
  <2>2. Len(v) = Len(w) - 1 /\ \A i \in 1..Len(v) : v[i] = w[i + 1]
    BY HeadTailProperties
  <2> QED
    BY <2>1, <2>2
<1> HIDE DEF h, v
<1> SUFFICES ASSUME NEW s \in Lines, NEW i \in PutsOn(v, s)
             PROVE  /\ e.session[s].turns \ x[s] \subseteq v[i].row.turns
                    /\ \A j \in PutsOn(v, s) : i < j => v[i].row.turns \subseteq v[j].row.turns
  BY DEF Spared, v
<1>2. /\ i \in Nat \ {0} /\ i + 1 \in PutsOn(w, s) /\ v[i] = w[i + 1]
      /\ \A j \in PutsOn(v, s) : j \in Nat /\ j + 1 \in PutsOn(w, s) /\ v[j] = w[j + 1]
  BY <1>1 DEF PutsOn
<1>3. h.op = "put" /\ h.id = s => h.row.turns \subseteq w[i + 1].row.turns
  <2> SUFFICES ASSUME h.op = "put", h.id = s PROVE h.row.turns \subseteq w[i + 1].row.turns
    OBVIOUS
  <2>1. 1 \in PutsOn(w, s) /\ 1 < i + 1
    BY <1>1, <1>2 DEF PutsOn
  <2> QED
    BY <1>1, <1>2, <2>1 DEF Spared
<1>4. e.session[s].turns \ x[s] \subseteq v[i].row.turns
  <2>1. d.session[s].turns \ x[s] \subseteq w[i + 1].row.turns
    BY <1>2 DEF Spared
  <2>2. CASE h.op = "put" /\ h.id = s
    <3>1. e.session[s].turns = h.row.turns
      BY <2>2 DEF h
    <3> QED
      BY <1>2, <1>3, <2>2, <3>1
  <2>3. CASE ~(h.op = "put" /\ h.id = s)
    <3>1. e.session[s].turns = d.session[s].turns
      BY <2>3 DEF h
    <3> QED
      BY <1>2, <2>1, <3>1
  <2> QED
    BY <2>2, <2>3
<1>5. ASSUME NEW j \in PutsOn(v, s), i < j
      PROVE  v[i].row.turns \subseteq v[j].row.turns
  <2>0. j \in Nat /\ j + 1 \in PutsOn(w, s) /\ v[j] = w[j + 1]
    BY <1>2
  <2>1. j + 1 \in PutsOn(w, s) /\ v[j] = w[j + 1] /\ i + 1 < j + 1
    <3>1. i \in Nat /\ i < j
      BY <1>2, <1>5
    <3> QED
      BY <2>0, <3>1
  <2>2. \A k \in PutsOn(w, s) : i + 1 < k => w[i + 1].row.turns \subseteq w[k].row.turns
    BY <1>2 DEF Spared
  <2>3. w[i + 1].row.turns \subseteq w[j + 1].row.turns
    BY <2>1, <2>2
  <2> QED
    BY <1>2, <2>1, <2>3
<1> QED
  BY <1>4, <1>5

(* Lines that keep their turns leave the script and the copies as good.    *)
LEMMA SameTurnsKeep ==
    ASSUME NEW d, NEW e, NEW x, \A s \in Lines : e.session[s].turns = d.session[s].turns
    PROVE  /\ \A w : Spared(d, x, w) => Spared(e, x, w)
           /\ \A v : v.id \in Lines /\ CopyFits(d, x, v) => CopyFits(e, x, v)
BY DEF Spared, CopyFits

LEMMA CopiesHaveLines ==
    ASSUME Inv, NEW t \in Turns
    PROVE  tool[t].pc # "none" => tool[t].id \in Lines
BY DEF Inv, ToolsFit, ToolFits

LEMMA LoseNothing ==
    ASSUME KeptInv, Inv', dropped' = dropped, Spared(store', dropped, script'),
           \A s \in Lines : store.session[s].turns \subseteq store'.session[s].turns \cup dropped[s],
           \A t \in Turns : tool'[t] = tool[t] \/ CopyFits(store', dropped, tool'[t])
    PROVE  KeptInv'
<1>1. ASSUME NEW t \in Turns PROVE CopyFits(store', dropped, tool'[t])
  <2>1. CASE tool'[t] = tool[t]
    <3>1. CopyFits(store, dropped, tool[t]) /\ (tool[t].pc = "save" => tool[t].id \in Lines)
      BY CopiesHaveLines DEF KeptInv
    <3> QED
      BY <2>1, <3>1 DEF CopyFits
  <2> QED
    BY <2>1
<1>2. \A t \in Turns : CopyFits(store', dropped', tool'[t])
  BY <1>1
<1> QED
  BY <1>2 DEF KeptInv

(* Looking for the bound session, a tool takes the copy it finds.          *)
LEMMA ToolLooks ==
    ASSUME Inv, NEW t \in Turns, ToolLookup(t) \/ ToolRead(t) \/ ToolUnbind(t)
    PROVE  /\ ReadOf(store, store') /\ UNCHANGED <<script, dropped>>
           /\ \A x \in Turns : tool'[x] = tool[x] \/ \A y : CopyFits(store', y, tool'[x])
<1>1. tool \in [Turns -> Tool] /\ store \in Store /\ NoLine \in Parents
  BY DEF Inv, Types, Parents
<1>2. ReadOf(store, store)
  BY <1>1, SameReadOf
<1>3. ASSUME NEW pc, NEW s, NEW r, SetTool(t, pc, s, r),
             pc = "save" => r.turns = store'.session[s].turns
      PROVE  \A x \in Turns : tool'[x] = tool[x] \/ \A y : CopyFits(store', y, tool'[x])
  <2> DEFINE w == [pc |-> pc, id |-> s, row |-> r]
  <2>1. w.pc = pc /\ w.id = s /\ w.row = r
    OBVIOUS
  <2>2. tool' = [tool EXCEPT ![t] = w]
    BY <1>3 DEF SetTool
  <2> HIDE DEF w
  <2>3. \A y : CopyFits(store', y, w)
    BY <1>3, <2>1 DEF CopyFits
  <2> QED
    BY <1>1, <2>2, <2>3
<1>4. CASE ToolLookup(t)
  <2> DEFINE d == ByBinding(store)
  <2>1. UNCHANGED <<script, dropped>>
    BY <1>4 DEF ToolLookup
  <2>2. CASE store.active # NoLine
    <3>1. store' = store /\ SetTool(t, "read", store.active, Blank)
      BY <1>4, <2>2 DEF ToolLookup
    <3> QED
      BY <1>2, <1>3, <2>1, <3>1
  <2>3. CASE store.active = NoLine
    <3>1. store' = d /\ (tool' = tool \/ SetTool(t, "save", d.active, d.session[d.active]))
      BY <1>4, <2>3 DEF ToolLookup
    <3>2. ReadOf(store, d)
      BY <1>1, BindingIsLive
    <3> HIDE DEF d
    <3>3. CASE tool' = tool
      BY <2>1, <3>1, <3>2, <3>3
    <3>4. CASE SetTool(t, "save", d.active, d.session[d.active])
      BY <1>3, <2>1, <3>1, <3>2, <3>4
    <3> QED
      BY <3>1, <3>3, <3>4
  <2> QED
    BY <2>2, <2>3
<1>5. CASE ToolRead(t)
  <2> DEFINE s == tool[t].id
             d == Read(store, {s})
  <2>1. /\ UNCHANGED <<script, dropped>> /\ store' = d
        /\ \/ SetTool(t, "unbind", s, Blank)
           \/ SetTool(t, "save", s, d.session[s])
           \/ SetTool(t, "none", NoLine, Blank)
    BY <1>5 DEF ToolRead
  <2>2. ReadOf(store, d)
    BY <1>1, ReadAges
  <2> HIDE DEF s, d
  <2>3. CASE SetTool(t, "unbind", s, Blank)
    BY <1>3, <2>1, <2>2, <2>3
  <2>4. CASE SetTool(t, "save", s, d.session[s])
    BY <1>3, <2>1, <2>2, <2>4
  <2>5. CASE SetTool(t, "none", NoLine, Blank)
    BY <1>3, <2>1, <2>2, <2>5
  <2> QED
    BY <2>1, <2>3, <2>4, <2>5
<1>6. CASE ToolUnbind(t)
  <2>1. /\ UNCHANGED <<script, dropped>> /\ store' = [store EXCEPT !.active = NoLine]
        /\ SetTool(t, "none", NoLine, Blank)
    BY <1>6 DEF ToolUnbind
  <2>2. ReadOf(store, store')
    BY <1>1, <1>2, <2>1, BoundReadOf
  <2> QED
    BY <1>3, <2>1, <2>2
<1> QED
  BY <1>4, <1>5, <1>6

(* A save by a tool drops what the line got since the tool read it.        *)
LEMMA ToolSaves ==
    ASSUME KeptInv, NEW t \in Turns, ToolSave(t)
    PROVE  /\ script' = script /\ dropped' \in [Lines -> SUBSET Turns]
           /\ \A s \in Lines :
                 /\ dropped[s] \subseteq dropped'[s]
                 /\ store'.session[s].turns \subseteq store.session[s].turns \cup dropped[s]
                 /\ store.session[s].turns \subseteq store'.session[s].turns \cup dropped'[s]
           /\ \A x \in Turns : tool'[x] = tool[x] \/ tool'[x].pc # "save"
<1> DEFINE u == tool[t].id
           r == tool[t].row
           lost == store.session[u].turns \ r.turns
<1>1. /\ script' = script /\ store' = Upserted(store, u, r)
      /\ dropped' = [dropped EXCEPT ![u] = @ \cup lost]
      /\ SetTool(t, "none", NoLine, Blank) /\ tool[t].pc = "save"
  BY DEF ToolSave
<1>2. /\ u \in Lines /\ store.session \in [Lines -> Row] /\ tool \in [Turns -> Tool]
      /\ dropped \in [Lines -> SUBSET Turns]
  BY <1>1, CopiesHaveLines DEF KeptInv, Inv, Types, Store
<1>3. r.turns \subseteq store.session[u].turns \cup dropped[u]
  BY <1>1 DEF KeptInv, CopyFits
<1> HIDE DEF u, r
<1>4. store'.session = [store.session EXCEPT ![u] = r]
  BY <1>1 DEF Upserted
<1>5. lost \subseteq Turns
  BY <1>2 DEF Row
<1>6. ASSUME NEW s \in Lines
      PROVE  /\ dropped[s] \subseteq dropped'[s]
             /\ store'.session[s].turns \subseteq store.session[s].turns \cup dropped[s]
             /\ store.session[s].turns \subseteq store'.session[s].turns \cup dropped'[s]
  <2>1. CASE s = u
    <3>1. store'.session[s] = r /\ dropped'[s] = dropped[s] \cup lost
      BY <1>1, <1>2, <1>4, <2>1
    <3> QED
      BY <1>3, <2>1, <3>1
  <2>2. CASE s # u
    BY <1>1, <1>2, <1>4, <2>2
  <2> QED
    BY <2>1, <2>2
<1>7. \A x \in Turns : tool'[x] = tool[x] \/ tool'[x].pc # "save"
  BY <1>1, <1>2 DEF SetTool
<1>8. dropped' \in [Lines -> SUBSET Turns]
  BY <1>1, <1>2, <1>5
<1> QED
  BY <1>1, <1>6, <1>7, <1>8

(* A call of the running handler that saves no row keeps what lines have.  *)
LEMMA OtherCallsKeep ==
    ASSUME KeptInv, Inv', NEW h \in Call, CallStep(h), h.op # "put",
           \A s \in Lines : store'.session[s].turns = store.session[s].turns
    PROVE  KeptInv'
<1>1. /\ script \in Seq(Call) /\ script # <<>> /\ h = Head(script) /\ script' = Tail(script)
      /\ tool' = tool /\ dropped' = dropped
  BY DEF CallStep, KeptInv, Inv, Types
<1>2. Spared(store', dropped, script')
  BY <1>1, RestSpared DEF KeptInv
<1> QED
  BY <1>1, <1>2, LoseNothing

LEMMA KeptStep ==
    ASSUME KeptInv, [Next]_vars
    PROVE  /\ KeptInv'
           /\ \A s \in Lines : store.session[s].turns \subseteq store'.session[s].turns \cup dropped'[s]
<1>1. store \in Store /\ script \in Seq(Call) /\ tool \in [Turns -> Tool] /\ Inv /\ Inv'
  BY NextInv DEF KeptInv, Inv, Types
<1>2. CASE StartStep
  <2>1. /\ \A s \in Lines : store'.session[s].turns = store.session[s].turns
        /\ tool' = tool /\ dropped' = dropped /\ Spared(store', dropped, script')
    BY <1>1, <1>2, ReadTurns, StartsSpared DEF StartStep
  <2> QED
    BY <1>1, <2>1, LoseNothing
<1>3. CASE QuietStep
  <2>1. store' = store /\ dropped' = dropped
    BY <1>3 DEF QuietStep
  <2>2. Spared(store', dropped, script')
    <3>1. CASE script' = script
      BY <2>1, <3>1 DEF KeptInv
    <3>2. CASE script' = <<>>
      BY <3>2, NothingStarts, StartsSpared
    <3> QED
      BY <1>3, <3>1, <3>2 DEF QuietStep
  <2>3. \A t \in Turns : tool'[t] = tool[t] \/ CopyFits(store', dropped, tool'[t])
    <3>1. NoTool.pc # "save"
      BY DEF NoTool
    <3> QED
      BY <1>3, <3>1 DEF QuietStep, CopyFits
  <2> QED
    BY <1>1, <2>1, <2>2, <2>3, LoseNothing
<1>4. CASE SaveStep
  <2>1. PICK h \in Call : /\ CallStep(h) /\ h.op = "put" /\ h.id \in Lines
                          /\ store' = Upserted(store, h.id, h.row)
    BY <1>4 DEF SaveStep
  <2>2. /\ script # <<>> /\ h = Head(script) /\ script' = Tail(script)
        /\ tool' = tool /\ dropped' = dropped
    BY <2>1 DEF CallStep
  <2>3. \A s \in Lines : store'.session[s].turns = IF h.op = "put" /\ h.id = s
                                                   THEN h.row.turns ELSE store.session[s].turns
    BY <1>1, <2>1, SavedTurns
  <2>4. Spared(store', dropped, script')
    BY <1>1, <2>2, <2>3, RestSpared DEF KeptInv
  <2>5. store.session[h.id].turns \ dropped[h.id] \subseteq h.row.turns
    <3>1. 1 \in PutsOn(script, h.id) /\ h = script[1]
      <4>1. Len(script) \in Nat \ {0} /\ h = script[1]
        BY <1>1, <2>2, EmptySeq, LenProperties
      <4> QED
        BY <2>1, <4>1 DEF PutsOn
    <3> QED
      BY <2>1, <3>1 DEF KeptInv, Spared
  <2>6. \A s \in Lines : store.session[s].turns \subseteq store'.session[s].turns \cup dropped[s]
    BY <2>1, <2>3, <2>5
  <2> QED
    BY <1>1, <2>2, <2>4, <2>6, LoseNothing
<1>5. CASE RemoveStep
  <2>1. PICK h \in Call : /\ CallStep(h) /\ h.op # "put"
                          /\ \A s \in Lines : store'.session[s].turns = store.session[s].turns
    BY <1>5 DEF RemoveStep
  <2> QED
    BY <1>1, <2>1, OtherCallsKeep
<1>6. CASE BindStep
  <2>1. PICK h \in Call : CallStep(h) /\ h.op # "put" /\ ReadOf(store, store')
    BY <1>6 DEF BindStep
  <2>2. \A s \in Lines : store'.session[s].turns = store.session[s].turns
    BY <1>1, <2>1, ReadTurns
  <2> QED
    BY <1>1, <2>1, <2>2, OtherCallsKeep
<1>7. ASSUME NEW t \in Turns, ToolLookup(t) \/ ToolRead(t) \/ ToolUnbind(t)
      PROVE  /\ KeptInv'
             /\ \A s \in Lines : store'.session[s].turns = store.session[s].turns
  <2>1. /\ ReadOf(store, store') /\ script' = script /\ dropped' = dropped
        /\ \A x \in Turns : tool'[x] = tool[x] \/ CopyFits(store', dropped, tool'[x])
    BY <1>1, <1>7, ToolLooks
  <2>2. \A s \in Lines : store'.session[s].turns = store.session[s].turns
    BY <1>1, <2>1, ReadTurns
  <2>3. Spared(store', dropped, script')
    BY <2>1, <2>2, SameTurnsKeep DEF KeptInv
  <2> QED
    BY <1>1, <2>1, <2>2, <2>3, LoseNothing
<1>8. ASSUME NEW t \in Turns, ToolSave(t)
      PROVE  /\ KeptInv'
             /\ \A s \in Lines : store.session[s].turns \subseteq store'.session[s].turns \cup dropped'[s]
  <2>1. /\ script' = script /\ dropped' \in [Lines -> SUBSET Turns]
        /\ \A s \in Lines :
              /\ dropped[s] \subseteq dropped'[s]
              /\ store'.session[s].turns \subseteq store.session[s].turns \cup dropped[s]
              /\ store.session[s].turns \subseteq store'.session[s].turns \cup dropped'[s]
        /\ \A x \in Turns : tool'[x] = tool[x] \/ tool'[x].pc # "save"
    BY <1>8, ToolSaves
  <2>2. Spared(store', dropped', script')
    <3> SUFFICES ASSUME NEW s \in Lines, NEW i \in PutsOn(script, s)
                 PROVE  /\ store'.session[s].turns \ dropped'[s] \subseteq script[i].row.turns
                        /\ \A j \in PutsOn(script, s) :
                              i < j => script[i].row.turns \subseteq script[j].row.turns
      BY <2>1 DEF Spared
    <3>1. /\ store.session[s].turns \ dropped[s] \subseteq script[i].row.turns
          /\ \A j \in PutsOn(script, s) : i < j => script[i].row.turns \subseteq script[j].row.turns
      BY DEF KeptInv, Spared
    <3> QED
      BY <2>1, <3>1
  <2>3. ASSUME NEW x \in Turns PROVE CopyFits(store', dropped', tool'[x])
    <3>1. CASE tool'[x] = tool[x] /\ tool[x].pc = "save"
      <4>1. tool[x].id \in Lines
        BY <1>1, <3>1, CopiesHaveLines
      <4>2. tool[x].row.turns \subseteq store.session[tool[x].id].turns \cup dropped[tool[x].id]
        BY <3>1 DEF KeptInv, CopyFits
      <4> QED
        BY <2>1, <3>1, <4>1, <4>2 DEF CopyFits
    <3>2. CASE tool'[x].pc # "save"
      BY <3>2 DEF CopyFits
    <3> QED
      BY <2>1, <3>1, <3>2
  <2> QED
    BY <1>1, <2>1, <2>2, <2>3 DEF KeptInv
<1>9. CASE \E t \in Turns : ToolStep(t)
  BY <1>7, <1>8, <1>9 DEF ToolStep
<1> QED
  BY <1>1, <1>2, <1>3, <1>4, <1>5, <1>6, <1>9, StepKinds

(* Whatever handlers, crashes, expiry and the tools of answers do, a turn  *)
(* recorded on a line stays there as long as the line exists, unless a     *)
(* tool has saved an older copy of that line over it.                      *)
THEOREM RecordedTurnsStay == Spec => TurnsAreKept
<1>1. Init => KeptInv
  <2> SUFFICES ASSUME Init PROVE KeptInv
    OBVIOUS
  <2>1. /\ Inv /\ script = <<>> /\ tool = [t \in Turns |-> NoTool]
        /\ dropped \in [Lines -> SUBSET Turns]
    BY InitInv DEF Init
  <2>2. Spared(store, dropped, script)
    BY <2>1, NothingStarts, StartsSpared
  <2>3. \A t \in Turns : CopyFits(store, dropped, tool[t])
    BY <2>1 DEF NoTool, CopyFits
  <2> QED
    BY <2>1, <2>2, <2>3 DEF KeptInv
<1>2. KeptInv /\ [Next]_vars => KeptInv'
  BY KeptStep
<1>3. KeptInv /\ [Next]_vars
         => [\A s \in Stored(store) \cap Stored(store') :
                store.session[s].turns \ store'.session[s].turns \subseteq dropped'[s]]_vars
  BY KeptStep DEF Stored
<1> QED
  BY <1>1, <1>2, <1>3, PTL DEF Spec, TurnsAreKept

-----------------------------------------------------------------------------
(* While the clock runs no longer than session_ttl, nothing expires        *)

LEMMA NothingExpires ==
    ASSUME Inv, MaxTime <= TTL, NEW d, ReadOf(store, d)
    PROVE  \A s \in Lines : d.session[s] = store.session[s]
<1>1. ASSUME NEW s \in Stored(store) PROVE s \in Live(store)
  <2>1. s \in Lines /\ store.session[s].expires >= TTL /\ store.session[s] \in Row
    BY DEF Stored, Inv, RowsFit, Lives, Types, Store
  <2>2. store.session[s].expires \in Nat /\ now \in 0..MaxTime
    BY <2>1, ConversationAssumption DEF Row, Inv, Types
  <2>3. store.session[s].expires >= now
    BY <2>1, <2>2, ConversationAssumption
  <2> QED
    BY <2>3 DEF Live
<1> QED
  BY <1>1 DEF ReadOf, Aged, Stored

(* Once there is a line there always is one, whatever is deleted and       *)
(* wherever a crash cuts a handler.                                        *)
THEOREM ALineRemains ==
    ASSUME "tool" \notin Faults, MaxTime <= TTL
    PROVE  Spec => SomeLineStays
<1>1. ASSUME TurnsInv, [Next]_vars
      PROVE  [Stored(store) # {} => Stored(store') # {}]_vars
  <2> SUFFICES ASSUME NEW s \in Stored(store)
               PROVE  Stored(store') # {}
    OBVIOUS
  <2>1. s \in Lines /\ store.session[s].state = "stored" /\ store \in Store /\ script \in Seq(Call)
    BY <1>1 DEF Stored, TurnsInv, Inv, Types
  <2>2. CASE StartStep \/ BindStep
    <3>1. ReadOf(store, store')
      BY <2>2 DEF StartStep, BindStep
    <3>2. store'.session[s] = store.session[s]
      BY <1>1, <2>1, <3>1, NothingExpires DEF TurnsInv
    <3> QED
      BY <2>1, <3>2 DEF Stored
  <2>3. CASE SaveStep
    <3>1. PICK h \in Call : /\ h.op = "put" /\ h.id \in Lines /\ Lives(h.row)
                            /\ store' = Upserted(store, h.id, h.row)
      BY <2>3 DEF SaveStep
    <3>2. store'.session[h.id] = h.row
      BY <2>1, <3>1, SavedTurns
    <3>3. h.id \in Stored(store')
      BY <3>1, <3>2 DEF Lives, Stored
    <3> QED
      BY <3>3
  <2>4. CASE RemoveStep
    <3>1. PICK h \in Call :
             /\ CallStep(h) /\ h.op = "remove"
             /\ \A u \in Lines : u \in Stored(store') <=> u \in Stored(store) /\ u # h.id
      BY <2>4 DEF RemoveStep
    <3>2. script # <<>> /\ h = Head(script)
      BY <3>1 DEF CallStep
    <3>3. Len(script) \in Nat \ {0} /\ h = script[1]
      BY <2>1, <3>2, EmptySeq, LenProperties
    <3>4. PICK v \in Stored(store) : v # h.id
      BY <1>1, <3>1, <3>3 DEF TurnsInv, Works, Removing
    <3>5. v \in Stored(store')
      BY <3>1, <3>4 DEF Stored
    <3> QED
      BY <3>5
  <2>5. CASE QuietStep
    BY <2>5 DEF QuietStep
  <2> QED
    BY <1>1, <2>2, <2>3, <2>4, <2>5, HandlerKinds DEF TurnsInv
<1> QED
  BY <1>1, TurnsInvariance, PTL DEF Spec, SomeLineStays

-----------------------------------------------------------------------------
(* Without faults, and while nothing expires, every script ends with one   *)
(* line in progress and no letter is given twice                           *)

Open(d, s) == s \in Stored(d) /\ ~d.session[s].stopped

InProgress(d) == Open(d, d.active)
Empty(d) == d.active = NoLine /\ Stored(d) = {}

(* Calls that bind no line but s and leave it open.                        *)
Holding(s) == {k \in Call : /\ k.op \in {"put", "activate", "list"}
                            /\ k.op = "activate" => k.id = s
                            /\ k.op = "put" /\ k.id = s => ~k.row.stopped}

(* Among the calls w is one that binds a line, and s is open by then.      *)
Binds(d, s, w) ==
    \E m \in 1..Len(w) : /\ w[m].op = "activate"
                         /\ Open(d, s) \/ \E j \in PutsOn(w, s) : j < m

Holds(d, s, w) == w \in Seq(Holding(s)) /\ ((d.active = s /\ Open(d, s)) \/ Binds(d, s, w))

(* What delete_session has still to do, of the lines other than u one is   *)
(* left to take over.                                                      *)
Clears(d, w) ==
    \E u \in Lines :
        /\ \E v \in Stored(d) : v # u
        /\ \/ w = <<Remove(u), Unbind(u), PickSurvivor>> /\ InProgress(d)
           \/ w = <<Unbind(u), PickSurvivor>> /\ (d.active = u \/ InProgress(d))
           \/ w = <<PickSurvivor>> /\ (d.active = NoLine \/ InProgress(d))

Settles(d, w) == \/ w = <<>> /\ Empty(d)
                 \/ \E s \in Lines : Holds(d, s, w)
                 \/ Clears(d, w)

FreeName(d, n) == n < Letters => \A s \in Stored(d) : d.session[s].name # n

OneLetter(d) ==
    \A s, u \in Stored(d) :
        d.session[s].name = d.session[u].name /\ d.session[s].name < Letters => s = u

(* A save is of a line that is stored, or of a new one under a free name.  *)
Named(d) == {k \in Call : k.op = "put" => IF Exists(d, k.id) THEN k.id \in Stored(d)
                                          ELSE FreeName(d, k.row.name)}

Lettered(d, w) == OneLetter(d) /\ w \in Seq(Named(d))

LinesInv == Inv /\ NoTools /\ Settles(store, script) /\ Lettered(store, script)

LEMMA ReadNothing ==
    ASSUME Inv, MaxTime <= TTL, NEW S
    PROVE  Read(store, S) = store /\ Live(store) = Stored(store)
<1>1. store \in Store
  BY DEF Inv, Types
<1>2. ReadOf(store, store)
  BY <1>1, SameReadOf
<1>3. ASSUME NEW s \in Stored(store) PROVE s \in Live(store)
  <2>1. s \in Lines /\ store.session[s].expires >= TTL /\ store.session[s] \in Row
    BY <1>1 DEF Stored, Inv, RowsFit, Lives, Store
  <2>2. store.session[s].expires \in Nat /\ now \in 0..MaxTime
    BY <2>1, ConversationAssumption DEF Row, Inv, Types
  <2>3. store.session[s].expires >= now
    BY <2>1, <2>2, ConversationAssumption
  <2> QED
    BY <2>3 DEF Live
<1>4. Live(store) = Stored(store)
  BY <1>3 DEF Live
<1>5. (Stored(store) \ Live(store)) \cap S = {}
  BY <1>4
<1>6. Read(store, S) = [session |-> [s \in Lines |-> store.session[s]], active |-> store.active]
  BY <1>5 DEF Read
<1>7. store = [session |-> store.session, active |-> store.active]
      /\ store.session = [s \in Lines |-> store.session[s]]
  BY <1>1 DEF Store
<1> QED
  BY <1>4, <1>6, <1>7

LEMMA BindingStays ==
    ASSUME Inv, MaxTime <= TTL
    PROVE  /\ ByBinding(store) \in Store /\ ByBinding(store).session = store.session
           /\ InProgress(store) \/ Empty(store) => ByBinding(store) = store
           /\ store.active = NoLine /\ Stored(store) # {}
              => ByBinding(store).active \in Stored(store)
<1>1. store \in Store
  BY DEF Inv, Types
<1>2. /\ ReadOf(store, ByBinding(store)) /\ ByBinding(store).active \in Live(store) \cup {NoLine}
      /\ store.active = NoLine /\ Live(store) # {} => ByBinding(store).active # NoLine
  BY <1>1, BindingIsLive
<1>3. Read(store, Lines) = store /\ Live(store) = Stored(store)
  BY ReadNothing
<1>4. ByBinding(store) \in Store /\ \A s \in Lines : ByBinding(store).session[s] = store.session[s]
  BY <1>2, NothingExpires DEF ReadOf
<1>5. ByBinding(store).session = store.session
  BY <1>1, <1>4 DEF Store
<1>6. Empty(store) => ByBinding(store) = store
  BY <1>3 DEF Empty, ByBinding, Fallback
<1>7. InProgress(store) => ByBinding(store) = store
  <2>1. Stored(store) \subseteq Lines /\ NoLine \notin Lines
    BY LineTypes DEF Stored
  <2> QED
    BY <1>3, <2>1 DEF InProgress, Open, ByBinding
<1> QED
  BY <1>2, <1>3, <1>4, <1>5, <1>6, <1>7

(* Between two handlers a line is in progress or there is none, and what   *)
(* a handler reads is the store as it is.                                  *)
LEMMA IdleLines ==
    ASSUME LinesInv, MaxTime <= TTL, Idle
    PROVE  /\ InProgress(store) \/ Empty(store)
           /\ ByBinding(store) = store
           /\ \A S : Read(store, S) = store
           /\ \A s : Opened(s) = store
           /\ Live(store) = Stored(store)
           /\ \A s : HasPending(store, s) => s \in Stored(store) /\ InProgress(store)
           /\ Settles(store, <<>>) /\ Lettered(store, <<>>)
<1>1. Inv /\ script = <<>>
  BY DEF LinesInv, Idle
<1>2. \A u : /\ <<Remove(u), Unbind(u), PickSurvivor>> # <<>>
             /\ <<Unbind(u), PickSurvivor>> # <<>> /\ <<PickSurvivor>> # <<>>
  OBVIOUS
<1>3. InProgress(store) \/ Empty(store)
  <2>1. Settles(store, <<>>)
    BY <1>1 DEF LinesInv
  <2>2. ~Clears(store, <<>>)
    BY <1>2 DEF Clears
  <2>3. \A s : ~Binds(store, s, <<>>)
    BY DEF Binds
  <2> QED
    BY <2>1, <2>2, <2>3 DEF Settles, Holds, InProgress
<1>4. /\ ByBinding(store) = store /\ Live(store) = Stored(store)
      /\ \A S : Read(store, S) = store
  BY <1>1, <1>3, BindingStays, ReadNothing
<1>5. \A s : Opened(s) = store
  BY <1>4 DEF Opened
<1>6. \A s : HasPending(store, s) => s \in Stored(store)
  BY <1>4 DEF HasPending
<1>7. \A s : HasPending(store, s) => InProgress(store)
  BY <1>3, <1>6 DEF Empty
<1> QED
  BY <1>1, <1>3, <1>4, <1>5, <1>6, <1>7 DEF LinesInv

LEMMA HoldingCalls ==
    ASSUME NEW s \in Lines
    PROVE  /\ \A u \in Lines, r \in Row : (u = s => ~r.stopped) => Put(u, r) \in Holding(s)
           /\ Activate(s) \in Holding(s) /\ ListBranches \in Holding(s)
BY BlankIsRow DEF Put, Activate, ListBranches, Holding, Call

LEMMA NamedCalls ==
    ASSUME NEW d
    PROVE  /\ \A u \in Stored(d), r \in Row : Put(u, r) \in Named(d)
           /\ \A u \in Lines, r \in Row :
                 ~Exists(d, u) /\ FreeName(d, r.name) => Put(u, r) \in Named(d)
           /\ \A u \in Lines : /\ Activate(u) \in Named(d) /\ Remove(u) \in Named(d)
                               /\ Unbind(u) \in Named(d)
           /\ PickSurvivor \in Named(d) /\ ListBranches \in Named(d)
<1>1. \A u \in Stored(d) : u \in Lines /\ Exists(d, u)
  BY DEF Stored, Exists
<1>2. \A u \in Lines, r \in Row : /\ Put(u, r) \in Call /\ Put(u, r).op = "put"
                                  /\ Put(u, r).id = u /\ Put(u, r).row = r
  BY DEF Put, Call
<1>3. /\ \A u \in Stored(d), r \in Row : Put(u, r) \in Named(d)
      /\ \A u \in Lines, r \in Row :
            ~Exists(d, u) /\ FreeName(d, r.name) => Put(u, r) \in Named(d)
  BY <1>1, <1>2 DEF Named
<1>4. /\ \A u \in Lines : /\ Activate(u) \in Named(d) /\ Remove(u) \in Named(d)
                          /\ Unbind(u) \in Named(d)
      /\ PickSurvivor \in Named(d) /\ ListBranches \in Named(d)
  BY BlankIsRow DEF Activate, Remove, Unbind, PickSurvivor, ListBranches, Named, Call
<1> QED
  BY <1>3, <1>4

LEMMA StoppedRows ==
    ASSUME now \in 0..MaxTime, NEW r \in Row
    PROVE  /\ Touched(r).stopped = r.stopped /\ Refreshed(r).stopped = r.stopped
           /\ \A t : Recorded(r, t).stopped = r.stopped
           /\ ~Thawed(r).stopped /\ ~Refreshed(Thawed(r)).stopped
<1>1. Touched(r) \in Row /\ Thawed(r) \in Row
  BY BuiltRows DEF From
<1>2. ASSUME NEW q \in Row PROVE Touched(q).stopped = q.stopped
  BY DEF Touched, Row
<1>3. ASSUME NEW q \in Row, Touched(q) \in Row PROVE Refreshed(q).stopped = q.stopped
  BY <1>2, <1>3 DEF Refreshed, Row
<1>4. \A t : Recorded(r, t).stopped = r.stopped
  BY <1>1, <1>2 DEF Recorded, Row
<1>5. ~Thawed(r).stopped
  BY <1>1 DEF Thawed, Row
<1>6. Touched(Thawed(r)) \in Row
  BY <1>1, BuiltRows DEF From
<1> QED
  BY <1>1, <1>2, <1>3, <1>4, <1>5, <1>6

(* Most handlers only save lines there are, the one in progress as open as *)
(* it is.                                                                  *)
LEMMA SavesSettle ==
    ASSUME LinesInv, InProgress(store),
           NEW w \in Seq(Holding(store.active) \cap Named(store))
    PROVE  Settles(store, w) /\ Lettered(store, w)
<1> DEFINE s == store.active
<1>1. w \in Seq(Holding(s)) /\ w \in Seq(Named(store))
  BY SeqMonotonic
<1>2. s \in Lines /\ Open(store, s)
  BY DEF InProgress, Open, Stored
<1>3. Settles(store, w)
  BY <1>1, <1>2 DEF Settles, Holds
<1> QED
  BY <1>1, <1>3 DEF LinesInv, Lettered

LEMMA SaveAndShow ==
    ASSUME LinesInv, InProgress(store), NEW u \in Stored(store), NEW r \in Row,
           r.stopped = store.session[u].stopped, NEW card \in Shown
    PROVE  /\ Settles(store, <<Put(u, r)>> \o card)
           /\ Lettered(store, <<Put(u, r)>> \o card)
<1> DEFINE C == Holding(store.active) \cap Named(store)
           k == Put(u, r)
<1>1. store.active \in Lines /\ ~store.session[store.active].stopped /\ u \in Lines
  BY DEF InProgress, Open, Stored
<1>2. k \in C /\ ListBranches \in C
  BY <1>1, HoldingCalls, NamedCalls
<1>3. <<k>> \o card \in Seq(C)
  <2> HIDE DEF C, k
  <2>1. <<>> \in Seq(C) /\ <<ListBranches>> \in Seq(C) /\ <<k>> \in Seq(C)
    BY <1>2
  <2>2. card \in Seq(C)
    BY <2>1, Zenon DEF Shown
  <2> QED
    BY <2>1, <2>2, ConcatProperties
<1> QED
  BY <1>3, SavesSettle

LEMMA CurrentIsOpen ==
    ASSUME LinesInv, MaxTime <= TTL, Idle, Room(store), Accepts(store)
    PROVE  /\ Current(store) \in Lines /\ CurrentRow(store) \in Row /\ ~CurrentRow(store).stopped
           /\ \A r \in Row : ~r.stopped => Put(Current(store), r)
                                           \in Holding(Current(store)) \cap Named(store)
           /\ IF store.active = NoLine
              THEN Created(store) = <<Put(Current(store), NewLine), Activate(Current(store))>>
              ELSE Created(store) = <<>> /\ Current(store) = store.active
<1> DEFINE c == Current(store)
           r == CurrentRow(store)
<1>1. store \in Store /\ Inv
  BY DEF LinesInv, Inv, Types
<1>2. store.active \in Live(store) \cup {NoLine} /\ Live(store) = Stored(store)
  BY IdleLines DEF InProgress, Open, Empty
<1>3. c \in Lines /\ r \in Row
  BY <1>1, <1>2, SameReadOf, SameTurns, CurrentFits
<1>4. CASE store.active # NoLine
  <2>1. c = store.active /\ r = store.session[store.active] /\ Created(store) = <<>>
    BY <1>4 DEF Current, CurrentRow, Created
  <2>2. InProgress(store)
    BY <1>4, IdleLines DEF Empty
  <2>3. c \in Stored(store) /\ ~r.stopped
    BY <2>1, <2>2 DEF InProgress, Open
  <2> HIDE DEF c, r
  <2>4. \A q \in Row : ~q.stopped => Put(c, q) \in Holding(c) \cap Named(store)
    BY <1>3, <2>3, HoldingCalls, NamedCalls
  <2> QED
    BY <1>3, <1>4, <2>1, <2>3, <2>4 DEF c, r
<1>5. CASE store.active = NoLine
  <2>1. c = Min(Unused) /\ r = NewLine /\ Created(store) = <<Put(c, NewLine), Activate(c)>>
    BY <1>5 DEF Current, CurrentRow, Created
  <2>2. Unused \in SUBSET Nat /\ Unused # {}
    BY <1>5, LineTypes DEF Unused, Room
  <2>3. c \in Unused
    BY <2>1, <2>2, LeastLine
  <2>4. ~Exists(store, c) /\ ~r.stopped
    BY <1>1, <2>1, <2>3, NewLineIsBlank DEF Unused, Known, Exists, Inv, Types
  <2>5. Stored(store) = {}
    BY <1>5, LineTypes, IdleLines DEF InProgress, Open, Empty, Stored
  <2> HIDE DEF c
  <2>6. \A q \in Row : ~q.stopped => Put(c, q) \in Holding(c) \cap Named(store)
    BY <1>3, <2>4, <2>5, HoldingCalls, NamedCalls DEF FreeName
  <2> QED
    BY <1>3, <1>5, <2>1, <2>4, <2>6 DEF c
<1> QED
  BY <1>4, <1>5

(* get_or_create and calls that hold on to its line.                       *)
LEMMA CreatedSettles ==
    ASSUME LinesInv, MaxTime <= TTL, Idle, Room(store), Accepts(store),
           NEW v \in Seq(Holding(Current(store)) \cap Named(store))
    PROVE  Settles(store, Created(store) \o v) /\ Lettered(store, Created(store) \o v)
<1> DEFINE c == Current(store)
           C == Holding(c) \cap Named(store)
<1>1. CASE store.active # NoLine
  <2>1. Created(store) = <<>> /\ c = store.active
    BY <1>1, CurrentIsOpen
  <2>2. Created(store) \o v = v
    BY <2>1, ConcatEmptySeq
  <2>3. InProgress(store)
    BY <1>1, IdleLines DEF Empty
  <2> QED
    BY <2>1, <2>2, <2>3, SavesSettle
<1>2. CASE store.active = NoLine
  <2> DEFINE p == Put(c, NewLine)
             a == <<p, Activate(c)>>
             w == a \o v
  <2>1. c \in Lines /\ Created(store) = a
    BY <1>2, CurrentIsOpen
  <2>2. NewLine \in Row /\ ~NewLine.stopped
    BY NewLineIsBlank DEF LinesInv, Inv, Types
  <2>3. p \in C /\ Activate(c) \in C
    <3> HIDE DEF c
    <3>1. Put(c, NewLine) \in C
      BY <2>2, CurrentIsOpen DEF c
    <3> QED
      BY <2>1, <3>1, HoldingCalls, NamedCalls
  <2>4. p.op = "put" /\ p.id = c /\ Activate(c).op = "activate"
    BY PutFields
  <2>5. v \in Seq(C)
    OBVIOUS
  <2> HIDE DEF C, c, p
  <2>6. a \in Seq(C) /\ Len(a) = 2 /\ a[1] = p /\ a[2] = Activate(c)
    BY <2>3
  <2>7. w \in Seq(C) /\ Len(w) >= 2 /\ w[1] = p /\ w[2] = Activate(c)
    <3> HIDE DEF a
    <3>1. /\ w \in Seq(C) /\ Len(w) = Len(a) + Len(v)
          /\ \A i \in 1..(Len(a) + Len(v)) : w[i] = IF i <= Len(a) THEN a[i] ELSE v[i - Len(a)]
      BY <2>5, <2>6, ConcatProperties
    <3>2. Len(v) \in Nat
      BY <2>5, LenProperties
    <3>3. Len(w) >= 2 /\ w[1] = a[1] /\ w[2] = a[2]
      BY <2>6, <3>1, <3>2
    <3> QED
      BY <2>6, <3>1, <3>3
  <2> HIDE DEF a, w
  <2>8. Binds(store, c, w)
    <3>1. Len(w) \in Nat
      BY <2>7, LenProperties
    <3>2. 1 \in PutsOn(w, c) /\ 2 \in 1..Len(w)
      BY <2>4, <2>7, <3>1 DEF PutsOn
    <3>3. w[2].op = "activate" /\ 1 < 2
      BY <2>4, <2>7
    <3> QED
      BY <3>2, <3>3 DEF Binds
  <2>9. w \in Seq(Holding(c)) /\ w \in Seq(Named(store))
    BY <2>7, SeqMonotonic DEF C
  <2>10. Settles(store, w) /\ Lettered(store, w)
    BY <2>1, <2>8, <2>9 DEF Settles, Holds, LinesInv, Lettered
  <2> QED
    BY <2>1, <2>10 DEF w
<1> QED
  BY <1>1, <1>2

LEMMA ChatSettles ==
    ASSUME LinesInv, MaxTime <= TTL, NEW t \in Turns, Chat(t)
    PROVE  store' = store /\ Settles(store, script') /\ Lettered(store, script')
<1> DEFINE s == Current(store)
           row == CurrentRow(store)
           x == Put(s, row)
           y == Put(s, Recorded(row, t))
           C == Holding(s) \cap Named(store)
<1>1. Idle /\ ByBinding(store) = store /\ now \in 0..MaxTime
  BY IdleLines DEF Chat, LinesInv, Inv, Types
<1>2. /\ Room(store) /\ store' = store
      /\ script' = IF Accepts(store) THEN Created(store) \o <<x, y>> ELSE <<>>
  BY <1>1 DEF Chat, Handle
<1>3. CASE Accepts(store)
  <2>1. /\ row \in Row /\ ~row.stopped
        /\ \A r \in Row : ~r.stopped => Put(s, r) \in C
    BY <1>1, <1>2, <1>3, CurrentIsOpen
  <2>2. Recorded(row, t) \in Row /\ ~Recorded(row, t).stopped
    <3> HIDE DEF row
    <3>1. From(row, Recorded(row, t)) /\ Recorded(row, t).stopped = row.stopped
      BY <1>1, <2>1, BuiltRows, StoppedRows
    <3> QED
      BY <2>1, <3>1 DEF From
  <2>3. x \in C /\ y \in C
    BY <2>1, <2>2
  <2>4. <<x, y>> \in Seq(C)
    <3> HIDE DEF C, x, y
    <3> QED
      BY <2>3
  <2> QED
    BY <1>1, <1>2, <1>3, <2>4, CreatedSettles
<1>4. CASE ~Accepts(store)
  BY <1>1, <1>2, <1>4, IdleLines
<1> QED
  BY <1>3, <1>4

LEMMA AskSettles ==
    ASSUME LinesInv, MaxTime <= TTL, Ask
    PROVE  store' = store /\ Settles(store, script') /\ Lettered(store, script')
<1> DEFINE s == Current(store)
           row == CurrentRow(store)
           x == Put(s, row)
           y == Put(s, Refreshed(row))
           C == Holding(s) \cap Named(store)
<1>1. Idle /\ ByBinding(store) = store /\ now \in 0..MaxTime
  BY IdleLines DEF Ask, LinesInv, Inv, Types
<1>2. PICK rest \in {<<>>, <<y, ListBranches>>} :
         script' = IF Accepts(store) THEN Created(store) \o <<x>> \o rest ELSE <<>>
  BY <1>1 DEF Ask, Handle
<1>3. Room(store) /\ store' = store
  BY <1>1 DEF Ask, Handle
<1>4. CASE Accepts(store)
  <2>1. /\ s \in Lines /\ row \in Row /\ ~row.stopped
        /\ \A r \in Row : ~r.stopped => Put(s, r) \in C
    BY <1>1, <1>3, <1>4, CurrentIsOpen
  <2>2. Refreshed(row) \in Row /\ ~Refreshed(row).stopped
    BY <1>1, <2>1, BuiltRows, StoppedRows DEF From
  <2>3. x \in C /\ y \in C /\ ListBranches \in C
    BY <2>1, <2>2, HoldingCalls, NamedCalls
  <2>4. <<x>> \o rest \in Seq(C)
    <3> HIDE DEF C, x, y
    <3>1. <<>> \in Seq(C) /\ <<x>> \in Seq(C) /\ <<y, ListBranches>> \in Seq(C)
      BY <2>3
    <3>2. rest \in Seq(C)
      BY <3>1, Zenon
    <3> QED
      BY <3>1, <3>2, ConcatProperties
  <2>5. /\ Settles(store, Created(store) \o (<<x>> \o rest))
        /\ Lettered(store, Created(store) \o (<<x>> \o rest))
    BY <1>1, <1>3, <1>4, <2>4, CreatedSettles
  <2>6. Created(store) \o (<<x>> \o rest) = Created(store) \o <<x>> \o rest
    <3>1. Created(store) \in Seq(Call)
      <4>1. Room(store) /\ ReadOf(store, store) /\ store.active \in Live(store) \cup {NoLine}
        BY <1>1, <1>3, SameReadOf, IdleLines
           DEF InProgress, Open, Empty, LinesInv, Inv, Types
      <4>2. Created(store) \in Seq(On(s) \cap Plain(store))
        BY <4>1, CurrentIsPlain DEF LinesInv
      <4>3. On(s) \cap Plain(store) \subseteq Call
        BY DEF On
      <4> QED
        BY <4>2, <4>3, SeqMonotonic
    <3>2. C \subseteq Call
      BY DEF Holding
    <3> HIDE DEF C, x, y
    <3>3. <<>> \in Seq(Call) /\ <<x>> \in Seq(Call) /\ <<y, ListBranches>> \in Seq(Call)
      BY <2>3, <3>2
    <3>4. rest \in Seq(Call)
      BY <3>3, Zenon
    <3> HIDE DEF s
    <3> QED
      BY <3>1, <3>3, <3>4, ConcatAssociative
  <2> QED
    BY <1>2, <1>3, <1>4, <2>5, <2>6
<1>5. CASE ~Accepts(store)
  BY <1>1, <1>2, <1>3, <1>5, IdleLines
<1> QED
  BY <1>4, <1>5

LEMMA ConfirmSettles ==
    ASSUME LinesInv, MaxTime <= TTL, NEW s \in Lines, NEW t \in Turns, Confirm(s, t)
    PROVE  store' = store /\ Settles(store, script') /\ Lettered(store, script')
<1> DEFINE k == Put(s, store.session[s])
<1>1. Idle /\ Opened(s) = store /\ store.session[s] \in Row
  BY IdleLines DEF Confirm, LinesInv, Inv, Types, Store
<1>2. /\ store' = store
      /\ script' = IF HasPending(store, s) /\ Writable(store, s) THEN <<k>> ELSE <<>>
  BY <1>1 DEF Confirm, Handle
<1>3. CASE HasPending(store, s) /\ Writable(store, s)
  <2>1. s \in Stored(store) /\ InProgress(store) /\ ~store.session[s].stopped
    BY <1>1, <1>3, IdleLines DEF Writable
  <2>2. k \in Holding(store.active) \cap Named(store)
    BY <1>1, <2>1, HoldingCalls, NamedCalls DEF InProgress, Open, Stored
  <2>3. <<k>> \in Seq(Holding(store.active) \cap Named(store))
    BY <2>2
  <2> QED
    BY <1>2, <1>3, <2>1, <2>3, SavesSettle
<1>4. CASE ~(HasPending(store, s) /\ Writable(store, s))
  BY <1>1, <1>2, <1>4, IdleLines
<1> QED
  BY <1>3, <1>4

LEMMA EditSettles ==
    ASSUME LinesInv, MaxTime <= TTL, NEW s \in Lines, Edit(s) \/ Stage(s)
    PROVE  store' = store /\ Settles(store, script') /\ Lettered(store, script')
<1> DEFINE r == Touched(store.session[s])
<1>1. Idle
  BY DEF Edit, Stage
<1>2. Opened(s) = store /\ Read(store, {s}) = store
  BY <1>1, IdleLines
<1>3. store.session[s] \in Row /\ now \in 0..MaxTime
  BY DEF LinesInv, Inv, Types, Store
<1>4. r \in Row /\ r.stopped = store.session[s].stopped
  BY <1>3, BuiltRows, StoppedRows DEF From
<1>5. /\ store' = store
      /\ \/ \E card \in Shown : script' = <<Put(s, r)>> \o card /\ HasPending(store, s)
         \/ script' = <<>>
  <2>1. CASE Edit(s)
    BY <1>2, <2>1 DEF Edit, Handle
  <2>2. CASE Stage(s)
    BY <1>2, <2>2 DEF Stage, Handle
  <2> QED
    BY <2>1, <2>2
<1> HIDE DEF r
<1>6. ASSUME HasPending(store, s), NEW card \in Shown
      PROVE  /\ Settles(store, <<Put(s, r)>> \o card)
             /\ Lettered(store, <<Put(s, r)>> \o card)
  <2>1. s \in Stored(store) /\ InProgress(store)
    BY <1>1, <1>6, IdleLines
  <2> QED
    BY <1>4, <2>1, SaveAndShow
<1> QED
  BY <1>1, <1>5, <1>6, IdleLines

LEMMA PersistSettles ==
    ASSUME LinesInv, MaxTime <= TTL, NEW t \in Turns, Persist(t)
    PROVE  store' = store /\ Settles(store, script') /\ Lettered(store, script')
<1> DEFINE s == AnswerLine(t)
           r == Recorded(store.session[s], t)
           k == Put(s, r)
<1>1. Idle
  BY DEF Persist
<1>2. Read(store, {s}) = store /\ ByBinding(store) = store /\ Live(store) = Stored(store)
  BY <1>1, IdleLines
<1>3. /\ store' = store
      /\ script' = IF s \in Stored(store) /\ Writable(store, s) THEN <<k, k>> ELSE <<>>
  BY <1>2 DEF Persist, Handle
<1>4. CASE s \in Stored(store) /\ Writable(store, s)
  <2>1. s \in Lines /\ store.active = s /\ ~store.session[s].stopped /\ InProgress(store)
    BY <1>4 DEF Writable, Stored, InProgress, Open
  <2>2. store.session[s] \in Row /\ now \in 0..MaxTime
    BY <2>1 DEF LinesInv, Inv, Types, Store
  <2>3. r \in Row /\ ~r.stopped
    <3> DEFINE row == store.session[s]
    <3>1. row \in Row /\ r = Recorded(row, t) /\ ~row.stopped
      BY <2>1, <2>2
    <3> HIDE DEF row, r
    <3>2. From(row, Recorded(row, t)) /\ Recorded(row, t).stopped = row.stopped
      BY <2>2, <3>1, BuiltRows, StoppedRows
    <3> QED
      BY <3>1, <3>2 DEF From
  <2> HIDE DEF s, r
  <2>4. k \in Holding(store.active) \cap Named(store)
    BY <1>4, <2>1, <2>3, HoldingCalls, NamedCalls
  <2> HIDE DEF k
  <2>5. <<k, k>> \in Seq(Holding(store.active) \cap Named(store))
    BY <2>4
  <2> QED
    BY <1>3, <1>4, <2>1, <2>5, SavesSettle
<1>5. CASE ~(s \in Stored(store) /\ Writable(store, s))
  BY <1>1, <1>3, <1>5, IdleLines
<1> QED
  BY <1>4, <1>5

(* _next_branch_name hands out a letter no listed branch carries.          *)
LEMMA NextNameIsFree ==
    ASSUME NEW used, IsFiniteSet(used), NextName(used) < Letters
    PROVE  NextName(used) \notin used
<1> DEFINE free == (0..(Letters - 1)) \ used
<1>1. NextName(used) = IF free # {} THEN Min(free) ELSE Letters + Cardinality(used) + 1
  BY DEF NextName
<1>2. CASE free # {}
  <2>1. free \in SUBSET Nat
    OBVIOUS
  <2> HIDE DEF free
  <2>2. Min(free) \in free
    BY <1>2, <2>1, LeastLine
  <2> QED
    BY <1>1, <1>2, <2>2 DEF free
<1>3. CASE free = {}
  <2> HIDE DEF free
  <2>1. Cardinality(used) \in Nat /\ Letters \in Nat
    BY FS_CardinalityType, ConversationAssumption
  <2> QED
    BY <1>1, <1>3, <2>1
<1> QED
  BY <1>2, <1>3

LEMMA NamesAreFinite ==
    ASSUME NEW d, NEW S \in SUBSET Lines
    PROVE  IsFiniteSet({d.session[u].name : u \in S})
<1> DEFINE used == {d.session[u].name : u \in S}
           f == [u \in S |-> d.session[u].name]
<1>1. f \in Surjection(S, used)
  BY DEF Surjection
<1>2. IsFiniteSet(S)
  BY LineTypes, FS_Subset
<1> HIDE DEF f, used
<1>3. IsFiniteSet(used)
  BY <1>1, <1>2, FS_Surjection
<1> QED
  BY <1>3 DEF used

LEMMA ForkSettles ==
    ASSUME LinesInv, MaxTime <= TTL, NEW s \in Lines, Fork(s)
    PROVE  store' = store /\ Settles(store, script') /\ Lettered(store, script')
<1> DEFINE row == store.session[s]
           c == Min(Unused)
           used == {store.session[u].name : u \in Stored(store)}
           name == NextName(used)
           x == Put(s, Frozen(row))
           y == Put(c, Branch(row, s, name))
           calls == <<x, y, Activate(c), ListBranches>>
           C == Holding(c) \cap Named(store)
<1>1. Idle /\ s \in Known /\ Unused # {}
  BY DEF Fork
<1>2. Opened(s) = store /\ Read(store, Lines) = store /\ Live(store) = Stored(store)
  BY <1>1, IdleLines
<1>3. /\ store' = store
      /\ script' = IF HasPending(store, s) /\ Writable(store, s) THEN calls ELSE <<>>
  BY <1>2 DEF Fork, Handle
<1>4. store \in Store /\ row \in Row /\ now \in 0..MaxTime
  BY DEF LinesInv, Inv, Types, Store
<1>5. c \in Unused
  <2>1. Unused \in SUBSET Nat
    BY LineTypes DEF Unused
  <2> QED
    BY <1>1, <2>1, LeastLine
<1>6. Stored(store) \in SUBSET Lines
  BY DEF Stored
<1>7. name \in Names /\ FreeName(store, name)
  <2>1. name \in Names /\ IsFiniteSet(used)
    BY <1>4, <1>6, NextNameIsName, NamesAreFinite
  <2>2. name < Letters => name \notin used
    <3> HIDE DEF used
    <3> QED
      BY <2>1, NextNameIsFree
  <2>3. \A u \in Stored(store) : store.session[u].name \in used
    OBVIOUS
  <2> HIDE DEF used, name
  <2> QED
    BY <2>1, <2>2, <2>3 DEF FreeName
<1> HIDE DEF c, name
<1>8. c \in Lines /\ ~Exists(store, c) /\ c # s
  BY <1>1, <1>5 DEF Unused, Known, Exists
<1>9. /\ Frozen(row) \in Row /\ Branch(row, s, name) \in Row
      /\ ~Branch(row, s, name).stopped /\ Branch(row, s, name).name = name
  BY <1>4, <1>7, BuiltRows DEF From
<1>10. CASE HasPending(store, s) /\ Writable(store, s)
  <2>1. s \in Stored(store)
    BY <1>1, <1>10, IdleLines
  <2>2. x \in C
    BY <1>8, <1>9, <2>1, HoldingCalls, NamedCalls
  <2>3. y \in C
    BY <1>7, <1>8, <1>9, HoldingCalls, NamedCalls
  <2>4. Activate(c) \in C /\ ListBranches \in C
    BY <1>8, HoldingCalls, NamedCalls
  <2>5. y.op = "put" /\ y.id = c /\ Activate(c).op = "activate"
    BY PutFields
  <2> HIDE DEF C, x, y
  <2>6. calls \in Seq(C) /\ Len(calls) = 4 /\ calls[2] = y /\ calls[3] = Activate(c)
    BY <2>2, <2>3, <2>4
  <2> HIDE DEF calls
  <2>7. Binds(store, c, calls)
    <3>1. 2 \in PutsOn(calls, c) /\ 3 \in 1..Len(calls)
      BY <2>5, <2>6 DEF PutsOn
    <3>2. calls[3].op = "activate" /\ 2 < 3
      BY <2>5, <2>6
    <3> QED
      BY <3>1, <3>2 DEF Binds
  <2>8. calls \in Seq(Holding(c)) /\ calls \in Seq(Named(store))
    BY <2>6, SeqMonotonic DEF C
  <2> QED
    BY <1>3, <1>8, <1>10, <2>7, <2>8 DEF Settles, Holds, LinesInv, Lettered
<1>11. CASE ~(HasPending(store, s) /\ Writable(store, s))
  BY <1>1, <1>3, <1>11, IdleLines
<1> QED
  BY <1>10, <1>11

(* Continuing on a stored line binds it after it was thawed.               *)
LEMMA ResumeSettles ==
    ASSUME now \in 0..MaxTime, NEW d \in Store, OneLetter(d), NEW u \in Stored(d)
    PROVE  Settles(d, Resume(u, d.session[u])) /\ Lettered(d, Resume(u, d.session[u]))
<1> DEFINE C == Holding(u) \cap Named(d)
           r == d.session[u]
           x == Put(u, Thawed(r))
           y == Put(u, Refreshed(Thawed(r)))
           k == Activate(u)
           thaw == IF r.stopped THEN <<x>> ELSE <<>>
           card == IF r.pending THEN <<>> ELSE <<y>>
           pre == thaw \o <<k>>
           w == (pre \o card) \o <<ListBranches>>
<1>1. u \in Lines /\ r \in Row
  BY DEF Stored, Store
<1>2. /\ Thawed(r) \in Row /\ ~Thawed(r).stopped
      /\ Refreshed(Thawed(r)) \in Row /\ ~Refreshed(Thawed(r)).stopped
  <2>1. Thawed(r) \in Row /\ ~Thawed(r).stopped
    BY <1>1, BuiltRows, StoppedRows DEF From
  <2>2. Refreshed(Thawed(r)) \in Row /\ ~Refreshed(Thawed(r)).stopped
    BY <1>1, <2>1, BuiltRows, StoppedRows DEF From
  <2> QED
    BY <2>1, <2>2
<1>3. x \in C /\ y \in C /\ k \in C /\ ListBranches \in C
  BY <1>1, <1>2, HoldingCalls, NamedCalls
<1>4. Resume(u, r) = w
  BY DEF Resume
<1>5. x.op = "put" /\ x.id = u /\ k.op = "activate"
  BY PutFields
<1>6. ~r.stopped => Open(d, u)
  BY DEF Open
<1> HIDE DEF C, r, x, y, k
<1>7. /\ <<>> \in Seq(C) /\ <<x>> \in Seq(C) /\ <<y>> \in Seq(C)
      /\ <<k>> \in Seq(C) /\ <<ListBranches>> \in Seq(C)
  BY <1>3
<1>8. thaw \in Seq(C) /\ card \in Seq(C)
  BY <1>7, Zenon
<1>9. \E m \in 1..Len(pre) : /\ pre[m] = k
                             /\ r.stopped => 1 < m /\ pre[1] = x
  <2>1. CASE r.stopped
    <3>1. pre = <<x>> \o <<k>>
      BY <2>1
    <3>2. Len(pre) = 2 /\ pre[1] = x /\ pre[2] = k
      BY <3>1
    <3> QED
      BY <3>2
  <2>2. CASE ~r.stopped
    <3>1. pre = <<k>>
      BY <1>7, <2>2, ConcatEmptySeq
    <3> QED
      BY <2>2, <3>1
  <2> QED
    BY <2>1, <2>2
<1> HIDE DEF thaw, card
<1>10. pre \in Seq(C)
  BY <1>7, <1>8, ConcatProperties
<1> HIDE DEF pre
<1>11. w \in Seq(C) /\ Len(pre) <= Len(w) /\ \A i \in 1..Len(pre) : w[i] = pre[i]
  <2> DEFINE v == pre \o card
  <2>1. /\ v \in Seq(C) /\ Len(v) = Len(pre) + Len(card)
        /\ \A i \in 1..(Len(pre) + Len(card)) :
              v[i] = IF i <= Len(pre) THEN pre[i] ELSE card[i - Len(pre)]
    BY <1>8, <1>10, ConcatProperties
  <2>2. Len(pre) \in Nat /\ Len(card) \in Nat
    BY <1>8, <1>10, LenProperties
  <2>3. v \in Seq(C) /\ Len(v) \in Nat /\ Len(pre) <= Len(v) /\ \A i \in 1..Len(pre) : v[i] = pre[i]
    BY <2>1, <2>2
  <2> DEFINE l == <<ListBranches>>
  <2>4. l \in Seq(C) /\ Len(l) = 1 /\ w = v \o l
    BY <1>7
  <2> HIDE DEF v, l, w
  <2>5. /\ w \in Seq(C) /\ Len(w) = Len(v) + Len(l)
        /\ \A i \in 1..(Len(v) + Len(l)) : w[i] = IF i <= Len(v) THEN v[i] ELSE l[i - Len(v)]
    BY <2>3, <2>4, ConcatProperties
  <2> QED
    BY <2>2, <2>3, <2>4, <2>5
<1> HIDE DEF w
<1>12. Binds(d, u, w)
  <2>1. PICK m \in 1..Len(pre) : /\ pre[m] = k
                                 /\ r.stopped => 1 < m /\ pre[1] = x
    BY <1>9
  <2>2. Len(pre) \in Nat /\ Len(w) \in Nat
    BY <1>10, <1>11, LenProperties
  <2>3. m \in 1..Len(w) /\ w[m].op = "activate"
    BY <1>5, <1>11, <2>1, <2>2
  <2>4. r.stopped => 1 \in PutsOn(w, u) /\ 1 < m
    BY <1>5, <1>11, <2>1, <2>2 DEF PutsOn
  <2> QED
    BY <1>6, <2>3, <2>4 DEF Binds
<1>13. w \in Seq(Holding(u)) /\ w \in Seq(Named(d))
  BY <1>11, SeqMonotonic DEF C
<1> QED
  BY <1>1, <1>4, <1>12, <1>13 DEF Settles, Holds, Lettered, r

LEMMA SwitchSettles ==
    ASSUME LinesInv, MaxTime <= TTL, NEW s \in Lines, NEW u \in Lines, Switch(s, u)
    PROVE  store' = store /\ Settles(store, script') /\ Lettered(store, script')
<1>1. Idle
  BY DEF Switch
<1>2. Read(store, {s, u}) = store /\ Live(store) = Stored(store)
  BY <1>1, IdleLines
<1>3. /\ store' = store
      /\ script' = IF HasPending(store, s) /\ u \in Stored(store)
                   THEN Resume(u, store.session[u]) ELSE <<>>
  BY <1>2 DEF Switch, Handle
<1>4. store \in Store /\ now \in 0..MaxTime /\ OneLetter(store)
  BY DEF LinesInv, Inv, Types, Lettered
<1> QED
  BY <1>1, <1>3, <1>4, ResumeSettles, IdleLines

LEMMA DeleteSettles ==
    ASSUME LinesInv, MaxTime <= TTL, NEW s \in Lines, NEW u \in Lines, Delete(s, u)
    PROVE  store' = store /\ Settles(store, script') /\ Lettered(store, script')
<1> DEFINE calls == <<Remove(u), Unbind(u), PickSurvivor>>
           ok == HasPending(store, s) /\ u \in Stored(store) /\ MayDelete(store)
<1>1. Idle
  BY DEF Delete
<1>2. /\ Read(store, {s, u}) = store /\ Read(store, Lines) = store
      /\ Live(store) = Stored(store)
  BY <1>1, IdleLines
<1>3. store' = store /\ script' = IF ok THEN calls ELSE <<>>
  BY <1>2 DEF Delete, Handle
<1>4. CASE ok
  <2>1. InProgress(store)
    BY <1>1, <1>4, IdleLines
  <2>2. \E v \in Stored(store) : v # u
    <3>1. Stored(store) \in SUBSET Lines /\ Cardinality(Stored(store)) >= 2
      BY <1>2, <1>4 DEF MayDelete, Stored
    <3> QED
      BY <3>1, AnotherLine
  <2>3. Settles(store, calls)
    BY <2>1, <2>2 DEF Settles, Clears
  <2>4. Remove(u) \in Named(store) /\ Unbind(u) \in Named(store) /\ PickSurvivor \in Named(store)
    BY NamedCalls
  <2>5. calls \in Seq(Named(store))
    BY <2>4
  <2> HIDE DEF calls
  <2> QED
    BY <1>3, <1>4, <2>3, <2>5 DEF LinesInv, Lettered
<1>5. CASE ~ok
  BY <1>1, <1>3, <1>5, IdleLines
<1> QED
  BY <1>4, <1>5

-----------------------------------------------------------------------------
(* The calls of the scripts                                                *)

(* A script that holds on to s goes on doing so after its first call.      *)
LEMMA HoldsRest ==
    ASSUME NEW d, NEW e, NEW s \in Lines, NEW w \in Seq(Call), w # <<>>, Holds(d, s, w),
           Head(w).op = "activate" => e.active = Head(w).id,
           Head(w).op # "activate" /\ d.active = s /\ Open(d, s) => e.active = s,
           Open(d, s) \/ (Head(w).op = "put" /\ Head(w).id = s) => Open(e, s)
    PROVE  Holds(e, s, Tail(w))
<1> DEFINE h == Head(w)
           v == Tail(w)
<1>1. w \in Seq(Holding(s)) /\ v \in Seq(Holding(s)) /\ h \in Holding(s)
  BY HeadTailProperties DEF Holds
<1>2. /\ h = w[1] /\ Len(w) \in Nat \ {0} /\ Len(v) = Len(w) - 1
      /\ \A i \in 1..Len(v) : v[i] = w[i + 1]
  <2>1. Len(w) \in Nat \ {0}
    BY EmptySeq, LenProperties
  <2>2. Len(v) = Len(w) - 1 /\ \A i \in 1..Len(v) : v[i] = w[i + 1]
    BY HeadTailProperties
  <2> QED
    BY <2>1, <2>2
<1>3. h.op = "activate" => h.id = s
  BY <1>1 DEF Holding
<1> HIDE DEF h, v
<1>4. CASE d.active = s /\ Open(d, s)
  BY <1>1, <1>3, <1>4 DEF Holds, h, v
<1>5. CASE Binds(d, s, w)
  <2>1. PICK m \in 1..Len(w) : /\ w[m].op = "activate"
                               /\ Open(d, s) \/ \E j \in PutsOn(w, s) : j < m
    BY <1>5 DEF Binds
  <2>2. CASE m = 1
    <3>1. Open(d, s)
      BY <1>2, <2>1, <2>2 DEF PutsOn
    <3>2. e.active = s /\ Open(e, s)
      BY <1>2, <1>3, <2>1, <2>2, <3>1 DEF h
    <3> QED
      BY <1>1, <3>2 DEF Holds, v
  <2>3. CASE m # 1
    <3>1. m - 1 \in 1..Len(v) /\ v[m - 1] = w[m]
      BY <1>2, <2>3
    <3>2. ASSUME NEW j \in PutsOn(w, s), j < m
          PROVE  Open(e, s) \/ \E i \in PutsOn(v, s) : i < m - 1
      <4>1. j \in 1..Len(w) /\ w[j].op = "put" /\ w[j].id = s
        BY DEF PutsOn
      <4>2. CASE j = 1
        BY <1>2, <4>1, <4>2 DEF h
      <4>3. CASE j # 1
        <5>1. j - 1 \in 1..Len(v) /\ v[j - 1] = w[j] /\ j - 1 < m - 1
          BY <1>2, <3>2, <4>1, <4>3
        <5> QED
          BY <4>1, <5>1 DEF PutsOn
      <4> QED
        BY <4>2, <4>3
    <3>3. Open(e, s) \/ \E i \in PutsOn(v, s) : i < m - 1
      BY <2>1, <3>2
    <3> QED
      BY <1>1, <2>1, <3>1, <3>3 DEF Holds, Binds, v
  <2> QED
    BY <2>2, <2>3
<1> QED
  BY <1>4, <1>5 DEF Holds

LEMMA InBoth ==
    ASSUME NEW A, NEW B, NEW w \in Seq(A), w \in Seq(B)
    PROVE  w \in Seq(A \cap B)
<1> DEFINE n == Len(w)
<1>1. n \in Nat /\ w \in [1..n -> A] /\ w \in [1..n -> B]
  BY LenProperties
<1>2. w \in [1..n -> A \cap B]
  BY <1>1
<1> HIDE DEF n
<1> QED
  BY <1>1, <1>2

(* What is bound says nothing of the rows.                                 *)
LEMMA SameRows ==
    ASSUME NEW d, NEW e, e.session = d.session
    PROVE  /\ Stored(e) = Stored(d) /\ \A s : Open(e, s) <=> Open(d, s)
           /\ \A w : Lettered(d, w) => Lettered(e, w)
<1>1. Stored(e) = Stored(d)
  BY DEF Stored
<1>2. Named(e) = Named(d) /\ (OneLetter(d) => OneLetter(e))
  BY <1>1 DEF Named, Exists, FreeName, OneLetter
<1> QED
  BY <1>1, <1>2 DEF Open, Lettered

(* The head of a script tells what the script is.                          *)
LEMMA HeadTells ==
    ASSUME LinesInv, NEW op, Next_(op)
    PROVE  /\ script \in Seq(Call) /\ script # <<>> /\ Head(script).op = op
           /\ op \in {"put", "activate", "list"} =>
                 \E s \in Lines : Holds(store, s, script) /\ Head(script) \in Holding(s)
           /\ op = "remove" =>
                 \E u \in Lines : /\ script = <<Remove(u), Unbind(u), PickSurvivor>>
                                  /\ InProgress(store) /\ \E v \in Stored(store) : v # u
           /\ op = "unbind" =>
                 \E u \in Lines : /\ script = <<Unbind(u), PickSurvivor>>
                                  /\ store.active = u \/ InProgress(store)
                                  /\ \E v \in Stored(store) : v # u
           /\ op = "survive" =>
                 /\ script = <<PickSurvivor>> /\ Stored(store) # {}
                 /\ store.active = NoLine \/ InProgress(store)
           /\ op \in {"put", "activate", "list", "remove", "unbind", "survive"}
<1>1. script \in Seq(Call) /\ script # <<>> /\ Head(script).op = op
  BY DEF Next_, Idle, LinesInv, Inv, Types
<1>2. CASE \E s \in Lines : Holds(store, s, script)
  <2>1. PICK s \in Lines : Holds(store, s, script)
    BY <1>2
  <2>2. Head(script) \in Holding(s)
    BY <1>1, <2>1, HeadTailProperties DEF Holds
  <2>3. op \in {"put", "activate", "list"}
    BY <1>1, <2>2 DEF Holding
  <2> QED
    BY <1>1, <2>1, <2>2, <2>3
<1>3. CASE Clears(store, script)
  <2>1. PICK u \in Lines :
           /\ \E v \in Stored(store) : v # u
           /\ \/ script = <<Remove(u), Unbind(u), PickSurvivor>> /\ InProgress(store)
              \/ script = <<Unbind(u), PickSurvivor>> /\ (store.active = u \/ InProgress(store))
              \/ script = <<PickSurvivor>> /\ (store.active = NoLine \/ InProgress(store))
    BY <1>3 DEF Clears
  <2>2. Remove(u).op = "remove" /\ Unbind(u).op = "unbind" /\ PickSurvivor.op = "survive"
    BY DEF Remove, Unbind, PickSurvivor
  <2>3. CASE script = <<Remove(u), Unbind(u), PickSurvivor>> /\ InProgress(store)
    <3>1. op = "remove"
      BY <1>1, <2>2, <2>3
    <3> QED
      BY <1>1, <2>1, <2>3, <3>1
  <2>4. CASE script = <<Unbind(u), PickSurvivor>> /\ (store.active = u \/ InProgress(store))
    <3>1. op = "unbind"
      BY <1>1, <2>2, <2>4
    <3> QED
      BY <1>1, <2>1, <2>4, <3>1
  <2>5. CASE script = <<PickSurvivor>> /\ (store.active = NoLine \/ InProgress(store))
    <3>1. op = "survive"
      BY <1>1, <2>2, <2>5
    <3> QED
      BY <1>1, <2>1, <2>5, <3>1
  <2> QED
    BY <2>1, <2>3, <2>4, <2>5
<1> QED
  BY <1>1, <1>2, <1>3 DEF LinesInv, Settles

LEMMA UpsertSettles ==
    ASSUME LinesInv, Upsert
    PROVE  Settles(store', script') /\ Lettered(store', script')
<1> DEFINE h == Head(script)
           r == h.row
<1>1. PICK c \in Lines, f \in Row :
         /\ h \in Calls(store, turn, c, f) /\ h.op = "put"
         /\ Tail(script) \in Seq(Calls(store, turn, c, f))
  BY FirstCall DEF Upsert, LinesInv
<1>2. PICK s \in Lines : Holds(store, s, script) /\ h \in Holding(s)
  BY HeadTells DEF Upsert
<1>3. script \in Seq(Call) /\ script # <<>> /\ store \in Store /\ OneLetter(store)
  BY HeadTells DEF Upsert, LinesInv, Inv, Types, Lettered
<1>4. h \in Call /\ h.id \in Lines /\ r.state = "stored" /\ (h.id = s => ~r.stopped)
  BY <1>1, <1>2 DEF Calls, Lives, Holding
<1>5. h \in Named(store) /\ Tail(script) \in Seq(Named(store))
  BY <1>3, HeadTailProperties DEF LinesInv, Lettered
<1>6. script' = Tail(script) /\ store' = Upserted(store, h.id, r)
  BY DEF Upsert, Done
<1>7. /\ \A u \in Lines : store'.session[u] = IF u = h.id THEN r ELSE store.session[u]
      /\ store'.active = IF store.active = NoLine THEN h.id ELSE store.active
  <2> HIDE DEF h
  <2> QED
    BY <1>1, <1>3, <1>4, <1>6, SavedTurns
<1>8. Settles(store', script')
  <2>1. Open(store, s) \/ h.id = s => Open(store', s)
    BY <1>4, <1>7 DEF Open, Stored
  <2>2. store.active = s => store'.active = s
    BY <1>7, LineTypes
  <2>3. Holds(store', s, Tail(script))
    BY <1>1, <1>2, <1>3, <2>1, <2>2, HoldsRest
  <2> QED
    BY <1>6, <2>3 DEF Settles
<1>9. Stored(store') = Stored(store) \cup {h.id}
  BY <1>4, <1>7 DEF Stored
<1>10. \A u \in Lines : Exists(store', u) <=> Exists(store, u) \/ u = h.id
  BY <1>4, <1>7 DEF Exists
<1>11. \A u \in Lines : /\ Exists(store, h.id) /\ u = h.id => r.name = store.session[u].name
                        /\ u # h.id => store'.session[u].name = store.session[u].name
                        /\ u = h.id => store'.session[u].name = r.name
  BY <1>1, <1>7 DEF Calls, Kin
<1>12. /\ Exists(store, h.id) => h.id \in Stored(store)
       /\ ~Exists(store, h.id) => FreeName(store, r.name)
  BY <1>1, <1>5 DEF Named
<1>13. OneLetter(store')
  <2>1. ASSUME NEW u \in Stored(store'), NEW v \in Stored(store'),
               store'.session[u].name = store'.session[v].name, store'.session[u].name < Letters
        PROVE  u = v
    <3>1. u \in Lines /\ v \in Lines
      BY DEF Stored
    <3>2. CASE Exists(store, h.id)
      BY <1>3, <1>9, <1>11, <1>12, <2>1, <3>1, <3>2 DEF OneLetter
    <3>3. CASE ~Exists(store, h.id)
      BY <1>3, <1>9, <1>11, <1>12, <2>1, <3>1, <3>3 DEF OneLetter, FreeName
    <3> QED
      BY <3>2, <3>3
  <2> QED
    BY <2>1 DEF OneLetter
<1>14. Calls(store, turn, c, f) \cap Named(store) \subseteq Named(store')
  <2> SUFFICES ASSUME NEW k \in Calls(store, turn, c, f), k \in Named(store), k.op = "put"
               PROVE  IF Exists(store', k.id) THEN k.id \in Stored(store')
                      ELSE FreeName(store', k.row.name)
    BY DEF Named
  <2>1. k.id \in Lines
    BY DEF Calls
  <2>2. CASE Exists(store, k.id)
    BY <1>9, <1>10, <2>1, <2>2 DEF Named
  <2>3. CASE ~Exists(store, k.id) /\ ~Exists(store, h.id)
    BY <1>1, <1>9, <1>10, <2>1, <2>3 DEF Calls
  <2>4. CASE ~Exists(store, k.id) /\ Exists(store, h.id)
    <3>1. FreeName(store, k.row.name) /\ ~Exists(store', k.id)
      BY <1>10, <2>1, <2>4 DEF Named
    <3>2. Stored(store') = Stored(store)
      BY <1>9, <1>12, <2>4
    <3>3. \A u \in Stored(store) : store'.session[u].name = store.session[u].name
      BY <1>11, <2>4 DEF Stored
    <3> QED
      BY <3>1, <3>2, <3>3 DEF FreeName
  <2> QED
    BY <2>2, <2>3, <2>4
<1>15. Tail(script) \in Seq(Named(store'))
  BY <1>1, <1>5, <1>14, InBoth, SeqMonotonic
<1> QED
  BY <1>6, <1>8, <1>13, <1>15 DEF Lettered

LEMMA ActivateSettles ==
    ASSUME LinesInv, SetActiveSession
    PROVE  Settles(store', script') /\ Lettered(store', script')
<1> DEFINE h == Head(script)
<1>1. PICK s \in Lines : Holds(store, s, script) /\ h \in Holding(s)
  BY HeadTells DEF SetActiveSession
<1>2. script \in Seq(Call) /\ script # <<>> /\ h.op = "activate"
  BY HeadTells DEF SetActiveSession
<1>3. store' = [store EXCEPT !.active = h.id] /\ script' = Tail(script) /\ store \in Store
  BY DEF SetActiveSession, Done, LinesInv, Inv, Types
<1> HIDE DEF h
<1>4. store'.session = store.session /\ store'.active = h.id
  BY <1>3 DEF Store
<1>5. Open(store', s) <=> Open(store, s)
  BY <1>4, SameRows
<1>6. Holds(store', s, Tail(script))
  BY <1>1, <1>2, <1>4, <1>5, HoldsRest DEF h
<1>7. Lettered(store, Tail(script))
  BY <1>2, HeadTailProperties DEF LinesInv, Lettered
<1> QED
  BY <1>3, <1>4, <1>6, <1>7, SameRows DEF Settles

LEMMA ShowSettles ==
    ASSUME LinesInv, MaxTime <= TTL, ShowBranches
    PROVE  Settles(store', script') /\ Lettered(store', script')
<1> DEFINE h == Head(script)
<1>1. PICK s \in Lines : Holds(store, s, script) /\ h \in Holding(s)
  BY HeadTells DEF ShowBranches
<1>2. script \in Seq(Call) /\ script # <<>> /\ h.op = "list"
  BY HeadTells DEF ShowBranches
<1>3. store' = ByBinding(store) /\ script' = Tail(script)
  BY ReadNothing DEF ShowBranches, Done, LinesInv
<1>4. /\ store'.session = store.session
      /\ InProgress(store) => store' = store
  BY <1>3, BindingStays DEF LinesInv
<1>5. Open(store', s) <=> Open(store, s)
  BY <1>4, SameRows
<1>6. store.active = s /\ Open(store, s) => store'.active = s
  BY <1>4 DEF InProgress
<1>7. Holds(store', s, Tail(script))
  BY <1>1, <1>2, <1>5, <1>6, HoldsRest
<1>8. Lettered(store, Tail(script))
  BY <1>2, HeadTailProperties DEF LinesInv, Lettered
<1> QED
  BY <1>3, <1>4, <1>7, <1>8, SameRows DEF Settles

LEMMA UnbindSettles ==
    ASSUME LinesInv, DeleteBinding
    PROVE  Settles(store', script') /\ Lettered(store', script')
<1>1. PICK u \in Lines : /\ script = <<Unbind(u), PickSurvivor>>
                         /\ store.active = u \/ InProgress(store)
                         /\ \E v \in Stored(store) : v # u
  BY HeadTells DEF DeleteBinding
<1>2. script' = Tail(script) /\ store \in Store
  BY DEF DeleteBinding, Done, LinesInv, Inv, Types
<1>3. store' = IF store.active = u THEN [store EXCEPT !.active = NoLine] ELSE store
  BY <1>1, PutFields DEF DeleteBinding
<1>4. store'.session = store.session /\ (store'.active = NoLine \/ InProgress(store'))
  BY <1>1, <1>2, <1>3 DEF Store
<1>5. script' = <<PickSurvivor>>
  BY <1>1, <1>2
<1>6. Settles(store', script')
  BY <1>1, <1>4, <1>5, SameRows DEF Settles, Clears
<1>7. Lettered(store, script')
  BY <1>1, <1>2, HeadTailProperties DEF LinesInv, Lettered
<1> QED
  BY <1>4, <1>6, <1>7, SameRows

LEMMA DeleteRowSettles ==
    ASSUME LinesInv, DeleteRow
    PROVE  Settles(store', script') /\ Lettered(store', script')
<1>1. PICK u \in Lines : /\ script = <<Remove(u), Unbind(u), PickSurvivor>>
                         /\ InProgress(store) /\ \E v \in Stored(store) : v # u
  BY HeadTells DEF DeleteRow
<1>2. script' = Tail(script) /\ store \in Store /\ OneLetter(store)
  BY DEF DeleteRow, Done, LinesInv, Inv, Types, Lettered
<1>3. store' = [store EXCEPT !.session[u].state = "deleted"]
  BY <1>1, PutFields DEF DeleteRow
<1>4. /\ store'.active = store.active
      /\ \A s \in Lines : store'.session[s] = IF s = u
                                              THEN [store.session[s] EXCEPT !.state = "deleted"]
                                              ELSE store.session[s]
  BY <1>2, <1>3 DEF Store
<1>5. \A s \in Lines : s \in Stored(store') <=> s \in Stored(store) /\ s # u
  <2> SUFFICES ASSUME NEW s \in Lines
               PROVE  s \in Stored(store') <=> s \in Stored(store) /\ s # u
    OBVIOUS
  <2>1. store.session[s] \in Row
    BY <1>2 DEF Store
  <2> QED
    BY <1>4, <2>1 DEF Stored, Row
<1>6. script' = <<Unbind(u), PickSurvivor>>
  BY <1>1, <1>2
<1>7. store'.active = u \/ InProgress(store')
  BY <1>1, <1>4, <1>5 DEF InProgress, Open, Stored
<1>8. \E v \in Stored(store') : v # u
  BY <1>1, <1>5 DEF Stored
<1>9. Settles(store', script')
  BY <1>6, <1>7, <1>8 DEF Settles, Clears
<1>10. OneLetter(store')
  <2>1. \A s \in Stored(store') : s \in Stored(store) /\ store'.session[s] = store.session[s]
    BY <1>4, <1>5 DEF Stored
  <2> QED
    BY <1>2, <2>1 DEF OneLetter
<1>11. <<Unbind(u), PickSurvivor>> \in Seq(Named(store'))
  <2>1. Unbind(u) \in Named(store') /\ PickSurvivor \in Named(store')
    BY NamedCalls
  <2> QED
    BY <2>1
<1> QED
  BY <1>6, <1>9, <1>10, <1>11 DEF Lettered

LEMMA SurvivorSettles ==
    ASSUME LinesInv, MaxTime <= TTL, ChooseSurvivor
    PROVE  Settles(store', script') /\ Lettered(store', script')
<1> DEFINE d == ByBinding(store)
           u == IF d.active # NoLine THEN d.active ELSE Preferred(d)
<1>1. Stored(store) # {} /\ (store.active = NoLine \/ InProgress(store))
  BY HeadTells DEF ChooseSurvivor
<1>2. Read(store, Lines) = store /\ Live(store) = Stored(store)
  BY ReadNothing DEF LinesInv
<1>3. store' = d /\ script' = Resume(u, d.session[u])
  BY <1>1, <1>2 DEF ChooseSurvivor
<1>4. /\ d \in Store /\ d.session = store.session
      /\ InProgress(store) => d = store
      /\ store.active = NoLine => d.active \in Stored(store)
  BY <1>1, BindingStays DEF LinesInv
<1> HIDE DEF d
<1>5. d.active \in Stored(store)
  BY <1>1, <1>4 DEF InProgress, Open
<1>6. u \in Stored(d)
  <2>1. NoLine \notin Stored(store)
    BY LineTypes DEF Stored
  <2> QED
    BY <1>4, <1>5, <2>1, SameRows
<1>7. OneLetter(d) /\ now \in 0..MaxTime
  BY <1>4, SameRows DEF LinesInv, Inv, Types, Lettered
<1> HIDE DEF u
<1> QED
  BY <1>3, <1>4, <1>6, <1>7, ResumeSettles

LEMMA LinesStep ==
    ASSUME LinesInv, Faults = {}, MaxTime <= TTL, [Next]_vars
    PROVE  LinesInv'
<1>1. Inv'
  BY NextInv DEF LinesInv
<1>2. SUFFICES NoTools' /\ Settles(store', script') /\ Lettered(store', script')
  BY <1>1 DEF LinesInv
<1>3. ASSUME NEW t \in Turns, ToolLookup(t) \/ ToolRead(t) \/ ToolUnbind(t) \/ ToolSave(t)
      PROVE  FALSE
  BY <1>3 DEF ToolLookup, ToolRead, ToolUnbind, ToolSave, NoTools, LinesInv
<1>4. CASE StoreCall
  <2>1. UNCHANGED tool
    BY <1>4 DEF StoreCall, Upsert, SetActiveSession, DeleteRow, DeleteBinding, ChooseSurvivor,
                ShowBranches, Done
  <2>2. NoTools'
    BY <2>1 DEF NoTools, LinesInv
  <2> QED
    BY <1>4, <2>2, UpsertSettles, ActivateSettles, DeleteRowSettles, UnbindSettles,
       SurvivorSettles, ShowSettles DEF StoreCall
<1>5. CASE Ask
  <2>1. NoTools'
    BY <1>5 DEF Ask, NoTools, LinesInv
  <2> QED
    BY <1>5, <2>1, AskSettles
<1>6. ASSUME NEW t \in Turns, Chat(t) \/ Persist(t)
      PROVE  NoTools' /\ Settles(store', script') /\ Lettered(store', script')
  <2>1. NoTools'
    BY <1>6 DEF Chat, Persist, NoTools, LinesInv
  <2> QED
    BY <1>6, <2>1, ChatSettles, PersistSettles
<1>7. ASSUME NEW s \in Lines, Edit(s) \/ Stage(s) \/ Fork(s)
      PROVE  NoTools' /\ Settles(store', script') /\ Lettered(store', script')
  <2>1. NoTools'
    BY <1>7 DEF Edit, Stage, Fork, NoTools, LinesInv
  <2> QED
    BY <1>7, <2>1, EditSettles, ForkSettles
<1>8. ASSUME NEW s \in Lines, NEW t \in Turns, Confirm(s, t)
      PROVE  NoTools' /\ Settles(store', script') /\ Lettered(store', script')
  <2>1. NoTools'
    BY <1>8 DEF Confirm, NoTools, LinesInv
  <2> QED
    BY <1>8, <2>1, ConfirmSettles
<1>9. ASSUME NEW s \in Lines, NEW u \in Lines, Switch(s, u) \/ Delete(s, u)
      PROVE  NoTools' /\ Settles(store', script') /\ Lettered(store', script')
  <2>1. NoTools'
    BY <1>9 DEF Switch, Delete, NoTools, LinesInv
  <2> QED
    BY <1>9, <2>1, SwitchSettles, DeleteSettles
<1>10. CASE Tick \/ UNCHANGED vars
  BY <1>10 DEF Tick, vars, NoTools, LinesInv
<1>11. CASE Crash
  BY <1>11 DEF Crash
<1> QED
  BY <1>3, <1>4, <1>5, <1>6, <1>7, <1>8, <1>9, <1>10, <1>11 DEF Next

LEMMA LinesInvariance == ASSUME Faults = {}, MaxTime <= TTL PROVE Spec => []LinesInv
<1>1. ASSUME Init PROVE LinesInv
  <2>1. /\ Inv /\ script = <<>> /\ tool = [t \in Turns |-> NoTool]
        /\ store = [session |-> [s \in Lines |-> Blank], active |-> NoLine]
    BY <1>1, InitInv DEF Init
  <2>2. Stored(store) = {} /\ store.active = NoLine
    BY <2>1 DEF Stored, Blank
  <2>3. NoTools
    BY <2>1 DEF NoTools, NoTool
  <2>4. Settles(store, script) /\ Lettered(store, script)
    BY <2>1, <2>2 DEF Settles, Empty, Lettered, OneLetter
  <2> QED
    BY <2>1, <2>3, <2>4 DEF LinesInv
<1>2. LinesInv /\ [Next]_vars => LinesInv'
  BY LinesStep
<1> QED
  BY <1>1, <1>2, PTL DEF Spec

(* When no fault interferes and nothing expires, the binding names a line  *)
(* that accepts writes whenever a handler has run to its end, whichever    *)
(* lines are forked, left, thawed or deleted.                              *)
THEOREM OneLineIsInProgress ==
    ASSUME Faults = {}, MaxTime <= TTL
    PROVE  Spec => []OneLineInProgress
<1>1. ASSUME LinesInv PROVE OneLineInProgress
  BY <1>1, IdleLines DEF OneLineInProgress, InProgress, Open, Empty
<1> QED
  BY <1>1, LinesInvariance, PTL

(* Under the same conditions _next_branch_name never hands out a letter a  *)
(* stored branch carries, at any point of any handler.                     *)
THEOREM LettersAreUnique ==
    ASSUME Faults = {}, MaxTime <= TTL
    PROVE  Spec => []UniqueLetters
<1>1. ASSUME LinesInv PROVE UniqueLetters
  BY <1>1 DEF UniqueLetters, LinesInv, Lettered, OneLetter
<1> QED
  BY <1>1, LinesInvariance, PTL
=============================================================================
