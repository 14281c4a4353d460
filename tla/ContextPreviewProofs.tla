------------------------ MODULE ContextPreviewProofs ------------------------
(* Theorems about ContextPreview, for any number of turns, buttons and crashes
   and any limits.  The pool and the ledger are changed by record_turn and by
   the citation of a group message only; the invariant adds what the saves of a
   running handler may still cite. *)
EXTENDS ContextPreview, FiniteSetTheorems, SequenceTheorems, TLAPS

Entries == [source : {"turn", "message"}, of : Nat \cup Messages, day : Nat]
ItemOps == [op : {"exclude", "restore"}, ids : SUBSET Items]
JoinOps == [op : {"join"}, ids : SUBSET Nat]
CiteOps == [op : {"cite"}, entry : Entries]
WindowOps == [op : {"window"}, to : Windows]
PlainOps == [op : {"rebuild", "clear"}]
Uncited == ItemOps \cup JoinOps \cup WindowOps \cup PlainOps
Ops == Uncited \cup CiteOps
StageType == [exclude : SUBSET Items, restore : SUBSET Items, join : SUBSET Nat]

(* The types of the parts TypeOK is about, and of the saves to come. *)
Shaped == /\ turns \in Nat /\ flight \in Nat /\ turns + flight <= MaxTurns
          /\ recent \in Seq(1..MaxTurns) /\ cycle \subseteq 1..MaxTurns
          /\ ledger \in Seq(Entries)
          /\ pending \subseteq Items /\ asked \in BOOLEAN
          /\ window \in Windows /\ stage \in StageType /\ script \in Seq(Ops)
          /\ removed \subseteq Items /\ rebuilt \in BOOLEAN
          /\ edits \in 0..MaxEdits /\ crashes \in 0..MaxCrashes

(* The recent turns are the newest ones, the cycle lies right before them. *)
Contiguous == /\ Len(recent) <= turns /\ Len(recent) <= RecentTurnLimit
              /\ \A i \in 1..Len(recent) : recent[i] = turns - Len(recent) + i
              /\ turns = Len(recent) => cycle = {}
              /\ turns > Len(recent) =>
                   \E first \in 1..turns :
                     /\ cycle = first..(turns - Len(recent))
                     /\ turns - Len(recent) - first < CompressEnd
                     /\ first <= turns - Len(recent)

(* Each turn has one place on the ledger, each message at most one. *)
Places == /\ \A t \in 1..turns : \E i \in 1..Len(ledger) :
               \A j \in 1..Len(ledger) : ledger[j] = TurnCitation(t) <=> j = i
          /\ \A j \in 1..Len(ledger) : ledger[j].source = "turn" => ledger[j].of \in 1..turns
          /\ \A i, j \in 1..Len(ledger) :
               /\ ledger[i].source = "message" /\ ledger[j].source = "message"
               /\ ledger[i].of = ledger[j].of
               => i = j
          /\ \A j \in 1..Len(ledger) : ledger[j].source = "message" => ledger[j].of \in Messages

(* A citation is the next save or none, and of a message that has none. *)
Citable(e) == /\ e.source = "message" /\ e.of \in Messages
              /\ \A j \in 1..Len(ledger) : ledger[j].source = "message" => ledger[j].of # e.of
NextCites == \A k \in 1..Len(script) : script[k].op = "cite" => k = 1 /\ Citable(script[k].entry)

IInv == Shaped /\ Contiguous /\ Places /\ NextCites

-----------------------------------------------------------------------------
(* The split of the recent turns *)

LEMMA SplitBounds ==
    ASSUME NEW S, NEW s \in Seq(S), Len(s) \in 1..RecentTurnLimit + 1
    PROVE  /\ SplitAt(s) \in 0..CompressEnd
           /\ SplitAt(s) < Len(s)
           /\ Len(s) - SplitAt(s) <= RecentTurnLimit
<1>1. Len(s) \in Nat /\ RecentTurnLimit \in Nat /\ CompressEnd \in 1..RecentTurnLimit
  BY PreviewAssumption
<1>2. CASE Len(s) <= RecentTurnLimit
  BY <1>1, <1>2 DEF SplitAt
<1>3. CASE Len(s) = RecentTurnLimit + 1
  BY <1>1, <1>3, PreviewAssumption DEF SplitAt
<1> QED
  BY <1>1, <1>2, <1>3

(* The oldest n of a run of numbers are a run. *)
LEMMA OldestAreARun ==
    ASSUME NEW s \in Seq(Nat), NEW b \in Nat, \A i \in 1..Len(s) : s[i] = b + i,
           NEW n \in 1..Len(s)
    PROVE  Turns(SubSeq(s, 1, n)) = (b + 1)..(b + n)
<1>1. Len(SubSeq(s, 1, n)) = n /\ \A i \in 1..n : SubSeq(s, 1, n)[i] = s[i]
  BY SubSeqProperties
<1>2. DOMAIN SubSeq(s, 1, n) = 1..n
  BY <1>1, SubSeqProperties
<1>3. Turns(SubSeq(s, 1, n)) = {s[i] : i \in 1..n}
  BY <1>1, <1>2 DEF Turns
<1>4. \A i \in 1..n : s[i] = b + i
  OBVIOUS
<1>5. ASSUME NEW x \in (b + 1)..(b + n) PROVE x \in {s[i] : i \in 1..n}
  <2>1. x - b \in 1..n /\ s[x - b] = x
    BY <1>4
  <2> QED
    BY <2>1
<1>6. ASSUME NEW x \in {s[i] : i \in 1..n} PROVE x \in (b + 1)..(b + n)
  BY <1>4
<1> QED
  BY <1>3, <1>5, <1>6

(* record_turn keeps the pool contiguous. *)
LEMMA RecordKeepsPool ==
    ASSUME Shaped, Contiguous, turns < MaxTurns, RecordTurn
    PROVE  /\ turns' = turns + 1
           /\ recent' \in Seq(1..MaxTurns) /\ cycle' \subseteq 1..MaxTurns
           /\ Contiguous'
<1> DEFINE t == turns + 1
           s == Append(recent, t)
           n == SplitAt(s)
           b == turns - Len(recent)
<1>0. /\ Len(recent) \in Nat /\ turns \in Nat /\ MaxTurns \in Nat /\ RecentTurnLimit \in Nat
      /\ CompressEnd \in Nat /\ CompressEnd >= 1 /\ b \in Nat
  BY PreviewAssumption DEF Shaped, Contiguous
<1>1. turns' = t /\ recent' = SubSeq(s, n + 1, Len(s)) /\ cycle' = Compressed(s, n)
  BY DEF RecordTurn
<1>2. s \in Seq(1..MaxTurns) /\ Len(s) = Len(recent) + 1
  BY <1>0, AppendProperties DEF Shaped
<1>3. \A i \in 1..Len(s) : s[i] = b + i
  <2>1. \A i \in 1..Len(recent) : s[i] = recent[i]
    BY <1>0, AppendProperties DEF Shaped
  <2>2. s[Len(recent) + 1] = t
    BY <1>0, AppendProperties DEF Shaped
  <2> QED
    BY <1>0, <1>2, <2>1, <2>2 DEF Contiguous
<1>s. t = turns + 1 /\ b = turns - Len(recent)
  OBVIOUS
<1> HIDE DEF t, s, b
<1>4. n \in 0..CompressEnd /\ n < Len(s) /\ Len(s) - n <= RecentTurnLimit
  <2>1. Len(s) \in 1..RecentTurnLimit + 1
    BY <1>0, <1>2 DEF Contiguous
  <2> QED
    BY <1>2, <2>1, SplitBounds
<1>n. n = SplitAt(s)
  OBVIOUS
<1> HIDE DEF n
<1>5. /\ recent' \in Seq(1..MaxTurns) /\ Len(recent') = Len(s) - n
      /\ \A i \in 1..Len(recent') : recent'[i] = b + n + i
  <2>1. n + 1 \in Int /\ Len(s) \in Int /\ n + 1 <= Len(s)
    BY <1>0, <1>2, <1>4
  <2>2. \A i \in n + 1..Len(s) : s[i] \in 1..MaxTurns
    BY <1>0, <1>2, <1>4
  <2>3. /\ SubSeq(s, n + 1, Len(s)) \in Seq(1..MaxTurns)
        /\ Len(SubSeq(s, n + 1, Len(s))) = Len(s) - n
        /\ \A i \in 1..Len(s) - n : SubSeq(s, n + 1, Len(s))[i] = s[n + i]
    BY <1>0, <1>4, <2>1, <2>2, SubSeqProperties
  <2>4. \A i \in 1..Len(s) - n : s[n + i] = b + n + i
    BY <1>0, <1>2, <1>3, <1>4
  <2> QED
    BY <1>1, <2>3, <2>4
<1>6. /\ Len(recent') <= turns' /\ turns' - Len(recent') = b + n
      /\ b + Len(s) = turns' /\ n \in Nat /\ Len(recent') \in Nat
      /\ turns' = turns + 1
  <2>1. Len(s) = Len(recent) + 1 /\ Len(recent') = Len(s) - n /\ turns' = turns + 1
    BY <1>1, <1>2, <1>5, <1>s
  <2>2. n \in Nat /\ n < Len(s) /\ Len(s) \in Nat
    BY <1>0, <1>4, <2>1
  <2> QED
    BY <1>0, <1>s, <2>1, <2>2
<1>7. CASE n = 0
  <2>1. cycle' = cycle
    BY <1>1, <1>7 DEF Compressed
  <2>2. \A i \in 1..Len(recent') : recent'[i] = turns' - Len(recent') + i
    BY <1>5, <1>6
  <2>3. turns' - Len(recent') = turns - Len(recent)
    BY <1>6, <1>7, <1>s, <1>0
  <2>4. turns' > Len(recent') =>
          \E first \in 1..turns' : /\ cycle' = first..(turns' - Len(recent'))
                                  /\ turns' - Len(recent') - first < CompressEnd
                                  /\ first <= turns' - Len(recent')
    <3> SUFFICES ASSUME turns' > Len(recent')
                 PROVE  \E first \in 1..turns' : /\ cycle' = first..(turns' - Len(recent'))
                                  /\ turns' - Len(recent') - first < CompressEnd
                                  /\ first <= turns' - Len(recent')
      OBVIOUS
    <3>1. turns > Len(recent)
      BY <1>0, <1>1, <1>5, <1>s, <2>3
    <3>2. PICK first \in 1..turns : /\ cycle = first..(turns - Len(recent))
                     /\ turns - Len(recent) - first < CompressEnd
                     /\ first <= turns - Len(recent)
      BY <3>1 DEF Contiguous
    <3>3. first \in 1..turns'
      BY <1>0, <1>1, <1>s, <3>2
    <3> QED
      BY <2>1, <2>3, <3>2, <3>3
  <2>5. turns' = Len(recent') => cycle' = {}
    BY <1>0, <1>1, <1>5, <1>s, <2>1, <2>3 DEF Contiguous
  <2>6. Len(recent') <= RecentTurnLimit
    BY <1>4, <1>5, <1>7
  <2>7. Contiguous'
    BY <1>6, <2>2, <2>4, <2>5, <2>6 DEF Contiguous
  <2> QED
    BY <1>1, <1>5, <1>s, <2>1, <2>7 DEF Shaped
<1>8. CASE n # 0
  <2>0. n \in 1..Len(s) /\ n \in 1..CompressEnd
    BY <1>0, <1>2, <1>4, <1>8
  <2>1. cycle' = (b + 1)..(b + n)
    <3>1. cycle' = Turns(SubSeq(s, 1, n))
      BY <1>1, <1>8 DEF Compressed
    <3>2. s \in Seq(Nat)
      BY <1>0, <1>2
    <3> QED
      BY <1>0, <1>3, <2>0, <3>1, <3>2, OldestAreARun
  <2>2. \A i \in 1..Len(recent') : recent'[i] = turns' - Len(recent') + i
    BY <1>5, <1>6
  <2>3. /\ b + 1 \in 1..turns' /\ turns' - Len(recent') - (b + 1) < CompressEnd
        /\ b + 1 <= turns' - Len(recent') /\ cycle' = (b + 1)..(turns' - Len(recent'))
        /\ turns' # Len(recent')
    BY <1>0, <1>6, <1>s, <2>0, <2>1
  <2>4. Len(recent') <= RecentTurnLimit
    BY <1>4, <1>5
  <2>5. Contiguous'
    BY <1>6, <2>2, <2>3, <2>4 DEF Contiguous
  <2>6. cycle' \subseteq 1..MaxTurns
    BY <1>0, <1>6, <2>1, <2>3
  <2> QED
    BY <1>1, <1>5, <1>s, <2>5, <2>6
<1> QED
  BY <1>7, <1>8

-----------------------------------------------------------------------------
(* The ledger *)

LEMMA NewEntry ==
    ASSUME Shaped, NEW e \in Entries
    PROVE  /\ Append(ledger, e) \in Seq(Entries)
           /\ Len(Append(ledger, e)) = Len(ledger) + 1
           /\ \A i \in 1..Len(ledger) : Append(ledger, e)[i] = ledger[i]
           /\ Append(ledger, e)[Len(ledger) + 1] = e
           /\ Len(ledger) \in Nat
BY AppendProperties DEF Shaped

(* A recorded turn gets a place of its own. *)
LEMMA RecordKeepsPlaces ==
    ASSUME Shaped, Places, RecordTurn
    PROVE  ledger' \in Seq(Entries) /\ Places'
<1> DEFINE e == TurnCitation(turns + 1)
<1>1. turns' = turns + 1 /\ ledger' = Append(ledger, e) /\ turns \in Nat
  BY DEF RecordTurn, Shaped
<1>2. e \in Entries /\ e.source = "turn" /\ e.of = turns + 1
  BY <1>1 DEF TurnCitation, Entries
<1> HIDE DEF e
<1>3. /\ ledger' \in Seq(Entries) /\ Len(ledger') = Len(ledger) + 1 /\ Len(ledger) \in Nat
      /\ \A i \in 1..Len(ledger) : ledger'[i] = ledger[i]
      /\ ledger'[Len(ledger) + 1] = e
  BY <1>1, <1>2, NewEntry
<1>4. \A j \in 1..Len(ledger) : ledger[j] # e
  BY <1>1, <1>2 DEF Places
<1>5. \A t \in 1..turns : TurnCitation(t) # e
  BY <1>1, <1>2 DEF TurnCitation
<1>6. ASSUME NEW t \in 1..turns'
      PROVE  \E i \in 1..Len(ledger') : \A j \in 1..Len(ledger') :
               ledger'[j] = TurnCitation(t) <=> j = i
  <2>1. CASE t = turns + 1
    <3>1. TurnCitation(t) = e
      BY <2>1 DEF e
    <3>2. \A j \in 1..Len(ledger') : ledger'[j] = e <=> j = Len(ledger) + 1
      BY <1>3, <1>4
    <3>3. Len(ledger) + 1 \in 1..Len(ledger')
      BY <1>3
    <3> QED
      BY <3>1, <3>2, <3>3
  <2>2. CASE t \in 1..turns
    <3>1. PICK i \in 1..Len(ledger) : \A j \in 1..Len(ledger) :
             ledger[j] = TurnCitation(t) <=> j = i
      BY <2>2 DEF Places
    <3>2. \A j \in 1..Len(ledger') : ledger'[j] = TurnCitation(t) <=> j = i
      BY <1>3, <1>5, <2>2, <3>1
    <3>3. i \in 1..Len(ledger')
      BY <1>3
    <3> QED
      BY <3>2, <3>3
  <2>3. t = turns + 1 \/ t \in 1..turns
    BY <1>1
  <2> QED
    BY <2>1, <2>2, <2>3
<1>7. \A j \in 1..Len(ledger') : ledger'[j].source = "turn" => ledger'[j].of \in 1..turns'
  BY <1>1, <1>2, <1>3 DEF Places
<1>8. \A i, j \in 1..Len(ledger') :
        /\ ledger'[i].source = "message" /\ ledger'[j].source = "message"
        /\ ledger'[i].of = ledger'[j].of
        => i = j
  BY <1>2, <1>3 DEF Places
<1>9. \A j \in 1..Len(ledger') : ledger'[j].source = "message" => ledger'[j].of \in Messages
  BY <1>2, <1>3 DEF Places
<1> QED
  BY <1>3, <1>6, <1>7, <1>8, <1>9 DEF Places

(* So does a group message that has none. *)
LEMMA CiteKeepsPlaces ==
    ASSUME Shaped, Places, NEW e \in Entries, Citable(e),
           ledger' = Append(ledger, e), turns' = turns
    PROVE  ledger' \in Seq(Entries) /\ Places'
<1>3. /\ ledger' \in Seq(Entries) /\ Len(ledger') = Len(ledger) + 1 /\ Len(ledger) \in Nat
      /\ \A i \in 1..Len(ledger) : ledger'[i] = ledger[i]
      /\ ledger'[Len(ledger) + 1] = e
  BY NewEntry
<1>4. \A t \in 1..turns : TurnCitation(t) # e
  BY DEF TurnCitation, Citable
<1>6. ASSUME NEW t \in 1..turns'
      PROVE  \E i \in 1..Len(ledger') : \A j \in 1..Len(ledger') :
               ledger'[j] = TurnCitation(t) <=> j = i
  <2>1. PICK i \in 1..Len(ledger) : \A j \in 1..Len(ledger) :
           ledger[j] = TurnCitation(t) <=> j = i
    BY DEF Places
  <2>2. \A j \in 1..Len(ledger') : ledger'[j] = TurnCitation(t) <=> j = i
    BY <1>3, <1>4, <2>1
  <2>3. i \in 1..Len(ledger')
    BY <1>3
  <2> QED
    BY <2>2, <2>3
<1>7. \A j \in 1..Len(ledger') : ledger'[j].source = "turn" => ledger'[j].of \in 1..turns'
  BY <1>3 DEF Places, Citable
<1>8. \A i, j \in 1..Len(ledger') :
        /\ ledger'[i].source = "message" /\ ledger'[j].source = "message"
        /\ ledger'[i].of = ledger'[j].of
        => i = j
  BY <1>3 DEF Places, Citable
<1>9. \A j \in 1..Len(ledger') : ledger'[j].source = "message" => ledger'[j].of \in Messages
  BY <1>3 DEF Places, Citable
<1> QED
  BY <1>3, <1>6, <1>7, <1>8, <1>9 DEF Places

-----------------------------------------------------------------------------
(* Items and scripts *)

LEMMA ItemShapes ==
    ASSUME Shaped
    PROVE  /\ \A w \in Windows : DefaultItems(w) \subseteq Items
           /\ \A i \in DOMAIN ledger : Citation(i) \in Items /\ i \in Nat
           /\ \A w \in Windows : \A cited : PendingItems(w, cited) \subseteq Items
<1>1. MaxTurns \in Nat
  BY PreviewAssumption
<1>2. Turns(recent) \subseteq Nat /\ cycle \subseteq Nat
  BY <1>1 DEF Shaped, Turns
<1>3. \A i \in DOMAIN ledger : Citation(i) \in Items /\ i \in Nat
  BY DEF Shaped, Citation, Items
<1>4. \A w : DefaultItems(w) \subseteq Items
  <2> TAKE w
  <2>1. \A t \in Nat : Summary(t) \in Items /\ Turn(t) \in Items
    BY DEF Summary, Turn, Items
  <2> QED
    BY <1>2, <2>1 DEF DefaultItems
<1> QED
  BY <1>3, <1>4 DEF PendingItems

(* The saves that are left hold no citation. *)
LEMMA TailIsUncited ==
    ASSUME Shaped, NextCites, script # <<>>, script' = Tail(script)
    PROVE  script' \in Seq(Ops) /\ NextCites' /\ Head(script) \in Ops
<1>1. script \in Seq(Ops) /\ Len(script) \in Nat
  BY DEF Shaped
<1>2. /\ Head(script) \in Ops /\ script' \in Seq(Ops)
      /\ Len(script') = Len(script) - 1
      /\ \A k \in 1..Len(script') : script'[k] = script[k + 1]
  BY <1>1, HeadTailProperties
<1>3. \A k \in 1..Len(script') : script'[k].op # "cite"
  BY <1>1, <1>2 DEF NextCites
<1> QED
  BY <1>2, <1>3 DEF NextCites

LEMMA UncitedScript ==
    ASSUME script' \in Seq(Uncited)
    PROVE  script' \in Seq(Ops) /\ NextCites'
<1>1. \A o \in Uncited : o \in Ops /\ o.op # "cite"
  BY DEF Ops, Uncited, ItemOps, JoinOps, WindowOps, PlainOps
<1>2. \A k \in 1..Len(script') : script'[k] \in Uncited
  OBVIOUS
<1> QED
  BY <1>1, <1>2 DEF NextCites

LEMMA OneOp ==
    ASSUME NEW S, NEW o \in S
    PROVE  <<o>> \in Seq(S)
OBVIOUS

LEMMA NowShapes ==
    ASSUME Shaped, script # <<>>
    PROVE  /\ Now \in Ops /\ Now = script[1] /\ 1 \in 1..Len(script)
           /\ Now.op \in {"exclude", "restore"} => Now.ids \subseteq Items
           /\ Now.op = "join" => Now.ids \subseteq Nat
           /\ Now.op = "cite" => Now.entry \in Entries
           /\ Now.op = "window" => Now.to \in Windows
<1>1. script \in Seq(Ops)
  BY DEF Shaped
<1>2. Now \in Ops /\ Now = script[1] /\ 1 \in 1..Len(script)
  BY <1>1, HeadTailProperties DEF Now
<1> QED
  BY <1>2 DEF Ops, Uncited, ItemOps, JoinOps, CiteOps, WindowOps, PlainOps

-----------------------------------------------------------------------------
(* The invariant, step by step *)

(* What most steps leave alone. *)
Settled == UNCHANGED <<pool, ledger>>

LEMMA SettledKeeps ==
    ASSUME Contiguous, Places, Settled
    PROVE  Contiguous' /\ Places'
BY DEF Settled, pool, Contiguous, Places

(* One of the saves of a handler. *)
LEMMA SaveKeeps ==
    ASSUME IInv, Save
    PROVE  IInv'
<1> USE DEF IInv
<1>1. /\ script # <<>> /\ script' = Tail(script)
      /\ UNCHANGED <<pool, asked, flight, budget>>
  BY DEF Save, DoExclude, DoRestore, DoJoin, DoCite, DoWindow, DoRebuild, DoClear, Doing
<1>2. script' \in Seq(Ops) /\ NextCites'
  BY <1>1, TailIsUncited
<1>3. pending' \subseteq Items /\ removed' \subseteq Items /\ rebuilt' \in BOOLEAN
  <2>1. CASE DoExclude
    BY <1>1, <2>1, NowShapes DEF DoExclude, Doing, Now, Shaped
  <2>2. CASE DoRestore
    <3>1. DefaultItems(window) \cup {Citation(i) : i \in DOMAIN ledger} \subseteq Items
      BY ItemShapes DEF Shaped
    <3>2. removed' \subseteq removed /\ rebuilt' = rebuilt
      BY <2>2 DEF DoRestore
    <3>3. pending' \subseteq pending \cup DefaultItems(window) \cup {Citation(i) : i \in DOMAIN ledger}
      BY <2>2 DEF DoRestore
    <3> QED
      BY <3>1, <3>2, <3>3 DEF Shaped
  <2>3. CASE DoJoin
    <3>1. {Citation(i) : i \in DOMAIN ledger} \subseteq Items
      BY ItemShapes
    <3>2. /\ removed' \subseteq removed /\ rebuilt' = rebuilt
          /\ pending' \subseteq pending \cup {Citation(i) : i \in DOMAIN ledger}
      BY <2>3 DEF DoJoin
    <3> QED
      BY <3>1, <3>2 DEF Shaped
  <2>4. CASE DoRebuild
    BY <2>4, ItemShapes DEF DoRebuild, Shaped
  <2>5. CASE DoCite \/ DoWindow \/ DoClear
    BY <2>5 DEF DoCite, DoWindow, DoClear, history, Shaped
  <2> QED
    BY <2>1, <2>2, <2>3, <2>4, <2>5 DEF Save
<1>4. window' \in Windows /\ stage' \in StageType
  <2>1. NoStage \in StageType
    BY DEF NoStage, StageType
  <2>2. DoWindow => window' \in Windows
    BY <1>1, NowShapes DEF DoWindow, Doing, Now
  <2> QED
    BY <2>1, <2>2 DEF Save, DoExclude, DoRestore, DoJoin, DoCite, DoWindow, DoRebuild, DoClear, Shaped
<1>5. ledger' \in Seq(Entries) /\ Contiguous' /\ Places'
  <2>1. CASE DoCite
    <3>1. Now.entry \in Entries /\ Citable(Now.entry)
      BY <1>1, <2>1, NowShapes DEF DoCite, Doing, Now, NextCites
    <3>2. ledger' = Append(ledger, Now.entry) /\ turns' = turns
      BY <2>1, <1>1 DEF DoCite, pool
    <3>3. Contiguous'
      BY <1>1 DEF pool, Contiguous
    <3> QED
      BY <3>1, <3>2, <3>3, CiteKeepsPlaces
  <2>2. CASE ~DoCite
    <3>1. ledger' = ledger
      BY <2>2 DEF Save, DoExclude, DoRestore, DoJoin, DoWindow, DoRebuild, DoClear
    <3> QED
      BY <1>1, <3>1, SettledKeeps DEF Settled, Shaped
  <2> QED
    BY <2>1, <2>2
<1>6. Shaped'
  BY <1>1, <1>2, <1>3, <1>4, <1>5 DEF Shaped, pool, budget
<1> QED
  BY <1>2, <1>5, <1>6

(* A turn is recorded. *)
LEMMA RecordingKeeps ==
    ASSUME IInv, AskSyncStatus \/ AnswerBack
    PROVE  IInv'
<1> USE DEF IInv
<1>1. /\ RecordTurn /\ script = <<>>
      /\ UNCHANGED <<pending, asked, window, script, history, budget>>
  BY DEF AskSyncStatus, AnswerBack, Idle
<1>2. turns < MaxTurns /\ flight' \in Nat /\ turns + 1 + flight' <= MaxTurns
  BY PreviewAssumption DEF AskSyncStatus, AnswerBack, Shaped
<1>3. stage' \in StageType
  BY <1>1 DEF RecordTurn, NoStage, StageType
<1>4. /\ turns' = turns + 1 /\ recent' \in Seq(1..MaxTurns) /\ cycle' \subseteq 1..MaxTurns
      /\ Contiguous'
  BY <1>1, <1>2, RecordKeepsPool
<1>5. ledger' \in Seq(Entries) /\ Places'
  BY <1>1, RecordKeepsPlaces
<1>6. NextCites'
  BY <1>1 DEF NextCites
<1>7. Shaped'
  BY <1>1, <1>2, <1>3, <1>4, <1>5 DEF Shaped, history, budget
<1> QED
  BY <1>4, <1>5, <1>6, <1>7

LEMMA AskKeeps ==
    ASSUME IInv, Ask \/ DirectAnswer \/ Crash
    PROVE  IInv'
<1> USE DEF IInv
<1>1. Settled /\ UNCHANGED <<turns, recent, cycle, ledger, window, stage>> /\ script' = <<>>
  BY DEF Ask, DirectAnswer, Crash, Idle, Settled, pool
<1>2. Contiguous' /\ Places'
  BY <1>1, SettledKeeps
<1>3. <<>> \in Seq(Ops) /\ NextCites'
  BY <1>1 DEF NextCites
<1>4. pending' \subseteq Items /\ removed' \subseteq Items /\ rebuilt' \in BOOLEAN /\ asked' \in BOOLEAN
  BY ItemShapes DEF Ask, DirectAnswer, Crash, history, Shaped
<1>5. flight' \in Nat /\ turns + flight' <= MaxTurns
  BY PreviewAssumption DEF Ask, DirectAnswer, Crash, Shaped
<1>6. edits' \in 0..MaxEdits /\ crashes' \in 0..MaxCrashes
  BY PreviewAssumption DEF Ask, DirectAnswer, Crash, Shaped, budget
<1>7. Shaped'
  BY <1>1, <1>3, <1>4, <1>5, <1>6 DEF Shaped
<1> QED
  BY <1>2, <1>3, <1>7

(* A button changes the ticks or starts the saves of a handler. *)
LEMMA PressKeeps ==
    ASSUME IInv, Press, stage' \in StageType, script' \in Seq(Ops), NextCites'
    PROVE  IInv'
<1>1. Contiguous' /\ Places'
  BY SettledKeeps DEF Press, Settled, IInv
<1>2. edits' \in 0..MaxEdits
  BY PreviewAssumption DEF Press, IInv, Shaped
<1>3. Shaped'
  BY <1>2 DEF Press, IInv, Shaped, pool, history
<1> QED
  BY <1>1, <1>3 DEF IInv

(* The script it starts cites no message. *)
LEMMA PressUncited ==
    ASSUME IInv, Press, stage' \in StageType, script' \in Seq(Uncited)
    PROVE  IInv'
BY PressKeeps, UncitedScript

LEMMA OpShapes ==
    /\ \A ids \in SUBSET Items : Exclude(ids) \in Uncited /\ Restore(ids) \in Uncited
    /\ \A ids \in SUBSET Nat : Join(ids) \in Uncited
    /\ \A w \in Windows : SetWindow(w) \in Uncited
    /\ Rebuild \in Uncited /\ ClearStage \in Uncited
BY DEF Exclude, Restore, Join, SetWindow, Rebuild, ClearStage, Uncited, ItemOps, JoinOps,
       WindowOps, PlainOps

LEMMA ShownShapes ==
    ASSUME Shaped
    PROVE  Shown \subseteq Items
<1>1. [start |-> NoDay, end |-> NoDay] \in Windows
  BY DEF Windows
<1>2. {Citation(i) : i \in DOMAIN ledger} \subseteq Items
  BY ItemShapes
<1>3. DefaultItems([start |-> NoDay, end |-> NoDay]) \subseteq Items
  BY <1>1, ItemShapes
<1> QED
  BY <1>2, <1>3 DEF Shown, Shaped

LEMMA AtOnceKeeps ==
    ASSUME IInv, \/ \E item \in Shown : ExcludeItem(item) \/ RestoreItem(item)
                 \/ \E i \in DOMAIN ledger : SelectHistory(i)
    PROVE  IInv'
<1>1. stage' \in StageType /\ Press
  BY DEF IInv, Shaped, ExcludeItem, RestoreItem, SelectHistory
<1>2. CASE \E item \in Shown : ExcludeItem(item) \/ RestoreItem(item)
  <2>1. PICK item \in Items : ExcludeItem(item) \/ RestoreItem(item)
    BY <1>2, ShownShapes DEF IInv
  <2>2. {item} \in SUBSET Items
    OBVIOUS
  <2>3. script' \in Seq(Uncited)
    BY <2>1, <2>2, OpShapes, OneOp DEF ExcludeItem, RestoreItem, Run
  <2> QED
    BY <1>1, <2>3, PressUncited
<1>3. CASE \E i \in DOMAIN ledger : SelectHistory(i)
  <2>1. PICK i \in Nat : SelectHistory(i)
    BY <1>3, ItemShapes DEF IInv
  <2>2. {i} \in SUBSET Nat
    OBVIOUS
  <2>3. script' \in Seq(Uncited)
    BY <2>1, <2>2, OpShapes, OneOp DEF SelectHistory, Run
  <2> QED
    BY <1>1, <2>3, PressUncited
<1> QED
  BY <1>2, <1>3

LEMMA TickKeeps ==
    ASSUME IInv, \/ \E item \in Shown : Tick("exclude", item) \/ Tick("restore", item)
                 \/ \E i \in DOMAIN ledger : Tick("join", i)
                 \/ OpenOrLeaveEdit
    PROVE  IInv'
<1>1. Press /\ script' = <<>>
  BY DEF Tick, OpenOrLeaveEdit, Press, Idle
<1>2. stage' \in StageType
  <2>1. stage \in StageType
    BY DEF IInv, Shaped
  <2>2. ASSUME NEW item \in Items, Tick("exclude", item) \/ Tick("restore", item)
        PROVE  stage' \in StageType
    <3>1. Flip(stage.exclude, item) \subseteq Items /\ Flip(stage.restore, item) \subseteq Items
      BY <2>1, <2>2 DEF StageType, Flip
    <3> QED
      BY <2>1, <2>2, <3>1 DEF Tick, StageType
  <2>3. ASSUME NEW i \in Nat, Tick("join", i)
        PROVE  stage' \in StageType
    <3>1. Flip(stage.join, i) \subseteq Nat
      BY <2>1, <2>3 DEF StageType, Flip
    <3> QED
      BY <2>1, <2>3, <3>1 DEF Tick, StageType
  <2>4. OpenOrLeaveEdit => stage' \in StageType
    BY DEF OpenOrLeaveEdit, NoStage, StageType
  <2>5. Shown \subseteq Items /\ \A i \in DOMAIN ledger : i \in Nat
    BY ShownShapes, ItemShapes DEF IInv
  <2> QED
    BY <2>2, <2>3, <2>4, <2>5
<1> QED
  BY <1>1, <1>2, PressUncited

LEMMA ConfirmKeeps ==
    ASSUME IInv, ConfirmEdit
    PROVE  IInv'
<1>1. stage' = stage /\ stage \in StageType /\ Press
  BY DEF ConfirmEdit, IInv, Shaped
<1>2. /\ stage.exclude \in SUBSET Items /\ stage.restore \in SUBSET Items
      /\ stage.join \in SUBSET Nat
  BY <1>1 DEF StageType
<1>3. ASSUME NEW ids, NEW o \in Uncited PROVE WhenTicked(ids, o) \in Seq(Uncited)
  BY OneOp DEF WhenTicked
<1>4. /\ WhenTicked(stage.exclude, Exclude(stage.exclude)) \in Seq(Uncited)
      /\ WhenTicked(stage.restore, Restore(stage.restore)) \in Seq(Uncited)
      /\ WhenTicked(stage.join, Join(stage.join)) \in Seq(Uncited)
      /\ <<ClearStage>> \in Seq(Uncited)
  BY <1>2, <1>3, OpShapes, OneOp
<1>5. ApplyStage(stage) \in Seq(Uncited)
  BY <1>4, ConcatProperties DEF ApplyStage
<1> QED
  BY <1>1, <1>5, PressUncited DEF ConfirmEdit, Run

LEMMA PairOfOps ==
    ASSUME NEW S, NEW a \in S, NEW b \in S
    PROVE  /\ <<a, b>> \in Seq(S) /\ Len(<<a, b>>) = 2
           /\ <<a, b>>[1] = a /\ <<a, b>>[2] = b
OBVIOUS

LEMMA WindowKeeps ==
    ASSUME IInv, \/ \E bound \in {"start", "end"}, day \in PickedDays : SetDateBound(bound, day)
                 \/ ClearDateWindow \/ ConfirmDateWindow
    PROVE  IInv'
<1>1. stage' \in StageType /\ Press
  BY DEF IInv, Shaped, SetDateBound, ClearDateWindow, ConfirmDateWindow
<1>2. \/ script' = <<Rebuild>>
      \/ \E w \in Windows : script' = <<SetWindow(w), Rebuild>>
  <2>1. ASSUME NEW bound \in {"start", "end"}, NEW day \in PickedDays
        PROVE  [window EXCEPT ![bound] = day] \in Windows
    BY DEF IInv, Shaped, Windows
  <2>2. [start |-> NoDay, end |-> NoDay] \in Windows
    BY DEF Windows
  <2> QED
    BY <2>1, <2>2 DEF SetDateBound, ClearDateWindow, ConfirmDateWindow, Run
<1>3. script' \in Seq(Uncited)
  BY <1>2, OpShapes, OneOp, PairOfOps
<1> QED
  BY <1>1, <1>3, PressUncited

(* A group message is cited only when no place on the ledger holds it. *)
LEMMA PickKeeps ==
    ASSUME IInv, NEW m \in Messages, SelectGroupMessage(m)
    PROVE  IInv'
<1>1. stage' \in StageType /\ Press
  BY DEF IInv, Shaped, SelectGroupMessage
<1> DEFINE e == [source |-> "message", of |-> m, day |-> MessageDay[m]]
<1>2. CASE CitationsOf(m) # {}
  <2>1. PICK i \in CitationsOf(m) : TRUE
    BY <1>2
  <2>2. i \in Nat /\ \A u \in CitationsOf(m) : u = i
    <3>1. DOMAIN ledger = 1..Len(ledger) /\ Len(ledger) \in Nat
      BY DEF IInv, Shaped
    <3>2. \A u \in CitationsOf(m) :
             u \in 1..Len(ledger) /\ ledger[u].source = "message" /\ ledger[u].of = m
      BY <3>1 DEF CitationsOf
    <3>3. i \in Nat
      BY <3>1, <3>2
    <3>4. ASSUME NEW u \in CitationsOf(m) PROVE u = i
      <4>1. /\ u \in 1..Len(ledger) /\ ledger[u].source = "message" /\ ledger[u].of = m
            /\ i \in 1..Len(ledger) /\ ledger[i].source = "message" /\ ledger[i].of = m
        BY <3>2
      <4>2. \A k, j \in 1..Len(ledger) :
               /\ ledger[k].source = "message" /\ ledger[j].source = "message"
               /\ ledger[k].of = ledger[j].of
               => k = j
        BY DEF IInv, Places
      <4> QED
        BY <4>1, <4>2
    <3> QED
      BY <3>3, <3>4
  <2>3. Oldest(CitationsOf(m)) \in CitationsOf(m)
    <3>1. \A u \in CitationsOf(m) : i <= u
      BY <2>2
    <3> QED
      BY <2>1, <3>1 DEF Oldest
  <2>4. {Oldest(CitationsOf(m))} \in SUBSET Nat
    BY <2>2, <2>3
  <2>5. script' = <<Join({Oldest(CitationsOf(m))})>>
    BY <1>2 DEF SelectGroupMessage, Run
  <2>6. script' \in Seq(Uncited)
    BY <2>4, <2>5, OpShapes, OneOp
  <2> QED
    BY <1>1, <2>6, PressUncited
<1>3. CASE CitationsOf(m) = {}
  <2>1. e \in Entries /\ Citable(e)
    BY <1>3, PreviewAssumption DEF Entries, Citable, CitationsOf
  <2>2. Cite(e) \in Ops /\ Join({Len(ledger) + 1}) \in Ops /\ Join({Len(ledger) + 1}).op = "join"
    <3>1. {Len(ledger) + 1} \in SUBSET Nat
      BY DEF IInv, Shaped
    <3> QED
      BY <2>1, <3>1, OpShapes DEF Ops, CiteOps, Cite, Join
  <2>3. script' = <<Cite(e), Join({Len(ledger) + 1})>>
    BY <1>3 DEF SelectGroupMessage, Run
  <2>4. script' \in Seq(Ops)
    BY <2>2, <2>3, PairOfOps
  <2>5. NextCites'
    <3>1. ledger' = ledger
      BY <1>1 DEF Press
    <3>2. \A k \in 1..Len(script') : k \in {1, 2}
      BY <2>2, <2>3, PairOfOps
    <3>3. script'[1].entry = e /\ script'[2].op = "join"
      BY <2>2, <2>3, PairOfOps DEF Cite
    <3>4. Citable(e)'
      BY <2>1, <3>1 DEF Citable
    <3> QED
      BY <3>2, <3>3, <3>4 DEF NextCites
  <2> QED
    BY <1>1, <2>4, <2>5, PressKeeps
<1> QED
  BY <1>2, <1>3

-----------------------------------------------------------------------------
(* The theorems *)

LEMMA Initially ==
    ASSUME Init
    PROVE  IInv
<1>1. Shaped
  <2>1. window \in Windows
    BY DEF Init, Windows
  <2>2. stage \in StageType
    BY DEF Init, NoStage, StageType
  <2>3. recent \in Seq(1..MaxTurns) /\ ledger \in Seq(Entries) /\ script \in Seq(Ops)
    BY EmptySeq DEF Init
  <2>4. turns = 0 /\ flight = 0 /\ edits = 0 /\ crashes = 0
    BY DEF Init
  <2>5. /\ turns \in Nat /\ flight \in Nat /\ turns + flight <= MaxTurns
        /\ edits \in 0..MaxEdits /\ crashes \in 0..MaxCrashes
    BY <2>4, PreviewAssumption
  <2>6. /\ cycle \subseteq 1..MaxTurns /\ pending \subseteq Items /\ removed \subseteq Items
        /\ asked \in BOOLEAN /\ rebuilt \in BOOLEAN
    BY DEF Init
  <2> QED
    BY <2>1, <2>2, <2>3, <2>5, <2>6 DEF Shaped
<1>2. Contiguous /\ Places /\ NextCites
  BY PreviewAssumption DEF Init, Contiguous, Places, NextCites
<1> QED
  BY <1>1, <1>2 DEF IInv

LEMMA EachStep ==
    ASSUME IInv, [Next]_vars
    PROVE  IInv'
<1>1. CASE UNCHANGED vars
  <2>1. Contiguous' /\ Places'
    BY <1>1, SettledKeeps DEF vars, pool, Settled, IInv
  <2> QED
    BY <1>1, <2>1 DEF vars, pool, history, budget, IInv, Shaped, NextCites, Citable
<1>2. CASE Buttons
  BY <1>2, AtOnceKeeps, TickKeeps, ConfirmKeeps, WindowKeeps, PickKeeps DEF Buttons
<1> QED
  BY <1>1, <1>2, SaveKeeps, RecordingKeeps, AskKeeps DEF Next

LEMMA Invariance == Spec => []IInv
BY Initially, EachStep, PTL DEF Spec

(* A set of numbers without two different members has one member or none. *)
LEMMA AtMostOne ==
    ASSUME NEW S, \A i, j \in S : i = j
    PROVE  Cardinality(S) <= 1
<1>1. CASE S = {}
  BY <1>1, FS_EmptySet
<1>2. CASE S # {}
  <2>1. PICK x \in S : S = {x}
    BY <1>2
  <2> QED
    BY <2>1, FS_Singleton
<1> QED
  BY <1>1, <1>2

(* Every variable keeps its type and its bound. *)
THEOREM Typed == Spec => []TypeOK
<1>1. IInv => TypeOK
  <2> SUFFICES ASSUME IInv PROVE TypeOK
    OBVIOUS
  <2>1. turns \in 0..MaxTurns /\ flight \in 0..MaxTurns
    BY PreviewAssumption DEF IInv, Shaped
  <2>2. \A i \in DOMAIN ledger :
          \/ ledger[i].source = "turn" /\ ledger[i].of \in 1..MaxTurns
          \/ ledger[i].source = "message" /\ ledger[i].of \in Messages
    <3> TAKE i \in DOMAIN ledger
    <3>1. i \in 1..Len(ledger) /\ ledger[i] \in Entries
      BY DEF IInv, Shaped
    <3>2. ledger[i].source \in {"turn", "message"}
      BY <3>1 DEF Entries
    <3>3. ledger[i].source = "turn" => ledger[i].of \in 1..turns
      BY <3>1 DEF IInv, Places
    <3>4. ledger[i].source = "message" => ledger[i].of \in Messages
      BY <3>1 DEF IInv, Places
    <3>5. turns \in Nat /\ turns <= MaxTurns /\ MaxTurns \in Nat
      BY <2>1, PreviewAssumption
    <3>6. 1..turns \subseteq 1..MaxTurns
      BY <3>5
    <3>7. CASE ledger[i].source = "turn"
      BY <3>3, <3>6, <3>7
    <3>8. CASE ledger[i].source = "message"
      BY <3>4, <3>8
    <3> QED
      BY <3>2, <3>7, <3>8
  <2> QED
    BY <2>1, <2>2 DEF IInv, Shaped, TypeOK, StageType
<1> QED
  BY <1>1, Invariance, PTL

(* The pool has no hole: the recent turns are the newest, the last compression
   lies right before them, and both keep their limits, whatever the limits are
   (record_turn and compress_overflow_into_summary). *)
THEOREM PoolHasNoHole == Spec => []PoolIsContiguous
<1>1. IInv => PoolIsContiguous
  <2> SUFFICES ASSUME IInv PROVE PoolIsContiguous
    OBVIOUS
  <2>0. /\ turns \in Nat /\ Len(recent) \in Nat /\ CompressEnd \in Nat /\ CompressEnd >= 1
        /\ DOMAIN recent = 1..Len(recent)
    BY PreviewAssumption DEF IInv, Shaped
  <2>1. Cardinality(cycle) <= CompressEnd
    <3>1. CASE turns = Len(recent)
      BY <2>0, <3>1, FS_EmptySet DEF IInv, Contiguous
    <3>2. CASE turns > Len(recent)
      <4>1. PICK first \in 1..turns : /\ cycle = first..(turns - Len(recent))
                     /\ turns - Len(recent) - first < CompressEnd
                     /\ first <= turns - Len(recent)
        BY <3>2 DEF IInv, Contiguous
      <4>2. Cardinality(cycle) = turns - Len(recent) - first + 1
        BY <2>0, <4>1, FS_Interval
      <4> QED
        BY <2>0, <4>1, <4>2
    <3>3. Len(recent) <= turns /\ turns \in Nat /\ Len(recent) \in Nat
      BY <2>0 DEF IInv, Contiguous
    <3>4. turns = Len(recent) \/ turns > Len(recent)
      BY <3>3
    <3> QED
      BY <3>1, <3>2, <3>4
  <2> QED
    BY <2>0, <2>1 DEF IInv, Contiguous, PoolIsContiguous
<1> QED
  BY <1>1, Invariance, PTL

(* Each recorded turn has exactly one citation, whatever was compressed since
   (record_turn writes it before the compression). *)
THEOREM NoTurnIsForgotten == Spec => []EveryTurnIsCited
<1>1. IInv => EveryTurnIsCited
  <2> SUFFICES ASSUME IInv, NEW t \in 1..turns
               PROVE  Cardinality({i \in DOMAIN ledger : ledger[i] = TurnCitation(t)}) = 1
    BY DEF EveryTurnIsCited
  <2>1. PICK i \in 1..Len(ledger) : \A j \in 1..Len(ledger) :
           ledger[j] = TurnCitation(t) <=> j = i
    BY DEF IInv, Places
  <2>2. DOMAIN ledger = 1..Len(ledger)
    BY DEF IInv, Shaped
  <2>3. {j \in DOMAIN ledger : ledger[j] = TurnCitation(t)} = {i}
    BY <2>1, <2>2
  <2> QED
    BY <2>3, FS_Singleton
<1> QED
  BY <1>1, Invariance, PTL

(* A group message is cited at most once, also when the process dies between
   the citation and the choice of it. *)
THEOREM NoMessageTwice == Spec => []OneCitationPerMessage
<1>1. IInv => OneCitationPerMessage
  <2> SUFFICES ASSUME IInv, NEW m \in Messages
               PROVE  Cardinality(CitationsOf(m)) <= 1
    BY DEF OneCitationPerMessage
  <2>1. \A i, j \in CitationsOf(m) : i = j
    BY DEF IInv, Shaped, Places, CitationsOf
  <2> QED
    BY <2>1, AtMostOne
<1> QED
  BY <1>1, Invariance, PTL

-----------------------------------------------------------------------------
(* What the saves do to the preview *)

(* Until a date window rebuilds it, the set holds nothing that was taken off. *)
OutStaysOut == rebuilt \/ pending \cap removed = {}

Windowed == \A item \in pending : item.kind # "citation" => InDateWindow(item.at, window)

(* A new window is the first save of a handler that rebuilds the set next, and
   only in between does the set lie outside the window. *)
WindowThenRebuild ==
  \A k \in 1..Len(script) : script[k].op = "window" => k = 1 /\ Tail(script) = <<Rebuild>>

WindowInv == WindowThenRebuild /\ (crashes = 0 => Windowed \/ script = <<Rebuild>>)

(* What is left of a confirmation after the removals, and after the rows that
   come back. *)
ToJoin(s) == WhenTicked(s.join, Join(s.join)) \o <<ClearStage>>
ToRestore(s) == WhenTicked(s.restore, Restore(s.restore)) \o ToJoin(s)

Joined == {Citation(i) : i \in stage.join \cap DOMAIN ledger}
Known == DefaultItems(window) \cup {Citation(i) : i \in DOMAIN ledger}

TakenOff == stage.exclude \cap pending \subseteq Joined \cup stage.restore
BroughtBack == stage.restore \cap Known \subseteq pending

(* How far the running confirmation has got, and what it did so far. *)
TickInv ==
  \/ \A k \in 1..Len(script) : script[k].op # "clear"
  \/ script = ApplyStage(stage)
  \/ script = ToRestore(stage) /\ TakenOff
  \/ script = ToJoin(stage) /\ TakenOff /\ BroughtBack
  \/ script = <<ClearStage>> /\ TakenOff /\ BroughtBack /\ Joined \subseteq pending

PreviewInv == OutStaysOut /\ WindowInv /\ TickInv

(* A step is a save, a question, a crash, or finds no saves to make and leaves
   the set and the window alone. *)
LEMMA StepKinds ==
    ASSUME [Next]_vars
    PROVE  \/ Save
           \/ Ask
           \/ Crash
           \/ /\ UNCHANGED <<pending, window, removed, rebuilt, crashes>>
              /\ script' = script \/ (script = <<>> /\ Buttons)
              /\ UNCHANGED <<pool, ledger, stage>> \/ script' = <<>> \/ Buttons
<1>1. CASE UNCHANGED vars
  BY <1>1 DEF vars, pool
<1>2. CASE AskSyncStatus \/ DirectAnswer \/ AnswerBack
  BY <1>2 DEF AskSyncStatus, DirectAnswer, AnswerBack, Idle, history, budget
<1>3. CASE Buttons
  <2>1. Press
    BY <1>3 DEF Buttons, ExcludeItem, RestoreItem, Tick, SelectHistory, SelectGroupMessage,
                OpenOrLeaveEdit, ConfirmEdit, SetDateBound, ClearDateWindow, ConfirmDateWindow
  <2> QED
    BY <1>3, <2>1 DEF Press, Idle, history
<1> QED
  BY <1>1, <1>2, <1>3 DEF Next

LEMMA OutKeeps ==
    ASSUME OutStaysOut, [Next]_vars
    PROVE  OutStaysOut'
<1>1. CASE DoExclude
  BY <1>1 DEF DoExclude, OutStaysOut
<1>2. CASE DoRestore
  <2> DEFINE back == Now.ids \cap (DefaultItems(window) \cup {Citation(i) : i \in DOMAIN ledger})
  <2>1. pending' = pending \cup back /\ removed' = removed \ Now.ids /\ rebuilt' = rebuilt
    BY <1>2 DEF DoRestore
  <2>2. back \subseteq Now.ids
    OBVIOUS
  <2> HIDE DEF back
  <2> QED
    BY <2>1, <2>2 DEF OutStaysOut
<1>3. CASE DoJoin
  <2> DEFINE back == {Citation(i) : i \in Now.ids \cap DOMAIN ledger}
  <2>1. pending' = pending \cup back /\ removed' = removed \ back /\ rebuilt' = rebuilt
    BY <1>3 DEF DoJoin
  <2> HIDE DEF back
  <2> QED
    BY <2>1 DEF OutStaysOut
<1>4. CASE DoRebuild
  BY <1>4 DEF DoRebuild, OutStaysOut
<1>5. CASE DoCite \/ DoWindow \/ DoClear
  BY <1>5 DEF DoCite, DoWindow, DoClear, history, OutStaysOut
<1>6. CASE Ask
  BY <1>6 DEF Ask, OutStaysOut
<1>7. CASE Crash
  BY <1>7 DEF Crash, history, OutStaysOut
<1>8. CASE UNCHANGED <<pending, removed, rebuilt>>
  BY <1>8 DEF OutStaysOut
<1> QED
  BY <1>1, <1>2, <1>3, <1>4, <1>5, <1>6, <1>7, <1>8, StepKinds DEF Save

-----------------------------------------------------------------------------
(* The scripts that buttons start *)

LEMMA OneOpScript ==
    ASSUME NEW o
    PROVE  Len(<<o>>) = 1 /\ <<o>>[1] = o /\ Head(<<o>>) = o /\ Tail(<<o>>) = <<>> /\ <<o>> # <<>>
OBVIOUS

LEMMA TwoOpScript ==
    ASSUME NEW a, NEW b
    PROVE  /\ Len(<<a, b>>) = 2 /\ <<a, b>>[1] = a /\ <<a, b>>[2] = b
           /\ Head(<<a, b>>) = a /\ Tail(<<a, b>>) = <<b>>
OBVIOUS

LEMMA Ticked ==
    ASSUME NEW S, NEW ids, NEW o \in S
    PROVE  WhenTicked(ids, o) \in Seq(S)
BY OneOp DEF WhenTicked

LEMMA Regroup ==
    ASSUME NEW S, NEW e \in Seq(S), NEW r \in Seq(S), NEW j \in Seq(S), NEW c \in Seq(S)
    PROVE  /\ j \o c \in Seq(S) /\ r \o (j \o c) \in Seq(S) /\ e \o (r \o (j \o c)) \in Seq(S)
           /\ ((e \o r) \o j) \o c = e \o (r \o (j \o c))
OBVIOUS

(* A confirmation removes, brings back, joins and clears, in this order. *)
LEMMA ConfirmInOrder ==
    ASSUME NEW s
    PROVE  LET T == Seq({Exclude(s.exclude), Restore(s.restore), Join(s.join), ClearStage}) IN
           /\ ApplyStage(s) \in T /\ ToRestore(s) \in T /\ ToJoin(s) \in T
           /\ ApplyStage(s) = IF s.exclude = {} THEN ToRestore(s)
                              ELSE <<Exclude(s.exclude)>> \o ToRestore(s)
           /\ ToRestore(s) = IF s.restore = {} THEN ToJoin(s)
                             ELSE <<Restore(s.restore)>> \o ToJoin(s)
           /\ ToJoin(s) = IF s.join = {} THEN <<ClearStage>>
                          ELSE <<Join(s.join)>> \o <<ClearStage>>
<1> DEFINE O == {Exclude(s.exclude), Restore(s.restore), Join(s.join), ClearStage}
           e == WhenTicked(s.exclude, Exclude(s.exclude))
           r == WhenTicked(s.restore, Restore(s.restore))
           j == WhenTicked(s.join, Join(s.join))
           c == <<ClearStage>>
<1>1. Exclude(s.exclude) \in O /\ Restore(s.restore) \in O /\ Join(s.join) \in O /\ ClearStage \in O
  OBVIOUS
<1>2. /\ ApplyStage(s) = ((e \o r) \o j) \o c
      /\ ToRestore(s) = r \o (j \o c) /\ ToJoin(s) = j \o c
  BY DEF ApplyStage, ToRestore, ToJoin
<1> HIDE DEF O
<1>3. e \in Seq(O) /\ r \in Seq(O) /\ j \in Seq(O) /\ c \in Seq(O)
  BY <1>1, Ticked, OneOp
<1>4. /\ e = IF s.exclude = {} THEN <<>> ELSE <<Exclude(s.exclude)>>
      /\ r = IF s.restore = {} THEN <<>> ELSE <<Restore(s.restore)>>
      /\ j = IF s.join = {} THEN <<>> ELSE <<Join(s.join)>>
  BY DEF WhenTicked
<1> HIDE DEF e, r, j, c
<1>5. /\ j \o c \in Seq(O) /\ r \o (j \o c) \in Seq(O) /\ e \o (r \o (j \o c)) \in Seq(O)
      /\ ((e \o r) \o j) \o c = e \o (r \o (j \o c))
  BY <1>3
<1>6. ApplyStage(s) = e \o ToRestore(s) /\ ToRestore(s) = r \o ToJoin(s)
  BY <1>2, <1>5
<1>7. ToRestore(s) \in Seq(O) /\ ToJoin(s) \in Seq(O) /\ ApplyStage(s) \in Seq(O)
  BY <1>2, <1>5
<1>8. \A t \in Seq(O) : <<>> \o t = t
  BY ConcatEmptySeq
<1> QED
  BY <1>2, <1>3, <1>4, <1>6, <1>7, <1>8 DEF O, c

(* The first save of a confirmation, and what is left after it. *)
LEMMA FirstSave ==
    ASSUME NEW S, NEW o \in S, NEW t \in Seq(S)
    PROVE  Head(<<o>> \o t) = o /\ Tail(<<o>> \o t) = t
<1>1. <<o>> \in Seq(S) /\ Len(<<o>>) = 1 /\ <<o>>[1] = o
  BY OneOp
<1> DEFINE u == <<o>> \o t
<1>2. /\ u \in Seq(S) /\ Len(u) = Len(t) + 1 /\ Len(t) \in Nat /\ u[1] = o
      /\ \A i \in 1..Len(t) : u[i + 1] = t[i]
  BY <1>1, ConcatProperties
<1> HIDE DEF u
<1>3. /\ Tail(u) \in Seq(S) /\ Len(Tail(u)) = Len(t) /\ Head(u) = o
      /\ \A i \in 1..Len(t) : Tail(u)[i] = t[i]
  BY <1>2, HeadTailProperties
<1>4. Tail(u) = t
  BY <1>3, SeqEqual
<1> QED
  BY <1>3, <1>4 DEF u

LEMMA ButtonScripts ==
    ASSUME Buttons
    PROVE  /\ script = <<>>
           /\ \/ script' = <<>>
              \/ \E o : o.op \notin {"clear", "window"} /\ script' = <<o>>
              \/ \E e, k : script' = <<Cite(e), Join(k)>>
              \/ \E w : script' = <<SetWindow(w), Rebuild>>
              \/ script' = ApplyStage(stage) /\ stage' = stage
<1>1. /\ \A x : Exclude(x).op = "exclude" /\ Restore(x).op = "restore" /\ Join(x).op = "join"
      /\ Rebuild.op = "rebuild"
  BY DEF Exclude, Restore, Join, Rebuild
<1>2. Press
  BY DEF Buttons, ExcludeItem, RestoreItem, Tick, SelectHistory, SelectGroupMessage,
         OpenOrLeaveEdit, ConfirmEdit, SetDateBound, ClearDateWindow, ConfirmDateWindow
<1>3. script = <<>>
  BY <1>2 DEF Press, Idle
<1>4. CASE \E item \in Shown : ExcludeItem(item) \/ RestoreItem(item)
  BY <1>1, <1>3, <1>4 DEF ExcludeItem, RestoreItem, Run
<1>5. CASE \/ \E item \in Shown : Tick("exclude", item) \/ Tick("restore", item)
           \/ \E i \in DOMAIN ledger : Tick("join", i)
           \/ OpenOrLeaveEdit
  BY <1>3, <1>5 DEF Tick, OpenOrLeaveEdit
<1>6. CASE \E i \in DOMAIN ledger : SelectHistory(i)
  BY <1>1, <1>3, <1>6 DEF SelectHistory, Run
<1>7. CASE \E m \in Messages : SelectGroupMessage(m)
  BY <1>1, <1>3, <1>7 DEF SelectGroupMessage, Run
<1>8. CASE ConfirmEdit
  BY <1>3, <1>8 DEF ConfirmEdit, Run
<1>9. CASE \/ \E bound \in {"start", "end"}, day \in PickedDays : SetDateBound(bound, day)
           \/ ClearDateWindow \/ ConfirmDateWindow
  BY <1>1, <1>3, <1>9 DEF SetDateBound, ClearDateWindow, ConfirmDateWindow, Run
<1> QED
  BY <1>4, <1>5, <1>6, <1>7, <1>8, <1>9 DEF Buttons

(* The saves that are left after the first. *)
LEMMA TailSaves ==
    ASSUME Shaped, script # <<>>
    PROVE  /\ Len(Tail(script)) = Len(script) - 1 /\ Len(script) \in Nat \ {0}
           /\ \A k \in 1..Len(Tail(script)) : Tail(script)[k] = script[k + 1]
           /\ Head(script) = script[1] /\ 1 \in 1..Len(script)
<1>1. script \in Seq(Ops)
  BY DEF Shaped
<1> QED
  BY <1>1, HeadTailProperties

LEMMA Saving ==
    ASSUME Save
    PROVE  /\ script # <<>> /\ script' = Tail(script)
           /\ UNCHANGED <<turns, recent, cycle, crashes>>
BY DEF Save, DoExclude, DoRestore, DoJoin, DoCite, DoWindow, DoRebuild, DoClear, Doing, pool, budget

-----------------------------------------------------------------------------
(* The date window *)

LEMMA PoolInWindow ==
    ASSUME NEW w
    PROVE  /\ \A item \in DefaultItems(w) : InDateWindow(item.at, w)
           /\ \A cited : \A item \in PendingItems(w, cited) :
                item.kind # "citation" => InDateWindow(item.at, w)
<1>1. \A t : Summary(t).at = t /\ Turn(t).at = t /\ Citation(t).kind = "citation"
  BY DEF Summary, Turn, Citation
<1>2. \A item \in DefaultItems(w) : InDateWindow(item.at, w)
  BY <1>1 DEF DefaultItems
<1> QED
  BY <1>1, <1>2 DEF PendingItems

LEMMA WindowFirst ==
    ASSUME IInv, WindowThenRebuild, [Next]_vars
    PROVE  WindowThenRebuild'
<1>1. CASE script' = <<>>
  BY <1>1 DEF WindowThenRebuild
<1>2. CASE script' = script
  BY <1>2 DEF WindowThenRebuild
<1>3. CASE Save
  <2>1. \A k \in 1..Len(script') :
           script'[k] = script[k + 1] /\ k + 1 \in 1..Len(script) /\ k \in Nat \ {0}
    BY <1>3, Saving, TailSaves DEF IInv
  <2> QED
    BY <2>1 DEF WindowThenRebuild
<1>4. CASE Buttons
  <2>1. ASSUME NEW o, o.op # "window", script' = <<o>>
        PROVE  WindowThenRebuild'
    BY <2>1, OneOpScript DEF WindowThenRebuild
  <2>2. ASSUME NEW e, NEW k, script' = <<Cite(e), Join(k)>>
        PROVE  WindowThenRebuild'
    <3>1. Cite(e).op = "cite" /\ Join(k).op = "join"
      BY DEF Cite, Join
    <3> QED
      BY <2>2, <3>1, TwoOpScript DEF WindowThenRebuild
  <2>3. ASSUME NEW w, script' = <<SetWindow(w), Rebuild>>
        PROVE  WindowThenRebuild'
    <3>1. Rebuild.op = "rebuild"
      BY DEF Rebuild
    <3>2. Len(script') = 2 /\ script'[2] = Rebuild /\ Tail(script') = <<Rebuild>>
      BY <2>3, TwoOpScript
    <3> QED
      BY <3>1, <3>2 DEF WindowThenRebuild
  <2>4. ASSUME script' = ApplyStage(stage)
        PROVE  WindowThenRebuild'
    <3> DEFINE O == {Exclude(stage.exclude), Restore(stage.restore), Join(stage.join), ClearStage}
    <3>1. \A o \in O : o.op # "window"
      BY DEF Exclude, Restore, Join, ClearStage
    <3>2. script' \in Seq(O)
      BY <2>4, ConfirmInOrder
    <3> HIDE DEF O
    <3>3. \A k \in 1..Len(script') : script'[k] \in O
      BY <3>2
    <3> QED
      BY <3>1, <3>3 DEF WindowThenRebuild
  <2> QED
    BY <1>1, <1>4, <2>1, <2>2, <2>3, <2>4, ButtonScripts
<1>5. CASE Ask \/ Crash
  BY <1>1, <1>2, <1>5 DEF Ask, Crash
<1> QED
  BY <1>2, <1>3, <1>4, <1>5, StepKinds

LEMMA SavesInWindow ==
    ASSUME IInv, WindowInv, Save, crashes = 0
    PROVE  Windowed' \/ script' = <<Rebuild>>
<1>1. /\ script # <<>> /\ script' = Tail(script) /\ crashes = 0 /\ Head(script) = script[1]
      /\ 1 \in 1..Len(script)
  BY Saving, TailSaves DEF IInv
<1>2. Windowed \/ Head(script).op = "rebuild"
  BY <1>1, OneOpScript DEF WindowInv, Rebuild
<1>3. CASE DoRebuild
  <2>1. pending' = PendingItems(window, Cited(pending)) /\ window' = window
    BY <1>3 DEF DoRebuild
  <2> QED
    BY <2>1, PoolInWindow DEF Windowed
<1>4. CASE DoExclude
  BY <1>2, <1>4 DEF DoExclude, Doing, Windowed
<1>5. CASE DoRestore
  <2>1. /\ window' = window
        /\ pending' \subseteq pending \cup DefaultItems(window) \cup {Citation(i) : i \in DOMAIN ledger}
    BY <1>5 DEF DoRestore
  <2>2. Windowed
    BY <1>2, <1>5 DEF DoRestore, Doing
  <2>3. \A item \in DefaultItems(window) : InDateWindow(item.at, window)
    BY PoolInWindow
  <2>4. \A i : Citation(i).kind = "citation"
    BY DEF Citation
  <2> QED
    BY <2>1, <2>2, <2>3, <2>4 DEF Windowed
<1>6. CASE DoJoin
  <2>1. window' = window /\ pending' \subseteq pending \cup {Citation(i) : i \in DOMAIN ledger}
    BY <1>6 DEF DoJoin
  <2>2. Windowed
    BY <1>2, <1>6 DEF DoJoin, Doing
  <2>3. \A i : Citation(i).kind = "citation"
    BY DEF Citation
  <2> QED
    BY <2>1, <2>2, <2>3 DEF Windowed
<1>7. CASE DoWindow
  <2>1. script[1].op = "window"
    BY <1>1, <1>7 DEF DoWindow, Doing
  <2> QED
    BY <1>1, <2>1 DEF WindowInv, WindowThenRebuild
<1>8. CASE DoCite \/ DoClear
  BY <1>2, <1>8 DEF DoCite, DoClear, Doing, Windowed
<1> QED
  BY <1>3, <1>4, <1>5, <1>6, <1>7, <1>8 DEF Save

LEMMA WindowSettles ==
    ASSUME IInv, WindowInv, [Next]_vars
    PROVE  WindowInv'
<1>1. WindowThenRebuild'
  BY WindowFirst DEF WindowInv
<1>2. ASSUME crashes' = 0
      PROVE  Windowed' \/ script' = <<Rebuild>>
  <2>1. CASE Save
    <3>1. crashes = 0
      BY <1>2, <2>1, Saving
    <3> QED
      BY <2>1, <3>1, SavesInWindow
  <2>2. CASE Ask
    <3>1. pending' = PendingItems(window, Cited(pending)) /\ window' = window
      BY <2>2 DEF Ask
    <3> QED
      BY <3>1, PoolInWindow DEF Windowed
  <2>3. CASE Crash
    <3>1. crashes \in Nat /\ crashes' = crashes + 1
      BY <2>3, PreviewAssumption DEF Crash, IInv, Shaped
    <3> QED
      BY <1>2, <3>1
  <2>4. CASE /\ UNCHANGED <<pending, window, crashes>>
             /\ script' = script \/ script = <<>>
    <3>1. Windowed \/ script = <<Rebuild>>
      BY <1>2, <2>4 DEF WindowInv
    <3>2. <<Rebuild>> # <<>>
      BY OneOpScript
    <3> QED
      BY <2>4, <3>1, <3>2 DEF Windowed
  <2> QED
    BY <2>1, <2>2, <2>3, <2>4, StepKinds
<1> QED
  BY <1>1, <1>2 DEF WindowInv

-----------------------------------------------------------------------------
(* The confirmation of the edit card *)

NoClear == \A k \in 1..Len(script) : script[k].op # "clear"

LEMMA SameRows ==
    ASSUME UNCHANGED <<turns, recent, cycle, ledger, window, stage>>
    PROVE  Joined' = Joined /\ Known' = Known
BY DEF Joined, Known, DefaultItems, Turns

(* The next save of a confirmation is the one its script names. *)
LEMMA OnlyThat ==
    ASSUME Save
    PROVE  /\ Head(script).op = "exclude" => DoExclude
           /\ Head(script).op = "restore" => DoRestore
           /\ Head(script).op = "join" => DoJoin
           /\ Head(script).op = "clear" => DoClear
BY DEF Save, DoExclude, DoRestore, DoJoin, DoCite, DoWindow, DoRebuild, DoClear, Doing

LEMMA RemovalsApplied ==
    ASSUME IInv, Save, script = ApplyStage(stage), stage.exclude # {}
    PROVE  script' = ToRestore(stage) /\ stage' = stage /\ TakenOff'
<1> DEFINE O == {Exclude(stage.exclude), Restore(stage.restore), Join(stage.join), ClearStage}
<1>1. script = <<Exclude(stage.exclude)>> \o ToRestore(stage) /\ ToRestore(stage) \in Seq(O)
  BY ConfirmInOrder
<1>2. Exclude(stage.exclude) \in O
  OBVIOUS
<1> HIDE DEF O
<1>3. Head(script) = Exclude(stage.exclude) /\ Tail(script) = ToRestore(stage)
  BY <1>1, <1>2, FirstSave
<1>4. DoExclude
  BY <1>3, OnlyThat DEF Exclude
<1>5. pending' = pending \ stage.exclude /\ UNCHANGED stage
  BY <1>3, <1>4 DEF DoExclude, Now, Exclude
<1>6. stage'.exclude \cap pending' = {}
  BY <1>5
<1> QED
  BY <1>3, <1>5, <1>6, Saving DEF TakenOff

LEMMA RowsBroughtBack ==
    ASSUME IInv, Save, script = ToRestore(stage), TakenOff, stage.restore # {}
    PROVE  script' = ToJoin(stage) /\ stage' = stage /\ TakenOff' /\ BroughtBack'
<1> DEFINE O == {Exclude(stage.exclude), Restore(stage.restore), Join(stage.join), ClearStage}
<1>1. script = <<Restore(stage.restore)>> \o ToJoin(stage) /\ ToJoin(stage) \in Seq(O)
  BY ConfirmInOrder
<1>2. Restore(stage.restore) \in O
  OBVIOUS
<1> HIDE DEF O
<1>3. Head(script) = Restore(stage.restore) /\ Tail(script) = ToJoin(stage)
  BY <1>1, <1>2, FirstSave
<1>4. DoRestore
  BY <1>3, OnlyThat DEF Restore
<1>5. pending' = pending \cup (stage.restore \cap Known) /\ UNCHANGED <<stage, window, ledger>>
  BY <1>3, <1>4 DEF DoRestore, Now, Restore, Known
<1>6. Joined' = Joined /\ Known' = Known
  BY <1>4, <1>5, SameRows DEF DoRestore, pool
<1>7. TakenOff' /\ BroughtBack'
  BY <1>5, <1>6 DEF TakenOff, BroughtBack
<1> QED
  BY <1>3, <1>5, <1>7, Saving

LEMMA CitationsJoined ==
    ASSUME IInv, Save, script = ToJoin(stage), TakenOff, BroughtBack, stage.join # {}
    PROVE  /\ script' = <<ClearStage>> /\ stage' = stage
           /\ TakenOff' /\ BroughtBack' /\ Joined' \subseteq pending'
<1> DEFINE O == {Exclude(stage.exclude), Restore(stage.restore), Join(stage.join), ClearStage}
<1>1. script = <<Join(stage.join)>> \o <<ClearStage>>
  BY ConfirmInOrder
<1>2. Join(stage.join) \in O /\ <<ClearStage>> \in Seq(O)
  BY OneOp
<1> HIDE DEF O
<1>3. Head(script) = Join(stage.join) /\ Tail(script) = <<ClearStage>>
  BY <1>1, <1>2, FirstSave
<1>4. DoJoin
  BY <1>3, OnlyThat DEF Join
<1>5. pending' = pending \cup Joined /\ UNCHANGED <<stage, window, ledger>>
  BY <1>3, <1>4 DEF DoJoin, Now, Join, Joined
<1>6. Joined' = Joined /\ Known' = Known
  BY <1>4, <1>5, SameRows DEF DoJoin, pool
<1>7. TakenOff' /\ BroughtBack' /\ Joined' \subseteq pending'
  BY <1>5, <1>6 DEF TakenOff, BroughtBack
<1> QED
  BY <1>3, <1>5, <1>7, Saving

LEMMA StageCleared ==
    ASSUME Save, script = <<ClearStage>>
    PROVE  script' = <<>> /\ UNCHANGED <<pending, turns, recent, cycle, ledger, window>>
<1>1. Head(script).op = "clear" /\ Tail(script) = <<>>
  BY OneOpScript DEF ClearStage
<1>2. DoClear
  BY <1>1, OnlyThat
<1> QED
  BY <1>1, <1>2, Saving DEF DoClear, pool

(* A confirmation with nothing ticked of a kind is one step further. *)
LEMMA TicksSkipped ==
    ASSUME TickInv
    PROVE  \/ NoClear
           \/ script = ApplyStage(stage) /\ stage.exclude # {}
           \/ script = ToRestore(stage) /\ TakenOff /\ stage.restore # {}
           \/ script = ToJoin(stage) /\ TakenOff /\ BroughtBack /\ stage.join # {}
           \/ script = <<ClearStage>> /\ TakenOff /\ BroughtBack /\ Joined \subseteq pending
<1>1. stage.exclude = {} => TakenOff /\ ApplyStage(stage) = ToRestore(stage)
  BY ConfirmInOrder DEF TakenOff
<1>2. stage.restore = {} => BroughtBack /\ ToRestore(stage) = ToJoin(stage)
  BY ConfirmInOrder DEF BroughtBack
<1>3. stage.join = {} => Joined = {} /\ ToJoin(stage) = <<ClearStage>>
  BY ConfirmInOrder DEF Joined
<1> QED
  BY <1>1, <1>2, <1>3 DEF TickInv, NoClear

(* Before any of these saves the script does not start with the last one. *)
LEMMA TicksFirst ==
    ASSUME script = <<ClearStage>>
    PROVE  /\ ~(script = ToRestore(stage) /\ stage.restore # {})
           /\ ~(script = ToJoin(stage) /\ stage.join # {})
           /\ ~(script = ApplyStage(stage) /\ stage.exclude # {})
<1> DEFINE O == {Exclude(stage.exclude), Restore(stage.restore), Join(stage.join), ClearStage}
<1>1. Head(script).op = "clear"
  BY OneOpScript DEF ClearStage
<1>2. /\ Exclude(stage.exclude).op = "exclude" /\ Restore(stage.restore).op = "restore"
      /\ Join(stage.join).op = "join"
  BY DEF Exclude, Restore, Join
<1>3. /\ ToRestore(stage) \in Seq(O) /\ ToJoin(stage) \in Seq(O) /\ <<ClearStage>> \in Seq(O)
      /\ Exclude(stage.exclude) \in O /\ Restore(stage.restore) \in O /\ Join(stage.join) \in O
  BY ConfirmInOrder, OneOp
<1> HIDE DEF O
<1>4. stage.exclude # {} => Head(ApplyStage(stage)) = Exclude(stage.exclude)
  BY <1>3, ConfirmInOrder, FirstSave
<1>5. stage.restore # {} => Head(ToRestore(stage)) = Restore(stage.restore)
  BY <1>3, ConfirmInOrder, FirstSave
<1>6. stage.join # {} => Head(ToJoin(stage)) = Join(stage.join)
  BY <1>3, ConfirmInOrder, FirstSave
<1> QED
  BY <1>1, <1>2, <1>4, <1>5, <1>6

LEMMA TicksAdvance ==
    ASSUME IInv, TickInv, Save
    PROVE  TickInv'
<1>1. CASE NoClear
  <2>1. \A k \in 1..Len(script') : script'[k] = script[k + 1] /\ k + 1 \in 1..Len(script)
    BY Saving, TailSaves DEF IInv
  <2> QED
    BY <1>1, <2>1 DEF NoClear, TickInv
<1>2. CASE script = ApplyStage(stage) /\ stage.exclude # {}
  BY <1>2, RemovalsApplied DEF TickInv
<1>3. CASE script = ToRestore(stage) /\ TakenOff /\ stage.restore # {}
  BY <1>3, RowsBroughtBack DEF TickInv
<1>4. CASE script = ToJoin(stage) /\ TakenOff /\ BroughtBack /\ stage.join # {}
  BY <1>4, CitationsJoined DEF TickInv
<1>5. CASE script = <<ClearStage>>
  BY <1>5, StageCleared DEF TickInv
<1> QED
  BY <1>1, <1>2, <1>3, <1>4, <1>5, TicksSkipped

LEMMA TicksStart ==
    ASSUME IInv, TickInv, Buttons
    PROVE  TickInv'
<1>1. ASSUME NEW o, o.op # "clear", script' = <<o>>
      PROVE  TickInv'
  BY <1>1, OneOpScript DEF TickInv
<1>2. ASSUME NEW e, NEW k, script' = <<Cite(e), Join(k)>>
      PROVE  TickInv'
  <2>1. Cite(e).op = "cite" /\ Join(k).op = "join"
    BY DEF Cite, Join
  <2> QED
    BY <1>2, <2>1, TwoOpScript DEF TickInv
<1>3. ASSUME NEW w, script' = <<SetWindow(w), Rebuild>>
      PROVE  TickInv'
  <2>1. SetWindow(w).op = "window" /\ Rebuild.op = "rebuild"
    BY DEF SetWindow, Rebuild
  <2> QED
    BY <1>3, <2>1, TwoOpScript DEF TickInv
<1>4. script' = <<>> \/ (script' = ApplyStage(stage) /\ stage' = stage) => TickInv'
  BY DEF TickInv
<1> QED
  BY <1>1, <1>2, <1>3, <1>4, ButtonScripts

LEMMA TicksKept ==
    ASSUME IInv, TickInv, [Next]_vars
    PROVE  TickInv'
<1>1. CASE script' = <<>>
  BY <1>1 DEF TickInv
<1>2. CASE UNCHANGED <<pool, ledger, stage, pending, window, script>>
  <2>1. Joined' = Joined /\ Known' = Known
    BY <1>2, SameRows DEF pool
  <2> QED
    BY <1>2, <2>1 DEF TickInv, TakenOff, BroughtBack
<1>3. CASE Ask \/ Crash
  BY <1>1, <1>3 DEF Ask, Crash, Idle
<1> QED
  BY <1>1, <1>2, <1>3, TicksAdvance, TicksStart, StepKinds

-----------------------------------------------------------------------------
(* The theorems about the preview *)

LEMMA PreviewInitially ==
    ASSUME Init
    PROVE  PreviewInv
BY DEF Init, PreviewInv, OutStaysOut, WindowInv, WindowThenRebuild, Windowed, TickInv

LEMMA PreviewInvariance == Spec => [](IInv /\ PreviewInv)
<1>1. Init => IInv /\ PreviewInv
  BY Initially, PreviewInitially
<1>2. IInv /\ PreviewInv /\ [Next]_vars => (IInv /\ PreviewInv)'
  BY EachStep, OutKeeps, WindowSettles, TicksKept DEF PreviewInv
<1> QED
  BY <1>1, <1>2, PTL DEF Spec

(* The default items of the preview lie in the date window whenever no handler
   is between its saves, as long as the process has not died (set_date_window,
   refresh_pending_send, restore_to_pending_send). *)
THEOREM WindowHolds == Spec => []WindowFilters
<1>1. PreviewInv => WindowFilters
  <2>1. <<Rebuild>> # <<>>
    BY OneOpScript
  <2> QED
    BY <2>1 DEF PreviewInv, WindowInv, Windowed, WindowFilters, Idle
<1> QED
  BY <1>1, PreviewInvariance, PTL

(* A confirmation leaves exactly what was ticked, over its four saves, further
   presses and restarts (apply_context_edit_stage). *)
THEOREM TicksTakeEffect == Spec => TicksAreApplied
<1>1. IInv /\ PreviewInv /\ [Next]_vars
        => [(script = <<ClearStage>> /\ stage # NoStage /\ stage' = NoStage) =>
              LET joined == {Citation(i) : i \in stage.join \cap DOMAIN ledger}
                  known == DefaultItems(window) \cup {Citation(i) : i \in DOMAIN ledger}
              IN /\ joined \cup (stage.restore \cap known) \subseteq pending'
                 /\ stage.exclude \cap pending' \subseteq joined \cup stage.restore]_vars
  <2> SUFFICES ASSUME IInv, PreviewInv, [Next]_vars, script = <<ClearStage>>,
                      stage # NoStage, stage' = NoStage
               PROVE  /\ Joined \cup (stage.restore \cap Known) \subseteq pending'
                      /\ stage.exclude \cap pending' \subseteq Joined \cup stage.restore
    BY DEF Joined, Known
  <2>1. script # <<>> /\ Len(script) = 1 /\ script[1].op = "clear"
    BY OneOpScript DEF ClearStage
  <2>2. /\ ~(script = ToRestore(stage) /\ stage.restore # {})
        /\ ~(script = ToJoin(stage) /\ stage.join # {})
        /\ ~(script = ApplyStage(stage) /\ stage.exclude # {})
    BY TicksFirst
  <2>3. TakenOff /\ BroughtBack /\ Joined \subseteq pending
    BY <2>1, <2>2, TicksSkipped DEF PreviewInv, NoClear
  <2>4. Save
    BY <2>1, StepKinds, ButtonScripts DEF Ask, Crash, Idle
  <2>5. pending' = pending
    BY <2>4, StageCleared
  <2> QED
    BY <2>3, <2>5 DEF TakenOff, BroughtBack
<1> QED
  BY <1>1, PreviewInvariance, PTL DEF Spec, TicksAreApplied

(* What was taken off the preview is not sent with this question, unless a date
   window built the set anew (exclude_from_pending_send, and the button that
   answers at once). *)
THEOREM RemovedIsNotSent == Spec => RemovedStaysOut
<1>1. PreviewInv => [flight' = flight + 1 /\ ~rebuilt => pending \cap removed = {}]_vars
  BY DEF PreviewInv, OutStaysOut
<1> QED
  BY <1>1, PreviewInvariance, PTL DEF Spec, RemovedStaysOut
=============================================================================
