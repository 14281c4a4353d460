-------------------------- MODULE SourceSyncProofs --------------------------
(* Theorems about SourceSync, for any number of overlapping syncs, sources,
   memories and rows: what lies behind the cursor was applied, the search agrees
   with the records, records are append-only, outdated memories are reviewed
   and a resolved review stays resolved.

   The inductive invariant IInv has a part for each: Shaped (types and the shape
   of a batch), AllApplied (what each running sync has applied so far),
   Searchable (what the index still lacks), Grounded and Looked (why the review
   of a row finds the memories it is about) and Reviewed (who will open a review
   that is not open yet).  Each part has a lemma for each stage of a sync. *)
EXTENDS SourceSync, FiniteSetTheorems, SequenceTheorems, WellFoundedInduction, TLAPS

(* The stages, and "insert" between two looks. *)
Pcs == {"attempt", "fetch", "prior", "look", "insert", "index", "unindex",
        "revoke", "save", "review", "gone", "idle"}
Jobs == [pc : Pcs, from : Nat, to : Nat,
         adds : SUBSET Nat, dels : SUBSET Nat, left : SUBSET Nat,
         prior : [Sources -> SUBSET Revisions], fresh : SUBSET Rows]
Records == [status : {"pending", "active"}, source : Sources,
            revision : Revisions, after : SUBSET Nat]
NoRecord == [status |-> "absent"]

(* What a running sync is: its batch lies in what it read of the feed, and only
   the stages between storing and indexing hold fresh records. *)
JobShaped(h) ==
  /\ h.from <= h.to /\ h.to <= Len(feed)
  /\ h.adds \cup h.dels \subseteq 1..h.to
  /\ h.pc \in {"attempt", "fetch"} => h.adds = {} /\ h.dels = {}
  /\ h.pc \in {"look", "insert", "review"} => h.left # {} /\ h.left \subseteq h.adds
  /\ h.pc \in {"revoke", "gone"} => h.left # {} /\ h.left \subseteq h.dels
  /\ h.pc \notin {"look", "insert", "index"} => h.fresh = {}

FeedShaped == feed \in Seq(Rows) /\ Len(feed) <= MaxRows /\ whole \in BOOLEAN
TablesShaped == cursor \in 0..Len(feed) /\ record \in Tables /\ index \in Tables
GovernedShaped == /\ memory \in [Memories -> Records \cup {NoRecord}]
                  /\ review \in [Memories -> [Triggers -> {"none", "open", "resolved"}]]
WorkShaped == work \in [Workers -> Jobs] /\ \A w \in Workers : JobShaped(work[w])
HistoryShaped == /\ taken \subseteq 1..Len(feed) /\ shadowed \subseteq Nat
                 /\ alone \in BOOLEAN /\ crashed \in BOOLEAN
Shaped == FeedShaped /\ TablesShaped /\ GovernedShaped /\ WorkShaped /\ HistoryShaped

(* What is left to do for a row. *)
StoredRow(i) == i \in shadowed \/ record[Row(i).source][Row(i).revision] # "absent"
EndedRow(i) == \A k \in Published(Row(i).source) \ shadowed :
                 k < i => record[Row(k).source][Row(k).revision] = "revoked"
Applied(n) == \A i \in 1..n : IF IsGone(i) THEN EndedRow(i) ELSE StoredRow(i)

(* A sync started from a cursor whose rows were applied, and has applied what
   lies behind it in its batch. *)
Based(h) ==
  /\ h.adds \cup h.dels = (h.from + 1)..h.to
  /\ \A i \in h.adds : ~IsGone(i)
  /\ \A i \in h.dels : IsGone(i)
  /\ \A i, j \in h.adds : Row(j).source = Row(i).source /\ j < i => i \in shadowed
JobApplied(h) ==
  /\ Applied(h.from)
  /\ h.pc \notin {"idle", "attempt", "fetch"} => Based(h)
  /\ h.pc \in {"look", "insert"} => \A i \in h.adds \ h.left : StoredRow(i)
  /\ h.pc \in {"index", "unindex", "revoke", "save"} => \A i \in h.adds : StoredRow(i)
  /\ h.pc = "revoke" => \A i \in h.dels \ h.left : EndedRow(i)
  /\ h.pc = "save" => \A i \in h.dels : EndedRow(i)
AllApplied == ~whole => Applied(cursor) /\ \A w \in Workers : JobApplied(work[w])

(* What the index still lacks while the only sync of a process runs. *)
LacksFresh(h) == \A s \in Sources, r \in Revisions :
                   IF [source |-> s, revision |-> r] \in h.fresh
                   THEN index[s][r] = "absent" /\ record[s][r] = "live"
                   ELSE index[s][r] = record[s][r]
SourcesOf(S) == {Row(i).source : i \in S}
Behind(h) ==
  /\ h.pc \notin {"look", "insert", "index", "revoke"} => index = record
  /\ h.pc \in {"look", "insert", "index"} => LacksFresh(h)
  /\ h.pc = "insert" => Key(h).revision \notin Stored(Key(h).source)
  /\ h.pc = "revoke" => index = Revoked(record, SourcesOf(h.left))
Searchable ==
  alone /\ ~crashed =>
    /\ \A v, w \in Workers : work[v].pc # "idle" /\ work[w].pc # "idle" => v = w
    /\ Quiet => index = record
    /\ \A w \in Workers : work[w].pc # "idle" => Behind(work[w])

(* A memory that does not know of row i, although it is about its source. *)
Unaware(m, i) == /\ memory[m].status = "active" /\ i \notin memory[m].after
                 /\ Row(i).source = memory[m].source
                 /\ Row(i).revision # memory[m].revision
ToReview(h, i) == \/ h.pc = "review" /\ (i \in h.left \/ i \in h.dels)
                  \/ h.pc = "gone" /\ i \in h.left
Grounded == \A m \in Memories : memory[m] # NoRecord =>
              record[memory[m].source][memory[m].revision] # "absent"
JobLooked(h) ==
  /\ \A i \in h.dels : IsGone(i)
  /\ h.pc \notin {"idle", "attempt", "fetch", "prior"} =>
       \A m \in Memories : \A i \in h.adds :
         Unaware(m, i) => memory[m].revision \in h.prior[memory[m].source]
Looked == \A w \in Workers : JobLooked(work[w])
Reviewed == whole \/ ~crashed =>
              \A m \in Memories, i \in taken : Unaware(m, i) =>
                \/ review[m][Row(i).revision] # "none"
                \/ \E w \in Workers : ToReview(work[w], i)

IInv == Shaped /\ AllApplied /\ Searchable /\ Grounded /\ Looked /\ Reviewed

-----------------------------------------------------------------------------
(* The next row and the next stage *)

Less == {ss \in Nat \X Nat : ss[1] < ss[2]}

LEMMA LessIsWellFounded == IsWellFoundedOn(Less, Nat)
BY NatLessThanWellFounded, Zenon DEF OpToRel, Less

LEMMA FirstIsLeast ==
    ASSUME NEW S \in SUBSET Nat, S # {}
    PROVE  First(S) \in S /\ \A j \in S : First(S) <= j
<1>1. PICK x \in S : \A y \in S : ~ (<<y, x>> \in Less)
  BY LessIsWellFounded, WFMin
<1>2. ASSUME NEW y \in S PROVE x <= y
  <2>1. x \in Nat /\ y \in Nat
    OBVIOUS
  <2>2. y < x => <<y, x>> \in Less
    BY <2>1 DEF Less
  <2> QED
    BY <1>1, <2>1, <2>2
<1> QED
  BY <1>2 DEF First

(* What comes after a stage. *)
LEMMA NextStage ==
    ASSUME NEW h \in Jobs
    PROVE  /\ h.pc = "attempt" => Onward(h) = "fetch"
           /\ h.pc = "fetch" => Onward(h) = IF h.adds # {} THEN "prior" ELSE AfterLook(h)
           /\ h.pc = "prior" => Onward(h) = IF h.adds # {} THEN "look" ELSE AfterLook(h)
           /\ h.pc = "look" => Onward(h) = AfterLook(h)
           /\ h.pc = "index" => Onward(h) = AfterIndex(h)
           /\ h.pc = "unindex" => Onward(h) = IF h.dels # {} THEN "revoke" ELSE "save"
           /\ h.pc = "revoke" => Onward(h) = "save"
           /\ h.pc = "save" => Onward(h) = IF h.adds # {} THEN "review" ELSE AfterReview(h)
           /\ h.pc = "review" => Onward(h) = AfterReview(h)
           /\ h.pc = "gone" => Onward(h) = "idle"
BY DEF Onward

(* A sync that goes on from stage to stage, and from row to row. *)
Moved(h) == IF Onward(h) = "idle" THEN Sleeping
            ELSE [h EXCEPT !.pc = Onward(h), !.left = Batch(h, Onward(h))]
Rest(h) == h.left \ {First(h.left)}
Stepped(h) == IF Rest(h) = {} THEN Moved(h) ELSE [h EXCEPT !.left = Rest(h)]

LEMMA Moves ==
    ASSUME NEW w \in Workers, NEW h
    PROVE  /\ Proceed(w, h) <=> work' = [work EXCEPT ![w] = Moved(h)]
           /\ Step(w, h) <=> work' = [work EXCEPT ![w] = Stepped(h)]
           /\ Return(w) <=> work' = [work EXCEPT ![w] = Sleeping]
BY DEF Proceed, Step, Return, Moved, Stepped, Rest

LEMMA SleepingFacts ==
    /\ Sleeping \in Jobs /\ JobShaped(Sleeping)
    /\ Sleeping.pc = "idle" /\ Sleeping.from = 0
<1>1. [s \in Sources |-> {}] \in [Sources -> SUBSET Revisions]
  OBVIOUS
<1>2. Sleeping \in Jobs
  BY <1>1 DEF Sleeping, Job, Jobs, Pcs
<1>3. Len(feed) \in Nat => JobShaped(Sleeping)
  BY DEF Sleeping, Job, JobShaped
<1> QED
  BY <1>2, <1>3 DEF Sleeping, Job, JobShaped

LEMMA MovedFacts ==
    ASSUME NEW h \in Jobs, h.pc \notin {"idle", "insert"}
    PROVE  /\ Moved(h) \in Jobs
           /\ Moved(h).pc = Onward(h)
           /\ Onward(h) \in Pcs \ {"attempt", "insert"}
           /\ Onward(h) = "fetch" => h.pc = "attempt"
           /\ Onward(h) # "idle" =>
                /\ Moved(h).left = Batch(h, Onward(h))
                /\ Moved(h).from = h.from /\ Moved(h).to = h.to
                /\ Moved(h).adds = h.adds /\ Moved(h).dels = h.dels
                /\ Moved(h).prior = h.prior /\ Moved(h).fresh = h.fresh
           /\ Onward(h) = "idle" => Moved(h) = Sleeping
<1>1. /\ Onward(h) \in Pcs \ {"attempt", "insert"}
      /\ Onward(h) = "fetch" => h.pc = "attempt"
  BY NextStage DEF Jobs, Pcs, AfterLook, AfterIndex, AfterReview
<1>2. CASE Onward(h) = "idle"
  BY <1>1, <1>2, SleepingFacts DEF Moved
<1>3. CASE Onward(h) # "idle"
  <2>1. Moved(h) = [h EXCEPT !.pc = Onward(h), !.left = Batch(h, Onward(h))]
    BY <1>3 DEF Moved
  <2>2. Batch(h, Onward(h)) \in SUBSET Nat
    BY DEF Batch, Jobs
  <2> QED
    BY <1>1, <1>3, <2>1, <2>2 DEF Jobs
<1> QED
  BY <1>2, <1>3

LEMMA MovedShaped ==
    ASSUME NEW h \in Jobs, h.pc \notin {"idle", "insert"},
           h.from <= h.to, h.to <= Len(feed), h.adds \cup h.dels \subseteq 1..h.to,
           h.pc = "attempt" => h.adds = {} /\ h.dels = {},
           h.pc # "look" => h.fresh = {}
    PROVE  JobShaped(Moved(h))
<1>1. CASE Onward(h) = "idle"
  BY <1>1, MovedFacts, SleepingFacts
<1>2. CASE Onward(h) # "idle"
  <2>1. /\ Onward(h) \in {"prior", "look", "review"} => h.adds # {}
        /\ Onward(h) \in {"revoke", "gone"} => h.dels # {}
    BY NextStage DEF AfterLook, AfterIndex, AfterReview, Jobs, Pcs
  <2>0. Onward(h) \notin {"look", "insert", "index"} => h.fresh = {}
    BY NextStage DEF AfterLook, AfterIndex, AfterReview, Jobs, Pcs
  <2>2. /\ Onward(h) \in {"look", "review"} => Batch(h, Onward(h)) = h.adds
        /\ Onward(h) \in {"revoke", "gone"} => Batch(h, Onward(h)) = h.dels
    BY DEF Batch
  <2>3. Onward(h) \notin {"attempt", "insert"} /\ (Onward(h) = "fetch" => h.pc = "attempt")
    BY MovedFacts
  <2>4. /\ Moved(h).from = h.from /\ Moved(h).to = h.to
        /\ Moved(h).adds = h.adds /\ Moved(h).dels = h.dels
        /\ Moved(h).fresh = h.fresh
        /\ Moved(h).pc = Onward(h) /\ Moved(h).left = Batch(h, Onward(h))
    BY <1>2, MovedFacts
  <2> QED
    BY <2>0, <2>1, <2>2, <2>3, <2>4 DEF JobShaped
<1> QED
  BY <1>1, <1>2

LEMMA SteppedFacts ==
    ASSUME NEW h \in Jobs, h.pc \in {"look", "revoke", "review", "gone"}
    PROVE  /\ Stepped(h) \in Jobs
           /\ Rest(h) = {} => Stepped(h) = Moved(h)
           /\ Rest(h) # {} =>
                /\ Stepped(h).pc = h.pc /\ Stepped(h).left = Rest(h)
                /\ Stepped(h).from = h.from /\ Stepped(h).to = h.to
                /\ Stepped(h).adds = h.adds /\ Stepped(h).dels = h.dels
                /\ Stepped(h).prior = h.prior /\ Stepped(h).fresh = h.fresh
<1>1. Rest(h) \in SUBSET Nat
  BY DEF Rest, Jobs
<1>2. CASE Rest(h) = {}
  BY <1>2, MovedFacts DEF Stepped
<1>3. CASE Rest(h) # {}
  <2>1. Stepped(h) = [h EXCEPT !.left = Rest(h)]
    BY <1>3 DEF Stepped
  <2> QED
    BY <1>1, <1>3, <2>1 DEF Jobs
<1> QED
  BY <1>2, <1>3

LEMMA SteppedShaped ==
    ASSUME NEW h \in Jobs, h.pc \in {"look", "revoke", "review", "gone"}, JobShaped(h)
    PROVE  JobShaped(Stepped(h))
<1>1. CASE Rest(h) = {}
  BY <1>1, SteppedFacts, MovedShaped DEF JobShaped
<1>2. CASE Rest(h) # {}
  BY <1>2, SteppedFacts DEF JobShaped, Rest
<1> QED
  BY <1>1, <1>2

-----------------------------------------------------------------------------
(* Types *)

LEMMA WorkKeeps ==
    ASSUME WorkShaped, NEW w \in Workers, NEW j \in Jobs, JobShaped(j),
           feed' = feed, work' = [work EXCEPT ![w] = j]
    PROVE  WorkShaped'
<1>1. work' \in [Workers -> Jobs]
  BY DEF WorkShaped
<1>2. work'[w] = j /\ \A v \in Workers : v # w => work'[v] = work[v]
  BY DEF WorkShaped
<1>3. ASSUME NEW v \in Workers PROVE JobShaped(work[v])'
  <2>1. CASE v = w
    BY <1>2, <2>1 DEF JobShaped
  <2>2. CASE v # w
    BY <1>2, <2>2 DEF WorkShaped, JobShaped
  <2> QED
    BY <2>1, <2>2
<1> QED
  BY <1>1, <1>3 DEF WorkShaped

LEMMA RevokedShaped ==
    ASSUME NEW table \in Tables, NEW S
    PROVE  Revoked(table, S) \in Tables
BY DEF Tables, Revoked

LEMMA OpenShaped ==
    ASSUME GovernedShaped, NEW M, NEW t, Open(M, t), memory' = memory
    PROVE  GovernedShaped'
BY DEF GovernedShaped, Open

LEMMA FeedGrows ==
    ASSUME Shaped, NEW row \in Rows, Len(feed) < MaxRows, feed' = Append(feed, row),
           UNCHANGED <<whole, cursor, record, index, governed, work, history>>
    PROVE  Shaped'
<1>1. /\ feed' \in Seq(Rows) /\ Len(feed') = Len(feed) + 1 /\ Len(feed) \in Nat
      /\ \A i \in 1..Len(feed) : feed'[i] = feed[i]
  BY AppendProperties DEF Shaped, FeedShaped
<1>2. FeedShaped' /\ TablesShaped' /\ GovernedShaped' /\ HistoryShaped'
  <2>1. FeedShaped'
    BY <1>1, SyncAssumption DEF Shaped, FeedShaped
  <2>2. cursor' \in 0..Len(feed') /\ 1..Len(feed) \subseteq 1..Len(feed')
    BY <1>1 DEF Shaped, TablesShaped
  <2>3. TablesShaped'
    BY <2>2 DEF Shaped, TablesShaped
  <2>4. GovernedShaped'
    BY DEF Shaped, GovernedShaped, governed
  <2>5. HistoryShaped'
    BY <2>2 DEF Shaped, HistoryShaped, history
  <2> QED
    BY <2>1, <2>3, <2>4, <2>5
<1>3. ASSUME NEW w \in Workers PROVE JobShaped(work[w])'
  <2>1. work[w] \in Jobs /\ JobShaped(work[w]) /\ work' = work
    BY DEF Shaped, WorkShaped
  <2>2. work[w].to \in Nat /\ work[w].to <= Len(feed)
    BY <2>1 DEF JobShaped, Jobs
  <2>3. work[w].to <= Len(feed')
    BY <1>1, <2>2
  <2> QED
    BY <2>1, <2>3 DEF JobShaped
<1>4. WorkShaped'
  BY <1>3 DEF Shaped, WorkShaped
<1> QED
  BY <1>2, <1>4 DEF Shaped

LEMMA PublishedCount ==
    ASSUME Shaped, NEW s
    PROVE  Cardinality(Published(s)) \in 0..Len(feed)
<1>1. Len(feed) \in Nat /\ DOMAIN feed = 1..Len(feed)
  BY DEF Shaped, FeedShaped
<1>2. IsFiniteSet(1..Len(feed)) /\ Cardinality(1..Len(feed)) = Len(feed)
  <2>1. \A n \in Nat : IsFiniteSet(1..n) /\ Cardinality(1..n) = n
    BY FS_Interval
  <2> QED
    BY <1>1, <2>1
<1>3. Published(s) \subseteq 1..Len(feed)
  BY <1>1 DEF Published
<1>4. /\ Cardinality(Published(s)) <= Len(feed) /\ Cardinality(Published(s)) \in Nat
  BY <1>2, <1>3, FS_Subset, FS_CardinalityType
<1> QED
  BY <1>1, <1>4

LEMMA FeedShapes ==
    ASSUME Shaped, NEW s \in Sources, Publish(s) \/ Withdraw(s)
    PROVE  Shaped'
<1>1. CASE Publish(s)
  <2>1. Len(feed) < MaxRows /\ Len(feed) \in Nat
    BY <1>1 DEF Publish, Shaped, FeedShaped
  <2>2. Cardinality(Published(s)) + 1 \in Revisions
    BY <2>1, PublishedCount, SyncAssumption DEF Revisions
  <2>3. [source |-> s, revision |-> Cardinality(Published(s)) + 1] \in Rows
    BY <2>2 DEF Rows, Triggers
  <2> QED
    BY <1>1, <2>3, FeedGrows DEF Publish
<1>2. CASE Withdraw(s)
  <2>1. [source |-> s, revision |-> Gone] \in Rows
    BY DEF Rows, Triggers
  <2> QED
    BY <1>2, <2>1, FeedGrows DEF Withdraw
<1> QED
  BY <1>1, <1>2

LEMMA Started ==
    ASSUME Shaped, NEW w \in Workers, Start(w)
    PROVE  \E j \in Jobs :
             /\ work' = [work EXCEPT ![w] = j] /\ JobShaped(j)
             /\ j.pc = "attempt" /\ j.from = cursor /\ j.adds = {} /\ j.fresh = {}
<1>1. Len(feed) \in Nat /\ cursor \in Nat /\ cursor <= Len(feed)
  BY DEF Shaped, FeedShaped, TablesShaped
<1>2. [s \in Sources |-> {}] \in [Sources -> SUBSET Revisions]
  OBVIOUS
<1>3. PICK j : j = Job("attempt", cursor, Len(feed)) /\ work' = [work EXCEPT ![w] = j]
  BY DEF Start
<1>4. j \in Jobs
  BY <1>1, <1>2, <1>3 DEF Job, Jobs, Pcs
<1>5. JobShaped(j)
  BY <1>1, <1>3 DEF Job, JobShaped
<1> QED
  BY <1>3, <1>4, <1>5 DEF Job

LEMMA StartShapes ==
    ASSUME Shaped, NEW w \in Workers, Start(w)
    PROVE  Shaped'
<1>1. PICK j \in Jobs : work' = [work EXCEPT ![w] = j] /\ JobShaped(j)
  BY Started
<1>2. feed' = feed /\ alone' \in BOOLEAN
  BY DEF Start, remote, Shaped, HistoryShaped
<1>3. WorkShaped'
  BY <1>1, <1>2, WorkKeeps DEF Shaped
<1>4. FeedShaped' /\ TablesShaped' /\ GovernedShaped'
  <2>1. UNCHANGED <<feed, whole, cursor, record, index, memory, review>>
    BY DEF Start, remote, governed
  <2> QED
    BY <2>1 DEF Shaped, FeedShaped, TablesShaped, GovernedShaped
<1>5. HistoryShaped'
  BY <1>2 DEF Shaped, Start, HistoryShaped
<1> QED
  BY <1>3, <1>4, <1>5 DEF Shaped

(* A sync that goes on, with or without a new batch, and what it may change. *)
LEMMA MoveShapes ==
    ASSUME Shaped, NEW w \in Workers, NEW j \in Jobs, JobShaped(j),
           work' = [work EXCEPT ![w] = j], UNCHANGED remote,
           cursor' \in 0..Len(feed), record' \in Tables, index' \in Tables,
           GovernedShaped',
           taken' \subseteq 1..Len(feed), shadowed' \subseteq Nat,
           alone' = alone, crashed' = crashed
    PROVE  Shaped'
<1>1. feed' = feed /\ whole' = whole
  BY DEF remote
<1>2. WorkShaped'
  BY <1>1, WorkKeeps DEF Shaped
<1>3. FeedShaped' /\ TablesShaped'
  BY <1>1 DEF Shaped, FeedShaped, TablesShaped
<1>4. HistoryShaped'
  BY <1>1 DEF Shaped, HistoryShaped
<1> QED
  BY <1>2, <1>3, <1>4 DEF Shaped

(* What every sync finds. *)
LEMMA Found ==
    ASSUME Shaped, NEW w \in Workers
    PROVE  /\ work[w] \in Jobs /\ JobShaped(work[w])
           /\ work[w].from \in 0..Len(feed) /\ work[w].to \in 0..Len(feed)
           /\ work[w].adds \cup work[w].dels \subseteq 1..Len(feed)
           /\ Len(feed) \in Nat /\ DOMAIN feed = 1..Len(feed)
           /\ \A i \in 1..Len(feed) : feed[i] \in Rows
           /\ cursor \in 0..Len(feed) /\ record \in Tables /\ index \in Tables
           /\ taken \subseteq 1..Len(feed) /\ shadowed \subseteq Nat
           /\ UNCHANGED governed => GovernedShaped'
<1>1. /\ work[w] \in Jobs /\ JobShaped(work[w])
      /\ Len(feed) \in Nat /\ DOMAIN feed = 1..Len(feed)
      /\ \A i \in 1..Len(feed) : feed[i] \in Rows
  BY DEF Shaped, WorkShaped, FeedShaped
<1>2. /\ work[w].from \in Nat /\ work[w].to \in Nat
      /\ work[w].from <= work[w].to /\ work[w].to <= Len(feed)
      /\ work[w].adds \cup work[w].dels \subseteq 1..work[w].to
  BY <1>1 DEF JobShaped, Jobs
<1>3. /\ work[w].from \in 0..Len(feed) /\ work[w].to \in 0..Len(feed)
      /\ 1..work[w].to \subseteq 1..Len(feed)
  BY <1>1, <1>2
<1>4. UNCHANGED governed => GovernedShaped'
  BY DEF Shaped, GovernedShaped, governed
<1> QED
  BY <1>1, <1>2, <1>3, <1>4 DEF Shaped, TablesShaped, HistoryShaped

(* The batch a sync takes over, the revisions it reads, the record it inserts
   and the end of its indexing. *)
Arrived(h) ==
  LET batch == {i \in DOMAIN feed : InBatch(h, i)}
      adds == {i \in batch : ~IsGone(i)}
  IN [h EXCEPT !.adds = adds, !.dels = batch \ adds, !.to = IF whole THEN Len(feed) ELSE @]
WithPrior(h) ==
  LET read == {Row(i).source : i \in h.adds}
  IN [h EXCEPT !.prior = [s \in Sources |-> IF s \in read THEN Stored(s) ELSE {}]]
WithRecord(h) == [h EXCEPT !.pc = "look", !.fresh = @ \cup {Key(h)}]
Indexed(h) == [h EXCEPT !.fresh = {}]

LEMMA ArrivedFacts ==
    ASSUME Shaped, NEW w \in Workers, NEW h, h = work[w], h.pc = "fetch"
    PROVE  /\ Arrived(h) \in Jobs
           /\ Arrived(h).pc = "fetch" /\ Arrived(h).from = h.from
           /\ h.from <= Arrived(h).to /\ Arrived(h).to <= Len(feed)
           /\ ~whole => Arrived(h).to = h.to
           /\ Arrived(h).adds = {i \in 1..Len(feed) : InBatch(h, i) /\ ~IsGone(i)}
           /\ Arrived(h).dels = {i \in 1..Len(feed) : InBatch(h, i) /\ IsGone(i)}
           /\ Arrived(h).adds \cup Arrived(h).dels \subseteq 1..Arrived(h).to
           /\ Arrived(h).fresh = {}
<1> DEFINE batch == {i \in DOMAIN feed : InBatch(h, i)}
           adds == {i \in batch : ~IsGone(i)}
           to == IF whole THEN Len(feed) ELSE h.to
<1>1. /\ h \in Jobs /\ JobShaped(h) /\ Len(feed) \in Nat /\ DOMAIN feed = 1..Len(feed)
      /\ h.from \in 0..Len(feed) /\ h.to \in 0..Len(feed) /\ h.from <= h.to
      /\ h.fresh = {}
  BY Found DEF JobShaped
<1>2. Arrived(h) = [h EXCEPT !.adds = adds, !.dels = batch \ adds, !.to = to]
  BY DEF Arrived
<1>3. adds \subseteq 1..Len(feed) /\ batch \ adds \subseteq 1..Len(feed) /\ to \in Nat
  BY <1>1
<1>4. ~whole => adds \cup (batch \ adds) \subseteq 1..h.to
  BY <1>1 DEF InBatch, After
<1>5. /\ adds = {i \in 1..Len(feed) : InBatch(h, i) /\ ~IsGone(i)}
      /\ batch \ adds = {i \in 1..Len(feed) : InBatch(h, i) /\ IsGone(i)}
  BY <1>1
<1>6. h.from <= to /\ to <= Len(feed) /\ (~whole => to = h.to)
  BY <1>1
<1>7. adds \cup (batch \ adds) \subseteq 1..to
  BY <1>3, <1>4
<1> HIDE DEF batch, adds, to
<1>8. adds \in SUBSET Nat /\ batch \ adds \in SUBSET Nat
  BY <1>1, <1>3
<1>9. /\ Arrived(h) \in Jobs /\ Arrived(h).pc = h.pc /\ Arrived(h).from = h.from
      /\ Arrived(h).to = to /\ Arrived(h).adds = adds /\ Arrived(h).dels = batch \ adds
      /\ Arrived(h).fresh = h.fresh
  BY <1>1, <1>2, <1>3, <1>8 DEF Jobs
<1> QED
  BY <1>1, <1>5, <1>6, <1>7, <1>9

LEMMA WithPriorFacts ==
    ASSUME NEW h \in Jobs
    PROVE  /\ WithPrior(h) \in Jobs
           /\ WithPrior(h).pc = h.pc /\ WithPrior(h).from = h.from /\ WithPrior(h).to = h.to
           /\ WithPrior(h).adds = h.adds /\ WithPrior(h).dels = h.dels
           /\ WithPrior(h).fresh = h.fresh
           /\ \A i \in h.adds : Row(i).source \in Sources =>
                WithPrior(h).prior[Row(i).source] = Stored(Row(i).source)
<1> DEFINE prior == [s \in Sources |-> IF s \in {Row(i).source : i \in h.adds}
                                      THEN Stored(s) ELSE {}]
<1>1. WithPrior(h) = [h EXCEPT !.prior = prior]
  BY DEF WithPrior
<1>2. prior \in [Sources -> SUBSET Revisions]
  BY DEF Stored
<1>3. \A i \in h.adds : Row(i).source \in Sources => prior[Row(i).source] = Stored(Row(i).source)
  OBVIOUS
<1> HIDE DEF prior
<1> QED
  BY <1>1, <1>2, <1>3 DEF Jobs

(* The record of the next row: of its source, in the batch, not behind it. *)
LEMMA KeyFacts ==
    ASSUME Shaped, NEW w \in Workers, NEW h, h = work[w], h.pc \in {"look", "insert"}
    PROVE  \E k \in h.adds : /\ Key(h) = Row(k) /\ Row(k) \in Rows
                             /\ k <= First(h.left) /\ First(h.left) \in h.left
                             /\ First(h.left) \in h.adds
                             /\ Row(k).source = Row(First(h.left)).source
                             /\ k = First(SameSource(h.adds, First(h.left)))
<1>1. /\ h \in Jobs /\ h.left # {} /\ h.left \subseteq h.adds /\ h.adds \subseteq 1..Len(feed)
      /\ h.adds \in SUBSET Nat /\ h.left \in SUBSET Nat
  BY Found DEF JobShaped, Jobs
<1>2. First(h.left) \in h.left
  BY <1>1, FirstIsLeast
<1>3. First(h.left) \in SameSource(h.adds, First(h.left))
  BY <1>1, <1>2 DEF SameSource
<1>4. SameSource(h.adds, First(h.left)) \in SUBSET Nat
  BY <1>1 DEF SameSource
<1>5. PICK k \in SameSource(h.adds, First(h.left)) :
        /\ k = First(SameSource(h.adds, First(h.left))) /\ k <= First(h.left)
  BY <1>3, <1>4, FirstIsLeast
<1>6. k \in h.adds /\ Row(k).source = Row(First(h.left)).source
  BY <1>5 DEF SameSource
<1>7. Key(h) = Row(k)
  BY <1>5 DEF Key, RecordFor
<1>8. Row(k) \in Rows
  BY <1>1, <1>6, Found DEF Row
<1> QED
  BY <1>1, <1>2, <1>5, <1>6, <1>7, <1>8

LEMMA WithRecordFacts ==
    ASSUME NEW h \in Jobs, Key(h) \in Rows
    PROVE  /\ WithRecord(h) \in Jobs /\ WithRecord(h).pc = "look"
           /\ WithRecord(h).from = h.from /\ WithRecord(h).to = h.to
           /\ WithRecord(h).adds = h.adds /\ WithRecord(h).dels = h.dels
           /\ WithRecord(h).left = h.left /\ WithRecord(h).prior = h.prior
           /\ WithRecord(h).fresh = h.fresh \cup {Key(h)}
<1>1. h.fresh \cup {Key(h)} \in SUBSET Rows
  BY DEF Jobs
<1> QED
  BY <1>1 DEF WithRecord, Jobs, Pcs

LEMMA IndexedFacts ==
    ASSUME NEW h \in Jobs
    PROVE  /\ Indexed(h) \in Jobs /\ Indexed(h).pc = h.pc
           /\ Indexed(h).from = h.from /\ Indexed(h).to = h.to
           /\ Indexed(h).adds = h.adds /\ Indexed(h).dels = h.dels
           /\ Indexed(h).left = h.left /\ Indexed(h).prior = h.prior
           /\ Indexed(h).fresh = {}
BY DEF Indexed, Jobs

Inserting(h) == [h EXCEPT !.pc = "insert"]

LEMMA InsertingFacts ==
    ASSUME NEW h \in Jobs
    PROVE  /\ Inserting(h) \in Jobs /\ Inserting(h).pc = "insert"
           /\ Inserting(h).from = h.from /\ Inserting(h).to = h.to
           /\ Inserting(h).adds = h.adds /\ Inserting(h).dels = h.dels
           /\ Inserting(h).left = h.left /\ Inserting(h).prior = h.prior
           /\ Inserting(h).fresh = h.fresh
BY DEF Inserting, Jobs, Pcs

(* What each stage makes of the sync. *)
LEMMA Effects ==
    ASSUME NEW w \in Workers, NEW h, h = work[w]
    PROVE  /\ Attempt(w) \/ RevokeIndexed(w) \/ Save(w) =>
                work' = [work EXCEPT ![w] = Moved(h)]
           /\ Fetch(w) => work' = [work EXCEPT ![w] = Moved(Arrived(h))]
           /\ FetchFails(w) => work' = [work EXCEPT ![w] = Sleeping]
           /\ ReadPrior(w) => work' = [work EXCEPT ![w] = Moved(WithPrior(h))]
           /\ Look(w) => IF Key(h).revision \in Stored(Key(h).source)
                         THEN work' = [work EXCEPT ![w] = Stepped(h)]
                         ELSE work' = [work EXCEPT ![w] = Inserting(h)]
           /\ Insert(w) => IF Key(h).revision \in Stored(Key(h).source)
                           THEN work' = [work EXCEPT ![w] = Sleeping]
                           ELSE work' = [work EXCEPT ![w] = Stepped(WithRecord(h))]
           /\ AddMany(w) => work' = [work EXCEPT ![w] = Moved(Indexed(h))]
           /\ RevokeStored(w) \/ ReviewRevised(w) \/ ReviewGone(w) =>
                work' = [work EXCEPT ![w] = Stepped(h)]
<1>1. Attempt(w) \/ RevokeIndexed(w) \/ Save(w) => work' = [work EXCEPT ![w] = Moved(h)]
  BY Moves DEF Attempt, RevokeIndexed, Save
<1>2. Fetch(w) => work' = [work EXCEPT ![w] = Moved(Arrived(h))]
  BY Moves DEF Fetch, Arrived
<1>3. FetchFails(w) => work' = [work EXCEPT ![w] = Sleeping]
  BY Moves DEF FetchFails
<1>4. ReadPrior(w) => work' = [work EXCEPT ![w] = Moved(WithPrior(h))]
  BY Moves DEF ReadPrior, WithPrior
<1>5. Look(w) => IF Key(h).revision \in Stored(Key(h).source)
                 THEN work' = [work EXCEPT ![w] = Stepped(h)]
                 ELSE work' = [work EXCEPT ![w] = Inserting(h)]
  BY Moves DEF Look, Inserting
<1>6. Insert(w) => IF Key(h).revision \in Stored(Key(h).source)
                   THEN work' = [work EXCEPT ![w] = Sleeping]
                   ELSE work' = [work EXCEPT ![w] = Stepped(WithRecord(h))]
  BY Moves DEF Insert, WithRecord
<1>7. AddMany(w) => work' = [work EXCEPT ![w] = Moved(Indexed(h))]
  BY Moves DEF AddMany, Indexed
<1>8. RevokeStored(w) \/ ReviewRevised(w) \/ ReviewGone(w) =>
        work' = [work EXCEPT ![w] = Stepped(h)]
  BY Moves DEF RevokeStored, ReviewRevised, ReviewGone
<1> QED
  BY <1>1, <1>2, <1>3, <1>4, <1>5, <1>6, <1>7, <1>8

LEMMA SyncShapes ==
    ASSUME Shaped, NEW w \in Workers, Sync(w)
    PROVE  Shaped'
<1>0. PICK h : h = work[w]
  OBVIOUS
<1>1. /\ h \in Jobs /\ JobShaped(h)
      /\ h.from <= h.to /\ h.to <= Len(feed) /\ h.adds \cup h.dels \subseteq 1..h.to
      /\ h.from \in 0..Len(feed) /\ h.to \in 0..Len(feed)
      /\ h.adds \cup h.dels \subseteq 1..Len(feed)
      /\ cursor \in 0..Len(feed) /\ record \in Tables /\ index \in Tables
      /\ taken \subseteq 1..Len(feed) /\ shadowed \subseteq Nat
      /\ UNCHANGED governed => GovernedShaped'
  BY <1>0, Found DEF JobShaped
<1>2. CASE Start(w)
  BY <1>2, StartShapes
<1>3. CASE Attempt(w)
  <2>1. h.pc = "attempt" /\ work' = [work EXCEPT ![w] = Moved(h)]
    BY <1>0, <1>3, Effects DEF Attempt, At
  <2>2. Moved(h) \in Jobs /\ JobShaped(Moved(h))
    BY <1>1, <2>1, MovedFacts, MovedShaped DEF JobShaped
  <2> QED
    BY <1>0, <1>1, <1>3, <2>1, <2>2, MoveShapes DEF Attempt, history
<1>4. CASE Fetch(w)
  <2>1. h.pc = "fetch" /\ work' = [work EXCEPT ![w] = Moved(Arrived(h))]
    BY <1>0, <1>4, Effects DEF Fetch, At
  <2>2. /\ Arrived(h) \in Jobs /\ Arrived(h).pc = "fetch"
        /\ Arrived(h).from <= Arrived(h).to /\ Arrived(h).to <= Len(feed)
        /\ Arrived(h).adds \cup Arrived(h).dels \subseteq 1..Arrived(h).to
        /\ Arrived(h).fresh = {}
    BY <1>0, <1>1, <2>1, ArrivedFacts
  <2>3. Moved(Arrived(h)) \in Jobs /\ JobShaped(Moved(Arrived(h)))
    BY <2>2, MovedFacts, MovedShaped
  <2>4. shadowed' = shadowed \cup Shadows(Arrived(h).adds) /\ Shadows(Arrived(h).adds) \subseteq Nat
    <3>1. Shadows(Arrived(h).adds) \subseteq Nat
      BY <2>2 DEF Shadows, Jobs
    <3>2. Arrived(h).adds = {i \in {j \in DOMAIN feed : InBatch(h, j)} : ~IsGone(i)}
      BY <1>1 DEF Arrived, Jobs
    <3> QED
      BY <1>0, <1>4, <3>1, <3>2 DEF Fetch
  <2> QED
    BY <1>1, <1>4, <2>1, <2>3, <2>4, MoveShapes DEF Fetch
<1>5. CASE FetchFails(w)
  <2>1. work' = [work EXCEPT ![w] = Sleeping]
    BY <1>0, <1>5, Effects
  <2> QED
    BY <1>0, <1>1, <1>5, <2>1, SleepingFacts, MoveShapes DEF FetchFails, history
<1>6. CASE ReadPrior(w)
  <2>1. h.pc = "prior" /\ work' = [work EXCEPT ![w] = Moved(WithPrior(h))]
    BY <1>0, <1>6, Effects DEF ReadPrior, At
  <2>2. Moved(WithPrior(h)) \in Jobs /\ JobShaped(Moved(WithPrior(h)))
    BY <1>1, <2>1, WithPriorFacts, MovedFacts, MovedShaped DEF JobShaped
  <2> QED
    BY <1>1, <1>6, <2>1, <2>2, MoveShapes DEF ReadPrior, history
<1>7. CASE Look(w)
  <2>1. h.pc = "look"
    BY <1>0, <1>7 DEF Look, At
  <2>2. JobShaped(Inserting(h))
    BY <1>1, <2>1, InsertingFacts DEF JobShaped
  <2>3. \E j \in Jobs : JobShaped(j) /\ work' = [work EXCEPT ![w] = j]
    BY <1>0, <1>1, <1>7, <2>1, <2>2, Effects, InsertingFacts, SteppedFacts, SteppedShaped
  <2> QED
    BY <1>1, <1>7, <2>3, MoveShapes DEF Look, history
<1>8. CASE Insert(w)
  <2>1. h.pc = "insert"
    BY <1>0, <1>8 DEF Insert, At
  <2>2. Key(h) \in Rows
    BY <1>0, <2>1, KeyFacts
  <2>3. WithRecord(h) \in Jobs /\ WithRecord(h).pc = "look" /\ JobShaped(WithRecord(h))
    BY <1>1, <2>1, <2>2, WithRecordFacts DEF JobShaped
  <2>4. \E j \in Jobs : JobShaped(j) /\ work' = [work EXCEPT ![w] = j]
    BY <1>0, <1>8, <2>3, Effects, SleepingFacts, SteppedFacts, SteppedShaped
  <2>5. record' \in Tables
    BY <1>0, <1>1, <1>8 DEF Insert, Tables
  <2> QED
    BY <1>1, <1>8, <2>4, <2>5, MoveShapes DEF Insert, history
<1>9. CASE AddMany(w)
  <2>1. h.pc = "index" /\ work' = [work EXCEPT ![w] = Moved(Indexed(h))]
    BY <1>0, <1>9, Effects DEF AddMany, At
  <2>2. Moved(Indexed(h)) \in Jobs /\ JobShaped(Moved(Indexed(h)))
    BY <1>1, <2>1, IndexedFacts, MovedFacts, MovedShaped DEF JobShaped
  <2>3. index' \in Tables
    BY <1>0, <1>1, <1>9 DEF AddMany, Tables
  <2> QED
    BY <1>1, <1>9, <2>1, <2>2, <2>3, MoveShapes DEF AddMany, history
<1>10. CASE RevokeIndexed(w)
  <2>1. h.pc = "unindex" /\ work' = [work EXCEPT ![w] = Moved(h)]
    BY <1>0, <1>10, Effects DEF RevokeIndexed, At
  <2>2. Moved(h) \in Jobs /\ JobShaped(Moved(h))
    BY <1>1, <2>1, MovedFacts, MovedShaped DEF JobShaped
  <2>3. index' \in Tables
    BY <1>1, <1>10, RevokedShaped DEF RevokeIndexed
  <2> QED
    BY <1>1, <1>10, <2>1, <2>2, <2>3, MoveShapes DEF RevokeIndexed, history
<1>11. CASE RevokeStored(w)
  <2>1. h.pc = "revoke" /\ work' = [work EXCEPT ![w] = Stepped(h)]
    BY <1>0, <1>11, Effects DEF RevokeStored, At
  <2>2. Stepped(h) \in Jobs /\ JobShaped(Stepped(h))
    BY <1>1, <2>1, SteppedFacts, SteppedShaped
  <2>3. record' \in Tables
    BY <1>1, <1>11, RevokedShaped DEF RevokeStored
  <2> QED
    BY <1>1, <1>11, <2>1, <2>2, <2>3, MoveShapes DEF RevokeStored, history
<1>12. CASE Save(w)
  <2>1. h.pc = "save" /\ work' = [work EXCEPT ![w] = Moved(h)]
    BY <1>0, <1>12, Effects DEF Save, At
  <2>2. Moved(h) \in Jobs /\ JobShaped(Moved(h))
    BY <1>1, <2>1, MovedFacts, MovedShaped DEF JobShaped
  <2>3. cursor' \in 0..Len(feed) /\ taken' \subseteq 1..Len(feed)
    BY <1>0, <1>1, <1>12 DEF Save
  <2> QED
    BY <1>1, <1>12, <2>1, <2>2, <2>3, MoveShapes DEF Save
<1>13. CASE ReviewRevised(w) \/ ReviewGone(w)
  <2>1. h.pc \in {"review", "gone"} /\ work' = [work EXCEPT ![w] = Stepped(h)]
    BY <1>0, <1>13, Effects DEF ReviewRevised, ReviewGone, At
  <2>2. Stepped(h) \in Jobs /\ JobShaped(Stepped(h))
    BY <1>1, <2>1, SteppedFacts, SteppedShaped
  <2>3. GovernedShaped'
    BY <1>13, OpenShaped DEF Shaped, ReviewRevised, ReviewGone
  <2> QED
    BY <1>1, <1>13, <2>1, <2>2, <2>3, MoveShapes DEF ReviewRevised, ReviewGone, history
<1> QED
  BY <1>2, <1>3, <1>4, <1>5, <1>6, <1>7, <1>8, <1>9, <1>10, <1>11, <1>12, <1>13 DEF Sync

Govern(m) == \/ Approve(m)
             \/ \E s \in Sources, r \in Revisions : Propose(m, s, r)
             \/ \E t \in Triggers : Resolve(m, t)

LEMMA GovernShapes ==
    ASSUME Shaped, NEW m \in Memories, Govern(m)
    PROVE  Shaped'
<1>1. /\ UNCHANGED <<feed, whole, cursor, record, index, work>>
      /\ UNCHANGED <<taken, shadowed, alone, crashed>>
  BY DEF Govern, Approve, Propose, Resolve, remote, history
<1>2. FeedShaped' /\ TablesShaped' /\ HistoryShaped'
  BY <1>1 DEF Shaped, FeedShaped, TablesShaped, HistoryShaped
<1>3. WorkShaped'
  BY <1>1 DEF Shaped, WorkShaped, JobShaped
<1>4. GovernedShaped'
  <2>1. CASE Approve(m)
    <3>1. taken \cup UnderWay \in SUBSET Nat
      <4>1. taken \subseteq Nat
        BY Found DEF Shaped, HistoryShaped
      <4>2. UnderWay \subseteq Nat
        BY DEF UnderWay
      <4> QED
        BY <4>1, <4>2
    <3>2. memory[m] \in Records
      <4>1. memory[m] \in Records \cup {NoRecord}
        BY DEF Shaped, GovernedShaped
      <4> QED
        BY <2>1, <4>1 DEF Approve, NoRecord
    <3>3. memory' = [memory EXCEPT ![m] = [@ EXCEPT !.status = "active",
                                                   !.after = taken \cup UnderWay]]
      BY <2>1 DEF Approve, Shaped, GovernedShaped
    <3>4. [memory[m] EXCEPT !.status = "active", !.after = taken \cup UnderWay] \in Records
      BY <3>1, <3>2 DEF Records
    <3> QED
      BY <2>1, <3>3, <3>4 DEF Shaped, GovernedShaped, Approve
  <2>2. ASSUME NEW s \in Sources, NEW r \in Revisions, Propose(m, s, r)
        PROVE  GovernedShaped'
    <3>1. [status |-> "pending", source |-> s, revision |-> r, after |-> {}] \in Records
      BY DEF Records
    <3> QED
      BY <2>2, <3>1 DEF Shaped, GovernedShaped, Propose
  <2>3. ASSUME NEW t \in Triggers, Resolve(m, t)
        PROVE  GovernedShaped'
    BY <2>3 DEF Shaped, GovernedShaped, Resolve
  <2> QED
    BY <2>1, <2>2, <2>3 DEF Govern
<1> QED
  BY <1>2, <1>3, <1>4 DEF Shaped

LEMMA BlankShaped == Blank \in Tables
BY DEF Blank, Tables

LEMMA CrashShapes ==
    ASSUME Shaped, Crash
    PROVE  Shaped'
<1>1. /\ UNCHANGED <<feed, whole, cursor, record, memory, review>>
      /\ UNCHANGED <<shadowed, alone>> /\ crashed' = TRUE
      /\ taken' \subseteq taken /\ index' = Blank
  BY DEF Crash, remote, governed
<1>2. FeedShaped' /\ TablesShaped' /\ GovernedShaped' /\ HistoryShaped'
  BY <1>1, BlankShaped
     DEF Shaped, FeedShaped, TablesShaped, GovernedShaped, HistoryShaped
<1>3. work' \in [Workers -> Jobs]
  BY SleepingFacts DEF Crash
<1>4. ASSUME NEW v \in Workers PROVE JobShaped(work[v])'
  <2>1. work'[v] = Sleeping
    BY DEF Crash
  <2>2. JobShaped(Sleeping)
    BY SleepingFacts
  <2> QED
    BY <1>1, <2>1, <2>2 DEF JobShaped
<1> QED
  BY <1>2, <1>3, <1>4 DEF Shaped, WorkShaped

LEMMA StepsShape ==
    ASSUME Shaped, [Next]_vars
    PROVE  Shaped'
<1>1. CASE UNCHANGED vars
  BY <1>1 DEF vars, Shaped, FeedShaped, TablesShaped, GovernedShaped, WorkShaped,
              JobShaped, HistoryShaped, remote, governed, history
<1> QED
  BY <1>1, FeedShapes, SyncShapes, GovernShapes, CrashShapes DEF Next, Govern

-----------------------------------------------------------------------------
(* What a step may do to a record and to a review *)

RecordMoves(s, r) == record'[s][r] # record[s][r] =>
                       <<record[s][r], record'[s][r]>> \in
                          {<<"absent", "live">>, <<"live", "revoked">>}

LEMMA InsertsRecord ==
    ASSUME Shaped, NEW w \in Workers, Insert(w), NEW s \in Sources, NEW r \in Revisions
    PROVE  RecordMoves(s, r)
<1>1. PICK k : k = Key(work[w])
  OBVIOUS
<1>2. CASE k.revision \in Stored(k.source)
  BY <1>1, <1>2 DEF Insert, RecordMoves
<1>3. CASE k.revision \notin Stored(k.source)
  <2>1. record' = [record EXCEPT ![k.source][k.revision] = "live"]
    BY <1>1, <1>3 DEF Insert
  <2>2. record \in Tables
    BY DEF Shaped, TablesShaped
  <2>3. CASE s = k.source /\ r = k.revision
    <3>1. record[s][r] = "absent"
      BY <1>3, <2>3 DEF Stored
    <3>2. record'[s][r] = "live"
      BY <2>1, <2>2, <2>3 DEF Tables
    <3> QED
      BY <3>1, <3>2 DEF RecordMoves
  <2>4. CASE ~(s = k.source /\ r = k.revision)
    BY <2>1, <2>2, <2>4 DEF Tables, RecordMoves
  <2> QED
    BY <2>3, <2>4
<1> QED
  BY <1>2, <1>3

LEMMA OthersKeepRecords ==
    ASSUME Next, \A w \in Workers : ~Insert(w) /\ ~RevokeStored(w)
    PROVE  UNCHANGED record
BY DEF Next, Sync, Publish, Withdraw, Start, Attempt, Fetch, FetchFails, ReadPrior, Look,
       AddMany, RevokeIndexed, Save, ReviewRevised, ReviewGone, Approve, Propose, Resolve, Crash

LEMMA RecordSteps ==
    ASSUME Shaped, [Next]_vars, NEW s \in Sources, NEW r \in Revisions
    PROVE  RecordMoves(s, r)
<1>1. CASE UNCHANGED vars \/ UNCHANGED record
  BY <1>1 DEF vars, RecordMoves
<1>2. ASSUME NEW w \in Workers, Insert(w) PROVE RecordMoves(s, r)
  BY <1>2, InsertsRecord
<1>3. ASSUME NEW w \in Workers, RevokeStored(w) PROVE RecordMoves(s, r)
  <2>1. PICK S : record' = Revoked(record, S)
    BY <1>3 DEF RevokeStored
  <2>2. record'[s][r] = IF s \in S /\ record[s][r] = "live" THEN "revoked" ELSE record[s][r]
    BY <2>1 DEF Revoked
  <2> QED
    BY <2>2 DEF RecordMoves
<1> QED
  BY <1>1, <1>2, <1>3, OthersKeepRecords

ReviewStays(m, t) == review[m][t] = "resolved" => review'[m][t] = "resolved"

LEMMA ReviewSteps ==
    ASSUME Shaped, [Next]_vars, NEW m \in Memories, NEW t \in Triggers
    PROVE  ReviewStays(m, t)
<1>1. CASE UNCHANGED review
  BY <1>1 DEF ReviewStays
<1>2. ASSUME NEW M, NEW u, Open(M, u) PROVE ReviewStays(m, t)
  BY <1>2 DEF Open, ReviewStays, Shaped, GovernedShaped
<1>3. ASSUME NEW n \in Memories, NEW u \in Triggers, Resolve(n, u) PROVE ReviewStays(m, t)
  BY <1>3 DEF Resolve, ReviewStays, Shaped, GovernedShaped
<1>4. ASSUME NEW w \in Workers, Sync(w) PROVE UNCHANGED review \/ \E M, u : Open(M, u)
  <2>1. CASE ReviewRevised(w)
    BY <2>1 DEF ReviewRevised
  <2>2. CASE ReviewGone(w)
    BY <2>2 DEF ReviewGone
  <2>3. CASE ~ReviewRevised(w) /\ ~ReviewGone(w)
    BY <1>4, <2>3 DEF Sync, governed, Start, Attempt, Fetch, FetchFails, ReadPrior, Look,
       Insert, AddMany, RevokeIndexed, RevokeStored, Save
  <2> QED
    BY <2>1, <2>2, <2>3
<1>5. CASE UNCHANGED vars \/ Crash \/ \E s \in Sources : Publish(s) \/ Withdraw(s)
  BY <1>1, <1>5 DEF vars, governed, Crash, Publish, Withdraw
<1>6. ASSUME NEW n \in Memories, Approve(n) \/ \E s \in Sources, r \in Revisions : Propose(n, s, r)
      PROVE  ReviewStays(m, t)
  BY <1>1, <1>6 DEF Approve, Propose
<1> QED
  BY <1>1, <1>2, <1>3, <1>4, <1>5, <1>6 DEF Next

-----------------------------------------------------------------------------
(* What is applied stays applied *)

LEMMA Growth ==
    ASSUME Shaped, [Next]_vars
    PROVE  /\ Len(feed) \in Nat /\ Len(feed') \in Nat /\ Len(feed) <= Len(feed')
           /\ \A i \in 1..Len(feed) : feed'[i] = feed[i]
           /\ DOMAIN feed = 1..Len(feed) /\ DOMAIN feed' = 1..Len(feed')
           /\ whole' = whole /\ shadowed \subseteq shadowed'
<1>0. feed \in Seq(Rows) /\ Len(feed) \in Nat /\ DOMAIN feed = 1..Len(feed)
  BY DEF Shaped, FeedShaped
<1>1. CASE UNCHANGED <<feed, whole>> /\ shadowed \subseteq shadowed'
  BY <1>0, <1>1
<1>2. CASE UNCHANGED vars \/ Crash
  BY <1>1, <1>2 DEF vars, Crash, remote
<1>3. ASSUME NEW m \in Memories, Govern(m)
      PROVE  UNCHANGED <<feed, whole>> /\ shadowed \subseteq shadowed'
  BY <1>3 DEF Govern, Approve, Propose, Resolve, remote, history
<1>4. ASSUME NEW w \in Workers, Sync(w)
      PROVE  UNCHANGED <<feed, whole>> /\ shadowed \subseteq shadowed'
  BY <1>4 DEF Sync, remote, history, Start, Attempt, Fetch, FetchFails, ReadPrior, Look,
     Insert, AddMany, RevokeIndexed, RevokeStored, Save, ReviewRevised, ReviewGone
<1>5. ASSUME NEW s \in Sources, Publish(s) \/ Withdraw(s)
      PROVE  /\ Len(feed') \in Nat /\ Len(feed) <= Len(feed')
             /\ \A i \in 1..Len(feed) : feed'[i] = feed[i]
             /\ DOMAIN feed' = 1..Len(feed')
             /\ whole' = whole /\ shadowed' = shadowed
  <2>1. PICK row : feed' = Append(feed, row)
    BY <1>5 DEF Publish, Withdraw
  <2>2. UNCHANGED <<whole, shadowed>>
    BY <1>5 DEF Publish, Withdraw, history
  <2>3. row \in {row} \cup Rows /\ feed \in Seq({row} \cup Rows)
    BY <1>0
  <2>4. Len(feed') = Len(feed) + 1 /\ \A i \in 1..Len(feed) : feed'[i] = feed[i]
    BY <2>1, <2>3, AppendProperties
  <2>5. DOMAIN feed' = 1..Len(feed')
    BY <2>1, <2>3, AppendProperties
  <2> QED
    BY <1>0, <2>2, <2>4, <2>5
<1> QED
  BY <1>0, <1>1, <1>2, <1>3, <1>4, <1>5 DEF Next, Govern

LEMMA RowsKeep ==
    ASSUME Shaped, [Next]_vars, NEW i \in 1..Len(feed)
    PROVE  /\ Row(i)' = Row(i) /\ (IsGone(i)' <=> IsGone(i))
           /\ Row(i) \in Rows /\ (~IsGone(i) => Row(i).revision \in Revisions)
           /\ ~IsGone(i) /\ StoredRow(i) => StoredRow(i)'
           /\ EndedRow(i) => EndedRow(i)'
<1>1. /\ feed'[i] = feed[i] /\ feed[i] \in Rows
      /\ Row(i)' = Row(i) /\ (IsGone(i)' <=> IsGone(i))
  BY Growth DEF Row, IsGone, Shaped, FeedShaped
<1>2. ~IsGone(i) => Row(i).revision \in Revisions
  BY <1>1 DEF IsGone, Row, Rows, Triggers
<1>3. Row(i) \in Rows
  BY <1>1 DEF Row
<1>4. ASSUME ~IsGone(i), StoredRow(i) PROVE StoredRow(i)'
  <2>1. Row(i).source \in Sources /\ Row(i).revision \in Revisions
    BY <1>2, <1>3, <1>4 DEF Rows
  <2>2. RecordMoves(Row(i).source, Row(i).revision)
    BY <2>1, RecordSteps
  <2> QED
    BY <1>1, <1>4, <2>2, Growth DEF StoredRow, RecordMoves
<1>5. ASSUME EndedRow(i) PROVE EndedRow(i)'
  <2> SUFFICES ASSUME NEW k, k \in Published(Row(i).source)', k \notin shadowed', k < i
               PROVE  record'[Row(k)'.source][Row(k)'.revision] = "revoked"
    BY <1>1 DEF EndedRow
  <2>1. k \in 1..Len(feed) /\ k \notin shadowed
    BY <1>1, Growth DEF Published
  <2>2. Row(k)' = Row(k) /\ feed'[k] = feed[k] /\ feed[k] \in Rows
    BY <2>1, Growth DEF Row, Shaped, FeedShaped
  <2>3. k \in Published(Row(i).source)
    BY <1>1, <2>1, <2>2, Growth DEF Published
  <2>4. record[Row(k).source][Row(k).revision] = "revoked"
    BY <1>5, <2>1, <2>3 DEF EndedRow
  <2>5. Row(k).source \in Sources /\ Row(k).revision \in Revisions
    BY <2>2, <2>3 DEF Published, Row, Rows, Triggers
  <2>6. RecordMoves(Row(k).source, Row(k).revision)
    BY <2>5, RecordSteps
  <2> QED
    BY <2>2, <2>4, <2>6 DEF RecordMoves
<1> QED
  BY <1>1, <1>2, <1>3, <1>4, <1>5

LEMMA AppliedKeeps ==
    ASSUME Shaped, [Next]_vars, NEW n \in 0..Len(feed), Applied(n)
    PROVE  Applied(n)'
<1>1. Len(feed) \in Nat
  BY Growth
<1>2. \A i \in 1..n : i \in 1..Len(feed)
  BY <1>1
<1> QED
  BY <1>2, RowsKeep DEF Applied

LEMMA BasedKeeps ==
    ASSUME Shaped, [Next]_vars, NEW h \in Jobs, h.adds \cup h.dels \subseteq 1..Len(feed),
           Based(h)
    PROVE  Based(h)'
<1>1. \A i \in h.adds \cup h.dels : Row(i)' = Row(i) /\ (IsGone(i)' <=> IsGone(i))
  BY RowsKeep
<1>2. shadowed \subseteq shadowed'
  BY Growth
<1> QED
  BY <1>1, <1>2 DEF Based

LEMMA JobKeeps ==
    ASSUME Shaped, [Next]_vars, NEW h \in Jobs,
           h.from \in 0..Len(feed), h.adds \cup h.dels \subseteq 1..Len(feed),
           JobApplied(h)
    PROVE  JobApplied(h)'
<1>1. Applied(h.from)'
  BY AppliedKeeps DEF JobApplied
<1>2. h.pc \notin {"idle", "attempt", "fetch"} => Based(h) /\ Based(h)'
  BY BasedKeeps DEF JobApplied
<1>3. \A i \in h.adds : ~IsGone(i) /\ StoredRow(i) => StoredRow(i)'
  BY RowsKeep
<1>4. \A i \in h.dels : EndedRow(i) => EndedRow(i)'
  BY RowsKeep
<1>5. h.pc \notin {"idle", "attempt", "fetch"} => \A i \in h.adds : ~IsGone(i)
  BY <1>2 DEF Based
<1> QED
  BY <1>1, <1>2, <1>3, <1>4, <1>5 DEF JobApplied

LEMMA SleepingApplied == JobApplied(Sleeping)'
BY SleepingFacts DEF JobApplied, Applied

LEMMA MovedApplied ==
    ASSUME NEW h \in Jobs, h.pc \notin {"idle", "insert"}, Applied(h.from)',
           h.pc # "attempt" => Based(h)',
           h.pc \in {"look", "index", "unindex", "revoke"} => \A i \in h.adds : StoredRow(i)',
           h.pc = "revoke" => \A i \in h.dels : EndedRow(i)'
    PROVE  JobApplied(Moved(h))'
<1>1. CASE Onward(h) = "idle"
  BY <1>1, MovedFacts, SleepingApplied
<1>2. CASE Onward(h) # "idle"
  <2>1. /\ Moved(h).from = h.from /\ Moved(h).to = h.to
        /\ Moved(h).adds = h.adds /\ Moved(h).dels = h.dels
        /\ Moved(h).pc = Onward(h) /\ Moved(h).left = Batch(h, Onward(h))
        /\ Onward(h) # "insert" /\ (Onward(h) = "fetch" <=> h.pc = "attempt")
    BY <1>2, MovedFacts, NextStage
  <2>2. Onward(h) # "fetch" => Based(Moved(h))'
    BY <2>1 DEF Based
  <2>3. Onward(h) = "look" => h.adds \ Batch(h, Onward(h)) = {}
    BY DEF Batch
  <2>4. Onward(h) = "revoke" => h.dels \ Batch(h, Onward(h)) = {}
    BY DEF Batch
  <2>5. Onward(h) \in {"index", "unindex", "revoke", "save"} => \A i \in h.adds : StoredRow(i)'
    <3>1. h.pc \in {"fetch", "prior"} /\ h.adds # {} => Onward(h) \in {"prior", "look"}
      BY NextStage
    <3>2. h.pc \in {"attempt", "save", "review", "gone"} =>
            Onward(h) \notin {"index", "unindex", "revoke", "save"}
      BY NextStage DEF AfterReview
    <3> QED
      BY <3>1, <3>2 DEF Jobs, Pcs
  <2>6. Onward(h) = "save" => \A i \in h.dels : EndedRow(i)'
    <3>1. Onward(h) = "save" => h.pc = "revoke" \/ h.dels = {}
      BY NextStage DEF AfterLook, AfterIndex, AfterReview, Jobs, Pcs
    <3> QED
      BY <3>1
  <2>7. Applied(Moved(h).from)'
    BY <2>1
  <2> HIDE DEF Moved
  <2> QED
    BY <2>1, <2>2, <2>3, <2>4, <2>5, <2>6, <2>7 DEF JobApplied
<1> QED
  BY <1>1, <1>2

LEMMA SteppedApplied ==
    ASSUME NEW h \in Jobs, h.pc \in {"look", "revoke", "review", "gone"},
           Applied(h.from)', Based(h)',
           h.pc = "look" => \A i \in h.adds \ Rest(h) : StoredRow(i)',
           h.pc = "revoke" => /\ \A i \in h.adds : StoredRow(i)'
                              /\ \A i \in h.dels \ Rest(h) : EndedRow(i)'
    PROVE  JobApplied(Stepped(h))'
<1>1. CASE Rest(h) = {}
  BY <1>1, SteppedFacts, MovedApplied
<1>2. CASE Rest(h) # {}
  <2>1. /\ Stepped(h).pc = h.pc /\ Stepped(h).left = Rest(h)
        /\ Stepped(h).from = h.from /\ Stepped(h).to = h.to
        /\ Stepped(h).adds = h.adds /\ Stepped(h).dels = h.dels
    BY <1>2, SteppedFacts
  <2>2. Based(Stepped(h))'
    BY <2>1 DEF Based
  <2> QED
    BY <2>1, <2>2 DEF JobApplied
<1> QED
  BY <1>1, <1>2

(* The next row is stored under a key of its own, or stands behind another. *)
LEMMA KeyOrShadow ==
    ASSUME Shaped, NEW w \in Workers, NEW h, h = work[w], h.pc \in {"look", "insert"},
           Based(h)
    PROVE  /\ First(h.left) \in h.adds /\ First(h.left) \in 1..Len(feed)
           /\ ~IsGone(First(h.left))
           /\ First(h.left) \in shadowed \/ Key(h) = Row(First(h.left))
<1>1. PICK k \in h.adds : /\ Key(h) = Row(k)
                          /\ k <= First(h.left) /\ First(h.left) \in h.adds
                          /\ Row(k).source = Row(First(h.left)).source
  BY KeyFacts
<1>2. k \in Nat /\ First(h.left) \in Nat /\ h.adds \subseteq 1..Len(feed)
  BY <1>1, Found DEF Jobs
<1>3. CASE k = First(h.left)
  BY <1>1, <1>2, <1>3 DEF Based
<1>4. CASE k < First(h.left)
  BY <1>1, <1>2, <1>4 DEF Based
<1> QED
  BY <1>1, <1>2, <1>3, <1>4

LEMMA AllMove ==
    ASSUME Shaped, AllApplied, ~whole, [Next]_vars, NEW w \in Workers, NEW j \in Jobs,
           work' = [work EXCEPT ![w] = j], JobApplied(j)', Applied(cursor)'
    PROVE  AllApplied'
<1>1. work'[w] = j /\ \A v \in Workers : v # w => work'[v] = work[v]
  BY DEF Shaped, WorkShaped
<1>2. ASSUME NEW v \in Workers PROVE JobApplied(work[v])'
  <2>1. CASE v = w
    BY <1>1, <2>1 DEF JobApplied
  <2>2. CASE v # w
    <3>1. PICK h \in Jobs : h = work[v]
      BY Found
    <3>2. JobApplied(h) /\ h.from \in 0..Len(feed) /\ h.adds \cup h.dels \subseteq 1..Len(feed)
      BY <3>1, Found DEF AllApplied
    <3>3. JobApplied(h)'
      BY <3>2, JobKeeps
    <3>4. work'[v] = h
      BY <1>1, <2>2, <3>1
    <3> QED
      BY <3>3, <3>4 DEF JobApplied
  <2> QED
    BY <2>1, <2>2
<1> QED
  BY <1>2 DEF AllApplied

LEMMA RestsApply ==
    ASSUME Shaped, AllApplied, [Next]_vars, UNCHANGED <<cursor, work>>
    PROVE  AllApplied'
<1>1. CASE whole
  BY <1>1, Growth DEF AllApplied
<1>2. CASE ~whole
  <2>1. Applied(cursor)'
    <3>1. PICK n \in 0..Len(feed) : n = cursor
      BY DEF Shaped, TablesShaped
    <3>2. Applied(n)'
      BY <1>2, <3>1, AppliedKeeps DEF AllApplied
    <3> QED
      BY <3>1, <3>2 DEF Applied
  <2>2. ASSUME NEW v \in Workers PROVE JobApplied(work[v])'
    <3>1. PICK h \in Jobs : h = work[v]
      BY Found
    <3>2. JobApplied(h) /\ h.from \in 0..Len(feed) /\ h.adds \cup h.dels \subseteq 1..Len(feed)
      BY <1>2, <3>1, Found DEF AllApplied
    <3>3. JobApplied(h)' /\ work'[v] = h
      BY <3>1, <3>2, JobKeeps
    <3> QED
      BY <3>3 DEF JobApplied
  <2> QED
    BY <2>1, <2>2 DEF AllApplied
<1> QED
  BY <1>1, <1>2

LEMMA SyncApplies ==
    ASSUME Shaped, AllApplied, ~whole, NEW w \in Workers, Sync(w), [Next]_vars
    PROVE  AllApplied'
<1>0. PICK h : h = work[w]
  OBVIOUS
<1>1. /\ h \in Jobs /\ JobShaped(h) /\ JobApplied(h)
      /\ h.from \in 0..Len(feed) /\ h.to \in 0..Len(feed)
      /\ h.adds \cup h.dels \subseteq 1..Len(feed)
      /\ cursor \in 0..Len(feed)
  BY <1>0, Found DEF AllApplied
<1>2. /\ Applied(h.from)' /\ JobApplied(h)'
      /\ h.pc \notin {"idle", "attempt", "fetch"} => Based(h) /\ Based(h)'
      /\ whole' = whole
  BY <1>1, JobKeeps, Growth DEF JobApplied
<1>3. UNCHANGED cursor => Applied(cursor)'
  <2>1. PICK n \in 0..Len(feed) : n = cursor
    BY <1>1
  <2>2. Applied(n)'
    BY <2>1, AppliedKeeps DEF AllApplied
  <2> QED
    BY <2>1, <2>2 DEF Applied
<1>4. CASE Start(w)
  <2>1. PICK j \in Jobs : work' = [work EXCEPT ![w] = j] /\ j.pc = "attempt" /\ j.from = cursor
    BY <1>4, Started
  <2>2. UNCHANGED cursor
    BY <1>4 DEF Start
  <2>3. JobApplied(j)'
    BY <1>3, <2>1, <2>2 DEF JobApplied, Applied
  <2> QED
    BY <1>3, <2>1, <2>2, <2>3, AllMove
<1>5. CASE Attempt(w)
  <2>1. h.pc = "attempt" /\ work' = [work EXCEPT ![w] = Moved(h)] /\ cursor' = h.from
    BY <1>0, <1>5, Effects DEF Attempt, At
  <2>2. Moved(h) \in Jobs /\ JobApplied(Moved(h))'
    BY <1>1, <1>2, <2>1, MovedFacts, MovedApplied
  <2>3. Applied(cursor)'
    BY <1>2, <2>1 DEF Applied
  <2> QED
    BY <2>1, <2>2, <2>3, AllMove
<1>6. CASE Fetch(w)
  <2>1. h.pc = "fetch" /\ work' = [work EXCEPT ![w] = Moved(Arrived(h))] /\ UNCHANGED cursor
    BY <1>0, <1>6, Effects DEF Fetch, At
  <2>2. PICK j : j = Arrived(h)
    OBVIOUS
  <2>3. /\ j \in Jobs /\ j.pc = "fetch" /\ j.from = h.from /\ j.to = h.to
        /\ j.adds = {i \in 1..Len(feed) : InBatch(h, i) /\ ~IsGone(i)}
        /\ j.dels = {i \in 1..Len(feed) : InBatch(h, i) /\ IsGone(i)}
    BY <1>0, <1>1, <2>1, <2>2, ArrivedFacts
  <2>4. Based(j)'
    <3>1. \A i \in 1..Len(feed) : InBatch(h, i) <=> i \in (h.from + 1)..h.to
      BY DEF InBatch, After
    <3>2. (h.from + 1)..h.to \subseteq 1..Len(feed)
      BY <1>1
    <3>3. j.adds \cup j.dels = (j.from + 1)..j.to
      BY <2>3, <3>1, <3>2
    <3>4. UNCHANGED feed /\ shadowed' = shadowed \cup Shadows(j.adds)
      <4>1. j.adds = {i \in {k \in DOMAIN feed : InBatch(h, k)} : ~IsGone(i)}
        BY <1>1, <2>2 DEF Arrived, Jobs
      <4> QED
        BY <1>0, <1>6, <4>1 DEF Fetch, remote
    <3>5. ASSUME NEW i \in j.adds, NEW k \in j.adds, Row(k).source = Row(i).source, k < i
          PROVE  i \in Shadows(j.adds)
      <4>1. SameSource(j.adds, i) \in SUBSET Nat /\ k \in SameSource(j.adds, i)
        BY <2>3, <3>5 DEF SameSource, Jobs
      <4>2. First(SameSource(j.adds, i)) <= k
        BY <4>1, FirstIsLeast
      <4>3. First(SameSource(j.adds, i)) \in Nat /\ k \in Nat /\ i \in Nat
        BY <2>3, <4>1, FirstIsLeast DEF Jobs
      <4> QED
        BY <3>5, <4>2, <4>3 DEF Shadows, RecordFor
    <3> QED
      BY <2>3, <3>3, <3>4, <3>5 DEF Based, IsGone, Row
  <2>5. Moved(j) \in Jobs /\ JobApplied(Moved(j))'
    BY <1>2, <2>3, <2>4, MovedFacts, MovedApplied
  <2> QED
    BY <1>3, <2>1, <2>2, <2>5, AllMove
<1>7. CASE FetchFails(w)
  <2>1. work' = [work EXCEPT ![w] = Sleeping] /\ cursor' = h.from
    BY <1>0, <1>7, Effects DEF FetchFails
  <2>2. Applied(cursor)'
    BY <1>2, <2>1 DEF Applied
  <2> QED
    BY <2>1, <2>2, SleepingFacts, SleepingApplied, AllMove
<1>8. CASE ReadPrior(w)
  <2>1. /\ h.pc = "prior" /\ work' = [work EXCEPT ![w] = Moved(WithPrior(h))]
        /\ UNCHANGED cursor
    BY <1>0, <1>8, Effects DEF ReadPrior, At
  <2>2. PICK j : j = WithPrior(h)
    OBVIOUS
  <2>3. /\ j \in Jobs /\ j.pc = "prior" /\ j.from = h.from /\ j.to = h.to
        /\ j.adds = h.adds /\ j.dels = h.dels
    BY <1>1, <2>1, <2>2, WithPriorFacts
  <2>4. Based(j)'
    BY <1>2, <2>1, <2>3 DEF Based
  <2>5. Moved(j) \in Jobs /\ JobApplied(Moved(j))'
    BY <1>2, <2>3, <2>4, MovedFacts, MovedApplied
  <2> QED
    BY <1>3, <2>1, <2>2, <2>5, AllMove
<1>9. CASE Look(w)
  <2>1. h.pc = "look" /\ UNCHANGED cursor
    BY <1>0, <1>9 DEF Look, At
  <2>2. CASE Key(h).revision \in Stored(Key(h).source)
    <3>1. work' = [work EXCEPT ![w] = Stepped(h)]
      BY <1>0, <1>9, <2>2, Effects
    <3>2. PICK i \in h.adds : /\ i = First(h.left) /\ i \in 1..Len(feed) /\ ~IsGone(i)
                              /\ i \in shadowed \/ Key(h) = Row(i)
      BY <1>0, <1>2, <2>1, KeyOrShadow
    <3>3. StoredRow(i)'
      <4>1. StoredRow(i)
        BY <2>2, <3>2 DEF StoredRow, Stored
      <4> QED
        BY <3>2, <4>1, RowsKeep
    <3>4. \A k \in h.adds \ Rest(h) : StoredRow(k)'
      <4>1. \A k \in h.adds \ h.left : StoredRow(k)'
        BY <1>2, <2>1 DEF JobApplied
      <4>2. \A k \in h.adds \ Rest(h) : k = i \/ k \in h.adds \ h.left
        BY <3>2 DEF Rest
      <4> QED
        BY <3>3, <4>1, <4>2
    <3>5. Stepped(h) \in Jobs /\ JobApplied(Stepped(h))'
      BY <1>1, <1>2, <2>1, <3>4, SteppedFacts, SteppedApplied
    <3> QED
      BY <1>3, <2>1, <3>1, <3>5, AllMove
  <2>3. CASE Key(h).revision \notin Stored(Key(h).source)
    <3>1. work' = [work EXCEPT ![w] = Inserting(h)]
      BY <1>0, <1>9, <2>3, Effects
    <3>2. PICK j \in Jobs : /\ j = Inserting(h) /\ j.pc = "insert"
                            /\ j.from = h.from /\ j.to = h.to
                            /\ j.adds = h.adds /\ j.dels = h.dels /\ j.left = h.left
      BY <1>1, InsertingFacts
    <3>3. Based(j)'
      BY <1>2, <2>1, <3>2 DEF Based
    <3>4. JobApplied(j)'
      BY <1>2, <2>1, <3>2, <3>3 DEF JobApplied
    <3> QED
      BY <1>3, <2>1, <3>1, <3>2, <3>4, AllMove
  <2> QED
    BY <2>2, <2>3
<1>10. CASE Insert(w)
  <2>1. h.pc = "insert" /\ UNCHANGED cursor
    BY <1>0, <1>10 DEF Insert, At
  <2>2. CASE Key(h).revision \in Stored(Key(h).source)
    <3>1. work' = [work EXCEPT ![w] = Sleeping]
      BY <1>0, <1>10, <2>2, Effects
    <3> QED
      BY <1>3, <2>1, <3>1, SleepingFacts, SleepingApplied, AllMove
  <2>3. CASE Key(h).revision \notin Stored(Key(h).source)
    <3>1. work' = [work EXCEPT ![w] = Stepped(WithRecord(h))]
      BY <1>0, <1>10, <2>3, Effects
    <3>2. PICK i \in h.adds : /\ i = First(h.left) /\ i \in 1..Len(feed) /\ ~IsGone(i)
                              /\ i \in shadowed \/ Key(h) = Row(i)
      BY <1>0, <1>2, <2>1, KeyOrShadow
    <3>3. StoredRow(i)'
      <4>1. CASE i \in shadowed
        BY <4>1, Growth DEF StoredRow
      <4>2. CASE Key(h) = Row(i)
        <5>1. Row(i)' = Row(i) /\ Row(i).source \in Sources /\ Row(i).revision \in Revisions
          <6>1. Row(i)' = Row(i) /\ Row(i) \in Rows /\ Row(i).revision \in Revisions
            BY <3>2, RowsKeep
          <6> QED
            BY <6>1 DEF Rows
        <5>2. record' = [record EXCEPT ![Row(i).source][Row(i).revision] = "live"]
          BY <1>0, <1>10, <2>3, <4>2 DEF Insert
        <5>3. record'[Row(i).source][Row(i).revision] = "live"
          BY <5>1, <5>2 DEF Shaped, TablesShaped, Tables
        <5> QED
          BY <5>1, <5>3 DEF StoredRow
      <4> QED
        BY <3>2, <4>1, <4>2
    <3>4. Key(h) \in Rows
      BY <1>0, <2>1, KeyFacts
    <3>5. PICK j \in Jobs : /\ j = WithRecord(h) /\ j.pc = "look"
                            /\ j.from = h.from /\ j.to = h.to
                            /\ j.adds = h.adds /\ j.dels = h.dels /\ j.left = h.left
      BY <1>1, <3>4, WithRecordFacts
    <3>6. Based(j)'
      BY <1>2, <2>1, <3>5 DEF Based
    <3>7. \A k \in j.adds \ Rest(j) : StoredRow(k)'
      <4>1. \A k \in h.adds \ h.left : StoredRow(k)'
        BY <1>2, <2>1 DEF JobApplied
      <4>2. \A k \in j.adds \ Rest(j) : k = i \/ k \in h.adds \ h.left
        BY <3>2, <3>5 DEF Rest
      <4> QED
        BY <3>3, <4>1, <4>2
    <3>8. Stepped(j) \in Jobs /\ JobApplied(Stepped(j))'
      BY <1>2, <3>5, <3>6, <3>7, SteppedFacts, SteppedApplied
    <3> QED
      BY <1>3, <2>1, <3>1, <3>5, <3>8, AllMove
  <2> QED
    BY <2>2, <2>3
<1>11. CASE AddMany(w)
  <2>1. /\ h.pc = "index" /\ work' = [work EXCEPT ![w] = Moved(Indexed(h))]
        /\ UNCHANGED cursor
    BY <1>0, <1>11, Effects DEF AddMany, At
  <2>2. PICK j \in Jobs : /\ j = Indexed(h) /\ j.pc = "index"
                          /\ j.from = h.from /\ j.to = h.to
                          /\ j.adds = h.adds /\ j.dels = h.dels
    BY <1>1, <2>1, IndexedFacts
  <2>3. Based(j)'
    BY <1>2, <2>1, <2>2 DEF Based
  <2>4. \A i \in j.adds : StoredRow(i)'
    BY <1>2, <2>1, <2>2 DEF JobApplied
  <2>5. Moved(j) \in Jobs /\ JobApplied(Moved(j))'
    BY <1>2, <2>2, <2>3, <2>4, MovedFacts, MovedApplied
  <2> QED
    BY <1>3, <2>1, <2>2, <2>5, AllMove
<1>12. CASE RevokeIndexed(w)
  <2>1. /\ h.pc = "unindex" /\ work' = [work EXCEPT ![w] = Moved(h)]
        /\ UNCHANGED cursor
    BY <1>0, <1>12, Effects DEF RevokeIndexed, At
  <2>2. \A i \in h.adds : StoredRow(i)'
    BY <1>2, <2>1 DEF JobApplied
  <2>3. Moved(h) \in Jobs /\ JobApplied(Moved(h))'
    BY <1>1, <1>2, <2>1, <2>2, MovedFacts, MovedApplied
  <2> QED
    BY <1>3, <2>1, <2>3, AllMove
<1>13. CASE RevokeStored(w)
  <2>1. /\ h.pc = "revoke" /\ work' = [work EXCEPT ![w] = Stepped(h)]
        /\ UNCHANGED cursor
    BY <1>0, <1>13, Effects DEF RevokeStored, At
  <2>2. PICK i \in h.dels : /\ i = First(h.left) /\ i \in 1..Len(feed) /\ i \in (h.from + 1)..h.to
    <3>1. h.left # {} /\ h.left \subseteq h.dels /\ h.left \in SUBSET Nat
      BY <1>1, <2>1 DEF JobShaped, Jobs
    <3>2. First(h.left) \in h.dels
      BY <3>1, FirstIsLeast
    <3> QED
      BY <1>1, <1>2, <2>1, <3>2 DEF Based
  <2>3. EndedRow(i)'
    <3>1. UNCHANGED <<feed, shadowed>> /\ record' = Revoked(record, {Row(i).source})
      BY <1>0, <1>13, <2>2 DEF RevokeStored, remote, history, Item
    <3> SUFFICES ASSUME NEW k, k \in Published(Row(i).source), k \notin shadowed, k < i
                 PROVE  record'[Row(k).source][Row(k).revision] = "revoked"
      BY <3>1 DEF EndedRow, Published, Row
    <3>2. k \in 1..Len(feed) /\ ~IsGone(k) /\ Row(k).source = Row(i).source
      BY Growth DEF Published, IsGone, Row
    <3>3. StoredRow(k)
      <4>1. CASE k \in 1..h.from
        BY <1>1, <3>2, <4>1 DEF JobApplied, Applied
      <4>2. CASE k \in (h.from + 1)..h.to
        BY <1>1, <1>2, <2>1, <3>2, <4>2 DEF JobApplied, Based
      <4>3. k \in Nat /\ k >= 1 /\ h.from \in Nat /\ h.to \in Nat /\ i <= h.to /\ i \in Nat
        BY <1>1, <2>2, <3>2
      <4> QED
        BY <4>1, <4>2, <4>3
    <3>4. Row(k).source \in Sources /\ Row(k).revision \in Revisions
      BY <3>2, RowsKeep DEF Rows
    <3>5. record[Row(k).source][Row(k).revision] \in {"live", "revoked"}
      BY <3>3, <3>4 DEF StoredRow, Shaped, TablesShaped, Tables
    <3> QED
      BY <3>1, <3>2, <3>4, <3>5 DEF Revoked
  <2>4. \A k \in h.adds : StoredRow(k)'
    BY <1>2, <2>1 DEF JobApplied
  <2>5. \A k \in h.dels \ Rest(h) : EndedRow(k)'
    BY <1>2, <2>1, <2>2, <2>3 DEF JobApplied, Rest
  <2>6. Stepped(h) \in Jobs /\ JobApplied(Stepped(h))'
    BY <1>1, <1>2, <2>1, <2>4, <2>5, SteppedFacts, SteppedApplied
  <2> QED
    BY <1>3, <2>1, <2>6, AllMove
<1>14. CASE Save(w)
  <2>1. h.pc = "save" /\ work' = [work EXCEPT ![w] = Moved(h)] /\ cursor' = h.to
    BY <1>0, <1>14, Effects DEF Save, At
  <2>2. Moved(h) \in Jobs /\ JobApplied(Moved(h))'
    BY <1>1, <1>2, <2>1, MovedFacts, MovedApplied
  <2>3. Applied(h.to)'
    <3> SUFFICES ASSUME NEW i \in 1..h.to
                 PROVE  (IF IsGone(i) THEN EndedRow(i) ELSE StoredRow(i))'
      BY DEF Applied
    <3>1. i \in 1..Len(feed)
      BY <1>1
    <3>2. CASE i \in 1..h.from
      BY <1>2, <3>2 DEF Applied
    <3>3. CASE i \in (h.from + 1)..h.to
      <4>1. i \in h.adds \/ i \in h.dels
        BY <1>2, <2>1, <3>3 DEF Based
      <4>2. (i \in h.adds => ~IsGone(i)') /\ (i \in h.dels => IsGone(i)')
        BY <1>2, <2>1 DEF Based
      <4> QED
        BY <1>2, <2>1, <4>1, <4>2 DEF JobApplied
    <3> QED
      BY <1>1, <3>2, <3>3
  <2>4. Applied(cursor)'
    BY <2>1, <2>3 DEF Applied
  <2> QED
    BY <2>1, <2>2, <2>4, AllMove
<1>15. CASE ReviewRevised(w) \/ ReviewGone(w)
  <2>1. /\ h.pc \in {"review", "gone"} /\ work' = [work EXCEPT ![w] = Stepped(h)]
        /\ UNCHANGED cursor
    BY <1>0, <1>15, Effects DEF ReviewRevised, ReviewGone, At
  <2>2. Stepped(h) \in Jobs /\ JobApplied(Stepped(h))'
    BY <1>1, <1>2, <2>1, SteppedFacts, SteppedApplied
  <2> QED
    BY <1>3, <2>1, <2>2, AllMove
<1> QED
  BY <1>4, <1>5, <1>6, <1>7, <1>8, <1>9, <1>10, <1>11, <1>12, <1>13, <1>14, <1>15 DEF Sync

LEMMA StepsApply ==
    ASSUME Shaped, AllApplied, [Next]_vars
    PROVE  AllApplied'
<1>1. CASE whole
  BY <1>1, Growth DEF AllApplied
<1>2. ASSUME ~whole, NEW w \in Workers, Sync(w) PROVE AllApplied'
  BY <1>2, SyncApplies
<1>3. CASE UNCHANGED vars \/ (\E s \in Sources : Publish(s) \/ Withdraw(s))
           \/ (\E m \in Memories : Govern(m))
  BY <1>3, RestsApply DEF vars, Publish, Withdraw, Govern, Approve, Propose, Resolve
<1>4. ASSUME ~whole, Crash PROVE AllApplied'
  <2>1. Applied(cursor)'
    <3>1. PICK n \in 0..Len(feed) : n = cursor
      BY DEF Shaped, TablesShaped
    <3>2. Applied(n)'
      BY <1>4, <3>1, AppliedKeeps DEF AllApplied
    <3>3. cursor' = n
      BY <1>4, <3>1 DEF Crash
    <3> QED
      BY <3>2, <3>3 DEF Applied
  <2>2. \A v \in Workers : work'[v] = Sleeping
    BY <1>4 DEF Crash
  <2>3. \A v \in Workers : JobApplied(work[v])'
    BY <2>2, SleepingApplied DEF JobApplied
  <2> QED
    BY <2>1, <2>3 DEF AllApplied
<1> QED
  BY <1>1, <1>2, <1>3, <1>4 DEF Next, Govern

-----------------------------------------------------------------------------
(* The index lags behind the records by what the only sync has still to do *)

LEMMA SameTables ==
    ASSUME index' \in Tables, record' \in Tables,
           \A s \in Sources, r \in Revisions : index'[s][r] = record'[s][r]
    PROVE  index' = record'
<1>1. ASSUME NEW s \in Sources PROVE index'[s] = record'[s]
  BY DEF Tables
<1> QED
  BY <1>1 DEF Tables

LEMMA FreshOrSame ==
    ASSUME NEW h, h.fresh = {}, index' \in Tables, record' \in Tables
    PROVE  LacksFresh(h)' <=> index' = record'
<1>1. LacksFresh(h)' => index' = record'
  BY SameTables DEF LacksFresh
<1>2. index' = record' => LacksFresh(h)'
  BY DEF LacksFresh
<1> QED
  BY <1>1, <1>2

LEMMA RevokedNothing ==
    ASSUME NEW table \in Tables
    PROVE  Revoked(table, {}) = table
BY DEF Revoked, Tables

LEMMA MovedBehind ==
    ASSUME NEW h \in Jobs, h.pc \notin {"idle", "insert"},
           index' \in Tables, record' \in Tables,
           h.pc # "look" => h.fresh = {},
           h.pc # "unindex" => LacksFresh(h)',
           h.pc = "unindex" => index' = Revoked(record', SourcesOf(h.dels)')
    PROVE  Behind(Moved(h))'
<1>1. CASE Onward(h) = "idle"
  <2>1. h.pc \notin {"look", "unindex"}
    BY <1>1, NextStage DEF AfterLook, AfterIndex
  <2>2. index' = record'
    BY <2>1, FreshOrSame
  <2> QED
    BY <1>1, <2>2, MovedFacts, SleepingFacts DEF Behind
<1>2. CASE Onward(h) # "idle"
  <2>1. /\ Moved(h).pc = Onward(h) /\ Moved(h).left = Batch(h, Onward(h))
        /\ Moved(h).fresh = h.fresh
        /\ Onward(h) \notin {"attempt", "insert"}
    BY <1>2, MovedFacts
  <2>2. ASSUME Onward(h) \in {"look", "index"} PROVE LacksFresh(Moved(h))'
    <3>1. h.pc # "unindex"
      BY <2>2, NextStage
    <3> QED
      BY <2>1, <3>1 DEF LacksFresh
  <2>3. ASSUME Onward(h) = "revoke" PROVE index' = Revoked(record', SourcesOf(Moved(h).left)')
    <3>1. h.pc = "unindex"
      BY <2>3, NextStage DEF AfterLook, AfterIndex, AfterReview, Jobs, Pcs
    <3>2. Moved(h).left = h.dels
      BY <2>1, <2>3 DEF Batch
    <3> QED
      BY <3>1, <3>2 DEF SourcesOf
  <2>4. ASSUME Onward(h) \notin {"look", "index", "revoke"} PROVE index' = record'
    <3>1. CASE h.pc = "unindex"
      <4>1. h.dels = {}
        BY <2>4, <3>1, NextStage
      <4>2. SourcesOf(h.dels)' = {}
        BY <4>1 DEF SourcesOf
      <4> QED
        BY <3>1, <4>2, RevokedNothing
    <3>2. CASE h.pc # "unindex"
      <4>1. h.fresh = {}
        BY <2>4, NextStage DEF AfterLook
      <4> QED
        BY <3>2, <4>1, FreshOrSame
    <3> QED
      BY <3>1, <3>2
  <2> HIDE DEF Moved
  <2> QED
    BY <2>1, <2>2, <2>3, <2>4 DEF Behind
<1> QED
  BY <1>1, <1>2

LEMMA SteppedBehind ==
    ASSUME NEW h \in Jobs, h.pc \in {"look", "revoke", "review", "gone"},
           index' \in Tables, record' \in Tables,
           h.pc # "look" => h.fresh = {},
           h.pc # "revoke" => LacksFresh(h)',
           h.pc = "revoke" => index' = Revoked(record', SourcesOf(Rest(h))')
    PROVE  Behind(Stepped(h))'
<1>1. CASE Rest(h) = {}
  <2>1. h.pc = "revoke" => LacksFresh(h)'
    <3>1. SourcesOf(Rest(h))' = {}
      BY <1>1 DEF SourcesOf
    <3> QED
      BY <3>1, RevokedNothing, FreshOrSame
  <2> QED
    BY <1>1, <2>1, SteppedFacts, MovedBehind
<1>2. CASE Rest(h) # {}
  <2>1. /\ Stepped(h).pc = h.pc /\ Stepped(h).left = Rest(h)
        /\ Stepped(h).fresh = h.fresh
    BY <1>2, SteppedFacts
  <2>2. h.pc = "look" => LacksFresh(Stepped(h))'
    BY <2>1 DEF LacksFresh
  <2>3. h.pc = "revoke" => index' = Revoked(record', SourcesOf(Stepped(h).left)')
    BY <2>1 DEF SourcesOf
  <2>4. h.pc \in {"review", "gone"} => index' = record'
    BY FreshOrSame
  <2> HIDE DEF Stepped
  <2> QED
    BY <2>1, <2>2, <2>3, <2>4 DEF Behind
<1> QED
  BY <1>1, <1>2

LEMMA OnlyMove ==
    ASSUME Shaped, Searchable, alone, ~crashed, NEW w \in Workers, work[w].pc # "idle",
           NEW j \in Jobs, work' = [work EXCEPT ![w] = j], Behind(j)'
    PROVE  Searchable'
<1>1. work'[w] = j /\ \A v \in Workers : v # w => work'[v] = work[v]
  BY DEF Shaped, WorkShaped
<1>2. \A v \in Workers : v # w => work'[v].pc = "idle"
  BY <1>1 DEF Searchable
<1>3. j.pc = "idle" => index' = record'
  BY DEF Behind
<1>4. Quiet' => j.pc = "idle"
  BY <1>1 DEF Quiet, At
<1>5. \A u, v \in Workers : work'[u].pc # "idle" /\ work'[v].pc # "idle" => u = v
  BY <1>2
<1>6. ASSUME NEW v \in Workers, work'[v].pc # "idle" PROVE Behind(work[v])'
  <2>1. work'[v] = j
    BY <1>1, <1>2, <1>6
  <2> QED
    BY <2>1 DEF Behind, LacksFresh, SourcesOf, Key, RecordFor, SameSource, Row, Stored
<1> QED
  BY <1>3, <1>4, <1>5, <1>6 DEF Searchable

LEMMA RestsSearch ==
    ASSUME Shaped, Searchable, [Next]_vars,
           UNCHANGED <<record, index, work, alone, crashed>>
    PROVE  Searchable'
<1> SUFFICES ASSUME alone, ~crashed
             PROVE  /\ \A v, w \in Workers : work[v].pc # "idle" /\ work[w].pc # "idle" => v = w
                    /\ Quiet => index = record
                    /\ \A w \in Workers : work[w].pc # "idle" => Behind(work[w])'
  BY DEF Searchable, Quiet, At
<1>1. ASSUME NEW w \in Workers, work[w].pc # "idle" PROVE Behind(work[w])'
  <2>1. PICK h : h = work[w] /\ work'[w] = h
    OBVIOUS
  <2>2. /\ Behind(h) /\ h \in Jobs /\ JobShaped(h)
        /\ h.adds \subseteq 1..Len(feed) /\ h.dels \subseteq 1..Len(feed)
    BY <1>1, <2>1, Found DEF Searchable
  <2>3. \A i \in h.adds \cup h.dels : Row(i)' = Row(i)
    BY <2>2, RowsKeep
  <2>4. LacksFresh(h) => LacksFresh(h)'
    BY DEF LacksFresh
  <2>5. ASSUME h.pc = "insert" PROVE Key(h)' = Key(h)
    <3>1. PICK k \in h.adds : /\ Key(h) = Row(k) /\ First(h.left) \in h.adds
                              /\ k = First(SameSource(h.adds, First(h.left)))
      BY <2>1, <2>5, KeyFacts
    <3>2. SameSource(h.adds, First(h.left))' = SameSource(h.adds, First(h.left))
      BY <2>3, <3>1 DEF SameSource
    <3> QED
      BY <2>3, <3>1, <3>2 DEF Key, RecordFor
  <2>6. ASSUME h.pc = "revoke" PROVE SourcesOf(h.left)' = SourcesOf(h.left)
    <3>1. h.left \subseteq h.dels
      BY <2>2, <2>6 DEF JobShaped
    <3> QED
      BY <2>3, <3>1 DEF SourcesOf
  <2>7. Behind(h)'
    BY <2>2, <2>4, <2>5, <2>6 DEF Behind, Stored
  <2> QED
    BY <2>1, <2>7 DEF Behind, LacksFresh, SourcesOf, Key, RecordFor, SameSource, Row, Stored
<1> QED
  BY <1>1 DEF Searchable

LEMMA StartSearches ==
    ASSUME Shaped, Searchable, NEW w \in Workers, Start(w)
    PROVE  Searchable'
<1> SUFFICES ASSUME alone, Quiet, ~crashed PROVE Searchable'
  BY DEF Start, Searchable
<1>1. PICK j \in Jobs : work' = [work EXCEPT ![w] = j] /\ j.pc = "attempt"
  BY Started
<1>2. work'[w] = j /\ \A v \in Workers : v # w => work'[v].pc = "idle"
  BY <1>1 DEF Shaped, WorkShaped, Quiet, At
<1>3. index' = record'
  BY DEF Start, Searchable
<1>4. \A v \in Workers : work'[v].pc # "idle" => v = w
  BY <1>2
<1>5. Behind(work[w])'
  BY <1>1, <1>2, <1>3 DEF Behind
<1> QED
  BY <1>3, <1>4, <1>5 DEF Searchable

LEMMA SyncSearches ==
    ASSUME Shaped, Shaped', Searchable, alone, ~crashed, NEW w \in Workers, Sync(w), ~Start(w)
    PROVE  Searchable'
<1>0. PICK h : h = work[w]
  OBVIOUS
<1>1. /\ h \in Jobs /\ JobShaped(h)
      /\ index \in Tables /\ record \in Tables /\ index' \in Tables /\ record' \in Tables
      /\ h.pc \notin {"look", "insert", "index"} => h.fresh = {}
  BY <1>0, Found DEF JobShaped, Shaped, TablesShaped
<1>2. h.pc # "idle" /\ UNCHANGED feed
  BY <1>0 DEF Sync, At, remote, Attempt, Fetch, FetchFails, ReadPrior, Look, Insert, AddMany,
     RevokeIndexed, RevokeStored, Save, ReviewRevised, ReviewGone
<1>3. Behind(h)
  BY <1>0, <1>2 DEF Searchable
<1>4. \A j \in Jobs : work' = [work EXCEPT ![w] = j] /\ Behind(j)' => Searchable'
  BY <1>0, <1>2, OnlyMove
<1>5. h.pc \notin {"look", "insert", "index", "revoke"} /\ UNCHANGED <<index, record>> =>
        index' = record' /\ LacksFresh(h)'
  BY <1>1, <1>3, FreshOrSame DEF Behind
<1>6. CASE Attempt(w) \/ Save(w)
  <2>1. /\ h.pc \in {"attempt", "save"} /\ work' = [work EXCEPT ![w] = Moved(h)]
        /\ UNCHANGED <<index, record>>
    BY <1>0, <1>6, Effects DEF Attempt, Save, At
  <2> QED
    BY <1>1, <1>4, <1>5, <2>1, MovedFacts, MovedBehind
<1>7. CASE Fetch(w)
  <2>1. /\ h.pc = "fetch" /\ work' = [work EXCEPT ![w] = Moved(Arrived(h))]
        /\ UNCHANGED <<index, record>>
    BY <1>0, <1>7, Effects DEF Fetch, At
  <2>2. PICK j \in Jobs : j = Arrived(h) /\ j.pc = "fetch" /\ j.fresh = {}
    BY <1>0, <2>1, ArrivedFacts
  <2>3. LacksFresh(j)'
    BY <1>1, <1>5, <2>1, <2>2, FreshOrSame
  <2> QED
    BY <1>1, <1>4, <2>1, <2>2, <2>3, MovedFacts, MovedBehind
<1>8. CASE FetchFails(w)
  <2>1. /\ h.pc = "fetch" /\ work' = [work EXCEPT ![w] = Sleeping]
        /\ UNCHANGED <<index, record>>
    BY <1>0, <1>8, Effects DEF FetchFails, At
  <2>2. Behind(Sleeping)'
    BY <1>5, <2>1, SleepingFacts DEF Behind
  <2> QED
    BY <1>4, <2>1, <2>2, SleepingFacts
<1>9. CASE ReadPrior(w)
  <2>1. /\ h.pc = "prior" /\ work' = [work EXCEPT ![w] = Moved(WithPrior(h))]
        /\ UNCHANGED <<index, record>>
    BY <1>0, <1>9, Effects DEF ReadPrior, At
  <2>2. PICK j \in Jobs : j = WithPrior(h) /\ j.pc = "prior" /\ j.fresh = {}
    BY <1>1, <2>1, WithPriorFacts
  <2>3. LacksFresh(j)'
    BY <1>1, <1>5, <2>1, <2>2, FreshOrSame
  <2> QED
    BY <1>1, <1>4, <2>1, <2>2, <2>3, MovedFacts, MovedBehind
<1>10. CASE Look(w)
  <2>1. h.pc = "look" /\ UNCHANGED <<index, record>>
    BY <1>0, <1>10 DEF Look, At
  <2>2. LacksFresh(h)'
    BY <1>3, <2>1 DEF Behind, LacksFresh
  <2>3. CASE Key(h).revision \in Stored(Key(h).source)
    <3>1. work' = [work EXCEPT ![w] = Stepped(h)]
      BY <1>0, <1>10, <2>3, Effects
    <3> QED
      BY <1>1, <1>4, <2>1, <2>2, <3>1, SteppedFacts, SteppedBehind
  <2>4. CASE Key(h).revision \notin Stored(Key(h).source)
    <3>1. work' = [work EXCEPT ![w] = Inserting(h)]
      BY <1>0, <1>10, <2>4, Effects
    <3>2. PICK j \in Jobs : /\ j = Inserting(h) /\ j.pc = "insert" /\ j.fresh = h.fresh
                            /\ j.adds = h.adds /\ j.left = h.left
      BY <1>1, InsertingFacts
    <3>3. Key(j)' = Key(h)
      BY <1>2, <3>2 DEF Key, RecordFor, SameSource, Row
    <3>4. LacksFresh(j)'
      BY <2>2, <3>2 DEF LacksFresh
    <3>5. Behind(j)'
      BY <2>1, <2>4, <3>2, <3>3, <3>4 DEF Behind, Stored
    <3> QED
      BY <1>4, <3>1, <3>2, <3>5
  <2> QED
    BY <2>3, <2>4
<1>11. CASE Insert(w)
  <2>1. h.pc = "insert" /\ UNCHANGED index
    BY <1>0, <1>11 DEF Insert, At
  <2>2. PICK k \in Rows : k = Key(h)
    BY <1>0, <2>1, KeyFacts
  <2>3. k.revision \notin Stored(k.source) /\ LacksFresh(h)
    BY <1>3, <2>1, <2>2 DEF Behind
  <2>4. /\ work' = [work EXCEPT ![w] = Stepped(WithRecord(h))]
        /\ record' = [record EXCEPT ![k.source][k.revision] = "live"]
    BY <1>0, <1>11, <2>2, <2>3, Effects DEF Insert
  <2>5. PICK j \in Jobs : /\ j = WithRecord(h) /\ j.pc = "look"
                          /\ j.fresh = h.fresh \cup {k}
    BY <1>1, <2>2, WithRecordFacts
  <2>6. LacksFresh(j)'
    <3> SUFFICES ASSUME NEW s \in Sources, NEW r \in Revisions
                 PROVE  IF [source |-> s, revision |-> r] \in j.fresh
                        THEN index'[s][r] = "absent" /\ record'[s][r] = "live"
                        ELSE index'[s][r] = record'[s][r]
      BY <2>5 DEF LacksFresh
    <3>1. [source |-> s, revision |-> r] = k <=> s = k.source /\ r = k.revision
      BY DEF Rows
    <3>2. CASE s = k.source /\ r = k.revision
      <4>1. record[s][r] = "absent"
        BY <2>3, <3>2 DEF Stored
      <4>2. index[s][r] = "absent"
        BY <2>3, <4>1 DEF LacksFresh
      <4>3. record'[s][r] = "live"
        BY <1>1, <2>4, <3>2 DEF Tables
      <4> QED
        BY <2>1, <2>5, <3>1, <3>2, <4>2, <4>3
    <3>3. CASE ~(s = k.source /\ r = k.revision)
      <4>1. record'[s][r] = record[s][r]
        BY <1>1, <2>4, <3>3 DEF Tables
      <4>2. [source |-> s, revision |-> r] \in j.fresh <=>
              [source |-> s, revision |-> r] \in h.fresh
        BY <2>5, <3>1, <3>3
      <4> QED
        BY <2>1, <2>3, <4>1, <4>2 DEF LacksFresh
    <3> QED
      BY <3>2, <3>3
  <2> QED
    BY <1>1, <1>4, <2>4, <2>5, <2>6, SteppedFacts, SteppedBehind
<1>12. CASE AddMany(w)
  <2>1. /\ h.pc = "index" /\ work' = [work EXCEPT ![w] = Moved(Indexed(h))]
        /\ UNCHANGED record
    BY <1>0, <1>12, Effects DEF AddMany, At
  <2>2. PICK j \in Jobs : j = Indexed(h) /\ j.pc = "index" /\ j.fresh = {}
    BY <1>1, <2>1, IndexedFacts
  <2>3. LacksFresh(h)
    BY <1>3, <2>1 DEF Behind
  <2>4. ASSUME NEW s \in Sources, NEW r \in Revisions PROVE index'[s][r] = record'[s][r]
    <3>1. index'[s][r] = IF [source |-> s, revision |-> r] \in h.fresh THEN "live"
                         ELSE index[s][r]
      BY <1>0, <1>12 DEF AddMany
    <3> QED
      BY <2>1, <2>3, <3>1 DEF LacksFresh
  <2>5. LacksFresh(j)'
    BY <1>1, <2>2, <2>4, SameTables, FreshOrSame
  <2> QED
    BY <1>1, <1>4, <2>1, <2>2, <2>5, MovedFacts, MovedBehind
<1>13. CASE RevokeIndexed(w)
  <2>1. /\ h.pc = "unindex" /\ work' = [work EXCEPT ![w] = Moved(h)]
        /\ UNCHANGED record
    BY <1>0, <1>13, Effects DEF RevokeIndexed, At
  <2>2. index' = Revoked(index, SourcesOf(h.dels)) /\ index = record
    BY <1>0, <1>3, <1>13, <2>1 DEF RevokeIndexed, SourcesOf, Behind
  <2>3. index' = Revoked(record', SourcesOf(h.dels)')
    BY <1>2, <2>1, <2>2 DEF SourcesOf, Row
  <2> QED
    BY <1>1, <1>4, <2>1, <2>3, MovedFacts, MovedBehind
<1>14. CASE RevokeStored(w)
  <2>1. /\ h.pc = "revoke" /\ work' = [work EXCEPT ![w] = Stepped(h)]
        /\ UNCHANGED index
    BY <1>0, <1>14, Effects DEF RevokeStored, At
  <2>2. PICK i \in h.left : /\ i = First(h.left) /\ h.left = Rest(h) \cup {i}
                            /\ record' = Revoked(record, {Row(i).source})
    <3>1. h.left # {} /\ h.left \in SUBSET Nat
      BY <1>1, <2>1 DEF JobShaped, Jobs
    <3>2. First(h.left) \in h.left
      BY <3>1, FirstIsLeast
    <3> QED
      BY <1>0, <1>14, <3>2 DEF RevokeStored, Item, Rest
  <2>3. index = Revoked(record, SourcesOf(h.left))
    BY <1>3, <2>1 DEF Behind
  <2>4. SourcesOf(h.left) = SourcesOf(Rest(h)) \cup {Row(i).source}
    BY <2>2 DEF SourcesOf
  <2>5. Revoked(Revoked(record, {Row(i).source}), SourcesOf(Rest(h)))
          = Revoked(record, SourcesOf(h.left))
    BY <2>4 DEF Revoked
  <2>6. SourcesOf(Rest(h))' = SourcesOf(Rest(h))
    BY <1>2 DEF SourcesOf, Row
  <2>7. index' = Revoked(record', SourcesOf(Rest(h))')
    BY <2>1, <2>2, <2>3, <2>5, <2>6
  <2> QED
    BY <1>1, <1>4, <2>1, <2>7, SteppedFacts, SteppedBehind
<1>15. CASE ReviewRevised(w) \/ ReviewGone(w)
  <2>1. /\ h.pc \in {"review", "gone"} /\ work' = [work EXCEPT ![w] = Stepped(h)]
        /\ UNCHANGED <<index, record>>
    BY <1>0, <1>15, Effects DEF ReviewRevised, ReviewGone, At
  <2> QED
    BY <1>1, <1>4, <1>5, <2>1, SteppedFacts, SteppedBehind
<1> QED
  BY <1>6, <1>7, <1>8, <1>9, <1>10, <1>11, <1>12, <1>13, <1>14, <1>15 DEF Sync

LEMMA StepsSearch ==
    ASSUME Shaped, Shaped', Searchable, [Next]_vars
    PROVE  Searchable'
<1>1. CASE UNCHANGED vars \/ (\E s \in Sources : Publish(s) \/ Withdraw(s))
           \/ (\E m \in Memories : Govern(m))
  BY <1>1, RestsSearch DEF vars, history, Publish, Withdraw, Govern, Approve, Propose, Resolve
<1>2. ASSUME NEW w \in Workers, Sync(w), ~Start(w) PROVE Searchable'
  <2>1. UNCHANGED <<alone, crashed>>
    BY <1>2 DEF Sync, history, Attempt, Fetch, FetchFails, ReadPrior, Look, Insert, AddMany,
       RevokeIndexed, RevokeStored, Save, ReviewRevised, ReviewGone
  <2>2. CASE alone /\ ~crashed
    BY <1>2, <2>2, SyncSearches
  <2>3. CASE ~alone \/ crashed
    BY <2>1, <2>3 DEF Searchable
  <2> QED
    BY <2>2, <2>3
<1>3. ASSUME NEW w \in Workers, Start(w) PROVE Searchable'
  BY <1>3, StartSearches
<1>4. CASE Crash
  BY <1>4 DEF Crash, Searchable
<1> QED
  BY <1>1, <1>2, <1>3, <1>4 DEF Next, Govern

-----------------------------------------------------------------------------
(* Memories that do not know of a row are found by its review *)

LEMMA StepsGround ==
    ASSUME Shaped, Grounded, [Next]_vars
    PROVE  Grounded'
<1> SUFFICES ASSUME NEW m \in Memories, memory'[m] # NoRecord
             PROVE  record'[memory'[m].source][memory'[m].revision] # "absent"
  BY DEF Grounded
<1>1. memory[m] \in Records \cup {NoRecord}
  BY DEF Shaped, GovernedShaped
<1>2. CASE memory'[m] # NoRecord /\ memory[m] # NoRecord
           /\ memory'[m].source = memory[m].source /\ memory'[m].revision = memory[m].revision
  <2>1. memory[m].source \in Sources /\ memory[m].revision \in Revisions
    BY <1>1, <1>2 DEF Records
  <2>2. RecordMoves(memory[m].source, memory[m].revision)
    BY <2>1, RecordSteps
  <2> QED
    BY <1>2, <2>2 DEF Grounded, RecordMoves
<1>3. CASE memory'[m] = memory[m]
  BY <1>2, <1>3
<1>4. ASSUME NEW n \in Memories, Approve(n) PROVE memory'[m] = memory[m] \/ m = n
  BY <1>4 DEF Approve, Shaped, GovernedShaped
<1>5. ASSUME Approve(m)
      PROVE  /\ memory[m] # NoRecord
             /\ memory'[m].source = memory[m].source /\ memory'[m].revision = memory[m].revision
  <2>1. memory[m] \in Records /\ memory[m] # NoRecord
    BY <1>1, <1>5 DEF Approve, NoRecord
  <2>2. memory'[m] = [memory[m] EXCEPT !.status = "active", !.after = taken \cup UnderWay]
    BY <1>5 DEF Approve, Shaped, GovernedShaped
  <2> QED
    BY <2>1, <2>2 DEF Records
<1>6. ASSUME NEW n \in Memories, NEW s \in Sources, NEW r \in Revisions, Propose(n, s, r),
             memory'[m] # memory[m]
      PROVE  record'[memory'[m].source][memory'[m].revision] # "absent"
  <2>1. memory'[m].source = s /\ memory'[m].revision = r
    BY <1>6 DEF Propose, Shaped, GovernedShaped
  <2> QED
    BY <1>6, <2>1 DEF Propose
<1>7. ASSUME NEW n \in Memories, Govern(n)
      PROVE  record'[memory'[m].source][memory'[m].revision] # "absent"
  <2>1. CASE Approve(n)
    BY <1>2, <1>3, <1>4, <1>5, <2>1
  <2>2. CASE \E t \in Triggers : Resolve(n, t)
    BY <1>3, <2>2 DEF Resolve
  <2> QED
    BY <1>3, <1>6, <1>7, <2>1, <2>2 DEF Govern
<1>8. CASE UNCHANGED memory
  BY <1>3, <1>8
<1>9. ASSUME NEW w \in Workers, Sync(w) PROVE UNCHANGED memory
  BY <1>9 DEF Sync, governed, Start, Attempt, Fetch, FetchFails, ReadPrior, Look, Insert, AddMany,
     RevokeIndexed, RevokeStored, Save, ReviewRevised, ReviewGone
<1>10. CASE UNCHANGED vars \/ Crash \/ \E s \in Sources : Publish(s) \/ Withdraw(s)
  BY <1>8, <1>10 DEF vars, governed, Crash, Publish, Withdraw
<1> QED
  BY <1>7, <1>8, <1>9, <1>10 DEF Next, Govern

(* A memory that does not know of a row did not know of it before, or has just
   come to be, after the syncs that brought the row. *)
LEMMA UnawareSteps ==
    ASSUME Shaped, [Next]_vars, NEW m \in Memories, NEW i \in 1..Len(feed), Unaware(m, i)'
    PROVE  \/ Unaware(m, i) /\ memory'[m] = memory[m]
           \/ i \notin taken \cup UnderWay /\ UNCHANGED <<taken, work>>
<1>1. Row(i)' = Row(i)
  BY RowsKeep
<1>2. CASE memory'[m] = memory[m]
  BY <1>1, <1>2 DEF Unaware
<1>3. ASSUME NEW n \in Memories, Govern(n), memory'[m] # memory[m]
      PROVE  i \notin taken \cup UnderWay /\ UNCHANGED <<taken, work>>
  <2>1. CASE Approve(n)
    <3>1. m = n /\ UNCHANGED <<taken, work>>
      BY <1>3, <2>1 DEF Approve, history, Shaped, GovernedShaped
    <3>2. memory'[m].after = taken \cup UnderWay
      <4>1. memory[m] \in Records
        <5>1. memory[m] \in Records \cup {NoRecord}
          BY DEF Shaped, GovernedShaped
        <5> QED
          BY <2>1, <3>1, <5>1 DEF Approve, NoRecord
      <4>2. memory'[m] = [memory[m] EXCEPT !.status = "active", !.after = taken \cup UnderWay]
        BY <2>1, <3>1 DEF Approve, Shaped, GovernedShaped
      <4> QED
        BY <4>1, <4>2 DEF Records
    <3> QED
      BY <3>1, <3>2 DEF Unaware
  <2>2. ASSUME NEW s \in Sources, NEW r \in Revisions, Propose(n, s, r) PROVE FALSE
    <3>1. memory'[m].status = "pending"
      BY <1>3, <2>2 DEF Propose, Shaped, GovernedShaped
    <3> QED
      BY <3>1 DEF Unaware
  <2>3. ~ \E t \in Triggers : Resolve(n, t)
    BY <1>3 DEF Resolve
  <2> QED
    BY <1>3, <2>1, <2>2, <2>3 DEF Govern
<1>4. ASSUME NEW w \in Workers, Sync(w) PROVE UNCHANGED memory
  BY <1>4 DEF Sync, governed, Start, Attempt, Fetch, FetchFails, ReadPrior, Look, Insert, AddMany,
     RevokeIndexed, RevokeStored, Save, ReviewRevised, ReviewGone
<1>5. UNCHANGED vars \/ Crash \/ (\E s \in Sources : Publish(s) \/ Withdraw(s)) => UNCHANGED memory
  BY DEF vars, governed, Crash, Publish, Withdraw
<1> QED
  BY <1>2, <1>3, <1>4, <1>5 DEF Next, Govern

LEMMA JobLooks ==
    ASSUME Shaped, [Next]_vars, NEW w \in Workers, NEW h \in Jobs, h = work[w], JobLooked(h)
    PROVE  JobLooked(h)'
<1>1. h.adds \cup h.dels \subseteq 1..Len(feed) /\ h.adds \subseteq 1..h.to
  BY Found DEF JobShaped
<1>2. \A i \in h.dels : IsGone(i)'
  BY <1>1, RowsKeep DEF JobLooked
<1>3. ASSUME h.pc \notin {"idle", "attempt", "fetch", "prior"},
             NEW m \in Memories, NEW i \in h.adds, Unaware(m, i)'
      PROVE  memory'[m].revision \in h.prior[memory'[m].source]
  <2>1. i \in UnderWay
    BY <1>1, <1>3 DEF UnderWay, At
  <2>2. Unaware(m, i) /\ memory'[m] = memory[m]
    BY <1>1, <1>3, <2>1, UnawareSteps
  <2> QED
    BY <1>3, <2>2 DEF JobLooked
<1> QED
  BY <1>2, <1>3 DEF JobLooked

LEMMA MovedLooked ==
    ASSUME NEW h \in Jobs, h.pc \notin {"idle", "insert"},
           \A i \in h.dels : IsGone(i)',
           h.pc # "attempt" => \/ Onward(h) = "prior" \/ h.adds = {}
                               \/ \A m \in Memories : \A i \in h.adds : Unaware(m, i)' =>
                                   memory'[m].revision \in h.prior[memory'[m].source]
    PROVE  JobLooked(Moved(h))'
<1>1. CASE Onward(h) = "idle"
  <2>1. Moved(h) = Sleeping
    BY <1>1, MovedFacts
  <2> QED
    BY <2>1 DEF JobLooked, Sleeping, Job
<1>2. CASE Onward(h) # "idle"
  <2>1. /\ Moved(h).pc = Onward(h) /\ Moved(h).dels = h.dels
        /\ Moved(h).adds = h.adds /\ Moved(h).prior = h.prior
        /\ h.pc = "attempt" => Onward(h) = "fetch"
    BY <1>2, MovedFacts, NextStage
  <2> HIDE DEF Moved
  <2> QED
    BY <2>1 DEF JobLooked
<1> QED
  BY <1>1, <1>2

LEMMA SteppedLooked ==
    ASSUME NEW h \in Jobs, h.pc \in {"look", "revoke", "review", "gone"}, JobLooked(h)'
    PROVE  JobLooked(Stepped(h))'
<1>1. CASE Rest(h) = {}
  BY <1>1, SteppedFacts, MovedLooked DEF JobLooked
<1>2. CASE Rest(h) # {}
  <2>1. /\ Stepped(h).pc = h.pc /\ Stepped(h).dels = h.dels
        /\ Stepped(h).adds = h.adds /\ Stepped(h).prior = h.prior
    BY <1>2, SteppedFacts
  <2> HIDE DEF Stepped
  <2> QED
    BY <2>1 DEF JobLooked
<1> QED
  BY <1>1, <1>2
LEMMA LookMoves ==
    ASSUME Shaped, Looked, [Next]_vars, NEW w \in Workers, NEW j,
           work' = [work EXCEPT ![w] = j], JobLooked(j)'
    PROVE  Looked'
<1>1. work'[w] = j /\ \A v \in Workers : v # w => work'[v] = work[v]
  BY DEF Shaped, WorkShaped
<1>2. ASSUME NEW v \in Workers PROVE JobLooked(work[v])'
  <2>1. CASE v = w
    BY <1>1, <2>1 DEF JobLooked
  <2>2. CASE v # w
    <3>1. PICK h : h = work[v]
      OBVIOUS
    <3>2. h \in Jobs /\ JobLooked(h)
      BY <3>1, Found DEF Looked
    <3>3. JobLooked(h)'
      BY <3>1, <3>2, JobLooks
    <3> QED
      BY <1>1, <2>2, <3>1, <3>3 DEF JobLooked
  <2> QED
    BY <2>1, <2>2
<1> QED
  BY <1>2 DEF Looked

LEMMA RestsLook ==
    ASSUME Shaped, Looked, [Next]_vars, UNCHANGED work
    PROVE  Looked'
<1>1. ASSUME NEW v \in Workers PROVE JobLooked(work[v])'
  <2>1. PICK h : h = work[v]
    OBVIOUS
  <2>2. h \in Jobs /\ JobLooked(h)
    BY <2>1, Found DEF Looked
  <2>3. JobLooked(h)'
    BY <2>1, <2>2, JobLooks
  <2> QED
    BY <2>1, <2>3 DEF JobLooked
<1> QED
  BY <1>1 DEF Looked

(* The revision a memory cites is among those that are read before the batch. *)
LEMMA PriorLooks ==
    ASSUME Shaped, Grounded, NEW w \in Workers, NEW h, h = work[w], ReadPrior(w)
    PROVE  \A m \in Memories : \A i \in h.adds : Unaware(m, i)' =>
             memory'[m].revision \in WithPrior(h).prior[memory'[m].source]
<1> SUFFICES ASSUME NEW m \in Memories, NEW i \in h.adds, Unaware(m, i)'
             PROVE  memory'[m].revision \in WithPrior(h).prior[memory'[m].source]
  OBVIOUS
<1>1. h \in Jobs /\ i \in 1..Len(feed) /\ feed[i] \in Rows /\ UNCHANGED <<feed, memory>>
  BY Found DEF ReadPrior, remote, governed
<1>2. memory[m].source = Row(i).source /\ memory[m].status = "active"
  BY <1>1 DEF Unaware, Row
<1>3. memory[m] \in Records
  BY <1>2 DEF Shaped, GovernedShaped, NoRecord
<1>4. memory[m].source \in Sources /\ memory[m].revision \in Revisions /\ memory[m] # NoRecord
  BY <1>2, <1>3 DEF Records, NoRecord
<1>5. WithPrior(h).prior[memory[m].source] = Stored(memory[m].source)
  BY <1>1, <1>2, <1>4, WithPriorFacts
<1>6. memory[m].revision \in Stored(memory[m].source)
  BY <1>4 DEF Grounded, Stored
<1> QED
  BY <1>1, <1>5, <1>6

LEMMA SyncLooks ==
    ASSUME Shaped, Grounded, Looked, NEW w \in Workers, Sync(w), [Next]_vars
    PROVE  Looked'
<1>0. PICK h : h = work[w]
  OBVIOUS
<1>1. /\ h \in Jobs /\ JobShaped(h) /\ JobLooked(h) /\ UNCHANGED feed
      /\ h.adds \cup h.dels \subseteq 1..Len(feed)
  BY <1>0, Found DEF Looked, Sync, remote, Start, Attempt, Fetch, FetchFails, ReadPrior, Look,
     Insert, AddMany, RevokeIndexed, RevokeStored, Save, ReviewRevised, ReviewGone
<1>2. JobLooked(h)'
  BY <1>0, <1>1, JobLooks
<1>3. JobLooked(Sleeping)'
  BY DEF JobLooked, Sleeping, Job
<1>4. ASSUME NEW j \in Jobs, j.pc \notin {"idle", "attempt", "fetch", "prior", "insert"},
             JobLooked(j)'
      PROVE  JobLooked(Moved(j))'
  BY <1>4, MovedLooked DEF JobLooked
<1>5. CASE Start(w)
  <2>1. PICK j \in Jobs : work' = [work EXCEPT ![w] = j] /\ j.pc = "attempt" /\ JobShaped(j)
    BY <1>5, Started
  <2>2. JobLooked(j)'
    BY <2>1 DEF JobShaped, JobLooked
  <2> QED
    BY <2>1, <2>2, LookMoves
<1>6. CASE Attempt(w)
  <2>1. h.pc = "attempt" /\ work' = [work EXCEPT ![w] = Moved(h)]
    BY <1>0, <1>6, Effects DEF Attempt, At
  <2>2. JobLooked(Moved(h))'
    BY <1>1, <1>2, <2>1, MovedLooked DEF JobLooked
  <2> QED
    BY <2>1, <2>2, LookMoves
<1>7. CASE Fetch(w)
  <2>1. h.pc = "fetch" /\ work' = [work EXCEPT ![w] = Moved(Arrived(h))]
    BY <1>0, <1>7, Effects DEF Fetch, At
  <2>2. PICK j : j = Arrived(h)
    OBVIOUS
  <2>3. /\ j \in Jobs /\ j.pc = "fetch"
        /\ j.dels = {i \in 1..Len(feed) : InBatch(h, i) /\ IsGone(i)}
    BY <1>0, <2>1, <2>2, ArrivedFacts
  <2>4. \A i \in j.dels : IsGone(i)'
    BY <1>1, <2>3 DEF IsGone
  <2>5. Onward(j) = "prior" \/ j.adds = {}
    BY <2>3, NextStage
  <2>6. JobLooked(Moved(j))'
    BY <2>3, <2>4, <2>5, MovedLooked
  <2> QED
    BY <2>1, <2>2, <2>6, LookMoves
<1>8. CASE FetchFails(w)
  BY <1>0, <1>3, <1>8, Effects, LookMoves
<1>9. CASE ReadPrior(w)
  <2>1. h.pc = "prior" /\ work' = [work EXCEPT ![w] = Moved(WithPrior(h))]
    BY <1>0, <1>9, Effects DEF ReadPrior, At
  <2>2. PICK j : j = WithPrior(h)
    OBVIOUS
  <2>3. j \in Jobs /\ j.pc = "prior" /\ j.adds = h.adds /\ j.dels = h.dels
    BY <1>1, <2>1, <2>2, WithPriorFacts
  <2>4. \A m \in Memories : \A i \in j.adds : Unaware(m, i)' =>
          memory'[m].revision \in j.prior[memory'[m].source]
    BY <1>0, <1>9, <2>2, <2>3, PriorLooks
  <2>5. \A i \in j.dels : IsGone(i)'
    BY <1>2, <2>3 DEF JobLooked
  <2>6. JobLooked(Moved(j))'
    BY <2>3, <2>4, <2>5, MovedLooked
  <2> QED
    BY <2>1, <2>2, <2>6, LookMoves
<1>10. CASE Look(w)
  <2>1. h.pc = "look"
    BY <1>0, <1>10 DEF Look, At
  <2>2. CASE work' = [work EXCEPT ![w] = Stepped(h)]
    BY <1>1, <1>2, <2>1, <2>2, SteppedLooked, LookMoves
  <2>3. CASE work' = [work EXCEPT ![w] = Inserting(h)]
    <3>1. PICK j : j = Inserting(h)
      OBVIOUS
    <3>2. j.adds = h.adds /\ j.dels = h.dels /\ j.prior = h.prior
      BY <1>1, <3>1, InsertingFacts
    <3>3. JobLooked(j)'
      BY <1>2, <2>1, <3>2 DEF JobLooked
    <3> QED
      BY <2>3, <3>1, <3>3, LookMoves
  <2> QED
    BY <1>0, <1>10, <2>2, <2>3, Effects
<1>11. CASE Insert(w)
  <2>1. h.pc = "insert"
    BY <1>0, <1>11 DEF Insert, At
  <2>2. CASE work' = [work EXCEPT ![w] = Sleeping]
    BY <1>3, <2>2, LookMoves
  <2>3. CASE work' = [work EXCEPT ![w] = Stepped(WithRecord(h))]
    <3>1. PICK j : j = WithRecord(h)
      OBVIOUS
    <3>2. Key(h) \in Rows
      BY <1>0, <2>1, KeyFacts
    <3>3. j \in Jobs /\ j.pc = "look" /\ j.adds = h.adds /\ j.dels = h.dels /\ j.prior = h.prior
      BY <1>1, <3>1, <3>2, WithRecordFacts
    <3>4. JobLooked(j)'
      BY <1>2, <2>1, <3>3 DEF JobLooked
    <3> QED
      BY <2>3, <3>1, <3>3, <3>4, SteppedLooked, LookMoves
  <2> QED
    BY <1>0, <1>11, <2>2, <2>3, Effects
<1>12. CASE AddMany(w)
  <2>1. h.pc = "index" /\ work' = [work EXCEPT ![w] = Moved(Indexed(h))]
    BY <1>0, <1>12, Effects DEF AddMany, At
  <2>2. PICK j : j = Indexed(h)
    OBVIOUS
  <2>3. j \in Jobs /\ j.pc = "index" /\ j.adds = h.adds /\ j.dels = h.dels /\ j.prior = h.prior
    BY <1>1, <2>1, <2>2, IndexedFacts
  <2>4. JobLooked(j)'
    BY <1>2, <2>1, <2>3 DEF JobLooked
  <2> QED
    BY <1>4, <2>1, <2>2, <2>3, <2>4, LookMoves
<1>13. CASE RevokeIndexed(w) \/ Save(w)
  <2>1. h.pc \in {"unindex", "save"} /\ work' = [work EXCEPT ![w] = Moved(h)]
    BY <1>0, <1>13, Effects DEF RevokeIndexed, Save, At
  <2> QED
    BY <1>1, <1>2, <1>4, <2>1, LookMoves
<1>14. CASE RevokeStored(w) \/ ReviewRevised(w) \/ ReviewGone(w)
  <2>1. h.pc \in {"revoke", "review", "gone"} /\ work' = [work EXCEPT ![w] = Stepped(h)]
    BY <1>0, <1>14, Effects DEF RevokeStored, ReviewRevised, ReviewGone, At
  <2> QED
    BY <1>1, <1>2, <2>1, SteppedLooked, LookMoves
<1> QED
  BY <1>5, <1>6, <1>7, <1>8, <1>9, <1>10, <1>11, <1>12, <1>13, <1>14 DEF Sync

LEMMA StepsLook ==
    ASSUME Shaped, Grounded, Looked, [Next]_vars
    PROVE  Looked'
<1>1. CASE UNCHANGED vars \/ (\E s \in Sources : Publish(s) \/ Withdraw(s))
           \/ (\E m \in Memories : Govern(m))
  BY <1>1, RestsLook DEF vars, Publish, Withdraw, Govern, Approve, Propose, Resolve
<1>2. ASSUME NEW w \in Workers, Sync(w) PROVE Looked'
  BY <1>2, SyncLooks
<1>3. CASE Crash
  <2>1. ASSUME NEW w \in Workers PROVE JobLooked(work[w])'
    <3>1. work'[w] = Sleeping
      BY <1>3 DEF Crash
    <3> QED
      BY <3>1 DEF JobLooked, Sleeping, Job
  <2> QED
    BY <2>1 DEF Looked
<1> QED
  BY <1>1, <1>2, <1>3 DEF Next, Govern
-----------------------------------------------------------------------------
(* Reviews are opened, or somebody is about to open them *)

LEMMA ReviewsStay ==
    ASSUME Shaped, [Next]_vars, NEW m \in Memories, NEW t \in Triggers,
           review[m][t] # "none"
    PROVE  review'[m][t] # "none"
<1>1. CASE UNCHANGED review
  BY <1>1
<1>2. ASSUME NEW M, NEW u, Open(M, u) PROVE review'[m][t] # "none"
  BY <1>2 DEF Open, Shaped, GovernedShaped
<1>3. ASSUME NEW n \in Memories, NEW u \in Triggers, Resolve(n, u) PROVE review'[m][t] # "none"
  BY <1>3 DEF Resolve, Shaped, GovernedShaped
<1>4. ASSUME NEW w \in Workers, Sync(w) PROVE UNCHANGED review \/ \E M, u : Open(M, u)
  <2>1. CASE ReviewRevised(w)
    BY <2>1 DEF ReviewRevised
  <2>2. CASE ReviewGone(w)
    BY <2>2 DEF ReviewGone
  <2>3. CASE ~ReviewRevised(w) /\ ~ReviewGone(w)
    BY <1>4, <2>3 DEF Sync, governed, Start, Attempt, Fetch, FetchFails, ReadPrior, Look,
       Insert, AddMany, RevokeIndexed, RevokeStored, Save
  <2> QED
    BY <2>1, <2>2, <2>3
<1>5. CASE UNCHANGED vars \/ Crash \/ \E s \in Sources : Publish(s) \/ Withdraw(s)
  BY <1>1, <1>5 DEF vars, governed, Crash, Publish, Withdraw
<1>6. ASSUME NEW n \in Memories, Approve(n) \/ \E s \in Sources, r \in Revisions : Propose(n, s, r)
      PROVE  UNCHANGED review
  BY <1>6 DEF Approve, Propose
<1> QED
  BY <1>1, <1>2, <1>3, <1>4, <1>5, <1>6 DEF Next

Watched(m, i) == \/ review[m][Row(i).revision] # "none"
                 \/ \E w \in Workers : ToReview(work[w], i)

(* A sync that saves its success goes on to the reviews of its batch. *)
LEMMA SavedIsWatched ==
    ASSUME Shaped, NEW w \in Workers, NEW h, h = work[w], Save(w),
           NEW i \in h.adds \cup h.dels
    PROVE  ToReview(work[w], i)'
<1>1. h \in Jobs /\ h.pc = "save" /\ work' = [work EXCEPT ![w] = Moved(h)]
  BY Found, Effects DEF Save, At
<1>2. work'[w] = Moved(h)
  BY <1>1 DEF Shaped, WorkShaped
<1>3. Onward(h) = IF h.adds # {} THEN "review" ELSE IF h.dels # {} THEN "gone" ELSE "idle"
  BY <1>1, NextStage DEF AfterReview
<1>4. /\ Moved(h).pc = Onward(h)
      /\ Onward(h) # "idle" => Moved(h).left = Batch(h, Onward(h)) /\ Moved(h).dels = h.dels
  BY <1>1, MovedFacts
<1>5. PICK j : j = Moved(h)
  OBVIOUS
<1>6. ToReview(j, i)
  BY <1>3, <1>4, <1>5 DEF ToReview, Batch
<1> QED
  BY <1>2, <1>5, <1>6 DEF ToReview

(* The next row of a review is done, the others are still to do. *)
LEMMA StillToReview ==
    ASSUME NEW h \in Jobs, JobShaped(h), NEW i, ToReview(h, i),
           i # First(h.left) \/ i \notin h.left
    PROVE  ToReview(Stepped(h), i)
<1>1. h.pc \in {"review", "gone"}
  BY DEF ToReview
<1>2. i \in h.left => i \in Rest(h)
  BY DEF Rest
<1>3. PICK j : j = Stepped(h)
  OBVIOUS
<1>4. CASE Rest(h) # {}
  <2>1. j.pc = h.pc /\ j.left = Rest(h) /\ j.dels = h.dels
    BY <1>1, <1>3, <1>4, SteppedFacts
  <2>2. ToReview(j, i)
    BY <1>2, <2>1 DEF ToReview
  <2> QED
    BY <1>3, <2>2
<1>5. CASE Rest(h) = {}
  <2>1. h.pc = "review" /\ i \in h.dels
    BY <1>2, <1>5 DEF ToReview
  <2>2. Onward(h) = "gone" /\ Batch(h, "gone") = h.dels
    BY <2>1, NextStage DEF AfterReview, Batch
  <2>3. j = Moved(h)
    BY <1>1, <1>3, <1>5, SteppedFacts
  <2>4. j.pc = "gone" /\ j.left = h.dels
    BY <1>1, <2>2, <2>3, MovedFacts
  <2>5. ToReview(j, i)
    BY <2>1, <2>4 DEF ToReview
  <2> QED
    BY <1>3, <2>5
<1> QED
  BY <1>4, <1>5

(* What a review stage does for a memory that does not know of the row. *)
LEMMA ReviewWatches ==
    ASSUME Shaped, Looked, NEW w \in Workers, NEW h, h = work[w],
           ReviewRevised(w) \/ ReviewGone(w),
           NEW m \in Memories, NEW i \in 1..Len(feed), Unaware(m, i), ToReview(h, i)
    PROVE  \/ review'[m][Row(i).revision] # "none"
           \/ ToReview(work[w], i)'
<1>1. h \in Jobs /\ JobShaped(h) /\ JobLooked(h) /\ feed[i] \in Rows
  BY Found DEF Looked
<1>2. work' = [work EXCEPT ![w] = Stepped(h)]
  BY Effects
<1>3. work'[w] = Stepped(h)
  BY <1>2 DEF Shaped, WorkShaped
<1>4. CASE i # First(h.left) \/ i \notin h.left
  <2>1. PICK j : j = Stepped(h)
    OBVIOUS
  <2>2. ToReview(j, i)
    BY <1>1, <1>4, <2>1, StillToReview
  <2> QED
    BY <1>3, <2>1, <2>2 DEF ToReview
<1>5. CASE i = First(h.left) /\ i \in h.left
  <2>0. PICK row : row = Row(i)
    OBVIOUS
  <2>1. Item(h) = row /\ row \in Rows
    BY <1>1, <1>5, <2>0 DEF Item, Row
  <2>2. /\ memory[m].status = "active" /\ memory[m].source = row.source
        /\ memory[m].revision # row.revision
    BY <2>0 DEF Unaware
  <2>3. memory[m] \in Records
    BY <2>2 DEF Shaped, GovernedShaped, NoRecord
  <2>4. memory[m].revision \in Revisions /\ row.revision \in Triggers
    BY <2>1, <2>3 DEF Records, Rows
  <2>5. \A M : m \in M /\ Open(M, row.revision) => review'[m][row.revision] # "none"
    BY <2>4 DEF Open, Shaped, GovernedShaped
  <2>6. CASE ReviewRevised(w)
    <3>1. h.pc = "review" /\ i \in h.adds
      BY <1>1, <1>5, <2>6 DEF ReviewRevised, At, JobShaped
    <3>2. memory[m].revision \in h.prior[row.source]
      BY <1>1, <2>2, <3>1 DEF JobLooked
    <3>3. m \in Citing(row.source, h.prior[row.source] \ {row.revision})
      BY <2>2, <3>2 DEF Citing
    <3>4. Open(Citing(row.source, h.prior[row.source] \ {row.revision}), row.revision)
      BY <2>1, <2>6 DEF ReviewRevised
    <3> QED
      BY <2>0, <2>5, <3>3, <3>4
  <2>7. CASE ReviewGone(w)
    <3>1. h.pc = "gone" /\ i \in h.dels
      BY <1>1, <1>5, <2>7 DEF ReviewGone, At, JobShaped
    <3>2. row.revision = Gone
      BY <1>1, <2>0, <3>1 DEF JobLooked, IsGone, Row
    <3>3. m \in Citing(row.source, Revisions)
      BY <2>2, <2>4 DEF Citing
    <3>4. Open(Citing(row.source, Revisions), row.revision)
      BY <2>1, <2>7, <3>2 DEF ReviewGone
    <3> QED
      BY <2>0, <2>5, <3>3, <3>4
  <2> QED
    BY <2>6, <2>7
<1> QED
  BY <1>4, <1>5

LEMMA OthersKeepTaken ==
    ASSUME [Next]_vars, ~Crash, \A w \in Workers : ~Save(w)
    PROVE  UNCHANGED <<taken, crashed>>
<1>1. CASE UNCHANGED vars \/ (\E s \in Sources : Publish(s) \/ Withdraw(s))
           \/ (\E m \in Memories : Govern(m))
  BY <1>1 DEF vars, history, Publish, Withdraw, Govern, Approve, Propose, Resolve
<1>2. ASSUME NEW w \in Workers, Sync(w) PROVE UNCHANGED <<taken, crashed>>
  BY <1>2 DEF Sync, history, Start, Attempt, Fetch, FetchFails, ReadPrior, Look, Insert, AddMany,
     RevokeIndexed, RevokeStored, ReviewRevised, ReviewGone
<1> QED
  BY <1>1, <1>2 DEF Next, Govern

(* Only its own sync ends what is to review. *)
LEMMA ToReviewStays ==
    ASSUME Shaped, Looked, [Next]_vars, ~Crash, NEW v \in Workers,
           NEW m \in Memories, NEW i \in 1..Len(feed), Unaware(m, i), ToReview(work[v], i)
    PROVE  review'[m][Row(i).revision] # "none" \/ ToReview(work[v], i)'
<1>1. PICK h : h = work[v]
  OBVIOUS
<1>2. ToReview(h, i) /\ h.pc \in {"review", "gone"}
  BY <1>1 DEF ToReview
<1>3. CASE ReviewRevised(v) \/ ReviewGone(v)
  BY <1>1, <1>2, <1>3, ReviewWatches
<1>4. CASE work'[v] = work[v]
  BY <1>1, <1>2, <1>4 DEF ToReview
<1>5. ASSUME Sync(v) PROVE ReviewRevised(v) \/ ReviewGone(v)
  BY <1>1, <1>2, <1>5 DEF Sync, At, Start, Attempt, Fetch, FetchFails, ReadPrior, Look, Insert,
     AddMany, RevokeIndexed, RevokeStored, Save
<1>6. ASSUME NEW w \in Workers, Sync(w), w # v PROVE work'[v] = work[v]
  <2>1. PICK g : g = work[w]
    OBVIOUS
  <2>2. \E j : work' = [work EXCEPT ![w] = j]
    <3>1. CASE Start(w)
      BY <3>1 DEF Start
    <3>2. CASE ~Start(w)
      BY <1>6, <2>1, <3>2, Effects DEF Sync
    <3> QED
      BY <3>1, <3>2
  <2> QED
    BY <1>6, <2>2 DEF Shaped, WorkShaped
<1>7. CASE UNCHANGED vars \/ (\E s \in Sources : Publish(s) \/ Withdraw(s))
           \/ (\E n \in Memories : Govern(n))
  BY <1>4, <1>7 DEF vars, Publish, Withdraw, Govern, Approve, Propose, Resolve
<1> QED
  BY <1>3, <1>4, <1>5, <1>6, <1>7 DEF Next, Govern

LEMMA StepsReview ==
    ASSUME Shaped, Looked, Reviewed, [Next]_vars
    PROVE  Reviewed'
<1> SUFFICES ASSUME whole' \/ ~crashed', NEW m \in Memories, NEW i \in taken', Unaware(m, i)'
             PROVE  Watched(m, i)'
  BY DEF Reviewed, Watched
<1>1. taken \subseteq 1..Len(feed) /\ whole' = whole
  BY Growth DEF Shaped, HistoryShaped
<1>2. CASE Crash
  BY <1>1, <1>2 DEF Crash
<1>3. CASE ~Crash /\ i \in taken
  <2>1. i \in 1..Len(feed) /\ Row(i)' = Row(i) /\ Row(i) \in Rows
    BY <1>1, <1>3, RowsKeep
  <2>2. Unaware(m, i)
    BY <1>3, <2>1, UnawareSteps
  <2>3. crashed' = crashed
    <3>1. CASE \E w \in Workers : Save(w)
      BY <3>1 DEF Save
    <3> QED
      BY <1>3, <3>1, OthersKeepTaken
  <2>4. Watched(m, i)
    BY <1>1, <1>3, <2>2, <2>3 DEF Reviewed, Watched
  <2>5. Row(i).revision \in Triggers
    BY <2>1 DEF Rows
  <2>6. CASE review[m][Row(i).revision] # "none"
    BY <2>1, <2>5, <2>6, ReviewsStay DEF Watched
  <2>7. ASSUME NEW v \in Workers, ToReview(work[v], i) PROVE Watched(m, i)'
    <3>1. review'[m][Row(i).revision] # "none" \/ ToReview(work[v], i)'
      BY <1>3, <2>1, <2>2, <2>7, ToReviewStays
    <3> QED
      BY <2>1, <3>1 DEF Watched
  <2> QED
    BY <2>4, <2>6, <2>7 DEF Watched
<1>4. CASE ~Crash /\ i \notin taken
  <2>1. PICK w \in Workers : Save(w)
    BY <1>4, OthersKeepTaken
  <2>2. PICK h : h = work[w]
    OBVIOUS
  <2>3. i \in h.adds \cup h.dels
    BY <1>4, <2>1, <2>2 DEF Save
  <2>4. ToReview(work[w], i)'
    BY <2>1, <2>2, <2>3, SavedIsWatched
  <2> QED
    BY <2>4 DEF Watched
<1> QED
  BY <1>2, <1>3, <1>4
-----------------------------------------------------------------------------
(* The theorems *)

LEMMA Initially ==
    ASSUME Init
    PROVE  IInv
<1>1. Len(feed) = 0 /\ feed \in Seq(Rows) /\ cursor = 0
  BY DEF Init
<1>2. \A w \in Workers : work[w] = Sleeping
  BY DEF Init
<1>3. Shaped
  <2>1. FeedShaped /\ TablesShaped
    BY <1>1, SyncAssumption, BlankShaped DEF Init, FeedShaped, TablesShaped
  <2>2. GovernedShaped
    BY DEF Init, GovernedShaped, NoRecord
  <2>3. ASSUME NEW w \in Workers PROVE JobShaped(work[w])
    BY <1>2, <2>3, SleepingFacts DEF JobShaped
  <2>4. WorkShaped
    BY <2>3, SleepingFacts DEF Init, WorkShaped
  <2>5. HistoryShaped
    BY DEF Init, HistoryShaped
  <2> QED
    BY <2>1, <2>2, <2>4, <2>5 DEF Shaped
<1>4. Applied(0)
  BY DEF Applied
<1>5. JobApplied(Sleeping) /\ JobLooked(Sleeping)
  BY <1>4, SleepingFacts DEF JobApplied, JobLooked, Sleeping, Job
<1>6. AllApplied
  BY <1>1, <1>2, <1>4, <1>5 DEF AllApplied
<1>7. Searchable
  BY <1>2, SleepingFacts DEF Init, Searchable
<1>8. Grounded /\ Reviewed
  BY DEF Init, Grounded, Reviewed, NoRecord
<1>9. Looked
  BY <1>2, <1>5 DEF Looked
<1> QED
  BY <1>3, <1>6, <1>7, <1>8, <1>9 DEF IInv

LEMMA EachStep ==
    ASSUME IInv, [Next]_vars
    PROVE  IInv'
<1>1. Shaped'
  BY StepsShape DEF IInv
<1>2. AllApplied'
  BY StepsApply DEF IInv
<1>3. Searchable'
  BY <1>1, StepsSearch DEF IInv
<1>4. Grounded' /\ Looked'
  BY StepsGround, StepsLook DEF IInv
<1>5. Reviewed'
  BY StepsReview DEF IInv
<1> QED
  BY <1>1, <1>2, <1>3, <1>4, <1>5 DEF IInv

LEMMA Invariance == Spec => []IInv
BY Initially, EachStep, PTL DEF Spec

(* Cursors, tables, memories and running syncs keep their types: a cursor never
   passes the rows that were written, and a batch holds rows that exist
   (connector_sync.py, source_store.py). *)
THEOREM Typed == Spec => []TypeOK
<1>1. IInv => TypeOK
  <2> SUFFICES ASSUME Shaped PROVE TypeOK
    BY DEF IInv
  <2>1. ASSUME NEW w \in Workers
        PROVE  /\ work[w].from \in 0..Len(feed) /\ work[w].to \in 0..Len(feed)
               /\ work[w].adds \cup work[w].dels \subseteq DOMAIN feed
    BY Found
  <2>2. ASSUME NEW m \in Memories
        PROVE  \/ memory[m] = [status |-> "absent"]
               \/ /\ memory[m].status \in {"pending", "active"}
                  /\ memory[m].source \in Sources /\ memory[m].revision \in Revisions
    BY DEF Shaped, GovernedShaped, Records, NoRecord
  <2> QED
    BY <2>1, <2>2 DEF Shaped, FeedShaped, TablesShaped, GovernedShaped, TypeOK
<1> QED
  BY <1>1, Invariance, PTL

(* Behind the cursor every row was applied, although overlapping syncs save
   cursors they read long ago and the process may die between the tables
   (sync_connector saves the cursor last). *)
THEOREM AppliedBehindCursor == Spec => []TakenIsApplied
<1>1. IInv => TakenIsApplied
  BY DEF IInv, AllApplied, Applied, StoredRow, EndedRow, TakenIsApplied
<1> QED
  BY <1>1, Invariance, PTL

(* When no sync runs, none ever overlapped another and the process lived on,
   the evidence index and the stored records agree on every revision
   (apply_sync_batch). *)
THEOREM SearchIsExact == Spec => []SearchAgreesWithRecords
<1>1. IInv => SearchAgreesWithRecords
  BY DEF IInv, Searchable, SearchAgreesWithRecords
<1> QED
  BY <1>1, Invariance, PTL

(* Each active memory that a row of a finished sync made outdated has a review
   about that row, whatever was approved meanwhile (sync_connector reads the
   older revisions before it applies the batch and reviews after it). *)
THEOREM OutdatedMemoriesAreReviewed == Spec => []OutdatedIsReviewed
<1>1. IInv => OutdatedIsReviewed
  <2>1. ASSUME NEW w \in Workers, NEW i, ToReview(work[w], i) PROVE ~Quiet
    BY <2>1 DEF ToReview, Quiet, At
  <2> QED
    BY <2>1 DEF IInv, Reviewed, Unaware, OutdatedIsReviewed
<1> QED
  BY <1>1, Invariance, PTL

(* A stored revision is never replaced, deleted or made valid again
   (source_store.py: put and revoke). *)
THEOREM RecordsNeverReturn == Spec => RecordsAreAppendOnly
<1>1. IInv /\ [Next]_vars =>
        [\A s \in Sources, r \in Revisions :
           record'[s][r] # record[s][r] =>
             <<record[s][r], record'[s][r]>> \in
                {<<"absent", "live">>, <<"live", "revoked">>}]_vars
  BY RecordSteps DEF IInv, RecordMoves
<1> QED
  BY <1>1, Invariance, PTL DEF Spec, RecordsAreAppendOnly

(* A review that somebody resolved stays resolved, whatever the syncs read again
   (memory_review_queue.py: one review for each memory and trigger). *)
THEOREM ResolvedIsFinal == Spec => ResolvedStaysResolved
<1>1. IInv /\ [Next]_vars =>
        [\A m \in Memories, t \in Triggers :
           review[m][t] = "resolved" => review'[m][t] = "resolved"]_vars
  BY ReviewSteps DEF IInv, ReviewStays
<1> QED
  BY <1>1, Invariance, PTL DEF Spec, ResolvedStaysResolved
=============================================================================
