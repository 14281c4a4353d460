----------------------------- MODULE SourceSync -----------------------------
(* The synchronisation of one connector of a project: rows of a source system
   become immutable source records and searchable evidence, withdrawn rows are
   revoked, the cursor moves on, and the memories that cite an older revision
   get a review.

   Code: application/connector_sync.py, the connectors of context/connectors,
   context/source_store.py, context/store.py, context/memory_review_queue.py,
   application/memory_review_service.py.

   The cursor, the records and the reviews are tables; the index is in memory
   and starts empty.  Syncs are started by routes on the event loop and by a
   Hermes tool in a worker thread, so two of them interleave at any statement;
   memories are proposed, approved and reviewed by routes on the thread pool. *)
EXTENDS Naturals, Sequences, FiniteSets

CONSTANTS
  Workers,     \* syncs that run at a time
  Sources,     \* ids of the source system
  Memories,    \* proposals, and the memories they become
  MaxRows      \* bound: rows the source system writes

ASSUME SyncAssumption == MaxRows \in Nat

VARIABLES
  feed,        \* the rows of the source system: a revision, or Gone
  whole,       \* each read returns what is there now; otherwise new rows
  cursor,      \* rows the connector need not read again
  record,      \* source_records
  index,       \* the evidence index
  memory,      \* proposals and memories with the revision they cite
  review,      \* memory_reviews, by memory and trigger key
  work,        \* what a running sync remembers
  taken,       \* history: rows of the syncs that succeeded
  shadowed,    \* history: rows read behind another row of their source
  alone,       \* history: no two syncs ever ran at a time
  crashed      \* history: the process died

vars == <<feed, whole, cursor, record, index, memory, review, work, taken,
          shadowed, alone, crashed>>
remote == <<feed, whole>>
governed == <<memory, review>>
history == <<taken, shadowed, alone, crashed>>

Gone == 0
Revisions == 1..MaxRows
Triggers == Revisions \cup {Gone}
Rows == [source : Sources, revision : Triggers]

(* A batch is a set of rows, worked through in the order of the rows: "left" are
   those the stage still handles. *)
Job(pc, from, to) ==
  [pc |-> pc, from |-> from, to |-> to, adds |-> {}, dels |-> {}, left |-> {},
   prior |-> [s \in Sources |-> {}], fresh |-> {}]

Sleeping == Job("idle", 0, 0)

Blank == [s \in Sources |-> [r \in Revisions |-> "absent"]]

Init ==
  /\ feed = <<>> /\ whole \in BOOLEAN
  /\ cursor = 0
  /\ record = Blank /\ index = Blank
  /\ memory = [m \in Memories |-> [status |-> "absent"]]
  /\ review = [m \in Memories |-> [t \in Triggers |-> "none"]]
  /\ work = [w \in Workers |-> Sleeping]
  /\ taken = {} /\ shadowed = {} /\ alone = TRUE /\ crashed = FALSE

Stored(s) == {r \in Revisions : record[s][r] # "absent"}

-----------------------------------------------------------------------------
(* The source system *)

Published(s) == {i \in DOMAIN feed : feed[i].source = s /\ feed[i].revision # Gone}

(* A new revision, or the end of one: connectors that read what is there now
   never learn of the end. *)
Publish(s) ==
  /\ Len(feed) < MaxRows
  /\ feed' = Append(feed, [source |-> s, revision |-> Cardinality(Published(s)) + 1])
  /\ UNCHANGED <<whole, cursor, record, index, governed, work, history>>

Withdraw(s) ==
  /\ ~whole
  /\ Len(feed) < MaxRows
  /\ feed' = Append(feed, [source |-> s, revision |-> Gone])
  /\ UNCHANGED <<whole, cursor, record, index, governed, work, history>>

-----------------------------------------------------------------------------
(* sync_connector *)

Batch(h, pc) == IF pc \in {"revoke", "gone"} THEN h.dels ELSE h.adds

(* Stages that have nothing to do are passed over. *)
AfterIndex(h) == IF h.dels # {} THEN "unindex" ELSE "save"
AfterLook(h) == IF h.fresh # {} THEN "index" ELSE AfterIndex(h)
AfterReview(h) == IF h.dels # {} THEN "gone" ELSE "idle"

Onward(h) ==
  CASE h.pc = "attempt" -> "fetch"
    [] h.pc = "fetch"   -> IF h.adds # {} THEN "prior" ELSE AfterLook(h)
    [] h.pc = "prior"   -> IF h.adds # {} THEN "look" ELSE AfterLook(h)
    [] h.pc = "look"    -> AfterLook(h)
    [] h.pc = "index"   -> AfterIndex(h)
    [] h.pc = "unindex" -> IF h.dels # {} THEN "revoke" ELSE "save"
    [] h.pc = "revoke"  -> "save"
    [] h.pc = "save"    -> IF h.adds # {} THEN "review" ELSE AfterReview(h)
    [] h.pc = "review"  -> AfterReview(h)
    [] h.pc = "gone"    -> "idle"

First(S) == CHOOSE i \in S : \A j \in S : i <= j

Return(w) == work' = [work EXCEPT ![w] = Sleeping]
Proceed(w, h) ==
  LET next == Onward(h)
  IN IF next = "idle" THEN Return(w)
     ELSE work' = [work EXCEPT ![w] = [h EXCEPT !.pc = next, !.left = Batch(h, next)]]
Step(w, h) ==
  LET left == h.left \ {First(h.left)}
  IN IF left = {} THEN Proceed(w, h)
     ELSE work' = [work EXCEPT ![w] = [h EXCEPT !.left = left]]
At(w, pc) == work[w].pc = pc
Row(i) == feed[i]

Quiet == \A w \in Workers : At(w, "idle")

(* The rows are loaded and the last state is read. *)
Start(w) ==
  /\ At(w, "idle")
  /\ work' = [work EXCEPT ![w] = Job("attempt", cursor, Len(feed))]
  /\ alone' = (alone /\ Quiet)
  /\ UNCHANGED <<remote, cursor, record, index, governed, taken, shadowed, crashed>>

(* Mutant: the attempt is saved with the cursor the sync is to reach. *)
AttemptAhead(w) ==
  /\ At(w, "attempt")
  /\ cursor' = work[w].to
  /\ Proceed(w, work[w])
  /\ UNCHANGED <<remote, record, index, governed, history>>

(* The attempt is saved, with the cursor that was read. *)
Attempt(w) ==
  /\ At(w, "attempt")
  /\ cursor' = work[w].from
  /\ Proceed(w, work[w])
  /\ UNCHANGED <<remote, record, index, governed, history>>

(* The rows of a batch: those after the cursor, or, read without one, the last
   of each source. *)
After(h, i) == i \in (h.from + 1)..h.to
Latest(i) == \A j \in DOMAIN feed : feed[j].source = feed[i].source => j <= i
InBatch(h, i) == IF whole THEN Latest(i) ELSE After(h, i)

IsGone(i) == feed[i].revision = Gone
SameSource(S, i) == {j \in S : Row(j).source = Row(i).source}

(* The record an item is stored as: the first of the batch with its source. *)
RecordFor(adds, i) == First(SameSource(adds, i))

Shadows(adds) == {i \in adds : RecordFor(adds, i) # i}

Fetch(w) ==
  LET h == work[w]
      batch == {i \in DOMAIN feed : InBatch(h, i)}
      adds == {i \in batch : ~IsGone(i)}
  IN /\ At(w, "fetch")
     /\ Proceed(w, [h EXCEPT !.adds = adds, !.dels = batch \ adds,
                             !.to = IF whole THEN Len(feed) ELSE @])
     /\ shadowed' = shadowed \cup Shadows(adds)
     /\ UNCHANGED <<remote, cursor, record, index, governed, taken, alone, crashed>>

(* The connector raises: the failure is saved with the cursor of the attempt. *)
FetchFails(w) ==
  /\ At(w, "fetch")
  /\ cursor' = work[w].from
  /\ Return(w)
  /\ UNCHANGED <<remote, record, index, governed, history>>

Item(h) == Row(First(h.left))

(* The revisions that are stored before the batch is applied. *)
ReadPrior(w) ==
  LET h == work[w]
      read == {Row(i).source : i \in h.adds}
  IN /\ At(w, "prior")
     /\ Proceed(w, [h EXCEPT !.prior =
                      [s \in Sources |-> IF s \in read THEN Stored(s) ELSE {}]])
     /\ UNCHANGED <<remote, cursor, record, index, governed, history>>

(* put: the row is looked up; a known revision is not stored or indexed again. *)
Key(h) == Row(RecordFor(h.adds, First(h.left)))

Look(w) ==
  LET h == work[w]
      k == Key(h)
  IN /\ At(w, "look")
     /\ IF k.revision \in Stored(k.source) THEN Step(w, h)
        ELSE work' = [work EXCEPT ![w].pc = "insert"]
     /\ UNCHANGED <<remote, cursor, record, index, governed, history>>

(* Mutant: INSERT OR REPLACE. *)
Replace(w) ==
  LET h == work[w]
      k == Key(h)
  IN /\ At(w, "insert")
     /\ record' = [record EXCEPT ![k.source][k.revision] = "live"]
     /\ Step(w, [h EXCEPT !.pc = "look", !.fresh = @ \cup {k}])
     /\ UNCHANGED <<remote, cursor, index, governed, history>>

(* ... and inserted.  The key is unique: when another sync was faster, the
   sync ends with an exception. *)
Insert(w) ==
  LET h == work[w]
      k == Key(h)
  IN /\ At(w, "insert")
     /\ IF k.revision \in Stored(k.source) THEN Return(w) /\ UNCHANGED record
        ELSE /\ record' = [record EXCEPT ![k.source][k.revision] = "live"]
             /\ Step(w, [h EXCEPT !.pc = "look", !.fresh = @ \cup {k}])
     /\ UNCHANGED <<remote, cursor, index, governed, history>>

(* add_many: what was stored by this sync becomes searchable. *)
AddMany(w) ==
  LET h == work[w]
  IN /\ At(w, "index")
     /\ index' = [s \in Sources |-> [r \in Revisions |->
                    IF [source |-> s, revision |-> r] \in h.fresh THEN "live"
                    ELSE index[s][r]]]
     /\ Proceed(w, [h EXCEPT !.fresh = {}])
     /\ UNCHANGED <<remote, cursor, record, governed, history>>

Revoked(table, S) ==
  [s \in Sources |-> [r \in Revisions |->
     IF s \in S /\ table[s][r] = "live" THEN "revoked" ELSE table[s][r]]]

(* Mutant: the evidence of a withdrawn source stays active. *)
RevokeNothing(w) ==
  /\ At(w, "unindex")
  /\ Proceed(w, work[w])
  /\ UNCHANGED <<remote, cursor, record, index, governed, history>>

(* revoke_source_ids: all withdrawn sources, whichever row came first. *)
RevokeIndexed(w) ==
  LET h == work[w]
  IN /\ At(w, "unindex")
     /\ index' = Revoked(index, {Row(i).source : i \in h.dels})
     /\ Proceed(w, h)
     /\ UNCHANGED <<remote, cursor, record, governed, history>>

(* revoke: the records of one withdrawn source.  The rows are updated one by
   one; what is inserted meanwhile has a key of its own. *)
RevokeStored(w) ==
  LET h == work[w]
  IN /\ At(w, "revoke")
     /\ record' = Revoked(record, {Item(h).source})
     /\ Step(w, h)
     /\ UNCHANGED <<remote, cursor, index, governed, history>>

(* Mutant: the cursor names the row that is read next. *)
SaveBeyond(w) ==
  LET h == work[w]
  IN /\ At(w, "save")
     /\ cursor' = h.to + 1
     /\ taken' = taken \cup h.adds
     /\ Proceed(w, h)
     /\ UNCHANGED <<remote, record, index, governed, shadowed, alone, crashed>>

(* The success is saved, with the new cursor; nobody looks at the one of a
   connector that reads everything. *)
Save(w) ==
  LET h == work[w]
  IN /\ At(w, "save")
     /\ cursor' = IF whole THEN h.from ELSE h.to
     /\ taken' = taken \cup h.adds \cup h.dels
     /\ Proceed(w, h)
     /\ UNCHANGED <<remote, record, index, governed, shadowed, alone, crashed>>

-----------------------------------------------------------------------------
(* Reviews *)

Citing(s, R) == {m \in Memories : /\ memory[m].status = "active"
                                  /\ memory[m].source = s
                                  /\ memory[m].revision \in R}

(* Mutant: a review is opened whatever is there. *)
OpenAgain(M, t) ==
  review' = [m \in Memories |-> IF m \in M THEN [review[m] EXCEPT ![t] = "open"]
                                ELSE review[m]]

(* One review for each memory and trigger, resolved or not. *)
Open(M, t) ==
  review' = [m \in Memories |->
               IF m \in M /\ review[m][t] = "none"
               THEN [review[m] EXCEPT ![t] = "open"] ELSE review[m]]

(* Mutant: only the newest of the stored revisions counts as outdated. *)
ReviewNewest(w) ==
  LET h == work[w]
      row == Item(h)
      old == h.prior[row.source] \ {row.revision}
  IN /\ At(w, "review")
     /\ Open(Citing(row.source, {r \in old : \A q \in old : q <= r}), row.revision)
     /\ Step(w, h)
     /\ UNCHANGED <<remote, cursor, record, index, memory, history>>

(* Memories that cite another revision that was stored before. *)
ReviewRevised(w) ==
  LET h == work[w]
      row == Item(h)
  IN /\ At(w, "review")
     /\ Open(Citing(row.source, h.prior[row.source] \ {row.revision}), row.revision)
     /\ Step(w, h)
     /\ UNCHANGED <<remote, cursor, record, index, memory, history>>

ReviewGone(w) ==
  LET h == work[w]
  IN /\ At(w, "gone")
     /\ Open(Citing(Item(h).source, Revisions), Gone)
     /\ Step(w, h)
     /\ UNCHANGED <<remote, cursor, record, index, memory, history>>

Resolve(m, t) ==
  /\ review[m][t] # "none"
  /\ review' = [review EXCEPT ![m][t] = "resolved"]
  /\ UNCHANGED <<remote, cursor, record, index, memory, work, history>>

(* A proposal cites a revision that is stored and not revoked; approval does
   not look at it again.  "after" is history: the rows that were taken or under
   way when the memory came to be. *)
Propose(m, s, r) ==
  /\ memory[m].status = "absent"
  /\ record[s][r] = "live"
  /\ memory' = [memory EXCEPT ![m] = [status |-> "pending", source |-> s,
                                      revision |-> r, after |-> {}]]
  /\ UNCHANGED <<remote, cursor, record, index, review, work, history>>

UnderWay == UNION {IF At(w, "idle") THEN {} ELSE 1..work[w].to : w \in Workers}

Approve(m) ==
  /\ memory[m].status = "pending"
  /\ memory' = [memory EXCEPT ![m].status = "active",
                              ![m].after = taken \cup UnderWay]
  /\ UNCHANGED <<remote, cursor, record, index, review, work, history>>

-----------------------------------------------------------------------------
(* The process dies: the index and the running syncs are gone.  What a read of
   everything took will be read again. *)
Crash ==
  /\ ~crashed
  /\ index' = Blank
  /\ work' = [w \in Workers |-> Sleeping]
  /\ taken' = IF whole THEN {} ELSE taken
  /\ crashed' = TRUE
  /\ UNCHANGED <<remote, cursor, record, governed, shadowed, alone>>

Sync(w) == \/ Start(w) \/ Attempt(w) \/ Fetch(w) \/ FetchFails(w)
           \/ ReadPrior(w) \/ Look(w) \/ Insert(w) \/ AddMany(w)
           \/ RevokeIndexed(w) \/ RevokeStored(w) \/ Save(w)
           \/ ReviewRevised(w) \/ ReviewGone(w)

Next == \/ \E s \in Sources : Publish(s) \/ Withdraw(s)
        \/ \E w \in Workers : Sync(w)
        \/ \E m \in Memories : \/ Approve(m)
                               \/ \E s \in Sources, r \in Revisions : Propose(m, s, r)
                               \/ \E t \in Triggers : Resolve(m, t)
        \/ Crash

Spec == Init /\ [][Next]_vars

-----------------------------------------------------------------------------
Tables == [Sources -> [Revisions -> {"absent", "live", "revoked"}]]

TypeOK ==
  /\ feed \in Seq(Rows) /\ Len(feed) <= MaxRows /\ whole \in BOOLEAN
  /\ cursor \in 0..Len(feed)
  /\ record \in Tables /\ index \in Tables
  /\ \A m \in Memories :
       \/ memory[m] = [status |-> "absent"]
       \/ /\ memory[m].status \in {"pending", "active"}
          /\ memory[m].source \in Sources /\ memory[m].revision \in Revisions
  /\ review \in [Memories -> [Triggers -> {"none", "open", "resolved"}]]
  /\ \A w \in Workers : /\ work[w].from \in 0..Len(feed) /\ work[w].to \in 0..Len(feed)
                        /\ work[w].adds \cup work[w].dels \subseteq DOMAIN feed

(* Behind the cursor nothing is left to do, although cursors are saved from
   stale reads, syncs fail and the process dies between two tables: a revision
   is stored, and the revisions before a withdrawal are revoked.  Rows that were
   read behind another row of their source are left out. *)
TakenIsApplied ==
  ~whole => \A i \in 1..cursor :
    IF IsGone(i)
    THEN \A k \in Published(Row(i).source) \ shadowed :
           k < i => record[Row(k).source][Row(k).revision] = "revoked"
    ELSE i \in shadowed \/ record[Row(i).source][Row(i).revision] # "absent"

(* The same for every row: each revision of a source is kept. *)
EveryRevisionIsKept ==
  ~whole => \A i \in 1..cursor :
    ~IsGone(i) => record[Row(i).source][Row(i).revision] # "absent"

(* A stored revision is never replaced, deleted or made valid again. *)
RecordsAreAppendOnly ==
  [][\A s \in Sources, r \in Revisions :
       record'[s][r] # record[s][r] =>
         <<record[s][r], record'[s][r]>> \in
            {<<"absent", "live">>, <<"live", "revoked">>}]_vars

(* As long as syncs do not overlap and the process lives, a question finds the
   records that are valid and no others. *)
SearchAgreesWithRecords ==
  alone /\ ~crashed /\ Quiet =>
    \A s \in Sources, r \in Revisions : index[s][r] = record[s][r]

(* A memory whose source was revised or withdrawn since has a review about it
   when the syncs that learned of it are done.  A process that dies after the
   cursor is saved and before the reviews are opened loses them, unless the
   connector reads everything again. *)
OutdatedIsReviewed ==
  Quiet /\ (whole \/ ~crashed) =>
    \A m \in Memories, i \in taken :
      (/\ memory[m].status = "active"
       /\ i \notin memory[m].after
       /\ Row(i).source = memory[m].source
       /\ Row(i).revision # memory[m].revision)
      => review[m][Row(i).revision] # "none"

(* A review that somebody resolved is not opened again, however often the same
   revision is read. *)
ResolvedStaysResolved ==
  [][\A m \in Memories, t \in Triggers :
       review[m][t] = "resolved" => review'[m][t] = "resolved"]_vars
=============================================================================
