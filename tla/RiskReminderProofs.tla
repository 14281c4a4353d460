------------------------- MODULE RiskReminderProofs -------------------------
(***************************************************************************)
(* What RiskNotificationService promises about the claims it takes: a      *)
(* claim never blocks a message that did not go out, a snooze that counts  *)
(* as handled has reached every owner, a sleeping risk can be woken, and   *)
(* what a user decided stands.                                             *)
(*                                                                         *)
(* The argument is about the loop and about the jobs that remind.  One job *)
(* at most holds the loop (OneAtLoop), so what a handler does between two  *)
(* awaits is not disturbed.  At most one job reminds of a snooze, because  *)
(* its marker stays claimed until that job is about to end (DueMarked,     *)
(* OneDue); whom it has passed over was told or had a message on its way   *)
(* when the process died (Told), since a claim it finds is nobody else's   *)
(* (KeyFits).                                                              *)
(***************************************************************************)
EXTENDS RiskFeedbackProofs

AtLoop(b) == b.pc \notin {"idle", "queued", "await"}

OneAtLoop == \A i, j \in Jobs : AtLoop(job[i]) /\ AtLoop(job[j]) => i = j

(* A reminder holds claims of its snooze, and nobody else does.            *)
KeyFits ==
    \A j \in Jobs : Holds(job[j]) =>
        /\ job[j].kind = "due" => \E o \in Owners : job[j].key = DueFor(job[j].of, o)
        /\ job[j].key.kind = "due" => job[j].kind = "due"

(* ClaimedIsDelivered, with a job that holds the claim.                    *)
Accounted ==
    \A k \in claims \ lost : k.to # System =>
        delivered[k] # 0 \/ \E j \in Jobs : Holds(job[j]) /\ job[j].key = k

Settled(k) == delivered[k] # 0 \/ k \in lost
SettledNext(k) == delivered'[k] # 0 \/ k \in lost'
Reminds(b, i) == b.kind = "due" /\ b.of = i

DueMarked ==
    \A j \in Jobs : job[j].kind = "due" =>
        /\ job[j].pc \notin {"idle", "queued", "apply"}
        /\ Marker(job[j].of) \in claims <=> job[j].pc # "release"

OneDue ==
    \A i, j \in Jobs :
        job[i].kind = "due" /\ job[j].kind = "due" /\ job[i].of = job[j].of => i = j

Told ==
    \A j \in Jobs : job[j].kind = "due" =>
        \A o \in Owners \ job[j].todo :
            LET k == DueFor(job[j].of, o) IN Settled(k) \/ (Holds(job[j]) /\ job[j].key = k)

Reached ==
    \A i \in 0..MaxFeedback : Marker(i) \in claims \ lost =>
        \/ \A o \in Owners : Settled(DueFor(i, o))
        \/ \E j \in Jobs : Reminds(job[j], i)

Reminders == DueMarked /\ OneDue /\ Told /\ Reached
RemindInv == OneAtLoop /\ KeyFits /\ Accounted /\ Reminders

(* The transition belongs to the newest feedback, whose snooze no dispatch *)
(* has used up; a risk is reopened out of its sleep.                       *)
Applying ==
    \A j \in Jobs : job[j].pc = "apply" =>
        /\ job[j].of = Len(feedback) /\ Len(feedback) > 0
        /\ Marker(job[j].of) \notin claims

MarkersBehind == \A i \in 0..MaxFeedback : Marker(i) \in claims => i <= Len(feedback)

ReopenAsleep == \A j \in Jobs : job[j].pc = "reopen" => risk.state = "snoozed"

DecideInv == Applying /\ MarkersBehind /\ ReopenAsleep

(* Without failed sends nothing is restored.                               *)
NoRepairs == \A j \in Jobs : job[j].pc \notin {"restore", "unmark", "release"}

Asleep ==
    risk.state = "snoozed" =>
        \/ \E j \in Jobs : job[j].pc = "apply"
        \/ /\ Len(feedback) > 0 /\ LastFeedback.action = "snooze"
           /\ \/ Marker(Len(feedback)) \notin claims
              \/ \E j \in Jobs : Reminds(job[j], Len(feedback)) /\ job[j].pc = "reopen"

-----------------------------------------------------------------------------
(* Keys                                                                    *)

LEMMA ReminderKeys ==
    ASSUME NEW i \in 0..MaxFeedback, NEW o \in Owners
    PROVE  /\ DueFor(i, o) \in Keys /\ DueFor(i, o).to # System /\ DueFor(i, o).kind = "due"
           /\ \A n, u : DueFor(i, o) = DueFor(n, u) => n = i /\ u = o
BY RiskAssumption DEF DueFor, Keys

LEMMA MarkersDiffer ==
    ASSUME NEW i, NEW n, Marker(i) = Marker(n)
    PROVE  i = n
BY DEF Marker, DueFor

LEMMA OtherKeys ==
    ASSUME NEW sig, NEW o
    PROVE  Immediate(sig, o).kind = "immediate" /\ Escalation(sig).kind = "group"
BY DEF Immediate, Escalation

-----------------------------------------------------------------------------
(* Job j becomes b: what becomes of each part of the invariant             *)

Becomes(j, b) == job' = [job EXCEPT ![j] = b]
Delivering == \A k \in Keys : delivered[k] # 0 => delivered'[k] # 0

LEMMA JobsAfter ==
    ASSUME IInv, NEW j \in Jobs, NEW b, Becomes(j, b)
    PROVE  job'[j] = b /\ \A i \in Jobs : i # j => job'[i] = job[i]
BY DEF IInv, TypeOK, Becomes

(* Only who holds the loop, or finds it free, takes a step.                *)
LEMMA LoopKept ==
    ASSUME IInv, OneAtLoop, NEW j \in Jobs, NEW b, Becomes(j, b),
           LoopIsFree \/ AtLoop(job[j])
    PROVE  OneAtLoop'
<1>1. \A i \in Jobs : i # j => job'[i] = job[i] /\ ~AtLoop(job[i])
  BY JobsAfter DEF LoopIsFree, AtLoop, OneAtLoop
<1> QED
  BY <1>1 DEF OneAtLoop, AtLoop

(* A claim is given up only when it is delivered or given back.            *)
LEMMA ClaimsKept ==
    ASSUME IInv, KeyFits, Accounted, NEW j \in Jobs, NEW b \in Job, Becomes(j, b),
           Delivering, lost' = lost,
           Holds(b) => /\ b.kind = "due" => \E o \in Owners : b.key = DueFor(b.of, o)
                       /\ b.key.kind = "due" => b.kind = "due",
           \A k \in claims' : k.to # System => k \in claims \/ (Holds(b) /\ b.key = k),
           Holds(job[j]) => \/ Holds(b) /\ b.key = job[j].key
                            \/ job[j].key \notin claims'
                            \/ delivered'[job[j].key] # 0
    PROVE  KeyFits' /\ Accounted'
<1>1. job'[j] = b /\ \A i \in Jobs : i # j => job'[i] = job[i]
  BY JobsAfter
<1>2. KeyFits'
  <2> SUFFICES ASSUME NEW i \in Jobs, Holds(job'[i])
               PROVE  /\ job'[i].kind = "due" =>
                            \E o \in Owners : job'[i].key = DueFor(job'[i].of, o)
                      /\ job'[i].key.kind = "due" => job'[i].kind = "due"
    BY DEF KeyFits, Holds
  <2> QED
    BY <1>1 DEF KeyFits
<1>3. Accounted'
  <2> SUFFICES ASSUME NEW k \in claims' \ lost', k.to # System
               PROVE  delivered'[k] # 0 \/ \E i \in Jobs : Holds(job'[i]) /\ job'[i].key = k
    BY DEF Accounted, Holds
  <2>1. CASE Holds(b) /\ b.key = k
    BY <1>1, <2>1
  <2>2. CASE k \in claims /\ delivered[k] # 0
    BY <2>2 DEF Delivering, IInv, TypeOK
  <2>3. ASSUME NEW i \in Jobs, Holds(job[i]), job[i].key = k
        PROVE  delivered'[k] # 0 \/ \E n \in Jobs : Holds(job'[n]) /\ job'[n].key = k
    BY <1>1, <2>3
  <2> QED
    BY <2>1, <2>2, <2>3 DEF Accounted
<1> QED
  BY <1>2, <1>3

SameMarkers == \A i \in 0..MaxFeedback : Marker(i) \in claims' <=> Marker(i) \in claims

LEMMA SettledStays ==
    ASSUME Delivering, lost \subseteq lost', NEW k \in Keys, Settled(k)
    PROVE  SettledNext(k)
BY DEF Settled, SettledNext, Delivering

(* A job that reminds nobody changes.                                      *)
LEMMA OthersKeep ==
    ASSUME IInv, Reminders, NEW j \in Jobs, NEW b \in Job, Becomes(j, b),
           job[j].kind # "due", b.kind # "due",
           Delivering, lost' = lost, SameMarkers
    PROVE  Reminders'
<1>1. job'[j] = b /\ \A i \in Jobs : i # j => job'[i] = job[i]
  BY JobsAfter
<1>2. \A i \in Jobs : job'[i].kind = "due" => job'[i] = job[i] /\ job[i].kind = "due"
  BY <1>1
<1>3. \A i \in Jobs : job[i].kind = "due" => job'[i] = job[i]
  BY <1>1
<1>4. \A i \in Jobs : job[i].kind = "due" => job[i].of \in 0..MaxFeedback
  BY DEF IInv, JobsOK, JobOK
<1>5. DueMarked'
  BY <1>2, <1>4 DEF Reminders, DueMarked, SameMarkers
<1>6. OneDue'
  BY <1>2 DEF Reminders, OneDue
<1>7. Told'
  <2> SUFFICES ASSUME NEW i \in Jobs, job'[i].kind = "due", NEW o \in Owners \ job'[i].todo
               PROVE  LET k == DueFor(job'[i].of, o) IN
                      SettledNext(k) \/ (Holds(job'[i]) /\ job'[i].key = k)
    BY DEF Told, Settled, SettledNext, Holds, DueFor
  <2>1. DueFor(job[i].of, o) \in Keys
    BY <1>2, <1>4, ReminderKeys
  <2> QED
    BY <1>2, <2>1, SettledStays DEF Reminders, Told
<1>8. Reached'
  <2> SUFFICES ASSUME NEW i \in 0..MaxFeedback, Marker(i) \in claims' \ lost',
                      ~(\E n \in Jobs : Reminds(job'[n], i)), NEW o \in Owners
               PROVE  SettledNext(DueFor(i, o))
    BY DEF Reached, Settled, SettledNext, Reminds, Marker, DueFor
  <2>1. ~(\E n \in Jobs : Reminds(job[n], i))
    BY <1>3 DEF Reminds
  <2>2. Settled(DueFor(i, o))
    BY <2>1 DEF Reminders, Reached, SameMarkers
  <2> QED
    BY <2>2, ReminderKeys, SettledStays
<1> QED
  BY <1>5, <1>6, <1>7, <1>8 DEF Reminders

(* A reminder goes on.  Whom it stops holding a claim for is settled.      *)
LEMMA ReminderMoves ==
    ASSUME IInv, Reminders, NEW j \in Jobs, NEW b \in Job, Becomes(j, b),
           Reminds(b, job[j].of), job[j].kind = "due", b.pc \notin {"idle", "queued", "apply"},
           Delivering, lost' = lost,
           Marker(job[j].of) \in claims' <=> b.pc # "release",
           \A i \in 0..MaxFeedback : i # job[j].of =>
               (Marker(i) \in claims' <=> Marker(i) \in claims),
           \A o \in job[j].todo \ b.todo :
               LET k == DueFor(b.of, o) IN SettledNext(k) \/ (Holds(b) /\ b.key = k),
           Holds(job[j]) => \/ Holds(b) /\ b.key = job[j].key
                            \/ delivered'[job[j].key] # 0
    PROVE  Reminders'
<1>1. job'[j] = b /\ \A i \in Jobs : i # j => job'[i] = job[i]
  BY JobsAfter
<1>2. b.kind = "due" /\ b.of = job[j].of
  BY DEF Reminds
<1>3. \A i \in Jobs : job'[i].kind = job[i].kind /\ (job[i].kind = "due" => job'[i].of = job[i].of)
  <2> SUFFICES ASSUME NEW i \in Jobs
               PROVE  job'[i].kind = job[i].kind /\ job'[i].of = job[i].of
    OBVIOUS
  <2>1. CASE i = j
    BY <1>1, <1>2, <2>1
  <2>2. CASE i # j
    BY <1>1, <2>2
  <2> QED
    BY <2>1, <2>2
<1>4. \A i \in Jobs : job[i].kind = "due" => job[i].of \in 0..MaxFeedback
  BY DEF IInv, JobsOK, JobOK
<1>5. OneDue'
  BY <1>3 DEF Reminders, OneDue
<1>6. DueMarked'
  <2> SUFFICES ASSUME NEW i \in Jobs, job'[i].kind = "due"
               PROVE  /\ job'[i].pc \notin {"idle", "queued", "apply"}
                      /\ Marker(job'[i].of) \in claims' <=> job'[i].pc # "release"
    BY DEF DueMarked, Marker, DueFor
  <2>1. CASE i = j
    BY <1>1, <1>2, <2>1
  <2>2. CASE i # j
    <3>1. job'[i] = job[i] /\ job[i].kind = "due" /\ job[i].of # job[j].of
      BY <1>1, <2>2 DEF Reminders, OneDue
    <3> QED
      BY <1>4, <3>1 DEF Reminders, DueMarked
  <2> QED
    BY <2>1, <2>2
<1>7. Told'
  <2> SUFFICES ASSUME NEW i \in Jobs, job'[i].kind = "due", NEW o \in Owners \ job'[i].todo
               PROVE  LET k == DueFor(job'[i].of, o) IN
                      SettledNext(k) \/ (Holds(job'[i]) /\ job'[i].key = k)
    BY DEF Told, Settled, SettledNext, Holds, DueFor
  <2>1. job[i].kind = "due" /\ job'[i].of = job[i].of /\ DueFor(job[i].of, o) \in Keys
    BY <1>3, <1>4, ReminderKeys
  <2>2. CASE i # j
    BY <1>1, <2>1, <2>2, SettledStays DEF Reminders, Told
  <2>3. CASE i = j /\ o \in job[j].todo
    BY <1>1, <1>2, <2>3
  <2>4. CASE i = j /\ o \notin job[j].todo
    <3>1. Settled(DueFor(job[j].of, o)) \/ (Holds(job[j]) /\ job[j].key = DueFor(job[j].of, o))
      BY <2>1, <2>4 DEF Reminders, Told
    <3>2. Settled(DueFor(job[j].of, o)) => SettledNext(DueFor(job[j].of, o))
      BY <2>1, <2>4, SettledStays
    <3>3. delivered'[DueFor(job[j].of, o)] # 0 => SettledNext(DueFor(job[j].of, o))
      BY DEF SettledNext
    <3> QED
      BY <1>1, <1>2, <2>1, <2>4, <3>1, <3>2, <3>3
  <2> QED
    BY <2>2, <2>3, <2>4
<1>8. Reached'
  <2> SUFFICES ASSUME NEW i \in 0..MaxFeedback, Marker(i) \in claims' \ lost',
                      ~(\E n \in Jobs : Reminds(job'[n], i)), NEW o \in Owners
               PROVE  SettledNext(DueFor(i, o))
    BY DEF Reached, Settled, SettledNext, Reminds, Marker, DueFor
  <2>1. ~(\E n \in Jobs : Reminds(job[n], i))
    BY <1>3 DEF Reminds
  <2>2. i # job[j].of
    BY <2>1 DEF Reminds
  <2>3. Settled(DueFor(i, o))
    BY <2>1, <2>2 DEF Reminders, Reached
  <2> QED
    BY <2>3, ReminderKeys, SettledStays
<1> QED
  BY <1>5, <1>6, <1>7, <1>8 DEF Reminders

(* A reminder ends: its marker was taken back, or everybody is settled.    *)
LEMMA ReminderEnds ==
    ASSUME IInv, Reminders, NEW j \in Jobs, NEW b \in Job, Becomes(j, b),
           job[j].kind = "due", b.kind # "due",
           Delivering, lost' = lost, SameMarkers,
           \/ Marker(job[j].of) \notin claims
           \/ \A o \in Owners : Settled(DueFor(job[j].of, o))
    PROVE  Reminders'
<1>1. job'[j] = b /\ \A i \in Jobs : i # j => job'[i] = job[i]
  BY JobsAfter
<1>2. \A i \in Jobs : job'[i].kind = "due" => i # j /\ job'[i] = job[i] /\ job[i].kind = "due"
  BY <1>1
<1>3. \A i \in Jobs : job[i].kind = "due" => job[i].of \in 0..MaxFeedback
  BY DEF IInv, JobsOK, JobOK
<1>4. DueMarked'
  BY <1>2, <1>3 DEF Reminders, DueMarked, SameMarkers
<1>5. OneDue'
  BY <1>2 DEF Reminders, OneDue
<1>6. Told'
  <2> SUFFICES ASSUME NEW i \in Jobs, job'[i].kind = "due", NEW o \in Owners \ job'[i].todo
               PROVE  LET k == DueFor(job'[i].of, o) IN
                      SettledNext(k) \/ (Holds(job'[i]) /\ job'[i].key = k)
    BY DEF Told, Settled, SettledNext, Holds, DueFor
  <2>1. DueFor(job[i].of, o) \in Keys
    BY <1>2, <1>3, ReminderKeys
  <2> QED
    BY <1>2, <2>1, SettledStays DEF Reminders, Told
<1>7. Reached'
  <2> SUFFICES ASSUME NEW i \in 0..MaxFeedback, Marker(i) \in claims' \ lost',
                      ~(\E n \in Jobs : Reminds(job'[n], i)), NEW o \in Owners
               PROVE  SettledNext(DueFor(i, o))
    BY DEF Reached, Settled, SettledNext, Reminds, Marker, DueFor
  <2>1. \A n \in Jobs : Reminds(job[n], i) => n = j
    BY <1>1 DEF Reminds
  <2>2. Marker(i) \in claims \ lost
    BY DEF SameMarkers
  <2>3. Settled(DueFor(i, o))
    <3>1. CASE Reminds(job[j], i)
      BY <2>2, <3>1 DEF Reminds
    <3>2. CASE ~Reminds(job[j], i)
      BY <2>1, <2>2, <3>2 DEF Reminders, Reached
    <3> QED
      BY <3>1, <3>2
  <2> QED
    BY <2>3, ReminderKeys, SettledStays
<1> QED
  BY <1>4, <1>5, <1>6, <1>7 DEF Reminders

(* A reminder begins, at a snooze that no job reminds of.                  *)
LEMMA ReminderBegins ==
    ASSUME IInv, Reminders, NEW j \in Jobs, NEW n \in 0..MaxFeedback, NEW b \in Job,
           Becomes(j, b), job[j].kind # "due", Reminds(b, n),
           b.pc = "reopen", b.todo = Owners,
           \A i \in Jobs : job[i].pc # "release",
           Marker(n) \notin claims, claims' = claims \cup {Marker(n)},
           lost' = lost, UNCHANGED <<delivered, doubtful>>
    PROVE  Reminders'
<1>1. job'[j] = b /\ \A i \in Jobs : i # j => job'[i] = job[i]
  BY JobsAfter
<1>2. \A i \in Jobs : job[i].kind = "due" => job[i].of \in 0..MaxFeedback /\ job[i].of # n
  BY DEF IInv, JobsOK, JobOK, Reminders, DueMarked
<1>3. \A i \in Jobs : job'[i].kind = "due" => i = j \/ (job'[i] = job[i] /\ job[i].kind = "due")
  BY <1>1
<1>4. DueMarked'
  <2> SUFFICES ASSUME NEW i \in Jobs, job'[i].kind = "due"
               PROVE  /\ job'[i].pc \notin {"idle", "queued", "apply"}
                      /\ Marker(job'[i].of) \in claims' <=> job'[i].pc # "release"
    BY DEF DueMarked, Marker, DueFor
  <2>1. CASE i = j
    BY <1>1, <2>1 DEF Reminds
  <2>2. CASE i # j
    <3>1. Marker(job[i].of) # Marker(n)
      BY <1>2, <1>3, <2>2, MarkersDiffer
    <3> QED
      BY <1>3, <2>2, <3>1 DEF Reminders, DueMarked
  <2> QED
    BY <2>1, <2>2
<1>5. OneDue'
  BY <1>1, <1>2, <1>3 DEF Reminders, OneDue, Reminds
<1>6. Told'
  <2> SUFFICES ASSUME NEW i \in Jobs, job'[i].kind = "due", NEW o \in Owners \ job'[i].todo
               PROVE  LET k == DueFor(job'[i].of, o) IN
                      SettledNext(k) \/ (Holds(job'[i]) /\ job'[i].key = k)
    BY DEF Told, Settled, SettledNext, Holds, DueFor
  <2>1. i # j /\ job'[i] = job[i]
    BY <1>1, <1>3
  <2> QED
    BY <2>1 DEF Reminders, Told, Settled, SettledNext
<1>7. Reached'
  <2> SUFFICES ASSUME NEW i \in 0..MaxFeedback, Marker(i) \in claims' \ lost',
                      ~(\E u \in Jobs : Reminds(job'[u], i)), NEW o \in Owners
               PROVE  SettledNext(DueFor(i, o))
    BY DEF Reached, Settled, SettledNext, Reminds, Marker, DueFor
  <2>1. i # n /\ ~(\E u \in Jobs : Reminds(job[u], i))
    BY <1>1 DEF Reminds
  <2>2. Marker(i) \in claims \ lost
    BY <2>1, MarkersDiffer
  <2> QED
    BY <2>1, <2>2 DEF Reminders, Reached, Settled, SettledNext
<1> QED
  BY <1>4, <1>5, <1>6, <1>7 DEF Reminders

-----------------------------------------------------------------------------
(* The actions                                                             *)

(* Whoever is told nothing, takes nothing and gives nothing back.          *)
LEMMA QuietReminds ==
    ASSUME IInv, RemindInv, NEW j \in Jobs, NEW b \in Job, Becomes(j, b),
           LoopIsFree \/ AtLoop(job[j]), ~Holds(job[j]), ~Holds(b),
           job[j].kind # "due", b.kind # "due",
           UNCHANGED <<claims, delivered, doubtful, lost>>
    PROVE  RemindInv'
<1>1. Delivering /\ SameMarkers
  BY DEF Delivering, SameMarkers
<1>2. OneAtLoop'
  BY LoopKept DEF RemindInv
<1>3. KeyFits' /\ Accounted'
  BY <1>1, ClaimsKept DEF RemindInv
<1>4. Reminders'
  BY <1>1, OthersKeep DEF RemindInv
<1> QED
  BY <1>2, <1>3, <1>4 DEF RemindInv

LEMMA EndReminds ==
    ASSUME IInv, RemindInv, NEW j \in Jobs, End(j), LoopIsFree \/ AtLoop(job[j]),
           ~Holds(job[j]), job[j].kind # "due", UNCHANGED <<claims, delivered, doubtful, lost>>
    PROVE  RemindInv'
<1>1. Becomes(j, NoJob) /\ NoJob \in Job /\ ~Holds(NoJob) /\ NoJob.kind # "due"
  BY NoJobIsJob DEF End, Becomes, NoJob
<1> QED
  BY <1>1, QuietReminds

LEMMA StartReminds ==
    ASSUME IInv, RemindInv, NEW j \in Jobs, NEW kind \in {"feedback", "immediate", "group"},
           NEW of \in Signatures \cup 0..MaxFeedback, NEW pc \in {"apply", "queued", "next"},
           Start(j, kind, of, pc), LoopIsFree \/ AtLoop(job[j]),
           ~Holds(job[j]), job[j].kind # "due", UNCHANGED <<claims, delivered, doubtful, lost>>
    PROVE  RemindInv'
<1> DEFINE b == Started(kind, of, pc)
<1>1. b \in Job /\ b.kind = kind /\ b.pc = pc
  BY StartedIsJob DEF Pc
<1>2. Becomes(j, b)
  BY DEF Start, Started, Becomes
<1>3. ~Holds(b) /\ b.kind # "due"
  BY <1>1 DEF Holds, Holding
<1> HIDE DEF b
<1> QED
  BY <1>1, <1>2, <1>3, QuietReminds

(* What a job that begins is not.                                          *)
LEMMA IdleJob ==
    ASSUME IInv, Reminders, NEW j \in Jobs, job[j].pc \in {"idle", "queued", "apply"}
    PROVE  ~Holds(job[j]) /\ job[j].kind # "due"
BY DEF Reminders, DueMarked, Holds, Holding

LEMMA SubmitReminds ==
    ASSUME IInv, RemindInv, NEW j \in Jobs, NEW action \in Action, Submit(j, action)
    PROVE  RemindInv'
<1>1. Len(feedback) + 1 \in 0..MaxFeedback
  BY RiskAssumption DEF IInv, TypeOK, Submit
<1>2. ~Holds(job[j]) /\ job[j].kind # "due"
  BY IdleJob DEF RemindInv, Submit
<1> QED
  BY <1>1, <1>2, StartReminds DEF Submit

LEMMA ApplyReminds ==
    ASSUME IInv, RemindInv, NEW j \in Jobs, Apply(j)
    PROVE  RemindInv'
<1>1. ~Holds(job[j]) /\ job[j].kind # "due" /\ AtLoop(job[j])
  BY IdleJob DEF RemindInv, Apply, AtLoop
<1>2. UNCHANGED <<claims, delivered, doubtful, lost>> /\ risk.evidence \in Signatures
  BY JobAtHand DEF Apply
<1>3. CASE End(j)
  BY <1>1, <1>2, <1>3, EndReminds
<1>4. CASE Start(j, "group", risk.evidence, "queued")
  BY <1>1, <1>2, <1>4, StartReminds
<1> QED
  BY <1>3, <1>4 DEF Apply

(* A message that is nobody's reminder is claimed.                         *)
LEMMA ClaimReminds ==
    ASSUME IInv, RemindInv, NEW j \in Jobs, NEW k \in Keys, NEW todo \in SUBSET Owners,
           Claim(j, k, todo), k.kind # "due", k.to # System, LoopIsFree \/ AtLoop(job[j]),
           ~Holds(job[j]), job[j].kind # "due", UNCHANGED <<delivered, doubtful, lost>>
    PROVE  RemindInv'
<1> DEFINE b == [job[j] EXCEPT !.pc = "await", !.key = k, !.todo = todo]
<1>1. job[j] \in Job /\ job \in [Jobs -> Job]
  BY DEF IInv, TypeOK
<1>2. b \in Job /\ b.pc = "await" /\ b.key = k /\ b.kind # "due"
  BY <1>1 DEF Job, Pc
<1>3. Becomes(j, b) /\ claims' = claims \cup {k}
  BY <1>1 DEF Claim, Becomes
<1>4. Delivering /\ SameMarkers
  BY <1>3 DEF Delivering, SameMarkers, Marker, DueFor
<1>5. Holds(b)
  BY <1>2 DEF Holds, Holding
<1> HIDE DEF b
<1>6. OneAtLoop'
  BY <1>3, LoopKept DEF RemindInv
<1>7. KeyFits' /\ Accounted'
  BY <1>2, <1>3, <1>4, <1>5, ClaimsKept DEF RemindInv
<1>8. Reminders'
  BY <1>2, <1>3, <1>4, OthersKeep DEF RemindInv
<1> QED
  BY <1>6, <1>7, <1>8 DEF RemindInv

LEMMA RequestHelpReminds ==
    ASSUME IInv, RemindInv, NEW j \in Jobs, RequestHelp(j)
    PROVE  RemindInv'
<1> DEFINE k == Escalation(job[j].of)
<1>1. ~Holds(job[j]) /\ job[j].kind # "due"
  BY IdleJob DEF RemindInv, RequestHelp
<1>2. job[j].of \in Signatures
  BY JobAtHand DEF RequestHelp, JobOK
<1>3. k \in Keys /\ k.to # System /\ k.kind # "due"
  BY <1>2, EscalationIsMessage, OtherKeys
<1>4. LoopIsFree /\ UNCHANGED <<delivered, doubtful, lost>>
  BY DEF RequestHelp
<1>5. CASE End(j) /\ UNCHANGED claims
  BY <1>1, <1>4, <1>5, EndReminds
<1>6. CASE Claim(j, k, {})
  <2> HIDE DEF k
  <2> QED
    BY <1>1, <1>3, <1>4, <1>6, ClaimReminds
<1> QED
  BY <1>5, <1>6 DEF RequestHelp

LEMMA DispatchImmediateReminds ==
    ASSUME IInv, RemindInv, NEW j \in Jobs, DispatchImmediate(j)
    PROVE  RemindInv'
<1>1. ~Holds(job[j]) /\ job[j].kind # "due"
  BY IdleJob DEF RemindInv, DispatchImmediate
<1>2. risk.evidence \in Signatures
  BY JobAtHand
<1> QED
  BY <1>1, <1>2, StartReminds DEF DispatchImmediate

LEMMA DispatchDueReminds ==
    ASSUME IInv, RemindInv, NEW j \in Jobs, DispatchDue(j)
    PROVE  RemindInv'
<1> DEFINE n == Len(feedback)
           b == Started("due", n, "reopen")
<1>1. n \in 0..MaxFeedback
  BY RiskAssumption DEF IInv, TypeOK
<1>2. b \in Job /\ b.kind = "due" /\ b.of = n /\ b.pc = "reopen"
  BY <1>1, StartedIsJob DEF Pc
<1>3. b.todo = Owners
  BY NoJobIsJob DEF Started, NoJob
<1>4. Becomes(j, b) /\ LoopIsFree /\ UNCHANGED <<delivered, doubtful, lost>>
  BY DEF DispatchDue, Start, Started, Becomes
<1>5. Marker(n) \notin claims /\ claims' = claims \cup {Marker(n)}
  BY DEF DispatchDue
<1>6. ~Holds(job[j]) /\ job[j].kind # "due"
  BY IdleJob DEF RemindInv, DispatchDue
<1>7. ~Holds(b) /\ Reminds(b, n)
  BY <1>2 DEF Holds, Holding, Reminds
<1>8. \A i \in Jobs : job[i].pc # "release"
  BY <1>4 DEF LoopIsFree
<1> HIDE DEF b, n
<1>9. OneAtLoop'
  BY <1>4, LoopKept DEF RemindInv
<1>10. KeyFits' /\ Accounted'
  <2>1. Delivering
    BY <1>4 DEF Delivering
  <2>2. \A k \in claims' : k.to # System => k \in claims
    BY <1>1, <1>5, MarkerIsNoMessage
  <2> QED
    BY <1>2, <1>4, <1>6, <1>7, <2>1, <2>2, ClaimsKept DEF RemindInv
<1>11. Reminders'
  BY <1>1, <1>2, <1>3, <1>4, <1>5, <1>6, <1>7, <1>8, ReminderBegins DEF RemindInv
<1> QED
  BY <1>9, <1>10, <1>11 DEF RemindInv

(* A step of the reminder itself that claims and settles nothing.          *)
LEMMA ReminderStep ==
    ASSUME IInv, RemindInv, NEW j \in Jobs, NEW pc \in Pc, Goto(j, pc),
           job[j].kind = "due", pc \notin {"idle", "queued", "apply"},
           LoopIsFree \/ AtLoop(job[j]),
           Holds(job[j]) <=> pc \in Holding,
           \A k \in claims' : k \in claims,
           Marker(job[j].of) \in claims' <=> pc # "release",
           \A i \in 0..MaxFeedback : i # job[j].of =>
               (Marker(i) \in claims' <=> Marker(i) \in claims),
           Delivering, lost' = lost
    PROVE  RemindInv'
<1> DEFINE b == Moved(job[j], pc)
<1>1. /\ Becomes(j, b) /\ b \in Job /\ b.pc = pc /\ b.kind = "due"
      /\ b.of = job[j].of /\ b.key = job[j].key
  BY GotoMoves DEF Becomes
<1>2. b.todo = job[j].todo
  BY JobAtHand DEF Moved, Job
<1>3. (Holds(b) <=> Holds(job[j])) /\ Reminds(b, job[j].of)
  BY <1>1 DEF Holds, Reminds
<1> HIDE DEF b
<1>4. OneAtLoop'
  BY <1>1, LoopKept DEF RemindInv
<1>5. KeyFits' /\ Accounted'
  <2>1. Holds(b) => /\ b.kind = "due" => \E o \in Owners : b.key = DueFor(b.of, o)
                    /\ b.key.kind = "due" => b.kind = "due"
    BY <1>1, <1>3 DEF RemindInv, KeyFits
  <2> QED
    BY <1>1, <1>3, <2>1, ClaimsKept DEF RemindInv
<1>6. Reminders'
  BY <1>1, <1>2, <1>3, ReminderMoves DEF RemindInv
<1> QED
  BY <1>4, <1>5, <1>6 DEF RemindInv

(* At a marked step of a reminder the marker is claimed.                   *)
LEMMA MarkerHeld ==
    ASSUME Reminders, NEW j \in Jobs, job[j].kind = "due", job[j].pc # "release"
    PROVE  Marker(job[j].of) \in claims
BY DEF Reminders, DueMarked

LEMMA ReopenReminds ==
    ASSUME IInv, RemindInv, NEW j \in Jobs, Reopen(j)
    PROVE  RemindInv'
<1>1. /\ job[j].kind = "due" /\ job[j].pc = "reopen" /\ Goto(j, "next")
      /\ UNCHANGED <<claims, delivered, doubtful, lost>>
  BY JobAtHand DEF Reopen, JobOK
<1>2. AtLoop(job[j]) /\ ~Holds(job[j]) /\ "next" \in Pc /\ "next" \notin Holding
  BY <1>1 DEF AtLoop, Holds, Holding, Pc
<1>3. Marker(job[j].of) \in claims'
  BY <1>1, MarkerHeld DEF RemindInv
<1> QED
  BY <1>1, <1>2, <1>3, ReminderStep DEF Delivering

LEMMA RestoreReminds ==
    ASSUME IInv, RemindInv, NEW j \in Jobs, Restore(j)
    PROVE  RemindInv'
<1>1. /\ job[j].kind = "due" /\ job[j].pc = "restore" /\ Goto(j, "unmark")
      /\ UNCHANGED <<claims, delivered, doubtful, lost>>
  BY JobAtHand DEF Restore, JobOK
<1>2. AtLoop(job[j]) /\ Holds(job[j]) /\ "unmark" \in Pc /\ "unmark" \in Holding
  BY <1>1 DEF AtLoop, Holds, Holding, Pc
<1>3. Marker(job[j].of) \in claims'
  BY <1>1, MarkerHeld DEF RemindInv
<1> QED
  BY <1>1, <1>2, <1>3, ReminderStep DEF Delivering

LEMMA UnmarkReminds ==
    ASSUME IInv, RemindInv, NEW j \in Jobs, Unmark(j)
    PROVE  RemindInv'
<1>1. /\ job[j].kind = "due" /\ job[j].pc = "unmark" /\ Goto(j, "release")
      /\ claims' = claims \ {Marker(job[j].of)} /\ UNCHANGED <<delivered, doubtful, lost>>
  BY JobAtHand DEF Unmark, JobOK
<1>2. AtLoop(job[j]) /\ Holds(job[j]) /\ "release" \in Pc /\ "release" \in Holding
  BY <1>1 DEF AtLoop, Holds, Holding, Pc
<1>3. \A i \in 0..MaxFeedback : i # job[j].of => Marker(i) # Marker(job[j].of)
  BY MarkersDiffer
<1>4. \A i \in 0..MaxFeedback : i # job[j].of =>
          (Marker(i) \in claims' <=> Marker(i) \in claims)
  BY <1>1, <1>3
<1> QED
  BY <1>1, <1>2, <1>4, ReminderStep DEF Delivering

(* Whom a reminder finds told already was told, or lost: no other job      *)
(* holds a claim of this snooze.                                           *)
LEMMA PassedOver ==
    ASSUME IInv, RemindInv, NEW j \in Jobs, job[j].kind = "due", job[j].pc = "next",
           NEW o \in Owners, DueFor(job[j].of, o) \in claims
    PROVE  Settled(DueFor(job[j].of, o))
<1> DEFINE k == DueFor(job[j].of, o)
<1>1. job[j].of \in 0..MaxFeedback
  BY JobAtHand DEF JobOK
<1>2. k.to # System /\ k.kind = "due" /\ \A n, u : k = DueFor(n, u) => n = job[j].of
  BY <1>1, ReminderKeys
<1> HIDE DEF k
<1>3. ASSUME NEW i \in Jobs, Holds(job[i]), job[i].key = k
      PROVE  FALSE
  <2>1. job[i].kind = "due" /\ \E u \in Owners : k = DueFor(job[i].of, u)
    BY <1>2, <1>3 DEF RemindInv, KeyFits
  <2>2. i = j
    BY <1>2, <2>1 DEF RemindInv, Reminders, OneDue
  <2> QED
    BY <1>3, <2>2 DEF Holds, Holding
<1>4. k \in claims
  BY DEF k
<1>5. k \in lost \/ delivered[k] # 0
  BY <1>2, <1>3, <1>4 DEF RemindInv, Accounted
<1> QED
  BY <1>5 DEF k, Settled

LEMMA NextRecipientReminds ==
    ASSUME IInv, RemindInv, NEW j \in Jobs, NextRecipient(j)
    PROVE  RemindInv'
<1>1. /\ job[j].pc = "next" /\ job[j].kind \in {"due", "immediate"}
      /\ UNCHANGED <<delivered, doubtful, lost>> /\ job[j] \in Job /\ JobOK(job[j])
  BY JobAtHand DEF NextRecipient, JobOK
<1>2. AtLoop(job[j]) /\ ~Holds(job[j]) /\ Delivering
  BY <1>1 DEF AtLoop, Holds, Holding, Delivering
<1>3. CASE job[j].todo = {} /\ End(j) /\ UNCHANGED claims
  <2>1. CASE job[j].kind # "due"
    BY <1>1, <1>2, <1>3, <2>1, EndReminds
  <2>2. CASE job[j].kind = "due"
    <3>1. Becomes(j, NoJob) /\ NoJob \in Job /\ ~Holds(NoJob) /\ NoJob.kind # "due" /\ SameMarkers
      BY <1>3, NoJobIsJob DEF End, Becomes, NoJob, SameMarkers
    <3>2. \A o \in Owners : Settled(DueFor(job[j].of, o))
      BY <1>2, <1>3, <2>2 DEF RemindInv, Reminders, Told
    <3>3. OneAtLoop'
      BY <1>2, <3>1, LoopKept DEF RemindInv
    <3>4. KeyFits' /\ Accounted'
      BY <1>1, <1>2, <1>3, <3>1, ClaimsKept DEF RemindInv
    <3>5. Reminders'
      BY <1>1, <1>2, <2>2, <3>1, <3>2, ReminderEnds DEF RemindInv
    <3> QED
      BY <3>3, <3>4, <3>5 DEF RemindInv
  <2> QED
    BY <2>1, <2>2
<1>4. ASSUME NEW o \in job[j].todo, KeyFor(j, o) \in claims,
             job' = [job EXCEPT ![j].todo = job[j].todo \ {o}], UNCHANGED claims
      PROVE  RemindInv'
  <2> DEFINE b == [job[j] EXCEPT !.todo = job[j].todo \ {o}]
  <2>1. /\ b \in Job /\ b.pc = "next" /\ b.kind = job[j].kind /\ b.of = job[j].of
        /\ b.todo = job[j].todo \ {o} /\ o \in Owners
    BY <1>1 DEF Job
  <2>2. Becomes(j, b) /\ ~Holds(b) /\ SameMarkers
    BY <1>4, <2>1 DEF Becomes, Holds, Holding, SameMarkers
  <2> HIDE DEF b
  <2>3. CASE job[j].kind # "due"
    BY <1>1, <1>2, <1>4, <2>1, <2>2, <2>3, QuietReminds
  <2>4. CASE job[j].kind = "due"
    <3>1. OneAtLoop'
      BY <1>2, <2>2, LoopKept DEF RemindInv
    <3>2. KeyFits' /\ Accounted'
      BY <1>1, <1>2, <1>4, <2>1, <2>2, ClaimsKept DEF RemindInv
    <3>3. Settled(DueFor(job[j].of, o))
      BY <1>1, <1>4, <2>1, <2>4, PassedOver DEF KeyFor
    <3>4. SettledNext(DueFor(job[j].of, o))
      BY <1>1, <3>3 DEF Settled, SettledNext
    <3>5. Marker(job[j].of) \in claims'
      BY <1>1, <1>4, <2>4, MarkerHeld DEF RemindInv
    <3>6. Reminds(b, job[j].of)
      BY <2>1, <2>4 DEF Reminds
    <3>7. \A u \in job[j].todo \ b.todo : SettledNext(DueFor(b.of, u))
      BY <2>1, <3>4
    <3>8. Reminders'
      BY <1>1, <1>2, <1>4, <2>1, <2>2, <2>4, <3>5, <3>6, <3>7, ReminderMoves DEF RemindInv
    <3> QED
      BY <3>1, <3>2, <3>8 DEF RemindInv
  <2> QED
    BY <2>3, <2>4
<1>5. ASSUME NEW o \in job[j].todo, KeyFor(j, o) \notin claims,
             Claim(j, KeyFor(j, o), job[j].todo \ {o})
      PROVE  RemindInv'
  <2> DEFINE k == KeyFor(j, o)
             rest == job[j].todo \ {o}
             b == [job[j] EXCEPT !.pc = "await", !.key = k, !.todo = rest]
  <2>1. o \in Owners /\ rest \in SUBSET Owners
    BY <1>1 DEF Job
  <2>2. k \in Keys /\ k.to # System
    BY <1>1, <2>1, KeyForIsMessage
  <2>3. CASE job[j].kind # "due"
    <3>1. k.kind # "due"
      BY <2>3, OtherKeys DEF KeyFor
    <3> HIDE DEF k, rest, b
    <3>2. Claim(j, k, rest)
      BY <1>5 DEF k, rest
    <3> QED
      BY <1>1, <1>2, <2>1, <2>2, <2>3, <3>1, <3>2, ClaimReminds
  <2>4. CASE job[j].kind = "due"
    <3>1. k = DueFor(job[j].of, o) /\ k.kind = "due"
      BY <2>4 DEF KeyFor, DueFor
    <3> HIDE DEF k, rest
    <3>2. Claim(j, k, rest) /\ job \in [Jobs -> Job]
      BY <1>5 DEF k, rest, IInv, TypeOK
    <3>3. /\ b \in Job /\ b.pc = "await" /\ b.key = k /\ b.kind = "due"
          /\ b.of = job[j].of /\ b.todo = rest
      BY <1>1, <2>1, <2>2, <2>4 DEF Job, Pc
    <3>4. Becomes(j, b) /\ claims' = claims \cup {k}
      BY <3>2 DEF Claim, Becomes
    <3>5. Holds(b) /\ Reminds(b, job[j].of)
      BY <3>3 DEF Holds, Holding, Reminds
    <3>6. SameMarkers
      BY <2>2, <3>4, MarkerIsNoMessage DEF SameMarkers
    <3> HIDE DEF b
    <3>7. OneAtLoop'
      BY <1>2, <3>4, LoopKept DEF RemindInv
    <3>8. KeyFits' /\ Accounted'
      BY <1>1, <1>2, <2>1, <3>1, <3>3, <3>4, <3>5, ClaimsKept DEF RemindInv
    <3>9. Marker(job[j].of) \in claims'
      BY <1>1, <2>4, <3>4, MarkerHeld DEF RemindInv
    <3>10. \A u \in job[j].todo \ b.todo : b.key = DueFor(b.of, u)
      BY <3>1, <3>3 DEF rest
    <3>11. Reminders'
      BY <1>1, <1>2, <2>4, <3>3, <3>4, <3>5, <3>6, <3>9, <3>10, ReminderMoves
         DEF RemindInv, SameMarkers
    <3> QED
      BY <3>7, <3>8, <3>11 DEF RemindInv
  <2> QED
    BY <2>3, <2>4
<1> QED
  BY <1>3, <1>4, <1>5 DEF NextRecipient

(* What arrived has arrived, whatever the messenger makes of it.           *)
LEMMA ArrivalsStay ==
    ASSUME IInv, NEW k \in Keys,
           UNCHANGED <<delivered, doubtful>> \/ Arrives(k) \/ ArrivesInDoubt(k)
    PROVE  /\ Delivering
           /\ Arrives(k) \/ ArrivesInDoubt(k) => delivered'[k] # 0
<1>1. delivered \in [Keys -> 0..2]
  BY DEF IInv, TypeOK
<1>2. CASE UNCHANGED <<delivered, doubtful>> /\ ~Arrives(k) /\ ~ArrivesInDoubt(k)
  BY <1>2 DEF Delivering
<1>3. CASE Arrives(k)
  BY <1>1, <1>3 DEF Arrives, Again, Delivering
<1>4. CASE ArrivesInDoubt(k)
  BY <1>1, <1>4 DEF ArrivesInDoubt, Delivering
<1> QED
  BY <1>2, <1>3, <1>4

LEMMA SendSucceedsReminds ==
    ASSUME IInv, RemindInv, NEW j \in Jobs, SendSucceeds(j)
    PROVE  RemindInv'
<1> DEFINE k == job[j].key
<1>1. /\ job[j].pc = "await" /\ Holds(job[j]) /\ job[j].kind \in {"due", "immediate", "group"}
      /\ LoopIsFree /\ UNCHANGED <<claims, lost>> /\ job[j] \in Job
  BY JobAtHand DEF SendSucceeds, Holds, Holding, JobOK
<1>2. k \in Keys
  BY <1>1 DEF Job
<1>3. delivered'[k] # 0 /\ Delivering
  BY <1>2, ArrivalsStay DEF SendSucceeds
<1>4. SameMarkers
  BY <1>1 DEF SameMarkers
<1>5. ASSUME NEW b \in Job, Becomes(j, b), ~Holds(b)
      PROVE  OneAtLoop' /\ KeyFits' /\ Accounted'
  <2>1. OneAtLoop'
    BY <1>1, <1>5, LoopKept DEF RemindInv
  <2>2. KeyFits' /\ Accounted'
    BY <1>1, <1>3, <1>5, ClaimsKept DEF RemindInv
  <2> QED
    BY <2>1, <2>2
<1>6. CASE job[j].kind = "group" /\ End(j)
  <2>1. Becomes(j, NoJob) /\ NoJob \in Job /\ ~Holds(NoJob) /\ NoJob.kind # "due"
    BY <1>6, NoJobIsJob DEF End, Becomes, NoJob
  <2>2. Reminders'
    BY <1>1, <1>3, <1>4, <1>6, <2>1, OthersKeep DEF RemindInv
  <2> QED
    BY <1>5, <2>1, <2>2 DEF RemindInv
<1>7. CASE job[j].kind # "group" /\ Goto(j, "next")
  <2> DEFINE b == Moved(job[j], "next")
  <2>1. /\ Becomes(j, b) /\ b \in Job /\ b.pc = "next" /\ b.kind = job[j].kind
        /\ b.of = job[j].of
    BY <1>7, GotoMoves DEF Becomes, Pc
  <2>2. b.todo = job[j].todo /\ ~Holds(b)
    BY <1>1, <2>1 DEF Moved, Job, Holds, Holding
  <2> HIDE DEF b
  <2>3. CASE job[j].kind # "due"
    <3>1. Reminders'
      BY <1>1, <1>3, <1>4, <2>1, <2>3, OthersKeep DEF RemindInv
    <3> QED
      BY <1>5, <2>1, <2>2, <3>1 DEF RemindInv
  <2>4. CASE job[j].kind = "due"
    <3>1. Marker(job[j].of) \in claims' /\ Reminds(b, job[j].of)
      BY <1>1, <2>1, <2>4, MarkerHeld DEF RemindInv, Reminds
    <3>2. Reminders'
      BY <1>1, <1>3, <1>4, <2>1, <2>2, <2>4, <3>1, ReminderMoves DEF RemindInv, SameMarkers
    <3> QED
      BY <1>5, <2>1, <2>2, <3>2 DEF RemindInv
  <2> QED
    BY <2>3, <2>4
<1> QED
  BY <1>6, <1>7 DEF SendSucceeds

LEMMA SendFailsReminds ==
    ASSUME IInv, RemindInv, NEW j \in Jobs, SendFails(j)
    PROVE  RemindInv'
<1>1. /\ job[j].pc = "await" /\ Holds(job[j]) /\ LoopIsFree
      /\ UNCHANGED <<claims, lost>> /\ job[j] \in Job
  BY JobAtHand DEF SendFails, Holds, Holding
<1> Delivering
  BY <1>1, ArrivalsStay DEF SendFails, Job
<1>2. CASE job[j].kind = "due"
  <2>1. Goto(j, "restore") /\ "restore" \in Pc /\ "restore" \in Holding
    BY <1>2 DEF SendFails, Pc, Holding
  <2>2. Marker(job[j].of) \in claims'
    BY <1>1, <1>2, MarkerHeld DEF RemindInv
  <2> QED
    BY <1>1, <1>2, <2>1, <2>2, ReminderStep
<1>3. CASE job[j].kind # "due"
  <2> DEFINE b == Moved(job[j], "release")
  <2>1. /\ Becomes(j, b) /\ b \in Job /\ b.pc = "release" /\ b.kind = job[j].kind
        /\ b.of = job[j].of /\ b.key = job[j].key
    BY <1>3, GotoMoves DEF SendFails, Becomes, Pc
  <2>2. Holds(b) /\ SameMarkers
    BY <1>1, <2>1 DEF Holds, Holding, SameMarkers
  <2> HIDE DEF b
  <2>3. OneAtLoop'
    BY <1>1, <2>1, LoopKept DEF RemindInv
  <2>4. KeyFits' /\ Accounted'
    <3>1. b.key.kind # "due"
      BY <1>1, <1>3, <2>1 DEF RemindInv, KeyFits
    <3> QED
      BY <1>1, <1>3, <2>1, <2>2, <3>1, ClaimsKept DEF RemindInv
  <2>5. Reminders'
    BY <1>1, <1>3, <2>1, <2>2, OthersKeep DEF RemindInv
  <2> QED
    BY <2>3, <2>4, <2>5 DEF RemindInv
<1> QED
  BY <1>2, <1>3

(* The claim that is given back is a message: every marker stays.          *)
LEMMA ReleaseReminds ==
    ASSUME IInv, RemindInv, NEW j \in Jobs, Release(j)
    PROVE  RemindInv'
<1>1. /\ job[j].pc = "release" /\ Holds(job[j]) /\ AtLoop(job[j])
      /\ claims' = claims \ {job[j].key} /\ UNCHANGED <<delivered, doubtful, lost>>
  BY DEF Release, Released, Holds, Holding, AtLoop
<1>2. Becomes(j, NoJob) /\ NoJob \in Job /\ ~Holds(NoJob) /\ NoJob.kind # "due"
  BY NoJobIsJob DEF Release, End, Becomes, NoJob
<1>3. job[j].key.to # System
  BY <1>1 DEF IInv, ClaimHeld
<1>4. Delivering /\ SameMarkers
  BY <1>1, <1>3, MarkerIsNoMessage DEF Delivering, SameMarkers
<1>5. OneAtLoop'
  BY <1>1, <1>2, LoopKept DEF RemindInv
<1>6. KeyFits' /\ Accounted'
  BY <1>1, <1>2, <1>4, ClaimsKept DEF RemindInv
<1>7. Reminders'
  <2>1. CASE job[j].kind # "due"
    BY <1>1, <1>2, <1>4, <2>1, OthersKeep DEF RemindInv
  <2>2. CASE job[j].kind = "due"
    <3>1. Marker(job[j].of) \notin claims
      BY <1>1, <2>2 DEF RemindInv, Reminders, DueMarked
    <3> QED
      BY <1>1, <1>2, <1>4, <2>2, <3>1, ReminderEnds DEF RemindInv
  <2> QED
    BY <2>1, <2>2
<1> QED
  BY <1>5, <1>6, <1>7 DEF RemindInv

(* What dies with the process is counted as lost.                          *)
LEMMA CrashReminds ==
    ASSUME IInv, RemindInv, Crash
    PROVE  RemindInv'
<1>1. /\ \A j \in Jobs : job'[j] = NoJob
      /\ lost' = lost \cup (claims \cap UNION {ClaimsOf(job[j]) : j \in Jobs})
      /\ UNCHANGED <<claims, delivered, doubtful>>
  BY DEF Crash
<1>2. NoJob.kind = "none" /\ ~AtLoop(NoJob) /\ ~Holds(NoJob)
  BY DEF NoJob, AtLoop, Holds, Holding
<1>3. OneAtLoop' /\ KeyFits' /\ DueMarked' /\ OneDue' /\ Told'
  BY <1>1, <1>2 DEF OneAtLoop, KeyFits, DueMarked, OneDue, Told, AtLoop, Holds
<1>4. \A j \in Jobs : /\ Holds(job[j]) => job[j].key \in ClaimsOf(job[j])
                      /\ job[j].kind = "due" => Marker(job[j].of) \in ClaimsOf(job[j])
  BY DEF Holds, Holding, ClaimsOf
<1>5. \A j \in Jobs : \A k \in ClaimsOf(job[j]) \cap claims : k \in lost'
  BY <1>1
<1>6. Accounted'
  <2> SUFFICES ASSUME NEW k \in claims' \ lost', k.to # System
               PROVE  delivered'[k] # 0
    BY DEF Accounted
  <2>1. \A j \in Jobs : ~(Holds(job[j]) /\ job[j].key = k)
    BY <1>1, <1>4, <1>5
  <2> QED
    BY <1>1, <2>1 DEF RemindInv, Accounted
<1>7. Reached'
  <2> SUFFICES ASSUME NEW i \in 0..MaxFeedback, Marker(i) \in claims' \ lost', NEW o \in Owners
               PROVE  SettledNext(DueFor(i, o))
    BY DEF Reached, Settled, SettledNext, Marker, DueFor
  <2>1. \A j \in Jobs : ~Reminds(job[j], i)
    BY <1>1, <1>4, <1>5 DEF Reminds
  <2> QED
    BY <1>1, <2>1 DEF RemindInv, Reminders, Reached, Settled, SettledNext
<1> QED
  BY <1>3, <1>6, <1>7 DEF RemindInv, Reminders

LEMMA NothingMoves ==
    ASSUME RemindInv, UNCHANGED <<claims, delivered, doubtful, lost, job>>
    PROVE  RemindInv'
BY DEF RemindInv, OneAtLoop, KeyFits, Accounted, Reminders, DueMarked, OneDue, Told, Reached,
       AtLoop, Holds, Settled, Reminds, Marker, DueFor

LEMMA RemindInit == Init => RemindInv
<1> SUFFICES ASSUME Init PROVE RemindInv
  OBVIOUS
<1>1. \A j \in Jobs : job[j] = NoJob
  BY DEF Init
<1>2. NoJob.kind = "none" /\ ~AtLoop(NoJob) /\ ~Holds(NoJob)
  BY DEF NoJob, AtLoop, Holds, Holding
<1>3. claims = {}
  BY DEF Init
<1> QED
  BY <1>1, <1>2, <1>3 DEF RemindInv, OneAtLoop, KeyFits, Accounted, Reminders, DueMarked,
     OneDue, Told, Reached

LEMMA RemindStep == IInv /\ RemindInv /\ [Next]_vars => RemindInv'
<1> SUFFICES ASSUME IInv, RemindInv, [Next]_vars PROVE RemindInv'
  OBVIOUS
<1>1. CASE UNCHANGED vars
  BY <1>1, NothingMoves DEF vars
<1>2. CASE Tick \/ ScanMisses \/ \E sig \in Signatures : ScanFinds(sig)
  BY <1>2, NothingMoves DEF Tick, ScanMisses, ScanFinds
<1>3. ASSUME NEW j \in Jobs, \E action \in Action : Submit(j, action)
      PROVE  RemindInv'
  BY <1>3, SubmitReminds
<1>4. ASSUME NEW j \in Jobs, Apply(j) \/ RequestHelp(j)
      PROVE  RemindInv'
  BY <1>4, ApplyReminds, RequestHelpReminds
<1>5. ASSUME NEW j \in Jobs, DispatchImmediate(j) \/ DispatchDue(j) \/ Reopen(j)
      PROVE  RemindInv'
  BY <1>5, DispatchImmediateReminds, DispatchDueReminds, ReopenReminds
<1>6. ASSUME NEW j \in Jobs, NextRecipient(j) \/ SendSucceeds(j) \/ SendFails(j)
      PROVE  RemindInv'
  BY <1>6, NextRecipientReminds, SendSucceedsReminds, SendFailsReminds
<1>7. ASSUME NEW j \in Jobs, Restore(j) \/ Unmark(j) \/ Release(j)
      PROVE  RemindInv'
  BY <1>7, RestoreReminds, UnmarkReminds, ReleaseReminds
<1>8. CASE Crash
  BY <1>8, CrashReminds
<1> QED
  BY <1>1, <1>2, <1>3, <1>4, <1>5, <1>6, <1>7, <1>8 DEF Next

LEMMA RemindInvariance == Spec => []RemindInv
BY RemindInit, RemindStep, Invariant, PTL DEF Spec

-----------------------------------------------------------------------------
(* The state of the risk                                                   *)

(* Job j goes on, neither to a transition nor to a reopening.              *)
LEMMA OthersDecide ==
    ASSUME IInv, RemindInv, DecideInv, NEW j \in Jobs, NEW b, Becomes(j, b),
           b.pc \notin {"apply", "reopen"}, risk' = risk \/ AtLoop(job[j]),
           feedback' = feedback,
           \A i \in 0..MaxFeedback : Marker(i) \in claims' => Marker(i) \in claims
    PROVE  DecideInv'
<1>1. job'[j] = b /\ \A i \in Jobs : i # j => job'[i] = job[i]
  BY JobsAfter
<1>2. Len(feedback) \in 0..MaxFeedback
  BY RiskAssumption DEF IInv, TypeOK
<1>3. \A i \in Jobs : job'[i].pc \in {"apply", "reopen"} => i # j /\ job'[i] = job[i]
  BY <1>1
<1>4. Applying'
  BY <1>2, <1>3 DEF DecideInv, Applying
<1>5. MarkersBehind'
  BY DEF DecideInv, MarkersBehind
<1>6. ReopenAsleep'
  <2> SUFFICES ASSUME NEW i \in Jobs, job'[i].pc = "reopen"
               PROVE  risk'.state = "snoozed"
    BY DEF ReopenAsleep
  <2>1. i # j /\ job[i].pc = "reopen" /\ AtLoop(job[i])
    BY <1>3 DEF AtLoop
  <2>2. ~AtLoop(job[j])
    BY <2>1 DEF RemindInv, OneAtLoop
  <2> QED
    BY <2>1, <2>2 DEF DecideInv, ReopenAsleep
<1> QED
  BY <1>4, <1>5, <1>6 DEF DecideInv

(* Every step moves one job this way, or is one of a few.                  *)
LEMMA SubmitDecides ==
    ASSUME IInv, RemindInv, DecideInv, NEW j \in Jobs, NEW action \in Action, Submit(j, action)
    PROVE  DecideInv'
<1> DEFINE n == Len(feedback) + 1
           b == Started("feedback", n, "apply")
<1>1. n \in 0..MaxFeedback /\ Len(feedback) \in Nat /\ n > 0 /\ Len(feedback') = n
  BY RiskAssumption DEF IInv, TypeOK, Submit
<1>2. Becomes(j, b) /\ LoopIsFree /\ UNCHANGED <<risk, claims>>
  BY DEF Submit, Start, Started, Becomes
<1>3. b.pc = "apply" /\ b.of = n
  BY <1>1, StartedIsJob DEF Pc
<1>4. job'[j] = b /\ \A i \in Jobs : i # j => job'[i] = job[i]
  BY <1>2, JobsAfter
<1>5. \A i \in Jobs : job'[i].pc \in {"apply", "reopen"} => i = j
  BY <1>2, <1>4 DEF LoopIsFree
<1>6. Marker(n) \notin claims
  BY <1>1 DEF DecideInv, MarkersBehind
<1> HIDE DEF b
<1>7. Applying'
  BY <1>1, <1>2, <1>3, <1>4, <1>5, <1>6 DEF Applying
<1>8. MarkersBehind'
  BY <1>1, <1>2 DEF DecideInv, MarkersBehind
<1>9. ReopenAsleep'
  BY <1>3, <1>4, <1>5 DEF ReopenAsleep
<1> QED
  BY <1>7, <1>8, <1>9 DEF DecideInv

LEMMA DispatchDueDecides ==
    ASSUME IInv, RemindInv, DecideInv, NEW j \in Jobs, DispatchDue(j)
    PROVE  DecideInv'
<1> DEFINE n == Len(feedback)
           b == Started("due", n, "reopen")
<1>1. n \in 0..MaxFeedback
  BY RiskAssumption DEF IInv, TypeOK
<1>2. Becomes(j, b) /\ LoopIsFree /\ UNCHANGED <<risk, feedback>> /\ risk.state = "snoozed"
  BY DEF DispatchDue, Start, Started, Becomes
<1>3. b.pc = "reopen"
  BY <1>1, StartedIsJob DEF Pc
<1>4. job'[j] = b /\ \A i \in Jobs : i # j => job'[i] = job[i]
  BY <1>2, JobsAfter
<1>5. \A i \in Jobs : job'[i].pc # "apply"
  BY <1>2, <1>3, <1>4 DEF LoopIsFree
<1>6. Applying' /\ ReopenAsleep'
  BY <1>2, <1>5 DEF Applying, ReopenAsleep
<1>7. MarkersBehind'
  <2>1. claims' = claims \cup {Marker(n)} /\ n <= Len(feedback)
    BY <1>1 DEF DispatchDue
  <2>2. \A i \in 0..MaxFeedback : Marker(i) = Marker(n) => i = n
    BY MarkersDiffer
  <2> QED
    BY <1>2, <2>1, <2>2 DEF DecideInv, MarkersBehind
<1> QED
  BY <1>6, <1>7 DEF DecideInv

LEMMA ScanDecides ==
    ASSUME DecideInv, ScanMisses \/ \E sig \in Signatures : ScanFinds(sig)
    PROVE  DecideInv'
<1>1. LoopIsFree /\ UNCHANGED <<feedback, claims, job>>
  BY DEF ScanMisses, ScanFinds
<1> QED
  BY <1>1 DEF DecideInv, Applying, MarkersBehind, ReopenAsleep, LoopIsFree

LEMMA CrashDecides ==
    ASSUME DecideInv, Crash
    PROVE  DecideInv'
<1>1. \A j \in Jobs : job'[j].pc = "idle"
  BY DEF Crash, NoJob
<1> QED
  BY <1>1 DEF Crash, DecideInv, Applying, MarkersBehind, ReopenAsleep

(* The steps that are left move their job on by End, Goto, Start or Claim. *)
Quietly(j) ==
    /\ \E b \in Job : Becomes(j, b) /\ b.pc \notin {"apply", "reopen"}
    /\ feedback' = feedback
    /\ \A i \in 0..MaxFeedback : Marker(i) \in claims' => Marker(i) \in claims

LEMMA EndsQuietly ==
    ASSUME NEW j \in Jobs, End(j), feedback' = feedback, claims' \subseteq claims
    PROVE  Quietly(j)
<1>1. NoJob \in Job /\ NoJob.pc = "idle" /\ Becomes(j, NoJob)
  BY NoJobIsJob DEF End, NoJob, Becomes
<1> QED
  BY <1>1 DEF Quietly

LEMMA GoesQuietly ==
    ASSUME IInv, NEW j \in Jobs, NEW pc \in Pc \ {"apply", "reopen"}, Goto(j, pc),
           feedback' = feedback, claims' \subseteq claims
    PROVE  Quietly(j)
<1>1. /\ Becomes(j, Moved(job[j], pc)) /\ Moved(job[j], pc) \in Job
      /\ Moved(job[j], pc).pc = pc
  BY GotoMoves DEF Becomes
<1> QED
  BY <1>1 DEF Quietly

LEMMA StartsQuietly ==
    ASSUME NEW j \in Jobs, NEW kind \in {"immediate", "group"}, NEW of \in Signatures,
           NEW pc \in {"queued", "next"}, Start(j, kind, of, pc),
           feedback' = feedback, claims' \subseteq claims
    PROVE  Quietly(j)
<1>1. Started(kind, of, pc) \in Job /\ Started(kind, of, pc).pc = pc
  BY StartedIsJob DEF Pc
<1>2. Becomes(j, Started(kind, of, pc))
  BY DEF Start, Started, Becomes
<1> QED
  BY <1>1, <1>2 DEF Quietly

LEMMA ClaimsQuietly ==
    ASSUME IInv, NEW j \in Jobs, NEW k \in Keys, k.to # System, NEW todo \in SUBSET Owners,
           Claim(j, k, todo), feedback' = feedback
    PROVE  Quietly(j)
<1> DEFINE b == [job[j] EXCEPT !.pc = "await", !.key = k, !.todo = todo]
<1>1. job[j] \in Job /\ job \in [Jobs -> Job]
  BY DEF IInv, TypeOK
<1>2. b \in Job /\ b.pc = "await" /\ Becomes(j, b)
  BY <1>1 DEF Job, Pc, Claim, Becomes
<1>3. \A i \in 0..MaxFeedback : Marker(i) # k
  BY MarkerIsNoMessage
<1> HIDE DEF b
<1> QED
  BY <1>2, <1>3 DEF Quietly, Claim

LEMMA QuietActions ==
    ASSUME IInv, NEW j \in Jobs,
           \/ Apply(j) \/ RequestHelp(j) \/ DispatchImmediate(j) \/ Reopen(j)
           \/ NextRecipient(j) \/ SendSucceeds(j) \/ SendFails(j)
           \/ Restore(j) \/ Unmark(j) \/ Release(j)
    PROVE  Quietly(j) /\ (risk' = risk \/ AtLoop(job[j]))
<1>1. job[j] \in Job /\ JobOK(job[j]) /\ risk.evidence \in Signatures
  BY JobAtHand
<1>2. CASE Apply(j)
  <2>1. AtLoop(job[j]) /\ feedback' = feedback /\ claims' \subseteq claims
    BY <1>2 DEF Apply, AtLoop
  <2>2. Quietly(j)
    BY <1>1, <1>2, <2>1, EndsQuietly, StartsQuietly DEF Apply
  <2> QED
    BY <2>1, <2>2
<1>3. CASE RequestHelp(j)
  <2>1. job[j].of \in Signatures
    BY <1>1, <1>3 DEF RequestHelp, JobOK
  <2>2. Escalation(job[j].of) \in Keys /\ Escalation(job[j].of).to # System
    BY <2>1, EscalationIsMessage
  <2> QED
    BY <1>3, <2>2, EndsQuietly, ClaimsQuietly DEF RequestHelp
<1>4. CASE DispatchImmediate(j)
  BY <1>1, <1>4, StartsQuietly DEF DispatchImmediate
<1>5. CASE Reopen(j)
  BY <1>5, GoesQuietly DEF Reopen, AtLoop, Pc
<1>6. CASE NextRecipient(j)
  <2>1. feedback' = feedback /\ risk' = risk /\ job[j].kind \in {"due", "immediate"}
    BY <1>1, <1>6 DEF NextRecipient, JobOK
  <2>2. CASE End(j) /\ UNCHANGED claims
    BY <2>1, <2>2, EndsQuietly
  <2>3. ASSUME NEW o \in job[j].todo, Claim(j, KeyFor(j, o), job[j].todo \ {o})
        PROVE  Quietly(j)
    <3>1. o \in Owners /\ job[j].todo \ {o} \in SUBSET Owners
      BY <1>1 DEF Job
    <3>2. KeyFor(j, o) \in Keys /\ KeyFor(j, o).to # System
      BY <1>1, <2>1, <3>1, KeyForIsMessage
    <3> QED
      BY <2>1, <2>3, <3>1, <3>2, ClaimsQuietly
  <2>4. ASSUME NEW o \in job[j].todo, UNCHANGED claims,
               job' = [job EXCEPT ![j].todo = job[j].todo \ {o}]
        PROVE  Quietly(j)
    <3> DEFINE b == [job[j] EXCEPT !.todo = job[j].todo \ {o}]
    <3>1. b \in Job /\ b.pc = "next" /\ Becomes(j, b)
      BY <1>1, <1>6, <2>4 DEF Job, Becomes, NextRecipient
    <3> HIDE DEF b
    <3> QED
      BY <2>1, <2>4, <3>1 DEF Quietly
  <2> QED
    BY <1>6, <2>1, <2>2, <2>3, <2>4 DEF NextRecipient
<1>7. CASE SendSucceeds(j)
  BY <1>7, EndsQuietly, GoesQuietly DEF SendSucceeds, Pc
<1>8. CASE SendFails(j)
  BY <1>8, GoesQuietly DEF SendFails, Pc
<1>9. CASE Restore(j)
  BY <1>9, GoesQuietly DEF Restore, AtLoop, Pc
<1>10. CASE Unmark(j)
  BY <1>10, GoesQuietly DEF Unmark, Pc
<1>11. CASE Release(j)
  BY <1>11, EndsQuietly DEF Release
<1> QED
  BY <1>2, <1>3, <1>4, <1>5, <1>6, <1>7, <1>8, <1>9, <1>10, <1>11

LEMMA DecideInit == Init => DecideInv
BY DEF Init, DecideInv, Applying, MarkersBehind, ReopenAsleep, NoJob

LEMMA DecideStep == IInv /\ RemindInv /\ DecideInv /\ [Next]_vars => DecideInv'
<1> SUFFICES ASSUME IInv, RemindInv, DecideInv, [Next]_vars PROVE DecideInv'
  OBVIOUS
<1>1. CASE UNCHANGED vars \/ Tick
  BY <1>1 DEF vars, Tick, DecideInv, Applying, MarkersBehind, ReopenAsleep
<1>2. CASE ScanMisses \/ \E sig \in Signatures : ScanFinds(sig)
  BY <1>2, ScanDecides
<1>3. ASSUME NEW j \in Jobs, \E action \in Action : Submit(j, action)
      PROVE  DecideInv'
  BY <1>3, SubmitDecides
<1>4. ASSUME NEW j \in Jobs,
             \/ Apply(j) \/ RequestHelp(j) \/ DispatchImmediate(j) \/ Reopen(j)
             \/ NextRecipient(j) \/ SendSucceeds(j) \/ SendFails(j)
             \/ Restore(j) \/ Unmark(j) \/ Release(j)
      PROVE  DecideInv'
  <2>1. Quietly(j) /\ (risk' = risk \/ AtLoop(job[j]))
    BY <1>4, QuietActions
  <2> QED
    BY <2>1, OthersDecide DEF Quietly
<1>5. ASSUME NEW j \in Jobs, DispatchDue(j)
      PROVE  DecideInv'
  BY <1>5, DispatchDueDecides
<1>6. CASE Crash
  BY <1>6, CrashDecides
<1> QED
  BY <1>1, <1>2, <1>3, <1>4, <1>5, <1>6 DEF Next

LEMMA DecideInvariance == Spec => []DecideInv
BY DecideInit, DecideStep, Invariant, RemindInvariance, PTL DEF Spec

(* Where the job stands after each way to go on.                           *)
LEMMA PcAfter ==
    ASSUME IInv, NEW j \in Jobs
    PROVE  /\ End(j) => job'[j].pc = "idle"
           /\ \A pc : Goto(j, pc) => job'[j].pc = pc
           /\ \A kind, of, pc : Start(j, kind, of, pc) => job'[j].pc = pc
           /\ \A k, todo : Claim(j, k, todo) => job'[j].pc = "await"
<1>1. job \in [Jobs -> Job] /\ job[j] \in Job
  BY DEF IInv, TypeOK
<1>2. End(j) => job'[j].pc = "idle"
  BY <1>1 DEF End, NoJob
<1>3. ASSUME NEW pc, Goto(j, pc) PROVE job'[j].pc = pc
  BY <1>1, <1>3 DEF Goto, Job
<1>4. ASSUME NEW kind, NEW of, NEW pc, Start(j, kind, of, pc) PROVE job'[j].pc = pc
  BY <1>1, <1>4 DEF Start, NoJob
<1>5. ASSUME NEW k, NEW todo, Claim(j, k, todo) PROVE job'[j].pc = "await"
  BY <1>1, <1>5 DEF Claim, Job
<1> QED
  BY <1>2, <1>3, <1>4, <1>5

(* Where no send fails nobody cleans up after one.                         *)
LEMMA NothingToRepair == ASSUME "send" \notin Faults PROVE Spec => []NoRepairs
<1>1. Init => NoRepairs
  BY DEF Init, NoRepairs, NoJob
<1>2. IInv /\ NoRepairs /\ [Next]_vars => NoRepairs'
  <2> SUFFICES ASSUME IInv, NoRepairs, [Next]_vars PROVE NoRepairs'
    OBVIOUS
  <2>1. ASSUME NEW j \in Jobs, NEW b, Becomes(j, b), b.pc \notin {"restore", "unmark", "release"}
        PROVE  NoRepairs'
    BY <2>1, JobsAfter DEF NoRepairs
  <2>2. CASE UNCHANGED job
    BY <2>2 DEF NoRepairs
  <2>3. ASSUME NEW j \in Jobs, \/ \E action \in Action : Submit(j, action)
                               \/ DispatchDue(j)
        PROVE  NoRepairs'
    <3>1. Len(feedback) \in Nat /\ Len(feedback) \in 0..MaxFeedback
      BY RiskAssumption DEF IInv, TypeOK
    <3>2. (\E action \in Action : Submit(j, action)) => Len(feedback) + 1 \in 0..MaxFeedback
      BY <3>1, RiskAssumption DEF Submit
    <3>3. PICK kind \in {"feedback", "due"}, of \in 0..MaxFeedback, pc \in {"apply", "reopen"} :
             Start(j, kind, of, pc)
      BY <2>3, <3>1, <3>2 DEF Submit, DispatchDue
    <3>4. Started(kind, of, pc).pc = pc
      BY <3>3, StartedIsJob DEF Pc
    <3>5. Becomes(j, Started(kind, of, pc))
      BY <3>3 DEF Start, Started, Becomes
    <3> QED
      BY <2>1, <3>4, <3>5
  <2>4. ASSUME NEW j \in Jobs, Apply(j) \/ RequestHelp(j) \/ DispatchImmediate(j)
        PROVE  NoRepairs'
    <3>1. PICK b \in Job : Becomes(j, b)
      BY <2>4, QuietActions DEF Quietly
    <3>2. job'[j].pc \in {"idle", "queued", "next", "await"}
      BY <2>4, PcAfter DEF Apply, RequestHelp, DispatchImmediate
    <3> QED
      BY <2>1, <3>1, <3>2, JobsAfter
  <2>5. ASSUME NEW j \in Jobs, \/ Reopen(j) \/ NextRecipient(j) \/ SendSucceeds(j) \/ SendFails(j)
                               \/ Restore(j) \/ Unmark(j) \/ Release(j)
        PROVE  NoRepairs'
    <3>1. PICK b \in Job : Becomes(j, b)
      BY <2>5, QuietActions DEF Quietly
    <3>2. job'[j].pc \in {"idle", "next", "await"}
      <4>1. job[j].pc \notin {"restore", "unmark", "release"}
        BY DEF NoRepairs
      <4>2. CASE NextRecipient(j)
        <5>1. ASSUME NEW rest, job' = [job EXCEPT ![j].todo = rest], job[j].pc = "next"
              PROVE  job'[j].pc = "next"
          BY <5>1 DEF IInv, TypeOK, Job
        <5> QED
          BY <4>2, <5>1, PcAfter DEF NextRecipient
      <4> QED
        BY <2>5, <4>1, <4>2, PcAfter DEF Reopen, SendSucceeds, SendFails, Restore, Unmark, Release
    <3> QED
      BY <2>1, <3>1, <3>2, JobsAfter
  <2>6. CASE Crash
    BY <2>6 DEF Crash, NoRepairs, NoJob
  <2>7. CASE Tick \/ ScanMisses \/ \E sig \in Signatures : ScanFinds(sig)
    BY <2>2, <2>7 DEF Tick, ScanMisses, ScanFinds
  <2> QED
    BY <2>2, <2>3, <2>4, <2>5, <2>6, <2>7 DEF Next, vars
<1> QED
  BY <1>1, <1>2, Invariant, PTL DEF Spec

LEMMA SleepStep ==
    ASSUME Faults = {}, IInv, RemindInv, DecideInv, NoRepairs, Asleep, [Next]_vars
    PROVE  Asleep'
<1> SUFFICES ASSUME risk'.state = "snoozed" PROVE Asleep'
  BY DEF Asleep
<1>0. Len(feedback) \in 0..MaxFeedback
  BY RiskAssumption DEF IInv, TypeOK
<1>1. CASE UNCHANGED vars \/ Tick
  BY <1>1 DEF vars, Tick, Asleep, LastFeedback
<1>2. CASE ScanMisses \/ \E sig \in Signatures : ScanFinds(sig)
  <2>1. risk.state = "snoozed" /\ UNCHANGED <<feedback, claims, job>>
    BY <1>2 DEF ScanMisses, ScanFinds, ScannedState, IInv, TypeOK
  <2> QED
    BY <2>1 DEF Asleep, LastFeedback
<1>3. ASSUME NEW j \in Jobs, \E action \in Action : Submit(j, action)
      PROVE  Asleep'
  <2>1. job'[j].pc = "apply"
    BY <1>3, PcAfter DEF Submit
  <2> QED
    BY <2>1 DEF Asleep
<1>4. ASSUME NEW j \in Jobs, Apply(j)
      PROVE  Asleep'
  <2>1. job[j].of = Len(feedback) /\ Len(feedback) > 0 /\ Marker(Len(feedback)) \notin claims
    BY <1>4 DEF DecideInv, Applying, Apply
  <2>2. UNCHANGED <<feedback, claims>> /\ risk'.state = TargetState(LastFeedback.action)
    BY <1>4, <2>1 DEF Apply, LastFeedback, IInv, TypeOK
  <2>3. LastFeedback.action = "snooze"
    BY <2>2 DEF TargetState
  <2> QED
    BY <2>1, <2>2, <2>3 DEF Asleep, LastFeedback
<1>5. ASSUME NEW j \in Jobs, DispatchDue(j)
      PROVE  Asleep'
  <2>1. /\ UNCHANGED feedback /\ LastFeedback.action = "snooze" /\ Len(feedback) > 0
        /\ Start(j, "due", Len(feedback), "reopen")
    BY <1>5 DEF DispatchDue
  <2>2. Reminds(Started("due", Len(feedback), "reopen"), Len(feedback))
    BY <1>0, StartedIsJob DEF Reminds, Pc
  <2>3. job'[j] = Started("due", Len(feedback), "reopen")
    BY <2>1, JobsAfter DEF Start, Started, Becomes
  <2>4. job'[j].pc = "reopen"
    BY <2>1, PcAfter
  <2> QED
    BY <2>1, <2>2, <2>3, <2>4 DEF Asleep, LastFeedback
<1>6. ASSUME NEW j \in Jobs, Reopen(j)
      PROVE  Asleep'
  BY <1>6 DEF Reopen, IInv, TypeOK
<1>7. ASSUME NEW j \in Jobs,
             RequestHelp(j) \/ DispatchImmediate(j) \/ NextRecipient(j) \/ SendSucceeds(j)
      PROVE  Asleep'
  <2>1. risk' = risk /\ job[j].pc \notin {"apply", "reopen"}
    BY <1>7 DEF RequestHelp, DispatchImmediate, NextRecipient, SendSucceeds
  <2>2. Quietly(j)
    BY <1>7, QuietActions
  <2>3. \A i \in Jobs : job[i].pc \in {"apply", "reopen"} => job'[i] = job[i]
    BY <2>1, <2>2, JobsAfter DEF Quietly
  <2>4. CASE \E i \in Jobs : job[i].pc = "apply"
    BY <2>3, <2>4 DEF Asleep
  <2>5. CASE /\ Len(feedback) > 0 /\ LastFeedback.action = "snooze"
             /\ \/ Marker(Len(feedback)) \notin claims
                \/ \E i \in Jobs : Reminds(job[i], Len(feedback)) /\ job[i].pc = "reopen"
    <3>1. feedback' = feedback /\ LastFeedback' = LastFeedback
      BY <2>2 DEF Quietly, LastFeedback
    <3>2. CASE Marker(Len(feedback)) \notin claims
      <4>1. Marker(Len(feedback)) \notin claims'
        BY <1>0, <2>2, <3>2 DEF Quietly
      <4> QED
        BY <2>5, <3>1, <4>1 DEF Asleep
    <3>3. ASSUME NEW i \in Jobs, Reminds(job[i], Len(feedback)), job[i].pc = "reopen"
          PROVE  Asleep'
      <4>1. Reminds(job'[i], Len(feedback)) /\ job'[i].pc = "reopen"
        BY <2>3, <3>3
      <4> QED
        BY <2>5, <3>1, <4>1 DEF Asleep, Reminds
    <3> QED
      BY <2>5, <3>2, <3>3
  <2> QED
    BY <2>1, <2>4, <2>5 DEF Asleep
<1>8. ~Crash /\ \A j \in Jobs : ~(SendFails(j) \/ Restore(j) \/ Unmark(j) \/ Release(j))
  BY DEF Crash, SendFails, Restore, Unmark, Release, NoRepairs
<1> QED
  BY <1>1, <1>2, <1>3, <1>4, <1>5, <1>6, <1>7, <1>8 DEF Next

-----------------------------------------------------------------------------
(* The theorems                                                            *)

(* RiskNotificationService never claims a message for good without         *)
(* delivering it, whichever dispatches overlap and whatever fails: a claim *)
(* is a delivered message, or one on its way or about to be given back;    *)
(* only what was under way when the process died stays claimed.            *)
THEOREM ClaimsAreDelivered == Spec => []ClaimedIsDelivered
<1>1. RemindInv => ClaimedIsDelivered
  <2> SUFFICES ASSUME RemindInv, NEW k \in claims \ lost, k.to # System
               PROVE  \/ delivered[k] # 0
                      \/ \E j \in Jobs : job[j].key = k /\ job[j].pc # "idle"
    BY DEF ClaimedIsDelivered
  <2> QED
    BY DEF RemindInv, Accounted, Holds, Holding
<1> QED
  BY <1>1, RemindInvariance, PTL

(* When dispatch_due_snoozes has used a snooze up, every owner was         *)
(* reminded, for any number of dispatches that fail halfway and are        *)
(* retried; except for what was under way when the process died.           *)
THEOREM RemindersReachEveryOwner == Spec => []ReminderReachesAllOwners
<1>1. IInv /\ RemindInv => ReminderReachesAllOwners
  <2> SUFFICES ASSUME IInv, RemindInv, NEW i \in 1..Len(feedback), Marker(i) \in claims \ lost
               PROVE  \/ \A o \in Owners : delivered[DueFor(i, o)] # 0 \/ DueFor(i, o) \in lost
                      \/ \E j \in Jobs : job[j].kind = "due" /\ job[j].of = i
    BY DEF ReminderReachesAllOwners
  <2>1. i \in 0..MaxFeedback
    BY RiskAssumption DEF IInv, TypeOK
  <2> QED
    BY <2>1 DEF RemindInv, Reminders, Reached, Settled, Reminds
<1> QED
  BY <1>1, Invariant, RemindInvariance, PTL

(* Where no send fails, only later feedback or a scan that finds the       *)
(* evidence gone undoes an acknowledgement or a dismissal, crashes         *)
(* included.  A failed reminder does undo one (Restore writes "snoozed"    *)
(* over whatever the state is), so the hypothesis is needed.               *)
THEOREM DecisionsStand ==
    ASSUME "send" \notin Faults
    PROVE  Spec => UserDecisionStands
<1> DEFINE Stands == risk.state \in {"acknowledged", "dismissed"} /\ risk'.state # risk.state =>
              \/ risk'.state = "resolved"
              \/ /\ \E j \in Jobs : job[j].pc = "apply"
                 /\ risk'.state = TargetState(LastFeedback.action)
<1>1. IInv /\ DecideInv /\ NoRepairs /\ [Next]_vars => [Stands]_vars
  <2> SUFFICES ASSUME IInv, DecideInv, NoRepairs, Next,
                      risk.state \in {"acknowledged", "dismissed"}, risk'.state # risk.state
               PROVE  \/ risk'.state = "resolved"
                      \/ /\ \E j \in Jobs : job[j].pc = "apply"
                         /\ risk'.state = TargetState(LastFeedback.action)
    OBVIOUS
  <2>1. CASE ScanMisses \/ \E sig \in Signatures : ScanFinds(sig)
    BY <2>1 DEF ScanMisses, ScanFinds, ScannedState, IInv, TypeOK
  <2>2. ASSUME NEW j \in Jobs, Apply(j)
        PROVE  job[j].pc = "apply" /\ risk'.state = TargetState(LastFeedback.action)
    <3>1. job[j].pc = "apply" /\ job[j].of = Len(feedback)
      BY <2>2 DEF Apply, DecideInv, Applying
    <3> QED
      BY <2>2, <3>1 DEF Apply, LastFeedback, IInv, TypeOK
  <2>3. \A j \in Jobs : ~(Reopen(j) \/ Restore(j))
    BY DEF Reopen, Restore, DecideInv, ReopenAsleep, NoRepairs
  <2>4. UNCHANGED risk => risk'.state = risk.state
    OBVIOUS
  <2> QED
    BY <2>1, <2>2, <2>3, <2>4 DEF Next, Submit, RequestHelp, DispatchImmediate, DispatchDue,
       NextRecipient, SendSucceeds, SendFails, Unmark, Release, Crash, Tick
<1>2. Spec => [][Stands]_vars
  BY <1>1, Invariant, DecideInvariance, NothingToRepair, PTL DEF Spec
<1> QED
  BY <1>2 DEF UserDecisionStands

(* Where no send fails and the process does not die, a sleeping risk can   *)
(* always be woken: its latest feedback is a snooze whose marker no        *)
(* dispatch has used up.  Either fault breaks this: Restore may put a risk *)
(* to sleep that its owner has acknowledged, and a crash between           *)
(* create_feedback and the transition leaves the risk asleep under         *)
(* feedback that is no snooze.                                             *)
THEOREM SleepersCanBeWoken ==
    ASSUME Faults = {}
    PROVE  Spec => []SnoozeCanEnd
<1>1. Init => Asleep
  BY RiskAssumption DEF Init, Asleep
<1>2. "send" \notin Faults
  OBVIOUS
<1>3. IInv /\ RemindInv /\ DecideInv /\ NoRepairs /\ Asleep /\ [Next]_vars => Asleep'
  BY SleepStep
<1>4. Asleep => SnoozeCanEnd
  BY DEF Asleep, SnoozeCanEnd, LoopIsFree
<1> QED
  BY <1>1, <1>2, <1>3, <1>4, Invariant, RemindInvariance, DecideInvariance, NothingToRepair, PTL
     DEF Spec
=============================================================================
