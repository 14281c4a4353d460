------------------------- MODULE RiskFeedbackProofs -------------------------
(***************************************************************************)
(* No message about a risk arrives twice, unless the messenger was in      *)
(* doubt about it: for any number of jobs, owners, evidence signatures and *)
(* feedback rows, with any failures and crashes.                           *)
(*                                                                         *)
(* RemindedOnce alone is not inductive.  The argument is about claims: a   *)
(* job that awaits the messenger, or cleans up after it, holds a claim no  *)
(* other job holds, for a message that did not arrive so far or that is in *)
(* doubt; and a message that arrived without doubt keeps its claim for     *)
(* ever, since claims are given back only by their holder, and the markers *)
(* the clean-up also removes are no messages.                              *)
(***************************************************************************)
EXTENDS RiskFeedback, TLAPS

(* The job has claimed its key and has not finished with it.               *)
Holding == {"await", "restore", "unmark", "release"}
Holds(b) == b.pc \in Holding

(* What a job works on fits its kind, and its kind fits its step.          *)
JobOK(b) ==
    /\ b.kind = "due" => b.of \in 0..MaxFeedback
    /\ b.kind \in {"immediate", "group"} => b.of \in Signatures
    /\ b.pc \in {"reopen", "restore", "unmark"} => b.kind = "due"
    /\ b.pc = "queued" => b.kind = "group"
    /\ b.pc = "next" => b.kind \in {"due", "immediate"}
    /\ b.pc \in {"await", "release"} => b.kind \in {"due", "immediate", "group"}

JobsOK == \A j \in Jobs : JobOK(job[j])

ClaimHeld == \A j \in Jobs : Holds(job[j]) => /\ job[j].key \in claims
                                              /\ job[j].key.to # System
                                              /\ job[j].key \in doubtful \/ delivered[job[j].key] = 0

OneHolder == \A i, j \in Jobs : Holds(job[i]) /\ Holds(job[j]) /\ job[i].key = job[j].key
                                   => i = j

DeliveredOnce == \A k \in Keys :
    IF k \in doubtful THEN delivered[k] = 2
    ELSE /\ delivered[k] \in {0, 1}
         /\ delivered[k] = 1 => k \in claims /\ k.to # System

IInv == TypeOK /\ JobsOK /\ ClaimHeld /\ OneHolder /\ DeliveredOnce

-----------------------------------------------------------------------------
(* Keys and jobs                                                           *)

(* What a job that is sending claims is a message: never a marker.         *)
LEMMA KeyForIsMessage ==
    ASSUME NEW j \in Jobs, job[j] \in Job, JobOK(job[j]), job[j].kind \in {"due", "immediate"},
           NEW o \in Owners
    PROVE  KeyFor(j, o) \in Keys /\ KeyFor(j, o).to # System
<1>1. CASE job[j].kind = "due"
  <2>1. job[j].of \in 0..MaxFeedback
    BY <1>1 DEF JobOK
  <2> QED
    BY <1>1, <2>1, RiskAssumption DEF KeyFor, DueFor, Keys
<1>2. CASE job[j].kind = "immediate"
  <2>1. job[j].of \in Signatures
    BY <1>2 DEF JobOK
  <2> QED
    BY <1>2, <2>1, RiskAssumption DEF KeyFor, Immediate, Keys
<1> QED
  BY <1>1, <1>2

LEMMA EscalationIsMessage ==
    ASSUME NEW sig \in Signatures
    PROVE  Escalation(sig) \in Keys /\ Escalation(sig).to # System
BY RiskAssumption DEF Escalation, Keys

LEMMA MarkerIsNoMessage ==
    ASSUME NEW i \in 0..MaxFeedback
    PROVE  Marker(i) \in Keys /\ Marker(i).to = System
BY DEF Marker, DueFor, Keys

LEMMA NoJobIsJob == NoJob \in Job /\ JobOK(NoJob) /\ ~Holds(NoJob)
<1>1. AnyKey \in Keys
  BY RiskAssumption, MarkerIsNoMessage DEF AnyKey
<1>2. 0 \in 0..MaxFeedback
  BY RiskAssumption
<1> QED
  BY <1>1, <1>2 DEF NoJob, Job, JobOK, Holds, Holding, Pc

(* The job made by Start.                                                  *)
Started(kind, of, pc) == [NoJob EXCEPT !.kind = kind, !.of = of, !.pc = pc, !.todo = Owners]

LEMMA StartedIsJob ==
    ASSUME NEW kind \in {"none", "feedback", "immediate", "group", "due"},
           NEW of \in Signatures \cup 0..MaxFeedback, NEW pc \in Pc
    PROVE  /\ Started(kind, of, pc) \in Job
           /\ Started(kind, of, pc).kind = kind
           /\ Started(kind, of, pc).of = of
           /\ Started(kind, of, pc).pc = pc
BY NoJobIsJob DEF Started, NoJob, Job

-----------------------------------------------------------------------------
(* One job takes a step                                                    *)

(* Types of jobs survive any step of one job to a fitting record.          *)
LEMMA JobTypes ==
    ASSUME IInv, NEW j \in Jobs, NEW b \in Job, JobOK(b), job' = [job EXCEPT ![j] = b]
    PROVE  job' \in [Jobs -> Job] /\ JobsOK'
<1>1. job \in [Jobs -> Job] /\ JobsOK
  BY DEF IInv, TypeOK
<1>2. \A i \in Jobs : job'[i] = IF i = j THEN b ELSE job[i]
  BY <1>1
<1>3. \A i \in Jobs : JobOK(job'[i])
  BY <1>1, <1>2 DEF JobsOK
<1> QED
  BY <1>1, <1>3 DEF JobsOK

(* A job that takes no new claim, while no claim is given back and nothing *)
(* is delivered, leaves the argument about claims alone.                   *)
LEMMA QuietStep ==
    ASSUME IInv, NEW j \in Jobs, NEW b \in Job, job' = [job EXCEPT ![j] = b],
           Holds(b) => Holds(job[j]) /\ b.key = job[j].key,
           claims \subseteq claims', UNCHANGED <<delivered, doubtful>>
    PROVE  ClaimHeld' /\ OneHolder' /\ DeliveredOnce'
<1>1. job \in [Jobs -> Job] /\ ClaimHeld /\ OneHolder /\ DeliveredOnce
  BY DEF IInv, TypeOK
<1>2. \A i \in Jobs : job'[i] = IF i = j THEN b ELSE job[i]
  BY <1>1
<1>3. \A i \in Jobs : Holds(job'[i]) => Holds(job[i]) /\ job'[i].key = job[i].key
  BY <1>2
<1>4. ClaimHeld'
  BY <1>1, <1>3 DEF ClaimHeld
<1>5. OneHolder'
  BY <1>1, <1>3 DEF OneHolder
<1>6. DeliveredOnce'
  BY <1>1 DEF DeliveredOnce
<1> QED
  BY <1>4, <1>5, <1>6

(* A job takes a claim that nobody has: the message was not delivered.     *)
LEMMA ClaimStep ==
    ASSUME IInv, NEW j \in Jobs, NEW b \in Job, job' = [job EXCEPT ![j] = b],
           b.key \in Keys \ claims, b.key.to # System,
           claims' = claims \cup {b.key}, UNCHANGED <<delivered, doubtful>>
    PROVE  ClaimHeld' /\ OneHolder' /\ DeliveredOnce'
<1>1. job \in [Jobs -> Job] /\ ClaimHeld /\ OneHolder /\ DeliveredOnce
  BY DEF IInv, TypeOK
<1>2. \A i \in Jobs : job'[i] = IF i = j THEN b ELSE job[i]
  BY <1>1
<1>3. b.key \in doubtful \/ delivered[b.key] = 0
  BY <1>1 DEF DeliveredOnce
<1>4. \A i \in Jobs : Holds(job[i]) => job[i].key # b.key
  BY <1>1 DEF ClaimHeld
<1>5. ClaimHeld'
  BY <1>1, <1>2, <1>3 DEF ClaimHeld
<1>6. OneHolder'
  BY <1>1, <1>2, <1>4 DEF OneHolder
<1>7. DeliveredOnce'
  BY <1>1 DEF DeliveredOnce
<1> QED
  BY <1>5, <1>6, <1>7

(* The holder is done with its claim, which nobody else holds.             *)
LEMMA LastStep ==
    ASSUME IInv, NEW j \in Jobs, Holds(job[j]), NEW b \in Job, ~Holds(b),
           job' = [job EXCEPT ![j] = b],
           \/ claims' = claims /\ (Arrives(job[j].key) \/ ArrivesInDoubt(job[j].key))
           \/ claims' = claims \ {job[j].key} /\ UNCHANGED <<delivered, doubtful>>
    PROVE  ClaimHeld' /\ OneHolder' /\ DeliveredOnce'
<1>1. /\ job \in [Jobs -> Job] /\ delivered \in [Keys -> 0..2]
      /\ ClaimHeld /\ OneHolder /\ DeliveredOnce
  BY DEF IInv, TypeOK
<1> DEFINE k == job[j].key
<1>2. \A i \in Jobs : job'[i] = IF i = j THEN b ELSE job[i]
  BY <1>1
<1>3. k \in Keys
  BY <1>1 DEF Job
<1>4. k \in claims /\ (k \in doubtful \/ delivered[k] = 0) /\ k.to # System
  BY <1>1 DEF ClaimHeld
<1>5. \A i \in Jobs : Holds(job'[i]) => job'[i] = job[i] /\ Holds(job[i]) /\ job[i].key # k
  BY <1>1, <1>2 DEF OneHolder
<1>6. \A i \in Jobs : job[i].key \in Keys
  BY <1>1 DEF Job
<1> HIDE DEF k
<1>7. CASE claims' = claims /\ (Arrives(k) \/ ArrivesInDoubt(k))
  <2>1. \A c \in Keys \ {k} : delivered'[c] = delivered[c] /\ (c \in doubtful' <=> c \in doubtful)
    BY <1>1, <1>7 DEF Arrives, ArrivesInDoubt
  <2>2. IF k \in doubtful' THEN delivered'[k] = 2 ELSE delivered'[k] = 1
    BY <1>1, <1>3, <1>4, <1>7 DEF Arrives, ArrivesInDoubt, Again, DeliveredOnce
  <2>3. ClaimHeld'
    BY <1>1, <1>5, <1>6, <1>7, <2>1 DEF ClaimHeld
  <2>4. DeliveredOnce'
    BY <1>1, <1>4, <1>7, <2>1, <2>2 DEF DeliveredOnce
  <2> QED
    BY <1>1, <1>5, <2>3, <2>4 DEF OneHolder
<1>8. CASE claims' = claims \ {k} /\ UNCHANGED <<delivered, doubtful>>
  <2>1. ClaimHeld'
    BY <1>1, <1>5, <1>8 DEF ClaimHeld
  <2>2. DeliveredOnce'
    BY <1>1, <1>4, <1>8 DEF DeliveredOnce
  <2> QED
    BY <1>1, <1>5, <2>1, <2>2 DEF OneHolder
<1> QED
  BY <1>7, <1>8 DEF k

-----------------------------------------------------------------------------
(* The same for the whole invariant, and the ways an action moves a job    *)

(* A quiet step that neither gives feedback nor moves the clock.           *)
LEMMA QuietInv ==
    ASSUME IInv, NEW j \in Jobs, NEW b \in Job, JobOK(b), job' = [job EXCEPT ![j] = b],
           Holds(b) => Holds(job[j]) /\ b.key = job[j].key,
           claims \subseteq claims', claims' \subseteq Keys, UNCHANGED <<delivered, doubtful>>,
           now' = now, lost' = lost, feedback' = feedback, risk' \in [state : State, evidence : Signatures]
    PROVE  IInv'
<1>1. job' \in [Jobs -> Job] /\ JobsOK'
  BY JobTypes
<1>2. ClaimHeld' /\ OneHolder' /\ DeliveredOnce'
  BY QuietStep
<1>3. TypeOK'
  BY <1>1 DEF IInv, TypeOK
<1> QED
  BY <1>1, <1>2, <1>3 DEF IInv

(* Claiming a message.                                                     *)
LEMMA ClaimInv ==
    ASSUME IInv, NEW j \in Jobs, NEW k \in Keys, k \notin claims, k.to # System,
           NEW todo \in SUBSET Owners, Claim(j, k, todo),
           job[j].kind \in {"due", "immediate", "group"},
           UNCHANGED <<delivered, doubtful>>, now' = now, lost' = lost, feedback' = feedback, risk' = risk
    PROVE  IInv'
<1> DEFINE b == [job[j] EXCEPT !.pc = "await", !.key = k, !.todo = todo]
<1>1. TypeOK /\ job[j] \in Job /\ JobOK(job[j])
  BY DEF IInv, TypeOK, JobsOK
<1>2. b \in Job /\ JobOK(b) /\ b.key = k
  BY <1>1 DEF Job, JobOK, Pc
<1>3. job' = [job EXCEPT ![j] = b] /\ claims' = claims \cup {k}
  BY <1>1 DEF Claim, TypeOK
<1> HIDE DEF b
<1>4. job' \in [Jobs -> Job] /\ JobsOK'
  BY <1>2, <1>3, JobTypes
<1>5. ClaimHeld' /\ OneHolder' /\ DeliveredOnce'
  BY <1>2, <1>3, ClaimStep
<1>6. TypeOK'
  BY <1>1, <1>3, <1>4 DEF TypeOK
<1> QED
  BY <1>4, <1>5, <1>6 DEF IInv

(* The end of what a holder does with its claim.                           *)
LEMMA LastInv ==
    ASSUME IInv, NEW j \in Jobs, Holds(job[j]), NEW b \in Job, ~Holds(b), JobOK(b),
           job' = [job EXCEPT ![j] = b],
           \/ claims' = claims /\ (Arrives(job[j].key) \/ ArrivesInDoubt(job[j].key))
           \/ claims' = claims \ {job[j].key} /\ UNCHANGED <<delivered, doubtful>>,
           now' = now, lost' = lost, feedback' = feedback, risk' = risk
    PROVE  IInv'
<1>1. job' \in [Jobs -> Job] /\ JobsOK'
  BY JobTypes
<1>2. ClaimHeld' /\ OneHolder' /\ DeliveredOnce'
  BY LastStep
<1>3. claims' \subseteq Keys /\ delivered' \in [Keys -> 0..2] /\ doubtful' \subseteq Keys
  <2>1. claims \subseteq Keys /\ delivered \in [Keys -> 0..2] /\ doubtful \subseteq Keys /\ job[j].key \in Keys
    BY DEF IInv, TypeOK, Job
  <2>2. claims' \subseteq Keys
    BY <2>1
  <2>3. \A n \in 0..2 : Again(n) \in 0..2
    BY DEF Again
  <2> QED
    BY <2>1, <2>2, <2>3 DEF Arrives, ArrivesInDoubt
<1>4. TypeOK'
  BY <1>1, <1>3 DEF IInv, TypeOK
<1> QED
  BY <1>1, <1>2, <1>4 DEF IInv

Moved(b, pc) == [b EXCEPT !.pc = pc]

LEMMA GotoMoves ==
    ASSUME IInv, NEW j \in Jobs, NEW pc \in Pc, Goto(j, pc)
    PROVE  /\ job' = [job EXCEPT ![j] = Moved(job[j], pc)]
           /\ Moved(job[j], pc) \in Job
           /\ Moved(job[j], pc).pc = pc
           /\ Moved(job[j], pc).kind = job[j].kind
           /\ Moved(job[j], pc).of = job[j].of
           /\ Moved(job[j], pc).key = job[j].key
<1>1. job \in [Jobs -> Job] /\ job[j] \in Job
  BY DEF IInv, TypeOK
<1> QED
  BY <1>1 DEF Goto, Moved, Job

(* What the actions know of the job they move.                             *)
LEMMA JobAtHand ==
    ASSUME IInv, NEW j \in Jobs
    PROVE  /\ job[j] \in Job
           /\ JobOK(job[j])
           /\ risk \in [state : State, evidence : Signatures]
           /\ claims \subseteq Keys
BY DEF IInv, TypeOK, JobsOK

(* End and Start, when nothing is claimed.                                 *)
LEMMA EndInv ==
    ASSUME IInv, NEW j \in Jobs, End(j), claims' = claims, UNCHANGED <<delivered, doubtful>>,
           now' = now, lost' = lost, feedback' = feedback, risk' \in [state : State, evidence : Signatures]
    PROVE  IInv'
BY JobAtHand, NoJobIsJob, QuietInv DEF End

LEMMA StartInv ==
    ASSUME IInv, NEW j \in Jobs, NEW kind \in {"feedback", "immediate", "group", "due"},
           NEW of \in Signatures \cup 0..MaxFeedback, NEW pc \in {"apply", "queued", "reopen", "next"},
           Start(j, kind, of, pc), JobOK(Started(kind, of, pc)),
           claims \subseteq claims', claims' \subseteq Keys, UNCHANGED <<delivered, doubtful>>,
           now' = now, lost' = lost, feedback' = feedback, risk' \in [state : State, evidence : Signatures]
    PROVE  IInv'
<1>1. Started(kind, of, pc) \in Job /\ Started(kind, of, pc).pc = pc
  BY StartedIsJob DEF Pc
<1>2. ~Holds(Started(kind, of, pc))
  BY <1>1 DEF Holds, Holding
<1>3. job' = [job EXCEPT ![j] = Started(kind, of, pc)]
  BY DEF Start, Started
<1> QED
  BY <1>1, <1>2, <1>3, QuietInv

-----------------------------------------------------------------------------
(* The actions                                                             *)

LEMMA TargetIsState ==
    ASSUME NEW action
    PROVE  TargetState(action) \in State
BY DEF TargetState, State

LEMMA Initially == Init => IInv
<1> SUFFICES ASSUME Init PROVE IInv
  OBVIOUS
<1>1. \A j \in Jobs : job[j] = NoJob
  BY DEF Init
<1>2. JobsOK /\ ClaimHeld /\ OneHolder
  BY <1>1, NoJobIsJob DEF JobsOK, ClaimHeld, OneHolder
<1>3. DeliveredOnce
  BY DEF Init, DeliveredOnce
<1>4. TypeOK
  <2>1. job \in [Jobs -> Job]
    BY NoJobIsJob DEF Init
  <2>2. risk \in [state : State, evidence : Signatures]
    BY RiskAssumption DEF Init, State
  <2>3. now \in 0..MaxTime /\ Len(feedback) <= MaxFeedback /\ claims \subseteq Keys
    BY RiskAssumption DEF Init
  <2>4. feedback \in Seq([action : Action, until : 1..(MaxTime + SnoozeTime)])
    BY DEF Init
  <2>5. delivered \in [Keys -> 0..2] /\ doubtful \subseteq Keys /\ lost \subseteq Keys
    BY DEF Init
  <2> QED
    BY <2>1, <2>2, <2>3, <2>4, <2>5 DEF TypeOK
<1> QED
  BY <1>2, <1>3, <1>4 DEF IInv

(* A step that leaves jobs and messages alone: the scans and the clock.    *)
LEMMA NoJobMoves ==
    ASSUME IInv, UNCHANGED <<feedback, claims, delivered, doubtful, lost, job>>,
           now' \in 0..MaxTime, risk' \in [state : State, evidence : Signatures]
    PROVE  IInv'
<1>1. TypeOK'
  BY DEF IInv, TypeOK
<1>2. JobsOK' /\ ClaimHeld' /\ OneHolder' /\ DeliveredOnce'
  BY DEF IInv, JobsOK, ClaimHeld, OneHolder, DeliveredOnce
<1> QED
  BY <1>1, <1>2 DEF IInv

LEMMA ScanKeeps ==
    ASSUME IInv, \/ ScanMisses
                 \/ \E sig \in Signatures : ScanFinds(sig)
    PROVE  IInv'
<1>1. now \in 0..MaxTime /\ risk \in [state : State, evidence : Signatures]
  BY DEF IInv, TypeOK
<1>2. CASE ScanMisses
  <2>1. risk' \in [state : State, evidence : Signatures]
    BY <1>1, <1>2 DEF ScanMisses, State
  <2> QED
    BY <1>1, <1>2, <2>1, NoJobMoves DEF ScanMisses
<1>3. ASSUME NEW sig \in Signatures, ScanFinds(sig)
      PROVE  IInv'
  <2>1. ScannedState(risk.state) \in State
    BY <1>1 DEF ScannedState, State
  <2>2. risk' \in [state : State, evidence : Signatures]
    BY <1>3, <2>1 DEF ScanFinds
  <2> QED
    BY <1>1, <1>3, <2>2, NoJobMoves DEF ScanFinds
<1> QED
  BY <1>2, <1>3

LEMMA TickKeeps == ASSUME IInv, Tick PROVE IInv'
<1>1. now' \in 0..MaxTime /\ risk' \in [state : State, evidence : Signatures]
  BY RiskAssumption DEF Tick, IInv, TypeOK
<1> QED
  BY <1>1, NoJobMoves DEF Tick

LEMMA SubmitKeeps ==
    ASSUME IInv, NEW j \in Jobs, NEW action \in Action, Submit(j, action)
    PROVE  IInv'
<1> DEFINE row == [action |-> action, until |-> now + SnoozeTime]
           of == Len(feedback) + 1
           b == Started("feedback", of, "apply")
<1>1. TypeOK /\ feedback' = Append(feedback, row) /\ UNCHANGED <<now, risk, claims, delivered, doubtful, lost>>
  BY DEF IInv, Submit
<1>2. row \in [action : Action, until : 1..(MaxTime + SnoozeTime)]
  BY <1>1, RiskAssumption DEF TypeOK
<1>3. of \in 0..MaxFeedback
  BY <1>1, RiskAssumption DEF TypeOK, Submit
<1>4. b \in Job /\ b.pc = "apply" /\ b.kind = "feedback"
  BY <1>3, StartedIsJob DEF Pc
<1>5. job' = [job EXCEPT ![j] = b]
  BY DEF Submit, Start, Started
<1>6. JobOK(b) /\ ~Holds(b)
  BY <1>4 DEF JobOK, Holds, Holding
<1> HIDE DEF b, row
<1>7. job' \in [Jobs -> Job] /\ JobsOK'
  BY <1>4, <1>5, <1>6, JobTypes
<1>8. ClaimHeld' /\ OneHolder' /\ DeliveredOnce'
  BY <1>1, <1>4, <1>5, <1>6, QuietStep
<1>9. /\ feedback' \in Seq([action : Action, until : 1..(MaxTime + SnoozeTime)])
      /\ Len(feedback') <= MaxFeedback
  BY <1>1, <1>2, <1>3, RiskAssumption DEF TypeOK
<1>10. TypeOK'
  BY <1>1, <1>7, <1>9 DEF TypeOK
<1> QED
  BY <1>7, <1>8, <1>10 DEF IInv

LEMMA ApplyKeeps ==
    ASSUME IInv, NEW j \in Jobs, Apply(j)
    PROVE  IInv'
<1> DEFINE action == feedback[job[j].of].action
<1>1. risk \in [state : State, evidence : Signatures]
  BY JobAtHand
<1>2. risk' = [risk EXCEPT !.state = TargetState(action)]
  BY DEF Apply
<1>3. risk' \in [state : State, evidence : Signatures]
  BY <1>1, <1>2, TargetIsState
<1>4. UNCHANGED <<now, feedback, claims, delivered, doubtful, lost>>
  BY DEF Apply
<1>5. CASE action = "request_help"
  <2>1. Start(j, "group", risk.evidence, "queued")
    BY <1>5 DEF Apply
  <2>2. risk.evidence \in Signatures
    BY <1>1
  <2>3. JobOK(Started("group", risk.evidence, "queued"))
    BY <2>2, StartedIsJob DEF JobOK, Pc
  <2>4. claims \subseteq claims' /\ claims' \subseteq Keys
    BY <1>4, JobAtHand
  <2> QED
    BY <1>3, <1>4, <2>1, <2>2, <2>3, <2>4, StartInv
<1>6. CASE action # "request_help"
  <2>1. End(j)
    BY <1>6 DEF Apply
  <2> QED
    BY <1>3, <1>4, <2>1, EndInv
<1> QED
  BY <1>5, <1>6

LEMMA RequestHelpKeeps ==
    ASSUME IInv, NEW j \in Jobs, RequestHelp(j)
    PROVE  IInv'
<1> DEFINE k == Escalation(job[j].of)
<1>1. JobOK(job[j]) /\ job[j].kind = "group" /\ job[j].of \in Signatures
  BY JobAtHand DEF RequestHelp, JobOK
<1>2. k \in Keys /\ k.to # System
  BY <1>1, EscalationIsMessage
<1>3. UNCHANGED <<now, risk, feedback, delivered, doubtful, lost>>
  BY DEF RequestHelp
<1>4. CASE End(j) /\ UNCHANGED claims
  BY <1>3, <1>4, JobAtHand, EndInv
<1>5. CASE k \notin claims /\ Claim(j, k, {})
  <2> HIDE DEF k
  <2> QED
    BY <1>1, <1>2, <1>3, <1>5, ClaimInv
<1> QED
  BY <1>4, <1>5 DEF RequestHelp

LEMMA DispatchImmediateKeeps ==
    ASSUME IInv, NEW j \in Jobs, DispatchImmediate(j)
    PROVE  IInv'
<1>1. risk.evidence \in Signatures
  BY JobAtHand
<1>2. JobOK(Started("immediate", risk.evidence, "next"))
  BY <1>1, StartedIsJob DEF JobOK, Pc
<1>3. claims \subseteq claims' /\ claims' \subseteq Keys
  BY JobAtHand DEF DispatchImmediate
<1> QED
  BY <1>1, <1>2, <1>3, JobAtHand, StartInv DEF DispatchImmediate

LEMMA DispatchDueKeeps ==
    ASSUME IInv, NEW j \in Jobs, DispatchDue(j)
    PROVE  IInv'
<1>1. Len(feedback) \in 0..MaxFeedback
  BY RiskAssumption DEF IInv, TypeOK
<1>2. JobOK(Started("due", Len(feedback), "reopen"))
  BY <1>1, StartedIsJob DEF JobOK, Pc
<1>3. claims \subseteq claims' /\ claims' \subseteq Keys
  BY <1>1, JobAtHand, MarkerIsNoMessage DEF DispatchDue
<1> QED
  BY <1>1, <1>2, <1>3, JobAtHand, StartInv DEF DispatchDue

LEMMA ReopenKeeps ==
    ASSUME IInv, NEW j \in Jobs, Reopen(j)
    PROVE  IInv'
<1>1. risk' \in [state : State, evidence : Signatures]
  BY JobAtHand DEF Reopen, State
<1>2. Goto(j, "next") /\ job[j].kind = "due" /\ UNCHANGED <<now, feedback, claims, delivered, doubtful, lost>>
  BY JobAtHand DEF Reopen, JobOK
<1> DEFINE b == Moved(job[j], "next")
<1>3. b \in Job /\ b.pc = "next" /\ b.kind = "due" /\ b.of = job[j].of /\ job' = [job EXCEPT ![j] = b]
  BY <1>2, GotoMoves DEF Pc
<1> HIDE DEF b
<1>4. JobOK(b) /\ ~Holds(b)
  BY <1>2, <1>3, JobAtHand DEF JobOK, Holds, Holding
<1> QED
  BY <1>1, <1>2, <1>3, <1>4, JobAtHand, QuietInv

LEMMA NextRecipientKeeps ==
    ASSUME IInv, NEW j \in Jobs, NextRecipient(j)
    PROVE  IInv'
<1>1. UNCHANGED <<now, risk, feedback, delivered, doubtful, lost>>
  BY DEF NextRecipient
<1>2. /\ job[j] \in Job /\ JobOK(job[j]) /\ job[j].pc = "next"
      /\ job[j].kind \in {"due", "immediate"}
  BY JobAtHand DEF NextRecipient, JobOK
<1>3. CASE End(j) /\ UNCHANGED claims
  BY <1>1, <1>3, JobAtHand, EndInv
<1>4. ASSUME NEW o \in job[j].todo, KeyFor(j, o) \in claims,
             job' = [job EXCEPT ![j].todo = job[j].todo \ {o}], UNCHANGED claims
      PROVE  IInv'
  <2> DEFINE b == [job[j] EXCEPT !.todo = job[j].todo \ {o}]
  <2>1. b \in Job /\ JobOK(b) /\ b.pc = "next"
    BY <1>2 DEF Job, JobOK
  <2>2. ~Holds(b)
    BY <2>1 DEF Holds, Holding
  <2>3. job' = [job EXCEPT ![j] = b]
    BY <1>4
  <2> HIDE DEF b
  <2> QED
    BY <1>1, <1>4, <2>1, <2>2, <2>3, JobAtHand, QuietInv
<1>5. ASSUME NEW o \in job[j].todo, KeyFor(j, o) \notin claims,
             Claim(j, KeyFor(j, o), job[j].todo \ {o})
      PROVE  IInv'
  <2> DEFINE k == KeyFor(j, o)
             rest == job[j].todo \ {o}
  <2>1. o \in Owners /\ rest \in SUBSET Owners
    BY <1>2 DEF Job
  <2>2. k \in Keys /\ k.to # System
    BY <1>2, <2>1, KeyForIsMessage
  <2> HIDE DEF k, rest
  <2>3. k \notin claims /\ Claim(j, k, rest)
    BY <1>5 DEF k, rest
  <2> QED
    BY <1>1, <1>2, <2>1, <2>2, <2>3, ClaimInv
<1> QED
  BY <1>3, <1>4, <1>5 DEF NextRecipient

LEMMA SendSucceedsKeeps ==
    ASSUME IInv, NEW j \in Jobs, SendSucceeds(j)
    PROVE  IInv'
<1>1. /\ Holds(job[j]) /\ job[j].kind \in {"due", "immediate", "group"}
      /\ UNCHANGED <<now, risk, feedback, claims, lost>>
      /\ Arrives(job[j].key) \/ ArrivesInDoubt(job[j].key)
  BY JobAtHand DEF SendSucceeds, Holds, Holding, JobOK
<1>2. CASE End(j)
  BY <1>1, <1>2, NoJobIsJob, LastInv DEF End
<1>3. CASE job[j].kind # "group" /\ Goto(j, "next")
  <2> DEFINE b == Moved(job[j], "next")
  <2>1. /\ b \in Job /\ b.pc = "next" /\ b.kind = job[j].kind /\ b.of = job[j].of
        /\ job' = [job EXCEPT ![j] = b]
    BY <1>3, GotoMoves DEF Pc
  <2> HIDE DEF b
  <2>2. JobOK(b) /\ ~Holds(b)
    BY <1>1, <1>3, <2>1, JobAtHand DEF JobOK, Holds, Holding
  <2> QED
    BY <1>1, <2>1, <2>2, LastInv
<1> QED
  BY <1>2, <1>3 DEF SendSucceeds

(* A failed send: the job keeps its claim while it cleans up, and when the *)
(* message arrived all the same it is in doubt.                            *)
LEMMA SendFailsKeeps ==
    ASSUME IInv, NEW j \in Jobs, SendFails(j)
    PROVE  IInv'
<1> DEFINE pc == IF job[j].kind = "due" THEN "restore" ELSE "release"
           b == Moved(job[j], pc)
           k == job[j].key
<1>1. /\ job[j].pc = "await" /\ job[j].kind \in {"due", "immediate", "group"}
      /\ Holds(job[j]) /\ Goto(j, pc) /\ UNCHANGED <<now, risk, feedback, claims, lost>>
      /\ UNCHANGED <<delivered, doubtful>> \/ ArrivesInDoubt(k)
  BY JobAtHand DEF SendFails, Holds, Holding, JobOK
<1>2. /\ b \in Job /\ b.pc = pc /\ b.kind = job[j].kind /\ b.of = job[j].of
      /\ b.key = k /\ job' = [job EXCEPT ![j] = b]
  BY <1>1, GotoMoves DEF Pc
<1> HIDE DEF b
<1>3. JobOK(b)
  BY <1>1, <1>2, JobAtHand DEF JobOK
<1>4. CASE UNCHANGED <<delivered, doubtful>>
  BY <1>1, <1>2, <1>3, <1>4, JobAtHand, QuietInv
<1>5. CASE ArrivesInDoubt(k)
  <2>1. TypeOK /\ ClaimHeld /\ OneHolder /\ DeliveredOnce /\ k \in Keys
    BY JobAtHand DEF IInv, Job
  <2>2. job' \in [Jobs -> Job] /\ JobsOK'
    BY <1>2, <1>3, JobTypes
  <2>3. \A i \in Jobs : Holds(job'[i]) => Holds(job[i]) /\ job'[i].key = job[i].key
    BY <1>1, <1>2, <2>1 DEF TypeOK
  <2>4. /\ delivered' = [delivered EXCEPT ![k] = 2] /\ doubtful' = doubtful \cup {k}
        /\ delivered \in [Keys -> 0..2] /\ delivered' \in [Keys -> 0..2]
        /\ doubtful' \subseteq Keys
    BY <1>5, <2>1 DEF ArrivesInDoubt, TypeOK
  <2>5. TypeOK'
    BY <1>1, <2>1, <2>2, <2>4 DEF TypeOK
  <2>6. \A i \in Jobs : job[i].key \in Keys
    BY <2>1 DEF TypeOK, Job
  <2> HIDE DEF k
  <2>7. ClaimHeld'
    BY <1>1, <2>1, <2>3, <2>4, <2>6 DEF ClaimHeld
  <2>8. OneHolder'
    BY <2>1, <2>3 DEF OneHolder
  <2>9. DeliveredOnce'
    BY <1>1, <2>1, <2>4 DEF DeliveredOnce
  <2> QED
    BY <2>2, <2>5, <2>7, <2>8, <2>9 DEF IInv
<1> QED
  BY <1>1, <1>4, <1>5

LEMMA RestoreKeeps ==
    ASSUME IInv, NEW j \in Jobs, Restore(j)
    PROVE  IInv'
<1> DEFINE b == Moved(job[j], "unmark")
<1>1. risk' \in [state : State, evidence : Signatures]
  BY JobAtHand DEF Restore, State
<1>2. /\ job[j].kind = "due" /\ Holds(job[j]) /\ Goto(j, "unmark")
      /\ UNCHANGED <<now, feedback, claims, delivered, doubtful, lost>>
  BY JobAtHand DEF Restore, Holds, Holding, JobOK
<1>3. /\ b \in Job /\ b.pc = "unmark" /\ b.kind = "due" /\ b.of = job[j].of
      /\ b.key = job[j].key /\ job' = [job EXCEPT ![j] = b]
  BY <1>2, GotoMoves DEF Pc
<1> HIDE DEF b
<1>4. JobOK(b)
  BY <1>2, <1>3, JobAtHand DEF JobOK
<1> QED
  BY <1>1, <1>2, <1>3, <1>4, JobAtHand, QuietInv

(* The marker that is taken back is no message, so no holder loses its own *)
(* claim.                                                                  *)
LEMMA UnmarkKeeps ==
    ASSUME IInv, NEW j \in Jobs, Unmark(j)
    PROVE  IInv'
<1> DEFINE b == Moved(job[j], "release")
           m == Marker(job[j].of)
<1>1. /\ job[j].kind = "due" /\ job[j].of \in 0..MaxFeedback /\ Holds(job[j])
      /\ Goto(j, "release") /\ claims' = claims \ {m}
      /\ UNCHANGED <<now, risk, feedback, delivered, doubtful, lost>>
  BY JobAtHand DEF Unmark, Holds, Holding, JobOK
<1>2. /\ b \in Job /\ b.pc = "release" /\ b.kind = "due" /\ b.of = job[j].of
      /\ b.key = job[j].key /\ job' = [job EXCEPT ![j] = b]
  BY <1>1, GotoMoves DEF Pc
<1>3. m.to = System
  BY <1>1, MarkerIsNoMessage
<1> HIDE DEF b, m
<1>4. JobOK(b)
  BY <1>1, <1>2, JobAtHand DEF JobOK
<1>5. job' \in [Jobs -> Job] /\ JobsOK'
  BY <1>2, <1>4, JobTypes
<1>6. TypeOK /\ ClaimHeld /\ OneHolder /\ DeliveredOnce
  BY DEF IInv
<1>7. TypeOK'
  BY <1>1, <1>5, <1>6 DEF TypeOK
<1>8. \A i \in Jobs : Holds(job'[i]) => Holds(job[i]) /\ job'[i].key = job[i].key
  BY <1>1, <1>2, <1>6 DEF TypeOK
<1>9. ClaimHeld'
  BY <1>1, <1>3, <1>6, <1>8 DEF ClaimHeld
<1>10. OneHolder'
  BY <1>6, <1>8 DEF OneHolder
<1>11. DeliveredOnce'
  BY <1>1, <1>3, <1>6 DEF DeliveredOnce
<1> QED
  BY <1>5, <1>7, <1>9, <1>10, <1>11 DEF IInv

LEMMA ReleaseKeeps ==
    ASSUME IInv, NEW j \in Jobs, Release(j)
    PROVE  IInv'
<1>1. Holds(job[j]) /\ End(j) /\ claims' = claims \ {job[j].key}
      /\ UNCHANGED <<now, risk, feedback, delivered, doubtful, lost>>
  BY DEF Release, Released, Holds, Holding
<1> QED
  BY <1>1, NoJobIsJob, LastInv DEF End

LEMMA CrashKeeps == ASSUME IInv, Crash PROVE IInv'
<1>1. UNCHANGED <<now, risk, feedback, claims, delivered, doubtful>> /\ job' = [j \in Jobs |-> NoJob]
      /\ lost' \subseteq lost \cup claims
  BY DEF Crash
<1>2. job' \in [Jobs -> Job] /\ \A j \in Jobs : job'[j] = NoJob
  BY <1>1, NoJobIsJob
<1>3. JobsOK' /\ ClaimHeld' /\ OneHolder'
  BY <1>2, NoJobIsJob DEF JobsOK, ClaimHeld, OneHolder
<1>4. TypeOK' /\ DeliveredOnce'
  BY <1>1, <1>2 DEF IInv, TypeOK, DeliveredOnce
<1> QED
  BY <1>3, <1>4 DEF IInv

-----------------------------------------------------------------------------
(* The theorems                                                            *)

LEMMA StepKeeps == IInv /\ [Next]_vars => IInv'
<1> SUFFICES ASSUME IInv, [Next]_vars PROVE IInv'
  OBVIOUS
<1>1. CASE UNCHANGED vars
  BY <1>1 DEF vars, IInv, TypeOK, JobsOK, ClaimHeld, OneHolder, DeliveredOnce
<1>2. CASE ScanMisses \/ \E sig \in Signatures : ScanFinds(sig)
  BY <1>2, ScanKeeps
<1>3. ASSUME NEW j \in Jobs, \E action \in Action : Submit(j, action)
      PROVE  IInv'
  BY <1>3, SubmitKeeps
<1>4. ASSUME NEW j \in Jobs, Apply(j) \/ RequestHelp(j)
      PROVE  IInv'
  BY <1>4, ApplyKeeps, RequestHelpKeeps
<1>5. ASSUME NEW j \in Jobs, DispatchImmediate(j) \/ DispatchDue(j) \/ Reopen(j)
      PROVE  IInv'
  BY <1>5, DispatchImmediateKeeps, DispatchDueKeeps, ReopenKeeps
<1>6. ASSUME NEW j \in Jobs, NextRecipient(j) \/ SendSucceeds(j) \/ SendFails(j)
      PROVE  IInv'
  BY <1>6, NextRecipientKeeps, SendSucceedsKeeps, SendFailsKeeps
<1>7. ASSUME NEW j \in Jobs, Restore(j) \/ Unmark(j) \/ Release(j)
      PROVE  IInv'
  BY <1>7, RestoreKeeps, UnmarkKeeps, ReleaseKeeps
<1>8. CASE Crash \/ Tick
  BY <1>8, CrashKeeps, TickKeeps
<1> QED
  BY <1>1, <1>2, <1>3, <1>4, <1>5, <1>6, <1>7, <1>8 DEF Next

(* The invariant holds throughout, and with it every variable has its type.*)
THEOREM Invariant == Spec => []IInv
BY Initially, StepKeeps, PTL DEF Spec

(* Every variable keeps its type: a job works on a feedback row or a       *)
(* signature that exists, towards recipients that exist.                   *)
THEOREM Types == Spec => []TypeOK
<1>1. IInv => TypeOK
  BY DEF IInv
<1> QED
  BY <1>1, Invariant, PTL

(* However many dispatches and callbacks of RiskNotificationService        *)
(* overlap at its awaits, whatever fails to be sent or only seems to, and  *)
(* wherever the process dies: a message arrives twice only when a request  *)
(* that carried it had arrived and looked failed to HttpFeishuMessenger.   *)
THEOREM NoMessageTwice == Spec => []RemindedOnce
<1>1. IInv => RemindedOnce
  BY DEF IInv, DeliveredOnce, RemindedOnce
<1> QED
  BY <1>1, Invariant, PTL
=============================================================================
