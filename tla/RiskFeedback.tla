---------------------------- MODULE RiskFeedback ----------------------------
(***************************************************************************)
(* One risk of ProjectLens: the scan that finds it (RiskEngine), the       *)
(* owners' feedback (RiskFeedbackService) and the messages about it        *)
(* (RiskNotificationService).                                              *)
(*                                                                         *)
(* Everything runs on one event loop, as jobs.  A job gives up the loop    *)
(* only where it awaits the messenger (pc "await") or waits to be run in   *)
(* the background ("queued"); in every other pc it holds the loop and goes *)
(* on to its next store statement.  Statements commit one by one, so a     *)
(* crash may cut a job between any two.  Claims are the rows of            *)
(* risk_notifications, inserted before the message they stand for.         *)
(*                                                                         *)
(* Severity is left out: the risk is HIGH, the one that is sent at once.   *)
(***************************************************************************)
EXTENDS Naturals, Sequences, FiniteSets

CONSTANTS Jobs,         \* concurrent callbacks and dispatches
          Owners,       \* recipients of private cards
          Group,        \* the project's bound group chat
          System,       \* recipient_id of the marker of a due snooze
          Signatures,   \* evidence signatures of the finding
          SnoozeTime,   \* default snooze, in ticks
          MaxFeedback,  \* bound: feedback rows
          MaxTime,      \* bound of the clock
          Faults        \* which of "send" and "crash" happen

ASSUME RiskAssumption ==
    /\ Signatures # {}
    /\ SnoozeTime \in Nat \ {0}
    /\ MaxFeedback \in Nat
    /\ MaxTime \in Nat
    /\ Group \notin Owners /\ System \notin Owners /\ Group # System
    /\ Faults \subseteq {"send", "crash"}

VARIABLES now,        \* the clock
          risk,       \* row of risk_findings: state and evidence signature
          feedback,   \* rows of risk_feedback, in insertion order
          claims,     \* rows of risk_notifications
          delivered,  \* how often each message arrived: never, once, 2 for more (history)
          doubtful,   \* messages that arrived though a request seemed to fail (history)
          lost,       \* claims of jobs that died with the process (history)
          job         \* what each job is doing

vars == <<now, risk, feedback, claims, delivered, doubtful, lost, job>>

State == {"none", "open", "acknowledged", "snoozed", "dismissed", "resolved"}
Action == {"acknowledge", "dismiss", "snooze", "update_progress", "request_help"}

(* The idempotency key of a message: what it is about (`of' is a signature *)
(* or, for a due snooze, the feedback it belongs to) and for whom.         *)
Immediate(sig, o) == [kind |-> "immediate", of |-> sig, to |-> o]
Escalation(sig) == [kind |-> "group", of |-> sig, to |-> Group]
DueFor(i, o) == [kind |-> "due", of |-> i, to |-> o]
OneMarkerForAll(i) == DueFor(0, System)
Marker(i) == DueFor(i, System)

Keys == {Immediate(sig, o) : sig \in Signatures, o \in Owners}
        \cup {Escalation(sig) : sig \in Signatures}
        \cup {DueFor(i, o) : i \in 0..MaxFeedback, o \in Owners \cup {System}}

Pc == {"idle", "apply", "queued", "reopen", "next", "await", "restore", "unmark", "release"}

Job == [pc : Pc, kind : {"none", "feedback", "immediate", "group", "due"},
        of : Signatures \cup 0..MaxFeedback, todo : SUBSET Owners, key : Keys]

AnyKey == Marker(0)
NoJob == [pc |-> "idle", kind |-> "none", of |-> 0, todo |-> {}, key |-> AnyKey]

Init ==
    /\ now = 0
    /\ risk = [state |-> "none", evidence |-> CHOOSE sig \in Signatures : TRUE]
    /\ feedback = <<>>
    /\ claims = {}
    /\ delivered = [k \in Keys |-> 0]
    /\ doubtful = {}
    /\ lost = {}
    /\ job = [j \in Jobs |-> NoJob]

-----------------------------------------------------------------------------

(* The event loop is free for the next callback.                           *)
LoopIsFree == \A j \in Jobs : job[j].pc \in {"idle", "queued", "await"}

Goto(j, pc) == job' = [job EXCEPT ![j].pc = pc]
End(j) == job' = [job EXCEPT ![j] = NoJob]
Start(j, kind, of, pc) ==
    job' = [job EXCEPT ![j] = [NoJob EXCEPT !.kind = kind, !.of = of, !.pc = pc,
                                            !.todo = Owners]]

LastFeedback == feedback[Len(feedback)]

-----------------------------------------------------------------------------
(* RiskEngine.scan                                                         *)

(* A finding that exists keeps its state, unless it was resolved.          *)
ReopenedByScan(state) == "open"
ScannedState(state) == IF state \in {"none", "resolved"} THEN "open" ELSE state

ScanFinds(sig) ==
    /\ LoopIsFree
    /\ risk' = [state |-> ScannedState(risk.state), evidence |-> sig]
    /\ UNCHANGED <<now, feedback, claims, delivered, doubtful, lost, job>>

ScanMisses ==
    /\ LoopIsFree
    /\ risk.state \notin {"none", "resolved"}
    /\ risk' = [risk EXCEPT !.state = "resolved"]
    /\ UNCHANGED <<now, feedback, claims, delivered, doubtful, lost, job>>

-----------------------------------------------------------------------------
(* RiskFeedbackService.submit, from a card or a chat message               *)

StateNamedAsAction(action) == IF action = "dismiss" THEN "dismiss" ELSE "acknowledged"
TargetState(action) == CASE action = "dismiss" -> "dismissed"
                         [] action = "snooze" -> "snoozed"
                         [] OTHER -> "acknowledged"

(* create_feedback.  A repeated idempotency key changes nothing.           *)
Submit(j, action) ==
    /\ LoopIsFree
    /\ job[j].pc = "idle"
    /\ risk.state # "none"
    /\ Len(feedback) < MaxFeedback
    /\ feedback' = Append(feedback, [action |-> action, until |-> now + SnoozeTime])
    /\ Start(j, "feedback", Len(feedback) + 1, "apply")
    /\ UNCHANGED <<now, risk, claims, delivered, doubtful, lost>>

(* The transition.  A request for help goes on in the background, about    *)
(* the finding as it is now.                                               *)
Apply(j) ==
    LET action == feedback[job[j].of].action IN
    /\ job[j].pc = "apply"
    /\ risk' = [risk EXCEPT !.state = TargetState(action)]
    /\ IF action = "request_help" THEN Start(j, "group", risk.evidence, "queued") ELSE End(j)
    /\ UNCHANGED <<now, feedback, claims, delivered, doubtful, lost>>

-----------------------------------------------------------------------------
(* RiskNotificationService: claim, send, release the claim when it failed  *)

(* mark_notification, and await the messenger.                             *)
Claim(j, k, todo) ==
    /\ claims' = claims \cup {k}
    /\ job' = [job EXCEPT ![j].pc = "await", ![j].key = k, ![j].todo = todo]

(* request_help -> escalate_to_group.  It ends when the claim is taken, or *)
(* when the project has no group or the group may not see the sources.     *)
RequestHelp(j) ==
    LET k == Escalation(job[j].of) IN
    /\ LoopIsFree
    /\ job[j].pc = "queued"
    /\ \/ End(j) /\ UNCHANGED claims
       \/ k \notin claims /\ Claim(j, k, {})
    /\ UNCHANGED <<now, risk, feedback, delivered, doubtful, lost>>

(* dispatch_immediate                                                      *)
DispatchImmediate(j) ==
    /\ LoopIsFree
    /\ job[j].pc = "idle"
    /\ risk.state = "open"
    /\ Start(j, "immediate", risk.evidence, "next")
    /\ UNCHANGED <<now, risk, feedback, claims, delivered, doubtful, lost>>

(* dispatch_due_snoozes: the latest feedback is a snooze that is over and  *)
(* the risk still sleeps; the marker is claimed.                           *)
DispatchDue(j) ==
    LET i == Len(feedback) IN
    /\ LoopIsFree
    /\ job[j].pc = "idle"
    /\ i > 0
    /\ LastFeedback.action = "snooze" /\ LastFeedback.until <= now
    /\ risk.state = "snoozed"
    /\ Marker(i) \notin claims
    /\ claims' = claims \cup {Marker(i)}
    /\ Start(j, "due", i, "reopen")
    /\ UNCHANGED <<now, risk, feedback, delivered, doubtful, lost>>

Reopen(j) ==
    /\ job[j].pc = "reopen"
    /\ risk' = [risk EXCEPT !.state = "open"]
    /\ Goto(j, "next")
    /\ UNCHANGED <<now, feedback, claims, delivered, doubtful, lost>>

KeyFor(j, o) == IF job[j].kind = "due" THEN DueFor(job[j].of, o) ELSE Immediate(job[j].of, o)

(* The next recipient; one that was already told is passed over.           *)
NextRecipient(j) ==
    /\ job[j].pc = "next"
    /\ \/ job[j].todo = {} /\ End(j) /\ UNCHANGED claims
       \/ \E o \in job[j].todo :
              LET k == KeyFor(j, o)  rest == job[j].todo \ {o} IN
              IF k \in claims THEN job' = [job EXCEPT ![j].todo = rest] /\ UNCHANGED claims
                              ELSE Claim(j, k, rest)
    /\ UNCHANGED <<now, risk, feedback, delivered, doubtful, lost>>

(* HttpFeishuMessenger.  A message that arrived may look as if it had not: *)
(* the answer to the request is lost, or the server reports an error.  The *)
(* messenger repeats the request, so that the message arrives again, and   *)
(* returns in the end or raises.  How often it arrived then nobody knows;  *)
(* it is counted as more than once.                                        *)
Again(n) == IF n = 0 THEN 1 ELSE 2

Arrives(k) == delivered' = [delivered EXCEPT ![k] = Again(@)] /\ UNCHANGED doubtful

ArrivesInDoubt(k) ==
    /\ "send" \in Faults
    /\ delivered' = [delivered EXCEPT ![k] = 2]
    /\ doubtful' = doubtful \cup {k}

SendSucceeds(j) ==
    /\ LoopIsFree
    /\ job[j].pc = "await"
    /\ Arrives(job[j].key) \/ ArrivesInDoubt(job[j].key)
    /\ IF job[j].kind = "group" THEN End(j) ELSE Goto(j, "next")
    /\ UNCHANGED <<now, risk, feedback, claims, lost>>

SendFails(j) ==
    /\ "send" \in Faults
    /\ LoopIsFree
    /\ job[j].pc = "await"
    /\ UNCHANGED <<delivered, doubtful>> \/ ArrivesInDoubt(job[j].key)
    /\ Goto(j, IF job[j].kind = "due" THEN "restore" ELSE "release")
    /\ UNCHANGED <<now, risk, feedback, claims, lost>>

(* The risk goes back to sleep for a retry, whatever state it is in.       *)
Restore(j) ==
    /\ job[j].pc = "restore"
    /\ risk' = [risk EXCEPT !.state = "snoozed"]
    /\ Goto(j, "unmark")
    /\ UNCHANGED <<now, feedback, claims, delivered, doubtful, lost>>

Unmark(j) ==
    /\ job[j].pc = "unmark"
    /\ claims' = claims \ {Marker(job[j].of)}
    /\ Goto(j, "release")
    /\ UNCHANGED <<now, risk, feedback, delivered, doubtful, lost>>

(* delete_notification of the recipient whose message failed; the          *)
(* exception ends the whole dispatch.                                      *)
NothingReleased(j) == {}
AllReleased(j) == {k \in Keys : k.kind = job[j].kind /\ k.of = job[j].of}
Released(j) == {job[j].key}

Release(j) ==
    /\ job[j].pc = "release"
    /\ claims' = claims \ Released(j)
    /\ End(j)
    /\ UNCHANGED <<now, risk, feedback, delivered, doubtful, lost>>

-----------------------------------------------------------------------------
(* The process dies with whatever its jobs were doing; the tables stay.    *)
(* Nobody gives back what they had claimed: the message they were at, and  *)
(* for a due snooze its marker.                                            *)
ClaimsOf(b) ==
    (IF b.pc \in {"await", "restore", "unmark", "release"} THEN {b.key} ELSE {})
    \cup (IF b.kind = "due" THEN {Marker(b.of)} ELSE {})

Crash ==
    /\ "crash" \in Faults
    /\ \E j \in Jobs : job[j].pc # "idle"
    /\ job' = [j \in Jobs |-> NoJob]
    /\ lost' = lost \cup (claims \cap UNION {ClaimsOf(job[j]) : j \in Jobs})
    /\ UNCHANGED <<now, risk, feedback, claims, delivered, doubtful>>

Tick ==
    /\ LoopIsFree
    /\ now < MaxTime
    /\ now' = now + 1
    /\ UNCHANGED <<risk, feedback, claims, delivered, doubtful, lost, job>>

Next ==
    \/ \E sig \in Signatures : ScanFinds(sig)
    \/ ScanMisses
    \/ \E j \in Jobs :
           \/ \E action \in Action : Submit(j, action)
           \/ Apply(j) \/ RequestHelp(j)
           \/ DispatchImmediate(j) \/ DispatchDue(j) \/ Reopen(j)
           \/ NextRecipient(j) \/ SendSucceeds(j) \/ SendFails(j)
           \/ Restore(j) \/ Unmark(j) \/ Release(j)
    \/ Crash
    \/ Tick

Spec == Init /\ [][Next]_vars

-----------------------------------------------------------------------------
(* Properties                                                              *)

(* Every variable has its type.                                            *)
TypeOK ==
    /\ now \in 0..MaxTime
    /\ risk \in [state : State, evidence : Signatures]
    /\ feedback \in Seq([action : Action, until : 1..(MaxTime + SnoozeTime)])
    /\ Len(feedback) <= MaxFeedback
    /\ claims \subseteq Keys
    /\ delivered \in [Keys -> 0..2]
    /\ doubtful \subseteq Keys
    /\ lost \subseteq Keys
    /\ job \in [Jobs -> Job]

(* Whichever dispatches overlap, fail, are retried or die with the         *)
(* process, a message arrives twice only when the messenger was in doubt   *)
(* about it: it repeated or gave up a request that had arrived.  The claim *)
(* of a message that was sent without an error is never given back.        *)
RemindedOnce == \A k \in Keys \ doubtful : delivered[k] <= 1

(* A claimed message was delivered, or is on its way, or its claim is      *)
(* about to be given back: a failed send never blocks its retry.  Only a   *)
(* crash with the message under way leaves a claim behind.                 *)
ClaimedIsDelivered ==
    \A k \in {c \in claims \ lost : c.to # System} :
        \/ delivered[k] # 0
        \/ \E j \in Jobs : job[j].key = k /\ job[j].pc # "idle"

(* When a due snooze counts as handled, every owner has been reminded,     *)
(* also when sends failed and a later dispatch went on; except for what    *)
(* was under way when the process died.                                    *)
ReminderReachesAllOwners ==
    \A i \in 1..Len(feedback) :
        Marker(i) \in claims \ lost =>
            \/ \A o \in Owners : delivered[DueFor(i, o)] # 0 \/ DueFor(i, o) \in lost
            \/ \E j \in Jobs : job[j].kind = "due" /\ job[j].of = i

(* A sleeping risk can be woken: unless a reminder is under way, the       *)
(* latest feedback is a snooze that no dispatch has used up.               *)
SnoozeCanEnd ==
    (/\ risk.state = "snoozed"
     /\ LoopIsFree
     /\ \A j \in Jobs : job[j].kind # "due")
    => LastFeedback.action = "snooze" /\ Marker(Len(feedback)) \notin claims

(* An acknowledgement or a dismissal is undone only by later feedback or   *)
(* because the evidence is gone.                                           *)
UserDecisionStands ==
    [][risk.state \in {"acknowledged", "dismissed"} /\ risk'.state # risk.state =>
           \/ risk'.state = "resolved"
           \/ /\ \E j \in Jobs : job[j].pc = "apply"
              /\ risk'.state = TargetState(LastFeedback.action)]_vars
=============================================================================
