--------------------------- MODULE SessionControl ---------------------------
(***************************************************************************)
(* Starting and controlling one reasoning session.                         *)
(*                                                                         *)
(* The lifecycle row and the session's lifecycle events live in PostgreSQL *)
(* and change only in short transactions that lock the row.  One Temporal  *)
(* workflow per session drives them: it bootstraps the draft to round one  *)
(* and then interprets the control signals that HTTP requests send it, one *)
(* activity at a time, against the state its own history has reached.      *)
(* Activities are retried, may commit without their acknowledgement being  *)
(* seen, and a timed-out attempt may still be running when its retry has   *)
(* finished.  A budget coordinator ends the session from outside.          *)
(*                                                                         *)
(* Sources: backend/app/adapters/temporal/session_bootstrap.py,            *)
(* backend/app/db/session_lifecycle.py, backend/app/api/routes/phase3.py,  *)
(* backend/app/application/{session_start,session_control,                 *)
(* coordinator_policy}.py.                                                 *)
(***************************************************************************)
EXTENDS SessionLifecycle, Sequences, FiniteSets

CONSTANTS
  Starters,      \* POST /start requests (distinct idempotency keys)
  Commands,      \* control requests (distinct idempotency keys)
  KindOf,        \* the SessionControlKind of each command
  Dispatches,    \* budgeted agent dispatches
  None,          \* NULL
  MaxAttempts,   \* maximum_attempts of STATE_COMMIT_POLICY
  MaxFaults,     \* bound: attempts the environment spoils
  MaxIssues,     \* bound: times one control request is issued
  LateAttempts   \* whether a timed-out attempt may finish afterwards

ASSUME ConstantsAssumption ==
  /\ KindOf \in [Commands -> SessionControlKind]
  /\ MaxAttempts \in Nat \ {0} /\ MaxFaults \in Nat /\ MaxIssues \in Nat \ {0}
  /\ LateAttempts \in BOOLEAN

VARIABLES
  state, round, lastEvent, stamps, attached,  \* the session_lifecycles row
  ledger,       \* the session's lifecycle events
  pc,           \* where SessionBootstrapWorkflow.run stands
  initiator,    \* the start request whose input the workflow runs with
  wfState, wfRound, pending, processed, current,  \* the workflow's own state
  activity,     \* the activity the workflow awaits: command, attempts, outcome
  late,         \* commands of timed-out attempts that are still running
  faults,       \* attempts spoiled so far
  starter,      \* each start request: idle, called, done
  control,      \* each control request: its step and how often it was issued
  budget        \* each dispatch: idle, done, or the projection enforce has read

rowVars == <<state, round, lastEvent, stamps>>
wfVars == <<pc, initiator, wfState, wfRound, pending, processed, current>>
apiVars == <<starter, control>>
vars == <<rowVars, attached, ledger, wfVars, activity, late, faults, apiVars, budget>>

(* Event identities are allocated before the workflow or signal is sent; the *)
(* failure identity differs from the event it reports.                       *)
EventIds ==
  [type : {"SESSION_INITIALIZED", "ROUND_STARTED", "BOOTSTRAP_DEAD_LETTERED"}, of : Starters]
    \cup [type : {"SESSION_CONTROL", "CONTROL_DEAD_LETTERED"}, of : Commands]
    \cup [type : {"BUDGET_EXHAUSTED"}, of : Dispatches]

ASSUME NoneAssumption ==
  None \notin Starters /\ None \notin EventIds /\ None \notin [id : Commands, issue : Nat]

(* A SessionTransition with its event.  The payload stands for requested_at  *)
(* and observed_state, which differ each time a control request is issued.   *)
Transitioning == [id : EventIds, source : SessionLifecycleState,
                  target : SessionLifecycleState, round : Nat, payload : 0..MaxIssues,
                  same : BOOLEAN]

Command(type, of, source, target, r, payload, same) ==
  [id |-> [type |-> type, of |-> of], source |-> source, target |-> target,
   round |-> r, payload |-> payload, same |-> same]

(* Mutant: the event's origin and destination swapped. *)
SwappedEvent(tr) == [id |-> tr.id, from |-> tr.target, to |-> tr.source,
                     round |-> tr.round, payload |-> tr.payload]

EventOf(tr) == [id |-> tr.id, from |-> tr.source, to |-> tr.target,
                round |-> tr.round, payload |-> tr.payload]

Recorded(id) == \E i \in DOMAIN ledger : ledger[i].id = id
-----------------------------------------------------------------------------
(* The store: SqlAlchemySessionLifecycleStore.transition in one transaction. *)

(* append raises LedgerIntegrityError when the identity is taken by another  *)
(* event, and returns the stored event when it is the same one.              *)
Appendable(e) == \A i \in DOMAIN ledger : ledger[i].id = e.id => ledger[i] = e

(* Mutant: appends without looking for the identity. *)
AppendAlways(e) == ledger' = Append(ledger, e)

AppendEvent(e) == ledger' = IF Recorded(e.id) THEN ledger ELSE Append(ledger, e)

(* The row already carries this event. *)
Replayed(tr) == state = tr.target /\ lastEvent = tr.id

(* Mutant: the caller's source is validated, not the row's state. *)
PermittedFromClaim(tr) ==
  /\ Appendable(EventOf(tr))
  /\ \/ Replayed(tr)
     \/ ValidSessionTransition(tr.source, tr.target, round, tr.round, tr.same)

Permitted(tr) ==
  /\ Appendable(EventOf(tr))
  /\ \/ Replayed(tr)
     \/ /\ state = tr.source
        /\ ValidSessionTransition(state, tr.target, round, tr.round, tr.same)

Transition(tr) ==
  /\ Permitted(tr)
  /\ AppendEvent(EventOf(tr))
  /\ IF Replayed(tr)
     THEN UNCHANGED rowVars
     ELSE /\ state' = tr.target
          /\ round' = tr.round
          /\ lastEvent' = tr.id
          /\ stamps' = NextStamps(stamps, state, tr.target)
-----------------------------------------------------------------------------
NoActivity == [tr |-> None, attempts |-> 0, outcome |-> "none"]

NoBudget == [step |-> "idle", state |-> "DRAFT", round |-> 0]

Schedule(tr) == activity' = [tr |-> tr, attempts |-> 0, outcome |-> "pending"]

(* workflow.run's two bootstrap commands, with the initiator's identities. *)
Initialize(s) == Command("SESSION_INITIALIZED", s, "DRAFT", "INITIALIZING", 0, 0, FALSE)

(* Mutant: the first round keeps number zero. *)
StartRoundZero(s) == Command("ROUND_STARTED", s, "INITIALIZING", "RUNNING", 0, 0, FALSE)

StartRound(s) == Command("ROUND_STARTED", s, "INITIALIZING", "RUNNING", 1, 0, FALSE)

(* control_transition's result in the workflow's own state. *)
Interpret(cmd) ==
  LET target == ControlTarget(KindOf[cmd.id], wfState)
  IN Command("SESSION_CONTROL", cmd.id, wfState, target, wfRound, cmd.issue,
             wfState = target)

(* The dead letter of the activity the workflow was waiting for. *)
DeadLetter ==
  IF current = None
  THEN Command("BOOTSTRAP_DEAD_LETTERED", initiator, wfState, "FAILED", wfRound, 0, FALSE)
  ELSE Command("CONTROL_DEAD_LETTERED", current.id, wfState, "FAILED", wfRound, 0, FALSE)

Init ==
  /\ state = "DRAFT" /\ round = 0 /\ lastEvent = None /\ stamps = {} /\ attached = FALSE
  /\ ledger = <<>>
  /\ pc = "none" /\ initiator = None
  /\ wfState = "DRAFT" /\ wfRound = 0
  /\ pending = <<>> /\ processed = {} /\ current = None
  /\ activity = NoActivity
  /\ late = {}
  /\ faults = 0
  /\ starter = [s \in Starters |-> "idle"]
  /\ control = [c \in Commands |-> [step |-> "new", issue |-> 0]]
  /\ budget = [d \in Dispatches |-> NoBudget]
-----------------------------------------------------------------------------
(* POST /sessions/{id}/start. *)

(* The engine starts the workflow, or (REJECT_DUPLICATE) returns the run    *)
(* that already has this workflow id, open or closed.                        *)
StartWorkflow(s) ==
  /\ starter[s] = "idle"
  /\ starter' = [starter EXCEPT ![s] = "called"]
  /\ IF pc = "none"
     THEN /\ pc' = "initializing"
          /\ initiator' = s
          /\ Schedule(Initialize(s))
     ELSE UNCHANGED <<pc, initiator, activity>>
  /\ UNCHANGED <<rowVars, attached, ledger, wfState, wfRound, pending, processed,
                 current, late, faults, control, budget>>

(* attach_workflow and the request's transaction commit. *)
AttachWorkflow(s) ==
  /\ starter[s] = "called"
  /\ starter' = [starter EXCEPT ![s] = "done"]
  /\ attached' = TRUE
  /\ UNCHANGED <<rowVars, ledger, wfVars, activity, late, faults, control, budget>>

(* The transaction is lost after the engine call: the client asks again. *)
StartLost(s) ==
  /\ starter[s] = "called"
  /\ starter' = [starter EXCEPT ![s] = "idle"]
  /\ UNCHANGED <<rowVars, attached, ledger, wfVars, activity, late, faults, control,
                 budget>>
-----------------------------------------------------------------------------
(* POST /sessions/{id}/{pause,resume,cancel,terminate,human-input}. *)

SetControl(c, step) ==
  control' = [control EXCEPT ![c] = [step |-> step, issue |-> control[c].issue]]

(* The projection is read, without a lock, and the request validated. *)
ValidateControl(c) ==
  /\ control[c].step = "new"
  /\ control[c].issue < MaxIssues
  /\ AcceptsControl(KindOf[c], state, round, attached)
  /\ control' = [control EXCEPT ![c] = [step |-> "validated",
                                          issue |-> control[c].issue + 1]]
  /\ UNCHANGED <<rowVars, attached, ledger, wfVars, activity, late, faults, starter,
                 budget>>

(* The engine takes the signal of a workflow that is still open. *)
SignalControl(c) ==
  /\ control[c].step = "validated"
  /\ pc \notin {"none", "completed", "failed"}
  /\ pending' = Append(pending, [id |-> c, issue |-> control[c].issue])
  /\ SetControl(c, "signalled")
  /\ UNCHANGED <<rowVars, attached, ledger, pc, initiator, wfState, wfRound, processed,
                 current, activity, late, faults, starter, budget>>

(* The signal cannot be delivered (503), or it was delivered and the        *)
(* request's transaction is lost: the idempotency record is not saved and    *)
(* the client issues the request again.                                      *)
ControlLost(c) ==
  /\ control[c].step \in {"validated", "signalled"}
  /\ SetControl(c, "new")
  /\ UNCHANGED <<rowVars, attached, ledger, wfVars, activity, late, faults, starter,
                 budget>>

(* 202: the idempotency record commits; a repetition only replays it. *)
ControlAccepted(c) ==
  /\ control[c].step = "signalled"
  /\ SetControl(c, "accepted")
  /\ UNCHANGED <<rowVars, attached, ledger, wfVars, activity, late, faults, starter,
                 budget>>
-----------------------------------------------------------------------------
(* BudgetCoordinator.enforce: an unlocked read, the totals, then the locked *)
(* transition with the state that was read.                                  *)

BudgetRead(d) ==
  /\ budget[d].step = "idle"
  /\ state \notin TerminalSessionStates
  /\ budget' = [budget EXCEPT ![d] = [step |-> "read", state |-> state, round |-> round]]
  /\ UNCHANGED <<rowVars, attached, ledger, wfVars, activity, late, faults, apiVars>>

Exhaust(d) == Command("BUDGET_EXHAUSTED", d, budget[d].state, "FAILED", budget[d].round,
                      0, FALSE)

BudgetExhausted(d) ==
  /\ budget[d].step = "read"
  /\ Transition(Exhaust(d))
  /\ budget' = [budget EXCEPT ![d] = [NoBudget EXCEPT !.step = "done"]]
  /\ UNCHANGED <<attached, wfVars, activity, late, faults, apiVars>>

(* The totals are below the ceiling, the transition is refused because the   *)
(* session has moved, or the transaction is lost.                            *)
BudgetReleased(d) ==
  /\ budget[d].step = "read"
  /\ budget' = [budget EXCEPT ![d] = NoBudget]
  /\ UNCHANGED <<rowVars, attached, ledger, wfVars, activity, late, faults, apiVars>>
-----------------------------------------------------------------------------
(* The attempts of the scheduled activity (run_activity and the committers). *)

Settle(outcome) == activity' = [activity EXCEPT !.outcome = outcome]

(* One attempt did not report success: retried until the policy is exhausted. *)
Retry ==
  /\ faults < MaxFaults
  /\ faults' = faults + 1
  /\ activity' = [activity EXCEPT
       !.attempts = @ + 1,
       !.outcome = IF activity.attempts + 1 >= MaxAttempts THEN "error" ELSE "pending"]

AttemptCommits ==
  /\ activity.outcome = "pending"
  /\ Transition(activity.tr)
  /\ Settle("ok")
  /\ UNCHANGED <<attached, wfVars, late, faults, apiVars, budget>>

(* InvalidSessionTransition and LedgerIntegrityError are not retried. *)
AttemptRefused ==
  /\ activity.outcome = "pending"
  /\ ~Permitted(activity.tr)
  /\ Settle("error")
  /\ UNCHANGED <<rowVars, attached, ledger, wfVars, late, faults, apiVars, budget>>

(* A transient failure rolls the transaction back. *)
AttemptFails ==
  /\ activity.outcome = "pending"
  /\ Retry
  /\ UNCHANGED <<rowVars, attached, ledger, wfVars, late, apiVars, budget>>

(* The transaction commits and the worker dies before it acknowledges. *)
AttemptUnacknowledged ==
  /\ activity.outcome = "pending"
  /\ Transition(activity.tr)
  /\ Retry
  /\ UNCHANGED <<attached, wfVars, late, apiVars, budget>>

(* start_to_close expires while the attempt still waits for the database;   *)
(* nothing fences it off.                                                    *)
AttemptTimesOut ==
  /\ LateAttempts
  /\ activity.outcome = "pending"
  /\ Retry
  /\ late' = late \cup {activity.tr}
  /\ UNCHANGED <<rowVars, attached, ledger, wfVars, apiVars, budget>>

(* The timed-out attempt runs its transaction after all, or is refused. *)
LateAttemptEnds(tr) ==
  /\ late' = late \ {tr}
  /\ IF Permitted(tr) THEN Transition(tr) ELSE UNCHANGED <<rowVars, ledger>>
  /\ UNCHANGED <<attached, wfVars, activity, faults, apiVars, budget>>
-----------------------------------------------------------------------------
(* SessionBootstrapWorkflow.run. *)

RoundStarts ==
  /\ pc = "initializing" /\ activity.outcome = "ok"
  /\ pc' = "starting"
  /\ wfState' = "INITIALIZING"
  /\ Schedule(StartRound(initiator))
  /\ UNCHANGED <<rowVars, attached, ledger, initiator, wfRound, pending, processed,
                 current, late, faults, apiVars, budget>>

BootstrapEnds ==
  /\ pc = "starting" /\ activity.outcome = "ok"
  /\ pc' = "parked"
  /\ wfState' = "RUNNING" /\ wfRound' = 1
  /\ activity' = NoActivity
  /\ UNCHANGED <<rowVars, attached, ledger, initiator, pending, processed, current,
                 late, faults, apiVars, budget>>

(* The head of the queue: skipped when its command was processed before,    *)
(* dropped when the workflow can no longer interpret it, else scheduled.     *)
TakeControl ==
  /\ pc = "parked" /\ pending # <<>>
  /\ pending' = Tail(pending)
  /\ LET cmd == Head(pending)
     IN IF cmd.id \in processed
        THEN UNCHANGED <<pc, processed, current, activity>>
        ELSE IF ~Interpretable(KindOf[cmd.id], wfState, wfRound)
        THEN /\ processed' = processed \cup {cmd.id}
             /\ UNCHANGED <<pc, current, activity>>
        ELSE /\ pc' = "controlling"
             /\ current' = cmd
             /\ Schedule(Interpret(cmd))
             /\ UNCHANGED processed
  /\ UNCHANGED <<rowVars, attached, ledger, initiator, wfState, wfRound, late, faults,
                 apiVars, budget>>

ControlEnds ==
  /\ pc = "controlling" /\ activity.outcome = "ok"
  /\ wfState' = activity.tr.target /\ wfRound' = activity.tr.round
  /\ processed' = processed \cup {current.id}
  /\ pc' = IF activity.tr.target = "CANCELLED" THEN "completed" ELSE "parked"
  /\ current' = None
  /\ activity' = NoActivity
  /\ UNCHANGED <<rowVars, attached, ledger, initiator, pending, late, faults, apiVars,
                 budget>>

(* except ActivityError: commit the dead letter, then re-raise. *)
DeadLetterStarts ==
  /\ pc \in {"initializing", "starting", "controlling"} /\ activity.outcome = "error"
  /\ pc' = "deadlettering"
  /\ Schedule(DeadLetter)
  /\ UNCHANGED <<rowVars, attached, ledger, initiator, wfState, wfRound, pending,
                 processed, current, late, faults, apiVars, budget>>

WorkflowFails ==
  /\ pc = "deadlettering" /\ activity.outcome \in {"ok", "error"}
  /\ pc' = "failed"
  /\ activity' = NoActivity
  /\ UNCHANGED <<rowVars, attached, ledger, initiator, wfState, wfRound, pending,
                 processed, current, late, faults, apiVars, budget>>
-----------------------------------------------------------------------------
WorkflowStep ==
  RoundStarts \/ BootstrapEnds \/ TakeControl \/ ControlEnds \/ DeadLetterStarts
    \/ WorkflowFails

AttemptEnds == AttemptCommits \/ AttemptRefused

Fault == AttemptFails \/ AttemptUnacknowledged \/ AttemptTimesOut

Next ==
  \/ \E s \in Starters : StartWorkflow(s) \/ AttachWorkflow(s) \/ StartLost(s)
  \/ \E c \in Commands :
       ValidateControl(c) \/ SignalControl(c) \/ ControlLost(c) \/ ControlAccepted(c)
  \/ \E d \in Dispatches : BudgetRead(d) \/ BudgetExhausted(d) \/ BudgetReleased(d)
  \/ AttemptEnds \/ Fault
  \/ \E tr \in late : LateAttemptEnds(tr)
  \/ WorkflowStep

Spec == Init /\ [][Next]_vars

(* Temporal dispatches every scheduled activity and workflow task to some   *)
(* live worker: an attempt runs to its end and the workflow takes its step.  *)
Fairness == WF_vars(AttemptEnds) /\ WF_vars(WorkflowStep)

FairSpec == Spec /\ Fairness
-----------------------------------------------------------------------------
Lifecycle == INSTANCE LifecycleLedger WITH NoEvent <- None, Payloads <- 0..MaxIssues

Steps == {"none", "initializing", "starting", "parked", "controlling", "deadlettering",
          "completed", "failed"}

QueuedCommand == [id : Commands, issue : 1..MaxIssues]

(* The types of the row, the ledger, the workflow and the requests. *)
TypeOK ==
  /\ Lifecycle!TypeOK
  /\ attached \in BOOLEAN
  /\ pc \in Steps
  /\ initiator \in Starters \cup {None}
  /\ wfState \in SessionLifecycleState /\ wfRound \in Nat
  /\ pending \in Seq(QueuedCommand)
  /\ processed \subseteq Commands
  /\ current \in QueuedCommand \cup {None}
  /\ activity \in [tr : Transitioning, attempts : Nat, outcome : {"pending", "ok", "error"}]
                   \cup {NoActivity}
  /\ late \subseteq Transitioning
  /\ faults \in 0..MaxFaults
  /\ starter \in [Starters -> {"idle", "called", "done"}]
  /\ control \in [Commands -> [step : {"new", "validated", "signalled", "accepted"},
                                issue : 0..MaxIssues]]
  /\ budget \in [Dispatches -> [step : {"idle", "read", "done"},
                                 state : SessionLifecycleState, round : Nat]]

(* The session was ended from outside the workflow, by the budget. *)
BudgetEnded == lastEvent # None /\ lastEvent.type = "BUDGET_EXHAUSTED"

(* While the workflow waits for controls its history-derived state and round *)
(* are the row's, and when it completes the row is CANCELLED: no retry, lost *)
(* acknowledgement or stale control lets the two diverge.  Only the budget   *)
(* may have ended the session behind a parked workflow's back.               *)
WorkflowInStep ==
  /\ pc = "parked" => BudgetEnded \/ (state = wfState /\ round = wfRound)
  /\ pc = "completed" => state = "CANCELLED"

(* The row is the replay of its ledger, every event a legal step recorded    *)
(* once (the detailed system implements LifecycleLedger).                    *)
LifecycleRefined == Lifecycle!Spec

(* The table's CHECK constraints never abort a transition the code permits.  *)
RowConstraintsHold == Lifecycle!RowConstraints

(* Whatever attempt comes late, the row is always where some recorded event  *)
(* led: a late attempt can repeat an old event's effect, never invent one.   *)
RowIsSomeEvent ==
  \/ state = "DRAFT" /\ ledger = <<>>
  \/ \E i \in DOMAIN ledger : /\ ledger[i].id = lastEvent
                              /\ ledger[i].to = state
                              /\ ledger[i].round = round

(* A session that has ended stays as it ended: no late attempt, queued        *)
(* control, dead letter or budget check moves its row or adds an event.      *)
EndedForGood ==
  [][(state \in TerminalSessionStates) => UNCHANGED <<rowVars, ledger>>]_vars

(* An accepted control is honoured, however it is queued, retried or         *)
(* overtaken: a cancellation ends the session, and a human directive is      *)
(* recorded unless the session ends first.                                   *)
ControlsHonoured ==
  \A c \in Commands :
    /\ KindOf[c] = "CANCEL" /\ control[c].step = "accepted" ~> state \in TerminalSessionStates
    /\ KindOf[c] = "HUMAN_INPUT" /\ control[c].step = "accepted"
         ~> \/ Recorded([type |-> "SESSION_CONTROL", of |-> c])
            \/ state \in TerminalSessionStates

(* "The PostgreSQL transaction either commits the effect and its ledger      *)
(* event together or commits neither" (docs/ORCHESTRATION_POLICY.md).        *)
EffectCarriesEvent == [][rowVars' # rowVars => ledger' # ledger]_vars

(* "dead letter means a durable ACTIVITY_DEAD_LETTERED ledger event and      *)
(* terminal FAILED lifecycle transition" (docs/ORCHESTRATION_POLICY.md).     *)
DeadLetterIsDurable == pc = "failed" => state = "FAILED"
=============================================================================
