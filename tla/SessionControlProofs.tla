------------------------ MODULE SessionControlProofs ------------------------
(***************************************************************************)
(* Proofs about starting and controlling a session, for any number of      *)
(* requests, commands, dispatches, attempts, faults and repetitions.       *)
(***************************************************************************)
EXTENDS SessionControl, SequenceTheorems, TLAPS

(* A transition validate_session_transition lets through leads from a state  *)
(* of the lifecycle to a state of it and moves the round by at most one.     *)
LEMMA ValidTransitionStays ==
  ASSUME NEW s \in SessionLifecycleState, NEW t, NEW r \in Nat, NEW n, NEW same \in BOOLEAN,
         ValidSessionTransition(s, t, r, n, same)
  PROVE  t \in SessionLifecycleState /\ n \in Nat /\ n \in {r, r + 1}
BY DEF ValidSessionTransition, Transitions, SessionLifecycleState, Waiting,
       TerminalSessionStates

(* No transition leaves a terminal state, and none leads back to DRAFT. *)
LEMMA TransitionEnds ==
  ASSUME NEW s \in SessionLifecycleState, NEW t \in Transitions(s)
  PROVE  s \notin TerminalSessionStates /\ t # "DRAFT"
BY DEF Transitions, SessionLifecycleState, Waiting, TerminalSessionStates

(* Setting a timestamp column never clears another one, and ended_at is set  *)
(* by terminal states only.                                                  *)
LEMMA StampsOnlyGrow ==
  ASSUME NEW old \in SUBSET Stamps, NEW s, NEW t
  PROVE  /\ NextStamps(old, s, t) \subseteq Stamps
         /\ old \subseteq NextStamps(old, s, t)
         /\ s = "DRAFT" => {"initialized_at", "started_at"} \subseteq NextStamps(old, s, t)
         /\ "ended_at" \in NextStamps(old, s, t)
              <=> "ended_at" \in old \/ t \in TerminalSessionStates
BY DEF NextStamps, Stamps

(* The instance of the abstract ledger is built on the same graph. *)
LEMMA SameGraph ==
  /\ Lifecycle!SessionLifecycleState = SessionLifecycleState
  /\ Lifecycle!TerminalSessionStates = TerminalSessionStates
  /\ Lifecycle!Stamps = Stamps
BY DEF Lifecycle!SessionLifecycleState, SessionLifecycleState, Lifecycle!Waiting, Waiting,
       Lifecycle!TerminalSessionStates, TerminalSessionStates, Lifecycle!Stamps, Stamps

Events == Lifecycle!LedgerEvents

(* As in the abstract ledger: both columns are set on leaving DRAFT. *)
StampedTogether == state # "DRAFT" => {"initialized_at", "started_at"} \subseteq stamps

(* The part of the invariant that speaks of the row and its ledger alone. *)
RowInv == Lifecycle!TypeOK /\ RowIsSomeEvent /\ RowConstraintsHold /\ StampedTogether

(* A command that may be sent to the store: none leads back to a draft, and  *)
(* only a session under way is told to stay where it is.                     *)
Sendable(tr) ==
  /\ tr \in Transitioning
  /\ tr.target # "DRAFT"
  /\ tr.same => tr.source # "DRAFT" /\ tr.source \notin TerminalSessionStates

LEMMA NoneIsNoEvent == None \notin EventIds /\ None \notin QueuedCommand
<1>1. QueuedCommand \subseteq [id : Commands, issue : Nat]
  BY ConstantsAssumption DEF QueuedCommand
<1> QED BY <1>1, NoneAssumption

LEMMA RowTypes ==
  ASSUME RowInv
  PROVE  /\ state \in SessionLifecycleState /\ round \in Nat /\ stamps \in SUBSET Stamps
         /\ lastEvent \in EventIds \cup {None} /\ ledger \in Seq(Events)
         /\ (state = "DRAFT") <=> (lastEvent = None)
         /\ (state \in TerminalSessionStates) <=> ("ended_at" \in stamps)
BY SameGraph DEF RowInv, Lifecycle!TypeOK, Events, RowConstraintsHold, Lifecycle!RowConstraints

(* The event of a sendable command. *)
LEMMA EventTypes ==
  ASSUME NEW tr, Sendable(tr)
  PROVE  /\ EventOf(tr) \in Events /\ EventOf(tr).id = tr.id /\ EventOf(tr).to = tr.target
         /\ EventOf(tr).round = tr.round
         /\ tr.id \in EventIds /\ tr.target \in SessionLifecycleState /\ tr.round \in Nat
         /\ tr.same \in BOOLEAN
<1>1. /\ tr.id \in EventIds /\ tr.source \in SessionLifecycleState
      /\ tr.target \in SessionLifecycleState /\ tr.round \in Nat
      /\ tr.payload \in 0..MaxIssues /\ tr.same \in BOOLEAN
  BY DEF Sendable, Transitioning
<1> QED BY <1>1, SameGraph DEF EventOf, Events, Lifecycle!LedgerEvents

(* A repeated commit finds its own event: it changes nothing, and the row is *)
(* where the event led.                                                      *)
LEMMA ReplayChangesNothing ==
  ASSUME RowInv, NEW tr, Sendable(tr), Transition(tr), Replayed(tr)
  PROVE  UNCHANGED <<rowVars, ledger>> /\ round = tr.round
<1>1. state # "DRAFT"
  BY DEF Replayed, Sendable
<1>2. PICK i \in DOMAIN ledger : /\ ledger[i].id = lastEvent /\ ledger[i].to = state
                                 /\ ledger[i].round = round
  BY <1>1 DEF RowInv, RowIsSomeEvent
<1>3. Recorded(tr.id) /\ ledger[i] = EventOf(tr)
  BY <1>2, EventTypes DEF Replayed, Recorded, Transition, Permitted, Appendable
<1>4. ledger' = ledger
  BY <1>3, EventTypes DEF Transition, AppendEvent
<1>5. round = tr.round
  BY <1>2, <1>3, EventTypes
<1>6. UNCHANGED rowVars
  BY DEF Transition
<1> QED BY <1>4, <1>5, <1>6

(* The store's transition keeps the row's invariant, leads to its target,    *)
(* and leaves an ended session alone.                                        *)
LEMMA TransitionKeepsRow ==
  ASSUME RowInv, NEW tr, Sendable(tr), Transition(tr)
  PROVE  /\ RowInv'
         /\ state' = tr.target /\ round' = tr.round /\ lastEvent' = tr.id
         /\ state \in TerminalSessionStates => UNCHANGED <<rowVars, ledger>>
<1>1. CASE Replayed(tr)
  <2>1. UNCHANGED <<rowVars, ledger>> /\ round = tr.round
    BY <1>1, ReplayChangesNothing
  <2>2. RowInv'
    BY <2>1 DEF RowInv, rowVars, Lifecycle!TypeOK, RowIsSomeEvent, RowConstraintsHold,
                Lifecycle!RowConstraints, StampedTogether
  <2> QED BY <1>1, <2>1, <2>2 DEF Replayed, rowVars
<1>2. CASE ~Replayed(tr)
  <2>1. /\ state = tr.source
        /\ ValidSessionTransition(state, tr.target, round, tr.round, tr.same)
        /\ Appendable(EventOf(tr)) /\ AppendEvent(EventOf(tr))
        /\ state' = tr.target /\ round' = tr.round /\ lastEvent' = tr.id
        /\ stamps' = NextStamps(stamps, state, tr.target)
    BY <1>2 DEF Transition, Permitted
  <2>2. state \notin TerminalSessionStates
    <3>1. CASE state = tr.target
      BY <3>1, <2>1, EventTypes DEF ValidSessionTransition, Sendable
    <3>2. CASE state # tr.target
      BY <3>2, <2>1, RowTypes, TransitionEnds DEF ValidSessionTransition
    <3> QED BY <3>1, <3>2
  <2> DEFINE e == EventOf(tr)
  <2>3. /\ e \in Events /\ e.id = tr.id /\ e.to = tr.target /\ e.round = tr.round
    BY EventTypes
  <2> HIDE DEF e
  <2>4. ledger' \in Seq(Events) /\ \E i \in DOMAIN ledger' : ledger'[i] = e
    <3>1. CASE Recorded(e.id)
      BY <3>1, <2>1, RowTypes DEF AppendEvent, Recorded, Appendable, e
    <3>2. CASE ~Recorded(e.id)
      <4>1. ledger' = Append(ledger, e) /\ ledger \in Seq(Events)
        BY <3>2, <2>1, RowTypes DEF AppendEvent, e
      <4>2. /\ ledger' \in Seq(Events) /\ Len(ledger') \in 1..Len(ledger')
            /\ ledger'[Len(ledger')] = e
        BY <4>1, <2>3, AppendProperties
      <4> QED BY <4>2
    <3> QED BY <3>1, <3>2
  <2>5. RowIsSomeEvent'
    BY <2>1, <2>3, <2>4 DEF RowIsSomeEvent
  <2>6. /\ stamps' \subseteq Stamps /\ stamps \subseteq stamps'
        /\ state = "DRAFT" => {"initialized_at", "started_at"} \subseteq stamps'
        /\ "ended_at" \in stamps' <=> "ended_at" \in stamps \/ tr.target \in TerminalSessionStates
    BY <2>1, RowTypes, StampsOnlyGrow
  <2>7. Lifecycle!TypeOK'
    BY <2>1, <2>4, <2>6, EventTypes, SameGraph DEF Lifecycle!TypeOK, Events
  <2>8. StampedTogether'
    BY <2>1, <2>6 DEF RowInv, StampedTogether
  <2>9. state' # "DRAFT" /\ lastEvent' # None
    BY <2>1, EventTypes, NoneIsNoEvent DEF Sendable
  <2>10. (state' \in TerminalSessionStates) <=> ("ended_at" \in stamps')
    BY <2>1, <2>2, <2>6, RowTypes
  <2>11. RowConstraintsHold'
    BY <2>8, <2>9, <2>10, SameGraph DEF RowConstraintsHold, Lifecycle!RowConstraints, StampedTogether
  <2> QED BY <2>1, <2>2, <2>5, <2>7, <2>8, <2>11 DEF RowInv
<1> QED BY <1>1, <1>2

LEMMA RowUnmoved ==
  ASSUME RowInv, UNCHANGED <<rowVars, ledger>>
  PROVE  RowInv'
BY DEF RowInv, rowVars, Lifecycle!TypeOK, RowIsSomeEvent, RowConstraintsHold,
       Lifecycle!RowConstraints, StampedTogether
-----------------------------------------------------------------------------
(* The rest of the type invariant. *)
FlowTypes ==
  /\ attached \in BOOLEAN /\ pc \in Steps /\ initiator \in Starters \cup {None}
  /\ wfState \in SessionLifecycleState /\ wfRound \in Nat
  /\ pending \in Seq(QueuedCommand) /\ processed \subseteq Commands
  /\ current \in QueuedCommand \cup {None}
  /\ activity \in [tr : Transitioning, attempts : Nat, outcome : {"pending", "ok", "error"}]
                   \cup {NoActivity}
  /\ late \subseteq Transitioning
  /\ faults \in 0..MaxFaults

RequestTypes ==
  /\ starter \in [Starters -> {"idle", "called", "done"}]
  /\ control \in [Commands -> [step : {"new", "validated", "signalled", "accepted"},
                                issue : 0..MaxIssues]]
  /\ budget \in [Dispatches -> [step : {"idle", "read", "done"},
                                 state : SessionLifecycleState, round : Nat]]
  /\ \A c \in Commands : control[c].step # "new" => control[c].issue # 0

(* Where the workflow stands decides what it knows; whatever it has          *)
(* scheduled or left behind is sendable.                                     *)
FlowKnows ==
  /\ pc # "none" => initiator \in Starters
  /\ pc = "controlling" => current \in QueuedCommand
  /\ pc \in {"parked", "controlling"} => wfState # "DRAFT"
  /\ activity.outcome # "none" => Sendable(activity.tr)
  /\ \A tr \in late : Sendable(tr)

SInv == RowInv /\ FlowTypes /\ RequestTypes /\ FlowKnows

LEMMA SInvTypes == SInv => TypeOK
BY DEF SInv, RowInv, FlowTypes, RequestTypes, TypeOK

LEMMA SInit == Init => SInv
<1> SUFFICES ASSUME Init PROVE SInv
  OBVIOUS
<1>1. RowInv
  BY SameGraph DEF Init, RowInv, Lifecycle!TypeOK, RowIsSomeEvent, RowConstraintsHold,
     Lifecycle!RowConstraints, StampedTogether, SessionLifecycleState, TerminalSessionStates,
     Waiting
<1>2. FlowTypes
  <2>1. attached \in BOOLEAN
    BY DEF Init
  <2>2. /\ pc \in Steps /\ initiator \in Starters \cup {None}
        /\ wfState \in SessionLifecycleState /\ wfRound \in Nat
        /\ processed \subseteq Commands /\ faults \in 0..MaxFaults /\ late \subseteq Transitioning
    BY ConstantsAssumption DEF Init, Steps, SessionLifecycleState
  <2>3. pending \in Seq(QueuedCommand)
    BY DEF Init
  <2> QED BY <2>1, <2>2, <2>3 DEF Init, FlowTypes
<1>3. RequestTypes
  BY ConstantsAssumption DEF Init, RequestTypes, NoBudget, SessionLifecycleState
<1>4. FlowKnows
  BY DEF Init, FlowKnows, NoActivity
<1> QED BY <1>1, <1>2, <1>3, <1>4 DEF SInv

(* What a scheduled activity looks like. *)
LEMMA Scheduled ==
  ASSUME FlowTypes, FlowKnows, activity.outcome # "none"
  PROVE  /\ activity \in [tr : Transitioning, attempts : Nat,
                           outcome : {"pending", "ok", "error"}]
         /\ Sendable(activity.tr) /\ activity.tr \in Transitioning
<1>1. activity # NoActivity
  BY DEF NoActivity
<1> QED BY <1>1 DEF FlowTypes, FlowKnows

(* Every command the code builds can be sent. *)
LEMMA CommandSendable ==
  ASSUME NEW type, NEW of, [type |-> type, of |-> of] \in EventIds,
         NEW source \in SessionLifecycleState, NEW target \in SessionLifecycleState,
         NEW r \in Nat, NEW payload \in 0..MaxIssues, NEW same \in BOOLEAN,
         target # "DRAFT", same => source # "DRAFT" /\ source \notin TerminalSessionStates
  PROVE  Sendable(Command(type, of, source, target, r, payload, same))
BY DEF Sendable, Command, Transitioning

LEMMA BootstrapSendable ==
  ASSUME NEW s \in Starters
  PROVE  Sendable(Initialize(s)) /\ Sendable(StartRound(s))
<1>1. /\ [type |-> "SESSION_INITIALIZED", of |-> s] \in EventIds
      /\ [type |-> "ROUND_STARTED", of |-> s] \in EventIds
  BY DEF EventIds
<1>2. /\ "DRAFT" \in SessionLifecycleState /\ "INITIALIZING" \in SessionLifecycleState
      /\ "RUNNING" \in SessionLifecycleState /\ 0 \in 0..MaxIssues
  BY ConstantsAssumption DEF SessionLifecycleState
<1> QED BY <1>1, <1>2, CommandSendable DEF Initialize, StartRound

LEMMA ControlSendable ==
  ASSUME FlowTypes, wfState # "DRAFT", NEW cmd \in QueuedCommand,
         Interpretable(KindOf[cmd.id], wfState, wfRound)
  PROVE  Sendable(Interpret(cmd))
<1> DEFINE target == ControlTarget(KindOf[cmd.id], wfState)
<1>1. cmd.id \in Commands /\ cmd.issue \in 0..MaxIssues
  BY ConstantsAssumption DEF QueuedCommand
<1>2. [type |-> "SESSION_CONTROL", of |-> cmd.id] \in EventIds
  BY <1>1 DEF EventIds
<1>3. target \in SessionLifecycleState /\ target # "DRAFT"
  BY DEF FlowTypes, ControlTarget, SessionLifecycleState, TerminalSessionStates
<1>4. wfState \notin TerminalSessionStates /\ wfState \in SessionLifecycleState
      /\ wfRound \in Nat
  BY DEF Interpretable, FlowTypes
<1> HIDE DEF target
<1>5. Sendable(Command("SESSION_CONTROL", cmd.id, wfState, target, wfRound, cmd.issue,
                       wfState = target))
  BY <1>1, <1>2, <1>3, <1>4, CommandSendable
<1> QED BY <1>5 DEF Interpret, target

LEMMA DeadLetterSendable ==
  ASSUME FlowTypes, initiator \in Starters
  PROVE  Sendable(DeadLetter)
<1>1. /\ wfState \in SessionLifecycleState /\ "FAILED" \in SessionLifecycleState
      /\ wfRound \in Nat /\ 0 \in 0..MaxIssues
  BY ConstantsAssumption DEF FlowTypes, SessionLifecycleState, TerminalSessionStates
<1>2. CASE current = None
  <2>1. [type |-> "BOOTSTRAP_DEAD_LETTERED", of |-> initiator] \in EventIds
    BY DEF EventIds
  <2> QED BY <1>1, <1>2, <2>1, CommandSendable DEF DeadLetter
<1>3. CASE current # None
  <2>1. current.id \in Commands
    BY <1>3 DEF FlowTypes, QueuedCommand
  <2>2. [type |-> "CONTROL_DEAD_LETTERED", of |-> current.id] \in EventIds
    BY <2>1 DEF EventIds
  <2> QED BY <1>1, <1>3, <2>2, CommandSendable DEF DeadLetter
<1> QED BY <1>2, <1>3

LEMMA BudgetSendable ==
  ASSUME RequestTypes, NEW d \in Dispatches
  PROVE  Sendable(Exhaust(d))
<1>1. /\ budget[d].state \in SessionLifecycleState /\ budget[d].round \in Nat
      /\ "FAILED" \in SessionLifecycleState /\ 0 \in 0..MaxIssues
  BY ConstantsAssumption DEF RequestTypes, SessionLifecycleState, TerminalSessionStates
<1>2. [type |-> "BUDGET_EXHAUSTED", of |-> d] \in EventIds
  BY DEF EventIds
<1> QED BY <1>1, <1>2, CommandSendable DEF Exhaust
-----------------------------------------------------------------------------
(* Scheduling a sendable command gives a well-formed activity. *)
LEMMA ScheduleStep ==
  ASSUME NEW tr, Sendable(tr), Schedule(tr)
  PROVE  /\ activity' \in [tr : Transitioning, attempts : Nat,
                            outcome : {"pending", "ok", "error"}]
         /\ activity'.tr = tr /\ activity'.outcome = "pending"
BY DEF Sendable, Schedule

(* The ends of an attempt keep the scheduled command. *)
LEMMA OutcomeStep ==
  ASSUME FlowTypes, FlowKnows, activity.outcome = "pending", faults' = faults,
         NEW outcome \in {"ok", "error"}, Settle(outcome)
  PROVE  /\ activity' \in [tr : Transitioning, attempts : Nat,
                            outcome : {"pending", "ok", "error"}]
         /\ activity'.tr = activity.tr /\ activity'.outcome = outcome
         /\ faults' \in 0..MaxFaults
BY Scheduled DEF Settle, FlowTypes

LEMMA RetryStep ==
  ASSUME FlowTypes, FlowKnows, activity.outcome = "pending", Retry
  PROVE  /\ activity' \in [tr : Transitioning, attempts : Nat,
                            outcome : {"pending", "ok", "error"}]
         /\ activity'.tr = activity.tr /\ activity'.outcome \in {"pending", "error"}
         /\ faults' \in 0..MaxFaults
<1>1. activity \in [tr : Transitioning, attempts : Nat, outcome : {"pending", "ok", "error"}]
  BY Scheduled
<1>2. faults' \in 0..MaxFaults
  BY ConstantsAssumption DEF Retry, FlowTypes
<1>3. PICK outcome \in {"pending", "error"} :
        activity' = [activity EXCEPT !.attempts = activity.attempts + 1, !.outcome = outcome]
  BY DEF Retry
<1>4. activity.attempts + 1 \in Nat
  BY <1>1
<1> QED BY <1>1, <1>2, <1>3, <1>4

(* A step that moves neither the row nor the workflow. *)
LEMMA OnlyRequests ==
  ASSUME SInv, UNCHANGED <<rowVars, ledger, wfVars, activity, late, faults>>,
         attached' \in BOOLEAN, RequestTypes'
  PROVE  SInv'
<1>1. RowInv'
  BY RowUnmoved DEF SInv
<1>2. FlowTypes'
  BY DEF SInv, FlowTypes, wfVars
<1>3. FlowKnows'
  BY DEF SInv, FlowKnows, wfVars, Sendable
<1> QED BY <1>1, <1>2, <1>3 DEF SInv

LEMMA StartStep ==
  ASSUME SInv, NEW s \in Starters, StartWorkflow(s) \/ AttachWorkflow(s) \/ StartLost(s)
  PROVE  SInv'
<1>1. CASE AttachWorkflow(s) \/ StartLost(s)
  <2>1. RequestTypes'
    BY <1>1 DEF SInv, RequestTypes, AttachWorkflow, StartLost
  <2>2. attached' \in BOOLEAN
    BY <1>1 DEF AttachWorkflow, StartLost, SInv, FlowTypes
  <2> QED BY <1>1, <2>1, <2>2, OnlyRequests DEF AttachWorkflow, StartLost
<1>2. CASE StartWorkflow(s)
  <2>1. RequestTypes'
    BY <1>2 DEF SInv, RequestTypes, StartWorkflow
  <2>2. RowInv'
    BY <1>2, RowUnmoved DEF SInv, StartWorkflow
  <2>3. CASE pc = "none"
    <3>1. /\ pc' = "initializing" /\ initiator' = s /\ Schedule(Initialize(s))
          /\ UNCHANGED <<attached, wfState, wfRound, pending, processed, current, late, faults>>
      BY <1>2, <2>3 DEF StartWorkflow
    <3>2. /\ activity' \in [tr : Transitioning, attempts : Nat,
                             outcome : {"pending", "ok", "error"}]
          /\ activity'.tr = Initialize(s) /\ Sendable(Initialize(s))
      BY <3>1, ScheduleStep, BootstrapSendable
    <3>3. FlowTypes'
      BY <3>1, <3>2 DEF SInv, FlowTypes, Steps
    <3>4. FlowKnows'
      BY <3>1, <3>2 DEF SInv, FlowKnows, Sendable
    <3> QED BY <2>1, <2>2, <3>3, <3>4 DEF SInv
  <2>4. CASE pc # "none"
    <3>1. attached' \in BOOLEAN
      BY <1>2 DEF StartWorkflow, SInv, FlowTypes
    <3> QED BY <1>2, <2>1, <2>4, <3>1, OnlyRequests DEF StartWorkflow, wfVars
  <2> QED BY <2>3, <2>4
<1> QED BY <1>1, <1>2

LEMMA ControlStep ==
  ASSUME SInv, NEW c \in Commands,
         ValidateControl(c) \/ SignalControl(c) \/ ControlLost(c) \/ ControlAccepted(c)
  PROVE  SInv'
<1>1. attached' \in BOOLEAN
  BY DEF ValidateControl, SignalControl, ControlLost, ControlAccepted, SInv, FlowTypes
<1>2. /\ control[c].issue \in 0..MaxIssues
      /\ control[c].step \in {"new", "validated", "signalled", "accepted"}
      /\ control[c].step # "new" => control[c].issue # 0
  BY DEF SInv, RequestTypes
<1>3. CASE ValidateControl(c)
  <2>1. control[c].issue + 1 \in 0..MaxIssues /\ control[c].issue + 1 # 0
    BY <1>2, <1>3, ConstantsAssumption DEF ValidateControl
  <2>2. RequestTypes'
    BY <1>3, <2>1 DEF SInv, RequestTypes, ValidateControl
  <2> QED BY <1>1, <1>3, <2>2, OnlyRequests DEF ValidateControl
<1>4. CASE ControlLost(c) \/ ControlAccepted(c)
  <2>1. RequestTypes'
    BY <1>2, <1>4 DEF SInv, RequestTypes, ControlLost, ControlAccepted, SetControl
  <2> QED BY <1>1, <1>4, <2>1, OnlyRequests DEF ControlLost, ControlAccepted
<1>5. CASE SignalControl(c)
  <2>1. RequestTypes'
    BY <1>2, <1>5 DEF SInv, RequestTypes, SignalControl, SetControl
  <2>2. RowInv'
    BY <1>5, RowUnmoved DEF SInv, SignalControl
  <2>3. [id |-> c, issue |-> control[c].issue] \in QueuedCommand
    BY <1>2, <1>5, ConstantsAssumption DEF QueuedCommand, SignalControl
  <2>4. pending' \in Seq(QueuedCommand)
    BY <1>5, <2>3, AppendProperties DEF SignalControl, SInv, FlowTypes
  <2>5. FlowTypes'
    BY <1>1, <1>5, <2>4 DEF SInv, FlowTypes, SignalControl
  <2>6. FlowKnows'
    BY <1>5 DEF SInv, FlowKnows, SignalControl, Sendable
  <2> QED BY <2>1, <2>2, <2>5, <2>6 DEF SInv
<1> QED BY <1>3, <1>4, <1>5

LEMMA BudgetStep ==
  ASSUME SInv, NEW d \in Dispatches,
         BudgetRead(d) \/ BudgetExhausted(d) \/ BudgetReleased(d)
  PROVE  SInv'
<1>1. attached' \in BOOLEAN
  BY DEF BudgetRead, BudgetExhausted, BudgetReleased, SInv, FlowTypes
<1>2. RequestTypes'
  <2>1. state \in SessionLifecycleState /\ round \in Nat /\ "DRAFT" \in SessionLifecycleState
    BY RowTypes DEF SInv, SessionLifecycleState
  <2>2. UNCHANGED apiVars /\ RequestTypes
    BY DEF BudgetRead, BudgetExhausted, BudgetReleased, SInv
  <2>3. budget' \in [Dispatches -> [step : {"idle", "read", "done"},
                                     state : SessionLifecycleState, round : Nat]]
    BY <2>1 DEF SInv, RequestTypes, BudgetRead, BudgetExhausted, BudgetReleased, NoBudget
  <2> QED BY <2>2, <2>3 DEF RequestTypes, apiVars
<1>3. CASE BudgetRead(d) \/ BudgetReleased(d)
  BY <1>1, <1>2, <1>3, OnlyRequests DEF BudgetRead, BudgetReleased
<1>4. CASE BudgetExhausted(d)
  <2>1. RowInv'
    BY <1>4, TransitionKeepsRow, BudgetSendable DEF BudgetExhausted, SInv
  <2>2. FlowTypes'
    BY <1>1, <1>4 DEF BudgetExhausted, SInv, FlowTypes, wfVars
  <2>3. FlowKnows'
    BY <1>4 DEF BudgetExhausted, SInv, FlowKnows, wfVars, Sendable
  <2> QED BY <1>2, <2>1, <2>2, <2>3 DEF SInv
<1> QED BY <1>3, <1>4

(* The workflow and the requests stay where they are during an attempt. *)
LEMMA AttemptFlow ==
  ASSUME SInv, UNCHANGED <<attached, wfVars, apiVars, budget>>, RowInv',
         /\ activity' \in [tr : Transitioning, attempts : Nat,
                            outcome : {"pending", "ok", "error"}]
         /\ activity'.tr = activity.tr /\ Sendable(activity.tr) /\ faults' \in 0..MaxFaults,
         late' \subseteq late \cup {activity.tr}
  PROVE  SInv'
<1>1. RequestTypes'
  BY DEF SInv, RequestTypes, apiVars
<1>2. FlowTypes'
  <2>1. late' \subseteq Transitioning
    BY DEF SInv, FlowTypes, Sendable
  <2>2. attached' \in BOOLEAN
    BY DEF SInv, FlowTypes
  <2> QED BY <2>1, <2>2 DEF SInv, FlowTypes, wfVars
<1>3. FlowKnows'
  BY DEF SInv, FlowKnows, wfVars, Sendable
<1> QED BY <1>1, <1>2, <1>3 DEF SInv

LEMMA AttemptStep == ASSUME SInv, AttemptEnds \/ Fault PROVE SInv'
<1>1. activity.outcome = "pending"
  BY DEF AttemptEnds, Fault, AttemptCommits, AttemptRefused, AttemptFails,
         AttemptUnacknowledged, AttemptTimesOut
<1>2. FlowTypes /\ FlowKnows /\ RowInv /\ Sendable(activity.tr)
  BY <1>1, Scheduled DEF SInv
<1>3. CASE AttemptCommits
  <2>1. RowInv'
    BY <1>2, <1>3, TransitionKeepsRow DEF AttemptCommits
  <2> QED BY <1>1, <1>2, <1>3, <2>1, OutcomeStep, AttemptFlow DEF AttemptCommits
<1>4. CASE AttemptRefused
  <2>1. RowInv'
    BY <1>2, <1>4, RowUnmoved DEF AttemptRefused
  <2> QED BY <1>1, <1>2, <1>4, <2>1, OutcomeStep, AttemptFlow DEF AttemptRefused
<1>5. CASE AttemptFails
  <2>1. RowInv'
    BY <1>2, <1>5, RowUnmoved DEF AttemptFails
  <2> QED BY <1>1, <1>2, <1>5, <2>1, RetryStep, AttemptFlow DEF AttemptFails
<1>6. CASE AttemptUnacknowledged
  <2>1. RowInv'
    BY <1>2, <1>6, TransitionKeepsRow DEF AttemptUnacknowledged
  <2> QED BY <1>1, <1>2, <1>6, <2>1, RetryStep, AttemptFlow DEF AttemptUnacknowledged
<1>7. CASE AttemptTimesOut
  <2>1. RowInv'
    BY <1>2, <1>7, RowUnmoved DEF AttemptTimesOut
  <2> QED BY <1>1, <1>2, <1>7, <2>1, RetryStep, AttemptFlow DEF AttemptTimesOut
<1> QED BY <1>3, <1>4, <1>5, <1>6, <1>7 DEF AttemptEnds, Fault

LEMMA LateStep == ASSUME SInv, NEW tr \in late, LateAttemptEnds(tr) PROVE SInv'
<1>1. RowInv'
  <2>1. Sendable(tr) /\ RowInv
    BY DEF SInv, FlowKnows
  <2> QED BY <2>1, RowUnmoved, TransitionKeepsRow DEF LateAttemptEnds
<1>2. RequestTypes'
  BY DEF SInv, RequestTypes, apiVars, LateAttemptEnds
<1>3. FlowTypes'
  <2>1. attached' \in BOOLEAN
    BY DEF SInv, FlowTypes, LateAttemptEnds
  <2> QED BY <2>1 DEF SInv, FlowTypes, wfVars, LateAttemptEnds
<1>4. FlowKnows'
  BY DEF SInv, FlowKnows, wfVars, Sendable, LateAttemptEnds
<1> QED BY <1>1, <1>2, <1>3, <1>4 DEF SInv

(* A step of the workflow leaves the row and the requests alone. *)
LEMMA WorkflowFlow ==
  ASSUME SInv, UNCHANGED <<rowVars, attached, ledger, initiator, late, faults, apiVars, budget>>,
         pc # "none", pc' \in Steps,
         wfState' \in SessionLifecycleState, wfRound' \in Nat,
         pending' \in Seq(QueuedCommand), processed' \subseteq Commands,
         current' \in QueuedCommand \cup {None},
         pc' = "controlling" => current' \in QueuedCommand,
         pc' \in {"parked", "controlling"} => wfState' # "DRAFT",
         \/ activity' = NoActivity
         \/ /\ activity' \in [tr : Transitioning, attempts : Nat,
                               outcome : {"pending", "ok", "error"}]
            /\ Sendable(activity'.tr)
  PROVE  SInv'
<1>1. RowInv'
  BY RowUnmoved DEF SInv
<1>2. RequestTypes'
  BY DEF SInv, RequestTypes, apiVars
<1>3. FlowTypes'
  <2>1. attached' \in BOOLEAN
    BY DEF SInv, FlowTypes
  <2> QED BY <2>1 DEF SInv, FlowTypes, NoActivity
<1>4. FlowKnows'
  BY DEF SInv, FlowKnows, NoActivity, Sendable
<1> QED BY <1>1, <1>2, <1>3, <1>4 DEF SInv

LEMMA WorkflowStepKeeps == ASSUME SInv, WorkflowStep PROVE SInv'
<1>1. /\ FlowTypes /\ FlowKnows
      /\ wfState \in SessionLifecycleState /\ wfRound \in Nat
      /\ pending \in Seq(QueuedCommand) /\ processed \subseteq Commands
      /\ current \in QueuedCommand \cup {None}
  BY DEF SInv, FlowTypes
<1>2. CASE RoundStarts
  <2>1. Sendable(StartRound(initiator)) /\ Schedule(StartRound(initiator))
    BY <1>1, <1>2, BootstrapSendable DEF RoundStarts, FlowKnows
  <2>2. "INITIALIZING" \in SessionLifecycleState /\ "starting" \in Steps
    BY DEF SessionLifecycleState, Steps
  <2> QED BY <1>1, <1>2, <2>1, <2>2, ScheduleStep, WorkflowFlow DEF RoundStarts
<1>3. CASE BootstrapEnds
  <2>1. "RUNNING" \in SessionLifecycleState /\ "parked" \in Steps /\ 1 \in Nat
    BY DEF SessionLifecycleState, Steps
  <2> QED BY <1>1, <1>3, <2>1, WorkflowFlow DEF BootstrapEnds
<1>4. CASE TakeControl
  <2> DEFINE cmd == Head(pending)
  <2>1. cmd \in QueuedCommand /\ pending' \in Seq(QueuedCommand) /\ cmd.id \in Commands
    <3>1. pending # <<>> /\ pending' = Tail(pending)
      BY <1>4 DEF TakeControl
    <3>2. cmd \in QueuedCommand /\ pending' \in Seq(QueuedCommand)
      BY <1>1, <3>1, HeadTailProperties
    <3> QED BY <3>2 DEF QueuedCommand
  <2>2. wfState # "DRAFT" /\ pc = "parked" /\ "controlling" \in Steps /\ "parked" \in Steps
    BY <1>1, <1>4 DEF TakeControl, FlowKnows, Steps
  <2>3. UNCHANGED <<rowVars, attached, ledger, initiator, wfState, wfRound, late, faults,
                    apiVars, budget>>
    BY <1>4 DEF TakeControl
  <2>4. CASE cmd.id \in processed \/ ~Interpretable(KindOf[cmd.id], wfState, wfRound)
    <3>1. UNCHANGED <<pc, current, activity>> /\ processed' \subseteq Commands
      BY <1>1, <1>4, <2>1, <2>4 DEF TakeControl
    <3>2. \/ activity' = NoActivity
          \/ /\ activity' \in [tr : Transitioning, attempts : Nat,
                                outcome : {"pending", "ok", "error"}]
             /\ Sendable(activity'.tr)
      BY <1>1, <3>1, Scheduled DEF FlowTypes
    <3> QED BY <1>1, <2>1, <2>2, <2>3, <3>1, <3>2, WorkflowFlow
  <2>5. CASE cmd.id \notin processed /\ Interpretable(KindOf[cmd.id], wfState, wfRound)
    <3>1. pc' = "controlling" /\ current' = cmd /\ Schedule(Interpret(cmd))
          /\ processed' = processed
      BY <1>4, <2>5 DEF TakeControl
    <3>2. Sendable(Interpret(cmd))
      BY <1>1, <2>1, <2>2, <2>5, ControlSendable
    <3> HIDE DEF cmd
    <3>3. /\ activity' \in [tr : Transitioning, attempts : Nat,
                             outcome : {"pending", "ok", "error"}]
          /\ Sendable(activity'.tr)
      BY <3>1, <3>2, ScheduleStep
    <3> QED BY <1>1, <2>1, <2>2, <2>3, <3>1, <3>3, WorkflowFlow
  <2> QED BY <2>4, <2>5
<1>5. CASE ControlEnds
  <2>1. /\ activity.tr.target \in SessionLifecycleState /\ activity.tr.target # "DRAFT"
        /\ activity.tr.round \in Nat
    BY <1>1, <1>5, Scheduled, EventTypes DEF ControlEnds, Sendable
  <2>2. processed' \subseteq Commands
    BY <1>1, <1>5 DEF ControlEnds, FlowKnows, QueuedCommand
  <2>3. pc' \in {"completed", "parked"} /\ pc' \in Steps
    BY <1>5 DEF ControlEnds, Steps
  <2> QED BY <1>1, <1>5, <2>1, <2>2, <2>3, WorkflowFlow DEF ControlEnds
<1>6. CASE DeadLetterStarts
  <2>1. Sendable(DeadLetter) /\ Schedule(DeadLetter)
    BY <1>1, <1>6, DeadLetterSendable DEF DeadLetterStarts, FlowKnows
  <2>2. "deadlettering" \in Steps
    BY DEF Steps
  <2> QED BY <1>1, <1>6, <2>1, <2>2, ScheduleStep, WorkflowFlow DEF DeadLetterStarts
<1>7. CASE WorkflowFails
  <2>1. "failed" \in Steps
    BY DEF Steps
  <2> QED BY <1>1, <1>7, <2>1, WorkflowFlow DEF WorkflowFails
<1> QED BY <1>2, <1>3, <1>4, <1>5, <1>6, <1>7 DEF WorkflowStep

LEMMA SNextKeeps == SInv /\ [Next]_vars => SInv'
<1> SUFFICES ASSUME SInv, [Next]_vars PROVE SInv'
  OBVIOUS
<1>1. CASE UNCHANGED vars
  <2>1. RequestTypes' /\ attached' \in BOOLEAN
    BY <1>1 DEF vars, apiVars, SInv, RequestTypes, FlowTypes
  <2> QED BY <1>1, <2>1, OnlyRequests DEF vars
<1>2. CASE Next
  BY <1>2, StartStep, ControlStep, BudgetStep, AttemptStep, LateStep, WorkflowStepKeeps
     DEF Next
<1> QED BY <1>1, <1>2

LEMMA SInvariant == Spec => []SInv
BY SInit, SNextKeeps, PTL DEF Spec
-----------------------------------------------------------------------------
(* The types of the store, the workflow and the requests hold for every      *)
(* instance, late attempts included.                                         *)
THEOREM SessionTypes == Spec => []TypeOK
BY SInvariant, SInvTypes, PTL

(* The session_lifecycles row is always where some recorded event led,       *)
(* whatever attempts come late.                                              *)
THEOREM RowHasItsEvent == Spec => []RowIsSomeEvent
<1>1. SInv => RowIsSomeEvent
  BY DEF SInv, RowInv
<1> QED BY <1>1, SInvariant, PTL

(* The CHECK constraints of session_lifecycles never abort a transition that *)
(* SqlAlchemySessionLifecycleStore permits.                                  *)
THEOREM ConstraintsHold == Spec => []RowConstraintsHold
<1>1. SInv => RowConstraintsHold
  BY DEF SInv, RowInv
<1> QED BY <1>1, SInvariant, PTL

(* The row moves only by a sendable transition of the store. *)
LEMMA RowMoves ==
  ASSUME SInv, [Next]_vars
  PROVE  \/ UNCHANGED <<rowVars, ledger>>
         \/ \E tr : Sendable(tr) /\ Transition(tr)
<1>1. CASE UNCHANGED vars
  BY <1>1 DEF vars
<1>2. ASSUME NEW s \in Starters, StartWorkflow(s) \/ AttachWorkflow(s) \/ StartLost(s)
      PROVE  UNCHANGED <<rowVars, ledger>>
  BY <1>2 DEF StartWorkflow, AttachWorkflow, StartLost
<1>3. ASSUME NEW c \in Commands,
             ValidateControl(c) \/ SignalControl(c) \/ ControlLost(c) \/ ControlAccepted(c)
      PROVE  UNCHANGED <<rowVars, ledger>>
  BY <1>3 DEF ValidateControl, SignalControl, ControlLost, ControlAccepted
<1>4. ASSUME NEW d \in Dispatches, BudgetRead(d) \/ BudgetReleased(d)
      PROVE  UNCHANGED <<rowVars, ledger>>
  BY <1>4 DEF BudgetRead, BudgetReleased
<1>5. ASSUME NEW d \in Dispatches, BudgetExhausted(d)
      PROVE  Sendable(Exhaust(d)) /\ Transition(Exhaust(d))
  BY <1>5, BudgetSendable DEF BudgetExhausted, SInv
<1>6. CASE AttemptRefused \/ AttemptFails \/ AttemptTimesOut
  BY <1>6 DEF AttemptRefused, AttemptFails, AttemptTimesOut
<1>7. CASE AttemptCommits \/ AttemptUnacknowledged
  <2>1. Sendable(activity.tr) /\ Transition(activity.tr)
    BY <1>7, Scheduled DEF AttemptCommits, AttemptUnacknowledged, SInv
  <2> QED BY <2>1
<1>8. ASSUME NEW tr \in late, LateAttemptEnds(tr)
      PROVE  UNCHANGED <<rowVars, ledger>> \/ (Sendable(tr) /\ Transition(tr))
  BY <1>8 DEF LateAttemptEnds, SInv, FlowKnows
<1>9. CASE WorkflowStep
  BY <1>9 DEF WorkflowStep, RoundStarts, BootstrapEnds, TakeControl, ControlEnds,
              DeadLetterStarts, WorkflowFails
<1> QED BY <1>1, <1>2, <1>3, <1>4, <1>5, <1>6, <1>7, <1>8, <1>9
        DEF Next, AttemptEnds, Fault

(* Once a session has ended, no late attempt, queued control, dead letter or *)
(* budget check moves its row or records another lifecycle event.            *)
THEOREM EndedSessionsStay == Spec => EndedForGood
<1>1. ASSUME SInv, [Next]_vars
      PROVE  [(state \in TerminalSessionStates) => UNCHANGED <<rowVars, ledger>>]_vars
  BY <1>1, RowMoves, TransitionKeepsRow DEF SInv
<1>2. SInv /\ [Next]_vars
        => [(state \in TerminalSessionStates) => UNCHANGED <<rowVars, ledger>>]_vars
  BY <1>1
<1> QED BY <1>2, SInvariant, PTL DEF Spec, EndedForGood
-----------------------------------------------------------------------------
(* What holds while no attempt outlives its timeout. *)

(* The row is where the awaited command led, unless the budget ended it; a   *)
(* cancellation is final.                                                    *)
Reached ==
  /\ BudgetEnded \/ (state = activity.tr.target /\ round = activity.tr.round)
  /\ activity.tr.target = "CANCELLED" => state = "CANCELLED"

InStep ==
  /\ late = {}
  /\ pc \in {"initializing", "starting", "controlling"} /\ activity.outcome = "ok" => Reached
  /\ pc = "starting" => activity.tr.target = "RUNNING" /\ activity.tr.round = 1
  /\ pc \in {"parked", "completed"} => activity.outcome = "none"
  /\ WorkflowInStep

LEMMA BudgetEnds ==
  ASSUME SInv, NEW d \in Dispatches, BudgetExhausted(d)
  PROVE  /\ BudgetEnded' /\ (state = "CANCELLED" => state' = "CANCELLED")
<1>1. Sendable(Exhaust(d)) /\ Transition(Exhaust(d)) /\ RowInv
  BY BudgetSendable DEF SInv, BudgetExhausted
<1>2. lastEvent' = Exhaust(d).id /\ Exhaust(d).id \in EventIds
  BY <1>1, TransitionKeepsRow, EventTypes
<1>3. BudgetEnded'
  BY <1>2, NoneIsNoEvent DEF BudgetEnded, Exhaust, Command
<1>4. state = "CANCELLED" => state' = "CANCELLED"
  BY <1>1, TransitionKeepsRow DEF TerminalSessionStates, rowVars
<1> QED BY <1>3, <1>4

LEMMA InStepKept ==
  ASSUME LateAttempts = FALSE, SInv, InStep, [Next]_vars
  PROVE  InStep'
<1> USE DEF InStep, WorkflowInStep
<1>1. ASSUME UNCHANGED <<rowVars, late, pc, wfState, wfRound, activity>>
      PROVE  InStep'
  BY <1>1 DEF Reached, BudgetEnded, rowVars
<1>2. CASE UNCHANGED vars
  BY <1>1, <1>2 DEF vars, wfVars
<1>3. ASSUME NEW s \in Starters, StartWorkflow(s) \/ AttachWorkflow(s) \/ StartLost(s)
      PROVE  InStep'
  <2>1. CASE StartWorkflow(s) /\ pc = "none"
    BY <2>1 DEF StartWorkflow, Schedule
  <2>2. CASE ~(StartWorkflow(s) /\ pc = "none")
    BY <1>1, <1>3, <2>2 DEF StartWorkflow, AttachWorkflow, StartLost, wfVars
  <2> QED BY <2>1, <2>2
<1>4. ASSUME NEW c \in Commands,
             ValidateControl(c) \/ SignalControl(c) \/ ControlLost(c) \/ ControlAccepted(c)
      PROVE  InStep'
  BY <1>1, <1>4 DEF ValidateControl, SignalControl, ControlLost, ControlAccepted, wfVars
<1>5. ASSUME NEW d \in Dispatches, BudgetRead(d) \/ BudgetReleased(d)
      PROVE  InStep'
  BY <1>1, <1>5 DEF BudgetRead, BudgetReleased, wfVars
<1>6. ASSUME NEW d \in Dispatches, BudgetExhausted(d)
      PROVE  InStep'
  <2>1. BudgetEnded' /\ (state = "CANCELLED" => state' = "CANCELLED")
    BY <1>6, BudgetEnds
  <2>2. UNCHANGED <<late, pc, wfState, wfRound, activity>>
    BY <1>6 DEF BudgetExhausted, wfVars
  <2> QED BY <2>1, <2>2 DEF Reached
<1>7. CASE AttemptEnds \/ Fault
  <2>1. /\ activity.outcome = "pending" /\ UNCHANGED <<pc, wfState, wfRound>>
        /\ FlowTypes /\ FlowKnows /\ RowInv /\ Sendable(activity.tr)
    BY <1>7, Scheduled DEF SInv, AttemptEnds, Fault, AttemptCommits, AttemptRefused,
       AttemptFails, AttemptUnacknowledged, AttemptTimesOut, wfVars
  <2>2. late' = {}
    BY <1>7 DEF AttemptEnds, Fault, AttemptCommits, AttemptRefused, AttemptFails,
                AttemptUnacknowledged, AttemptTimesOut
  <2>3. CASE AttemptCommits
    <3>1. activity'.tr = activity.tr
      BY <2>1, <2>3, OutcomeStep DEF AttemptCommits
    <3>2. state' = activity.tr.target /\ round' = activity.tr.round
      BY <2>1, <2>3, TransitionKeepsRow DEF AttemptCommits
    <3> QED BY <2>1, <2>2, <3>1, <3>2 DEF Reached
  <2>4. CASE ~AttemptCommits
    <3>1. activity'.tr = activity.tr /\ activity'.outcome \in {"pending", "error"}
      BY <1>7, <2>1, <2>4, OutcomeStep, RetryStep DEF AttemptEnds, Fault, AttemptRefused,
         AttemptFails, AttemptUnacknowledged, AttemptTimesOut
    <3> QED BY <2>1, <2>2, <3>1
  <2> QED BY <2>3, <2>4
<1>8. ASSUME NEW tr \in late PROVE FALSE
  OBVIOUS
<1>9. CASE WorkflowStep
  <2>1. UNCHANGED <<rowVars, late>>
    BY <1>9 DEF WorkflowStep, RoundStarts, BootstrapEnds, TakeControl, ControlEnds,
                DeadLetterStarts, WorkflowFails
  <2>2. BudgetEnded' = BudgetEnded /\ UNCHANGED <<state, round>>
    BY <2>1 DEF BudgetEnded, rowVars
  <2>3. CASE RoundStarts
    BY <2>1, <2>3 DEF RoundStarts, Schedule, StartRound, Command
  <2>4. CASE BootstrapEnds
    BY <2>1, <2>2, <2>4 DEF BootstrapEnds, NoActivity, Reached
  <2>5. CASE TakeControl
    <3>1. CASE pc' = "controlling"
      BY <2>1, <2>5, <3>1 DEF TakeControl, Schedule
    <3>2. CASE pc' # "controlling"
      BY <1>1, <2>1, <2>5, <3>2 DEF TakeControl
    <3> QED BY <3>1, <3>2
  <2>6. CASE ControlEnds
    BY <2>1, <2>2, <2>6 DEF ControlEnds, NoActivity, Reached
  <2>7. CASE DeadLetterStarts
    BY <2>1, <2>7 DEF DeadLetterStarts
  <2>8. CASE WorkflowFails
    BY <2>1, <2>8 DEF WorkflowFails
  <2> QED BY <1>9, <2>3, <2>4, <2>5, <2>6, <2>7, <2>8 DEF WorkflowStep
<1> QED BY <1>2, <1>3, <1>4, <1>5, <1>6, <1>7, <1>8, <1>9 DEF Next

LEMMA InStepInvariant ==
  ASSUME LateAttempts = FALSE
  PROVE  Spec => []InStep
<1>1. Init => InStep
  BY DEF Init, InStep, WorkflowInStep, NoActivity
<1>2. SInv /\ InStep /\ [Next]_vars => InStep'
  BY InStepKept
<1> QED BY <1>1, <1>2, SInvariant, PTL DEF Spec

(* As long as no timed-out attempt is still running, a parked workflow's     *)
(* state and round are the row's unless the budget ended the session, and a  *)
(* completed workflow leaves a CANCELLED row: for any number of commands,    *)
(* repetitions, retries and lost acknowledgements.                           *)
THEOREM WorkflowStaysInStep ==
  ASSUME LateAttempts = FALSE
  PROVE  Spec => []WorkflowInStep
<1>1. InStep => WorkflowInStep
  BY DEF InStep
<1> QED BY <1>1, InStepInvariant, PTL
-----------------------------------------------------------------------------
(* The refinement: while no attempt outlives its timeout, every transition   *)
(* that moves the row records a new event.                                   *)

(* Where the workflow or a dispatch must stand for this event to exist. *)
Possible(id) ==
  /\ id.type = "BUDGET_EXHAUSTED" => budget[id.of].step = "done"
  /\ id.type = "SESSION_INITIALIZED" => pc # "none"
  /\ id.type = "ROUND_STARTED" => pc \notin {"none", "initializing"}
  /\ id.type = "SESSION_CONTROL" =>
       \/ id.of \in processed
       \/ pc \in {"controlling", "deadlettering", "failed"} /\ current.id = id.of
  /\ id.type \in {"BOOTSTRAP_DEAD_LETTERED", "CONTROL_DEAD_LETTERED"} =>
       pc \in {"deadlettering", "failed"}

(* A pending command is new, is the row's own event, or comes too late. *)
FreshOrDone(tr) == ~Recorded(tr.id) \/ Replayed(tr) \/ state \in TerminalSessionStates

Identities ==
  /\ \A id \in EventIds : Recorded(id) => Possible(id)
  /\ activity.outcome = "pending" => Possible(activity.tr.id) /\ FreshOrDone(activity.tr)

LEMMA SameRules ==
  /\ \A s, t, r, n, same : Lifecycle!ValidSessionTransition(s, t, r, n, same)
                              <=> ValidSessionTransition(s, t, r, n, same)
  /\ \A old, s, t : Lifecycle!NextStamps(old, s, t) = NextStamps(old, s, t)
  /\ \A id : Lifecycle!Appended(id) <=> Recorded(id)
<1>1. \A s : Lifecycle!Transitions(s) = Transitions(s)
  BY SameGraph DEF Lifecycle!Transitions, Transitions, Lifecycle!Waiting, Waiting
<1>2. \A s, t, r, n, same : Lifecycle!ValidSessionTransition(s, t, r, n, same)
                             <=> ValidSessionTransition(s, t, r, n, same)
  BY <1>1 DEF Lifecycle!ValidSessionTransition, ValidSessionTransition
<1>3. \A old, s, t : Lifecycle!NextStamps(old, s, t) = NextStamps(old, s, t)
  BY SameGraph DEF Lifecycle!NextStamps, NextStamps
<1> QED BY <1>2, <1>3 DEF Lifecycle!Appended, Recorded

(* A transition with a new event is a step of the abstract ledger. *)
LEMMA TransitionRefines ==
  ASSUME RowInv, NEW tr, Sendable(tr), Transition(tr), FreshOrDone(tr)
  PROVE  Lifecycle!Next \/ UNCHANGED Lifecycle!vars
<1>1. CASE Replayed(tr) \/ state \in TerminalSessionStates
  BY <1>1, ReplayChangesNothing, TransitionKeepsRow
     DEF rowVars, Lifecycle!vars, Lifecycle!row
<1>2. CASE ~Replayed(tr) /\ state \notin TerminalSessionStates
  <2>1. /\ state = tr.source
        /\ ValidSessionTransition(state, tr.target, round, tr.round, tr.same)
        /\ AppendEvent(EventOf(tr)) /\ ~Recorded(tr.id)
        /\ state' = tr.target /\ round' = tr.round /\ lastEvent' = tr.id
        /\ stamps' = NextStamps(stamps, state, tr.target)
    BY <1>2 DEF Transition, Permitted, FreshOrDone
  <2>2. ledger' = Append(ledger, [id |-> tr.id, from |-> state, to |-> tr.target,
                                  round |-> tr.round, payload |-> tr.payload])
    BY <2>1 DEF AppendEvent, EventOf
  <2>3. /\ tr.id \in EventIds /\ tr.target \in SessionLifecycleState
        /\ tr.round \in {round, round + 1} /\ tr.payload \in 0..MaxIssues
    BY <2>1, EventTypes, RowTypes, ValidTransitionStays DEF Sendable, Transitioning
  <2>4. ValidSessionTransition(state, tr.target, round, tr.round, state # "DRAFT")
    BY <2>1 DEF ValidSessionTransition, Sendable
  <2>5. Lifecycle!Commit(tr.id, tr.target, tr.round, state # "DRAFT", tr.payload)
    BY <2>1, <2>2, <2>4, SameRules DEF Lifecycle!Commit
  <2> QED BY <1>2, <2>3, <2>5, SameGraph DEF Lifecycle!Next
<1> QED BY <1>1, <1>2

(* Only the transition's own event can be new in the ledger. *)
LEMMA RecordedGrows ==
  ASSUME RowInv, NEW tr, Sendable(tr), Transition(tr), NEW id, Recorded(id)'
  PROVE  Recorded(id) \/ id = tr.id
<1> DEFINE e == EventOf(tr)
<1>1. e \in Events /\ e.id = tr.id /\ ledger \in Seq(Events)
  BY EventTypes, RowTypes
<1>2. ledger' = ledger \/ ledger' = Append(ledger, e)
  BY DEF Transition, AppendEvent
<1> HIDE DEF e
<1>3. PICK i \in DOMAIN ledger' : ledger'[i].id = id
  BY DEF Recorded
<1>4. CASE ledger' = ledger
  BY <1>3, <1>4 DEF Recorded
<1>5. CASE ledger' = Append(ledger, e)
  <2>1. /\ DOMAIN ledger' = 1..(Len(ledger) + 1) /\ DOMAIN ledger = 1..Len(ledger)
        /\ Len(ledger) \in Nat /\ ledger'[Len(ledger) + 1] = e
        /\ \A j \in 1..Len(ledger) : ledger'[j] = ledger[j]
    BY <1>1, <1>5
  <2> QED BY <1>1, <1>3, <2>1 DEF Recorded
<1> QED BY <1>2, <1>4, <1>5

(* What has become possible stays possible. *)
LEMMA PossibleStays ==
  ASSUME SInv, [Next]_vars, NEW id \in EventIds, Possible(id)
  PROVE  Possible(id)'
<1> USE DEF Possible
<1>1. CASE UNCHANGED <<wfVars, budget>>
  BY <1>1 DEF wfVars
<1>2. CASE UNCHANGED vars
  BY <1>1, <1>2 DEF vars
<1>3. ASSUME NEW s \in Starters, StartWorkflow(s) \/ AttachWorkflow(s) \/ StartLost(s)
      PROVE  Possible(id)'
  BY <1>3 DEF StartWorkflow, AttachWorkflow, StartLost, wfVars
<1>4. ASSUME NEW c \in Commands,
             ValidateControl(c) \/ SignalControl(c) \/ ControlLost(c) \/ ControlAccepted(c)
      PROVE  Possible(id)'
  BY <1>4 DEF ValidateControl, SignalControl, ControlLost, ControlAccepted, wfVars
<1>5. ASSUME NEW d \in Dispatches, BudgetRead(d) \/ BudgetExhausted(d) \/ BudgetReleased(d)
      PROVE  Possible(id)'
  <2>1. id.type = "BUDGET_EXHAUSTED" => id.of \in Dispatches
    BY DEF EventIds
  <2>2. \A x \in Dispatches : budget[x].step = "done" => budget'[x].step = "done"
    BY <1>5 DEF BudgetRead, BudgetExhausted, BudgetReleased, SInv, RequestTypes, NoBudget
  <2>3. UNCHANGED wfVars
    BY <1>5 DEF BudgetRead, BudgetExhausted, BudgetReleased
  <2> QED BY <2>1, <2>2, <2>3 DEF wfVars
<1>6. CASE AttemptEnds \/ Fault
  BY <1>1, <1>6 DEF AttemptEnds, Fault, AttemptCommits, AttemptRefused, AttemptFails,
                AttemptUnacknowledged, AttemptTimesOut
<1>7. ASSUME NEW tr \in late, LateAttemptEnds(tr)
      PROVE  Possible(id)'
  BY <1>1, <1>7 DEF LateAttemptEnds
<1>8. CASE WorkflowStep
  <2>1. CASE RoundStarts \/ BootstrapEnds
    BY <2>1 DEF RoundStarts, BootstrapEnds
  <2>2. CASE TakeControl
    BY <2>2 DEF TakeControl
  <2>3. CASE ControlEnds
    BY <2>3 DEF ControlEnds
  <2>4. CASE DeadLetterStarts \/ WorkflowFails
    BY <2>4 DEF DeadLetterStarts, WorkflowFails
  <2> QED BY <1>8, <2>1, <2>2, <2>3, <2>4 DEF WorkflowStep
<1> QED BY <1>2, <1>3, <1>4, <1>5, <1>6, <1>7, <1>8 DEF Next

(* The row and the ledger rest, and no command becomes pending. *)
LEMMA IdentitiesRest ==
  ASSUME SInv, Identities, [Next]_vars, UNCHANGED <<rowVars, ledger>>,
         activity'.outcome = "pending" =>
           activity'.tr = activity.tr /\ activity.outcome = "pending"
  PROVE  Identities' /\ UNCHANGED Lifecycle!vars
<1>1. \A id \in EventIds : Recorded(id)' => Possible(id)'
  BY PossibleStays DEF Identities, Recorded
<1>2. ASSUME activity'.outcome = "pending"
      PROVE  Possible(activity.tr.id)' /\ FreshOrDone(activity.tr)'
  <2>1. activity'.tr = activity.tr /\ activity.outcome = "pending"
    BY <1>2
  <2>2. activity.tr.id \in EventIds
    BY <2>1, Scheduled, EventTypes DEF SInv
  <2>3. Possible(activity.tr.id) /\ FreshOrDone(activity.tr)
    BY <2>1 DEF Identities
  <2>4. Possible(activity.tr.id)'
    <3>1. PICK t \in EventIds : t = activity.tr.id
      BY <2>2
    <3>2. Possible(t)'
      BY <2>3, <3>1, PossibleStays
    <3> QED BY <2>1, <3>1, <3>2 DEF Possible
  <2> QED BY <2>1, <2>3, <2>4 DEF FreshOrDone, Recorded, Replayed, rowVars
<1> QED BY <1>1, <1>2 DEF Identities, rowVars, Lifecycle!vars, Lifecycle!row

(* The workflow schedules a command whose event was not possible before. *)
LEMMA IdentitiesScheduled ==
  ASSUME SInv, Identities, [Next]_vars, UNCHANGED <<rowVars, ledger>>,
         NEW tr, Sendable(tr), Schedule(tr), ~Possible(tr.id), Possible(tr.id)'
  PROVE  Identities' /\ UNCHANGED Lifecycle!vars
<1>1. \A id \in EventIds : Recorded(id)' => Possible(id)'
  BY PossibleStays DEF Identities, Recorded
<1>2. activity'.tr = tr /\ tr.id \in EventIds
  BY ScheduleStep, EventTypes
<1>3. ~Recorded(tr.id)'
  BY <1>2 DEF Identities, Recorded
<1>4. Possible(activity.tr.id)' /\ FreshOrDone(activity.tr)'
  BY <1>2, <1>3 DEF Possible, FreshOrDone, Recorded
<1> QED BY <1>1, <1>4 DEF Identities, rowVars, Lifecycle!vars, Lifecycle!row

(* The store commits a transition. *)
LEMMA IdentitiesCommitted ==
  ASSUME SInv, Identities, [Next]_vars,
         NEW tr, Sendable(tr), Transition(tr), FreshOrDone(tr), Possible(tr.id)',
         activity'.outcome = "pending" =>
           /\ activity'.tr = activity.tr /\ activity.outcome = "pending"
           /\ activity.tr = tr \/ tr.target \in TerminalSessionStates
  PROVE  Identities' /\ (Lifecycle!Next \/ UNCHANGED Lifecycle!vars)
<1>1. RowInv
  BY DEF SInv
<1>2. \A id \in EventIds : Recorded(id)' => Possible(id)'
  <2> SUFFICES ASSUME NEW id \in EventIds, Recorded(id)' PROVE Possible(id)'
    OBVIOUS
  <2>1. Recorded(id) \/ id = tr.id
    BY <1>1, RecordedGrows
  <2>2. CASE Recorded(id)
    BY <2>2, PossibleStays DEF Identities
  <2>3. CASE id = tr.id
    BY <2>3
  <2> QED BY <2>1, <2>2, <2>3
<1>3. ASSUME activity'.outcome = "pending"
      PROVE  Possible(activity.tr.id)' /\ FreshOrDone(activity.tr)'
  <2>1. /\ activity'.tr = activity.tr /\ activity.outcome = "pending"
        /\ activity.tr = tr \/ tr.target \in TerminalSessionStates
    BY <1>3
  <2>2. activity.tr.id \in EventIds /\ Possible(activity.tr.id)
    BY <2>1, Scheduled, EventTypes DEF SInv, Identities
  <2>3. Possible(activity.tr.id)'
    <3>1. PICK t \in EventIds : t = activity.tr.id
      BY <2>2
    <3>2. Possible(t)'
      BY <2>2, <3>1, PossibleStays
    <3> QED BY <2>1, <3>1, <3>2 DEF Possible
  <2>4. state' = tr.target /\ lastEvent' = tr.id
    BY <1>1, TransitionKeepsRow
  <2> QED BY <2>1, <2>3, <2>4 DEF FreshOrDone, Replayed
<1>4. Lifecycle!Next \/ UNCHANGED Lifecycle!vars
  BY <1>1, TransitionRefines
<1> QED BY <1>2, <1>3, <1>4 DEF Identities

LEMMA IdentitiesKept ==
  ASSUME LateAttempts = FALSE, SInv, InStep, Identities, [Next]_vars
  PROVE  Identities' /\ (Lifecycle!Next \/ UNCHANGED Lifecycle!vars)
<1>1. CASE UNCHANGED vars
  BY <1>1, IdentitiesRest DEF vars
<1>2. ASSUME NEW s \in Starters, StartWorkflow(s) \/ AttachWorkflow(s) \/ StartLost(s)
      PROVE  Identities' /\ UNCHANGED Lifecycle!vars
  <2>1. CASE StartWorkflow(s) /\ pc = "none"
    <3>1. /\ Sendable(Initialize(s)) /\ Schedule(Initialize(s)) /\ pc' = "initializing"
          /\ UNCHANGED <<rowVars, ledger>>
      BY <2>1, BootstrapSendable DEF StartWorkflow
    <3>2. Initialize(s).id.type = "SESSION_INITIALIZED"
      BY DEF Initialize, Command
    <3>3. ~Possible(Initialize(s).id) /\ Possible(Initialize(s).id)'
      BY <2>1, <3>1, <3>2 DEF Possible, Initialize
    <3> QED BY <3>1, <3>3, IdentitiesScheduled
  <2>2. CASE ~(StartWorkflow(s) /\ pc = "none")
    BY <1>2, <2>2, IdentitiesRest DEF StartWorkflow, AttachWorkflow, StartLost
  <2> QED BY <2>1, <2>2
<1>3. ASSUME NEW c \in Commands,
             ValidateControl(c) \/ SignalControl(c) \/ ControlLost(c) \/ ControlAccepted(c)
      PROVE  Identities' /\ UNCHANGED Lifecycle!vars
  BY <1>3, IdentitiesRest
     DEF ValidateControl, SignalControl, ControlLost, ControlAccepted
<1>4. ASSUME NEW d \in Dispatches, BudgetRead(d) \/ BudgetReleased(d)
      PROVE  Identities' /\ UNCHANGED Lifecycle!vars
  BY <1>4, IdentitiesRest DEF BudgetRead, BudgetReleased
<1>5. ASSUME NEW d \in Dispatches, BudgetExhausted(d)
      PROVE  Identities' /\ (Lifecycle!Next \/ UNCHANGED Lifecycle!vars)
  <2>a. PICK tr : tr = Exhaust(d)
    OBVIOUS
  <2>1. Sendable(tr) /\ Transition(tr) /\ UNCHANGED activity
    BY <1>5, <2>a, BudgetSendable DEF BudgetExhausted, SInv
  <2>2. /\ tr.id.type = "BUDGET_EXHAUSTED" /\ tr.id.of = d
        /\ tr.target \in TerminalSessionStates
    BY <2>a DEF Exhaust, Command, TerminalSessionStates
  <2>3. tr.id \in EventIds
    BY <2>1, EventTypes
  <2>4. budget[d].step = "read" /\ budget'[d].step = "done"
    BY <1>5 DEF BudgetExhausted, SInv, RequestTypes, NoBudget
  <2>5. ~Possible(tr.id) /\ Possible(tr.id)'
    BY <2>2, <2>4 DEF Possible
  <2>6. FreshOrDone(tr)
    BY <2>3, <2>5 DEF Identities, FreshOrDone
  <2> QED BY <2>1, <2>2, <2>5, <2>6, IdentitiesCommitted
<1>6. CASE AttemptRefused \/ AttemptFails \/ AttemptTimesOut
  <2>1. FlowTypes /\ FlowKnows /\ activity.outcome = "pending"
    BY <1>6 DEF SInv, AttemptRefused, AttemptFails, AttemptTimesOut
  <2>2. activity'.tr = activity.tr
    BY <1>6, <2>1, OutcomeStep, RetryStep DEF AttemptRefused, AttemptFails, AttemptTimesOut
  <2> QED BY <1>6, <2>1, <2>2, IdentitiesRest
          DEF AttemptRefused, AttemptFails, AttemptTimesOut
<1>7. CASE AttemptCommits \/ AttemptUnacknowledged
  <2>1. /\ FlowTypes /\ FlowKnows /\ activity.outcome = "pending"
        /\ Transition(activity.tr)
    BY <1>7 DEF SInv, AttemptCommits, AttemptUnacknowledged
  <2>2. activity'.tr = activity.tr
    BY <1>7, <2>1, OutcomeStep, RetryStep DEF AttemptCommits, AttemptUnacknowledged
  <2>3. Sendable(activity.tr) /\ activity.tr.id \in EventIds
    BY <2>1, Scheduled, EventTypes
  <2>4. FreshOrDone(activity.tr) /\ Possible(activity.tr.id)
    BY <2>1 DEF Identities
  <2>5. PICK t : t = activity.tr
    OBVIOUS
  <2>6. Possible(t.id)'
    BY <2>3, <2>4, <2>5, PossibleStays
  <2> QED BY <2>1, <2>2, <2>3, <2>4, <2>5, <2>6, IdentitiesCommitted
<1>8. ASSUME NEW tr \in late PROVE FALSE
  BY DEF InStep
<1>9. CASE WorkflowStep
  <2>1. UNCHANGED <<rowVars, ledger>> /\ FlowTypes /\ FlowKnows
    BY <1>9 DEF SInv, WorkflowStep, RoundStarts, BootstrapEnds, TakeControl, ControlEnds,
                DeadLetterStarts, WorkflowFails
  <2>2. CASE RoundStarts
    <3>1. PICK t : t = StartRound(initiator)
      OBVIOUS
    <3>2. Sendable(t) /\ Schedule(t) /\ t.id.type = "ROUND_STARTED"
      BY <2>1, <2>2, <3>1, BootstrapSendable DEF RoundStarts, FlowKnows, StartRound, Command
    <3>3. ~Possible(t.id) /\ Possible(t.id)'
      BY <2>2, <3>2 DEF RoundStarts, Possible
    <3> QED BY <2>1, <3>2, <3>3, IdentitiesScheduled
  <2>3. CASE BootstrapEnds \/ ControlEnds \/ WorkflowFails
    BY <2>1, <2>3, IdentitiesRest DEF BootstrapEnds, ControlEnds, WorkflowFails, NoActivity
  <2>4. CASE TakeControl
    <3> DEFINE cmd == Head(pending)
    <3>1. CASE cmd.id \in processed \/ ~Interpretable(KindOf[cmd.id], wfState, wfRound)
      BY <2>1, <2>4, <3>1, IdentitiesRest DEF TakeControl
    <3>2. CASE cmd.id \notin processed /\ Interpretable(KindOf[cmd.id], wfState, wfRound)
      <4>1. cmd \in QueuedCommand /\ wfState # "DRAFT"
        BY <2>1, <2>4, HeadTailProperties DEF TakeControl, FlowTypes, FlowKnows
      <4>2. PICK t : t = Interpret(cmd)
        OBVIOUS
      <4>3. /\ Schedule(t) /\ current' = cmd /\ pc = "parked" /\ pc' = "controlling"
            /\ t.id.type = "SESSION_CONTROL" /\ t.id.of = cmd.id
        BY <2>4, <3>2, <4>2 DEF TakeControl, Interpret, Command
      <4>4. Sendable(t)
        BY <2>1, <3>2, <4>1, <4>2, ControlSendable
      <4>5. ~Possible(t.id) /\ Possible(t.id)'
        BY <3>2, <4>3 DEF Possible
      <4> QED BY <2>1, <4>3, <4>4, <4>5, IdentitiesScheduled
    <3> QED BY <3>1, <3>2
  <2>5. CASE DeadLetterStarts
    <3>1. PICK t : t = DeadLetter
      OBVIOUS
    <3>2. /\ Sendable(t) /\ Schedule(t)
          /\ t.id.type \in {"BOOTSTRAP_DEAD_LETTERED", "CONTROL_DEAD_LETTERED"}
      BY <2>1, <2>5, <3>1, DeadLetterSendable
         DEF DeadLetterStarts, FlowKnows, DeadLetter, Command
    <3>3. ~Possible(t.id) /\ Possible(t.id)'
      BY <2>5, <3>2 DEF DeadLetterStarts, Possible
    <3> QED BY <2>1, <3>2, <3>3, IdentitiesScheduled
  <2> QED BY <1>9, <2>2, <2>3, <2>4, <2>5 DEF WorkflowStep
<1> QED BY <1>1, <1>2, <1>3, <1>4, <1>5, <1>6, <1>7, <1>8, <1>9
        DEF Next, AttemptEnds, Fault

(* As long as no timed-out attempt is still running, the store, the workflow *)
(* and the requests implement the abstract ledger: every change of the row   *)
(* is one new, legal lifecycle event, and the row is the replay of them all. *)
THEOREM SessionRefinesLedger ==
  ASSUME LateAttempts = FALSE
  PROVE  Spec => LifecycleRefined
<1>1. Init => Lifecycle!Init /\ Identities
  BY DEF Init, Lifecycle!Init, Identities, Recorded, NoActivity
<1>2. SInv /\ InStep /\ Identities /\ [Next]_vars
        => Identities' /\ [Lifecycle!Next]_(Lifecycle!vars)
  BY IdentitiesKept
<1> QED BY <1>1, <1>2, SInvariant, InStepInvariant, PTL
        DEF Spec, LifecycleRefined, Lifecycle!Spec
=============================================================================
