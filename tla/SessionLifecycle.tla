-------------------------- MODULE SessionLifecycle --------------------------
(***************************************************************************)
(* The coordinator state graph of a reasoning session and the two readings *)
(* of a human control command: the one the API makes of the authoritative  *)
(* projection before it signals the workflow, and the one the workflow     *)
(* makes of its own history when it takes the command from its queue.      *)
(*                                                                         *)
(* Sources: backend/app/domain/session_lifecycle.py,                       *)
(* backend/app/domain/session_control.py,                                  *)
(* backend/app/application/session_control.py.                             *)
(***************************************************************************)
EXTENDS Naturals

Waiting == {"WAITING_FOR_AGENT", "WAITING_FOR_EVIDENCE",
            "WAITING_FOR_CRITIQUE", "WAITING_FOR_SIMULATION"}

TerminalSessionStates == {"COMPLETED", "PARTIAL_CONSENSUS_STATE", "NO_CONSENSUS",
                          "DEADLOCK", "FAILED", "CANCELLED"}

SessionLifecycleState ==
  {"DRAFT", "INITIALIZING", "RUNNING", "WAITING_FOR_HUMAN", "EVALUATING_CONSENSUS",
   "PAUSED", "FAILED_RETRYABLE"} \cup Waiting \cup TerminalSessionStates

(* The successors of a state; a state the table does not name has none. *)
Transitions(s) ==
  CASE s = "DRAFT" -> {"INITIALIZING", "FAILED"}
    [] s = "INITIALIZING" \/ s \in Waiting -> {"RUNNING", "FAILED_RETRYABLE", "FAILED", "CANCELLED"}
    [] s = "RUNNING" -> Waiting \cup {"WAITING_FOR_HUMAN", "EVALUATING_CONSENSUS", "PAUSED",
                                     "FAILED_RETRYABLE", "FAILED", "CANCELLED"}
    [] s = "WAITING_FOR_HUMAN" -> {"RUNNING", "PAUSED", "FAILED", "CANCELLED"}
    [] s = "EVALUATING_CONSENSUS" -> {"RUNNING"} \cup TerminalSessionStates
    [] s \in {"PAUSED", "FAILED_RETRYABLE"} -> {"RUNNING", "FAILED", "CANCELLED"}
    [] OTHER -> {}

(* TRUE when validate_session_transition returns without raising. *)
ValidSessionTransition(source, target, currentRound, nextRound, allowSameState) ==
  IF source = target
  THEN allowSameState /\ nextRound = currentRound
  ELSE /\ target \in Transitions(source)
       /\ nextRound \in {currentRound, currentRound + 1}
       /\ nextRound # currentRound => target = "RUNNING"

SessionControlKind == {"PAUSE", "RESUME", "CANCEL", "HUMAN_INPUT"}

(* The state a command asks for when it is read in state s. *)
ControlTarget(kind, s) ==
  IF kind = "PAUSE" THEN "PAUSED"
  ELSE IF kind = "RESUME" THEN "RUNNING"
  ELSE IF kind = "CANCEL" THEN "CANCELLED"
  ELSE IF s = "WAITING_FOR_HUMAN" THEN "RUNNING" ELSE s

(* Mutant: same-state events are not allowed for human input. *)
NoSameState(kind, s, round) ==
  /\ s \notin TerminalSessionStates
  /\ ValidSessionTransition(s, ControlTarget(kind, s), round, round, FALSE)

(* Mutant: a paused session takes nothing but RESUME. *)
OnlyResumeWhenPaused(kind, s, round) ==
  /\ s \notin TerminalSessionStates
  /\ s = "PAUSED" => kind = "RESUME"
  /\ ValidSessionTransition(s, ControlTarget(kind, s), round, round, kind = "HUMAN_INPUT")

(* TRUE when control_transition returns a transition: the workflow can      *)
(* interpret the command in state s.                                        *)
Interpretable(kind, s, round) ==
  /\ s \notin TerminalSessionStates
  /\ ValidSessionTransition(s, ControlTarget(kind, s), round, round, kind = "HUMAN_INPUT")

(* TRUE when validate_control_request lets the API signal the workflow. *)
AcceptsControl(kind, s, round, attached) ==
  /\ attached
  /\ s \notin TerminalSessionStates
  /\ IF kind = "HUMAN_INPUT"
     THEN s \in {"RUNNING", "WAITING_FOR_HUMAN", "PAUSED"}
     ELSE ValidSessionTransition(s, ControlTarget(kind, s), round, round, FALSE)

(* The timestamp columns of the projection that are set (not NULL). *)
Stamps == {"initialized_at", "started_at", "ended_at"}

(* Mutant: started_at is set on entering RUNNING only. *)
StartedWhenRunning(stamps, source, target) ==
  stamps \cup (IF source = "DRAFT" THEN {"initialized_at"} ELSE {})
         \cup (IF target = "RUNNING" THEN {"started_at"} ELSE {})
         \cup (IF target \in TerminalSessionStates THEN {"ended_at"} ELSE {})

(* The columns set after a transition from source to target. *)
NextStamps(stamps, source, target) ==
  stamps \cup (IF source = "DRAFT" THEN {"initialized_at", "started_at"} ELSE {})
         \cup (IF target = "RUNNING" THEN {"started_at"} ELSE {})
         \cup (IF target \in TerminalSessionStates THEN {"ended_at"} ELSE {})
=============================================================================
