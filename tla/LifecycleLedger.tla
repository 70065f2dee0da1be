-------------------------- MODULE LifecycleLedger --------------------------
(***************************************************************************)
(* What the session projection promises, whoever writes it: the lifecycle  *)
(* row is the result of replaying the session's lifecycle events, every    *)
(* event is a legal step of the state graph recorded exactly once, and an  *)
(* ended session never moves again.  SessionControl implements it.         *)
(*                                                                         *)
(* Sources: backend/app/db/session_lifecycle.py,                           *)
(* backend/app/db/models/session_lifecycle.py.                             *)
(***************************************************************************)
EXTENDS SessionLifecycle, Sequences, FiniteSets

CONSTANTS EventIds,   \* identities an event can carry
          Payloads,   \* what else an event records
          NoEvent     \* last_event_id of a draft (NULL)

ASSUME NoEventAssumption == NoEvent \notin EventIds

VARIABLES state, round, lastEvent, stamps,  \* the session_lifecycles row
          ledger                            \* the session's lifecycle events

row == <<state, round, lastEvent, stamps>>
vars == <<row, ledger>>

LedgerEvents == [id : EventIds, from : SessionLifecycleState, to : SessionLifecycleState,
                 round : Nat, payload : Payloads]

Appended(id) == \E i \in DOMAIN ledger : ledger[i].id = id

(* add_draft *)
Init ==
  /\ state = "DRAFT" /\ round = 0 /\ lastEvent = NoEvent /\ stamps = {}
  /\ ledger = <<>>

(* One transition: the event and the row it leads to, together. *)
Commit(id, target, nextRound, same, payload) ==
  /\ state' = target
  /\ round' = nextRound
  /\ lastEvent' = id
  /\ ValidSessionTransition(state, target, round, nextRound, same)
  /\ stamps' = NextStamps(stamps, state, target)
  /\ ~Appended(id)
  /\ ledger' = Append(ledger, [id |-> id, from |-> state, to |-> target,
                               round |-> nextRound, payload |-> payload])

(* A terminal state takes no event, not even one that would keep the state  *)
(* (control_transition); a draft takes none that would leave it a draft (the *)
(* transition_event CHECK).                                                  *)
Next ==
  /\ state \notin TerminalSessionStates
  /\ \E target \in SessionLifecycleState, nextRound \in {round, round + 1},
        id \in EventIds, payload \in Payloads :
       Commit(id, target, nextRound, state # "DRAFT", payload)

Spec == Init /\ [][Next]_vars
-----------------------------------------------------------------------------
(* The types of the row and the ledger. *)
TypeOK ==
  /\ state \in SessionLifecycleState
  /\ round \in Nat
  /\ lastEvent \in EventIds \cup {NoEvent}
  /\ stamps \subseteq Stamps
  /\ ledger \in Seq(LedgerEvents)

(* The row is what the last event says: replaying the ledger gives the      *)
(* projection the API serves.                                               *)
ProjectionOfLedger ==
  IF ledger = <<>>
  THEN state = "DRAFT" /\ round = 0 /\ lastEvent = NoEvent
  ELSE LET e == ledger[Len(ledger)]
       IN state = e.to /\ round = e.round /\ lastEvent = e.id

(* Each event starts where the one before it ended, is recorded once, and   *)
(* the round rises by one exactly where RUNNING is entered for a new round. *)
LedgerIsAPath ==
  \A i \in DOMAIN ledger :
    LET from == IF i = 1 THEN "DRAFT" ELSE ledger[i - 1].to
        before == IF i = 1 THEN 0 ELSE ledger[i - 1].round
    IN /\ ledger[i].from = from
       /\ from \notin TerminalSessionStates
       /\ ValidSessionTransition(from, ledger[i].to, before, ledger[i].round, TRUE)
       /\ \A j \in DOMAIN ledger : ledger[i].id = ledger[j].id => i = j

(* The CHECK constraints of the session_lifecycles table hold after every    *)
(* transition of the graph: none of them makes a legal transition fail.      *)
RowConstraints ==
  /\ (state = "DRAFT") <=> (lastEvent = NoEvent)
  /\ state = "DRAFT" \/ "initialized_at" \in stamps
  /\ state \in {"DRAFT", "INITIALIZING"} \/ "started_at" \in stamps
  /\ (state \in TerminalSessionStates) <=> ("ended_at" \in stamps)

(* The API and the workflow agree: a control request the API accepts in some *)
(* state of the session is one the workflow can interpret in that state.     *)
AcceptedIsInterpretable ==
  \A kind \in SessionControlKind :
    AcceptsControl(kind, state, round, TRUE) => Interpretable(kind, state, round)
=============================================================================
