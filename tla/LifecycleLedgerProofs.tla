------------------------ MODULE LifecycleLedgerProofs ------------------------
(***************************************************************************)
(* Proofs about the lifecycle graph and the projection of the ledger, for  *)
(* any set of event identities and any number of rounds and events.        *)
(***************************************************************************)
EXTENDS LifecycleLedger, SequenceTheorems, TLAPS

(* No transition leaves a terminal state, and none leads back to DRAFT. *)
LEMMA TransitionEnds ==
  ASSUME NEW s \in SessionLifecycleState, NEW t \in Transitions(s)
  PROVE  s \notin TerminalSessionStates /\ t # "DRAFT"
BY DEF Transitions, SessionLifecycleState, Waiting, TerminalSessionStates

(* A control request the API accepts in a state of the session can be        *)
(* interpreted by the workflow in that state (validate_control_request and   *)
(* control_transition agree on all seventeen states).                        *)
LEMMA AcceptanceImpliesInterpretation ==
  ASSUME NEW s \in SessionLifecycleState, NEW kind \in SessionControlKind, NEW r \in Nat,
         AcceptsControl(kind, s, r, TRUE)
  PROVE  Interpretable(kind, s, r)
<1>1. CASE kind = "HUMAN_INPUT" /\ s = "WAITING_FOR_HUMAN"
  BY <1>1 DEF AcceptsControl, Interpretable, ControlTarget, ValidSessionTransition,
              Transitions, Waiting, SessionLifecycleState
<1>2. CASE kind = "HUMAN_INPUT" /\ s # "WAITING_FOR_HUMAN"
  BY <1>2 DEF AcceptsControl, Interpretable, ControlTarget, ValidSessionTransition
<1>3. CASE kind # "HUMAN_INPUT"
  BY <1>3 DEF AcceptsControl, Interpretable, SessionControlKind
<1> QED BY <1>1, <1>2, <1>3

(* The constraint on started_at allows an INITIALIZING row without it, from   *)
(* which FAILED would break it; the store never writes such a row.           *)
StampedTogether == state # "DRAFT" => {"initialized_at", "started_at"} \subseteq stamps

(* The inductive invariant: the row is the last event's, the events form a   *)
(* path of the graph, and the table's constraints hold.                      *)
Inv == TypeOK /\ ProjectionOfLedger /\ LedgerIsAPath /\ RowConstraints /\ StampedTogether

LEMMA InitInv == Init => Inv
BY NoEventAssumption
   DEF Init, Inv, TypeOK, ProjectionOfLedger, LedgerIsAPath, RowConstraints, StampedTogether,
       SessionLifecycleState, TerminalSessionStates, Stamps, Waiting

(* One committed transition keeps the invariant. *)
LEMMA NextInv == Inv /\ Next => Inv'
<1> SUFFICES ASSUME Inv, Next PROVE Inv'
  OBVIOUS
<1>1. PICK target \in SessionLifecycleState, nextRound \in {round, round + 1},
           id \in EventIds, payload \in Payloads :
             Commit(id, target, nextRound, state # "DRAFT", payload)
  BY DEF Next
<1> DEFINE e == [id |-> id, from |-> state, to |-> target, round |-> nextRound,
                 payload |-> payload]
<1>2. /\ state \in SessionLifecycleState /\ state \notin TerminalSessionStates
      /\ round \in Nat /\ nextRound \in Nat /\ ledger \in Seq(LedgerEvents)
      /\ stamps \subseteq Stamps
  BY DEF Inv, TypeOK, Next
<1>3. /\ ValidSessionTransition(state, target, round, nextRound, state # "DRAFT")
      /\ ledger' = Append(ledger, e) /\ ~Appended(id)
      /\ state' = target /\ round' = nextRound /\ lastEvent' = id
      /\ stamps' = NextStamps(stamps, state, target)
  BY <1>1 DEF Commit
<1>4. e \in LedgerEvents
  BY <1>2 DEF LedgerEvents
<1>5. /\ ledger' \in Seq(LedgerEvents) /\ Len(ledger') = Len(ledger) + 1
      /\ DOMAIN ledger' = 1..(Len(ledger) + 1) /\ ledger'[Len(ledger) + 1] = e
      /\ \A i \in 1..Len(ledger) : ledger'[i] = ledger[i]
  BY <1>2, <1>3, <1>4
<1>6. /\ target # "DRAFT"
      /\ state = target \/ target \in Transitions(state)
  BY <1>2, <1>3, TransitionEnds DEF ValidSessionTransition
<1>7. TypeOK'
  BY <1>2, <1>3, <1>5 DEF TypeOK, NextStamps, Stamps
<1>8. ProjectionOfLedger'
  BY <1>2, <1>3, <1>5 DEF ProjectionOfLedger
<1>9. RowConstraints' /\ StampedTogether'
  <2>1. RowConstraints /\ StampedTogether
    BY DEF Inv
  <2>2. {"initialized_at", "started_at"} \subseteq stamps'
    BY <1>3, <2>1 DEF StampedTogether, NextStamps
  <2>3. (target \in TerminalSessionStates) <=> ("ended_at" \in stamps')
    BY <1>2, <1>3, <2>1 DEF RowConstraints, NextStamps
  <2>4. id # NoEvent
    BY NoEventAssumption
  <2> QED BY <1>3, <1>6, <2>2, <2>3, <2>4 DEF RowConstraints, StampedTogether
<1>10. LedgerIsAPath'
  <2>1. LedgerIsAPath /\ ProjectionOfLedger
    BY DEF Inv
  <2> DEFINE n == Len(ledger) + 1
             From(l, i) == IF i = 1 THEN "DRAFT" ELSE l[i - 1].to
             Before(l, i) == IF i = 1 THEN 0 ELSE l[i - 1].round
  <2>2. n \in Nat /\ n >= 1 /\ DOMAIN ledger = 1..Len(ledger) /\ Len(ledger) \in Nat
    BY <1>2
  <2>3. From(ledger', n) = state /\ Before(ledger', n) = round
    <3>1. CASE ledger = <<>>
      BY <3>1, <2>1, <2>2 DEF ProjectionOfLedger
    <3>2. CASE ledger # <<>>
      <4>1. Len(ledger) >= 1 /\ n # 1 /\ n - 1 = Len(ledger)
        BY <3>2, <1>2
      <4> QED BY <3>2, <4>1, <2>1, <2>2, <1>5 DEF ProjectionOfLedger
    <3> QED BY <3>1, <3>2
  <2>4. \A j \in 1..Len(ledger) : ledger[j].id # id
    BY <1>3, <2>2 DEF Appended
  <2>5. ValidSessionTransition(state, target, round, nextRound, TRUE)
    BY <1>3 DEF ValidSessionTransition
  <2>6. \A i \in 1..Len(ledger) :
          /\ From(ledger', i) = From(ledger, i) /\ Before(ledger', i) = Before(ledger, i)
          /\ ledger'[i] = ledger[i]
    BY <1>5, <2>2
  <2>7. ASSUME NEW i \in DOMAIN ledger'
        PROVE /\ ledger'[i].from = From(ledger', i)
              /\ From(ledger', i) \notin TerminalSessionStates
              /\ ValidSessionTransition(From(ledger', i), ledger'[i].to, Before(ledger', i),
                                        ledger'[i].round, TRUE)
              /\ \A j \in DOMAIN ledger' : ledger'[i].id = ledger'[j].id => i = j
    <3>1. CASE i = n
      <4>1. /\ ledger'[i] = e /\ From(ledger', i) = state /\ Before(ledger', i) = round
            /\ e.from = state /\ e.to = target /\ e.round = nextRound /\ e.id = id
        BY <3>1, <1>5, <2>3
      <4>2. \A j \in DOMAIN ledger' : e.id = ledger'[j].id => i = j
        BY <3>1, <4>1, <1>5, <2>2, <2>4
      <4> HIDE DEF From, Before, e
      <4> QED BY <4>1, <4>2, <1>2, <2>5
    <3>2. CASE i # n
      <4>1. i \in 1..Len(ledger)
        BY <3>2, <1>5, <2>2
      <4>2. /\ ledger[i].from = From(ledger, i)
            /\ From(ledger, i) \notin TerminalSessionStates
            /\ ValidSessionTransition(From(ledger, i), ledger[i].to, Before(ledger, i),
                                      ledger[i].round, TRUE)
            /\ \A j \in DOMAIN ledger : ledger[i].id = ledger[j].id => i = j
        BY <4>1, <2>1, <2>2 DEF LedgerIsAPath
      <4>3. \A j \in DOMAIN ledger' : ledger'[i].id = ledger'[j].id => i = j
        BY <4>1, <4>2, <2>2, <2>4, <1>5
      <4> QED BY <4>1, <4>2, <4>3, <2>6
    <3> QED BY <3>1, <3>2
  <2> QED BY <2>7 DEF LedgerIsAPath
<1> QED BY <1>7, <1>8, <1>9, <1>10 DEF Inv

(* Every state of the lifecycle projection is well formed, is the replay of  *)
(* its ledger, has a legal history, and satisfies the table's CHECKs.        *)
THEOREM LifecycleSafety == Spec => [](TypeOK /\ ProjectionOfLedger /\ LedgerIsAPath /\ RowConstraints)
<1>1. Inv /\ UNCHANGED vars => Inv'
  BY DEF Inv, TypeOK, ProjectionOfLedger, LedgerIsAPath, RowConstraints, StampedTogether, vars, row
<1>2. Spec => []Inv
  BY <1>1, InitInv, NextInv, PTL DEF Spec
<1> QED BY <1>2, PTL DEF Inv

(* The table's CHECK constraints hold in every reachable state of the graph. *)
THEOREM ConstraintsNeverFail == Spec => []RowConstraints
BY LifecycleSafety, PTL

(* In every state of the lifecycle the workflow can interpret whatever the   *)
(* API accepts in that state.                                                *)
THEOREM ControlsAgree == Spec => []AcceptedIsInterpretable
<1>1. TypeOK => AcceptedIsInterpretable
  BY AcceptanceImpliesInterpretation DEF TypeOK, AcceptedIsInterpretable
<1> QED BY <1>1, LifecycleSafety, PTL
=============================================================================
