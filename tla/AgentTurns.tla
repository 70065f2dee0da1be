----------------------------- MODULE AgentTurns -----------------------------
(***************************************************************************)
(* Who takes part in a session, and what its turns cost: versioned agent   *)
(* definitions, the membership of each round (the agents bound with the    *)
(* session and the interventions replayed over them), the budget checked   *)
(* around every batch of turns, and the activity that calls the provider   *)
(* and records the call under the turn's own identity.                     *)
(*                                                                         *)
(* An intervention's transaction is two steps, its checks and its writes;  *)
(* in between it holds an advisory lock of the session, the lifecycle row  *)
(* and the definition's row.                                               *)
(*                                                                         *)
(* Sources: backend/app/application/coordinator_policy.py, llm.py,         *)
(* agent_activity.py, agent_dispatch.py, reasoning_context.py,             *)
(* db/coordinator_policy.py, db/agent_registry.py, migrations 0004, 0018.  *)
(***************************************************************************)
EXTENDS Integers, FiniteSets, SequencesExt, FiniteSetsExt

CONSTANTS
  Agents,          \* identities of agent definitions
  LogicalOf,       \* [Agents -> logical agent]
  VersionOf,       \* [Agents -> version]
  BoundAgents,     \* sequence: the agents bound with the session
  Interventions,   \* requests: [event, kind, replaced, agent, round]
  LastRound,       \* bound: rounds of the session
  MaxAttempts,     \* attempts of an activity
  Answers,         \* provider answers: [tokens, latency]
  SessionCeiling,  \* budget_tokens of the session
  AgentCeiling     \* [Agents -> max_tokens, 0 when the definition has no budget]

(* MembershipSnapshot: not empty, one version of a logical agent. *)
OneVersionEach(members) ==
  /\ members # <<>>
  /\ \A i, j \in 1..Len(members) : LogicalOf[members[i]] = LogicalOf[members[j]] => i = j

(* DraftSessionBinding.complete_affine_binding; "none" is no identity. *)
ASSUME BindingIsAffine ==
  "none" \notin Agents /\ BoundAgents \in Seq(Agents) /\ OneVersionEach(BoundAgents)

(* A request names an agent and a round, an answer the usage it reports. *)
ASSUME RequestsAndAnswers ==
  /\ \A r \in Interventions : r.agent \in Agents /\ r.round \in Nat
  /\ Answers \subseteq [tokens : Nat, latency : Nat]

ASSUME AgentsAreVersioned ==
  /\ \A a \in Agents : VersionOf[a] \in Nat \ {0} /\ AgentCeiling[a] \in Nat
  /\ SessionCeiling \in Nat \ {0} /\ LastRound \in Nat /\ MaxAttempts \in Nat \ {0}
  /\ \A a, b \in Agents : LogicalOf[a] = LogicalOf[b] /\ VersionOf[a] = VersionOf[b] => a = b

VARIABLES
  registry,   \* definitions: [existing agents -> [status, successor, referenced]]
  session,    \* [round, state]: the lifecycle row
  applied,    \* interventions in the order of their ledger events
  applying,   \* interventions between their checks and their writes
  turn,       \* [logical turns -> [phase, attempt, response]]
  batch,      \* the turns of the dispatch under way
  records,    \* llm_call_records: [recorded turns -> response]
  used        \* [rounds -> the membership their turns were pinned from]

turnVars == <<registry, session, applied, applying, turn, batch, records, used>>

AgentRounds == 1..LastRound
LogicalTurns == Agents \X AgentRounds
NoResponse == [tokens |-> 0, latency |-> 0]

(* The rows of agent_definitions and llm_call_records, and a turn. *)
AgentDefinitionRows ==
  [status : {"DRAFT", "ACTIVE", "DEPRECATED"}, successor : Agents \cup {"none"}, referenced : BOOLEAN]
CallRecordRows == [tokens : Nat, latency : Nat]
DispatchOutcomes == {"completed", "timeout", "failed", "conflict"}
AgentTurnInputs ==
  [phase : {"none", "pinned", "running", "answered", "recorded"} \cup DispatchOutcomes,
   attempt : 0..MaxAttempts, response : CallRecordRows]
-----------------------------------------------------------------------------
(* The registry. *)

AgentRow(status) == [status |-> status, successor |-> "none", referenced |-> FALSE]

(* Row constraints: one row per identity and per version of a logical agent. *)
DefinitionInsertable(a) ==
  /\ a \notin DOMAIN registry
  /\ \A b \in DOMAIN registry : <<LogicalOf[b], VersionOf[b]>> # <<LogicalOf[a], VersionOf[a]>>

Registered(rows, a, row) == [b \in DOMAIN rows \cup {a} |-> IF b = a THEN row ELSE rows[b]]

AddDefinition(a, status) ==
  /\ DefinitionInsertable(a)
  /\ registry' = Registered(registry, a, AgentRow(status))
  /\ UNCHANGED <<session, applied, applying, turn, batch, records, used>>

(* enforce_agent_definition_immutability: a referenced row keeps the         *)
(* successor it has.                                                         *)
SuccessorSettable(a) == ~registry[a].referenced \/ registry[a].successor = "none"

(* Locks: a definition being pinned waits for the intervention. *)
DefinitionLocked(a) == \E r \in applying : r.agent = a

AddDefinitionVersion(previous, a, status) ==
  /\ previous \in DOMAIN registry /\ DefinitionInsertable(a)
  /\ LogicalOf[a] = LogicalOf[previous] /\ VersionOf[a] = VersionOf[previous] + 1
  /\ SuccessorSettable(previous) /\ ~DefinitionLocked(previous)
  /\ registry' = [Registered(registry, a, AgentRow(status)) EXCEPT
                    ![previous].successor = a, ![previous].status = "DEPRECATED"]
  /\ UNCHANGED <<session, applied, applying, turn, batch, records, used>>
-----------------------------------------------------------------------------
(* Membership. *)

(* membership, one intervention: it is added to the members or takes the     *)
(* place of one.  The replay raises when that one is not there, and yields   *)
(* no members.                                                               *)
Intervened(members, r) ==
  IF members = <<>> THEN <<>>
  ELSE IF r.kind = "INJECT" THEN Append(members, r.agent)
  ELSE IF r.replaced \notin ToSet(members) THEN <<>>
  ELSE LET first == CHOOSE i \in 1..Len(members) :
                      members[i] = r.replaced /\ \A j \in 1..(i - 1) : members[j] # r.replaced
       IN [members EXCEPT ![first] = r.agent]

(* The interventions of one round, in the order of the ledger. *)
RoundReplayed(members, history, round) ==
  LET after[i \in 0..Len(history)] ==
        IF i = 0 THEN members
        ELSE IF history[i].round = round THEN Intervened(after[i - 1], history[i])
        ELSE after[i - 1]
  IN after[Len(history)]

(* membership(round): the interventions effective by then, over the bound    *)
(* agents, by effective round and ledger position.                           *)
Replayed(history, round) ==
  LET after[k \in 0..round] ==
        IF k = 0 THEN BoundAgents ELSE RoundReplayed(after[k - 1], history, k)
  IN after[round]

(* replacement_shape, and the CHECK constraints of the table. *)
InterventionShape(r) ==
  /\ r.kind \in {"REPLACE", "INJECT"} /\ r.round >= 1
  /\ (r.kind = "REPLACE") = (r.replaced # "none") /\ r.replaced # r.agent

ExpectedRound(round) == IF round = 0 THEN 1 ELSE round + 1

(* The rows of session_agent_interventions. *)
InterventionRows == {r \in Interventions : InterventionShape(r)}

InterventionSeen(r) == \E i \in 1..Len(applied) : applied[i].event = r.event

(* Mutant: nothing serializes two interventions. *)
NoMembershipLock == TRUE

(* lock_membership: an advisory lock and the lifecycle row, FOR UPDATE. *)
MembershipUnlocked == applying = {}

Ended == session.state # "RUNNING"

(* apply, as far as its checks: an event seen before changes nothing. *)
CheckIntervention(r) ==
  /\ MembershipUnlocked /\ r \notin applying /\ ~InterventionSeen(r) /\ ~Ended /\ InterventionShape(r)
  /\ r.round = ExpectedRound(session.round)
  /\ r.kind = "REPLACE" => session.round = 0
  /\ r.kind = "INJECT" => session.round > 0
  /\ r.agent \in DOMAIN registry /\ registry[r.agent].status = "ACTIVE"
  /\ LET members == Replayed(applied, r.round)
     IN /\ OneVersionEach(members)
        /\ r.kind = "REPLACE" => r.replaced \in ToSet(members)
        /\ LogicalOf[r.agent] \notin {LogicalOf[m] : m \in ToSet(members) \ {r.replaced}}
  /\ applying' = applying \cup {r}
  /\ UNCHANGED <<registry, session, applied, turn, batch, records, used>>

(* apply, its event and its row: the definition is frozen from now on. *)
WriteIntervention(r) ==
  /\ r \in applying
  /\ applied' = Append(applied, r)
  /\ registry' = [registry EXCEPT ![r.agent].referenced = TRUE]
  /\ applying' = applying \ {r}
  /\ UNCHANGED <<session, turn, batch, records, used>>

(* A failure rolls the transaction back. *)
AbortIntervention(r) ==
  /\ r \in applying /\ applying' = applying \ {r}
  /\ UNCHANGED <<registry, session, applied, turn, batch, records, used>>

(* transition: the next round, between two batches, or the end. *)
AdvanceRound ==
  /\ ~Ended /\ MembershipUnlocked /\ session.round < LastRound /\ batch = {}
  /\ session' = [session EXCEPT !.round = @ + 1]
  /\ UNCHANGED <<registry, applied, applying, turn, batch, records, used>>

EndSession ==
  /\ ~Ended /\ MembershipUnlocked
  /\ session' = [session EXCEPT !.state = "CANCELLED"]
  /\ UNCHANGED <<registry, applied, applying, turn, batch, records, used>>
-----------------------------------------------------------------------------
(* Turns. *)

Runnable(a) == a \in DOMAIN registry /\ registry[a].status \notin {"DRAFT", "WITHDRAWN"}

(* assemble: the turn of an agent that is effective in this round. *)
PinTurn(a) ==
  LET round == session.round
      members == Replayed(applied, round)
  IN /\ ~Ended /\ round >= 1 /\ turn[<<a, round>>].phase = "none"
     /\ OneVersionEach(members) /\ a \in ToSet(members) /\ Runnable(a)
     /\ turn' = [turn EXCEPT ![<<a, round>>].phase = "pinned"]
     /\ used' = [used EXCEPT ![round] = IF @ = <<>> THEN members ELSE @]
     /\ UNCHANGED <<registry, session, applied, applying, batch, records>>

Spent(turns) == MapThenSumSet(LAMBDA t : records[t].tokens, turns)
SessionUsage == Spent(DOMAIN records)
AgentUsage(a) == Spent({t \in DOMAIN records : t[1] = a})

(* _breach: the session's ceiling, then each agent's. *)
Breached(agents) ==
  \/ SessionUsage >= SessionCeiling
  \/ \E a \in agents : AgentCeiling[a] > 0 /\ AgentUsage(a) >= AgentCeiling[a]

AgentsOf(turns) == {t[1] : t \in turns}

(* The budget fails the session, and the caller is told by an exception. *)
FailByBudget == session' = [session EXCEPT !.state = "BUDGET_EXHAUSTED"]

(* dispatch, before the batch: one turn of every agent of one round. *)
StartBatch(turns) ==
  /\ batch = {} /\ turns # {} /\ ~Ended /\ MembershipUnlocked
  /\ \A t \in turns : t[2] = session.round /\ turn[t].phase = "pinned"
  /\ IF Breached(AgentsOf(turns)) THEN FailByBudget /\ UNCHANGED <<turn, batch>>
     ELSE /\ batch' = turns
          /\ turn' = [t \in LogicalTurns |-> IF t \in turns
                        THEN [turn[t] EXCEPT !.phase = "running", !.attempt = 1] ELSE turn[t]]
          /\ UNCHANGED session
  /\ UNCHANGED <<registry, applied, applying, records, used>>

BatchDone == \A t \in batch : turn[t].phase \in DispatchOutcomes

(* dispatch, after the batch: a failed turn raises before the second check. *)
FinishBatch ==
  /\ batch # {} /\ BatchDone /\ MembershipUnlocked
  /\ batch' = {}
  /\ IF (\A t \in batch : turn[t].phase \notin {"failed", "conflict"}) /\ ~Ended /\ Breached(AgentsOf(batch))
     THEN FailByBudget ELSE UNCHANGED session
  /\ UNCHANGED <<registry, applied, applying, turn, records, used>>

SetTurn(t, phase) == turn' = [turn EXCEPT ![t].phase = phase]

(* AgentTurnRunner.run, before the call: the pinned definition must still be *)
(* runnable, with its configuration and its sealed prompt; or after it: an   *)
(* answer no repair makes fit fails for good, and is not recorded.           *)
RejectTurn(t) ==
  /\ turn[t].phase = "running" /\ SetTurn(t, "failed")
  /\ UNCHANGED <<registry, session, applied, applying, batch, records, used>>

(* generate: the answer, with the usage of its repairs. *)
ProviderAnswers(t) ==
  /\ turn[t].phase = "running" /\ Runnable(t[1])
  /\ \E answer \in Answers :
       turn' = [turn EXCEPT ![t].phase = "answered", ![t].response = answer]
  /\ UNCHANGED <<registry, session, applied, applying, batch, records, used>>

(* _same_call_record: everything but the time it was written. *)
SameCall(left, right) == left = right

(* add_call_record, on conflict do nothing: the row that is there must be    *)
(* the same call.                                                            *)
RecordCall(t) ==
  /\ turn[t].phase = "answered"
  /\ IF t \notin DOMAIN records
     THEN /\ records' = [u \in DOMAIN records \cup {t} |->
                           IF u = t THEN turn[t].response ELSE records[u]]
          /\ SetTurn(t, "recorded")
     ELSE /\ SetTurn(t, IF SameCall(records[t], turn[t].response) THEN "recorded" ELSE "conflict")
          /\ UNCHANGED records
  /\ UNCHANGED <<registry, session, applied, applying, batch, used>>

(* The result reaches the dispatcher, in time or not. *)
ReturnTurn(t) ==
  /\ turn[t].phase = "recorded" /\ SetTurn(t, "completed")
  /\ UNCHANGED <<registry, session, applied, applying, batch, records, used>>
TimeoutTurn(t) ==
  /\ turn[t].phase \in {"running", "answered", "recorded"} /\ SetTurn(t, "timeout")
  /\ UNCHANGED <<registry, session, applied, applying, batch, records, used>>

(* A worker dies, or the provider fails transiently: the activity runs again *)
(* with the same turn, up to its attempts.                                   *)
RetryTurn(t) ==
  /\ turn[t].phase \in {"running", "answered", "recorded"}
  /\ turn' = [turn EXCEPT ![t] =
       IF @.attempt < MaxAttempts
       THEN [phase |-> "running", attempt |-> @.attempt + 1, response |-> NoResponse]
       ELSE [@ EXCEPT !.phase = "failed"]]
  /\ UNCHANGED <<registry, session, applied, applying, batch, records, used>>

(* The bound agents are referenced by the session (trigger on session_agents)*)
TurnsInit ==
  /\ registry = [a \in ToSet(BoundAgents) |-> [AgentRow("ACTIVE") EXCEPT !.referenced = TRUE]]
  /\ session = [round |-> 0, state |-> "RUNNING"]
  /\ applied = <<>> /\ applying = {} /\ batch = {}
  /\ turn = [t \in LogicalTurns |-> [phase |-> "none", attempt |-> 0, response |-> NoResponse]]
  /\ records = [t \in {} |-> NoResponse] /\ used = [r \in AgentRounds |-> <<>>]

TurnsNext ==
  \/ \E a \in Agents, status \in {"DRAFT", "ACTIVE"} :
       AddDefinition(a, status) \/ \E p \in Agents : AddDefinitionVersion(p, a, status)
  \/ \E r \in Interventions : CheckIntervention(r) \/ WriteIntervention(r) \/ AbortIntervention(r)
  \/ AdvanceRound \/ EndSession \/ FinishBatch
  \/ \E a \in Agents : PinTurn(a)
  \/ \E turns \in SUBSET {t \in LogicalTurns : t[2] = session.round} : StartBatch(turns)
  \/ \E t \in LogicalTurns :
       ProviderAnswers(t) \/ RejectTurn(t) \/ RecordCall(t) \/ ReturnTurn(t) \/ TimeoutTurn(t) \/ RetryTurn(t)

TurnsSpec == TurnsInit /\ [][TurnsNext]_turnVars
-----------------------------------------------------------------------------
(* The types: only definitions that exist are referred to, and what a turn   *)
(* or a record holds is what its table or its message admits.                *)
TurnsTypeOK ==
  /\ DOMAIN registry \subseteq Agents
  /\ \A a \in DOMAIN registry :
       /\ registry[a] \in AgentDefinitionRows
       /\ registry[a].successor # "none" => registry[a].successor \in DOMAIN registry
  /\ session \in [round : 0..LastRound, state : {"RUNNING", "CANCELLED", "BUDGET_EXHAUSTED"}]
  /\ applied \in Seq(InterventionRows) /\ applying \subseteq InterventionRows
  /\ turn \in [LogicalTurns -> AgentTurnInputs] /\ batch \subseteq LogicalTurns
  /\ DOMAIN records \subseteq LogicalTurns /\ \A t \in DOMAIN records : records[t] \in CallRecordRows
  /\ used \in [AgentRounds -> Seq(DOMAIN registry)]

-----------------------------------------------------------------------------
(* Whatever interventions are made, at once or later, the membership of any  *)
(* round can be read back, no history replaces an absent agent or leads to   *)
(* two versions of one logical agent, and the membership a round's turns     *)
(* were pinned from is the one the history replays to, then and later: an    *)
(* injection reaches later dispatches only.                                  *)
MembershipReplays ==
  /\ \A round \in AgentRounds :
       /\ OneVersionEach(Replayed(applied, round))
       /\ used[round] # <<>> => used[round] = Replayed(applied, round)
  /\ \A t \in LogicalTurns : turn[t].phase # "none" => t[1] \in ToSet(used[t[2]])
=============================================================================
