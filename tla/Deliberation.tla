---------------------------- MODULE Deliberation ----------------------------
(***************************************************************************)
(* What a session's agents and people write into its reasoning: artifacts  *)
(* with their graph nodes and ledger events, critiques, the responses to   *)
(* them and the handoff the explanation reads.                             *)
(*                                                                         *)
(* A turn's context is a snapshot taken before its transaction.  A round   *)
(* is one transaction: every critic's and peer's bundle in order, then the *)
(* responses, then the handoff, or nothing at all.  Its row locks keep     *)
(* what it has checked, so the transaction is one step; people write       *)
(* between the snapshot and that step.  An operation is a function of the  *)
(* stored state: [ok, db], ok false when it raises.                        *)
(*                                                                         *)
(* Sources: backend/app/application/artifact_commit.py, proposal_commit.py,*)
(* critique_commit.py, critique_response.py, critique_round.py,            *)
(* critic_dispatch.py, reasoning_context.py, db/critique_handoff.py,       *)
(* api/routes/phase3.py and migrations 0005 and 0019.                      *)
(***************************************************************************)
EXTENDS ReasoningGraph

CONSTANTS
  Turns,        \* logical turns, each pinned by the coordinator
  AgentOf,      \* [Turns -> agent definition]
  RoleOf,       \* [agent definition -> role_kind]
  PhaseOf,      \* [Turns -> {"ASSESS", "CRITIQUE", "REVISE"}]
  RoundOf,      \* [Turns -> round]
  PriorEmpty,   \* [Turns -> the critic's empty rounds before this one]
  Rounds,       \* numbers of the critique rounds
  Offered,      \* the dispositions agents answer with
  MaxApiWrites  \* bound: writes of people

ASSUME TurnsArePinned ==
  /\ IsFiniteSet(Turns)
  /\ \A t \in Turns : RoleOf[AgentOf[t]] \in STRING /\ RoundOf[t] \in Nat \ {0}
  /\ MaxApiWrites \in Nat

VARIABLES
  db,        \* artifacts, edges, ledger events, response requests and results
  context,   \* [Turns -> visible artifacts: a sequence of at most one set]
  commands,  \* the commands whose transactions committed
  current,   \* the round the coordinator is in
  apiWrites

delibVars == <<db, context, commands, current, apiWrites>>

None == <<"none", 0>>
Objective == <<"objective", 0>>
-----------------------------------------------------------------------------
(* Artifacts, nodes and events. *)

Done(state) == [ok |-> TRUE, db |-> state]
Refused(state) == [ok |-> FALSE, db |-> state]
Then(step, Op(_)) == IF step.ok THEN Op(step.db) ELSE step

(* LedgerAppend: an event's identity is derived from what it is about. *)
Event(type, about, state) == [type |-> type, about |-> about, tx |-> state.tx]
HasEvent(state, type, about) ==
  \E i \in 1..Len(state.events) : state.events[i].type = type /\ state.events[i].about = about
Recorded(state, type, about) ==
  IF HasEvent(state, type, about) THEN state
  ELSE [state EXCEPT !.events = Append(@, Event(type, about, state))]

Exists(state, id) == id \in DOMAIN state.art
Active(state, id) == Exists(state, id) /\ state.art[id].status = "ACTIVE"

(* The content hash covers everything but the lifecycle. *)
Snapshot(state, id) ==
  [f \in DOMAIN state.art[id] \ {"status"} |-> state.art[id][f]]

(* The row constraints: one row per identity and per version of a chain, a   *)
(* predecessor of the same chain and kind, and references that exist.        *)
RowInsertable(state, id, row) ==
  /\ ~Exists(state, id)
  /\ \A other \in DOMAIN state.art :
       <<state.art[other].logical, state.art[other].version>> # <<row.logical, row.version>>
  /\ (row.version = 1) = (row.supersedes = None)
  /\ row.version > 1 =>
       /\ Exists(state, row.supersedes)
       /\ LET previous == state.art[row.supersedes]
          IN previous.logical = row.logical /\ previous.kind = row.kind
             /\ previous.version = row.version - 1
  /\ \A ref \in row.refs \cup {p.target : p \in row.parents} : Exists(state, ref)

(* add, the artifact's node and the edges of its parent relationships. *)
AddArtifact(state, id, row) ==
  [state EXCEPT !.art = [other \in DOMAIN @ \cup {id} |-> IF other = id THEN row ELSE @[other]],
                !.edges = @ \cup {[from |-> id, to |-> p.target, type |-> p.type] : p \in row.parents}]

(* set_lifecycle, under the trigger that lets only an ACTIVE row change. *)
SetLifecycle(state, id, status) == [state EXCEPT !.art[id].status = status]

(* _relationship_targets and the endpoint policy of the graph. *)
Related(state, row) ==
  \A p \in row.parents :
    /\ p.type # "SUPERSEDES" /\ Exists(state, p.target)
    /\ <<row.kind, state.art[p.target].kind>> \in Endpoints(p.type)

(* commit: the first version. *)
CommitArtifactRow(state, id, row) ==
  IF row.version = 1 /\ row.supersedes = None /\ row.status = "ACTIVE"
     /\ Related(state, row) /\ RowInsertable(state, id, row)
  THEN Done(Recorded(AddArtifact(state, id, row), "ARTIFACT_COMMITTED", id))
  ELSE Refused(state)

(* Mutant: the predecessor stays ACTIVE. *)
ReviseWithoutSuperseding(state, id, row) ==
  IF Active(state, row.supersedes) /\ Related(state, row) /\ RowInsertable(state, id, row)
  THEN Done(Recorded([AddArtifact(state, id, row) EXCEPT
              !.edges = @ \cup {[from |-> id, to |-> row.supersedes, type |-> "SUPERSEDES"]}],
              "ARTIFACT_REVISED", id))
  ELSE Refused(state)

(* revise: the successor of an ACTIVE head, and the head superseded. *)
ReviseArtifactRow(state, id, row) ==
  IF /\ row.version > 1 /\ row.status = "ACTIVE" /\ Active(state, row.supersedes)
     /\ state.art[row.supersedes].logical = row.logical /\ state.art[row.supersedes].kind = row.kind
     /\ Related(state, row) /\ RowInsertable(state, id, row)
  THEN Done(Recorded(
         [SetLifecycle(AddArtifact(state, id, row), row.supersedes, "SUPERSEDED") EXCEPT
            !.edges = @ \cup {[from |-> id, to |-> row.supersedes, type |-> "SUPERSEDES"]}],
         "ARTIFACT_REVISED", id))
  ELSE Refused(state)

(* withdraw: an ACTIVE artifact, for a warrant in the graph. *)
WithdrawArtifactRow(state, id, warrants) ==
  IF warrants # {} /\ (\A w \in warrants : Exists(state, w)) /\ Active(state, id)
  THEN Done(Recorded(SetLifecycle(state, id, "WITHDRAWN"), "ARTIFACT_WITHDRAWN", id))
  ELSE Refused(state)

(* A first version with these contents; a critique attacks its target. *)
Attacks(kind, refs) == IF kind = "CRITIQUE" THEN {[type |-> "ATTACKS", target |-> r] : r \in refs} ELSE {}
NewRow(id, draft, owner, round) ==
  [kind |-> draft.kind, logical |-> id, version |-> 1, status |-> "ACTIVE", supersedes |-> None,
   owner |-> owner, round |-> round, refs |-> draft.refs, resolution |-> draft.resolution,
   parents |-> Attacks(draft.kind, draft.refs)]
-----------------------------------------------------------------------------
(* A turn's bundle. *)

TurnArtifact(turn, i) == <<turn, i>>
TurnEvent(turn) == <<turn, 0>>

(* proposal_references of a draft: every artifact the payload names. *)
DraftReferences(draft) ==
  IF \E shape \in Shapes : KindOf(shape) = draft.kind /\ ProposalFields(shape) # {}
  THEN draft.refs ELSE {}

(* validate_critic_bundle, with _validate_agent_critique_contract. *)
CritiqueContract(turn, visible, bundle) ==
  LET critical == RoleOf[AgentOf[turn]] = "critic" \/ PhaseOf[turn] = "CRITIQUE"
                  \/ \E i \in 1..Len(bundle) : bundle[i].kind = "CRITIQUE"
  IN critical =>
       /\ RoleOf[AgentOf[turn]] \in {"critic", "domain_expert"} /\ PhaseOf[turn] = "CRITIQUE"
       /\ visible # {}
       /\ \A i \in 1..Len(bundle) :
            /\ bundle[i].kind = "CRITIQUE" /\ bundle[i].resolution = "OPEN"
            /\ bundle[i].refs \subseteq visible
       /\ \A i, j \in 1..Len(bundle) : bundle[i] = bundle[j] => i = j

(* Mutant: what a turn saw is taken to be still true. *)
PreflightOfSnapshot(state, turn, visible, ref) == ref \in visible /\ Exists(state, ref)

(* _preflight, one reference: authorized, still ACTIVE, not from the future  *)
(* and unchanged since the snapshot.                                         *)
Preflight(state, turn, visible, ref) ==
  /\ ref \in visible /\ Active(state, ref)
  /\ state.art[ref].round <= RoundOf[turn]

(* The effects of a bundle that was never committed. *)
WriteBundle(state, turn, bundle) ==
  LET written[i \in 0..Len(bundle)] ==
        IF i = 0 THEN Done(state)
        ELSE Then(written[i - 1], LAMBDA s : CommitArtifactRow(s, TurnArtifact(turn, i),
               NewRow(TurnArtifact(turn, i), bundle[i], AgentOf[turn], RoundOf[turn])))
  IN Then(written[Len(bundle)], LAMBDA s : Done(Recorded(s, "AGENT_TURN_COMPLETED", TurnEvent(turn))))

(* _idempotent_result: everything of the turn is there, as it would be now. *)
TurnComplete(state, turn, bundle) ==
  /\ \A i \in 1..Len(bundle) :
       LET id == TurnArtifact(turn, i)
       IN /\ Exists(state, id) /\ HasEvent(state, "ARTIFACT_COMMITTED", id)
          /\ LET row == NewRow(id, bundle[i], AgentOf[turn], RoundOf[turn])
             IN Snapshot(state, id) = [f \in DOMAIN row \ {"status"} |-> row[f]]
  /\ HasEvent(state, "AGENT_TURN_COMPLETED", TurnEvent(turn))

(* AgentProposalCommitter.commit: a turn seen before answers as it did.  A   *)
(* bundle of another length leaves its own identities behind.                *)
CommitTurn(state, turn, visible, bundle) ==
  LET prior == \/ \E i \in 1..Len(bundle) : Exists(state, TurnArtifact(turn, i))
               \/ HasEvent(state, "AGENT_TURN_COMPLETED", TurnEvent(turn))
  IN IF ~CritiqueContract(turn, visible, bundle) THEN Refused(state)
     ELSE IF prior THEN (IF TurnComplete(state, turn, bundle) THEN Done(state) ELSE Refused(state))
     ELSE IF \A i \in 1..Len(bundle) : \A ref \in DraftReferences(bundle[i]) :
                Preflight(state, turn, visible, ref)
     THEN WriteBundle(state, turn, bundle)
     ELSE Refused(state)
-----------------------------------------------------------------------------
(* A response to a critique. *)

(* _RESOLUTION_BY_DISPOSITION. *)
ResolutionBy(disposition) ==
  CASE disposition \in {"ACCEPT", "REVISE"} -> "RESOLVED"
    [] disposition = "REJECT_WITH_JUSTIFICATION" -> "DISPUTED"
    [] disposition \in {"PARTIALLY_ACCEPT", "REQUEST_EVIDENCE", "REQUEST_SIMULATION", "ABSTAIN"} ->
         "UNRESOLVED"

(* _STATUS_BY_DISPOSITION. *)
StatusBy(disposition) ==
  CASE disposition = "ACCEPT" -> "RESOLVED"
    [] disposition = "PARTIALLY_ACCEPT" -> "UNRESOLVED"
    [] disposition = "REJECT_WITH_JUSTIFICATION" -> "DISPUTED"
    [] disposition = "REVISE" -> "REVISED"
    [] disposition = "REQUEST_EVIDENCE" -> "EVIDENCE_REQUESTED"
    [] disposition = "REQUEST_SIMULATION" -> "SIMULATION_DEFERRED"
    [] disposition = "ABSTAIN" -> "ABSTAINED"

(* response_shape: what a disposition carries, and nothing else. *)
ResponseShape(p) ==
  /\ (p.warrants # {}) = (p.disposition = "REJECT_WITH_JUSTIFICATION")
  /\ (Len(p.revision) = 1) = (p.disposition = "REVISE")

(* response_commit_id. *)
CritiqueRevision(turn) == <<turn, 1>>
TargetRevision(turn) == <<turn, 2>>

(* _result. *)
ResponseResult(turn, p) ==
  [status |-> StatusBy(p.disposition), disposition |-> p.disposition,
   resolution |-> ResolutionBy(p.disposition), critique |-> CritiqueRevision(turn),
   critiqueVersion |-> p.critiqueVersion + 1,
   target |-> IF p.disposition = "REVISE" THEN TargetRevision(turn) ELSE None]

(* critique_response_results: its CHECK constraints. *)
ResultInsertable(state, turn, result) ==
  /\ turn \notin DOMAIN state.results /\ turn \in DOMAIN state.requests
  /\ result.critiqueVersion > 1 /\ (result.disposition = "REVISE") = (result.target # None)
  /\ <<result.disposition, result.status, result.resolution>> \in
       {<<"ACCEPT", "RESOLVED", "RESOLVED">>, <<"PARTIALLY_ACCEPT", "UNRESOLVED", "UNRESOLVED">>,
        <<"REJECT_WITH_JUSTIFICATION", "DISPUTED", "DISPUTED">>, <<"REVISE", "REVISED", "RESOLVED">>,
        <<"REQUEST_EVIDENCE", "EVIDENCE_REQUESTED", "UNRESOLVED">>,
        <<"REQUEST_SIMULATION", "SIMULATION_DEFERRED", "UNRESOLVED">>,
        <<"ABSTAIN", "ABSTAINED", "UNRESOLVED">>}
  /\ Exists(state, result.critique) /\ (result.target # None => Exists(state, result.target))

(* _preflight: heads, ownership and warrants. *)
ResponsePreflight(state, turn, visible, p) ==
  /\ {p.critique, p.target} \cup p.warrants \subseteq visible
  /\ \A ref \in {p.critique, p.target} \cup p.warrants :
       Exists(state, ref) /\ state.art[ref].round <= RoundOf[turn]
  /\ state.art[p.critique].kind = "CRITIQUE"
  /\ state.art[p.critique].version = p.critiqueVersion /\ Active(state, p.critique)
  /\ state.art[p.critique].resolution # "RESOLVED"
  /\ state.art[p.critique].refs = {p.target}
  /\ state.art[p.target].version = p.targetVersion /\ Active(state, p.target)
  /\ state.art[p.target].owner = AgentOf[turn]
  /\ p.disposition = "REJECT_WITH_JUSTIFICATION" =>
       \A w \in p.warrants : w \notin {p.critique, p.target} /\ Active(state, w)

(* _preflight_revision_references. *)
RevisionPreflight(state, turn, visible, draft) ==
  \A ref \in DraftReferences(draft) : Preflight(state, turn, visible, ref)

(* _revision_values: the next version of an artifact, by its owner. *)
NextVersion(state, turn, previous, refs, resolution, parents) ==
  [state.art[previous] EXCEPT !.version = @ + 1, !.status = "ACTIVE", !.supersedes = previous,
     !.round = RoundOf[turn], !.refs = refs, !.resolution = resolution, !.parents = parents]

(* _critique_revision. *)
CritiqueRevisionRow(state, turn, p) ==
  NextVersion(state, turn, p.critique, {p.target}, ResolutionBy(p.disposition),
              {[type |-> "ATTACKS", target |-> p.target]})

(* _target_revision: a revised critique takes the replacement's resolution. *)
TargetRevisionRow(state, turn, p) ==
  LET draft == p.revision[1]
      kept == {r \in state.art[p.target].parents :
                 r.type \notin {"SUPERSEDES", "RESPONDS_TO", "ATTACKS"}}
  IN NextVersion(state, turn, p.target, draft.refs, draft.resolution,
       kept \cup Attacks(draft.kind, draft.refs) \cup {[type |-> "RESPONDS_TO", target |-> p.critique]})

AddRequest(state, turn, p) == [state EXCEPT !.requests = [t \in DOMAIN @ \cup {turn} |->
                                IF t = turn THEN p ELSE @[t]]]
AddResult(state, turn, result) ==
  IF ResultInsertable(state, turn, result)
  THEN Done([state EXCEPT !.results = [t \in DOMAIN @ \cup {turn} |->
               IF t = turn THEN result ELSE @[t]]])
  ELSE Refused(state)

(* The effects of a response that was never committed. *)
WriteResponse(state, turn, p) ==
  LET critique == Then(Done(AddRequest(state, turn, p)), LAMBDA s :
                    ReviseArtifactRow(s, CritiqueRevision(turn), CritiqueRevisionRow(s, turn, p)))
      target == IF p.disposition # "REVISE" THEN critique
                ELSE Then(critique, LAMBDA s :
                       ReviseArtifactRow(s, TargetRevision(turn), TargetRevisionRow(state, turn, p)))
  IN Then(target, LAMBDA s :
       AddResult(Recorded(s, "CRITIQUE_RESPONDED", <<turn, 0>>), turn, ResponseResult(turn, p)))

(* _idempotent_result of a response. *)
ResponseComplete(state, turn, result) ==
  /\ Exists(state, result.critique) /\ state.art[result.critique].version = result.critiqueVersion
  /\ result.target # None => Exists(state, result.target)
  /\ HasEvent(state, "CRITIQUE_RESPONDED", <<turn, 0>>)

(* Mutant: the heads are checked before the response is looked up. *)
RespondCheckingFirst(state, turn, visible, p) ==
  IF ResponsePreflight(state, turn, visible, p) THEN WriteResponse(state, turn, p) ELSE Refused(state)

(* CritiqueResponseCommitter.commit. *)
Respond(state, turn, visible, p) ==
  IF turn \in DOMAIN state.requests \cup DOMAIN state.results
  THEN IF /\ turn \in DOMAIN state.requests /\ state.requests[turn] = p
          /\ turn \in DOMAIN state.results /\ state.results[turn] = ResponseResult(turn, p)
          /\ ResponseComplete(state, turn, state.results[turn])
       THEN Done(state) ELSE Refused(state)
  ELSE IF /\ PhaseOf[turn] = "REVISE" /\ ResponseShape(p)
          /\ ResponsePreflight(state, turn, visible, p)
          /\ p.disposition = "REVISE" =>
               /\ p.revision[1].kind = state.art[p.target].kind
               /\ RevisionPreflight(state, turn, visible, p.revision[1])
       THEN WriteResponse(state, turn, p)
       ELSE Refused(state)
-----------------------------------------------------------------------------
(* The handoff: the latest version of every critique chain. *)

CritiqueHeads(state) ==
  {id \in DOMAIN state.art :
     /\ state.art[id].kind = "CRITIQUE"
     /\ \A other \in DOMAIN state.art :
          state.art[other].logical = state.art[id].logical =>
            state.art[other].version <= state.art[id].version}

(* The responses that made this version. *)
ResponsesTo(state, id) == {t \in DOMAIN state.results : state.results[t].critique = id}

(* response_matches_resolution. *)
EntryValid(state, id) ==
  /\ HasEvent(state, "ARTIFACT_COMMITTED", state.art[id].logical)
  /\ IF ResponsesTo(state, id) = {} THEN state.art[id].resolution = "OPEN"
     ELSE \A t \in ResponsesTo(state, id) :
            /\ ResolutionBy(state.requests[t].disposition) = state.art[id].resolution
            /\ state.requests[t].disposition = "REJECT_WITH_JUSTIFICATION" =>
                 state.requests[t].warrants # {}
            /\ (state.requests[t].disposition = "REVISE") = (state.results[t].target # None)

(* read: it answers for the whole session or raises. *)
HandoffRead(state) == \A id \in CritiqueHeads(state) : EntryValid(state, id)
-----------------------------------------------------------------------------
(* A critique round. *)

CriticTurns(k) == {t \in Turns : RoundOf[t] = k /\ PhaseOf[t] = "CRITIQUE" /\ RoleOf[AgentOf[t]] = "critic"}
PeerTurns(k) == {t \in Turns : RoundOf[t] = k /\ PhaseOf[t] = "CRITIQUE"
                               /\ RoleOf[AgentOf[t]] = "domain_expert"}
RespondingTurns(k) == {t \in Turns : RoundOf[t] = k /\ PhaseOf[t] = "REVISE"}
TurnsOf(k) == CriticTurns(k) \cup PeerTurns(k) \cup RespondingTurns(k)

(* valid_round_batch: no agent twice in a phase. *)
ValidRoundBatch(k) ==
  /\ CriticTurns(k) # {}
  /\ \A batch \in {CriticTurns(k), PeerTurns(k), RespondingTurns(k)} :
       \A t, u \in batch : AgentOf[t] = AgentOf[u] => t = u

(* An outcome is a bundle, a response, or "timeout". *)
TimedOut == [timeout |-> TRUE]
IsTimeout(outcome) == "timeout" \in DOMAIN outcome

(* CRITIC_INACTIVE: the third empty round in a row. *)
RecordInactivity(state, turn, outcome) ==
  IF RoleOf[AgentOf[turn]] = "critic" /\ PriorEmpty[turn] = 2 /\ ~IsTimeout(outcome)
     /\ outcome.bundle = <<>>
  THEN Recorded(state, "CRITIC_INACTIVE", TurnEvent(turn)) ELSE state

(* A critic's or peer's outcome: its timeout event or its bundle. *)
CritiqueOutcome(state, turn, outcome) ==
  IF IsTimeout(outcome) THEN Done(Recorded(state, "TURN_TIMEOUT", TurnEvent(turn)))
  ELSE CommitTurn(RecordInactivity(state, turn, outcome), turn, context[turn][1], outcome.bundle)

(* A response's outcome. *)
ResponseOutcome(state, turn, outcome) ==
  IF IsTimeout(outcome) THEN Done(Recorded(state, "TURN_TIMEOUT", TurnEvent(turn)))
  ELSE Respond(state, turn, context[turn][1], outcome.response)

(* _prepare_response_commits: each critique is answered once in a round. *)
DistinctResponses(k, outcome) ==
  \A t, u \in RespondingTurns(k) :
    (t # u /\ ~IsTimeout(outcome[t]) /\ ~IsTimeout(outcome[u]))
      => outcome[t].response.critique # outcome[u].response.critique

TurnOutcome(state, turn, outcome) ==
  IF PhaseOf[turn] = "REVISE" THEN ResponseOutcome(state, turn, outcome)
  ELSE CritiqueOutcome(state, turn, outcome)

(* Critics, peers, then responses in the order of their targets (which is    *)
(* any order here: identities are hashes).                                   *)
RoundOrder(k, responses) == SetToSeq(CriticTurns(k)) \o SetToSeq(PeerTurns(k)) \o responses

(* run: every outcome in order, then the handoff. *)
RunRound(state, k, outcome, responses) ==
  LET order == RoundOrder(k, responses)
      after[i \in 0..Len(order)] ==
        IF i = 0 THEN Done(state)
        ELSE Then(after[i - 1], LAMBDA s : TurnOutcome(s, order[i], outcome[order[i]]))
      final == after[Len(order)]
  IN IF final.ok /\ DistinctResponses(k, outcome) /\ HandoffRead(final.db)
     THEN final ELSE Refused(state)
-----------------------------------------------------------------------------
DelibInit ==
  /\ db = [art |-> [id \in {Objective} |-> NewRow(Objective,
                      [kind |-> "OBJECTIVE", refs |-> {}, resolution |-> "none"], "human", 0)],
           edges |-> {}, events |-> <<>>, requests |-> [t \in {} |-> 0], results |-> [t \in {} |-> 0],
           tx |-> 1]
  /\ context = [t \in Turns |-> <<>>]
  /\ current = CHOOSE k \in Rounds : \A other \in Rounds : k <= other
  /\ commands = {} /\ apiWrites = 0

(* Drafts an agent may propose over what it can name. *)
Draft(kind, refs, resolution) == [kind |-> kind, refs |-> refs, resolution |-> resolution]
AssessDrafts(visible) ==
  {Draft("ASSUMPTION", {}, "none")} \cup {Draft("INFERENCE", {v}, "none") : v \in visible}
Attack(target) == Draft("CRITIQUE", {target}, "OPEN")

(* Objectives are bound with the session: each must still be ACTIVE. *)
BoundArtifactsAvailable == Active(db, Objective)

(* assemble: the ACTIVE artifacts of this round and earlier ones; nothing in *)
(* the first assessment.                                                     *)
Assemble(turn) ==
  /\ RoundOf[turn] = current /\ context[turn] = <<>> /\ BoundArtifactsAvailable
  /\ context' = [context EXCEPT ![turn] =
       IF RoundOf[turn] = 1 /\ PhaseOf[turn] = "ASSESS" THEN <<{}>>
       ELSE <<{id \in DOMAIN db.art : Active(db, id) /\ db.art[id].round <= RoundOf[turn]
                                       /\ db.art[id].kind # "OBJECTIVE"}>>]
  /\ UNCHANGED <<db, commands, current, apiWrites>>

Committed(step) == [step.db EXCEPT !.tx = @ + 1]

(* An assessment's turn, committed on its own. *)
CommitAssessment(turn) ==
  /\ PhaseOf[turn] = "ASSESS" /\ RoundOf[turn] = current /\ context[turn] # <<>>
  /\ \E draft \in AssessDrafts(context[turn][1]) :
       LET step == CommitTurn(db, turn, context[turn][1], <<draft>>)
       IN /\ step.ok /\ step.db # db
          /\ db' = Committed(step)
          /\ commands' = commands \cup {[turn |-> turn, visible |-> context[turn][1],
                                         bundle |-> <<draft>>]}
  /\ UNCHANGED <<context, current, apiWrites>>

(* What a critic answers: nothing, or one attack on an assigned artifact. *)
CriticOutcomes(turn) ==
  {TimedOut, [bundle |-> <<>>]}
    \cup {[bundle |-> <<Attack(v)>>] : v \in {v \in context[turn][1] : db.art[v].kind # "CRITIQUE" \/
                                                RoleOf[AgentOf[turn]] = "critic"}}

(* What an author answers: any disposition to a critique it was shown, with  *)
(* a replacement that keeps the target's kind.                               *)
ResponseOutcomes(turn) ==
  LET visible == context[turn][1]
      critiques == {v \in visible : db.art[v].kind = "CRITIQUE"}
      Response(c, disposition, warrants, revision) ==
        [response |-> [critique |-> c, critiqueVersion |-> db.art[c].version,
                       target |-> CHOOSE r \in db.art[c].refs : TRUE,
                       targetVersion |-> db.art[CHOOSE r \in db.art[c].refs : TRUE].version,
                       disposition |-> disposition, warrants |-> warrants, revision |-> revision]]
      Replacements(target) ==
        IF db.art[target].kind = "CRITIQUE"
        THEN {Draft("CRITIQUE", {v}, r) : v \in visible \ {target}, r \in {"OPEN", "RESOLVED"}}
        ELSE {Draft(db.art[target].kind, db.art[target].refs, "none")}
  IN {TimedOut}
       \cup {Response(c, d, {}, <<>>) :
               c \in critiques, d \in Offered \ {"REVISE", "REJECT_WITH_JUSTIFICATION"}}
       \cup (IF "REJECT_WITH_JUSTIFICATION" \in Offered
             THEN {Response(c, "REJECT_WITH_JUSTIFICATION", {w}, <<>>) : c \in critiques, w \in visible}
             ELSE {})
       \cup (IF "REVISE" \in Offered
             THEN UNION {{Response(c, "REVISE", {}, <<d>>) :
                            d \in Replacements(CHOOSE r \in db.art[c].refs : TRUE)} : c \in critiques}
             ELSE {})

OutcomesOf(turn) == IF PhaseOf[turn] = "REVISE" THEN ResponseOutcomes(turn) ELSE CriticOutcomes(turn)

(* The commands a round has committed, as a retry would send them. *)
CommandOf(turn, outcome) ==
  IF PhaseOf[turn] = "REVISE"
  THEN [turn |-> turn, visible |-> context[turn][1], response |-> outcome.response]
  ELSE [turn |-> turn, visible |-> context[turn][1], bundle |-> outcome.bundle]

(* CritiqueRoundCoordinator.run and its commit: the next round follows. *)
CritiqueRound(k) ==
  /\ k = current /\ ValidRoundBatch(k) /\ \A t \in TurnsOf(k) : context[t] # <<>>
  /\ \E outcome \in {o \in [TurnsOf(k) -> UNION {OutcomesOf(t) : t \in TurnsOf(k)}] :
                       \A t \in TurnsOf(k) : o[t] \in OutcomesOf(t)} :
       \E responses \in SetToSeqs(RespondingTurns(k)) :
         LET step == RunRound(db, k, outcome, responses)
         IN /\ step.ok
            /\ db' = Committed(step)
            /\ commands' = commands \cup {CommandOf(t, outcome[t]) :
                 t \in {t \in TurnsOf(k) : ~IsTimeout(outcome[t])}}
  /\ current' = current + 1
  /\ UNCHANGED <<context, apiWrites>>

ApiId == <<"api", apiWrites + 1>>

ApiWrite(step) ==
  /\ apiWrites < MaxApiWrites /\ step.ok
  /\ db' = Committed(step) /\ apiWrites' = apiWrites + 1
  /\ UNCHANGED <<context, commands, current>>

(* create_artifact: a person's artifact belongs to round 0. *)
CreateArtifact ==
  \E draft \in {Draft("ASSUMPTION", {}, "none")}
                 \cup {Attack(id) : id \in DOMAIN db.art \ {Objective}} :
    ApiWrite(CommitArtifactRow(db, ApiId, NewRow(ApiId, draft, "human", 0)))

(* revise_artifact, under If-Match: the head passes into the person's hands. *)
ReviseArtifact(id) ==
  LET previous == db.art[id]
  IN \E resolution \in IF previous.kind = "CRITIQUE" THEN {"OPEN", "RESOLVED"} ELSE {"none"} :
       ApiWrite(ReviseArtifactRow(db, ApiId,
         [previous EXCEPT !.version = @ + 1, !.status = "ACTIVE", !.supersedes = id,
                          !.owner = "human", !.round = 0, !.resolution = resolution]))

(* withdraw_artifact, warranted by any artifact of the session. *)
WithdrawArtifact(id) == ApiWrite(WithdrawArtifactRow(db, id, {Objective}))

DelibNext ==
  \/ \E turn \in Turns : Assemble(turn) \/ CommitAssessment(turn)
  \/ \E k \in Rounds : CritiqueRound(k)
  \/ CreateArtifact
  \/ \E id \in DOMAIN db.art : ReviseArtifact(id) \/ WithdrawArtifact(id)

DelibSpec == DelibInit /\ [][DelibNext]_delibVars
-----------------------------------------------------------------------------
(* Rows of reasoning_artifacts: their CHECK constraints. *)
ArtifactRowOK(row) ==
  /\ row.kind \in ArtifactKind /\ row.version \in Nat \ {0} /\ row.round \in Nat
  /\ row.status \in {"ACTIVE", "SUPERSEDED", "WITHDRAWN"}
  /\ (row.version = 1) = (row.supersedes = None)
  /\ row.version > 1 => Exists(db, row.supersedes)

(* Rows of graph_edges: one triple once, its ends nodes of the session, no   *)
(* self loop, and of kinds the policy pairs.                                 *)
EdgeRowOK(e) ==
  /\ Exists(db, e.from) /\ Exists(db, e.to)
  /\ EdgeAllowed([id \in DOMAIN db.art |-> db.art[id].kind], e)

(* Rows of critique_response_requests: what is answered exists. *)
RequestRowOK(p) ==
  /\ p.disposition \in Offered /\ p.critiqueVersion \in Nat \ {0} /\ p.targetVersion \in Nat \ {0}
  /\ Exists(db, p.critique) /\ Exists(db, p.target)

(* Rows of critique_response_results: of a request, with its revisions and   *)
(* its ledger event.                                                         *)
ResultRowOK(turn, result) ==
  /\ turn \in DOMAIN db.requests /\ result.disposition = db.requests[turn].disposition
  /\ result.critiqueVersion > 1 /\ Exists(db, result.critique)
  /\ (result.disposition = "REVISE") = (result.target # None)
  /\ result.target # None => Exists(db, result.target) /\ db.art[result.target].version > 1
  /\ HasEvent(db, "CRITIQUE_RESPONDED", <<turn, 0>>)

(* The types: rows are of their tables, and refer to rows that exist.        *)
DelibTypeOK ==
  /\ \A id \in DOMAIN db.art : ArtifactRowOK(db.art[id])
  /\ \A e \in db.edges : EdgeRowOK(e)
  /\ \A turn \in DOMAIN db.requests : RequestRowOK(db.requests[turn])
  /\ \A turn \in DOMAIN db.results : ResultRowOK(turn, db.results[turn])
  /\ \A turn \in Turns : Len(context[turn]) <= 1
  /\ apiWrites \in 0..MaxApiWrites
-----------------------------------------------------------------------------
(* Every chain has one version of each number, exactly its newest may still  *)
(* be current, every step of it is an edge of the graph and an event of the  *)
(* ledger, whoever revised it and in whichever transaction.                  *)
ChainsAreLinear ==
  \A id \in DOMAIN db.art :
    LET chain == {other \in DOMAIN db.art : db.art[other].logical = db.art[id].logical}
    IN /\ {db.art[other].version : other \in chain} = 1..Cardinality(chain)
       /\ \A other \in chain :
            (db.art[other].status = "SUPERSEDED") = (db.art[other].version < Cardinality(chain))
       /\ db.art[id].version > 1 =>
            /\ HasEvent(db, "ARTIFACT_REVISED", id)
            /\ \E e \in db.edges :
                 e.from = id /\ e.type = "SUPERSEDES" /\ e.to = db.art[id].supersedes

(* The transaction that ended an artifact's time as current, or none. *)
EndedBy(id) ==
  {db.events[i].tx : i \in {i \in 1..Len(db.events) :
     \/ db.events[i].type = "ARTIFACT_WITHDRAWN" /\ db.events[i].about = id
     \/ db.events[i].type = "ARTIFACT_REVISED" /\ db.art[db.events[i].about].supersedes = id}}
WrittenBy(id) ==
  {db.events[i].tx : i \in {i \in 1..Len(db.events) :
     db.events[i].type \in {"ARTIFACT_COMMITTED", "ARTIFACT_REVISED"} /\ db.events[i].about = id}}

(* An agent's artifact never names one that an earlier transaction had       *)
(* superseded or withdrawn, however long its turn ran after its snapshot.    *)
FreshReferences ==
  \A id \in DOMAIN db.art :
    db.art[id].owner # "human" =>
      \A ref \in db.art[id].refs :
        \A ended \in EndedBy(ref), written \in WrittenBy(id) : written <= ended

(* A command whose transaction committed can be sent again at any later time *)
(* and is answered without another effect, although its own effects have     *)
(* superseded what it refers to.                                             *)
RetriesAccepted ==
  \A c \in commands :
    (IF "response" \in DOMAIN c THEN Respond(db, c.turn, c.visible, c.response)
     ELSE CommitTurn(db, c.turn, c.visible, c.bundle)) = Done(db)
=============================================================================
