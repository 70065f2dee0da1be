# Verification of AGORA

AGORA (`backend/app`) runs *reasoning sessions*: a durable workflow leads a session of agents through
rounds of proposals, critiques and consensus, and every step is recorded in an append-only ledger.
This directory holds TLA+ models of the parts that carry the system's guarantees, the TLC
configurations that check them on small instances, and TLAPS proofs of the properties that matter most
for every size. Names follow the source; `PROJECT.json` maps every modelling definition to its lines,
and lists the components, the hazards and the properties that are about them.

## 1. The system

PostgreSQL is the only authority. Requests and Temporal activities change it in short transactions;
Temporal keeps the workflow's history, NATS carries wake-ups, MinIO keeps bytes.

| Component | State | Operations | Meets others through |
|---|---|---|---|
| Lifecycle store (`db/session_lifecycle.py`) | one row per session: state, round, last event, timestamps | `add_draft`, `attach_workflow`, `transition` | row lock; appends to the ledger in the same transaction |
| Start and control (`application/session_start.py`, `session_control.py`, `api/routes/phase3.py`) | idempotency record | start, pause, resume, cancel, human input | reads the row unlocked, starts or signals the workflow |
| Session workflow (`adapters/temporal/session_bootstrap.py`) | own state and round, queue, processed ids | bootstrap, take a control, dead-letter | schedules activities that call the store |
| Activity policy (`adapters/temporal/activity_policy.py`) | attempts | retry, translate errors | wraps every activity |
| Coordinator (`application/coordinator_policy.py`) | totals, interventions | `enforce`, inject, replace, membership of a round | unlocked reads, then locked transitions and ledger events |
| Reasoning ledger (`db/reasoning_ledger.py`) | events, head (next sequence, head hash) | `append`, `read`, `verify` | caller-owned transactions; lock on the head row |
| Realtime stream (`db/realtime.py`) | wake-up flags, one position per connection | publish, wake, stream | reads ledger and lifecycle; bus may lose messages |
| Event bus (`adapters/nats`, `adapters/inmemory`) | stream, durable consumers, deliveries | publish, subscribe, ack, nak, term | called after commits |
| Reasoning artifacts (`domain/reasoning.py`, `application/artifact_commit.py`, migration 0005) | versioned rows with kinds and payloads | create, revise, withdraw | validated twice: by the models and by the table's functions and triggers |
| Reasoning graph (`db/reasoning_graph.py`, migrations 0006, 0019) | nodes, edges | commit with an artifact, bounded walks, pages | artifacts; every reader |
| Proposals and critiques (`application/proposal_commit.py`, `critique_*.py`) | bundles, requests, responses, handoff | assess, critique round, respond | contexts read before the transaction; artifacts, graph, ledger |
| Source impact (`application/source_impact.py`, `citations.py`) | citations, retraction, report, stored answer | attach, retract, read the register | row lock of the source; the graph |
| Agent turns (`application/llm.py`, `agent_dispatch.py`, `db/agent_registry.py`) | versioned definitions, recorded calls | pin, dispatch, answer, record, retry | the budget, the membership, the provider |
| MCP gateway (`application/mcp_gateway.py`, `adapters/mcp`) | result table, runs in flight | discover, call, join, cancel, expire | activities that retry; upstream servers |
| Consensus (`application/consensus.py`, `domain/consensus.py`) | one result row per round and strategy | `feasibility_gate`, `evaluate`, `run` | a frozen context; the caller's transaction |
| Ingestion (`application/ingestion.py`, `db/ingestion.py`) | checkpoint row, source and document rows | `start`, `acquired`, `complete`, `fail`, `record_downstream_stage` | attempts of an activity; advisory and row locks |
| Retrieval and knowledge (`application/retrieval.py`, `adapters/pgvector`, `adapters/retrieval`) | grants, documents, vectors, audit rows | authorize, search, audit, upsert, delete | separate transactions for one request |
| Semantic memory (`db/memory.py`, migration 0016) | entries, lifecycle events | promote, retain, expire, read at a time | triggers that order events |
| Formalizations (`application/formalization.py`, `symbolic_evaluation.py`, `adapters/z3_symbolic`) | revisions, validations, decisions, evaluations | create, revise, validate, confirm, evaluate | idempotency and row locks; the solver outside any lock |
| MARL trajectories (`application/marl.py`, `db/marl.py`) | episode row, boundaries, transitions | open, close, finalise, export, verify | advisory lock of the episode; the file of the bundle |
| Manifests and replay (`application/run_manifest.py`, `replay.py`) | manifest row, stored document | create, finalise, replay strict, tolerant or live | object store; the ledger, read twice |
| Audit, explanation, metrics, simulation, adapters, API shell, frontend | read-only or external | queries and rendering | – |

Hard behaviours: activities that commit without being acknowledged and are repeated; attempts that time
out and finish beside their retry; requests validated against state that moves before it is used;
transactions that share an event identity; several reads of one answer under READ COMMITTED; pages read
while rows are added; two programs that must agree on what is valid; wake-ups, publications and
acknowledgements that are lost.

What makes the components correct: the lifecycle row is the replay of its ledger and an ended session
stays ended; the workflow and the row stay in step; an accepted control takes effect; the ledger chain
verifies whoever writes it; every client receives the ledger in order and in full; a bus message is
lost only when every delivery of it failed; the domain and the database agree on what an artifact may say; version chains are linear and no
turn commits a stale reference; a retraction's report leaves nothing out; a round's members are those
its history says; an operation runs once; an ingestion's checkpoint never claims what its rows do not
show; an answer holds only what its reader may read; a memory's history and an episode can always be
read back; formal facts are about the text they were made for; a verdict of a replay stands; a
consensus never ranks what is infeasible, hides an objection or fails on its inputs.

## 2. Modules

The session:

* `SessionLifecycle` – the state graph (`Transitions`, `ValidSessionTransition`), the two readings of a
  control (`AcceptsControl` by the API, `Interpretable` by the workflow) and the timestamp columns.
  Operators only.
* `LifecycleLedger` – the abstract promise: a row and a ledger that change together, one legal step at
  a time, each event once.
* `SessionControl` – the detailed protocol of one session: start and control requests with lost
  transactions, the workflow with its queue, activity attempts with every outcome (`AttemptCommits`,
  `AttemptRefused`, `AttemptFails`, `AttemptUnacknowledged`, `AttemptTimesOut`, `LateAttemptEnds`), the
  dead letter, and the budget coordinator. `Transition` is `SqlAlchemySessionLifecycleStore.transition`:
  replay check, source check, graph check, idempotent append, row. It implements `LifecycleLedger`
  (`Lifecycle == INSTANCE LifecycleLedger`).
* `ReasoningLedger` – concurrent transactions that append lists of events: both lookups, the head lock
  held to the end of the transaction, hash chaining, commit, rollback, repetition. A hash stands for the
  chain it covers, so two hashes are equal only if everything below them is.
* `RealtimeStream` – extends `ReasoningLedger` with publication after the commit, wake-ups and SSE
  streams: clear, read the lifecycle, read a page, emit, continue, return or wait.
* `EventDelivery` – the two adapters behind the bus port, chosen by `adapter`. Over JetStream a delivery
  is a handler call under way that may be acknowledged, terminated, failed or redelivered; in memory the
  publisher calls one handler per group, one after the other. `failed` is a history of the handler calls that
  ended without their return. `read_from` is left out: nothing in the application calls it.
* `AgentTurns` – definitions and their versions (`AddDefinition`, `AddDefinitionVersion`), membership
  interventions in two steps, the check under its three locks and the writes, the batch between two
  budget checks, and the activity: provider's answer, recorded call, return, timeout, retry. What the
  history says of a round is replayed round by round and, within one, event by event (`Replayed`,
  `RoundReplayed`, `Intervened`).
* `McpGateway` – one gateway process. A critical section that awaits nothing is one step with the code
  up to the next await (`Enter`, `Wake`, `Finish`, `Drained`); upstream runs, waiting callers,
  cancellations, expiry of results and a restart interleave.
* `MarlEpisode` – one episode, written by transactions that hold its advisory lock; `ExportEpisode` and
  `VerifyBundle` are operators on the committed rows. A record carries what its hash was computed from
  (`sealed`), so that a hash check is an equality. A replay is the list of the comparisons of
  `_replay_transition` in their order (`ReplaySteps`), each with what it fails with. The manifest names the
  implementations of the episode, as `export_episode` writes them.
* `SessionReplay` – the manifest's creation and finalisation (document put before the row's update, each
  of which may be lost), and a replay step by step: load, verify, execute each step, finish.

The reasoning record:

* `ArtifactContract` – what an artifact may say, twice: `ValidPayload` and `ValidEnvelope` are the
  Pydantic models, `SqlValidPayload` and `SqlValidEnvelope` the functions and the trigger of migration
  0005. A payload maps fields to *classes* of JSON values: missing, null, blank, out of range, and those on
  which the two languages differ, texts with U+0000 (at any depth), decimals in the digits of another script and
  identities without a version. `candidate` starts at a plain artifact of each shape and is edited one
  field, or one part of its envelope, at a time. `SqlReferences` and `ProposalReferences` are the identities the trigger
  looks up and those the coordinator authorizes, the basis of a confidence and the edges included.
* `ReasoningGraph` – the endpoint policy, the bounded walk hop by hop (`StartRows`, `HopRows`, `Walk`), the
  order of its result (an element's place is the number of elements before it) and the pages with their
  cursors. Operators.
* `SourceImpact` – retraction requests as the steps of their transaction (key lock, row lock, trace,
  downstream reads, retraction with report and stored answer; the trace is a loop over segments of bounded
  depth, each read page by page), the citation's insert that read the source
  before its lock, and the readers that page through a graph to which artifacts are added.
* `Deliberation` – a turn's context is a snapshot; `CommitAssessment` and `CritiqueRound` are whole
  transactions, functions of the stored state that may raise (a round takes its turns in `RoundOrder`, each
  to its `TurnOutcome`); people create, revise and withdraw
  artifacts in between through the API.
* `Consensus` – the feasibility gate and the strategies `weighted`, `evidence_weighted` and
  `constraint_aware` as operators on a context, one per helper or stage of the code, and
  `ConsensusOrchestrator.run` as the action that stores a strategy's result. Decimals are integers in
  units of 1/`Unit`, quotients rounded down. An evaluation that would raise (`scores[0]` of an empty
  frontier) yields no result and is recorded in `failed`. `evaluate` awaits nothing, so it is one step.

What a workspace knows:

* `Ingestion` – one ingestion operation. Each store call is one transaction. `start` is two steps, as in
  the code: it reads under an advisory lock that the other calls do not take, and its UPDATE writes only
  the columns that differ from what it read. A step that PostgreSQL's CHECK constraints would reject is
  not taken; `Raise` ends the attempt instead. `overlapped` is a history variable: an attempt has begun
  while another was running.
* `Knowledge` – a retrieval as its four transactions (`Authorize`, `SearchLexical`, `SearchVector`,
  `Audit`, with `Rank` between), each of which decides again what may be read, beside grants, retractions
  and batches of the index written item by item. Scores are small integers; fusion scales reciprocal ranks
  so that they are exact for the lists of the run (`FusionIsExact`), and reranking chooses among what was found.
* `SemanticMemory` – promotions and retentions as check, insert (with the triggers) and commit; the state
  of an entry is read back from its events for any day (`StateAt`).
* `SymbolicFormula`, `Formalization` – the two typings of a formula, each said node by node and computed from
  the leaves to the root; requests in two steps (key lock and
  stored response, then the formalization's lock, checks and writes) and evaluations whose solver runs
  between the read of a revision and the write of its evidence. A body comes with its models, the sets of
  Boolean symbols that are true in one; the solver is asked for one in which its labels are true
  (`Solutions`), and a symbol that has the name of a label is that label (`Captured`). It may also not know, or fail.

`MCSessionControl`, `MCRealtimeStream`, `MCConsensus` and `MCIngestion` are instances of one component.
`MCReasoningRecord`, `MCKnowledgeBase` (with `MCIngestion` and `MCConsensus`) and `MCSessionWork` (with
`MCReasoningRecord`) each hold several components whose definitions share no variable: `part` chooses one at the start
and the others stay as they began. What interacts closely is composed
(`SessionControl` with the lifecycle and the ledger, `RealtimeStream` with the ledger, `SourceImpact` and
`Deliberation` with the graph and the artifact contract). In the database some of the others do meet:
`Ingestion`, `Knowledge` and `SourceImpact` are about the same rows of sources and documents. Each models the
changes its own code makes and those its properties depend on: a retraction is part of `Knowledge`, where it decides
what may be read, and of `SourceImpact`, and no operation of `Ingestion` leads to RETRACTED or asks for it.

The rows a module keeps are named sets or predicates (`RevisionRows`, `ManifestRows`, `ReportRowOK` ...), each mapped
to its table or model, and one type invariant per module is stated over them. The type invariants
hold on the instances of the runs; the configurations list only the deeper properties, and the proofs
start from the types.

Definitions commented *Mutant* are deliberately wrong variants of the definition below them. No
specification uses them; substituting one must make the property named in `PROJECT.json` fail.

## 3. Runs

| Run | Question | Distinct states |
|---|---|---|
| `session_control` | Do repeated requests, lost acknowledgements and the budget leave workflow, row and ledger in step, and is an accepted cancellation or directive honoured? | 55 000 |
| `session_late` | What survives a timed-out attempt that runs after its retry? | 3 190 000 |
| `session_late_effect` (violation) | Is every change of the row recorded? | – |
| `session_dead_letter` (violation) | Does a failed workflow leave a FAILED session? | – |
| `realtime_stream` | Does the chain verify with three writers that share an identity, one of them with other values, and does a client receive it in order and in full? | 118 000 |
| `consensus_unknown` (violation) | Does unknown feasibility only lower an outcome? | – |
| `contract_boundary` (violation) | Does the table take everything the domain accepts? | – |
| `impact_claims` (violation) | Does a complete report list every dependent claim? | – |
| `knowledge_base` | Are ingestion's successes backed, results equal and, without overlap, its checkpoint true? Are answers lawful, an index of one model, memory replayable, formal facts sound, exact and about their head? Do the consensus strategies never fail, leave out only what is dominated, overlook no objection, select what is evidenced and never punish support? | 680 000 |
| `solver_labels` (violation) | Is only a contradiction blocked? | – |
| `ingestion_restart` (violation) | Does a parsed operation stay parsed? | – |
| `session_work` | Of what the domain accepts, does the table take the portable part and nothing else? Does a report cover what the walk can reach, a page skip nothing, a source retract once? Are chains linear, references fresh and repetitions accepted? Do the two readings of a control agree? Is a round's membership its history's? Does an operation run once, a message get lost only by failing, an episode stay readable, a verdict say what it should and stand? | 911 000 |

### Bounds

`MaxAttempts = 2` instead of 10: one spoiled attempt and the last attempt are both reached. `MaxFaults`
bounds spoiled attempts and is 1 in `session_control`, so that no activity runs out of attempts there
(that case is `session_dead_letter`, with 2). `MaxIssues = 2` in `session_late` lets one control request
be issued again. `PageSize = 1` instead of 250 makes every page of the stream full; `MaxDrops = 1`
disconnects a client once, anywhere. Three ingestion attempts are what `INGESTION_POLICY` allows; a fourth
carries another input.

The contexts of the consensus in `knowledge_base` are three slices of its inputs: two agents' opinions of two alternatives
with a critique, the ways of counting and feasibilities that differ, agree or exclude both (1 920); three alternatives on two objectives with values
missing, equal, within and beyond the margin (1 944), enough for a cycle of three or a dominator that is
itself dominated; and every sequence of two citations under a cap of one (372). `Unit = 1200` makes the
default weights and means exact.

The record in `session_work`: `MaxDepth = 1` instead of 12 and `PageSize = 2` instead of 200 over a graph of five
artifacts with a diamond, so that walks need several segments and results several pages; three retraction
requests, two with one key; four turns of an author and a critic over two rounds, one critic empty twice
before; one write of a person (`MaxApiWrites`) anywhere among them.

`knowledge_base`: three chunks with different access lists in one source, two namespaces of which one needs
a grant, two queries that share an audit identity and two batches by two models; four promotions, two of
which supersede the same entry and one of which needs two validators, and three retentions whose dates and
order of commit differ; an unsatisfiable, a satisfiable and an ill-sorted formula, requests of which a confirmation
races a revision, and two evaluations each of the unsatisfiable
and of the satisfiable formula. `solver_labels` has one satisfiable formula that
names a label.

The machinery in `session_work`: paths of four events of the state graph; one agent in two versions and another one,
a replacement in round 1 and an injection in round 2 (`LastRound = 2`); a tool call, its retry, a changed
reuse of its operation and another operation, a result table of one entry (`MaxDedup = 1`), two runs and one
restart (`MaxRuns`, `MaxRestarts`); a decodable and an undecodable message, one group
and three deliveries of each, which may overlap; two writers of an episode of two decisions,
among them an observation of another environment, a decision the coordinator does not repeat, and a reward and a credit
of an implementation that is not registered; two finalisers, two replays, documents that are recorded,
external or pinned to a moved implementation, and one append to the ledger under them (`MaxLedger`).

Symmetry is used only where identities are merely compared: three equal ingestion attempts in `knowledge_base`; two
equal tool calls, the writers, the finalisers and the replays in `session_work`, which have the same two names there.

### Fairness

`session_control` assumes weak fairness of `AttemptEnds` and of the workflow's step: Temporal dispatches
scheduled activities and workflow tasks until some worker finishes them. Requests, faults and the budget
are not fair. `realtime_stream` assumes weak fairness of each stream: the event loop runs it, the heartbeat
of `asyncio.wait_for` ends its wait, and an `EventSource` reconnects. Publication is not fair. Deadlock is
not checked where the system may really stop: a finished session, bounded identities, requests that have
all been answered.

### Findings

* `session_late_effect`: a late attempt of an old PAUSE, after PAUSE and RESUME have committed, finds
  the row in its source state and its event recorded, and moves the row with no event of its own
  (`db/session_lifecycle.py:101`), against `docs/ORCHESTRATION_POLICY.md:24`.
* `session_dead_letter`: when the last attempt commits unacknowledged, the dead letter's source state is
  stale, the store refuses it, and the workflow fails with the session alive
  (`adapters/temporal/session_bootstrap.py:174`), against `docs/ORCHESTRATION_POLICY.md:55`.
* `ingestion_restart`: `start` does not lock the row (`db/ingestion.py:46`); a late completion between
  its read and its write is overwritten, and the document that exists then blocks every later attempt.
* `consensus_unknown`: a leader of UNKNOWN feasibility is CONDITIONAL_CONSENSUS and selected also when its
  support is below `partial_threshold` (`application/consensus.py:459`), where
  `docs/CONSENSUS_MODEL.md:163` speaks of "at most".
* `impact_claims`: the analysis walks forward from the citing evidence (`application/source_impact.py:60`).
  Edges run from an artifact to what it rests on, so the walk finds the claims the evidence bears on and
  what those rest on, never the claims derived from them, against `docs/REQUIREMENTS.md:94` (FR-408) and
  `docs/MVP_BOUNDARY.md:42`. In the run evidence 1 supports claim 3 and claim 5 is derived from it; the stored,
  complete report whose roots contain 1 leaves out 5.
* `contract_boundary`: the domain models accept a text with U+0000, which jsonb cannot hold, decimals in the digits of
  another script, since Python's `\d` matches them (`domain/reasoning.py:109`) and migration 0005:114 asks for
  `[0-9]`, and identities without a version. Domain validation is not the earlier boundary
  of `docs/DATA_MODEL.md:388` for these; for all else `DomainIsStorable` says that it is.
* `solver_labels`: the solver's labels are Boolean constants among the formula's own
  (`adapters/z3_symbolic/reasoner.py:169`), and no name is reserved for them. The satisfiable
  `NOT agora_assertion_0` is answered BLOCK, where `docs/NEURO_SYMBOLIC.md:140` says "no solution exists".

`RowIsSomeEvent`, `EndedForGood`, `SuccessIsBacked`, `ImpactCovers`, `DomainIsStorable`, `EvidenceIsExact`,
`LostOnlyByFailing` and `VerdictIsExact` say what still holds in those cases.

Disagreements and sharp edges met while modelling, for which there is no run. The models follow the code:

* `db/reasoning_graph.py:256` – `truncated` says that a walk went past the bound, not that a node was left out.
* `db/agent_registry.py:221` – a turn repeated after its call was recorded asks the provider again and,
  given another answer, is refused for good; `docs/AGENT_MODEL.md:179` calls the repetition idempotent.
* `adapters/mcp/streamable_http.py:165` – the clean-up of a run may remove a newer run's entry. When
  a run times out, each of its callers cancels the operation upstream (`application/mcp_gateway.py:206`), and a
  late one may meet a newer run; these cancellations are not in `McpGateway`.
* `db/retrieval.py:46` – a retried audit meets its own primary key; `adapters/retrieval/postgres.py:170` –
  lexical search wants a READY document, which only the index stage makes.
* `application/formalization.py:131` – the status in an event ignores a rejection.
* `application/assumption_register.py:75` – the action of an evaluation is shown whatever the revision's
  validation status; `docs/DATA_MODEL.md:1221` lets only VALIDATED revisions be used.
* `application/replay.py:145` – an append between the two reads of the ledger is reported as
  LEDGER_MISMATCH; `api/routes/replay.py:197` builds the service without a MARL registry, against
  `docs/API_CONTRACTS.md:111`.
* `application/marl.py:679` – the bundle of an INCOMPLETE episode without transitions never verifies, although
  `docs/MARL_MODEL.md:216` makes it exportable; nor does one whose observations are of another environment than
  the episode's, which the store accepts. `VerdictIsExact` states both conditions.
* `application/marl.py:638` and `:260` – `verify_bundle` computes the hash of an incomplete marker only beside an open
  boundary and compares the manifest's implementation sets with nothing, against `docs/MARL_MODEL.md:201`, `:225` and
  `:236`. Either can be exchanged in a bundle that stays authentic; `VerdictIsExact` says nothing of the two.
* `adapters/inmemory/event_bus.py:66` – in memory a handler that raises ends the publish (`InvokeRaises`), and the groups
  after it never see the event, against lines 12 and 73 of the same file.
* `db/critique_handoff.py:37` – a response is looked up by the critique's newest version, so a critique that a person
  revises after its response is read as unanswered.
* `application/consensus.py:1251` – a PARETO_SET labels every score SAT, an UNKNOWN one too;
  `db/consensus.py:89` – the audit and the dissent view may read different results of a round.
* `db/ingestion.py:281` – a repeated report of the embedding stage takes a READY document back to EMBEDDED.
* `application/coordinator_policy.py:224` – `enforce` raises after its transition, so a caller that runs it
  in its own transaction rolls the FAILED row back.
* `adapters/temporal/session_bootstrap.py:138` and `:146` – a session the budget has failed leaves its
  workflow parked; a PAUSE or RESUME the workflow can no longer interpret is dropped without an event.

## 4. Proofs

All proofs are for every value of the constants under the named assumptions of the modules: identities
differ from the null value, tables given as constants are functions of the right kind, bounds and page
sizes are naturals, inputs are what the models that build them accept. TLC evaluates each assumption on the
runs' instances.

**The session.**

* `LifecycleLedgerProofs` – `Inv` joins the types, `ProjectionOfLedger`, `LedgerIsAPath` and the row
  constraints. The constraints alone are not inductive: that `started_at` is set in every state after
  INITIALIZING depends on the graph, and on `initialized_at` being set with it on leaving DRAFT.
  `ControlsAgree` is the agreement of the two readings of a control.
* `SessionControlProofs` – `SInv` holds with late attempts: the row is where some event led, every
  command in flight is *sendable*, its identity fixed by its sender. `RowHasItsEvent`,
  `ConstraintsHold` and `EndedSessionsStay` follow. `InStep` and `Identities` need `LateAttempts = FALSE`:
  they relate the workflow's position, the outcome of its activity and the row, and give
  `WorkflowStaysInStep` and `SessionRefinesLedger` (every step of the protocol is a step or a stutter of
  `LifecycleLedger`).
* `ReasoningLedgerProofs` – of the ledger, `LInv` says that what *each open transaction* sees (committed
  rows and its own) verifies, has unique identities and contains the requests it has worked off, and that
  only the holder of the head lock has rows of its own. The last part is what lets a commit append rows
  computed from an older head. Of the streams, `SInv` adds what each phase of a connection knows: its position is
  the length of what it has delivered, its page is what follows, and a connection that waits without a
  wake-up pending has read a ledger that no published commit has passed. `ReceivedIsPrefix`,
  `ReturnedIsComplete` and `NoLostWakeup` follow; the wake-up is cleared *before* the ledger is read, and the
  proof breaks without that order.

**The work of a session** (`SessionWorkProofs`).

* `MessagesLostOnlyByFailing` (`BusInv`): an acknowledgement in flight belongs to a handled message, and every delivery
  made is under way, has failed, or has reached a handler that returned or a message nobody can parse. So when the last
  delivery is over, all of them have failed or the message was not lost.
* `OperationsRunOnce` (`McpInv`): one owner per run in flight, every run in flight is in the table of runs,
  every stored result is a run's, and a good result stays while a caller of its operation can still
  ask. The property alone says nothing of who may start the next run, which is where it would break.
* `EpisodesStayReadable` (`MarlInv`): the row a transaction has flushed still fits the committed episode, because
  at most one transaction beyond `create` is under way.
* `VerdictsAreExact` (`RowsInv` beside `MarlInv`). The property is about the bundle of a finished episode, so it needs what
  the rows guarantee of one. `MarlInv` says that they read back; `RowsInv` adds that a decision has one row of each kind,
  that only the next decision may be open, and that what a transaction past the lock has read is still what is
  committed. Then the numbered rows have exactly one order (`PlacesAreTaken`, `OrderedIsSequence`), the episode is
  `Whole`, and its bundle is laid out as transitions, open boundary, marker (`ExportsInOrder`). `Authentic` is the
  conjunction of the verifier's integrity stages (`StagesInOrder`): the export passes each and rebuilds the
  episode, if a decision was closed in it and its observations are of its environment, which the store does not
  check (`ExportIsAuthentic`); every rewritten bundle fails one. Which one differs: a record changed in place breaks its seal,
  a record sealed again the episode's hash (`HashBinds`), an exchange the indices, a record dropped the lifecycle or
  the hash, an encoding the parser. Two changes are not
  among the rewritings, because the code does not check them: the marker without an open boundary, and the manifest's
  implementation sets. The theorem assumes that watermarks are positions of the ledger (`ObservationsAreNumbered`,
  `ledger_seq` in `domain/marl.py:338`) and, as the model does throughout, that hashes do not collide.
* `HashIdentifiesEpisode` goes beyond the rewritings the run tries: *any* authentic bundle whose manifest carries the hash of an
  episode has its status, its transitions in their order and its open decision. The marker is left out: without an
  open boundary `verify_bundle` does not compute the marker's own hash again (`application/marl.py:416`, `:638`), so its
  `reason` is bound to nothing but the hash it carries.
* `VerdictsAlwaysStand` (`ReplayInv`): a replay under way reads a finalised manifest whose document is stored, and
  neither changes again.
* `MembershipsReplay` (`TurnInv`): the intervention under way is the only one, its check still describes the members
  when it writes, the history is in order of rounds and, of each agent, one version is a member. The property
  is about a fold over the history, so the invariant also says that what was replayed for an earlier round
  does not depend on later events.

**The reasoning record** (`ReasoningRecordProofs`).

* `DraftsAreStorable`, from `DomainFitsTable`: shape by shape, of what the Pydantic models accept the functions and
  the constraints of the table accept exactly the portable part. `DomainFitsTable` is about any payload
  and envelope, not only those one edit away from a plain one; the classes of values are the model's.
* `SourcesRetractOnce` (`RetractionInv`): a request between its locks holds its key and the source, no answer is stored for
  its key, and the report, the source's status, the event and the stored answers change together.
* `ReportsCoverImpact` (`CoverInv`): a complete report lists everything the unbounded walk reaches, at its shortest
  distance. The walk's rows are the simple paths from the root (`PathTo`, `Walked`); on each path some first node is
  expanded, and from an expanded node either a later one is expanded too or the rest of the path lies in
  one segment (`OnTheWay`). `Effort` (nodes not yet expanded, weighted, and the queue) falls with each turn of the
  loop, so its bound is never what ends it. Pages of a segment are joined in full (`PagesHold`). Later commits add edges only
  from new nodes, so what was covered stays so.
* `PagesSkipNothing` (`ReaderInv`): what was due when the reader began is in the pages read or at or beyond the cursor,
  for every graph, depth and page size, while others write. The order of a result is by identity; what a
  commit adds lies behind everything older.
* `ChainsStayLinear`, `ReferencesStayFresh`, `CommandsStayAnswered` (`DelibInv`): the stored state is `Sound` after every
  prefix of a bundle or a round, so it is after a transaction of any length.

**What a workspace knows** (`IngestionProofs`, `KnowledgeBaseProofs`).

* `IngestionProofs` – `IInv` adds to the properties what each attempt's step says of the rows
  (`Progress`), the table's constraints (`Checked`) and, while attempts have not overlapped, that an
  attempt works on the row it has read (`Alone`). Without `Alone` neither `CheckpointIsTrue` nor
  `PermanentForGood` is inductive; the `ingestion_restart` run shows why.
* `IndexesHaveOneIdentity` (`IndexInv`): the locks of two batches exclude each other, and the rows a batch has written and not
  committed fit the index. `AnswersStayLawful` (`AnswerInv`): whatever a query holds was found under a decision
  that allowed it, and what has been retracted since is known to be gone.
* `HistoriesReplay` (`MemoryInv`): the events of an entry are in one line, and the one a transaction has inserted comes
  after those committed, because the trigger ordered it and its lock keeps others out.
* `ConfirmationsAreSound`, `FactsAreRecordedOfTheHead` (`FormalInv`): revisions are numbered without gap and form one
  lineage; a request that has passed its checks holds the formalization's lock, so the head it checked is the head
  it writes to. That the validator's typing and the solver's translation agree is proved for every formula that is a tree, by
  induction from the leaves. `EvidenceStaysExact` (`EvidenceInv`): what the solver was given is the
  stored revision, although no lock was held while it ran; a solution under the labels is a solution, so PROCEED is
  always true, and without a captured symbol no solution under the labels is no solution, so BLOCK is.

**Consensus** (`ConsensusProofs`). A round's context does not change, so the invariant `CInv` is short: every row is the
evaluation of its strategy, and none has failed. The work is in the strategies, for contexts of any size:

* The three are brought into one form (`Field`, `Supports`, `Keys`, `Scores`): alternatives, a support and a key for each, a
  ranking, and a leader with nobody ahead of it (`RankedFacts`, `OneLeader`).
* `FrontierKernel`: dominance with a margin is a strict order, also with missing values, and in a finite set whatever is
  below something is below something with nothing above it (`Kernel`). Hence an evaluation never meets an empty frontier.
* `ConsensusIsEvidenced`: a sum that is not zero has a term that is not zero, twice, down to one citation.
* `ConsensusIsMonotone`: exchanging one position changes one term of three sums (`SumExchanges`). The evidence of the
  alternative stays, so the same alternatives are compared; its support and its key can only grow through quotients
  that round down, blends and clamps; the others' stay; and a leader whose own key grows leads on, ties included
  (`LeaderStays`). It assumes what `WellFormed` says: one position per agent and alternative, weights that are not negative
  and an `evidence_weight` of at most 1. The default position weights are used.

Sums are unfolded from the library's fold by a function of partial sums (`PartialSums`), which is shown to exist, to be
unique and not to depend on the order of summation (`SumsExtract`).

Recursive functions over the naturals and over formulas are proved about by the *smallest missing number*: a set of
numbers that contains 0 and with `n` also `n + 1` has no least absentee (`Climb`, `NumbersClimb`, `Upward`). The
library's induction theorems take a predicate as a parameter, which the provers cannot instantiate; this form
takes a set. Orders are stated by rank, the number of elements before one, and not by a sorting
permutation.

The proofs corrected the models where TLC could not have: guards of a CASE that overlapped (a CASE then means
any of its arms; they are IF chains now), conjunctions and implications on one line that parsed
otherwise than they read, a fusion score whose rounding was exact only for the lists of the run
(now an assumption TLC evaluates), a verdict's precondition on numbers that lay beyond the bound, and
constants that only the configuration files kept in their types. Three definitions of `MarlEpisode` were brought into a
form the provers can unfold, with the same states: picking lines by rank (`ElementsAt`), the update of a row, and the
rewritings of a bundle, each under a name.

Type invariants are proved where a reader relies on them (`SessionTypes`, `StreamTyping`, `McpTyping`, `MarlTyping`, `ReplayTyping`, `TurnsTyping`,
`MemoryTyping`, `ConsensusTyped`) and in no run: the theorems are stronger. The other modules' proofs carry the types they
need in their invariants.

Every safety property of the passing runs is stated by a theorem. Only model-checked: liveness under fairness
(`ControlsHonoured`, `Delivered`), which is out of the prover's reach, and the runs that expect a violation, which show
a behaviour and not its absence.

## 5. Not modelled

* Explanations and audit views read and render records of the other components.
* Decomposition, experts and prompts: validation and assembly of text for a model.
* Metrics and simulation: floating-point evaluation without protocol state.
* Adapters to LLMs, MinIO, Redis and secrets: pure I/O. The API shell: parsing, authentication, error
  formats. The frontend displays the API's answers.
* Tenancy: row-level security and grants of the migrations. Every module is about one workspace.
* Parsing, chunking, embedding and ranking are computations; their results are identities or a choice.
  Of consensus, configured weight tables, ratios, derivations, explanations and the input hash are left
  out. What a provider answers is nondeterministic, and so is which solution or contradiction the solver finds and
  whether it finds one.
* Timestamps are abstracted to whether they are set, or to small days where code compares them.
* Temporal, PostgreSQL, JetStream and upstream tool servers are modelled by the behaviour the code relies
  on and marked external in the map.

## 6. Plan

The model covers the components that keep state, and every safety property it checks is proved. What would come next is
width: the parts of section 5 that keep records of their own, audit and explanations first, and the configured
weight tables of the consensus.
