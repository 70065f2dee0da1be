----------------------------- MODULE MarlEpisode -----------------------------
(***************************************************************************)
(* The trajectory of one MARL episode (backend/app/domain/marl.py): a      *)
(* coordinator's decisions, each a boundary captured before it and a       *)
(* transition that closes it, stored append-only (db/marl.py), finalised   *)
(* COMPLETE or INCOMPLETE, exported as a manifest and a file of records    *)
(* and verified offline (application/marl.py).                             *)
(*                                                                         *)
(* Every store operation but `create` takes a transaction-scoped advisory  *)
(* lock on the episode before it reads it; the caller owns the             *)
(* transaction, so its beginning, its writes and its end are steps.        *)
(*                                                                         *)
(* A hash identifies its preimage: a record carries, as `sealed`, the      *)
(* content its hashes were computed from, and a hash check is an equality. *)
(***************************************************************************)
EXTENDS Integers, Sequences, FiniteSets, TLC

CONSTANTS
    Writers,      \* concurrent transactions of the coordinator
    Captures,     \* the decisions a boundary may record
    Closings,     \* the outcomes a transition may record
    Registry,     \* implementations the verifier has
    MaxDecisions  \* bound: decision boundaries per episode

VARIABLES
    marl,         \* the episode's row and records, as committed
    trajectoryTx  \* Writers -> the transaction in progress

marlVars == <<marl, trajectoryTx>>

ASSUME CapturesAreFinite == IsFiniteSet(Captures) /\ IsFiniteSet(Closings) /\ MaxDecisions \in Nat

\* The watermark of an observation is a position of the ledger (ledger_seq).
ASSUME ObservationsAreNumbered ==
    /\ \A c \in Captures : /\ "observation" \in DOMAIN c
                           /\ "seq" \in DOMAIN c.observation /\ c.observation.seq \in Nat
    /\ \A c \in Closings : "seq" \in DOMAIN c.post /\ c.post.seq \in Nat

EpisodeScope == "session"
EpisodeEnvironment == "env1"
NoRecord == [kind |-> "none"]

\* The elements of a sequence at some places, in their order.
ElementsAt(s, places) ==
    [n \in 1..Cardinality(places) |->
        s[CHOOSE k \in places : Cardinality({j \in places : j < k}) = n - 1]]

-----------------------------------------------------------------------------
(* What the models accept.                                                 *)

\* A feature is computed from one captured source, again or not the same.
Feature(name, reproducible) == [name |-> name, reproducible |-> reproducible]

\* An observation of a scope at a ledger watermark.
Observation(scope, env, seq, feature) == [scope |-> scope, env |-> env, seq |-> seq, feature |-> feature]

\* A decision names a proposal unless there was none, and an execution exactly
\* when it accepts a feasible proposal.
DecisionShape(c) ==
    /\ c.outcome = "NO_PROPOSAL" <=> ~c.proposed
    /\ c.outcome = "ACCEPTED" <=> c.executed
    /\ c.outcome = "ACCEPTED" => c.feasibility = "SAT"

Boundary(i, c) == [kind |-> "DECISION_BOUNDARY", index |-> i, decision |-> c]

\* The five metrics in their fixed order; the last is a cost.
Metrics == 0..4
LowerBetter == {4}

ExactDelta(pre, post, metric) == IF metric \in LowerBetter THEN pre - post ELSE post - pre

\* An input is observed, with a value before and after, or neutral and worth 0.
BuildRewardVector(inputs) ==
    [o \in Metrics |->
        inputs[o] @@ [value |-> IF inputs[o].status = "OBSERVED"
                                THEN ExactDelta(inputs[o].pre, inputs[o].post, o) ELSE 0]]

RewardShape(reward) == reward.status # "OBSERVED" => reward.value = 0

SumOf(s) == LET Sum[n \in 0..Len(s)] == IF n = 0 THEN 0 ELSE Sum[n - 1] + s[n].value
            IN Sum[Len(s)]

CreditShape(credit) ==
    /\ credit.status = "NEUTRAL" => credit.agents = {} /\ credit.value = 0
    /\ credit.status = "SHARED" => Cardinality(credit.agents) >= 2

\* Credits add up to the reward they share; a neutral reward has one neutral
\* credit.
CreditsConserve(rewards, credits) ==
    \A o \in Metrics :
        LET mine == ElementsAt(credits, {n \in DOMAIN credits : credits[n].metric = o})
        IN /\ IF rewards[o].status # "OBSERVED"
              THEN Len(mine) = 1 /\ mine[1].status = "NEUTRAL"
              ELSE mine # <<>>
           /\ SumOf(mine) = rewards[o].value

Transition(b, c) ==
    [kind |-> "TRANSITION", index |-> b.index, boundary |-> b, terminal |-> c.terminal, post |-> c.post,
     rewards |-> BuildRewardVector(c.inputs), credits |-> c.credits]

TransitionShape(t) ==
    /\ t.post.seq >= t.boundary.decision.observation.seq
    /\ \A o \in Metrics : RewardShape(t.rewards[o])
    /\ \A n \in DOMAIN t.credits : CreditShape(t.credits[n])
    /\ CreditsConserve(t.rewards, t.credits)

\* Why an episode ended early, a short text of the coordinator's.
MarkerReasons == {"WORKER_INTERRUPTED", "SESSION_CANCELLED"}

Marker(i, boundary, reason) ==
    [kind |-> "incomplete", index |-> i, boundary |-> boundary, reason |-> reason]

-----------------------------------------------------------------------------
(* The episode a reader puts together from the rows.                       *)

TransitionsIn(records) == {r \in records : r.kind = "TRANSITION"}

InStepOrder(transitions) ==
    [n \in 1..Cardinality(transitions) |->
        CHOOSE t \in transitions : Cardinality({u \in transitions : u.index < t.index}) = n - 1]

Unclosed(records) ==
    {r \in records : /\ r.kind = "DECISION_BOUNDARY"
                     /\ \A t \in TransitionsIn(records) : t.index # r.index}

Pending(records) ==
    IF Unclosed(records) = {} THEN NoRecord
    ELSE CHOOSE b \in Unclosed(records) : \A o \in Unclosed(records) : o.index <= b.index

Episode(m) == [status |-> m.status, marker |-> m.marker, pending |-> Pending(m.records),
               transitions |-> InStepOrder(TransitionsIn(m.records))]

ScopeAgrees(e) ==
    /\ \A n \in DOMAIN e.transitions :
          /\ e.transitions[n].boundary.decision.observation.scope = EpisodeScope
          /\ e.transitions[n].post.scope = EpisodeScope
    /\ e.pending # NoRecord => e.pending.decision.observation.scope = EpisodeScope

StatusAgrees(e) ==
    LET n == Len(e.transitions)
    IN CASE e.status = "OPEN" -> /\ e.marker = NoRecord
                                 /\ e.pending # NoRecord => e.pending.index = n
         [] e.status = "COMPLETE" -> /\ n > 0 /\ e.transitions[n].terminal
                                     /\ e.pending = NoRecord /\ e.marker = NoRecord
         [] e.status = "INCOMPLETE" -> /\ e.marker # NoRecord
                                       /\ e.marker.index = n
                                       /\ e.marker.boundary = e.pending

\* What MarlEpisodeV1 accepts; a reader of anything else raises.
Lifecycle(e) ==
    /\ \A n \in DOMAIN e.transitions : e.transitions[n].index = n - 1
    /\ ScopeAgrees(e) /\ StatusAgrees(e)

-----------------------------------------------------------------------------
(* The store.                                                              *)

Idle == [op |-> "idle"]

\* The row of marl_episodes, and the operations of MarlTrajectoryService.
EpisodeStatuses == {"ABSENT", "OPEN", "COMPLETE", "INCOMPLETE"}
TrajectoryOperations == {"create", "capture", "close", "complete", "incomplete"}

MarlInit ==
    /\ marl = [status |-> "ABSENT", marker |-> NoRecord, records |-> {}]
    /\ trajectoryTx = [w \in Writers |-> Idle]

\* Mutant: the operations read the episode without the lock.
NoEpisodeLock(w) == TRUE

\* The advisory lock is held until the transaction ends; `create` takes none.
EpisodeUnlocked(w) ==
    \A v \in Writers \ {w} : trajectoryTx[v].op \in {"idle", "create"}

\* What a coordinator may ask for: the next decision, its outcome, an end, or
\* again what it has already asked for.
TrajectoryRequests ==
    {[op |-> "create"], [op |-> "complete"]}
    \cup {[op |-> "capture", record |-> Boundary(i, c)] :
              i \in 0..(MaxDecisions - 1), c \in {d \in Captures : DecisionShape(d)}}
    \cup {[op |-> "close", record |-> t] :
              t \in {u \in {Transition(b, c) : b \in {r \in marl.records : r.kind = "DECISION_BOUNDARY"},
                                               c \in Closings} : TransitionShape(u)}}
    \cup {[op |-> "incomplete", marker |-> Marker(i, b, reason)] :
              i \in 0..MaxDecisions, b \in {NoRecord} \cup Unclosed(marl.records), reason \in MarkerReasons}

Begin(w) ==
    /\ trajectoryTx[w] = Idle
    /\ \E request \in TrajectoryRequests :
          /\ (request.op = "create") = (marl.status = "ABSENT")
          /\ request.op = "create" \/ EpisodeUnlocked(w)
          /\ trajectoryTx' = [trajectoryTx EXCEPT ![w] =
                [op |-> request.op, request |-> request, read |-> Episode(marl)]]
    /\ UNCHANGED marl

\* The row of the same decision and kind, if it is there.
Existing(record) == {r \in marl.records : r.kind = record.kind /\ r.index = record.index}

MayCapture(e, b) == e.status = "OPEN" /\ e.pending = NoRecord /\ b.index = Len(e.transitions)

MayClose(e, t) == e.status = "OPEN" /\ e.pending = t.boundary /\ t.index = Len(e.transitions)

\* What the operation writes to the rows, {} when it raises. A status may only
\* leave OPEN (the trigger), a decision has one row of a kind (the unique index).
Written(tx) ==
    LET e == tx.read
        request == tx.request
        ended == [e EXCEPT !.status = "INCOMPLETE", !.marker = request.marker]
    IN CASE tx.op = "create" -> {r \in {[status |-> "OPEN"]} : marl.status = "ABSENT"}
         [] tx.op = "capture" -> {r \in {[record |-> request.record]} :
                                     MayCapture(e, request.record) /\ Existing(request.record) = {}}
         [] tx.op = "close" -> {r \in {[record |-> request.record]} :
                                   MayClose(e, request.record) /\ Existing(request.record) = {}}
         [] tx.op = "complete" -> {r \in {[status |-> "COMPLETE"]} :
                                      marl.status = "OPEN" /\ Lifecycle([e EXCEPT !.status = "COMPLETE"])}
         [] tx.op = "incomplete" -> {r \in {[status |-> "INCOMPLETE", marker |-> request.marker]} :
                                        marl.status = "OPEN" /\ Lifecycle(ended)}

With(m, row) ==
    CASE "record" \in DOMAIN row -> [m EXCEPT !.records = @ \cup {row.record}]
      [] OTHER -> [column \in DOMAIN m |-> IF column \in DOMAIN row THEN row[column] ELSE m[column]]

\* A write waits for a transaction that has written the same row.
KeyOfRow(row) == IF "record" \in DOMAIN row THEN <<row.record.kind, row.record.index>> ELSE <<"episode", 0>>

RowFree(w, row) ==
    \A v \in Writers \ {w} :
        trajectoryTx[v].op = "written" => KeyOfRow(trajectoryTx[v].row) # KeyOfRow(row)

\* The flush, and reading the episode back. An operation that raises, or that
\* cannot read back what it wrote, ends its transaction; so does a repeated one,
\* which finds its row and writes nothing.
Write(w) ==
    LET tx == trajectoryTx[w]
        rows == {r \in Written(tx) : Lifecycle(Episode(With(marl, r)))}
    IN /\ tx.op \notin {"idle", "written"}
       /\ \A r \in rows : RowFree(w, r)
       /\ trajectoryTx' = [trajectoryTx EXCEPT ![w] =
             IF rows = {} THEN Idle ELSE [op |-> "written", row |-> CHOOSE r \in rows : TRUE]]
       /\ UNCHANGED marl

CommitTrajectory(w) ==
    /\ trajectoryTx[w].op = "written"
    /\ marl' = With(marl, trajectoryTx[w].row)
    /\ trajectoryTx' = [trajectoryTx EXCEPT ![w] = Idle]

\* The caller's transaction rolls back, or its process dies.
AbortTrajectory(w) ==
    /\ trajectoryTx[w] # Idle
    /\ trajectoryTx' = [trajectoryTx EXCEPT ![w] = Idle]
    /\ UNCHANGED marl

MarlNext == \E w \in Writers : Begin(w) \/ Write(w) \/ CommitTrajectory(w) \/ AbortTrajectory(w)

MarlSpec == MarlInit /\ [][MarlNext]_marlVars

\* The types: a decision has one row of each kind, and records are those the
\* models accept.
MarlTypeOK ==
    /\ marl.status \in EpisodeStatuses
    /\ \A r \in marl.records : \/ r.kind = "DECISION_BOUNDARY" /\ DecisionShape(r.decision)
                               \/ r.kind = "TRANSITION" /\ TransitionShape(r)
    /\ \A r, s \in marl.records : r.kind = s.kind /\ r.index = s.index => r = s
    /\ \A w \in Writers : trajectoryTx[w].op \in {"idle", "written"} \cup TrajectoryOperations

-----------------------------------------------------------------------------
(* Export and verification.                                                *)

Line(record) == [bytes |-> "canonical", record |-> record, sealed |-> record]

RecordsOf(e) ==
    e.transitions \o (IF e.pending = NoRecord THEN <<>> ELSE <<e.pending>>)
                  \o (IF e.marker = NoRecord THEN <<>> ELSE <<e.marker>>)

EpisodeHash(status, environment, scope, transitions, pending, marker) ==
    [status |-> status, environment |-> environment, scope |-> scope,
     transitions |-> transitions, pending |-> pending, marker |-> marker]

\* The implementations the records name, collected for the manifest. (An
\* observation and its feature share a name; the rest have one each.)
ImplementationsOf(transitions) ==
    UNION {{transitions[n].boundary.decision.observation.feature.name, transitions[n].post.feature.name,
            "coordinator", "reward", "credit"} : n \in DOMAIN transitions}

\* The code identity is pinned and hashed like the environment.
ExportEpisode(e) ==
    LET lines == [n \in DOMAIN RecordsOf(e) |-> Line(RecordsOf(e)[n])]
    IN [entries |-> {"manifest.json", "trajectory.jsonl"},
        lines |-> lines,
        manifest |-> [bytes |-> "canonical", status |-> e.status, environment |-> EpisodeEnvironment,
                      digest |-> lines, count |-> Len(lines),
                      implementations |-> ImplementationsOf(e.transitions),
                      hash |-> EpisodeHash(e.status, EpisodeEnvironment, EpisodeScope,
                                           e.transitions, e.pending, e.marker)]]

\* The files in the order they are read, and what parsing says of their bytes.
FilesOf(b) == <<b.manifest>> \o b.lines

ParseFailure(bytes) ==
    CASE bytes = "not utf8" -> "INVALID_UTF8"
      [] bytes = "not json" -> "INVALID_JSON"
      [] bytes = "too deep" -> "RESOURCE_LIMIT_EXCEEDED"
      [] bytes = "bom" -> "NONCANONICAL_ENCODING"
      [] OTHER -> "none"

FirstUnparsed(files) == ElementsAt(files, {n \in DOMAIN files : ParseFailure(files[n].bytes) # "none"})

Has(b, bytes) == \E n \in DOMAIN FilesOf(b) : FilesOf(b)[n].bytes = bytes

\* A transition or a boundary the closed schema accepts.
RecordShape(r) ==
    CASE r.kind = "TRANSITION" -> TransitionShape(r)
      [] r.kind = "DECISION_BOUNDARY" -> DecisionShape(r.decision)
      [] OTHER -> TRUE

OfKind(b, kind) == ElementsAt(b.lines, {n \in DOMAIN b.lines : b.lines[n].record.kind = kind})

\* Gapless transitions, then at most one boundary with its marker, then at most
\* one marker.
PositionsFollow(b) ==
    LET ts == OfKind(b, "TRANSITION")
        bs == OfKind(b, "DECISION_BOUNDARY")
        ms == OfKind(b, "incomplete")
        n == Len(b.lines)
    IN /\ \A i \in DOMAIN ts : ts[i].record.index = i - 1
       /\ Len(bs) <= 1 /\ Len(ms) <= 1
       /\ bs # <<>> => /\ bs[1].record.index = Len(ts)
                       /\ ms # <<>> /\ n >= 2 /\ b.lines[n - 1] = bs[1] /\ b.lines[n] = ms[1]
       /\ ms # <<>> => b.lines[n] = ms[1]

\* The hashes of the transitions, and of the marker when there is a boundary.
HashesHold(b) ==
    LET boundaries == OfKind(b, "DECISION_BOUNDARY")
    IN /\ \A n \in DOMAIN b.lines :
             \/ b.lines[n].record = b.lines[n].sealed
             \/ b.lines[n].record.kind = "incomplete" /\ boundaries = <<>>
       /\ boundaries # <<>> => b.lines[Len(b.lines)].record.boundary = boundaries[1].sealed

EnvironmentAgrees(b) ==
    \A n \in DOMAIN OfKind(b, "TRANSITION") :
        LET t == OfKind(b, "TRANSITION")[n].record
        IN {t.boundary.decision.observation.env, t.post.env} = {b.manifest.environment}

Rebuilt(b) ==
    LET only(s) == IF s = <<>> THEN NoRecord ELSE s[1].record
    IN [status |-> b.manifest.status,
        transitions |-> [n \in DOMAIN OfKind(b, "TRANSITION") |-> OfKind(b, "TRANSITION")[n].record],
        pending |-> only(OfKind(b, "DECISION_BOUNDARY")), marker |-> only(OfKind(b, "incomplete"))]

\* The scope is read from the first transition: there has to be one.
Rebuildable(b) == Rebuilt(b).transitions # <<>> /\ Lifecycle(Rebuilt(b))

\* Mutant: the manifest's episode hash is not compared with the records.
EpisodeHashUnchecked(b) == b.manifest.hash

HashOfRebuilt(b) ==
    LET e == Rebuilt(b)
        sealed(kind) == [n \in DOMAIN OfKind(b, kind) |-> OfKind(b, kind)[n].sealed]
        one(kind) == IF sealed(kind) = <<>> THEN NoRecord ELSE sealed(kind)[1]
    IN EpisodeHash(e.status, b.manifest.environment, e.transitions[1].boundary.decision.observation.scope,
                   sealed("TRANSITION"), one("DECISION_BOUNDARY"), one("incomplete"))

\* What the replay of a transition asks of the registry, in order: both
\* features, the decision, the rewards; a credit has only to be known. `again`
\* says whether the implementation computes the recorded value from the captured
\* inputs.
ReplaySteps(t) ==
    LET decided == t.boundary.decision
        feature(o) == [name |-> o.feature.name, again |-> o.feature.reproducible]
    IN <<feature(decided.observation), feature(t.post),
         [name |-> "coordinator", again |-> decided.redecided],
         [name |-> "reward", again |-> \A o \in Metrics : t.rewards[o].status = "OBSERVED" =>
             t.rewards[o].value = ExactDelta(t.rewards[o].pre, t.rewards[o].post, o)],
         [name |-> "credit", again |-> TRUE]>>

StepFailure(step) ==
    IF step.name \notin Registry THEN "UNKNOWN_IMPLEMENTATION"
    ELSE IF ~step.again THEN "REPLAY_MISMATCH" ELSE "none"

\* The first step of the first transition the replay stops at, and why.
FailedSteps(t) == {n \in DOMAIN ReplaySteps(t) : StepFailure(ReplaySteps(t)[n]) # "none"}

ReplayFailure(transitions) ==
    LET earliest(places) == CHOOSE n \in places : \A k \in places : n <= k
        bad == {n \in DOMAIN transitions : FailedSteps(transitions[n]) # {}}
        stopped == transitions[earliest(bad)]
    IN IF bad = {} THEN "none" ELSE StepFailure(ReplaySteps(stopped)[earliest(FailedSteps(stopped))])

\* The stages in the order of the code, each with the failure it returns.
VerifyBundle(b) ==
    IF b.entries # {"manifest.json", "trajectory.jsonl"} THEN "BUNDLE_ENTRY_SET"
    ELSE IF Has(b, "oversized") THEN "RESOURCE_LIMIT_EXCEEDED"
    ELSE IF FirstUnparsed(FilesOf(b)) # <<>> THEN ParseFailure(FirstUnparsed(FilesOf(b))[1].bytes)
    ELSE IF Has(b, "version 2") THEN "UNSUPPORTED_SCHEMA_VERSION"
    ELSE IF \E n \in DOMAIN b.lines : ~RecordShape(b.lines[n].record) THEN "SCHEMA_VIOLATION"
    ELSE IF Has(b, "spaced") THEN "NONCANONICAL_ENCODING"
    ELSE IF b.manifest.digest # b.lines \/ b.manifest.count # Len(b.lines) THEN "MANIFEST_MISMATCH"
    ELSE IF ~PositionsFollow(b) THEN "ORDER_VIOLATION"
    ELSE IF ~HashesHold(b) THEN "HASH_MISMATCH"
    ELSE IF ~EnvironmentAgrees(b) \/ ~Rebuildable(b) THEN "REFERENCE_MISMATCH"
    ELSE IF HashOfRebuilt(b) # b.manifest.hash THEN "HASH_MISMATCH"
    ELSE IF ReplayFailure(Rebuilt(b).transitions) # "none" THEN ReplayFailure(Rebuilt(b).transitions)
    ELSE IF b.manifest.status = "INCOMPLETE" THEN "EPISODE_INCOMPLETE" ELSE "VERIFIED"

IntegrityValid(code) == code \in {"UNKNOWN_IMPLEMENTATION", "REPLAY_MISMATCH", "EPISODE_INCOMPLETE", "VERIFIED"}

-----------------------------------------------------------------------------
(* Properties.                                                             *)

\* Whatever two transactions do, the rows they leave can be read: the decisions
\* are gapless, and the marker names the first one left open (db/marl.py reads
\* the episode back through MarlEpisodeV1, which raises on anything else, so an
\* episode that broke this could never be read again).
EpisodeReadable == marl.status # "ABSENT" => Lifecycle(Episode(marl))

\* A record with a later observation, or a marker with another reason; and a
\* manifest whose digest is computed again.
Changed(r) == CASE r.kind = "TRANSITION" -> [r EXCEPT !.post.seq = @ + 1]
                [] r.kind = "incomplete" -> [r EXCEPT !.reason = CHOOSE x \in MarkerReasons : x # r.reason]
                [] OTHER -> [r EXCEPT !.decision.observation.seq = @ + 1]

Digested(b) == [b EXCEPT !.manifest = [@ EXCEPT !.digest = b.lines, !.count = Len(b.lines)]]

\* A file written again: a record changed, in place or with its own hashes, two
\* records exchanged, the last one dropped, the manifest encoded otherwise.
Altered(b, i) == [b EXCEPT !.lines[i].record = Changed(@)]
Resealed(b, i) == [b EXCEPT !.lines[i] = Line(Changed(@.record))]
Exchanged(b, i, j) == [b EXCEPT !.lines[i] = b.lines[j], !.lines[j] = b.lines[i]]
Shortened(b) == [b EXCEPT !.lines = SubSeq(@, 1, Len(@) - 1)]
Encoded(b, bytes) == [b EXCEPT !.manifest.bytes = bytes]

\* The lines whose hash the verifier computes again: all but the marker of an
\* episode with no decision open.
Rehashed(b) ==
    {n \in DOMAIN b.lines : b.lines[n].record.kind = "incomplete" => OfKind(b, "DECISION_BOUNDARY") # <<>>}

\* Bundles of which one file was written again, with the manifest's digest or
\* without.
RecordChanged(b) ==
    {Altered(b, i) : i \in DOMAIN b.lines} \cup {Digested(Altered(b, i)) : i \in Rehashed(b)}
        \cup {Digested(Resealed(b, i)) : i \in DOMAIN b.lines}

RecordMoved(b) == {Digested(Exchanged(b, i, j)) : i, j \in DOMAIN b.lines} \ {b}

Rewritten(b) ==
    RecordChanged(b) \cup RecordMoved(b) \cup {Digested(Shortened(b))}
        \cup {Encoded(b, x) : x \in {"bom", "spaced", "version 2", "not json"}}

\* A finalised episode exports to a bundle the verifier calls authentic exactly
\* when a decision in it was closed and its observations were made in the
\* episode's environment (the store checks neither), and VERIFIED exactly when
\* besides the episode is complete and replays. A bundle written again is not
\* authentic when a record is changed whose hash is computed again, or changed
\* with its own hashes, when records are exchanged or the last is dropped, or
\* when the manifest is encoded otherwise (verify_bundle against
\* export_episode). Two rewritings pass and are left out of Rewritten, although
\* docs/MARL_MODEL.md speaks of checked hashes and pinned implementations: of a
\* marker without an open boundary, whose hash is not computed again, and of the
\* manifest's implementations, which are compared with nothing.
VerdictIsExact ==
    LET e == Episode(marl)
        b == ExportEpisode(e)
    IN marl.status \in {"COMPLETE", "INCOMPLETE"} =>
          /\ IntegrityValid(VerifyBundle(b)) <=> e.transitions # <<>> /\ EnvironmentAgrees(b)
          /\ VerifyBundle(b) = "VERIFIED" <=>
                e.status = "COMPLETE" /\ EnvironmentAgrees(b) /\ ReplayFailure(e.transitions) = "none"
          /\ e.transitions # <<>> => \A d \in Rewritten(b) : ~IntegrityValid(VerifyBundle(d))
=============================================================================
