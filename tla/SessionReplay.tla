---------------------------- MODULE SessionReplay ----------------------------
(***************************************************************************)
(* The manifest of a session's run and its replay.                         *)
(*                                                                         *)
(* A manifest is created with the session (its pins), finalised once with  *)
(* a document put in the object store under its digest                     *)
(* (application/run_manifest.py, db/run_manifest.py), and replayed         *)
(* (application/replay.py): the document and the ledger are read, the      *)
(* ledger is verified and read again, and each step is executed with the   *)
(* implementation it pins (STRICT), with one the request selects           *)
(* (TOLERANT), or a new session is launched (LIVE).                        *)
(*                                                                         *)
(* A document is identified by its digest, so the object of a digest is    *)
(* the document itself. The events of the ledger are counted: its          *)
(* integrity is the subject of ReasoningLedger.                            *)
(***************************************************************************)
EXTENDS Integers, Sequences, FiniteSets

CONSTANTS
    Finalizers,       \* concurrent finalisations of the manifest
    Replays,          \* replay requests
    Documents,        \* documents a finalisation may bring
    Implementations,  \* key -> the registered replay implementation
    ReplayRequests,   \* the requests: mode, digest, role, confirmed, selections
    Launches,         \* what the live launcher may answer; {} when there is none
    MarlAvailable,    \* whether the service has a MARL registry
    MaxLedger         \* bound: events appended to the session's ledger

VARIABLES
    manifestRow,      \* the manifest row, as committed
    objects,          \* the documents in the object store
    ledgerLength,     \* events of the session's ledger
    finalizing,       \* Finalizers -> the finalisation in progress
    replaying         \* Replays -> the replay in progress, then its result

replayVars == <<manifestRow, objects, ledgerLength, finalizing, replaying>>

Pins == "pins"

\* A step that is executed names its implementation; a recorded one is not
\* executed again; an external one says that it may be.
CoherentStep(s) ==
    /\ s.policy # "RECORDED" => s.implementation.key # "none"
    /\ s.policy = "RECORDED" => ~s.reexecutable
    /\ s.policy = "EXTERNAL" => s.reexecutable

\* Step identities are unique and in order by their place in the sequence.
ValidDocument(d) == d.steps # <<>> /\ \A n \in DOMAIN d.steps : CoherentStep(d.steps[n])

ASSUME DocumentsAreValid ==
    /\ \A d \in Documents : ValidDocument(d) /\ Len(d.steps) \in Nat /\ DOMAIN d.steps = 1..Len(d.steps)
    /\ MaxLedger \in Nat

\* What an implementation that is registered as deterministic promises.
ASSUME DeterministicRunsAgree ==
    \A k \in DOMAIN Implementations :
        Implementations[k].deterministic => \A x, y \in Implementations[k].outcomes : x = y

Free == [stage |-> "idle"]

\* The rows of reproducibility_manifests: created with the session's pins,
\* finalised with a document.
ManifestRows ==
    {[status |-> "ABSENT"]} \cup [status : {"CREATED"}, pins : {Pins}]
    \cup [status : {"FINALIZED"}, pins : {Pins}, document : Documents]

\* A finalisation and a replay under way.
Finalizations == {Free} \cup [stage : {"locked", "stored"}, document : Documents]
HistoricalReplays ==
    [stage : {"loaded", "verified"}, request : ReplayRequests, document : Documents, events : 0..MaxLedger,
     executed : Seq((UNION {Implementations[k].outcomes : k \in DOMAIN Implementations}) \cup {[recorded |-> TRUE]}),
     differences : SUBSET (Nat \X {"IMPLEMENTATION", "OUTPUT", "STATUS", "TIMING_SENSITIVE"})]

ReplayInit ==
    /\ manifestRow = [status |-> "ABSENT"]
    /\ objects = {} /\ ledgerLength = 0
    /\ finalizing = [f \in Finalizers |-> Free]
    /\ replaying = [r \in Replays |-> Free]

-----------------------------------------------------------------------------
(* The manifest.                                                           *)

\* Created with the session; creating it again finds the same row.
CreateManifest ==
    /\ manifestRow.status = "ABSENT"
    /\ manifestRow' = [status |-> "CREATED", pins |-> Pins]
    /\ UNCHANGED <<objects, ledgerLength, finalizing, replaying>>

\* The row is read FOR UPDATE and stays locked until the transaction ends.
ManifestUnlocked(f) == \A g \in Finalizers \ {f} : finalizing[g].stage = "idle"

BeginFinalize(f, d) ==
    /\ finalizing[f] = Free
    /\ manifestRow.status # "ABSENT"
    /\ ManifestUnlocked(f)
    /\ d.pins = manifestRow.pins
    /\ finalizing' = [finalizing EXCEPT ![f] = [stage |-> "locked", document |-> d]]
    /\ UNCHANGED <<manifestRow, objects, ledgerLength, replaying>>

\* The object is stored before the row says so: a crash leaves it unreferenced.
PutDocument(f) ==
    /\ finalizing[f].stage = "locked"
    /\ objects' = objects \cup {finalizing[f].document}
    /\ finalizing' = [finalizing EXCEPT ![f].stage = "stored"]
    /\ UNCHANGED <<manifestRow, ledgerLength, replaying>>

\* A finalised row is immutable: the same finalisation returns it, another one
\* conflicts.
StillCreated == manifestRow.status = "CREATED"

FinishFinalize(f) ==
    /\ finalizing[f].stage = "stored"
    /\ manifestRow' = IF StillCreated
                      THEN [status |-> "FINALIZED", pins |-> manifestRow.pins,
                            document |-> finalizing[f].document]
                      ELSE manifestRow
    /\ finalizing' = [finalizing EXCEPT ![f] = Free]
    /\ UNCHANGED <<objects, ledgerLength, replaying>>

LoseFinalize(f) ==
    /\ finalizing[f] # Free
    /\ finalizing' = [finalizing EXCEPT ![f] = Free]
    /\ UNCHANGED <<manifestRow, objects, ledgerLength, replaying>>

\* The session goes on: nothing asks that it has ended.
AppendToLedger ==
    /\ ledgerLength < MaxLedger
    /\ ledgerLength' = ledgerLength + 1
    /\ UNCHANGED <<manifestRow, objects, finalizing, replaying>>

-----------------------------------------------------------------------------
(* A replay.                                                               *)

\* The route's check: a live replay is confirmed by someone who may execute.
MayReplay(request) == request.mode = "LIVE" => request.role \in {"ADMIN", "RESEARCHER"} /\ request.confirmed

RequestShape(request) == request.mode = "STRICT" => request.selections = <<>>

Result(request, outcome, reason, differences, executed) ==
    [stage |-> "done", mode |-> request.mode, digest |-> request.digest, outcome |-> outcome, reason |-> reason,
     integrity |-> reason \notin {"LEDGER_INTEGRITY", "LEDGER_MISMATCH"}, differences |-> differences,
     executed |-> executed]

Failed(request, reason, executed) == Result(request, "FAILED", reason, {}, executed)

\* The row of exactly this document, its object, and the ledger as it is now.
LoadHistory(r, request) ==
    /\ replaying[r] = Free
    /\ MayReplay(request) /\ RequestShape(request)
    /\ replaying' = [replaying EXCEPT ![r] =
          IF manifestRow.status # "FINALIZED" \/ manifestRow.document # request.digest
          THEN Failed(request, "HISTORICAL_REPLAY_UNAVAILABLE", <<>>)
          ELSE IF ~(DOMAIN request.selections \subseteq DOMAIN manifestRow.document.steps)
          THEN Failed(request, "MANIFEST_MISMATCH", <<>>)
          ELSE [stage |-> "loaded", request |-> request, document |-> manifestRow.document,
                events |-> ledgerLength, executed |-> <<>>, differences |-> {}]]
    /\ manifestRow.status = "FINALIZED" => manifestRow.document \in objects  \* else the load raises
    /\ UNCHANGED <<manifestRow, objects, ledgerLength, finalizing>>

MarlFailure(d) ==
    IF d.bundles = "none" THEN "none"
    ELSE IF ~MarlAvailable THEN "UNKNOWN_IMPLEMENTATION"
    ELSE IF d.bundles = "failing" THEN "MARL_REPLAY_FAILED" ELSE "none"

\* The ledger is verified and read again in the same transaction, which sees
\* what has been committed since the first read.
VerifyHistory(r) ==
    LET job == replaying[r]
        marl == MarlFailure(job.document)
    IN /\ job.stage = "loaded"
       /\ replaying' = [replaying EXCEPT ![r] =
             IF job.events # ledgerLength THEN Failed(job.request, "LEDGER_MISMATCH", <<>>)
             ELSE IF marl # "none" THEN Failed(job.request, marl, <<>>)
             ELSE [job EXCEPT !.stage = "verified"]]
       /\ UNCHANGED <<manifestRow, objects, ledgerLength, finalizing>>

\* Mutant: strict replay runs any implementation it finds.
AnyImplementation(implementation) == TRUE

Reproducible(implementation) == implementation.deterministic /\ ~implementation.external

\* The implementation registered under an identity's id and version, if any.
Resolve(identity) == {Implementations[k] : k \in {identity.key} \cap DOMAIN Implementations}

\* An execution reports who ran and what came out.
SameExecution(step, execution) ==
    /\ execution.implementation = step.implementation
    /\ execution.output = step.output /\ execution.status = step.status

StrictFailure(step, execution) ==
    IF execution.implementation # step.implementation THEN "UNKNOWN_IMPLEMENTATION" ELSE "OUTPUT_MISMATCH"

Differences(n, step, execution) ==
    {<<n, field>> : field \in
        (IF execution.implementation # step.implementation THEN {"IMPLEMENTATION"} ELSE {})
        \cup (IF execution.output # step.output THEN {"OUTPUT"} ELSE {})
        \cup (IF execution.status # step.status
              THEN {IF step.timing THEN "TIMING_SENSITIVE" ELSE "STATUS"} ELSE {})}

Position(job) == Len(job.executed) + 1

\* One step of a STRICT or TOLERANT replay: skipped, refused, or executed.
ExecuteStep(r) ==
    LET job == replaying[r]
        n == Position(job)
        step == job.document.steps[n]
        strict == job.request.mode = "STRICT"
        identity == IF n \in DOMAIN job.request.selections THEN job.request.selections[n] ELSE step.implementation
        found == Resolve(identity)
        passed(execution, differences) ==
            [job EXCEPT !.executed = Append(@, execution), !.differences = @ \cup differences]
    IN /\ job.stage = "verified" /\ job.request.mode # "LIVE"
       /\ n \in DOMAIN job.document.steps
       /\ \/ /\ step.policy = "RECORDED"
             /\ replaying' = [replaying EXCEPT ![r] = passed([recorded |-> TRUE], {})]
          \/ /\ step.policy # "RECORDED" /\ found = {}
             /\ replaying' = [replaying EXCEPT ![r] = Failed(job.request, "UNKNOWN_IMPLEMENTATION", job.executed)]
          \/ \E implementation \in found :
                /\ step.policy # "RECORDED"
                /\ strict /\ ~Reproducible(implementation)
                /\ replaying' = [replaying EXCEPT ![r] =
                      Failed(job.request, "NONDETERMINISTIC_IMPLEMENTATION", job.executed)]
          \/ \E implementation \in found : \E execution \in implementation.outcomes :
                /\ step.policy # "RECORDED"
                /\ strict => Reproducible(implementation)
                /\ replaying' = [replaying EXCEPT ![r] =
                      IF strict /\ ~SameExecution(step, execution)
                      THEN Failed(job.request, StrictFailure(step, execution), job.executed)
                      ELSE passed(execution, Differences(n, step, execution))]
       /\ UNCHANGED <<manifestRow, objects, ledgerLength, finalizing>>

\* All steps done: STRICT is verified, TOLERANT matched or different.
FinishReplay(r) ==
    LET job == replaying[r]
        outcome == IF job.request.mode = "STRICT" THEN "VERIFIED"
                   ELSE IF job.differences = {} THEN "MATCHED" ELSE "DIFFERENT"
    IN /\ job.stage = "verified" /\ job.request.mode # "LIVE"
       /\ Position(job) \notin DOMAIN job.document.steps
       /\ replaying' = [replaying EXCEPT ![r] =
             Result(job.request, outcome, "none", job.differences, job.executed)]
       /\ UNCHANGED <<manifestRow, objects, ledgerLength, finalizing>>

\* The launcher starts a new session; its answer is checked after the launch.
LaunchLive(r) ==
    LET job == replaying[r]
    IN /\ job.stage = "verified" /\ job.request.mode = "LIVE"
       /\ \/ /\ Launches = {}
             /\ replaying' = [replaying EXCEPT ![r] = Failed(job.request, "LIVE_LAUNCH_UNAVAILABLE", <<>>)]
          \/ \E launch \in Launches :
                replaying' = [replaying EXCEPT ![r] =
                    IF launch.linked /\ launch.fresh
                    THEN Result(job.request, "LIVE_STARTED", "none", {}, <<>>)
                    ELSE Failed(job.request, "INVALID_LIVE_IDENTITY", <<>>)]
       /\ UNCHANGED <<manifestRow, objects, ledgerLength, finalizing>>

ReplayNext ==
    \/ CreateManifest \/ AppendToLedger
    \/ \E f \in Finalizers : \/ \E d \in Documents : BeginFinalize(f, d)
                             \/ PutDocument(f) \/ FinishFinalize(f) \/ LoseFinalize(f)
    \/ \E r \in Replays : \/ \E request \in ReplayRequests : LoadHistory(r, request)
                          \/ VerifyHistory(r) \/ ExecuteStep(r) \/ FinishReplay(r) \/ LaunchLive(r)

ReplaySpec == ReplayInit /\ [][ReplayNext]_replayVars

\* The types; and the document a finalised row names is in the object store.
ReplayTypeOK ==
    /\ manifestRow \in ManifestRows /\ objects \subseteq Documents /\ ledgerLength \in 0..MaxLedger
    /\ manifestRow.status = "FINALIZED" => manifestRow.document \in objects
    /\ finalizing \in [Finalizers -> Finalizations]
    /\ \A r \in Replays : replaying[r].stage \in {"idle", "done"} \/ replaying[r] \in HistoricalReplays

-----------------------------------------------------------------------------
(* Properties.                                                             *)

Reproduces(d, executed) ==
    \A n \in DOMAIN d.steps : d.steps[n].policy = "RECORDED" \/ SameExecution(d.steps[n], executed[n])

\* A verdict stands: a strict replay that verified, or a tolerant one that
\* matched, ran every executable step of the document the manifest still names
\* with the pinned implementation, the same output and the same status; and two
\* strict replays of it never disagree, unless the ledger moved under one of them
\* (SessionReplayService against RunManifestService.finalize).
VerdictsStand ==
    LET Done == {r \in Replays : replaying[r].stage = "done"}
        Settled == {r \in Done : /\ replaying[r].mode = "STRICT"
                                 /\ replaying[r].reason \notin {"LEDGER_MISMATCH", "HISTORICAL_REPLAY_UNAVAILABLE"}}
    IN /\ \A r \in Done : replaying[r].outcome \in {"VERIFIED", "MATCHED"} =>
             /\ manifestRow.document = replaying[r].digest
             /\ Reproduces(replaying[r].digest, replaying[r].executed)
       /\ \A r, s \in Settled : replaying[r].outcome = replaying[s].outcome /\ replaying[r].reason = replaying[s].reason
=============================================================================
