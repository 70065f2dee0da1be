----------------------------- MODULE Ingestion -----------------------------
(***************************************************************************)
(* Ingestion of one source under one caller-allocated operation identity.  *)
(*                                                                         *)
(* An attempt of the ingest_source activity is a sequence of short         *)
(* transactions on the operation's checkpoint row, with the reading of the *)
(* object and the parsing in between.  Attempts are retried, may die       *)
(* between any two transactions, and a timed-out attempt may run beside    *)
(* its retry.  acquired, complete, fail and record_downstream_stage lock   *)
(* the row they read; start reads it under an advisory lock that only      *)
(* other starts take, and writes the columns it changed afterwards.        *)
(*                                                                         *)
(* Sources: backend/app/application/ingestion.py,                          *)
(* backend/app/db/ingestion.py, backend/app/domain/ingestion_activity.py.  *)
(***************************************************************************)
EXTENDS Naturals, FiniteSets

CONSTANTS
  Attempts,   \* attempts of the activity, retries and repeated requests alike
  Inputs,     \* complete activity inputs, told apart by their request hash
  InputOf,    \* the input of each attempt
  None        \* NULL

ASSUME IngestionAssumption ==
  /\ InputOf \in [Attempts -> Inputs]
  /\ None \notin Attempts /\ None \notin Inputs

VARIABLES
  op,         \* the knowledge_ingestion_operations row
  source,     \* the sources row: its object and status
  document,   \* the documents row and its chunks: what was parsed, and status
  lock,       \* the attempt that holds the operation's advisory lock
  attempt,    \* each attempt: its step, the row start has read, its result
  overlapped  \* an attempt has begun while another was still running

vars == <<op, source, document, lock, attempt, overlapped>>

StageStates == {"PENDING", "RUNNING", "SUCCEEDED", "FAILED"}
Stages == {"ACQUIRE", "PARSE", "EMBED", "INDEX"}
FailureKinds == {"PERMANENT", "TRANSIENT"}
Failures == [stage : Stages, kind : FailureKinds]

Operations ==
  [input : Inputs, attempts : Nat, acquire : StageStates, parse : StageStates,
   embed : StageStates, index : StageStates, object_ref : Inputs \cup {None},
   failure : Failures \cup {None}]

(* A source may also be RETRACTED: db/source_impact.py does it, SourceImpact  *)
(* models it, and no operation of this module leads there or back.           *)
Sources == [object_ref : Inputs, status : {"PROCESSING", "READY", "FAILED"}]
Documents == [parsed : Inputs, status : {"CHUNKED", "EMBEDDED", "READY"}]

ASSUME NullAssumption ==
  None \notin Operations /\ None \notin Failures /\ None \notin Sources /\ None \notin Documents

(* The CHECK constraints of the table: a failure names the only failed stage. *)
Consistent(row) ==
  LET failed == {s \in Stages : \/ s = "ACQUIRE" /\ row.acquire = "FAILED"
                                \/ s = "PARSE" /\ row.parse = "FAILED"
                                \/ s = "EMBED" /\ row.embed = "FAILED"
                                \/ s = "INDEX" /\ row.index = "FAILED"}
  IN failed = IF row.failure = None THEN {} ELSE {row.failure.stage}

Permanent(row) == row.failure # None /\ row.failure.kind = "PERMANENT"

(* IngestionCheckpoint.terminal *)
Terminal(row) == row.parse = "SUCCEEDED" \/ Permanent(row)

(* Mutant: the operation identity is enough. *)
AnyInput(a, row) == TRUE

(* _assert_identity: the row was made for this very input. *)
SameInput(a, row) == row.input = InputOf[a]

Waiting == [step |-> "idle", seen |-> None, result |-> None]

InFlight(a) == attempt[a].step \in {"start", "result", "fetch", "parse"}

Init ==
  /\ op = None /\ source = None /\ document = None
  /\ lock = None
  /\ attempt = [a \in Attempts |-> Waiting]
  /\ overlapped = FALSE

SetStep(a, step) == attempt' = [attempt EXCEPT ![a] = [Waiting EXCEPT !.step = step]]

(* The attempt returns the identities of the chunks that are stored. *)
Return(a) ==
  attempt' = [attempt EXCEPT ![a] = [step |-> "returned", seen |-> None,
                                      result |-> document'.parsed]]
-----------------------------------------------------------------------------
(* store.start: the advisory lock is taken and the row read. *)
StartRead(a) ==
  /\ attempt[a].step = "idle"
  /\ lock = None
  /\ lock' = a
  /\ attempt' = [attempt EXCEPT ![a] = [step |-> "start", seen |-> op, result |-> None]]
  /\ overlapped' = (overlapped \/ \E b \in Attempts : InFlight(b))
  /\ UNCHANGED <<op, source, document>>

NewOperation(a) ==
  [input |-> InputOf[a], attempts |-> 1, acquire |-> "RUNNING", parse |-> "PENDING",
   embed |-> "PENDING", index |-> "PENDING", object_ref |-> None, failure |-> None]

(* A column start assigned is written only if that changed the value it read. *)
Written(now, seen, assigned) == IF assigned = seen THEN now ELSE assigned

(* The row after start's UPDATE, given the row it had read. *)
Restarted(seen) ==
  [op EXCEPT
     !.attempts = seen.attempts + 1,
     !.acquire = Written(op.acquire, seen.acquire,
                         IF seen.acquire = "SUCCEEDED" THEN "SUCCEEDED" ELSE "RUNNING"),
     !.parse = Written(op.parse, seen.parse,
                       IF seen.acquire = "SUCCEEDED" THEN "RUNNING" ELSE "PENDING"),
     !.failure = Written(op.failure, seen.failure, None)]

(* start's write and commit: a new row, a finished operation to report, or a *)
(* further attempt.                                                          *)
StartCommits(a) ==
  LET seen == attempt[a].seen
  IN /\ attempt[a].step = "start"
     /\ lock' = None
     /\ \/ /\ seen = None
           /\ op' = NewOperation(a)
           /\ SetStep(a, "fetch")
        \/ /\ seen # None /\ SameInput(a, seen)
           /\ Terminal(seen)
           /\ SetStep(a, IF seen.parse = "SUCCEEDED" THEN "result" ELSE "raised")
           /\ UNCHANGED op
        \/ /\ seen # None /\ SameInput(a, seen)
           /\ ~Terminal(seen)
           /\ op' = Restarted(seen)
           /\ Consistent(op')
           /\ SetStep(a, "fetch")
     /\ UNCHANGED <<source, document, overlapped>>

(* store.result *)
Result(a) ==
  /\ attempt[a].step = "result"
  /\ op.parse = "SUCCEEDED"
  /\ UNCHANGED <<op, source, document, lock, overlapped>>
  /\ Return(a)

(* Mutant: the source row is left to a later step. *)
SourceLater(a) == source

(* The sources row after store.acquired. *)
SourceOf(a) ==
  IF source = None
  THEN [object_ref |-> InputOf[a], status |-> "PROCESSING"]
  ELSE source

(* The object was read and its digest and size verified: store.acquired. *)
Acquired(a) ==
  /\ attempt[a].step = "fetch"
  /\ SameInput(a, op)
  /\ SetStep(a, "parse")
  /\ \/ /\ op.parse = "SUCCEEDED"
        /\ UNCHANGED <<op, source>>
     \/ /\ op.parse # "SUCCEEDED"
        /\ ~Permanent(op)
        /\ source # None => source.object_ref = InputOf[a]
        /\ source' = SourceOf(a)
        /\ op' = [op EXCEPT !.acquire = "SUCCEEDED", !.parse = "RUNNING",
                            !.object_ref = InputOf[a], !.failure = None]
        /\ Consistent(op')
  /\ UNCHANGED <<document, lock, overlapped>>

(* The document was parsed and chunked: store.complete. *)
Complete(a) ==
  /\ attempt[a].step = "parse"
  /\ SameInput(a, op)
  /\ \/ /\ op.parse = "SUCCEEDED"
        /\ UNCHANGED <<op, source, document>>
     \/ /\ op.parse # "SUCCEEDED"
        /\ op.object_ref = InputOf[a]
        /\ document = None
        /\ source # None
        /\ document' = [parsed |-> InputOf[a], status |-> "CHUNKED"]
        /\ source' = [source EXCEPT !.status = "READY"]
        /\ op' = [op EXCEPT !.acquire = "SUCCEEDED", !.parse = "SUCCEEDED",
                            !.failure = None]
        /\ Consistent(op')
  /\ Return(a)
  /\ UNCHANGED <<lock, overlapped>>

FailureAt(stage, kind, ref) ==
  [op EXCEPT !.acquire = IF stage = "ACQUIRE" THEN "FAILED" ELSE @,
             !.parse = IF stage = "ACQUIRE" THEN "PENDING" ELSE "FAILED",
             !.object_ref = IF stage = "PARSE" THEN ref ELSE @,
             !.failure = [stage |-> stage, kind |-> kind]]

(* Mutant: every failure to parse condemns the source. *)
AnyParseFailure(stage, kind) == stage = "PARSE"

SourceFails(stage, kind) == stage = "PARSE" /\ kind = "PERMANENT"

(* Reading the object or parsing it failed: store.fail, and the attempt      *)
(* raises.  A parsed operation is left as it is.                             *)
Fail(a, stage, kind) ==
  /\ attempt[a].step = IF stage = "ACQUIRE" THEN "fetch" ELSE "parse"
  /\ SameInput(a, op)
  /\ SetStep(a, "raised")
  /\ \/ /\ op.parse = "SUCCEEDED"
        /\ UNCHANGED <<op, source>>
     \/ /\ op.parse # "SUCCEEDED"
        /\ op' = FailureAt(stage, kind, InputOf[a])
        /\ Consistent(op')
        /\ source' = IF SourceFails(stage, kind) /\ source # None
                     THEN [source EXCEPT !.status = "FAILED"]
                     ELSE source
  /\ UNCHANGED <<document, lock, overlapped>>

(* The attempt ends without writing: a refusal, a violated constraint, a     *)
(* database failure, or the worker dies.                                     *)
Raise(a) ==
  /\ InFlight(a)
  /\ SetStep(a, "raised")
  /\ lock' = IF lock = a THEN None ELSE lock
  /\ UNCHANGED <<op, source, document, overlapped>>
-----------------------------------------------------------------------------
StateOf(stage) == IF stage = "EMBED" THEN op.embed ELSE op.index

(* The stages before this one have succeeded. *)
Due(stage) == op.parse = "SUCCEEDED" /\ (stage = "INDEX" => op.embed = "SUCCEEDED")

(* store.record_downstream_stage; failure is None unless state is FAILED.    *)
(* A stage that has succeeded stays so, and one that has failed resumes      *)
(* through RUNNING, but never after a permanent failure.                     *)
RecordDownstreamStage(stage, state, failure) ==
  /\ op # None
  /\ Due(stage)
  /\ StateOf(stage) = "SUCCEEDED" => state = "SUCCEEDED"
  /\ StateOf(stage) = "FAILED" => ~Permanent(op) /\ state = "RUNNING"
  /\ op.failure # None => op.failure.stage = stage
  /\ op' = [op EXCEPT !.embed = IF stage = "EMBED" THEN state ELSE @,
                      !.index = IF stage = "INDEX" THEN state ELSE @,
                      !.failure = failure]
  /\ Consistent(op')
  /\ document' = IF state = "SUCCEEDED" /\ document # None
                 THEN [document EXCEPT
                         !.status = IF stage = "EMBED" THEN "EMBEDDED" ELSE "READY"]
                 ELSE document
  /\ source' = IF state = "SUCCEEDED" /\ stage = "INDEX" /\ source # None
               THEN [source EXCEPT !.status = "READY"]
               ELSE source
  /\ UNCHANGED <<lock, attempt, overlapped>>

Downstream ==
  \E stage \in {"EMBED", "INDEX"} :
    \/ \E state \in StageStates \ {"FAILED"} : RecordDownstreamStage(stage, state, None)
    \/ \E kind \in FailureKinds :
         RecordDownstreamStage(stage, "FAILED", [stage |-> stage, kind |-> kind])

Next ==
  \/ \E a \in Attempts :
       \/ StartRead(a) \/ StartCommits(a) \/ Result(a) \/ Acquired(a) \/ Complete(a)
       \/ \E stage \in {"ACQUIRE", "PARSE"}, kind \in FailureKinds : Fail(a, stage, kind)
       \/ Raise(a)
  \/ Downstream

Spec == Init /\ [][Next]_vars
-----------------------------------------------------------------------------
(* The types of the three rows and of the attempts. *)
TypeOK ==
  /\ op \in Operations \cup {None}
  /\ source \in Sources \cup {None}
  /\ document \in Documents \cup {None}
  /\ lock \in Attempts \cup {None}
  /\ attempt \in [Attempts -> [step : {"idle", "start", "result", "fetch", "parse",
                                       "returned", "raised"},
                               seen : Operations \cup {None},
                               result : Inputs \cup {None}]]
  /\ overlapped \in BOOLEAN

(* A stage that has succeeded is backed by its provenance rows, whichever     *)
(* attempts wrote them: an acquired operation by its source, a parsed one by  *)
(* its document and a source that is ready.                                   *)
SuccessIsBacked ==
  op # None =>
    /\ op.acquire = "SUCCEEDED" => source # None /\ source.object_ref = op.input
    /\ op.parse = "SUCCEEDED" =>
         /\ document # None /\ document.parsed = op.input
         /\ source # None /\ source.status = "READY"

(* The stages stay in order: no later stage has begun unless the one before   *)
(* it has succeeded and still counts as succeeded.                            *)
StagesInOrder ==
  op # None =>
    /\ op.index # "PENDING" => op.embed = "SUCCEEDED"
    /\ op.embed # "PENDING" => document # None

(* A permanent failure stands: as long as attempts do not overlap, no retry,  *)
(* repeated request or downstream report takes the operation, its source or   *)
(* its document any further.                                                  *)
PermanentForGood ==
  [][(op # None /\ Permanent(op) /\ ~overlapped')
       => UNCHANGED <<op, source, document>>]_vars

(* Every attempt that returns reports the one document of the operation, and  *)
(* the attempts of one operation agree ("completed retries return the         *)
(* original IDs").                                                            *)
ResultsAgree ==
  \A a \in Attempts : attempt[a].step = "returned" =>
    document # None /\ attempt[a].result = document.parsed /\ InputOf[a] = op.input

(* While attempts do not overlap, the checkpoint and the rows tell the same   *)
(* story: there is a document exactly when parsing has succeeded, and a       *)
(* source is FAILED exactly when parsing has failed for good.                 *)
CheckpointIsTrue ==
  ~overlapped /\ op # None =>
    /\ document # None <=> op.parse = "SUCCEEDED"
    /\ (source # None /\ source.status = "FAILED")
         <=> op.failure = [stage |-> "PARSE", kind |-> "PERMANENT"]

(* "completed ingestion stage cannot move backward" (db/ingestion.py), and    *)
(* "completed retries return the original IDs without duplicating provenance  *)
(* rows" (docs/RAG_ARCHITECTURE.md): once parsed, an operation stays parsed.  *)
CompletedForGood ==
  [][(op # None /\ op.parse = "SUCCEEDED") => (op' # None /\ op'.parse = "SUCCEEDED")]_vars
=============================================================================
