--------------------------- MODULE Formalization ---------------------------
(***************************************************************************)
(* The lifecycle of a formalization and the evaluations of its revisions.  *)
(* Revisions, validations, decisions and evaluations are append-only; what *)
(* a revision is worth (its status) is derived from them.                  *)
(*                                                                         *)
(* A request is one transaction in two steps: it takes the lock of its     *)
(* idempotency key and looks for a stored response (a revision is numbered *)
(* here, from a head read without a lock), then takes the lock of the      *)
(* formalization, checks and writes, and commits.  Evaluations run the     *)
(* solver outside any lock, between the read of a revision and the write   *)
(* of the evidence.  A formalization is named by the request that made it. *)
(*                                                                         *)
(* Sources: backend/app/application/formalization.py, db/formalization.py, *)
(* api/routes/formalizations.py, domain/formalization.py,                  *)
(* application/symbolic_evaluation.py, db/symbolic_evaluation.py,          *)
(* domain/symbolic_unknown_policy.py, adapters/z3_symbolic/reasoner.py and *)
(* the migrations 20260912_0022 and 20260912_0023.                         *)
(***************************************************************************)
EXTENDS SymbolicFormula

CONSTANTS
  SourceArtifacts, \* [artifact revision -> [kind, lineage, session]]
  Bodies,          \* [body -> [ast, symbols, canonical, source, premises, coherent, models]]
  Labels,          \* the names agora_assertion_0, agora_assertion_1, ..., in order
  Edits,           \* [request -> [op, on, key, ifMatch, body]]
  Evaluations      \* [evaluation -> [on, revision, configuration, at]]

ASSUME BodiesDeclareValidSymbols ==
  \A b \in DOMAIN Bodies : \A i \in DOMAIN Bodies[b].symbols : ValidDeclaration(Bodies[b].symbols[i])

ASSUME BodiesAreTrees == \A b \in DOMAIN Bodies : IsTree(Bodies[b].ast)

ASSUME ConjunctsHaveLabels == \A b \in DOMAIN Bodies : DOMAIN Tracked(Bodies[b].ast) \subseteq DOMAIN Labels

(* A request names an operation of the route; a body is an AST with its      *)
(* declarations, and If-Match is a revision, which starts at 1.              *)
ASSUME EditsAreRequests ==
  \A r \in DOMAIN Edits :
    /\ Edits[r].op \in {"create", "revise", "validate", "CONFIRMED", "REJECTED"}
    /\ Edits[r].op \in {"create", "revise"} => Edits[r].body \in DOMAIN Bodies
    /\ Edits[r].op # "create" => Edits[r].ifMatch \in Nat \ {0}

VARIABLES
  revisions,   \* rows of formalizations: [formal, number, body, source]
  validations, \* rows of formalization_validations: [formal, number, body, success]
  decisions,   \* rows of formalization_decisions: [formal, number, body, kind]
  responses,   \* idempotency records: [op, on, key, edit, status]
  outbox,      \* events of formalizations: [type, formal, number, status]
  edit,        \* [requests -> [step, number, answer]]
  evidence,    \* rows of symbolic_evaluations
  evaluation   \* [evaluations -> [step, body, result, answer]]

formalVars == <<revisions, validations, decisions, responses, outbox, edit, evidence, evaluation>>
lifecycleVars == <<revisions, validations, decisions, responses, outbox, edit>>
evaluationVars == <<evidence, evaluation>>

(* The rows of formalizations, formalization_validations,                    *)
(* formalization_decisions and symbolic_evaluations, and the answers kept    *)
(* under an idempotency key.                                                 *)
RevisionRows == [formal : DOMAIN Edits, number : Nat \ {0}, body : DOMAIN Bodies, source : DOMAIN SourceArtifacts]
ValidationRows == [formal : DOMAIN Edits, number : Nat \ {0}, body : DOMAIN Bodies, success : BOOLEAN]
DecisionRows == [formal : DOMAIN Edits, number : Nat \ {0}, body : DOMAIN Bodies, kind : {"CONFIRMED", "REJECTED"}]
FormalStatuses == {"CANDIDATE", "VALIDATED", "REJECTED"}
StoredResponses == [slot : STRING \X STRING \X STRING, edit : DOMAIN Edits, status : FormalStatuses]
OutboxEvents == [type : {"CREATED", "REVISED", "VALIDATION_RECORDED", "CONFIRMED", "REJECTED"},
                 formal : DOMAIN Edits, number : Nat \ {0}, status : FormalStatuses]
EvidenceRows == [on : STRING, revision : Nat \ {0}, body : DOMAIN Bodies, configuration : STRING, at : Nat,
                 result : [status : {"SAT", "UNSAT", "UNKNOWN"}, core : SUBSET Nat, witness : SUBSET SUBSET STRING,
                           reason : STRING]]
EvaluationOutcomes ==
  {"none", "PROCEED", "BLOCK", "DEFER", "input error", "solver error", "evidence conflict"}

Of(rows, f, n) == {r \in rows : r.formal = f /\ r.number = n}
Numbers(f) == {r.number : r \in {r \in revisions : r.formal = f}}
Greatest(S) == CHOOSE n \in S : \A m \in S : m <= n
HeadNumber(f) == IF Numbers(f) = {} THEN 0 ELSE Greatest(Numbers(f))
HeadRow(f) == CHOOSE r \in revisions : r.formal = f /\ r.number = HeadNumber(f)

(* derive_status. *)
DeriveStatus(validated, decided) ==
  IF (\E v \in validated : ~v.success) \/ \E d \in decided : d.kind = "REJECTED" THEN "REJECTED"
  ELSE IF validated # {} /\ decided # {} THEN "VALIDATED" ELSE "CANDIDATE"

(* Mutant: the facts of a formalization, not of the revision. *)
StatusOfLineage(f, n) == DeriveStatus({v \in validations : v.formal = f}, {d \in decisions : d.formal = f})

(* _result: the status of a revision. *)
Status(f, n) == DeriveStatus(Of(validations, f, n), Of(decisions, f, n))
-----------------------------------------------------------------------------
(* FormalizationRevision: limitations, notes and a rendering, and premises    *)
(* named once.                                                               *)
CoherentRevision(b) == b.coherent

(* verify_artifacts, which the trigger on the row repeats. *)
SourcesPinned(b) ==
  /\ b.source \in DOMAIN SourceArtifacts
  /\ SourceArtifacts[b.source].kind \in {"CLAIM", "CONSTRAINT", "PROPOSITION"}
  /\ \A p \in b.premises : /\ p \in DOMAIN SourceArtifacts
                           /\ SourceArtifacts[p].session = SourceArtifacts[b.source].session

(* What the route makes of a request's body. *)
Acceptable(b) == CoherentRevision(b) /\ SourcesPinned(b)

Nothing == [revisions |-> {}, validations |-> {}, decisions |-> {}]   \* rows to insert
Slot(r) == <<Edits[r].op, Edits[r].on, Edits[r].key>>
Target(r) == IF Edits[r].op = "create" THEN r ELSE Edits[r].on
InStep(r, step) == edit[r].step = step
(* A request as it is received. *)
Unsent == [step |-> "new", number |-> 0, write |-> Nothing, status |-> "none", answer |-> "none"]
Answered(r, answer) == [edit EXCEPT ![r] = [Unsent EXCEPT !.step = "done", !.answer = answer]]

(* The parts of a request its hash covers. *)
SameRequest(r, s) == Edits[r].body = Edits[s].body /\ Edits[r].ifMatch = Edits[s].ifMatch

(* _idempotent, up to the action: the lock of the key, a stored response, and *)
(* the number a revision takes from a head read without a lock.              *)
Begin(r) ==
  LET stored == {p \in responses : p.slot = Slot(r)}
  IN /\ InStep(r, "new")
     /\ ~\E s \in DOMAIN Edits : edit[s].step \in {"begun", "written"} /\ Slot(s) = Slot(r)
     /\ edit' = IF \E p \in stored : SameRequest(r, p.edit) THEN Answered(r, "replayed")
                ELSE IF stored # {} THEN Answered(r, "conflict")
                ELSE IF Edits[r].op = "revise" /\ Numbers(Edits[r].on) = {} THEN Answered(r, "not found")
                ELSE IF Edits[r].op \in {"create", "revise"} /\ ~Acceptable(Bodies[Edits[r].body])
                THEN Answered(r, "invalid")
                ELSE [edit EXCEPT ![r].step = "begun", ![r].number = HeadNumber(Target(r)) + 1]
     /\ UNCHANGED <<revisions, validations, decisions, responses, outbox, evaluationVars>>

(* Mutant: the head is read without its lock. *)
AnyFormal(r) == TRUE

(* add_revision and head(for_update): one transaction per formalization. *)
FormalUnlocked(r) ==
  ~\E s \in DOMAIN Edits \ {r} : InStep(s, "written") /\ Target(s) = Target(r)

NewRevision(r) ==
  LET b == Bodies[Edits[r].body]
  IN [formal |-> Target(r), number |-> edit[r].number, body |-> Edits[r].body, source |-> b.source]

(* FormalizationLifecycleService.revise: the head is the one expected, the   *)
(* revision follows it, of a source of the same lineage.                     *)
MayRevise(r) ==
  /\ HeadNumber(Target(r)) = Edits[r].ifMatch
  /\ edit[r].number = HeadNumber(Target(r)) + 1
  /\ SourceArtifacts[NewRevision(r).source].lineage = SourceArtifacts[HeadRow(Target(r)).source].lineage

(* FormalizationLifecycleService.decide: once for a revision, and a          *)
(* confirmation of what has been validated with success.                     *)
MayDecide(r) ==
  LET f == Target(r) n == HeadNumber(f)
  IN /\ n = Edits[r].ifMatch /\ Of(decisions, f, n) = {}
     /\ Edits[r].op = "CONFIRMED" => \E v \in Of(validations, f, n) : v.success

(* What the action of a request writes, or none when it is refused. *)
Writes(r) ==
  LET f == Target(r) op == Edits[r].op
  IN CASE op = "create" -> {[Nothing EXCEPT !.revisions = {NewRevision(r)}]}
       [] op = "revise" -> IF MayRevise(r) THEN {[Nothing EXCEPT !.revisions = {NewRevision(r)}]} ELSE {}
       [] op = "validate" ->
            IF HeadNumber(f) # Edits[r].ifMatch THEN {}
            ELSE IF Of(validations, f, HeadNumber(f)) # {} THEN {Nothing}
            ELSE {[Nothing EXCEPT !.validations =
                     {[formal |-> f, number |-> HeadNumber(f), body |-> HeadRow(f).body,
                       success |-> Issues(Bodies[HeadRow(f).body]) = {}]}]}
       [] OTHER ->
            IF MayDecide(r)
            THEN {[Nothing EXCEPT !.decisions =
                     {[formal |-> f, number |-> HeadNumber(f), body |-> HeadRow(f).body, kind |-> op]}]}
            ELSE {}

(* The status a request answers with and puts in its event: validate derives *)
(* it from the validation alone.                                             *)
RecordedStatus(r, w) ==
  LET f == Target(r) n == HeadNumber(f)
  IN IF w.revisions # {} THEN "CANDIDATE"
     ELSE IF w.validations # {} THEN DeriveStatus(w.validations, {})
     ELSE DeriveStatus(Of(validations, f, n), Of(decisions, f, n) \cup w.decisions)

(* The action of a request, under the lock of the formalization. *)
Write(r) ==
  /\ InStep(r, "begun") /\ FormalUnlocked(r)
  /\ edit' = IF Writes(r) = {} THEN Answered(r, "conflict")
             ELSE LET w == CHOOSE w \in Writes(r) : TRUE
                  IN [edit EXCEPT ![r].step = "written", ![r].write = w, ![r].status = RecordedStatus(r, w)]
  /\ UNCHANGED <<revisions, validations, decisions, responses, outbox, evaluationVars>>

(* uq_formalizations, uq_formalization_validations_revision and              *)
(* uq_formalization_decisions_revision.                                      *)
RowsUnique(w) ==
  /\ \A x \in w.revisions : Of(revisions, x.formal, x.number) = {}
  /\ \A x \in w.validations : Of(validations, x.formal, x.number) = {}
  /\ \A x \in w.decisions : Of(decisions, x.formal, x.number) = {}

EventType(r) == CASE Edits[r].op = "create" -> "CREATED" [] Edits[r].op = "revise" -> "REVISED"
                  [] Edits[r].op = "validate" -> "VALIDATION_RECORDED" [] OTHER -> Edits[r].op
EventsWritten(r) ==
  {[type |-> EventType(r), formal |-> x.formal, number |-> x.number, status |-> edit[r].status] :
     x \in edit[r].write.revisions \cup edit[r].write.validations \cup edit[r].write.decisions}

(* The transaction commits rows, event and response together. *)
CommitEdit(r) ==
  LET w == edit[r].write
  IN /\ InStep(r, "written")
     /\ IF RowsUnique(w)
        THEN /\ revisions' = revisions \cup w.revisions
             /\ validations' = validations \cup w.validations
             /\ decisions' = decisions \cup w.decisions
             /\ outbox' = outbox \cup EventsWritten(r)
             /\ responses' = responses \cup {[slot |-> Slot(r), edit |-> r, status |-> edit[r].status]}
             /\ edit' = Answered(r, "accepted")
        ELSE edit' = Answered(r, "error") /\ UNCHANGED <<revisions, validations, decisions, outbox, responses>>
     /\ UNCHANGED evaluationVars

(* The connection or the process is lost before the commit, and the client   *)
(* sends the request again.                                                  *)
LoseEdit(r) ==
  /\ edit[r].step \in {"begun", "written"} /\ edit' = [edit EXCEPT ![r] = Unsent]
  /\ UNCHANGED <<revisions, validations, decisions, responses, outbox, evaluationVars>>
-----------------------------------------------------------------------------
(* The caller reads the revision it wants evaluated; none needs a status. *)
LoadRevision(e) ==
  LET q == Evaluations[e] rows == Of(revisions, q.on, q.revision)
  IN /\ evaluation[e].step = "new" /\ rows # {}
     /\ evaluation' = [evaluation EXCEPT ![e].step = "loaded",
                                         ![e].body = (CHOOSE x \in rows : TRUE).body]
     /\ UNCHANGED <<evidence, lifecycleVars>>

(* A body has a solution: its models are the sets of Boolean symbols that     *)
(* are true in one.                                                          *)
Satisfiable(b) == b.models # {}

(* The Boolean symbols of a body that the solver cannot tell from the label  *)
(* of a conjunct: z3.Bool of one name is one constant.                       *)
Captured(b) ==
  {b.symbols[i].name : i \in {i \in DOMAIN b.symbols :
     /\ b.symbols[i].sort = "BOOLEAN"
     /\ \E k \in DOMAIN Tracked(b.ast) : Labels[k] = b.symbols[i].name}}

(* The solver's own question: label implies conjunct, for all labels true. *)
Solutions(b) == {m \in b.models : Captured(b) \subseteq m}

Reasons == {"timeout", "incomplete"}

(* What the solver may say: a solution with its values, a contradiction among *)
(* some of the labelled conjuncts, or that it does not know and why.         *)
Verdicts(b) ==
  LET verdict(status, core, witness, reason) ==
        [status |-> status, core |-> core, witness |-> witness, reason |-> reason]
  IN {verdict("UNKNOWN", {}, {}, r) : r \in Reasons}
     \cup {verdict("SAT", {}, {m}, "none") : m \in Solutions(b)}
     \cup {verdict("UNSAT", c, {}, "none") :
             c \in {c \in SUBSET (DOMAIN Tracked(b.ast)) : c # {} /\ Solutions(b) = {}}}

(* Z3SymbolicReasoner._evaluate_sync in a thread of its own: the boundary    *)
(* validates again, the AST is translated, the solver answers or fails.      *)
Solve(e) ==
  LET b == Bodies[evaluation[e].body]
  IN /\ evaluation[e].step = "loaded"
     /\ \/ /\ Issues(b) = {} /\ Translates(b)
           /\ \/ \E v \in Verdicts(b) : evaluation' = [evaluation EXCEPT ![e].step = "solved", ![e].result = {v}]
              \/ evaluation' = [evaluation EXCEPT ![e].step = "done", ![e].answer = "solver error"]
        \/ /\ Issues(b) # {} \/ ~Translates(b)
           /\ evaluation' = [evaluation EXCEPT ![e].step = "done", ![e].answer = "input error"]
     /\ UNCHANGED <<evidence, lifecycleVars>>

(* The identity of an exact run: revision, solver and configuration. *)
SameRun(x, e) ==
  /\ x.on = Evaluations[e].on /\ x.revision = Evaluations[e].revision
  /\ x.configuration = Evaluations[e].configuration

(* Mutant: what the solver does not know is no objection. *)
BlockOnContradiction(status) == IF status = "UNSAT" THEN "BLOCK" ELSE "PROCEED"

(* SymbolicUnknownPolicy.decide_status. *)
ActionOn(status) == CASE status = "SAT" -> "PROCEED" [] status = "UNSAT" -> "BLOCK" [] OTHER -> "DEFER"

(* SymbolicEvaluationService.evaluate_with_policy after the solver: persist, *)
(* under the lock of the identity, and decide.                               *)
Persist(e) ==
  LET v == CHOOSE v \in evaluation[e].result : TRUE
      old == {x \in evidence : SameRun(x, e)}
      row == [on |-> Evaluations[e].on, revision |-> Evaluations[e].revision, body |-> evaluation[e].body,
              configuration |-> Evaluations[e].configuration, at |-> Evaluations[e].at, result |-> v]
  IN /\ evaluation[e].step = "solved"
     /\ IF old = {} THEN evidence' = evidence \cup {row} ELSE UNCHANGED evidence
     /\ evaluation' = [evaluation EXCEPT ![e].step = "done",
          ![e].answer = IF \A x \in old : x.result = v THEN ActionOn(v.status) ELSE "evidence conflict"]
     /\ UNCHANGED lifecycleVars
-----------------------------------------------------------------------------
FormalInit ==
  /\ revisions = {} /\ validations = {} /\ decisions = {} /\ responses = {} /\ outbox = {}
  /\ edit = [r \in DOMAIN Edits |-> Unsent]
  /\ evidence = {}
  /\ evaluation = [e \in DOMAIN Evaluations |-> [step |-> "new", body |-> "none", result |-> {}, answer |-> "none"]]

FormalNext ==
  \/ \E r \in DOMAIN Edits : Begin(r) \/ Write(r) \/ CommitEdit(r) \/ LoseEdit(r)
  \/ \E e \in DOMAIN Evaluations : LoadRevision(e) \/ Solve(e) \/ Persist(e)

FormalSpec == FormalInit /\ [][FormalNext]_formalVars
-----------------------------------------------------------------------------
(* The types: rows are of their tables, and every fact is about a revision.  *)
FormalTypeOK ==
  /\ revisions \subseteq RevisionRows /\ validations \subseteq ValidationRows /\ decisions \subseteq DecisionRows
  /\ \A f \in validations \cup decisions : Of(revisions, f.formal, f.number) # {}
  /\ responses \subseteq StoredResponses /\ outbox \subseteq OutboxEvents /\ evidence \subseteq EvidenceRows
  /\ \A r \in DOMAIN Edits : edit[r].step \in {"new", "begun", "written", "done"}
  /\ \A e \in DOMAIN Evaluations : evaluation[e].answer \in EvaluationOutcomes
-----------------------------------------------------------------------------
(* What has been confirmed is sound: the exact body was validated without an *)
(* issue, the confirmation stands on the same revision as the validation,    *)
(* and the revisions are a chain of one lineage without gaps (application/   *)
(* formalization.py revise, decide, _result).  What was validated with       *)
(* success the adapter translates, although it types a formula again and     *)
(* otherwise (validate_revision and Z3SymbolicReasoner._translate_node).     *)
ConfirmedIsSound ==
  /\ \A x \in revisions :
       Status(x.formal, x.number) = "VALIDATED" =>
         /\ Issues(Bodies[x.body]) = {}
         /\ \A f \in Of(validations, x.formal, x.number) \cup Of(decisions, x.formal, x.number) : f.body = x.body
  /\ \A x \in revisions : \E y \in revisions :
       /\ y.formal = x.formal /\ (x.number = 1 \/ y.number = x.number - 1)
       /\ SourceArtifacts[y.source].lineage = SourceArtifacts[x.source].lineage
  /\ \A v \in validations : v.success => Translates(Bodies[v.body])

(* A validation or a decision is only ever recorded for the revision that is *)
(* the head when it commits: a revision that commits between the checks of a *)
(* confirmation and its commit would leave a superseded text enforceable.    *)
FactsAreOfTheHead ==
  [][\A x \in (validations' \cup decisions') \ (validations \cup decisions) :
        x.number = Greatest({y.number : y \in {y \in revisions' : y.formal = x.formal}})]_formalVars

(* Who is told PROCEED is told the truth, and so is who is told BLOCK of a   *)
(* body none of whose symbols has the name of a label; both on evidence on   *)
(* record for that very revision and configuration, the witness a solution.  *)
(* What was not known stays neither, and of two who ask the same question    *)
(* none is told the opposite (application/symbolic_evaluation.py evaluate,   *)
(* db/symbolic_evaluation.py persist, Z3SymbolicReasoner._solve).            *)
EvidenceIsExact ==
  /\ \A e \in DOMAIN Evaluations : evaluation[e].answer \in {"PROCEED", "BLOCK"} =>
       /\ evaluation[e].answer = "PROCEED" => Satisfiable(Bodies[evaluation[e].body])
       /\ evaluation[e].answer = "BLOCK" /\ Captured(Bodies[evaluation[e].body]) = {}
            => ~Satisfiable(Bodies[evaluation[e].body])
       /\ \E x \in evidence : /\ SameRun(x, e) /\ x.body = evaluation[e].body /\ x.result.status # "UNKNOWN"
                              /\ x.result.witness \subseteq Bodies[x.body].models
  /\ \A e, f \in DOMAIN Evaluations :
       /\ evaluation[e].answer = "DEFER" /\ evaluation[f].answer \in {"PROCEED", "BLOCK"}
       => ~\E x \in evidence : SameRun(x, e) /\ SameRun(x, f)

(* UNSAT says that no solution exists and blocks: a body is blocked only     *)
(* when it has none (reasoner.py:168 names the labels the solver assumes).   *)
BlockedIsContradictory ==
  \A e \in DOMAIN Evaluations :
     evaluation[e].answer = "BLOCK" => ~Satisfiable(Bodies[evaluation[e].body])
=============================================================================
