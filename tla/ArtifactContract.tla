-------------------------- MODULE ArtifactContract --------------------------
(***************************************************************************)
(* What a reasoning artifact may say, written twice in the program: by the *)
(* domain models that build and read every envelope, and by the functions  *)
(* PostgreSQL runs in the CHECK constraints and triggers of its table.  An *)
(* artifact the domain builds and the database refuses is lost with the    *)
(* whole turn that proposed it.                                            *)
(*                                                                         *)
(* A payload is a function from fields to classes of JSON values.  The     *)
(* classes keep what the two validators tell apart: the blanks, the ways   *)
(* to write a decimal, identities without a version, U+0000, the digits of *)
(* other scripts.  Sizes are within the limits of both, and what only the  *)
(* program writes (metadata, the provenance, hashes, times) is left out.   *)
(*                                                                         *)
(* Sources: backend/app/domain/reasoning.py and migration 0005.            *)
(***************************************************************************)
EXTENDS Naturals, FiniteSets

VARIABLE candidate   \* an artifact somebody wants to record

ArtifactKind ==
  {"CLAIM", "FACT", "ASSUMPTION", "INFERENCE", "PROPOSITION", "EVIDENCE", "UNCERTAINTY",
   "RISK", "IMPACT", "OBJECTIVE", "CONSTRAINT", "ALTERNATIVE", "POSITION", "CRITIQUE"}

ActorClass == {"HUMAN", "AGENT", "SERVICE", "POLICY"}

ProvenanceOrigin ==
  {"HUMAN", "LLM", "RETRIEVAL", "TOOL", "SIMULATION", "SYMBOLIC", "IMPORT", "HISTORICAL_SESSION"}

Verification == {"UNVERIFIED", "SOURCE_VERIFIED", "CROSS_CHECKED", "DISPUTED", "REJECTED"}
Verified == {"SOURCE_VERIFIED", "CROSS_CHECKED"}

ClaimType == {"FACTUAL", "CAUSAL", "PREDICTIVE", "EVALUATIVE", "PROCEDURAL", "HYPOTHESIS"}
Bearing == {"SUPPORTS", "OPPOSES"}
EvidenceRelation == {"SUPPORTS", "OPPOSES", "QUALIFIES"}
Strength == {"WEAK", "MODERATE", "STRONG", "DECISIVE"}
ReviewStatus == {"PROPOSED", "ACCEPTED", "CONTESTED", "REJECTED"}
NormalizationStatus == {"PROPOSED", "VALIDATED", "AMBIGUOUS"}

TrustLevel ==
  {"PRIMARY", "AUTHORITATIVE", "SECONDARY", "COMMERCIAL", "UNATTRIBUTED", "SYNTHETIC"}

(* attributable_source: material nobody answers for is no evidence. *)
Attributable == TrustLevel \ {"UNATTRIBUTED", "SYNTHETIC"}

EvidenceProvenance == {"RETRIEVAL", "TOOL", "SIMULATION", "SYMBOLIC", "HUMAN", "IMPORT"}
UncertaintyType == {"EPISTEMIC", "ALEATORIC", "MODEL", "MEASUREMENT", "SEMANTIC", "STRATEGIC"}
ConstraintType == {"HARD", "SOFT", "NON_NEGOTIABLE"}
Stance == {"SUPPORT", "OPPOSE", "CONDITIONALLY_SUPPORT", "ABSTAIN", "INSUFFICIENT_EVIDENCE"}
Severity == {"LOW", "MEDIUM", "HIGH", "BLOCKING"}
Resolution == {"OPEN", "RESOLVED", "UNRESOLVED", "DISPUTED"}

CritiqueType ==
  {"EVIDENCE_GAP", "LOGICAL_FALLACY", "HALLUCINATED_SOURCE", "MEASUREMENT_ERROR",
   "MODEL_MISUSE", "CONSTRAINT_IGNORED", "CONFLICT_OF_INTEREST", "ALTERNATIVE_OMITTED",
   "UNCERTAINTY_UNDERSTATED", "CAUSAL_OVERCLAIM"}
-----------------------------------------------------------------------------
(* Classes of JSON values. *)
Blank == {"spaces", "tabs"}
Decimals == {"negative", "minuszero", "zero", "unit", "padded", "large", "foreign"}
Strings == Blank \cup Decimals \cup {"text", "uuid", "niluuid", "exponent", "stranger", "nultext"}
Lists == {"emptylist", "uuidlist", "niluuidlist", "textlist", "blanklist", "nullist", "scenarios",
          "paddedscenarios", "foreignscenarios", "nulscenarios"}
Objects == {"emptyobject", "object", "nulobject", "expression", "bareexpression", "nulexpression"}
Nul == {"nultext", "nullist", "nulscenarios", "nulobject", "nulexpression"}
Values == Strings \cup Lists \cup Objects \cup {"true", "null", "missing"}

(* A field's type; an enumeration lists its members. *)
Field(type) == [type |-> type, of |-> {}]
Enum(members) == [type |-> "enum", of |-> members]
Text == Field("text")
Id == Field("id")
Ids == Field("ids")
Texts == Field("texts")
Unit == Field("unit")
Decimal == Field("decimal")

(* The shapes of a payload: one per kind, and four of UNCERTAINTY. *)
Representation == {"INTERVAL", "DISTRIBUTION", "SCENARIOS", "QUALITATIVE"}
Shapes == (ArtifactKind \ {"UNCERTAINTY"}) \cup Representation
KindOf(shape) == IF shape \in Representation THEN "UNCERTAINTY" ELSE shape
-----------------------------------------------------------------------------
(* The payload models of the domain. *)
StatementPayload(shape) ==
  CASE shape = "CLAIM" ->
         [statement |-> Text, claim_type |-> Enum(ClaimType), direction |-> Enum(Bearing),
          strength |-> Enum(Strength), supporting_evidence_ids |-> Ids,
          opposing_evidence_ids |-> Ids, review_status |-> Enum(ReviewStatus)]
    [] shape = "FACT" -> [statement |-> Text, verification |-> Enum(Verified)]
    [] shape = "ASSUMPTION" ->
         [statement |-> Text, basis |-> Text, materiality |-> Text, challengeable |-> Field("bool")]
    [] shape = "INFERENCE" ->
         [premise_ids |-> Ids, conclusion_id |-> Id, rule_kind |-> Text, rule_text |-> Text,
          validity |-> Text]
    [] shape = "PROPOSITION" ->
         [statement_original |-> Text, statement_normalized |-> Text,
          canonicalizer_version |-> Text, proposition_kind |-> Text, modality |-> Text,
          normalization_status |-> Enum(NormalizationStatus)]
    [] shape = "EVIDENCE" ->
         [claim_id |-> Id, relation |-> Enum(EvidenceRelation), quote |-> Text,
          verification |-> Enum(Verification), trust_level |-> Enum(Attributable),
          weight |-> Unit, provenance_kind |-> Enum(EvidenceProvenance)]

UncertaintyPayload(shape) ==
  CASE shape = "INTERVAL" ->
         [target_id |-> Id, uncertainty_type |-> Enum(UncertaintyType), drivers |-> Texts,
          lower |-> Decimal, upper |-> Decimal, unit |-> Text]
    [] shape = "DISTRIBUTION" ->
         [target_id |-> Id, uncertainty_type |-> Enum(UncertaintyType), drivers |-> Texts,
          family |-> Text, parameters |-> Field("object"), unit |-> Text]
    [] shape = "SCENARIOS" ->
         [target_id |-> Id, uncertainty_type |-> Enum(UncertaintyType), drivers |-> Texts,
          scenarios |-> Field("scenarios")]
    [] shape = "QUALITATIVE" ->
         [target_id |-> Id, uncertainty_type |-> Enum(UncertaintyType), drivers |-> Texts,
          level |-> Text, explanation |-> Text]

DecisionPayload(shape) ==
  CASE shape = "RISK" ->
         [statement |-> Text, probability |-> Unit, impact |-> Text, uncertainty_id |-> Id,
          affected_objective_ids |-> Ids]
    [] shape = "IMPACT" ->
         [alternative_id |-> Id, objective_id |-> Id, magnitude |-> Decimal, unit |-> Text,
          timeframe |-> Text, source_artifact_id |-> Id]
    [] shape = "OBJECTIVE" ->
         [name |-> Text, objective_type |-> Text, direction |-> Text, weight |-> Unit,
          weight_rationale |-> Text, time_horizon |-> Text, conflicts_with_ids |-> Ids]
    [] shape = "CONSTRAINT" ->
         [name |-> Text, statement |-> Text, constraint_type |-> Enum(ConstraintType),
          category |-> Text, evaluation_expression |-> Field("expression"),
          formal_status |-> Text]
    [] shape = "ALTERNATIVE" ->
         [name |-> Text, summary |-> Text, components |-> Texts, origin |-> Text,
          feasibility_status |-> Text]
    [] shape = "POSITION" ->
         [target_id |-> Id, stance |-> Enum(Stance), rationale |-> Text, evidence_ids |-> Ids,
          conditions |-> Texts]
    [] shape = "CRITIQUE" ->
         [target_id |-> Id, critique_type |-> Enum(CritiqueType), severity |-> Enum(Severity),
          argument |-> Text, resolution |-> Enum(Resolution)]

StatementKinds == {"CLAIM", "FACT", "ASSUMPTION", "INFERENCE", "PROPOSITION", "EVIDENCE"}

(* _PAYLOAD_ADAPTERS: the model of the selected kind. *)
PayloadModel(shape) ==
  CASE shape \in StatementKinds -> StatementPayload(shape)
    [] shape \in Representation -> UncertaintyPayload(shape)
    [] OTHER -> DecisionPayload(shape)

(* Where a class stands on the number line. *)
Rank(v) ==
  CASE v = "negative" -> 0 [] v \in {"minuszero", "zero"} -> 1 [] v \in {"unit", "padded", "foreign"} -> 2
    [] v = "large" -> 3

(* ordered: an interval's bounds. *)
Ordered(body) == Rank(body["lower"]) <= Rank(body["upper"])

(* A strict pydantic field accepts the value: \d is a digit of any script,  *)
(* and any UUID is one.                                                      *)
FieldAccepts(field, v) ==
  CASE field.type = "text" -> v \notin Values \/ v \in Strings \ Blank
    [] field.type = "enum" -> v \in field.of
    [] field.type = "id" -> v \in {"uuid", "niluuid"}
    [] field.type = "ids" -> v \in {"emptylist", "uuidlist", "niluuidlist"}
    [] field.type = "texts" -> v \in {"emptylist", "uuidlist", "niluuidlist", "textlist", "nullist"}
    [] field.type = "unit" -> v \in {"minuszero", "zero", "unit", "padded", "foreign"}
    [] field.type = "decimal" -> v \in Decimals
    [] field.type = "bool" -> v = "true"
    [] field.type = "object" -> v \in Objects
    [] field.type = "expression" -> v \in {"expression", "nulexpression"}
    [] field.type = "scenarios" -> v \in {"scenarios", "paddedscenarios", "foreignscenarios", "nulscenarios"}

(* validate_artifact_payload: every field, and no other. *)
ValidPayload(shape, body, extra) ==
  /\ ~extra
  /\ \A f \in DOMAIN PayloadModel(shape) : FieldAccepts(PayloadModel(shape)[f], body[f])
  /\ shape = "INTERVAL" => Ordered(body)

(* Mutant: decimals are kept as they came. *)
Unnormalized(field, v) == v

(* _decimal: trailing zeros and the sign of zero are dropped. *)
Normalized(field, v) ==
  CASE field.type \in {"unit", "decimal"} /\ v = "padded" -> "unit"
    [] field.type \in {"unit", "decimal"} /\ v = "minuszero" -> "zero"
    [] field.type = "scenarios" /\ v = "paddedscenarios" -> "scenarios"
    [] OTHER -> v

(* The payload as the model holds it, hashes it and stores it. *)
Stored(shape, body) ==
  [f \in DOMAIN body |-> Normalized(PayloadModel(shape)[f], body[f])]

(* ArtifactEnvelope.invariants. *)
ValidEnvelope(kind, env, body) ==
  /\ (env.version = 1) = ~env.supersedes
  /\ env.owner # "POLICY"
  /\ ~(kind = "FACT" /\ env.owner = "AGENT")
  /\ ~(kind = "FACT" /\ env.origin = "LLM")
  /\ kind \in {"FACT", "EVIDENCE"} => env.sources # "none"
  /\ ~(kind = "EVIDENCE" /\ env.origin = "HISTORICAL_SESSION")
  /\ (kind = "EVIDENCE" /\ env.version = 1) => body["verification"] = "UNVERIFIED"
  /\ kind = "POSITION" => env.confidence # "none"
  /\ kind = "FACT" => env.confidence = "none"
  /\ env.sources # "unlocated"      \* SourceReference.locator_not_empty
  /\ env.confidence # "above one"   \* Confidence.value

-----------------------------------------------------------------------------
(* The functions of the schema.  jsonb_has_exact_keys with the typed tests   *)
(* of each kind: the fields the database asks for.                           *)
SqlStatementPayload(shape) ==
  CASE shape = "CLAIM" ->
         [statement |-> Text,
          claim_type |-> Enum({"FACTUAL", "CAUSAL", "PREDICTIVE", "EVALUATIVE", "PROCEDURAL",
                               "HYPOTHESIS"}),
          direction |-> Enum({"SUPPORTS", "OPPOSES"}),
          strength |-> Enum({"WEAK", "MODERATE", "STRONG", "DECISIVE"}),
          supporting_evidence_ids |-> Ids, opposing_evidence_ids |-> Ids,
          review_status |-> Enum({"PROPOSED", "ACCEPTED", "CONTESTED", "REJECTED"})]
    [] shape = "FACT" ->
         [statement |-> Text, verification |-> Enum({"SOURCE_VERIFIED", "CROSS_CHECKED"})]
    [] shape = "ASSUMPTION" ->
         [statement |-> Text, basis |-> Text, materiality |-> Text, challengeable |-> Field("bool")]
    [] shape = "INFERENCE" ->
         [premise_ids |-> Ids, conclusion_id |-> Id, rule_kind |-> Text, rule_text |-> Text,
          validity |-> Text]
    [] shape = "PROPOSITION" ->
         [statement_original |-> Text, statement_normalized |-> Text,
          canonicalizer_version |-> Text, proposition_kind |-> Text, modality |-> Text,
          normalization_status |-> Enum({"PROPOSED", "VALIDATED", "AMBIGUOUS"})]
    [] shape = "EVIDENCE" ->
         [claim_id |-> Id, relation |-> Enum({"SUPPORTS", "OPPOSES", "QUALIFIES"}),
          quote |-> Text,
          verification |-> Enum({"UNVERIFIED", "SOURCE_VERIFIED", "CROSS_CHECKED", "DISPUTED",
                                 "REJECTED"}),
          trust_level |-> Enum({"PRIMARY", "AUTHORITATIVE", "SECONDARY", "COMMERCIAL"}),
          weight |-> Unit,
          provenance_kind |-> Enum({"RETRIEVAL", "TOOL", "SIMULATION", "SYMBOLIC", "HUMAN",
                                    "IMPORT"})]

SqlUncertaintyPayload(shape) ==
  LET type == Enum({"EPISTEMIC", "ALEATORIC", "MODEL", "MEASUREMENT", "SEMANTIC", "STRATEGIC"})
  IN CASE shape = "INTERVAL" ->
            [target_id |-> Id, uncertainty_type |-> type, drivers |-> Texts, lower |-> Decimal,
             upper |-> Decimal, unit |-> Text]
       [] shape = "DISTRIBUTION" ->
            [target_id |-> Id, uncertainty_type |-> type, drivers |-> Texts, family |-> Text,
             parameters |-> Field("object"), unit |-> Text]
       [] shape = "SCENARIOS" ->
            [target_id |-> Id, uncertainty_type |-> type, drivers |-> Texts,
             scenarios |-> Field("scenarios")]
       [] shape = "QUALITATIVE" ->
            [target_id |-> Id, uncertainty_type |-> type, drivers |-> Texts, level |-> Text,
             explanation |-> Text]

SqlDecisionPayload(shape) ==
  CASE shape = "RISK" ->
         [statement |-> Text, probability |-> Unit, impact |-> Text, uncertainty_id |-> Id,
          affected_objective_ids |-> Ids]
    [] shape = "IMPACT" ->
         [alternative_id |-> Id, objective_id |-> Id, magnitude |-> Decimal, unit |-> Text,
          timeframe |-> Text, source_artifact_id |-> Id]
    [] shape = "OBJECTIVE" ->
         [name |-> Text, objective_type |-> Text, direction |-> Text, weight |-> Unit,
          weight_rationale |-> Text, time_horizon |-> Text, conflicts_with_ids |-> Ids]
    [] shape = "CONSTRAINT" ->
         [name |-> Text, statement |-> Text,
          constraint_type |-> Enum({"HARD", "SOFT", "NON_NEGOTIABLE"}), category |-> Text,
          evaluation_expression |-> Field("expression"), formal_status |-> Text]
    [] shape = "ALTERNATIVE" ->
         [name |-> Text, summary |-> Text, components |-> Texts, origin |-> Text,
          feasibility_status |-> Text]
    [] shape = "POSITION" ->
         [target_id |-> Id,
          stance |-> Enum({"SUPPORT", "OPPOSE", "CONDITIONALLY_SUPPORT", "ABSTAIN",
                           "INSUFFICIENT_EVIDENCE"}),
          rationale |-> Text, evidence_ids |-> Ids, conditions |-> Texts]
    [] shape = "CRITIQUE" ->
         [target_id |-> Id,
          critique_type |-> Enum({"EVIDENCE_GAP", "LOGICAL_FALLACY", "HALLUCINATED_SOURCE",
            "MEASUREMENT_ERROR", "MODEL_MISUSE", "CONSTRAINT_IGNORED", "CONFLICT_OF_INTEREST",
            "ALTERNATIVE_OMITTED", "UNCERTAINTY_UNDERSTATED", "CAUSAL_OVERCLAIM"}),
          severity |-> Enum({"LOW", "MEDIUM", "HIGH", "BLOCKING"}), argument |-> Text,
          resolution |-> Enum({"OPEN", "RESOLVED", "UNRESOLVED", "DISPUTED"})]

SqlPayload(shape) ==
  CASE shape \in StatementKinds -> SqlStatementPayload(shape)
    [] shape \in Representation -> SqlUncertaintyPayload(shape)
    [] OTHER -> SqlDecisionPayload(shape)

(* jsonb_nonempty_text trims spaces only; jsonb_decimal_string and           *)
(* jsonb_unit_decimal_string ask for the canonical form in ASCII digits,     *)
(* jsonb_uuid_text for a version; and no jsonb holds U+0000.                 *)
SqlAccepts(field, v) ==
  CASE field.type = "text" -> v \notin Values \/ v \in Strings \ {"spaces", "nultext"}
    [] field.type = "enum" -> v \in field.of
    [] field.type = "id" -> v = "uuid"
    [] field.type = "ids" -> v \in {"emptylist", "uuidlist"}
    [] field.type = "texts" -> v \in {"emptylist", "uuidlist", "niluuidlist", "textlist"}
    [] field.type = "unit" -> v \in {"zero", "unit"}
    [] field.type = "decimal" -> v \in {"negative", "zero", "unit", "large"}
    [] field.type = "bool" -> v = "true"
    [] field.type = "object" -> v \in Objects \ Nul
    [] field.type = "expression" -> v = "expression"
    [] field.type = "scenarios" -> v = "scenarios"

(* validate_reasoning_artifact_payload. *)
SqlValidPayload(shape, body, extra) ==
  /\ ~extra
  /\ DOMAIN SqlPayload(shape) = DOMAIN body
  /\ \A f \in DOMAIN body : SqlAccepts(SqlPayload(shape)[f], body[f])
  /\ shape = "INTERVAL" => Ordered(body)

(* validate_reasoning_artifact_envelope. *)
SqlValidEnvelope(kind, env, body) ==
  /\ env.owner # "POLICY" /\ ~(kind = "FACT" /\ env.owner = "AGENT")
  /\ ~(kind = "FACT" /\ env.origin = "LLM")
  /\ ~(kind = "EVIDENCE" /\ env.origin = "HISTORICAL_SESSION")
  /\ kind \in {"FACT", "EVIDENCE"} => env.sources # "none"
  /\ env.sources \in {"none", "located"}
  /\ env.confidence \in {"none", "unit"}
  /\ kind = "POSITION" => env.confidence # "none"
  /\ kind = "FACT" => env.confidence = "none"
  /\ (kind = "EVIDENCE" /\ env.version = 1) => body["verification"] = "UNVERIFIED"

(* The CHECK constraints of reasoning_artifacts. *)
RowChecks(kind, env) ==
  /\ kind \in ArtifactKind
  /\ env.owner \in {"HUMAN", "AGENT", "SERVICE", "POLICY"}
  /\ \/ env.version = 1 /\ ~env.supersedes
     \/ env.version > 1 /\ env.supersedes

(* The payload fields whose identities the trigger looks up in the session. *)
SqlFields(shape) ==
  CASE shape = "CLAIM" -> {"supporting_evidence_ids", "opposing_evidence_ids"}
    [] shape = "INFERENCE" -> {"premise_ids", "conclusion_id"}
    [] shape = "EVIDENCE" -> {"claim_id"}
    [] shape \in Representation -> {"target_id"}
    [] shape = "RISK" -> {"uncertainty_id", "affected_objective_ids"}
    [] shape = "IMPACT" -> {"alternative_id", "objective_id", "source_artifact_id"}
    [] shape = "OBJECTIVE" -> {"conflicts_with_ids"}
    [] shape = "POSITION" -> {"target_id", "evidence_ids"}
    [] shape = "CRITIQUE" -> {"target_id"}
    [] OTHER -> {}

(* enforce_artifact_references: the edges and the confidence of any kind. *)
SqlReferences(shape) == {"parent_relationships", "basis_artifact_ids"} \cup SqlFields(shape)

(* The payload fields whose identities the coordinator authorizes for a turn. *)
ProposalFields(shape) ==
  CASE shape = "CLAIM" -> {"supporting_evidence_ids", "opposing_evidence_ids"}
    [] shape = "EVIDENCE" -> {"claim_id"}
    [] shape = "INFERENCE" -> {"premise_ids", "conclusion_id"}
    [] shape \in Representation -> {"target_id"}
    [] shape = "RISK" -> {"uncertainty_id", "affected_objective_ids"}
    [] shape = "IMPACT" -> {"alternative_id", "objective_id", "source_artifact_id"}
    [] shape = "OBJECTIVE" -> {"conflicts_with_ids"}
    [] shape = "POSITION" -> {"target_id", "evidence_ids"}
    [] shape = "CRITIQUE" -> {"target_id"}
    [] OTHER -> {}

ProposalReferences(shape) == {"basis_artifact_ids"} \cup ProposalFields(shape)

(* _artifact: the edges of an agent's artifact come from these fields. *)
AgentParents(shape) == IF shape = "CRITIQUE" THEN {"target_id"} ELSE {}
-----------------------------------------------------------------------------
(* Drafts: the plain artifact of a shape, and what one edit makes of it. *)
PlainValue(field) ==
  CASE field.type = "enum" -> IF "UNVERIFIED" \in field.of THEN "UNVERIFIED" ELSE CHOOSE v \in field.of : TRUE
    [] field.type = "ids" -> "uuidlist" [] field.type = "texts" -> "textlist" [] field.type = "id" -> "uuid"
    [] field.type \in {"unit", "decimal"} -> "unit" [] field.type = "bool" -> "true"
    [] field.type \in {"text", "object", "expression", "scenarios"} -> field.type

PlainEnvelope(kind) ==
  [owner |-> IF kind = "FACT" THEN "HUMAN" ELSE "AGENT", origin |-> IF kind = "FACT" THEN "HUMAN" ELSE "LLM",
   sources |-> IF kind \in {"FACT", "EVIDENCE"} THEN "located" ELSE "none",
   confidence |-> IF kind = "FACT" THEN "none" ELSE "unit", version |-> 1, supersedes |-> FALSE]

Plain(shape) ==
  [shape |-> shape, extra |-> FALSE, env |-> PlainEnvelope(KindOf(shape)),
   body |-> [f \in DOMAIN PayloadModel(shape) |-> PlainValue(PayloadModel(shape)[f])]]

Envelopes ==
  [owner : ActorClass, origin : ProvenanceOrigin, sources : {"none", "located", "unlocated", "nul"},
   confidence : {"none", "unit", "above one", "foreign", "nul", "niluuid"}, version : {1, 2}, supersedes : BOOLEAN]

ContractInit == candidate \in {Plain(shape) : shape \in Shapes}

EditField ==
  /\ candidate = Plain(candidate.shape)
  /\ \E f \in DOMAIN candidate.body : \E v \in Values \cup PayloadModel(candidate.shape)[f].of :
        candidate' = [candidate EXCEPT !.body[f] = v]

AddField == candidate = Plain(candidate.shape) /\ candidate' = [candidate EXCEPT !.extra = TRUE]

EditEnvelope ==
  /\ candidate = Plain(candidate.shape)
  /\ \E env \in Envelopes : candidate' = [candidate EXCEPT !.env = env]

ContractNext == EditField \/ AddField \/ EditEnvelope

ContractSpec == ContractInit /\ [][ContractNext]_candidate

Accepted ==
  /\ ValidPayload(candidate.shape, candidate.body, candidate.extra)
  /\ ValidEnvelope(KindOf(candidate.shape), candidate.env, candidate.body)

StoredByTable ==
  LET row == Stored(candidate.shape, candidate.body)
  IN /\ SqlValidPayload(candidate.shape, row, candidate.extra)
     /\ SqlValidEnvelope(KindOf(candidate.shape), candidate.env, row)
     /\ RowChecks(KindOf(candidate.shape), candidate.env)

(* Text without U+0000, decimals in ASCII digits, identities with a version. *)
PortableField(field, v) ==
  /\ v \notin Nul
  /\ field.type \in {"unit", "decimal"} => v # "foreign"
  /\ field.type = "scenarios" => v # "foreignscenarios"
  /\ field.type = "id" => v # "niluuid"
  /\ field.type = "ids" => v # "niluuidlist"

Portable(shape, body, env) ==
  /\ \A f \in DOMAIN body : PortableField(PayloadModel(shape)[f], body[f])
  /\ env.sources # "nul" /\ env.confidence \notin {"foreign", "nul", "niluuid"}

(* Of what the domain models accept, the table takes, in the form they store *)
(* it, exactly the portable part: whatever else the two validators write     *)
(* differently (blanks, zeros, enumerations, key sets, ranges, the rules of  *)
(* the kinds) they agree on.  And every identity the trigger looks up is one *)
(* the coordinator has authorized for the turn.  Otherwise the insert fails  *)
(* after the turn has been paid for and takes the round with it              *)
(* (domain/reasoning.py and proposal_commit.py against migration 0005).      *)
DomainIsStorable ==
  /\ Accepted => (StoredByTable <=> Portable(candidate.shape, candidate.body, candidate.env))
  /\ (SqlReferences(candidate.shape) \ {"parent_relationships"}) \cup AgentParents(candidate.shape)
       \subseteq ProposalReferences(candidate.shape)

(* Domain validation is the earlier error boundary: what it lets through is  *)
(* stored.  It lets U+0000 and the digits of other scripts through           *)
(* (domain/reasoning.py:102-110).                                            *)
EarlierBoundary == Accepted => StoredByTable
=============================================================================
