----------------------- MODULE ReasoningRecordProofs -----------------------
(***************************************************************************)
(* Proofs about the reasoning record: what may be written into it, for     *)
(* every payload; the retraction of a source, for any number of requests;  *)
(* the readers of its graph, for every graph, depth and page size; the     *)
(* turns, responses and people that write it, for any turns and rounds;    *)
(* and what the report of a retracted source covers.                       *)
(***************************************************************************)
EXTENDS SourceImpact, Deliberation, SequenceTheorems, FiniteSetTheorems, WellFoundedInduction, TLAPS

-----------------------------------------------------------------------------
(* What may be written. *)

FieldTypes ==
  {"text", "enum", "id", "ids", "texts", "unit", "decimal", "bool", "object", "expression", "scenarios"}

Typed(model) == \A f \in DOMAIN model : model[f].type \in FieldTypes /\ model[f].of \cap Nul = {}

(* The two descriptions of a payload name the same fields with the same      *)
(* types and members.                                                        *)
LEMMA StatementsAgree ==
  ASSUME NEW shape \in StatementKinds
  PROVE  /\ SqlStatementPayload(shape) = StatementPayload(shape) /\ Typed(StatementPayload(shape))
         /\ shape = "EVIDENCE" => /\ "verification" \in DOMAIN StatementPayload(shape)
                                  /\ StatementPayload(shape)["verification"].type = "enum"
<1>1. CASE shape = "CLAIM"
  BY <1>1 DEF SqlStatementPayload, StatementPayload, Typed, FieldTypes, Nul, Text, Ids, Enum, Field,
              ClaimType, Bearing, Strength, ReviewStatus
<1>2. CASE shape = "FACT"
  BY <1>2 DEF SqlStatementPayload, StatementPayload, Typed, FieldTypes, Nul, Text, Enum, Field, Verified
<1>3. CASE shape = "ASSUMPTION"
  BY <1>3 DEF SqlStatementPayload, StatementPayload, Typed, FieldTypes, Nul, Text, Field
<1>4. CASE shape = "INFERENCE"
  BY <1>4 DEF SqlStatementPayload, StatementPayload, Typed, FieldTypes, Nul, Text, Id, Ids, Field
<1>5. CASE shape = "PROPOSITION"
  BY <1>5 DEF SqlStatementPayload, StatementPayload, Typed, FieldTypes, Nul, Text, Enum, Field, NormalizationStatus
<1>6. CASE shape = "EVIDENCE"
  <2>1. Attributable = {"PRIMARY", "AUTHORITATIVE", "SECONDARY", "COMMERCIAL"}
    BY DEF Attributable, TrustLevel
  <2>2. SqlStatementPayload(shape) = StatementPayload(shape)
    BY <1>6, <2>1 DEF SqlStatementPayload, StatementPayload, Text, Id, Unit, Enum, Field,
                EvidenceRelation, Verification, EvidenceProvenance
  <2>3. /\ Typed(StatementPayload(shape)) /\ "verification" \in DOMAIN StatementPayload(shape)
        /\ StatementPayload(shape)["verification"].type = "enum"
    BY <1>6, <2>1 DEF StatementPayload, Typed, FieldTypes, Nul, Text, Id, Unit, Enum, Field, EvidenceRelation,
                Verification, EvidenceProvenance
  <2> QED BY <2>2, <2>3
<1> QED BY <1>1, <1>2, <1>3, <1>4, <1>5, <1>6 DEF StatementKinds

LEMMA UncertaintiesAgree ==
  ASSUME NEW shape \in Representation
  PROVE  /\ SqlUncertaintyPayload(shape) = UncertaintyPayload(shape) /\ Typed(UncertaintyPayload(shape))
         /\ shape = "INTERVAL" => \A f \in {"lower", "upper"} : /\ f \in DOMAIN UncertaintyPayload(shape)
                                                                /\ UncertaintyPayload(shape)[f].type = "decimal"
<1>1. CASE shape = "INTERVAL"
  BY <1>1 DEF SqlUncertaintyPayload, UncertaintyPayload, Typed, FieldTypes, Nul, Text, Id, Texts, Decimal, Enum,
              Field, UncertaintyType
<1>2. CASE shape = "DISTRIBUTION"
  BY <1>2 DEF SqlUncertaintyPayload, UncertaintyPayload, Typed, FieldTypes, Nul, Text, Id, Texts, Enum, Field,
              UncertaintyType
<1>3. CASE shape = "SCENARIOS"
  BY <1>3 DEF SqlUncertaintyPayload, UncertaintyPayload, Typed, FieldTypes, Nul, Id, Texts, Enum, Field,
              UncertaintyType
<1>4. CASE shape = "QUALITATIVE"
  BY <1>4 DEF SqlUncertaintyPayload, UncertaintyPayload, Typed, FieldTypes, Nul, Text, Id, Texts, Enum, Field,
              UncertaintyType
<1> QED BY <1>1, <1>2, <1>3, <1>4 DEF Representation

DecisionKinds == {"RISK", "IMPACT", "OBJECTIVE", "CONSTRAINT", "ALTERNATIVE", "POSITION", "CRITIQUE"}

LEMMA DecisionsAgree ==
  ASSUME NEW shape \in DecisionKinds
  PROVE  SqlDecisionPayload(shape) = DecisionPayload(shape) /\ Typed(DecisionPayload(shape))
<1>1. CASE shape = "RISK"
  BY <1>1 DEF SqlDecisionPayload, DecisionPayload, Typed, FieldTypes, Nul, Text, Unit, Id, Ids, Field
<1>2. CASE shape = "IMPACT"
  BY <1>2 DEF SqlDecisionPayload, DecisionPayload, Typed, FieldTypes, Nul, Text, Decimal, Id, Field
<1>3. CASE shape = "OBJECTIVE"
  BY <1>3 DEF SqlDecisionPayload, DecisionPayload, Typed, FieldTypes, Nul, Text, Unit, Ids, Field
<1>4. CASE shape = "CONSTRAINT"
  BY <1>4 DEF SqlDecisionPayload, DecisionPayload, Typed, FieldTypes, Nul, Text, Enum, Field, ConstraintType
<1>5. CASE shape = "ALTERNATIVE"
  BY <1>5 DEF SqlDecisionPayload, DecisionPayload, Typed, FieldTypes, Nul, Text, Texts, Field
<1>6. CASE shape = "POSITION"
  BY <1>6 DEF SqlDecisionPayload, DecisionPayload, Typed, FieldTypes, Nul, Text, Texts, Id, Ids, Enum, Field, Stance
<1>7. CASE shape = "CRITIQUE"
  BY <1>7 DEF SqlDecisionPayload, DecisionPayload, Typed, FieldTypes, Nul, Text, Id, Enum, Field, CritiqueType,
              Severity, Resolution
<1> QED BY <1>1, <1>2, <1>3, <1>4, <1>5, <1>6, <1>7 DEF DecisionKinds

LEMMA PayloadsAgree ==
  ASSUME NEW shape \in Shapes
  PROVE  /\ SqlPayload(shape) = PayloadModel(shape) /\ Typed(PayloadModel(shape))
         /\ shape = "EVIDENCE" => /\ "verification" \in DOMAIN PayloadModel(shape)
                                  /\ PayloadModel(shape)["verification"].type = "enum"
         /\ shape = "INTERVAL" => \A f \in {"lower", "upper"} : /\ f \in DOMAIN PayloadModel(shape)
                                                                /\ PayloadModel(shape)[f].type = "decimal"
<1>1. CASE shape \in StatementKinds
  <2>1. shape \notin Representation /\ shape # "INTERVAL" BY <1>1 DEF StatementKinds, Representation
  <2>2. SqlPayload(shape) = SqlStatementPayload(shape) /\ PayloadModel(shape) = StatementPayload(shape)
    BY <1>1, <2>1 DEF SqlPayload, PayloadModel
  <2> QED BY <1>1, <2>1, <2>2, StatementsAgree
<1>2. CASE shape \in Representation
  <2>1. shape \notin StatementKinds /\ shape # "EVIDENCE" BY <1>2 DEF StatementKinds, Representation
  <2>2. SqlPayload(shape) = SqlUncertaintyPayload(shape) /\ PayloadModel(shape) = UncertaintyPayload(shape)
    BY <1>2, <2>1 DEF SqlPayload, PayloadModel
  <2> QED BY <1>2, <2>1, <2>2, UncertaintiesAgree
<1>3. CASE shape \notin StatementKinds \cup Representation
  <2>1. shape \in DecisionKinds BY <1>3 DEF Shapes, ArtifactKind, StatementKinds, Representation, DecisionKinds
  <2>2. SqlPayload(shape) = SqlDecisionPayload(shape) /\ PayloadModel(shape) = DecisionPayload(shape)
    BY <1>3 DEF SqlPayload, PayloadModel
  <2>3. shape # "EVIDENCE" /\ shape # "INTERVAL" BY <2>1 DEF DecisionKinds
  <2> QED BY <2>1, <2>2, <2>3, DecisionsAgree
<1> QED BY <1>1, <1>2, <1>3

(* A value the model accepts is acceptable to the database once normalised   *)
(* when it is portable, and only then.                                       *)
LEMMA NormalizedIsAccepted ==
  ASSUME NEW field, field.type \in FieldTypes, field.of \cap Nul = {}, NEW v, FieldAccepts(field, v)
  PROVE  SqlAccepts(field, Normalized(field, v)) <=> PortableField(field, v)
<1>1. CASE field.type = "text"
  <2>1. /\ Normalized(field, v) = v
        /\ SqlAccepts(field, v) <=> (v \notin Values \/ v \in Strings \ {"spaces", "nultext"})
    BY <1>1 DEF Normalized, SqlAccepts
  <2>2. PortableField(field, v) <=> v \notin Nul
    BY <1>1 DEF PortableField
  <2>3. v \notin Values \/ v \in Strings \ Blank
    BY <1>1 DEF FieldAccepts
  <2>4. "spaces" \in Blank /\ Nul \subseteq Values /\ "nultext" \in Nul
    BY DEF Blank, Values, Strings, Lists, Objects, Nul
  <2>5. \A w \in Strings : w \in Nul => w = "nultext"
    BY DEF Strings, Nul, Blank, Decimals
  <2> QED BY <2>1, <2>2, <2>3, <2>4, <2>5
<1>2. CASE field.type = "enum"
  BY <1>2 DEF FieldAccepts, SqlAccepts, Normalized, PortableField
<1>3. CASE field.type \in {"id", "ids", "texts"}
  BY <1>3 DEF FieldAccepts, SqlAccepts, Normalized, PortableField, Nul
<1>4. CASE field.type = "unit"
  BY <1>4 DEF FieldAccepts, SqlAccepts, Normalized, PortableField, Nul
<1>5. CASE field.type = "decimal"
  BY <1>5 DEF FieldAccepts, SqlAccepts, Normalized, PortableField, Decimals, Nul
<1>6. CASE field.type \in {"bool", "object", "expression", "scenarios"}
  BY <1>6 DEF FieldAccepts, SqlAccepts, Normalized, PortableField, Objects, Nul
<1> QED BY <1>1, <1>2, <1>3, <1>4, <1>5, <1>6 DEF FieldTypes

(* Normalising a decimal does not move it. *)
LEMMA RankIsKept ==
  ASSUME NEW field, field.type = "decimal", NEW v \in Decimals
  PROVE  Rank(Normalized(field, v)) = Rank(v)
BY DEF Rank, Normalized, Decimals

(* An artifact that the models of domain/reasoning.py build, whatever its    *)
(* fields hold, is accepted by the table of migration 0005 in the form it is *)
(* stored in if and only if it is portable.  No sequence of edits bounds the *)
(* payload here: every field may hold any value its model admits, of the     *)
(* classes listed or none of them.                                           *)
THEOREM DomainFitsTable ==
  ASSUME NEW shape \in Shapes, NEW body, DOMAIN body = DOMAIN PayloadModel(shape),
         NEW env \in Envelopes, NEW extra \in BOOLEAN,
         ValidPayload(shape, body, extra), ValidEnvelope(KindOf(shape), env, body)
  PROVE  (/\ SqlValidPayload(shape, Stored(shape, body), extra)
          /\ SqlValidEnvelope(KindOf(shape), env, Stored(shape, body))
          /\ RowChecks(KindOf(shape), env))
         <=> Portable(shape, body, env)
<1> DEFINE row == Stored(shape, body)
           model == PayloadModel(shape)
           portableBody == \A f \in DOMAIN body : PortableField(model[f], body[f])
           portableEnv == env.sources # "nul" /\ env.confidence \notin {"foreign", "nul", "niluuid"}
<1>1. DOMAIN row = DOMAIN model /\ \A f \in DOMAIN model : row[f] = Normalized(model[f], body[f])
  BY DEF Stored
<1>2. \A f \in DOMAIN model :
        model[f].type \in FieldTypes /\ model[f].of \cap Nul = {} /\ FieldAccepts(model[f], body[f])
  BY PayloadsAgree DEF Typed, ValidPayload
<1>3. SqlValidPayload(shape, row, extra) <=> portableBody
  <2>1. \A f \in DOMAIN model : SqlAccepts(model[f], row[f]) <=> PortableField(model[f], body[f])
    BY <1>1, <1>2, NormalizedIsAccepted
  <2>2. ASSUME shape = "INTERVAL" PROVE Ordered(row)
    <3>1. \A f \in {"lower", "upper"} : f \in DOMAIN model /\ model[f].type = "decimal"
      BY <2>2, PayloadsAgree
    <3>2. \A f \in {"lower", "upper"} : body[f] \in Decimals
      BY <1>2, <3>1 DEF FieldAccepts
    <3>3. Rank(row["lower"]) = Rank(body["lower"]) /\ Rank(row["upper"]) = Rank(body["upper"])
      BY <1>1, <3>1, <3>2, RankIsKept
    <3> QED BY <2>2, <3>3 DEF Ordered, ValidPayload
  <2>3. SqlPayload(shape) = model /\ ~extra
    BY PayloadsAgree DEF ValidPayload
  <2>4. shape = "INTERVAL" => Ordered(row)
    BY <2>2
  <2>5. DOMAIN row = DOMAIN body /\ DOMAIN body = DOMAIN model
    BY DEF Stored
  <2> HIDE DEF row, model
  <2>6. SqlValidPayload(shape, row, extra) <=> \A f \in DOMAIN body : SqlAccepts(model[f], row[f])
    BY <2>3, <2>4, <2>5, <1>1 DEF SqlValidPayload
  <2> QED BY <2>1, <2>5, <2>6
<1>4. SqlValidEnvelope(KindOf(shape), env, row) <=> portableEnv
  <2>1. ASSUME KindOf(shape) = "EVIDENCE" PROVE row["verification"] = body["verification"]
    <3>1. shape = "EVIDENCE"
      BY <2>1 DEF KindOf
    <3>2. row["verification"] = Normalized(model["verification"], body["verification"])
      BY <1>1, <3>1, PayloadsAgree
    <3>3. model["verification"].type = "enum"
      BY <3>1, PayloadsAgree
    <3> QED BY <3>2, <3>3 DEF Normalized
  <2>2. /\ env.sources \in {"none", "located", "unlocated", "nul"}
        /\ env.confidence \in {"none", "unit", "above one", "foreign", "nul", "niluuid"}
    BY DEF Envelopes
  <2> HIDE DEF row
  <2> QED BY <2>1, <2>2 DEF ValidEnvelope, SqlValidEnvelope
<1>5. RowChecks(KindOf(shape), env)
  <2>1. KindOf(shape) \in ArtifactKind
    BY DEF KindOf, Shapes, ArtifactKind, Representation
  <2>2. env.version \in {1, 2} /\ env.supersedes \in BOOLEAN /\ env.owner \in ActorClass
    BY DEF Envelopes
  <2>3. (env.version = 1) = ~env.supersedes
    BY DEF ValidEnvelope
  <2>4. (env.version = 1 /\ ~env.supersedes) \/ (env.version > 1 /\ env.supersedes)
    BY <2>2, <2>3
  <2> QED BY <2>1, <2>2, <2>4 DEF RowChecks, ActorClass
<1>6. Portable(shape, body, env) <=> (portableBody /\ portableEnv)
  BY DEF Portable
<1> QED BY <1>3, <1>4, <1>5, <1>6

(* Every identity the trigger looks up in the row of an agent's artifact is  *)
(* one that proposal_references collects: the targets of its edges, the      *)
(* basis of its confidence and the fields of its payload.                    *)
LEMMA ReferencesAreAuthorized ==
  ASSUME NEW shape \in Shapes
  PROVE  (SqlReferences(shape) \ {"parent_relationships"}) \cup AgentParents(shape)
           \subseteq ProposalReferences(shape)
<1>1. SqlFields(shape) = ProposalFields(shape)
  BY DEF SqlFields, ProposalFields, Shapes, ArtifactKind, Representation
<1>2. shape = "CRITIQUE" => "target_id" \in ProposalFields(shape)
  BY DEF ProposalFields, Representation
<1> QED BY <1>1, <1>2 DEF SqlReferences, ProposalReferences, AgentParents

(* The draft somebody edits is a payload of its shape in some envelope. *)
ContractInv ==
  /\ DOMAIN candidate = {"shape", "extra", "env", "body"}
  /\ candidate.shape \in Shapes /\ candidate.extra \in BOOLEAN /\ candidate.env \in Envelopes
  /\ DOMAIN candidate.body = DOMAIN PayloadModel(candidate.shape)

(* Every draft that the domain accepts and that is portable can be stored,   *)
(* whichever field or part of its envelope was edited, and no other; and the *)
(* identities its row names are authorized.                                  *)
THEOREM DraftsAreStorable == ContractSpec => []DomainIsStorable
<1>1. ContractInit => ContractInv
  <2>1. ASSUME NEW shape \in Shapes, candidate = Plain(shape) PROVE ContractInv
    <3>1. PlainEnvelope(KindOf(shape)) \in Envelopes
      BY DEF PlainEnvelope, Envelopes, ActorClass, ProvenanceOrigin
    <3> QED BY <2>1, <3>1 DEF ContractInv, Plain
  <2> QED BY <2>1 DEF ContractInit
<1>2. ContractInv /\ [ContractNext]_candidate => ContractInv'
  <2> SUFFICES ASSUME ContractInv, [ContractNext]_candidate PROVE ContractInv' OBVIOUS
  <2>1. CASE EditField
    <3>1. PICK f \in DOMAIN candidate.body : \E v : candidate' = [candidate EXCEPT !.body[f] = v]
      BY <2>1 DEF EditField
    <3>2. PICK v : candidate' = [candidate EXCEPT !.body = [candidate.body EXCEPT ![f] = v]]
      BY <3>1
    <3> QED BY <3>2 DEF ContractInv
  <2>2. CASE AddField
    BY <2>2 DEF AddField, ContractInv
  <2>3. CASE EditEnvelope
    BY <2>3 DEF EditEnvelope, ContractInv
  <2>4. CASE UNCHANGED candidate
    BY <2>4 DEF ContractInv
  <2> QED BY <2>1, <2>2, <2>3, <2>4 DEF ContractNext
<1>3. ContractInv => DomainIsStorable
  <2> SUFFICES ASSUME ContractInv PROVE DomainIsStorable OBVIOUS
  <2>1. ASSUME Accepted
        PROVE  StoredByTable <=> Portable(candidate.shape, candidate.body, candidate.env)
    BY <2>1, DomainFitsTable DEF ContractInv, Accepted, StoredByTable
  <2>2. (SqlReferences(candidate.shape) \ {"parent_relationships"}) \cup AgentParents(candidate.shape)
          \subseteq ProposalReferences(candidate.shape)
    BY ReferencesAreAuthorized DEF ContractInv
  <2> QED BY <2>1, <2>2 DEF DomainIsStorable
<1> QED BY <1>1, <1>2, <1>3, PTL DEF ContractSpec
-----------------------------------------------------------------------------
(* The retraction of a source. *)

(* What a finished request was answered follows from the saved record of its *)
(* key: the answer kept there, a conflict with another body, or that the     *)
(* source had gone under another key.                                        *)
AnswerDue(r) ==
  IF saved[KeyOf[r]] = <<>> THEN Reply("not_found")
  ELSE IF saved[KeyOf[r]][1] # ReasonOf[r] THEN Reply("conflict")
  ELSE saved[KeyOf[r]][2]

HoldsSource(r) == request[r].phase \in {"locked", "traced", "analysed"}

Answers ==
  /\ DOMAIN request = Requests /\ DOMAIN saved = RetractionKeys
  /\ \A r \in Requests : "phase" \in DOMAIN request[r] /\ "answer" \in DOMAIN request[r]
  /\ \A r \in Requests : request[r].phase \in {"new", "keyed", "locked", "traced", "analysed", "done"}
  /\ \A r \in Requests : request[r].phase = "done" => source = "RETRACTED" /\ request[r].answer = AnswerDue(r)

(* A transaction has its key to itself, its key has no saved record, and the *)
(* holder of the row lock is the one transaction that has seen the source.   *)
Locks ==
  /\ \A r, other \in Requests :
       r # other /\ InTransaction(r) /\ InTransaction(other) => KeyOf[r] # KeyOf[other]
  /\ \A r \in Requests : InTransaction(r) => saved[KeyOf[r]] = <<>>
  /\ \A r \in Requests : HoldsSource(r) => locked = r /\ source # "RETRACTED"

Reports ==
  /\ source # "RETRACTED" => report = {} /\ outbox = 0
  /\ source = "RETRACTED" => outbox = 1 /\ \E row : report = {row}
  /\ source # "RETRACTED" => \A k \in RetractionKeys : saved[k] = <<>>

RetractionInv == Answers /\ Locks /\ Reports

(* A step of one request that leaves the source and the saved records alone  *)
(* keeps the invariant if it keeps the locks' rules for that request.        *)
LEMMA RequestMoves ==
  ASSUME RetractionInv, NEW r \in Requests, NEW next, "phase" \in DOMAIN next, "answer" \in DOMAIN next,
         request' = [request EXCEPT ![r] = next], UNCHANGED <<source, saved, report, outbox>>,
         next.phase \in {"new", "keyed", "locked", "traced", "analysed", "done"},
         next.phase = "done" => source = "RETRACTED" /\ next.answer = AnswerDue(r),
         next.phase \in {"keyed", "locked", "traced", "analysed"} =>
           /\ saved[KeyOf[r]] = <<>>
           /\ KeyFree(r),
         next.phase \in {"locked", "traced", "analysed"} => locked' = r /\ source # "RETRACTED",
         \A other \in Requests \ {r} : HoldsSource(other) => locked' = locked
  PROVE  RetractionInv'
<1>1. /\ DOMAIN request' = Requests /\ request'[r] = next
      /\ \A other \in Requests \ {r} : request'[other] = request[other]
  BY DEF RetractionInv, Answers
<1>2. Answers'
  BY <1>1 DEF RetractionInv, Answers, AnswerDue, RetractionKeys
<1>3. \A other \in Requests \ {r} : /\ InTransaction(other)' = InTransaction(other)
                                    /\ HoldsSource(other)' = HoldsSource(other)
  BY <1>1 DEF InTransaction, HoldsSource
<1>4. InTransaction(r)' => saved[KeyOf[r]] = <<>> /\ KeyFree(r)
  BY <1>1 DEF InTransaction
<1>5. HoldsSource(r)' => locked' = r /\ source # "RETRACTED"
  BY <1>1 DEF HoldsSource
<1>6. Locks'
  <2>1. \A one, other \in Requests :
          (one # other /\ InTransaction(one)' /\ InTransaction(other)') => KeyOf[one] # KeyOf[other]
    BY <1>3, <1>4 DEF RetractionInv, Locks, KeyFree
  <2>2. \A other \in Requests : InTransaction(other)' => saved[KeyOf[other]] = <<>>
    BY <1>3, <1>4 DEF RetractionInv, Locks
  <2>3. \A other \in Requests : HoldsSource(other)' => locked' = other /\ source # "RETRACTED"
    BY <1>3, <1>5 DEF RetractionInv, Locks
  <2> QED BY <2>1, <2>2, <2>3 DEF Locks
<1>7. Reports'
  BY DEF RetractionInv, Reports
<1> QED BY <1>2, <1>6, <1>7 DEF RetractionInv

(* Two requests in a transaction have different keys. *)
LEMMA KeyStaysFree ==
  ASSUME RetractionInv, NEW r \in Requests, InTransaction(r)
  PROVE  KeyFree(r) /\ saved[KeyOf[r]] = <<>>
BY DEF RetractionInv, Locks, KeyFree

(* Only one transaction holds the source's row lock. *)
LEMMA OneHolder ==
  ASSUME RetractionInv, NEW r \in Requests, HoldsSource(r)
  PROVE  /\ locked = r /\ source # "RETRACTED" /\ InTransaction(r)
         /\ \A other \in Requests \ {r} : ~HoldsSource(other)
BY DEF RetractionInv, Locks, HoldsSource, InTransaction

LEMMA OpenRequestStep == ASSUME RetractionInv, NEW r \in Requests, OpenRequest(r) PROVE RetractionInv'
<1> DEFINE next == IF saved[KeyOf[r]] = <<>> THEN [phase |-> "keyed", answer |-> Reply("none")]
                   ELSE IF saved[KeyOf[r]][1] # ReasonOf[r] THEN [phase |-> "done", answer |-> Reply("conflict")]
                   ELSE [phase |-> "done", answer |-> saved[KeyOf[r]][2]]
<1>1. /\ request' = [request EXCEPT ![r] = next] /\ KeyFree(r)
      /\ UNCHANGED <<source, locked, saved, report, outbox>>
  BY DEF OpenRequest
<1>2. saved[KeyOf[r]] # <<>> => source = "RETRACTED"
  BY DEF RetractionInv, Reports, RetractionKeys
<1>3. "phase" \in DOMAIN next /\ "answer" \in DOMAIN next /\ next.phase \in {"keyed", "done"}
  OBVIOUS
<1>4. next.phase = "done" => source = "RETRACTED" /\ next.answer = AnswerDue(r)
  BY <1>2 DEF AnswerDue
<1>5. next.phase = "keyed" => saved[KeyOf[r]] = <<>>
  OBVIOUS
<1> HIDE DEF next
<1> QED BY <1>1, <1>3, <1>4, <1>5, RequestMoves

LEMMA LockSourceStep == ASSUME RetractionInv, NEW r \in Requests, LockSource(r) PROVE RetractionInv'
<1>1. /\ request[r].phase = "keyed" /\ locked = Nobody /\ InTransaction(r)
      /\ UNCHANGED <<source, saved, report, outbox>>
  BY DEF LockSource, InTransaction
<1>2. KeyFree(r) /\ saved[KeyOf[r]] = <<>>
  BY <1>1, KeyStaysFree
<1>3. \A other \in Requests : ~HoldsSource(other)
  BY <1>1, OneHolder, RequestsAreNamed
<1>4. CASE source = "RETRACTED"
  <2> DEFINE next == [phase |-> "done", answer |-> Reply("not_found")]
  <2>1. request' = [request EXCEPT ![r] = next]
    BY <1>4 DEF LockSource
  <2>2. "phase" \in DOMAIN next /\ "answer" \in DOMAIN next /\ next.phase = "done" /\ next.answer = AnswerDue(r)
    BY <1>2 DEF AnswerDue
  <2> HIDE DEF next
  <2> QED BY <1>1, <1>3, <1>4, <2>1, <2>2, RequestMoves
<1>5. CASE source # "RETRACTED"
  <2> DEFINE next == [phase |-> "locked", answer |-> Reply("none"), roots |-> citations]
  <2>1. request' = [request EXCEPT ![r] = next] /\ locked' = r
    BY <1>5 DEF LockSource
  <2>2. "phase" \in DOMAIN next /\ "answer" \in DOMAIN next /\ next.phase = "locked"
    OBVIOUS
  <2> HIDE DEF next
  <2> QED BY <1>1, <1>2, <1>3, <1>5, <2>1, <2>2, RequestMoves
<1> QED BY <1>4, <1>5

(* What the analysis finds is kept in the request: the locks stay. *)
LEMMA AnalysisStep ==
  ASSUME RetractionInv, NEW r \in Requests, Trace(r) \/ TraceFails(r) \/ ReadDownstream(r)
  PROVE  RetractionInv'
<1>1. HoldsSource(r) /\ UNCHANGED <<source, locked, saved, report, outbox>>
  BY DEF Trace, TraceFails, ReadDownstream, HoldsSource
<1>2. /\ KeyFree(r) /\ saved[KeyOf[r]] = <<>> /\ locked = r /\ source # "RETRACTED"
  BY <1>1, OneHolder, KeyStaysFree
<1>3. \E next : /\ request' = [request EXCEPT ![r] = next] /\ "phase" \in DOMAIN next /\ "answer" \in DOMAIN next
                /\ next.phase \in {"traced", "analysed"}
  <2>0. "phase" \in DOMAIN request[r] /\ "answer" \in DOMAIN request[r] BY DEF RetractionInv, Answers
  <2>1. CASE Trace(r)
    <3> DEFINE next == [phase |-> "traced", answer |-> Reply("none"), roots |-> request[r].roots,
             analysis |-> ImpactAnalysis(\A root \in request[r].roots : ~Closure(root, Edges).truncated,
                                         ArtifactDependencies(request[r].roots, Edges))]
    <3>1. request' = [request EXCEPT ![r] = next] BY <2>1 DEF Trace
    <3>2. "phase" \in DOMAIN next /\ "answer" \in DOMAIN next /\ next.phase = "traced" OBVIOUS
    <3> QED BY <3>1, <3>2
  <2>2. CASE TraceFails(r)
    <3> DEFINE next == [phase |-> "analysed", answer |-> Reply("none"), roots |-> request[r].roots,
                        analysis |-> Incomplete]
    <3>1. request' = [request EXCEPT ![r] = next] BY <2>2 DEF TraceFails
    <3>2. "phase" \in DOMAIN next /\ "answer" \in DOMAIN next /\ next.phase = "analysed" OBVIOUS
    <3> QED BY <3>1, <3>2
  <2>3. CASE ReadDownstream(r)
    <3> DEFINE next == [request[r] EXCEPT !.phase = "analysed",
                          !.analysis.dependencies = @ \cup DownstreamRecords(@, results)]
    <3>1. request' = [request EXCEPT ![r] = next] BY <2>3 DEF ReadDownstream
    <3>2. "phase" \in DOMAIN next /\ "answer" \in DOMAIN next /\ next.phase = "analysed" BY <2>0
    <3> QED BY <3>1, <3>2
  <2> QED BY <2>1, <2>2, <2>3
<1> QED BY <1>1, <1>2, <1>3, RequestMoves

(* The one retraction: until then nobody was answered. *)
LEMMA RetractStep == ASSUME RetractionInv, NEW r \in Requests, Retract(r) PROVE RetractionInv'
<1> DEFINE row == [by |-> r, roots |-> request[r].roots, analysis |-> request[r].analysis]
           next == [phase |-> "done", answer |-> Retracted(row)]
           kept == <<ReasonOf[r], Retracted(row)>>
<1>1. /\ request[r].phase = "analysed" /\ source # "RETRACTED" /\ source' = "RETRACTED"
      /\ report' = report \cup {row} /\ outbox' = outbox + 1
      /\ saved' = [saved EXCEPT ![KeyOf[r]] = kept] /\ request' = [request EXCEPT ![r] = next]
  BY DEF Retract, Retractable
<1>2. kept # <<>> /\ kept[1] = ReasonOf[r] /\ kept[2] = Retracted(row)
  OBVIOUS
<1>3. "phase" \in DOMAIN next /\ "answer" \in DOMAIN next /\ next.phase = "done" /\ next.answer = Retracted(row)
  OBVIOUS
<1> HIDE DEF next, kept, row
<1>4. HoldsSource(r) /\ InTransaction(r)
  BY <1>1 DEF HoldsSource, InTransaction
<1>5. /\ DOMAIN request' = Requests /\ request'[r] = next
      /\ \A other \in Requests \ {r} : request'[other] = request[other]
  BY <1>1 DEF RetractionInv, Answers
<1>6. /\ DOMAIN saved' = RetractionKeys /\ saved'[KeyOf[r]] = kept
      /\ \A k \in RetractionKeys \ {KeyOf[r]} : saved'[k] = saved[k]
  BY <1>1 DEF RetractionInv, Answers, RetractionKeys
<1>7. AnswerDue(r)' = Retracted(row)
  BY <1>2, <1>6 DEF AnswerDue
<1>8. \A other \in Requests \ {r} : request[other].phase # "done"
  BY <1>1 DEF RetractionInv, Answers
<1>9. Answers'
  <2>1. RetractionKeys' = RetractionKeys
    BY DEF RetractionKeys
  <2> QED BY <1>1, <1>3, <1>5, <1>6, <1>7, <1>8, <2>1 DEF RetractionInv, Answers
<1>10. ~InTransaction(r)' /\ ~HoldsSource(r)'
  BY <1>3, <1>5 DEF InTransaction, HoldsSource
<1>11. \A other \in Requests \ {r} : /\ InTransaction(other)' = InTransaction(other)
                                     /\ ~HoldsSource(other) /\ ~HoldsSource(other)'
  BY <1>4, <1>5, OneHolder DEF InTransaction, HoldsSource
<1>12. Locks'
  <2>1. \A other \in Requests \ {r} : InTransaction(other) => KeyOf[other] # KeyOf[r]
    BY <1>4 DEF RetractionInv, Locks
  <2>2. \A other \in Requests : InTransaction(other)' => saved'[KeyOf[other]] = <<>>
    BY <1>6, <1>10, <1>11, <2>1 DEF RetractionInv, Locks, RetractionKeys
  <2> QED BY <1>10, <1>11, <2>2 DEF RetractionInv, Locks
<1>13. Reports'
  <2>1. report' = {row} /\ outbox' = 1
    BY <1>1 DEF RetractionInv, Reports
  <2> QED BY <1>1, <2>1 DEF Reports
<1> QED BY <1>9, <1>12, <1>13 DEF RetractionInv

LEMMA AbortStep == ASSUME RetractionInv, NEW r \in Requests, AbortRetraction(r) PROVE RetractionInv'
<1> DEFINE next == [phase |-> "new", answer |-> Reply("none")]
<1>1. /\ request' = [request EXCEPT ![r] = next] /\ UNCHANGED <<source, saved, report, outbox>>
      /\ locked' = IF locked = r THEN Nobody ELSE locked
  BY DEF AbortRetraction
<1>2. "phase" \in DOMAIN next /\ "answer" \in DOMAIN next /\ next.phase = "new"
  OBVIOUS
<1>3. \A other \in Requests \ {r} : HoldsSource(other) => locked' = locked
  BY <1>1, OneHolder
<1> HIDE DEF next
<1> QED BY <1>1, <1>2, <1>3, RequestMoves

LEMMA RetractionInit == ImpactInit => RetractionInv
BY DEF ImpactInit, RetractionInv, Answers, Locks, Reports, InTransaction, HoldsSource, RetractionKeys

(* Nothing else touches the retraction. *)
LEMMA RetractionKept == ASSUME RetractionInv, UNCHANGED requestVars PROVE RetractionInv'
BY DEF requestVars, RetractionInv, Answers, Locks, Reports, InTransaction, HoldsSource, RetractionKeys, AnswerDue

LEMMA RetractionStep == ASSUME RetractionInv, [ImpactNext]_impactVars PROVE RetractionInv'
<1>1. ASSUME NEW r \in Requests, OpenRequest(r) PROVE RetractionInv'
  BY <1>1, OpenRequestStep
<1>2. ASSUME NEW r \in Requests, LockSource(r) PROVE RetractionInv'
  BY <1>2, LockSourceStep
<1>3. ASSUME NEW r \in Requests, Trace(r) \/ TraceFails(r) \/ ReadDownstream(r) PROVE RetractionInv'
  BY <1>3, AnalysisStep
<1>4. ASSUME NEW r \in Requests, Retract(r) PROVE RetractionInv'
  BY <1>4, RetractStep
<1>5. ASSUME NEW r \in Requests, AbortRetraction(r) PROVE RetractionInv'
  BY <1>5, AbortStep
<1>6. CASE \E n \in Nodes : CommitArtifact(n)
  BY <1>6, RetractionKept DEF CommitArtifact
<1>7. CASE \E c \in Results : CommitResult(c)
  BY <1>7, RetractionKept DEF CommitResult
<1>8. CASE \E e \in EvidenceNodes : AttachCheck(e) \/ AttachInsert(e)
  BY <1>8, RetractionKept DEF AttachCheck, AttachInsert
<1>9. CASE \E query \in ReaderQueries, root \in Nodes : OpenReader(query, root)
  BY <1>9, RetractionKept DEF OpenReader
<1>10. CASE NextPage
  BY <1>10, RetractionKept DEF NextPage
<1>11. CASE UNCHANGED impactVars
  BY <1>11, RetractionKept DEF impactVars, requestVars
<1> QED BY <1>1, <1>2, <1>3, <1>4, <1>5, <1>6, <1>7, <1>8, <1>9, <1>10, <1>11 DEF ImpactNext

(* A source is retracted with exactly one report and one event, and all      *)
(* requests with one key and one body are answered alike, for any number of  *)
(* requests, keys and lost transactions (application/source_impact.py,       *)
(* api/routes' idempotency records).                                         *)
THEOREM SourcesRetractOnce == ImpactSpec => []RetractedOnce
<1>1. ASSUME RetractionInv PROVE RetractedOnce
  <2>1. (source = "RETRACTED") = (Cardinality(report) = 1) /\ outbox = Cardinality(report)
    <3>1. CASE source # "RETRACTED"
      <4>1. report = {} /\ outbox = 0 BY <1>1, <3>1 DEF RetractionInv, Reports
      <4>2. Cardinality(report) = 0 BY <4>1, FS_EmptySet
      <4> QED BY <3>1, <4>1, <4>2
    <3>2. CASE source = "RETRACTED"
      <4>1. PICK row : report = {row} BY <1>1, <3>2 DEF RetractionInv, Reports
      <4>2. Cardinality(report) = 1 BY <4>1, FS_Singleton
      <4>3. outbox = 1 BY <1>1, <3>2 DEF RetractionInv, Reports
      <4> QED BY <3>2, <4>2, <4>3
    <3> QED BY <3>1, <3>2
  <2>2. \A r, other \in Requests :
          (/\ KeyOf[r] = KeyOf[other] /\ ReasonOf[r] = ReasonOf[other]
           /\ request[r].phase = "done" /\ request[other].phase = "done")
            => request[r].answer = request[other].answer
    BY <1>1 DEF RetractionInv, Answers, AnswerDue
  <2> QED BY <2>1, <2>2 DEF RetractedOnce
<1> QED BY <1>1, RetractionInit, RetractionStep, PTL DEF ImpactSpec
-----------------------------------------------------------------------------
(* The readers of the graph. *)

(* A set with 0 and with the successor of each of its numbers has them all:  *)
(* a smallest missing number would have a predecessor.                       *)
LEMMA Climb ==
  ASSUME NEW S, 0 \in S, \A n \in Nat : n \in S => n + 1 \in S
  PROVE  Nat \subseteq S
<1> DEFINE missing == {n \in Nat : n \notin S}
           less == {pair \in Nat \X Nat : pair[1] < pair[2]}
<1>1. SUFFICES ASSUME missing # {} PROVE FALSE
  OBVIOUS
<1>2. IsWellFoundedOn(less, Nat)
  BY NatLessThanWellFounded DEF OpToRel
<1>3. PICK x \in missing : \A y \in missing : ~(<<y, x>> \in less)
  <2>1. missing \subseteq Nat OBVIOUS
  <2> HIDE DEF missing, less
  <2> QED BY <1>1, <1>2, <2>1, WFMin
<1>4. x \in Nat /\ x # 0
  OBVIOUS
<1>5. x - 1 \in Nat /\ x - 1 < x
  BY <1>4
<1>6. x - 1 \notin missing
  <2>1. <<x - 1, x>> \in less BY <1>4, <1>5
  <2> QED BY <1>3, <2>1
<1>7. x - 1 \in S
  BY <1>5, <1>6
<1>8. (x - 1) + 1 \in S
  BY <1>5, <1>7
<1> QED BY <1>4, <1>8

(* The rows of a walk are what its recursive query says. *)
LEMMA WalkUnfolds ==
  ASSUME NEW direction, NEW roots, NEW edges, NEW depth \in Nat
  PROVE  /\ Walk(direction, roots, edges, depth)[0] = StartRows(roots)
         /\ \A d \in 0..depth : d # 0 =>
              Walk(direction, roots, edges, depth)[d]
                = HopRows(direction, Walk(direction, roots, edges, depth)[d - 1], edges)
<1> DEFINE Rows(g, n) == [d \in 0..n |-> IF d = 0 THEN StartRows(roots) ELSE HopRows(direction, g[d - 1], edges)]
           defined == {n \in Nat : \E g : g = Rows(g, n)}
<1>1. 0 \in defined
  <2> DEFINE g == [d \in 0..0 |-> StartRows(roots)]
  <2>1. g = Rows(g, 0)
    OBVIOUS
  <2> QED BY <2>1
<1>2. ASSUME NEW n \in Nat, n \in defined PROVE n + 1 \in defined
  <2>1. PICK g : g = Rows(g, n)
    BY <1>2
  <2> DEFINE h == [d \in 0..(n + 1) |-> IF d <= n THEN g[d] ELSE HopRows(direction, g[n], edges)]
  <2>2. \A d \in 0..(n + 1) : h[d] = IF d = 0 THEN StartRows(roots) ELSE HopRows(direction, h[d - 1], edges)
    <3> SUFFICES ASSUME NEW d \in 0..(n + 1)
                 PROVE  h[d] = IF d = 0 THEN StartRows(roots) ELSE HopRows(direction, h[d - 1], edges)
      OBVIOUS
    <3>1. CASE d = 0
      <4>1. g[0] = StartRows(roots) BY <2>1
      <4> QED BY <3>1, <4>1
    <3>2. CASE d \in 1..n
      <4>1. g[d] = HopRows(direction, g[d - 1], edges) BY <2>1, <3>2
      <4>2. h[d] = g[d] /\ h[d - 1] = g[d - 1] /\ d # 0 BY <3>2
      <4> HIDE DEF h
      <4> QED BY <4>1, <4>2
    <3>3. CASE d = n + 1
      <4>1. h[d] = HopRows(direction, g[n], edges) /\ h[d - 1] = g[n] /\ d # 0 BY <3>3
      <4> HIDE DEF h
      <4> QED BY <4>1
    <3> QED BY <3>1, <3>2, <3>3
  <2>3. h = Rows(h, n + 1)
    BY <2>2
  <2> HIDE DEF h
  <2> QED BY <2>3
<1>3. depth \in defined
  <2> HIDE DEF defined
  <2> QED BY <1>1, <1>2, Climb
<1> DEFINE walk == Walk(direction, roots, edges, depth)
<1>4. walk = CHOOSE g : g = Rows(g, depth)
  BY DEF Walk
<1>5. walk = Rows(walk, depth)
  BY <1>3, <1>4
<1>6. /\ walk[0] = StartRows(roots)
      /\ \A d \in 0..depth : d # 0 => walk[d] = HopRows(direction, walk[d - 1], edges)
  <2> HIDE DEF walk
  <2> QED BY <1>5
<1> QED BY <1>6

(* With more edges a walk still finds every row it found. *)
LEMMA WalkGrows ==
  ASSUME NEW direction, NEW roots, NEW edges, NEW more, edges \subseteq more, NEW depth \in Nat
  PROVE  \A d \in 0..depth : Walk(direction, roots, edges, depth)[d] \subseteq Walk(direction, roots, more, depth)[d]
<1> DEFINE old == Walk(direction, roots, edges, depth)
           new == Walk(direction, roots, more, depth)
           kept == {d \in Nat : d <= depth => old[d] \subseteq new[d]}
<1>1. 0 \in kept
  BY WalkUnfolds
<1>2. ASSUME NEW d \in Nat, d \in kept PROVE d + 1 \in kept
  <2>1. SUFFICES ASSUME d + 1 <= depth PROVE old[d + 1] \subseteq new[d + 1]
    OBVIOUS
  <2>2. old[d] \subseteq new[d]
    BY <1>2, <2>1
  <2>3. /\ d + 1 \in 0..depth /\ d + 1 # 0 /\ (d + 1) - 1 = d
    BY <2>1
  <2>4. /\ old[d + 1] = HopRows(direction, old[d], edges) /\ new[d + 1] = HopRows(direction, new[d], more)
    BY <2>3, WalkUnfolds
  <2> HIDE DEF old, new
  <2>5. ASSUME NEW rows, NEW others, rows \subseteq others
        PROVE  HopRows(direction, rows, edges) \subseteq HopRows(direction, others, more)
    <3>1. \A node : Hop(direction, node, edges) \subseteq Hop(direction, node, more)
      BY DEF Hop
    <3> QED BY <2>5, <3>1 DEF HopRows
  <2> QED BY <2>2, <2>4, <2>5
<1> HIDE DEF kept
<1>3. Nat \subseteq kept
  BY <1>1, <1>2, Climb
<1> QED BY <1>3 DEF kept

(* A walk over the edges of a set of nodes from one of them stays among      *)
(* those nodes and edges.                                                    *)
LEMMA WalkStays ==
  ASSUME NEW direction, NEW nodes, NEW roots \in SUBSET nodes, NEW edges, NEW depth \in Nat,
         \A e \in edges : e.from \in nodes /\ e.to \in nodes
  PROVE  \A d \in 0..depth : \A w \in Walk(direction, roots, edges, depth)[d] :
           w.node \in nodes /\ w.edge \in {0} \cup {e.id : e \in edges}
<1> DEFINE walk == Walk(direction, roots, edges, depth)
           Inside(w) == w.node \in nodes /\ w.edge \in {0} \cup {e.id : e \in edges}
           kept == {d \in Nat : d <= depth => \A w \in walk[d] : Inside(w)}
<1>1. 0 \in kept
  <2>1. walk[0] = StartRows(roots) BY WalkUnfolds
  <2> QED BY <2>1 DEF StartRows
<1>2. ASSUME NEW d \in Nat, d \in kept PROVE d + 1 \in kept
  <2>1. SUFFICES ASSUME d + 1 <= depth PROVE \A w \in walk[d + 1] : Inside(w)
    OBVIOUS
  <2>2. d + 1 \in 0..depth /\ d + 1 # 0 /\ (d + 1) - 1 = d
    BY <2>1
  <2>3. walk[d + 1] = HopRows(direction, walk[d], edges)
    BY <2>2, WalkUnfolds
  <2>4. \A node : \A h \in Hop(direction, node, edges) : h.node \in nodes /\ h.edge \in {e.id : e \in edges}
    BY DEF Hop
  <2> HIDE DEF walk
  <2> QED BY <2>3, <2>4 DEF HopRows
<1> HIDE DEF kept
<1>3. Nat \subseteq kept
  BY <1>1, <1>2, Climb
<1> QED BY <1>3 DEF kept

(* The same of what a bounded walk reports. *)
LEMMA ReachedGrows ==
  ASSUME NEW direction, NEW roots, NEW edges, NEW more, edges \subseteq more, NEW depth \in Nat
  PROVE  /\ Reached(direction, roots, edges, depth).nodes \subseteq Reached(direction, roots, more, depth).nodes
         /\ Reached(direction, roots, edges, depth).edges \subseteq Reached(direction, roots, more, depth).edges
<1>1. depth + 1 \in Nat /\ 0..depth \subseteq 0..(depth + 1)
  OBVIOUS
<1>2. \A d \in 0..depth : Walk(direction, roots, edges, depth + 1)[d] \subseteq Walk(direction, roots, more, depth + 1)[d]
  BY <1>1, WalkGrows
<1> QED BY <1>2 DEF Reached

LEMMA ReachedStays ==
  ASSUME NEW direction, NEW nodes, NEW roots \in SUBSET nodes, NEW edges, NEW depth \in Nat,
         \A e \in edges : e.from \in nodes /\ e.to \in nodes
  PROVE  /\ Reached(direction, roots, edges, depth).nodes \subseteq nodes
         /\ Reached(direction, roots, edges, depth).edges \subseteq {e.id : e \in edges}
<1>1. depth + 1 \in Nat /\ 0..depth \subseteq 0..(depth + 1)
  OBVIOUS
<1>2. \A d \in 0..depth : \A w \in Walk(direction, roots, edges, depth + 1)[d] :
        w.node \in nodes /\ w.edge \in {0} \cup {e.id : e \in edges}
  BY <1>1, WalkStays
<1> QED BY <1>2 DEF Reached

(* An identity's place among those of a set. *)
Place(ids, x) == Cardinality(Before(ids, x))

LEMMA PlaceFacts ==
  ASSUME NEW ids \in SUBSET Nat, IsFiniteSet(ids), NEW x \in ids
  PROVE  /\ Place(ids, x) \in Nat /\ Cardinality(ids) \in Nat /\ Place(ids, x) + 1 \in 1..Cardinality(ids)
         /\ InOrder(ids)[Place(ids, x) + 1] = x
<1>1. ASSUME NEW y \in ids PROVE IsFiniteSet(Before(ids, y)) /\ Place(ids, y) \in Nat
  <2>1. Before(ids, y) \in SUBSET ids BY DEF Before
  <2> QED BY <2>1, FS_Subset, FS_CardinalityType DEF Place
<1>2. Cardinality(ids) \in Nat
  BY FS_CardinalityType
<1>3. Place(ids, x) < Cardinality(ids)
  <2>1. Before(ids, x) \in SUBSET ids /\ x \notin Before(ids, x) BY DEF Before
  <2>2. Cardinality(Before(ids, x)) <= Cardinality(ids) /\ Cardinality(ids) # Cardinality(Before(ids, x))
    BY <2>1, FS_Subset
  <2> QED BY <1>1, <1>2, <2>2 DEF Place
<1>4. ASSUME NEW y \in ids, NEW z \in ids, y < z PROVE Place(ids, y) # Place(ids, z)
  <2>0. y \in Nat /\ z \in Nat /\ \A w \in ids : w \in Nat
    OBVIOUS
  <2>1. \A w \in ids : w < y => w < z
    BY <1>4, <2>0
  <2>2. Before(ids, y) \in SUBSET Before(ids, z) /\ y \in Before(ids, z) /\ y \notin Before(ids, y)
    <3>1. ~(y < y) BY <2>0
    <3>2. Before(ids, y) \subseteq Before(ids, z) BY <2>1 DEF Before
    <3>3. y \in Before(ids, z) BY <1>4 DEF Before
    <3>4. y \notin Before(ids, y) BY <3>1 DEF Before
    <3> QED BY <3>2, <3>3, <3>4
  <2> QED BY <1>1, <2>2, FS_Subset DEF Place
<1>5. \A y \in ids : Place(ids, y) = Place(ids, x) => y = x
  <2> SUFFICES ASSUME NEW y \in ids, Place(ids, y) = Place(ids, x) PROVE y = x OBVIOUS
  <2>1. y \in Nat /\ x \in Nat OBVIOUS
  <2>2. y < x \/ x < y \/ y = x BY <2>1
  <2> QED BY <1>4, <2>2
<1>6. Place(ids, x) + 1 \in 1..Cardinality(ids)
  BY <1>1, <1>2, <1>3
<1>7. InOrder(ids)[Place(ids, x) + 1] = CHOOSE y \in ids : Place(ids, y) = Place(ids, x)
  <2>1. (Place(ids, x) + 1) - 1 = Place(ids, x) BY <1>1
  <2>2. InOrder(ids)[Place(ids, x) + 1] = CHOOSE y \in ids : Place(ids, y) = (Place(ids, x) + 1) - 1
    BY <1>6 DEF InOrder, Place
  <2> QED BY <2>1, <2>2
<1> QED BY <1>1, <1>2, <1>5, <1>6, <1>7

(* Places only move up when the set grows. *)
LEMMA PlaceGrows ==
  ASSUME NEW ids, NEW more \in SUBSET Nat, IsFiniteSet(more), ids \subseteq more, NEW x \in ids
  PROVE  Place(ids, x) <= Place(more, x) /\ Cardinality(ids) <= Cardinality(more)
<1>1. Before(more, x) \in SUBSET more /\ Before(ids, x) \in SUBSET Before(more, x)
  BY DEF Before
<1>2. IsFiniteSet(Before(more, x))
  BY <1>1, FS_Subset
<1> QED BY <1>1, <1>2, FS_Subset DEF Place

Listed(reached) ==
  /\ reached.nodes \in SUBSET Nat /\ IsFiniteSet(reached.nodes)
  /\ reached.edges \in SUBSET Nat /\ IsFiniteSet(reached.edges)

EdgePlace(reached, e) == Cardinality(reached.nodes) + Place(reached.edges, e)

LEMMA MemberFacts ==
  ASSUME NEW reached, Listed(reached)
  PROVE  /\ Len(Members(reached)) = Cardinality(reached.nodes) + Cardinality(reached.edges)
         /\ Len(Members(reached)) \in Nat
         /\ \A n \in reached.nodes : /\ Place(reached.nodes, n) \in Nat /\ Place(reached.nodes, n) < Len(Members(reached))
                                     /\ Members(reached)[Place(reached.nodes, n) + 1] = <<"node", n>>
         /\ \A e \in reached.edges : /\ EdgePlace(reached, e) \in Nat /\ EdgePlace(reached, e) < Len(Members(reached))
                                     /\ Members(reached)[EdgePlace(reached, e) + 1] = <<"edge", e>>
<1> DEFINE nodes == reached.nodes
           edges == reached.edges
           N == Cardinality(nodes)
           E == Cardinality(edges)
           first == [i \in 1..N |-> <<"node", InOrder(nodes)[i]>>]
           second == [i \in 1..E |-> <<"edge", InOrder(edges)[i]>>]
           all == {first[i] : i \in 1..N} \cup {second[i] : i \in 1..E}
<1>1. N \in Nat /\ E \in Nat
  BY FS_CardinalityType DEF Listed
<1>2. first \in Seq(all) /\ Len(first) = N /\ second \in Seq(all) /\ Len(second) = E
  <2> HIDE DEF N, E
  <2>1. first \in [1..N -> all] /\ second \in [1..E -> all]
    OBVIOUS
  <2> HIDE DEF first, second, all
  <2> QED BY <1>1, <2>1, LenProperties, IsASeq
<1>3. Members(reached) = first \o second
  BY DEF Members
<1>4. /\ Len(first \o second) = N + E
      /\ \A i \in 1..(N + E) : (first \o second)[i] = IF i <= N THEN first[i] ELSE second[i - N]
  <2> HIDE DEF first, second, all, N, E
  <2> QED BY <1>2, ConcatProperties
<1>5. ASSUME NEW n \in nodes
      PROVE  /\ Place(nodes, n) \in Nat /\ Place(nodes, n) < N + E
             /\ (first \o second)[Place(nodes, n) + 1] = <<"node", n>>
  <2>1. Place(nodes, n) \in Nat /\ Place(nodes, n) + 1 \in 1..N /\ InOrder(nodes)[Place(nodes, n) + 1] = n
    BY PlaceFacts DEF Listed
  <2>2. first[Place(nodes, n) + 1] = <<"node", n>>
    BY <2>1
  <2> HIDE DEF first, second, N, E, nodes
  <2>3. Place(nodes, n) + 1 \in 1..(N + E) /\ Place(nodes, n) + 1 <= N /\ Place(nodes, n) < N + E
    BY <1>1, <2>1
  <2> QED BY <1>4, <2>1, <2>2, <2>3
<1>6. ASSUME NEW e \in edges
      PROVE  /\ N + Place(edges, e) \in Nat /\ N + Place(edges, e) < N + E
             /\ (first \o second)[(N + Place(edges, e)) + 1] = <<"edge", e>>
  <2>1. Place(edges, e) \in Nat /\ Place(edges, e) + 1 \in 1..E /\ InOrder(edges)[Place(edges, e) + 1] = e
    BY PlaceFacts DEF Listed
  <2>2. second[Place(edges, e) + 1] = <<"edge", e>>
    BY <2>1
  <2> HIDE DEF first, second, N, E, edges
  <2>3. /\ (N + Place(edges, e)) + 1 \in 1..(N + E) /\ ~((N + Place(edges, e)) + 1 <= N)
        /\ N + Place(edges, e) < N + E /\ N + Place(edges, e) \in Nat
        /\ ((N + Place(edges, e)) + 1) - N = Place(edges, e) + 1
    BY <1>1, <2>1
  <2> QED BY <1>4, <2>2, <2>3
<1>7. Len(first \o second) \in Nat
  <2> HIDE DEF first, second, N, E
  <2> QED BY <1>1, <1>4
<1> HIDE DEF first, second
<1> QED BY <1>3, <1>4, <1>5, <1>6, <1>7 DEF EdgePlace

(* A page brings every member at its offset or later, or leaves it for the   *)
(* next cursor.                                                              *)
LEMMA PageAdvances ==
  ASSUME NEW reached, Listed(reached), NEW offset \in Nat
  PROVE  LET page == Page(reached, offset)
         IN /\ page.next = -1 \/ page.next \in Nat
            /\ \A n \in reached.nodes : offset <= Place(reached.nodes, n) =>
                 n \in page.nodes \/ (page.next # -1 /\ page.next <= Place(reached.nodes, n))
            /\ \A e \in reached.edges : offset <= EdgePlace(reached, e) =>
                 e \in page.edges \/ (page.next # -1 /\ page.next <= EdgePlace(reached, e))
<1> DEFINE members == Members(reached)
           L == Len(members)
           last == IF offset + PageSize < L THEN offset + PageSize ELSE L
           shown == {members[i] : i \in (offset + 1)..last}
           page == Page(reached, offset)
<1>1. L \in Nat /\ PageSize \in Nat \ {0}
  BY MemberFacts, GraphBounds
<1>2. /\ page.nodes = {m[2] : m \in {m \in shown : m[1] = "node"}}
      /\ page.edges = {m[2] : m \in {m \in shown : m[1] = "edge"}}
      /\ page.next = IF last < L THEN last ELSE -1
  BY DEF Page, PageEnd
<1> HIDE DEF page
<1>3. last \in Nat /\ (page.next = -1 \/ page.next \in Nat) /\ (page.next = -1 => last >= L) /\ (page.next # -1 => page.next = last)
  <2> HIDE DEF L
  <2> QED BY <1>1, <1>2
<1>4. ASSUME NEW place \in Nat, place < L, offset <= place
      PROVE  members[place + 1] \in shown \/ (page.next # -1 /\ page.next <= place)
  <2>1. CASE place < last
    <3>1. place + 1 \in (offset + 1)..last
      <4> HIDE DEF last, L
      <4> QED BY <1>3, <1>4, <2>1
    <3> QED BY <3>1
  <2>2. CASE ~(place < last)
    <3> HIDE DEF last, L
    <3> QED BY <1>1, <1>3, <1>4, <2>2
  <2> QED BY <2>1, <2>2
<1>5. ASSUME NEW n \in reached.nodes, offset <= Place(reached.nodes, n)
      PROVE  n \in page.nodes \/ (page.next # -1 /\ page.next <= Place(reached.nodes, n))
  <2>1. /\ Place(reached.nodes, n) \in Nat /\ Place(reached.nodes, n) < L
        /\ members[Place(reached.nodes, n) + 1] = <<"node", n>>
    BY MemberFacts
  <2>2. <<"node", n>> \in shown => n \in page.nodes
    <3> HIDE DEF shown
    <3> QED BY <1>2
  <2> HIDE DEF shown, L, members
  <2> QED BY <1>4, <1>5, <2>1, <2>2
<1>6. ASSUME NEW e \in reached.edges, offset <= EdgePlace(reached, e)
      PROVE  e \in page.edges \/ (page.next # -1 /\ page.next <= EdgePlace(reached, e))
  <2>1. /\ EdgePlace(reached, e) \in Nat /\ EdgePlace(reached, e) < L
        /\ members[EdgePlace(reached, e) + 1] = <<"edge", e>>
    BY MemberFacts
  <2>2. <<"edge", e>> \in shown => e \in page.edges
    <3> HIDE DEF shown
    <3> QED BY <1>2
  <2> HIDE DEF shown, L, members
  <2> QED BY <1>4, <1>6, <2>1, <2>2
<1> QED BY <1>3, <1>5, <1>6 DEF page

(* What a reader has still to see lies at its cursor or after it, in the     *)
(* result as it is now.                                                      *)
Ahead(now, offset) ==
  /\ \A n \in reader.due.nodes : n \in reader.nodes \/ offset <= Place(now.nodes, n)
  /\ \A e \in reader.due.edges : e \in reader.edges \/ offset <= EdgePlace(now, e)

ReaderInv ==
  /\ committed \subseteq Nodes
  /\ \/ reader = NoReader
     \/ /\ DOMAIN reader = {"phase", "query", "root", "offset", "snapshot", "due", "nodes", "edges"}
        /\ reader.phase \in {"reading", "done"} /\ reader.query \in ReaderQueries /\ reader.root \in committed
        /\ reader.due.nodes \subseteq ReadNow(reader.query, reader.root).nodes
        /\ reader.due.edges \subseteq ReadNow(reader.query, reader.root).edges
        /\ reader.phase = "reading" =>
             reader.offset \in Nat /\ Ahead(ReadNow(reader.query, reader.root), reader.offset)
        /\ reader.phase = "done" => /\ reader.due.nodes \subseteq reader.nodes
                                    /\ reader.due.edges \subseteq reader.edges

(* The edges of some of the nodes. *)
EdgesAmong(some) == UNION {EdgesOf(n) : n \in some}

LEMMA EdgeFacts ==
  ASSUME NEW some \in SUBSET Nodes
  PROVE  /\ \A e \in EdgesAmong(some) : e.from \in Nodes /\ e.to \in Nodes
         /\ {e.id : e \in EdgesAmong(some)} \in SUBSET Nat /\ IsFiniteSet({e.id : e \in EdgesAmong(some)})
<1> DEFINE ids == {e.id : e \in EdgesAmong(some)}
           Name == [pair \in Nodes \X Nodes |-> 100 * pair[1] + pair[2]]
           named == {Name[pair] : pair \in Nodes \X Nodes}
<1>1. \A e \in EdgesAmong(some) : \E n, m \in Nodes : e.from = n /\ e.to = m /\ e.id = 100 * n + m
  BY ParentsAreNodes DEF EdgesAmong, EdgesOf
<1>2. \A n, m \in Nodes : 100 * n + m \in Nat
  BY NodesAreNumbers
<1>3. ids \subseteq named
  <2>1. \A n, m \in Nodes : Name[<<n, m>>] = 100 * n + m /\ Name[<<n, m>>] \in named
    OBVIOUS
  <2> SUFFICES ASSUME NEW e \in EdgesAmong(some) PROVE e.id \in named
    OBVIOUS
  <2>2. PICK n, m \in Nodes : e.id = 100 * n + m
    BY <1>1
  <2> HIDE DEF Name, named
  <2> QED BY <2>1, <2>2
<1>4. IsFiniteSet(named)
  <2>1. IsFiniteSet(Nodes \X Nodes)
    BY NodesAreNumbers, FS_Product
  <2>2. Name \in [Nodes \X Nodes -> named] /\ \A t \in named : \E s \in Nodes \X Nodes : Name[s] = t
    OBVIOUS
  <2> HIDE DEF Name, named
  <2>3. Name \in Surjection(Nodes \X Nodes, named)
    BY <2>2 DEF Surjection
  <2> QED BY <2>1, <2>3, FS_Surjection
<1>5. IsFiniteSet(ids)
  <2> HIDE DEF ids, named
  <2> QED BY <1>3, <1>4, FS_Subset
<1> QED BY <1>1, <1>2, <1>5

LEMMA ReadsAreListed ==
  ASSUME NEW some \in SUBSET Nodes, NEW query \in ReaderQueries, NEW root \in Nodes
  PROVE  /\ query.depth \in Nat
         /\ Listed(Reached(query.direction, {root}, EdgesAmong(some), query.depth))
<1>1. query.depth \in Nat
  BY GraphBounds DEF ReaderQueries
<1> DEFINE now == Reached(query.direction, {root}, EdgesAmong(some), query.depth)
<1>2. now.nodes \subseteq Nodes /\ now.edges \subseteq {e.id : e \in EdgesAmong(some)}
  <2>1. {root} \in SUBSET Nodes /\ \A e \in EdgesAmong(some) : e.from \in Nodes /\ e.to \in Nodes
    BY EdgeFacts
  <2> QED BY <1>1, <2>1, ReachedStays
<1>3. now.nodes \in SUBSET Nat /\ IsFiniteSet(now.nodes)
  <2> HIDE DEF now
  <2> QED BY <1>2, NodesAreNumbers, FS_Subset
<1>4. now.edges \in SUBSET Nat /\ IsFiniteSet(now.edges)
  <2> HIDE DEF now
  <2> QED BY <1>2, EdgeFacts, FS_Subset
<1> QED BY <1>1, <1>3, <1>4 DEF Listed

(* A commit inserts members before or after the cursor, and takes none away. *)
LEMMA CommitKeepsReader == ASSUME ReaderInv, NEW n \in Nodes, CommitArtifact(n) PROVE ReaderInv'
<1>1. committed' = committed \cup {n} /\ reader' = reader
  BY DEF CommitArtifact
<1>2. committed' \subseteq Nodes /\ committed \subseteq Nodes
  BY <1>1 DEF ReaderInv
<1>3. CASE reader = NoReader
  BY <1>1, <1>2, <1>3 DEF ReaderInv
<1>4. CASE reader # NoReader
  <2> DEFINE query == reader.query
             root == reader.root
             old == Reached(query.direction, {root}, EdgesAmong(committed), query.depth)
             new == Reached(query.direction, {root}, EdgesAmong(committed'), query.depth)
  <2>1. query \in ReaderQueries /\ root \in Nodes
    BY <1>4 DEF ReaderInv
  <2>2. query.depth \in Nat /\ Listed(old) /\ Listed(new)
    BY <1>2, <2>1, ReadsAreListed
  <2>3. EdgesAmong(committed) \subseteq EdgesAmong(committed')
    BY <1>1 DEF EdgesAmong
  <2>4. old.nodes \subseteq new.nodes /\ old.edges \subseteq new.edges
    BY <2>2, <2>3, ReachedGrows
  <2>5. ReadNow(query, root) = old /\ ReadNow(query, root)' = new
    BY <1>1 DEF ReadNow, Edges, EdgesAmong
  <2> HIDE DEF old, new
  <2>6. /\ reader.due.nodes \subseteq old.nodes /\ reader.due.edges \subseteq old.edges
        /\ reader.phase = "reading" => reader.offset \in Nat /\ Ahead(old, reader.offset)
    BY <1>4, <2>5 DEF ReaderInv
  <2>7. \A x \in old.nodes : Place(old.nodes, x) <= Place(new.nodes, x) /\ Place(old.nodes, x) \in Nat /\ Place(new.nodes, x) \in Nat
    BY <2>2, <2>4, PlaceGrows, PlaceFacts DEF Listed
  <2>8. \A x \in old.edges : Place(old.edges, x) <= Place(new.edges, x) /\ Place(old.edges, x) \in Nat /\ Place(new.edges, x) \in Nat
    BY <2>2, <2>4, PlaceGrows, PlaceFacts DEF Listed
  <2>9. /\ Cardinality(old.nodes) <= Cardinality(new.nodes)
        /\ Cardinality(old.nodes) \in Nat /\ Cardinality(new.nodes) \in Nat
    BY <2>2, <2>4, FS_Subset, FS_CardinalityType DEF Listed
  <2>10. \A x \in old.edges : /\ EdgePlace(old, x) <= EdgePlace(new, x)
                              /\ EdgePlace(old, x) \in Nat /\ EdgePlace(new, x) \in Nat
    BY <2>8, <2>9 DEF EdgePlace
  <2>11. reader.phase = "reading" => reader.offset \in Nat /\ Ahead(new, reader.offset)
    BY <2>6, <2>7, <2>10 DEF Ahead
  <2>12. ReaderInv'
    BY <1>1, <1>2, <1>4, <2>4, <2>5, <2>6, <2>11 DEF ReaderInv, Ahead
  <2> QED BY <2>12
<1> QED BY <1>3, <1>4

(* The first page. *)
LEMMA OpenReaderStep ==
  ASSUME ReaderInv, NEW query \in ReaderQueries, NEW root \in Nodes, OpenReader(query, root)
  PROVE  ReaderInv'
<1> DEFINE now == ReadNow(query, root)
           page == Page(now, 0)
<1>1. /\ reader' = [phase |-> IF page.next = -1 THEN "done" ELSE "reading",
                    query |-> query, root |-> root, offset |-> page.next, snapshot |-> committed,
                    due |-> [nodes |-> now.nodes, edges |-> now.edges],
                    nodes |-> page.nodes, edges |-> page.edges]
      /\ committed' = committed /\ root \in committed
  BY DEF OpenReader
<1>2. committed \subseteq Nodes /\ now = Reached(query.direction, {root}, EdgesAmong(committed), query.depth)
  BY DEF ReaderInv, ReadNow, Edges, EdgesAmong
<1>3. Listed(now)
  BY <1>2, ReadsAreListed
<1>4. /\ page.next = -1 \/ page.next \in Nat
      /\ \A n \in now.nodes : 0 <= Place(now.nodes, n) =>
           n \in page.nodes \/ (page.next # -1 /\ page.next <= Place(now.nodes, n))
      /\ \A e \in now.edges : 0 <= EdgePlace(now, e) =>
           e \in page.edges \/ (page.next # -1 /\ page.next <= EdgePlace(now, e))
  BY <1>3, PageAdvances
<1>5. (\A n \in now.nodes : 0 <= Place(now.nodes, n)) /\ (\A e \in now.edges : 0 <= EdgePlace(now, e))
  BY <1>3, MemberFacts
<1>6. ReadNow(query, root)' = now
  BY <1>1 DEF ReadNow, Edges
<1> HIDE DEF now, page
<1>7. /\ DOMAIN reader' = {"phase", "query", "root", "offset", "snapshot", "due", "nodes", "edges"}
      /\ reader'.phase \in {"reading", "done"} /\ reader'.query = query /\ reader'.root = root
      /\ reader'.due.nodes = now.nodes /\ reader'.due.edges = now.edges
      /\ reader'.nodes = page.nodes /\ reader'.edges = page.edges /\ reader'.offset = page.next
      /\ reader'.phase = "done" => page.next = -1
      /\ reader'.phase = "reading" => page.next # -1
  BY <1>1
<1>8. reader'.phase = "reading" => /\ reader'.offset \in Nat
                                   /\ \A n \in now.nodes : n \in page.nodes \/ page.next <= Place(now.nodes, n)
                                   /\ \A e \in now.edges : e \in page.edges \/ page.next <= EdgePlace(now, e)
  BY <1>4, <1>5, <1>7
<1>9. reader'.phase = "done" => now.nodes \subseteq page.nodes /\ now.edges \subseteq page.edges
  BY <1>4, <1>5, <1>7
<1>10. ReadNow(reader.query, reader.root)' = now
  BY <1>6, <1>7 DEF ReadNow
<1> QED BY <1>1, <1>2, <1>7, <1>8, <1>9, <1>10 DEF ReaderInv, Ahead

(* A further page. *)
LEMMA NextPageStep == ASSUME ReaderInv, NextPage PROVE ReaderInv'
<1> DEFINE now == ReadNow(reader.query, reader.root)
           page == Page(now, reader.offset)
<1>1. /\ reader' = [reader EXCEPT !.phase = IF page.next = -1 THEN "done" ELSE "reading",
                                 !.offset = page.next, !.nodes = @ \cup page.nodes,
                                 !.edges = @ \cup page.edges]
      /\ committed' = committed /\ reader.phase = "reading"
  BY DEF NextPage
<1>2. reader # NoReader
  BY <1>1 DEF NoReader
<1>3. /\ DOMAIN reader = {"phase", "query", "root", "offset", "snapshot", "due", "nodes", "edges"}
      /\ reader.query \in ReaderQueries /\ reader.root \in committed /\ committed \subseteq Nodes
      /\ reader.due.nodes \subseteq now.nodes /\ reader.due.edges \subseteq now.edges
      /\ reader.offset \in Nat /\ Ahead(now, reader.offset)
  BY <1>1, <1>2 DEF ReaderInv
<1>4. Listed(now)
  <2>1. now = Reached(reader.query.direction, {reader.root}, EdgesAmong(committed), reader.query.depth)
    BY DEF ReadNow, Edges, EdgesAmong
  <2> QED BY <1>3, <2>1, ReadsAreListed
<1>5. /\ page.next = -1 \/ page.next \in Nat
      /\ \A n \in now.nodes : reader.offset <= Place(now.nodes, n) =>
           n \in page.nodes \/ (page.next # -1 /\ page.next <= Place(now.nodes, n))
      /\ \A e \in now.edges : reader.offset <= EdgePlace(now, e) =>
           e \in page.edges \/ (page.next # -1 /\ page.next <= EdgePlace(now, e))
  BY <1>3, <1>4, PageAdvances
<1>6. now' = now
  BY <1>1, <1>3 DEF ReadNow, Edges
<1> HIDE DEF now, page
<1>7. /\ DOMAIN reader' = DOMAIN reader
      /\ reader'.phase \in {"reading", "done"} /\ reader'.query = reader.query /\ reader'.root = reader.root
      /\ reader'.due = reader.due
      /\ reader'.nodes = reader.nodes \cup page.nodes /\ reader'.edges = reader.edges \cup page.edges
      /\ reader'.offset = page.next
      /\ reader'.phase = "done" => page.next = -1
      /\ reader'.phase = "reading" => page.next # -1
  BY <1>1, <1>3
<1>8. reader'.phase = "reading" =>
        /\ reader'.offset \in Nat
        /\ \A n \in reader.due.nodes : n \in reader'.nodes \/ reader'.offset <= Place(now.nodes, n)
        /\ \A e \in reader.due.edges : e \in reader'.edges \/ reader'.offset <= EdgePlace(now, e)
  BY <1>3, <1>5, <1>7 DEF Ahead
<1>9. reader'.phase = "done" => reader'.due.nodes \subseteq reader'.nodes /\ reader'.due.edges \subseteq reader'.edges
  BY <1>3, <1>5, <1>7 DEF Ahead
<1>10. ReadNow(reader.query, reader.root)' = now
  BY <1>6 DEF now
<1>11. /\ reader'.due.nodes \subseteq now.nodes /\ reader'.due.edges \subseteq now.edges
  BY <1>3, <1>7
<1> QED BY <1>1, <1>3, <1>7, <1>8, <1>9, <1>10, <1>11 DEF ReaderInv, Ahead

LEMMA ReaderStep == ASSUME ReaderInv, [ImpactNext]_impactVars PROVE ReaderInv'
<1>1. ASSUME NEW n \in Nodes, CommitArtifact(n) PROVE ReaderInv'
  BY <1>1, CommitKeepsReader
<1>2. ASSUME NEW query \in ReaderQueries, NEW root \in Nodes, OpenReader(query, root) PROVE ReaderInv'
  BY <1>2, OpenReaderStep
<1>3. CASE NextPage
  BY <1>3, NextPageStep
<1>4. ASSUME UNCHANGED <<committed, reader>> PROVE ReaderInv'
  BY <1>4 DEF ReaderInv, Ahead, ReadNow, Edges
<1>5. CASE \E c \in Results : CommitResult(c)
  BY <1>4, <1>5 DEF CommitResult
<1>6. CASE \E e \in EvidenceNodes : AttachCheck(e) \/ AttachInsert(e)
  BY <1>4, <1>6 DEF AttachCheck, AttachInsert
<1>7. CASE \E r \in Requests : \/ OpenRequest(r) \/ LockSource(r) \/ Trace(r) \/ TraceFails(r)
                               \/ ReadDownstream(r) \/ Retract(r) \/ AbortRetraction(r)
  BY <1>4, <1>7 DEF OpenRequest, LockSource, Trace, TraceFails, ReadDownstream, Retract, AbortRetraction
<1>8. CASE UNCHANGED impactVars
  BY <1>4, <1>8 DEF impactVars
<1> QED BY <1>1, <1>2, <1>3, <1>5, <1>6, <1>7, <1>8 DEF ImpactNext

(* Reading page by page while artifacts are committed skips nothing: for     *)
(* every graph, depth and page size, a finished reader has every node and    *)
(* edge of its first page's result, and the assumption register every        *)
(* dependent (db/reasoning_graph.py, application/assumption_register.py).    *)
THEOREM PagesSkipNothing == ImpactSpec => []NothingSkipped
<1>1. ImpactInit => ReaderInv
  BY DEF ImpactInit, ReaderInv
<1>2. ASSUME ReaderInv PROVE NothingSkipped
  <2>1. SUFFICES ASSUME reader.phase = "done"
                 PROVE  /\ reader.due.nodes \subseteq reader.nodes /\ reader.due.edges \subseteq reader.edges
                        /\ RegisterDependents(reader.root, {e \in Edges : e.id \in reader.due.edges}, reader.snapshot)
                             \subseteq RegisterDependents(reader.root, {e \in Edges : e.id \in reader.edges},
                                                          reader.snapshot)
    BY DEF NothingSkipped
  <2>2. reader # NoReader
    BY <2>1 DEF NoReader
  <2>3. reader.due.nodes \subseteq reader.nodes /\ reader.due.edges \subseteq reader.edges
    BY <1>2, <2>1, <2>2 DEF ReaderInv
  <2>4. {e \in Edges : e.id \in reader.due.edges} \subseteq {e \in Edges : e.id \in reader.edges}
    BY <2>3
  <2>5. ASSUME NEW some, NEW more, some \subseteq more
        PROVE  RegisterDependents(reader.root, some, reader.snapshot)
                 \subseteq RegisterDependents(reader.root, more, reader.snapshot)
    BY <2>5 DEF RegisterDependents
  <2> QED BY <2>3, <2>4, <2>5
<1> QED BY <1>1, <1>2, ReaderStep, PTL DEF ImpactSpec
-----------------------------------------------------------------------------
(* Deliberation. *)

StateFields == {"art", "edges", "events", "requests", "results", "tx"}
RowFields ==
  {"kind", "logical", "version", "status", "supersedes", "owner", "round", "refs", "resolution", "parents"}
Statuses == {"ACTIVE", "SUPERSEDED", "WITHDRAWN"}

IsLog(log) == \E S : log \in Seq(S)

RowShape(row) == DOMAIN row = RowFields /\ row.version \in Nat \ {0} /\ row.status \in Statuses

StateShape(s) ==
  /\ DOMAIN s = StateFields /\ IsFiniteSet(DOMAIN s.art) /\ IsLog(s.events) /\ s.tx \in Nat
  /\ \A x \in DOMAIN s.art : RowShape(s.art[x])

LEMMA LogAppends ==
  ASSUME NEW log, IsLog(log), NEW e
  PROVE  /\ IsLog(Append(log, e)) /\ Len(log) \in Nat /\ Len(Append(log, e)) = Len(log) + 1
         /\ Append(log, e)[Len(log) + 1] = e /\ \A i \in 1..Len(log) : Append(log, e)[i] = log[i]
<1>1. PICK S : log \in Seq(S)
  BY DEF IsLog
<1> DEFINE T == S \cup {e}
<1>2. log \in Seq(T)
  <2>1. Len(log) \in Nat /\ log \in [1..Len(log) -> S]
    BY <1>1, LenProperties
  <2>2. log \in [1..Len(log) -> T]
    BY <2>1
  <2> QED BY <2>1, <2>2
<1>3. e \in T
  OBVIOUS
<1> HIDE DEF T
<1>4. /\ Append(log, e) \in Seq(T) /\ Len(Append(log, e)) = Len(log) + 1 /\ Len(log) \in Nat
      /\ \A i \in 1..Len(log) : Append(log, e)[i] = log[i]
      /\ Append(log, e)[Len(log) + 1] = e
  BY <1>2, <1>3, AppendProperties, LenProperties
<1> QED BY <1>4 DEF IsLog

(* What recording an event leaves. *)
LogAfter(s, type, about) ==
  IF HasEvent(s, type, about) THEN s.events ELSE Append(s.events, Event(type, about, s))

LEMMA RecordedEffect ==
  ASSUME NEW s, DOMAIN s = StateFields, NEW type, NEW about
  PROVE  LET t == Recorded(s, type, about)
         IN /\ DOMAIN t = StateFields /\ t.art = s.art /\ t.edges = s.edges /\ t.requests = s.requests
            /\ t.results = s.results /\ t.tx = s.tx /\ t.events = LogAfter(s, type, about)
BY DEF Recorded, LogAfter, StateFields

(* What the log after a recorded event holds. *)
LogGrew(s, t, type, about) ==
  /\ IsLog(t.events) /\ Len(s.events) \in Nat /\ Len(t.events) \in Nat /\ Len(s.events) <= Len(t.events)
  /\ \A i \in 1..Len(s.events) : t.events[i] = s.events[i]
  /\ \A i \in 1..Len(t.events) : i \notin 1..Len(s.events) => t.events[i] = Event(type, about, s)
  /\ HasEvent(t, type, about)

LEMMA LogFacts ==
  ASSUME NEW s, IsLog(s.events), NEW type, NEW about, NEW t, t.events = LogAfter(s, type, about)
  PROVE  LogGrew(s, t, type, about)
<1> DEFINE e == Event(type, about, s)
<1>1. e.type = type /\ e.about = about
  BY DEF Event
<1>2. CASE HasEvent(s, type, about)
  <2>1. t.events = s.events BY <1>2 DEF LogAfter
  <2>2. Len(s.events) \in Nat BY LogAppends
  <2> QED BY <1>2, <2>1, <2>2 DEF HasEvent, LogGrew
<1>3. CASE ~HasEvent(s, type, about)
  <2>1. t.events = Append(s.events, e) BY <1>3 DEF LogAfter
  <2> HIDE DEF e
  <2>2. /\ IsLog(t.events) /\ Len(s.events) \in Nat /\ Len(t.events) = Len(s.events) + 1
        /\ t.events[Len(s.events) + 1] = e /\ \A i \in 1..Len(s.events) : t.events[i] = s.events[i]
    BY <2>1, LogAppends
  <2>3. \A i \in 1..Len(t.events) : i \notin 1..Len(s.events) => i = Len(s.events) + 1
    BY <2>2
  <2>4. Len(s.events) + 1 \in 1..Len(t.events)
    BY <2>2
  <2>5. HasEvent(t, type, about)
    BY <1>1, <2>2, <2>4 DEF HasEvent
  <2> QED BY <2>2, <2>3, <2>5 DEF e, LogGrew
<1> QED BY <1>2, <1>3

Added(art, id, row) == [x \in DOMAIN art \cup {id} |-> IF x = id THEN row ELSE art[x]]

LEMMA CommitEffect ==
  ASSUME NEW s, StateShape(s), NEW id, NEW row, CommitArtifactRow(s, id, row).ok
  PROVE  LET t == CommitArtifactRow(s, id, row).db
         IN /\ DOMAIN t = StateFields /\ t.art = Added(s.art, id, row) /\ s.edges \subseteq t.edges
            /\ t.requests = s.requests /\ t.results = s.results /\ t.tx = s.tx
            /\ t.events = LogAfter(s, "ARTIFACT_COMMITTED", id)
            /\ row.version = 1 /\ row.status = "ACTIVE" /\ RowInsertable(s, id, row)
<1> DEFINE a == AddArtifact(s, id, row)
           t == CommitArtifactRow(s, id, row).db
<1>1. /\ row.version = 1 /\ row.status = "ACTIVE" /\ RowInsertable(s, id, row)
      /\ t = Recorded(a, "ARTIFACT_COMMITTED", id)
  BY DEF CommitArtifactRow, Done, Refused
<1>2. /\ DOMAIN a = StateFields /\ a.art = Added(s.art, id, row) /\ s.edges \subseteq a.edges /\ a.events = s.events
      /\ a.requests = s.requests /\ a.results = s.results /\ a.tx = s.tx
  BY DEF AddArtifact, Added, StateShape, StateFields
<1> HIDE DEF a, t
<1>3. LogAfter(a, "ARTIFACT_COMMITTED", id) = LogAfter(s, "ARTIFACT_COMMITTED", id)
  BY <1>2 DEF LogAfter, HasEvent, Event
<1> QED BY <1>1, <1>2, <1>3, RecordedEffect DEF t

LEMMA ReviseEffect ==
  ASSUME NEW s, StateShape(s), NEW id, NEW row, ReviseArtifactRow(s, id, row).ok
  PROVE  LET t == ReviseArtifactRow(s, id, row).db
         IN /\ DOMAIN t = StateFields
            /\ t.art = [Added(s.art, id, row) EXCEPT ![row.supersedes].status = "SUPERSEDED"]
            /\ s.edges \subseteq t.edges
            /\ [from |-> id, to |-> row.supersedes, type |-> "SUPERSEDES"] \in t.edges
            /\ t.requests = s.requests /\ t.results = s.results /\ t.tx = s.tx
            /\ t.events = LogAfter(s, "ARTIFACT_REVISED", id)
            /\ row.version > 1 /\ row.status = "ACTIVE" /\ RowInsertable(s, id, row)
            /\ Active(s, row.supersedes) /\ s.art[row.supersedes].logical = row.logical
<1> DEFINE a == AddArtifact(s, id, row)
           b == SetLifecycle(a, row.supersedes, "SUPERSEDED")
           c == [b EXCEPT !.edges = @ \cup {[from |-> id, to |-> row.supersedes, type |-> "SUPERSEDES"]}]
           t == ReviseArtifactRow(s, id, row).db
<1>1. /\ row.version > 1 /\ row.status = "ACTIVE" /\ RowInsertable(s, id, row)
      /\ Active(s, row.supersedes) /\ s.art[row.supersedes].logical = row.logical
      /\ t = Recorded(c, "ARTIFACT_REVISED", id)
  BY DEF ReviseArtifactRow, Done, Refused
<1>2. /\ DOMAIN a = StateFields /\ a.art = Added(s.art, id, row) /\ s.edges \subseteq a.edges /\ a.events = s.events
      /\ a.requests = s.requests /\ a.results = s.results /\ a.tx = s.tx
  BY DEF AddArtifact, Added, StateShape, StateFields
<1> HIDE DEF a, t
<1>3. /\ DOMAIN b = StateFields /\ b.art = [a.art EXCEPT ![row.supersedes].status = "SUPERSEDED"]
      /\ b.edges = a.edges /\ b.events = a.events
      /\ b.requests = a.requests /\ b.results = a.results /\ b.tx = a.tx
  BY <1>2 DEF SetLifecycle, StateFields
<1> HIDE DEF b
<1>4. /\ DOMAIN c = StateFields /\ c.art = b.art /\ b.edges \subseteq c.edges /\ c.events = b.events
      /\ [from |-> id, to |-> row.supersedes, type |-> "SUPERSEDES"] \in c.edges
      /\ c.requests = b.requests /\ c.results = b.results /\ c.tx = b.tx
  BY <1>3 DEF StateFields
<1> HIDE DEF c
<1>5. LogAfter(c, "ARTIFACT_REVISED", id) = LogAfter(s, "ARTIFACT_REVISED", id)
  BY <1>2, <1>3, <1>4 DEF LogAfter, HasEvent, Event
<1> QED BY <1>1, <1>2, <1>3, <1>4, <1>5, RecordedEffect DEF t

LEMMA WithdrawEffect ==
  ASSUME NEW s, StateShape(s), NEW id, NEW warrants, WithdrawArtifactRow(s, id, warrants).ok
  PROVE  LET t == WithdrawArtifactRow(s, id, warrants).db
         IN /\ DOMAIN t = StateFields /\ t.art = [s.art EXCEPT ![id].status = "WITHDRAWN"]
            /\ t.edges = s.edges /\ t.requests = s.requests /\ t.results = s.results /\ t.tx = s.tx
            /\ t.events = LogAfter(s, "ARTIFACT_WITHDRAWN", id) /\ Active(s, id)
<1> DEFINE a == SetLifecycle(s, id, "WITHDRAWN")
           t == WithdrawArtifactRow(s, id, warrants).db
<1>1. Active(s, id) /\ t = Recorded(a, "ARTIFACT_WITHDRAWN", id)
  BY DEF WithdrawArtifactRow, Done, Refused
<1>2. /\ DOMAIN a = StateFields /\ a.art = [s.art EXCEPT ![id].status = "WITHDRAWN"]
      /\ a.edges = s.edges /\ a.events = s.events
      /\ a.requests = s.requests /\ a.results = s.results /\ a.tx = s.tx
  BY DEF SetLifecycle, StateShape, StateFields
<1> HIDE DEF a, t
<1>3. LogAfter(a, "ARTIFACT_WITHDRAWN", id) = LogAfter(s, "ARTIFACT_WITHDRAWN", id)
  BY <1>2 DEF LogAfter, HasEvent, Event
<1> QED BY <1>1, <1>2, <1>3, RecordedEffect DEF t

Succeeds(s, y, x) == s.art[y].logical = s.art[x].logical /\ s.art[y].version = s.art[x].version + 1

(* A chain has each version once, each version after the first has its       *)
(* predecessor, its event and its edge, and the superseded versions are      *)
(* those with a successor.                                                   *)
Chains(s) ==
  /\ \A x, y \in DOMAIN s.art :
       (s.art[x].logical = s.art[y].logical /\ s.art[x].version = s.art[y].version) => x = y
  /\ \A x \in DOMAIN s.art : s.art[x].version > 1 =>
       /\ s.art[x].supersedes \in DOMAIN s.art /\ Succeeds(s, x, s.art[x].supersedes)
       /\ HasEvent(s, "ARTIFACT_REVISED", x)
       /\ \E e \in s.edges : e.from = x /\ e.type = "SUPERSEDES" /\ e.to = s.art[x].supersedes
  /\ \A x \in DOMAIN s.art : (s.art[x].status = "SUPERSEDED") <=> (\E y \in DOMAIN s.art : Succeeds(s, y, x))

Ends(s, i, ref) ==
  \/ s.events[i].type = "ARTIFACT_WITHDRAWN" /\ s.events[i].about = ref
  \/ s.events[i].type = "ARTIFACT_REVISED" /\ s.art[s.events[i].about].supersedes = ref
Writes(s, i, x) == s.events[i].type \in {"ARTIFACT_COMMITTED", "ARTIFACT_REVISED"} /\ s.events[i].about = x

(* The events of artifacts are about rows that exist, and what an event has  *)
(* ended is not ACTIVE.                                                      *)
LogSound(s) ==
  /\ \A i \in 1..Len(s.events) : s.events[i].tx \in Nat /\ s.events[i].tx <= s.tx
  /\ \A i \in 1..Len(s.events) :
       s.events[i].type \in {"ARTIFACT_COMMITTED", "ARTIFACT_REVISED", "ARTIFACT_WITHDRAWN"} =>
         s.events[i].about \in DOMAIN s.art
  /\ \A i \in 1..Len(s.events) : s.events[i].type = "ARTIFACT_REVISED" => s.art[s.events[i].about].version > 1
  /\ \A i \in 1..Len(s.events) : \A ref \in DOMAIN s.art : Ends(s, i, ref) => s.art[ref].status # "ACTIVE"

(* No earlier transaction has ended it. *)
FreshRef(s, ref) == \A i \in 1..Len(s.events) : Ends(s, i, ref) => s.tx <= s.events[i].tx

FreshRows(s) ==
  \A x \in DOMAIN s.art : s.art[x].owner # "human" =>
    \A ref \in s.art[x].refs : \A i, j \in 1..Len(s.events) :
      (Writes(s, i, x) /\ Ends(s, j, ref)) => s.events[i].tx <= s.events[j].tx

(* Only kinds whose references the preflight reads have any. *)
Refers(kind) == \E shape \in Shapes : KindOf(shape) = kind /\ ProposalFields(shape) # {}
RowsRefer(s) == \A x \in DOMAIN s.art : s.art[x].refs # {} => Refers(s.art[x].kind)

Sound(s) == StateShape(s) /\ Chains(s) /\ LogSound(s) /\ FreshRows(s) /\ RowsRefer(s)

SameRow(old, new) == DOMAIN new = DOMAIN old /\ \A f \in DOMAIN old \ {"status"} : new[f] = old[f]

(* What is recorded stays recorded: later operations add rows and events and *)
(* change nothing but lifecycles.                                            *)
Kept(s, t) ==
  /\ DOMAIN s.art \subseteq DOMAIN t.art /\ \A x \in DOMAIN s.art : SameRow(s.art[x], t.art[x])
  /\ Len(s.events) <= Len(t.events) /\ \A i \in 1..Len(s.events) : t.events[i] = s.events[i]
  /\ DOMAIN s.requests \subseteq DOMAIN t.requests /\ \A u \in DOMAIN s.requests : t.requests[u] = s.requests[u]
  /\ DOMAIN s.results \subseteq DOMAIN t.results /\ \A u \in DOMAIN s.results : t.results[u] = s.results[u]

(* The same within one transaction. *)
Extends(s, t) ==
  /\ Kept(s, t) /\ t.tx = s.tx
  /\ \A i \in 1..Len(t.events) : i \notin 1..Len(s.events) => t.events[i].tx = s.tx

(* What one event comes with. *)
EventWith(s, t, type, about) ==
  /\ t.events = LogAfter(s, type, about)
  /\ t.tx = s.tx
  /\ DOMAIN s.art \subseteq DOMAIN t.art
  /\ \A x \in DOMAIN s.art : SameRow(s.art[x], t.art[x])
  /\ \A x \in DOMAIN s.art : t.art[x].status = "ACTIVE" => s.art[x].status = "ACTIVE"
  /\ type \in {"ARTIFACT_COMMITTED", "ARTIFACT_REVISED"} => about \in DOMAIN t.art \ DOMAIN s.art
  /\ type = "ARTIFACT_WITHDRAWN" => about \in DOMAIN s.art /\ t.art[about].status # "ACTIVE"
  /\ type = "ARTIFACT_REVISED" =>
       /\ t.art[about].version > 1 /\ t.art[about].supersedes \in DOMAIN s.art
       /\ t.art[t.art[about].supersedes].status # "ACTIVE"
  /\ \A x \in DOMAIN t.art \ DOMAIN s.art :
       /\ x = about
       /\ t.art[x].owner # "human" => \A ref \in t.art[x].refs : FreshRef(s, ref)

(* How one event leaves the log and the references. *)
LEMMA LogStep ==
  ASSUME NEW s, NEW t, NEW type, NEW about, Sound(s), EventWith(s, t, type, about)
  PROVE  LogSound(t) /\ FreshRows(t)
<1> DEFINE new == Event(type, about, s)
<1> USE DEF EventWith
<1>1. /\ Len(s.events) \in Nat /\ Len(t.events) \in Nat /\ Len(s.events) <= Len(t.events)
      /\ \A i \in 1..Len(s.events) : t.events[i] = s.events[i]
      /\ \A i \in 1..Len(t.events) : i \notin 1..Len(s.events) => t.events[i] = new
  <2>1. IsLog(s.events) /\ t.events = LogAfter(s, type, about)
    BY DEF Sound, StateShape
  <2>2. LogGrew(s, t, type, about)
    BY ONLY <2>1, LogFacts
  <2> QED BY <2>2 DEF LogGrew
<1>2. new.type = type /\ new.about = about /\ new.tx = s.tx
  BY DEF Event
<1>3. \A x \in DOMAIN s.art : /\ t.art[x].supersedes = s.art[x].supersedes /\ t.art[x].version = s.art[x].version
                              /\ t.art[x].owner = s.art[x].owner /\ t.art[x].refs = s.art[x].refs
  BY DEF SameRow, Sound, StateShape, RowShape, RowFields
<1>4. s.tx \in Nat
  BY DEF Sound, StateShape
<1> HIDE DEF new
<1>5. \A i \in 1..Len(t.events) : t.events[i].tx \in Nat /\ t.events[i].tx <= t.tx
  BY <1>1, <1>2, <1>4 DEF Sound, LogSound
<1>6. \A i \in 1..Len(t.events) :
        t.events[i].type \in {"ARTIFACT_COMMITTED", "ARTIFACT_REVISED", "ARTIFACT_WITHDRAWN"} =>
          t.events[i].about \in DOMAIN t.art
  BY <1>1, <1>2 DEF Sound, LogSound
<1>7. \A i \in 1..Len(t.events) : t.events[i].type = "ARTIFACT_REVISED" => t.art[t.events[i].about].version > 1
  BY <1>1, <1>2, <1>3 DEF Sound, LogSound
<1>8. \A i \in 1..Len(s.events) : \A ref : Ends(t, i, ref) <=> Ends(s, i, ref)
  BY <1>1, <1>3 DEF Ends, Sound, LogSound
<1>9. \A i \in 1..Len(s.events) : \A ref : Ends(s, i, ref) => ref \in DOMAIN s.art
  BY DEF Ends, Sound, LogSound, Chains
<1>10. \A i \in 1..Len(t.events) : i \notin 1..Len(s.events) => \A ref : Ends(t, i, ref) =>
         ref \in DOMAIN s.art /\ t.art[ref].status # "ACTIVE"
  BY <1>1, <1>2 DEF Ends
<1>11. \A i \in 1..Len(t.events) : \A ref \in DOMAIN t.art : Ends(t, i, ref) => t.art[ref].status # "ACTIVE"
  BY <1>8, <1>9, <1>10 DEF Sound, LogSound
<1>12. FreshRows(t)
  <2> SUFFICES ASSUME NEW x \in DOMAIN t.art, t.art[x].owner # "human", NEW ref \in t.art[x].refs,
                      NEW i \in 1..Len(t.events), NEW j \in 1..Len(t.events), Writes(t, i, x), Ends(t, j, ref)
               PROVE  t.events[i].tx <= t.events[j].tx
    BY DEF FreshRows
  <2>1. CASE j \notin 1..Len(s.events)
    <3>1. t.events[j].tx = t.tx BY <1>1, <1>2, <2>1
    <3> QED BY <1>5, <3>1
  <2>2. CASE j \in 1..Len(s.events) /\ x \in DOMAIN s.art
    <3>1. i \in 1..Len(s.events)
      BY <1>1, <1>2, <2>2 DEF Writes
    <3>2. Writes(s, i, x) /\ Ends(s, j, ref)
      BY <1>1, <1>8, <2>2, <3>1 DEF Writes
    <3> QED BY <1>1, <1>3, <2>2, <3>1, <3>2 DEF Sound, FreshRows
  <2>3. CASE j \in 1..Len(s.events) /\ x \notin DOMAIN s.art
    <3>1. i \notin 1..Len(s.events)
      BY <1>1, <2>3 DEF Writes, Sound, LogSound
    <3>2. t.events[i].tx = s.tx
      BY <1>1, <1>2, <3>1
    <3>3. FreshRef(s, ref)
      BY <2>3
    <3> QED BY <1>1, <1>8, <2>3, <3>2, <3>3 DEF FreshRef
  <2> QED BY <2>1, <2>2, <2>3
<1> QED BY <1>5, <1>6, <1>7, <1>11, <1>12 DEF LogSound

LogExtended(s, t, type, about) ==
  /\ Len(s.events) <= Len(t.events) /\ \A i \in 1..Len(s.events) : t.events[i] = s.events[i]
  /\ \A i \in 1..Len(t.events) : i \notin 1..Len(s.events) => t.events[i].tx = s.tx
  /\ IsLog(t.events) /\ HasEvent(t, type, about)
  /\ \A k, x : HasEvent(s, k, x) => HasEvent(t, k, x)

LEMMA LogExtends ==
  ASSUME NEW s, NEW t, NEW type, NEW about, IsLog(s.events), t.events = LogAfter(s, type, about)
  PROVE  LogExtended(s, t, type, about)
<1>1. Event(type, about, s).tx = s.tx
  BY DEF Event
<1>2. /\ Len(s.events) \in Nat /\ Len(t.events) \in Nat /\ Len(s.events) <= Len(t.events)
      /\ \A i \in 1..Len(s.events) : t.events[i] = s.events[i]
      /\ \A i \in 1..Len(t.events) : i \notin 1..Len(s.events) => t.events[i] = Event(type, about, s)
      /\ IsLog(t.events) /\ HasEvent(t, type, about)
  <2>1. LogGrew(s, t, type, about)
    BY LogFacts
  <2> QED BY <2>1 DEF LogGrew
<1>3. \A k, x : HasEvent(s, k, x) => HasEvent(t, k, x)
  BY <1>2 DEF HasEvent
<1> QED BY <1>1, <1>2, <1>3 DEF LogExtended

FreshRow(s, row) ==
  /\ RowShape(row)
  /\ row.refs # {} => Refers(row.kind)
  /\ row.owner # "human" => \A ref \in row.refs : FreshRef(s, ref)

LEMMA CommitKeeps ==
  ASSUME NEW s, Sound(s), NEW id, NEW row, FreshRow(s, row), CommitArtifactRow(s, id, row).ok,
         NEW t, t = CommitArtifactRow(s, id, row).db
  PROVE  /\ Sound(t) /\ Extends(s, t) /\ HasEvent(t, "ARTIFACT_COMMITTED", id)
         /\ id \in DOMAIN t.art /\ t.art[id] = row
<1>1. /\ DOMAIN t = StateFields /\ t.art = Added(s.art, id, row) /\ s.edges \subseteq t.edges
      /\ t.requests = s.requests /\ t.results = s.results /\ t.tx = s.tx
      /\ t.events = LogAfter(s, "ARTIFACT_COMMITTED", id)
      /\ row.version = 1 /\ row.status = "ACTIVE" /\ RowInsertable(s, id, row)
  BY CommitEffect DEF Sound
<1>2. /\ id \notin DOMAIN s.art
      /\ \A x \in DOMAIN s.art : ~(s.art[x].logical = row.logical /\ s.art[x].version = row.version)
  BY <1>1 DEF RowInsertable, Exists
<1>3. /\ DOMAIN t.art = DOMAIN s.art \cup {id} /\ t.art[id] = row
      /\ \A x \in DOMAIN s.art : t.art[x] = s.art[x]
  BY <1>1, <1>2 DEF Added
<1>4. IsLog(s.events)
  BY DEF Sound, StateShape
<1>5. /\ Len(s.events) <= Len(t.events) /\ \A i \in 1..Len(s.events) : t.events[i] = s.events[i]
      /\ \A i \in 1..Len(t.events) : i \notin 1..Len(s.events) => t.events[i].tx = s.tx
      /\ IsLog(t.events) /\ HasEvent(t, "ARTIFACT_COMMITTED", id)
      /\ \A k, x : HasEvent(s, k, x) => HasEvent(t, k, x)
  <2>1. LogExtended(s, t, "ARTIFACT_COMMITTED", id)
    BY <1>1, <1>4, LogExtends
  <2> QED BY <2>1 DEF LogExtended
<1>6. Extends(s, t)
  BY <1>1, <1>3, <1>5 DEF Extends, Kept, SameRow
<1>7. StateShape(t)
  <2>1. IsFiniteSet(DOMAIN t.art)
    BY <1>3, FS_AddElement DEF Sound, StateShape
  <2>2. \A x \in DOMAIN t.art : RowShape(t.art[x])
    BY <1>3 DEF Sound, StateShape, FreshRow
  <2> QED BY <1>1, <1>5, <2>1, <2>2 DEF Sound, StateShape
<1>8. Chains(t)
  <2>1. \A x, y \in DOMAIN t.art :
          (t.art[x].logical = t.art[y].logical /\ t.art[x].version = t.art[y].version) => x = y
    BY <1>2, <1>3 DEF Sound, Chains
  <2>2. \A x \in DOMAIN t.art : t.art[x].version > 1 =>
          /\ t.art[x].supersedes \in DOMAIN t.art /\ Succeeds(t, x, t.art[x].supersedes)
          /\ HasEvent(t, "ARTIFACT_REVISED", x)
          /\ \E e \in t.edges : e.from = x /\ e.type = "SUPERSEDES" /\ e.to = t.art[x].supersedes
    BY <1>1, <1>3, <1>5 DEF Sound, Chains, Succeeds
  <2>3. \A x, y \in DOMAIN t.art : Succeeds(t, y, x) => y \in DOMAIN s.art /\ x \in DOMAIN s.art
    <3> SUFFICES ASSUME NEW x \in DOMAIN t.art, NEW y \in DOMAIN t.art, Succeeds(t, y, x)
                 PROVE  y \in DOMAIN s.art /\ x \in DOMAIN s.art
      OBVIOUS
    <3>1. t.art[x].version \in Nat \ {0} /\ t.art[y].version = t.art[x].version + 1
          /\ t.art[y].logical = t.art[x].logical
      BY <1>7 DEF StateShape, RowShape, Succeeds
    <3>2. y \in DOMAIN s.art
      BY <1>1, <1>3, <3>1
    <3>3. x # id
      <4>1. SUFFICES ASSUME x = id PROVE FALSE OBVIOUS
      <4>2. s.art[y].version = 2 /\ s.art[y].logical = row.logical
        BY <1>1, <1>3, <3>1, <3>2, <4>1
      <4>3. s.art[y].supersedes \in DOMAIN s.art /\ Succeeds(s, y, s.art[y].supersedes)
        BY <3>2, <4>2 DEF Sound, Chains
      <4>4. s.art[s.art[y].supersedes].version \in Nat
        BY <4>3 DEF Sound, StateShape, RowShape
      <4>5. s.art[s.art[y].supersedes].version = 1 /\ s.art[s.art[y].supersedes].logical = row.logical
        BY <4>2, <4>3, <4>4 DEF Succeeds
      <4> QED BY <1>1, <1>2, <4>3, <4>5
    <3> QED BY <1>3, <3>2, <3>3
  <2>4. \A x, y \in DOMAIN s.art : Succeeds(t, y, x) <=> Succeeds(s, y, x)
    BY <1>3 DEF Succeeds
  <2>5. \A x \in DOMAIN t.art : (t.art[x].status = "SUPERSEDED") <=> (\E y \in DOMAIN t.art : Succeeds(t, y, x))
    <3> SUFFICES ASSUME NEW x \in DOMAIN t.art
                 PROVE  (t.art[x].status = "SUPERSEDED") <=> (\E y \in DOMAIN t.art : Succeeds(t, y, x))
      OBVIOUS
    <3>1. CASE x = id
      BY <1>1, <1>2, <1>3, <2>3, <3>1
    <3>2. CASE x # id
      <4>1. x \in DOMAIN s.art /\ t.art[x] = s.art[x] BY <1>3, <3>2
      <4>2. (s.art[x].status = "SUPERSEDED") <=> (\E y \in DOMAIN s.art : Succeeds(s, y, x))
        BY <4>1 DEF Sound, Chains
      <4> QED BY <1>3, <2>3, <2>4, <4>1, <4>2
    <3> QED BY <3>1, <3>2
  <2> QED BY <2>1, <2>2, <2>5 DEF Chains
<1>9. LogSound(t) /\ FreshRows(t)
  <2> DEFINE type == "ARTIFACT_COMMITTED"
  <2>1. \A x \in DOMAIN s.art : SameRow(s.art[x], t.art[x])
    BY <1>3 DEF SameRow
  <2>2. \A x \in DOMAIN t.art \ DOMAIN s.art :
          /\ x = id
          /\ t.art[x].owner # "human" => \A ref \in t.art[x].refs : FreshRef(s, ref)
    BY <1>3 DEF FreshRow
  <2>3. t.events = LogAfter(s, type, id) /\ type # "ARTIFACT_REVISED" /\ type # "ARTIFACT_WITHDRAWN"
    BY <1>1
  <2> HIDE DEF type
  <2>4. EventWith(s, t, type, id)
    BY <1>1, <1>2, <1>3, <2>1, <2>2, <2>3 DEF EventWith
  <2> QED BY <2>4, LogStep
<1>10. RowsRefer(t)
  BY <1>3 DEF Sound, RowsRefer, FreshRow
<1> QED BY <1>3, <1>5, <1>6, <1>7, <1>8, <1>9, <1>10 DEF Sound

LEMMA ReviseKeeps ==
  ASSUME NEW s, Sound(s), NEW id, NEW row, FreshRow(s, row), ReviseArtifactRow(s, id, row).ok,
         NEW t, t = ReviseArtifactRow(s, id, row).db
  PROVE  /\ Sound(t) /\ Extends(s, t) /\ id \in DOMAIN t.art /\ t.art[id] = row
<1> DEFINE sup == row.supersedes
<1>1. /\ DOMAIN t = StateFields /\ t.art = [Added(s.art, id, row) EXCEPT ![sup].status = "SUPERSEDED"]
      /\ s.edges \subseteq t.edges /\ [from |-> id, to |-> sup, type |-> "SUPERSEDES"] \in t.edges
      /\ t.requests = s.requests /\ t.results = s.results /\ t.tx = s.tx
      /\ t.events = LogAfter(s, "ARTIFACT_REVISED", id)
      /\ row.version > 1 /\ row.status = "ACTIVE" /\ RowInsertable(s, id, row)
      /\ Active(s, sup) /\ s.art[sup].logical = row.logical
  BY ReviseEffect DEF Sound
<1>2. /\ id \notin DOMAIN s.art /\ sup \in DOMAIN s.art /\ s.art[sup].status = "ACTIVE"
      /\ \A x \in DOMAIN s.art : ~(s.art[x].logical = row.logical /\ s.art[x].version = row.version)
      /\ s.art[sup].version = row.version - 1
  BY <1>1 DEF RowInsertable, Exists, Active
<1>3. /\ DOMAIN t.art = DOMAIN s.art \cup {id} /\ t.art[id] = row
      /\ \A x \in DOMAIN s.art \ {sup} : t.art[x] = s.art[x]
      /\ t.art[sup] = [s.art[sup] EXCEPT !.status = "SUPERSEDED"]
  BY <1>1, <1>2 DEF Added
<1>4. \A x \in DOMAIN s.art : DOMAIN s.art[x] = RowFields
  BY DEF Sound, StateShape, RowShape
<1>5. /\ \A x \in DOMAIN s.art : SameRow(s.art[x], t.art[x])
      /\ t.art[sup].status = "SUPERSEDED"
  BY <1>2, <1>3, <1>4 DEF SameRow, RowFields
<1>6. \A x \in DOMAIN s.art :
        /\ DOMAIN t.art[x] = RowFields /\ t.art[x].logical = s.art[x].logical
        /\ t.art[x].version = s.art[x].version /\ t.art[x].supersedes = s.art[x].supersedes
        /\ t.art[x].kind = s.art[x].kind /\ t.art[x].refs = s.art[x].refs
  BY <1>4, <1>5 DEF SameRow, RowFields
<1>7. IsLog(s.events)
  BY DEF Sound, StateShape
<1>8. /\ Len(s.events) <= Len(t.events) /\ \A i \in 1..Len(s.events) : t.events[i] = s.events[i]
      /\ \A i \in 1..Len(t.events) : i \notin 1..Len(s.events) => t.events[i].tx = s.tx
      /\ IsLog(t.events) /\ HasEvent(t, "ARTIFACT_REVISED", id)
      /\ \A k, x : HasEvent(s, k, x) => HasEvent(t, k, x)
  <2>1. LogExtended(s, t, "ARTIFACT_REVISED", id)
    BY <1>1, <1>7, LogExtends
  <2> QED BY <2>1 DEF LogExtended
<1> DEFINE edge == [from |-> id, to |-> sup, type |-> "SUPERSEDES"]
<1>9. edge \in t.edges /\ edge.from = id /\ edge.to = sup /\ edge.type = "SUPERSEDES"
  BY <1>1
<1> HIDE DEF edge
<1>10. Extends(s, t)
  BY <1>1, <1>3, <1>5, <1>8 DEF Extends, Kept
<1>11. StateShape(t)
  <2>1. IsFiniteSet(DOMAIN t.art)
    BY <1>3, FS_AddElement DEF Sound, StateShape
  <2>2. \A x \in DOMAIN s.art : RowShape(t.art[x])
    <3>1. \A x \in DOMAIN s.art : RowShape(s.art[x]) BY DEF Sound, StateShape
    <3>2. \A x \in DOMAIN s.art : t.art[x].status \in Statuses
      BY <1>3, <1>5, <3>1 DEF RowShape, Statuses
    <3> QED BY <1>6, <3>1, <3>2 DEF RowShape
  <2>3. RowShape(t.art[id])
    BY <1>3 DEF FreshRow
  <2> QED BY <1>1, <1>3, <1>8, <2>1, <2>2, <2>3 DEF Sound, StateShape
<1>12. Chains(t)
  <2>1. \A x, y \in DOMAIN t.art :
          (t.art[x].logical = t.art[y].logical /\ t.art[x].version = t.art[y].version) => x = y
    BY <1>2, <1>3, <1>6 DEF Sound, Chains
  <2>2. \A x, y \in DOMAIN s.art : Succeeds(t, y, x) <=> Succeeds(s, y, x)
    BY <1>6 DEF Succeeds
  <2>3. Succeeds(t, id, sup)
    <3>1. row.version \in Nat BY DEF FreshRow, RowShape
    <3> QED BY <1>1, <1>2, <1>3, <1>6, <3>1 DEF Succeeds
  <2>4. \A x \in DOMAIN t.art : t.art[x].version > 1 =>
          /\ t.art[x].supersedes \in DOMAIN t.art /\ Succeeds(t, x, t.art[x].supersedes)
          /\ HasEvent(t, "ARTIFACT_REVISED", x)
          /\ \E e \in t.edges : e.from = x /\ e.type = "SUPERSEDES" /\ e.to = t.art[x].supersedes
    <3> SUFFICES ASSUME NEW x \in DOMAIN t.art, t.art[x].version > 1
                 PROVE  /\ t.art[x].supersedes \in DOMAIN t.art /\ Succeeds(t, x, t.art[x].supersedes)
                        /\ HasEvent(t, "ARTIFACT_REVISED", x)
                        /\ \E e \in t.edges : e.from = x /\ e.type = "SUPERSEDES" /\ e.to = t.art[x].supersedes
      OBVIOUS
    <3>1. CASE x = id
      BY <1>2, <1>3, <1>8, <1>9, <2>3, <3>1
    <3>2. CASE x \in DOMAIN s.art
      <4>1. /\ s.art[x].supersedes \in DOMAIN s.art /\ Succeeds(s, x, s.art[x].supersedes)
            /\ HasEvent(s, "ARTIFACT_REVISED", x)
            /\ \E e \in s.edges : e.from = x /\ e.type = "SUPERSEDES" /\ e.to = s.art[x].supersedes
        BY <1>6, <3>2 DEF Sound, Chains
      <4> QED BY <1>1, <1>3, <1>6, <1>8, <2>2, <3>2, <4>1
    <3> QED BY <1>3, <3>1, <3>2
  <2>5. \A y \in DOMAIN t.art : ~Succeeds(t, y, id)
    <3> SUFFICES ASSUME NEW y \in DOMAIN t.art, Succeeds(t, y, id) PROVE FALSE
      OBVIOUS
    <3>1. row.version \in Nat BY DEF FreshRow, RowShape
    <3>2. y \in DOMAIN s.art /\ s.art[y].version = row.version + 1 /\ s.art[y].logical = row.logical
      BY <1>3, <1>6, <3>1 DEF Succeeds
    <3>3. s.art[y].supersedes \in DOMAIN s.art /\ Succeeds(s, y, s.art[y].supersedes)
      BY <1>1, <3>1, <3>2 DEF Sound, Chains
    <3>4. s.art[s.art[y].supersedes].version \in Nat
      BY <3>3 DEF Sound, StateShape, RowShape
    <3>5. s.art[s.art[y].supersedes].version = row.version /\ s.art[s.art[y].supersedes].logical = row.logical
      BY <3>1, <3>2, <3>3, <3>4 DEF Succeeds
    <3> QED BY <1>2, <3>3, <3>5
  <2>6. \A x \in DOMAIN s.art : Succeeds(t, id, x) => x = sup
    <3> SUFFICES ASSUME NEW x \in DOMAIN s.art, Succeeds(t, id, x) PROVE x = sup
      OBVIOUS
    <3>1. row.version \in Nat /\ s.art[x].version \in Nat
      BY DEF FreshRow, RowShape, Sound, StateShape
    <3>2. s.art[x].logical = s.art[sup].logical /\ s.art[x].version = s.art[sup].version
      BY <1>1, <1>2, <1>3, <1>6, <3>1 DEF Succeeds
    <3> QED BY <1>2, <3>2 DEF Sound, Chains
  <2>7. \A x \in DOMAIN t.art : (t.art[x].status = "SUPERSEDED") <=> (\E y \in DOMAIN t.art : Succeeds(t, y, x))
    <3> SUFFICES ASSUME NEW x \in DOMAIN t.art
                 PROVE  (t.art[x].status = "SUPERSEDED") <=> (\E y \in DOMAIN t.art : Succeeds(t, y, x))
      OBVIOUS
    <3>1. CASE x = id
      BY <1>1, <1>3, <2>5, <3>1
    <3>2. CASE x = sup
      BY <1>3, <1>5, <2>3, <3>2
    <3>3. CASE x # id /\ x # sup
      <4>1. x \in DOMAIN s.art /\ t.art[x] = s.art[x] BY <1>3, <3>3
      <4>2. (s.art[x].status = "SUPERSEDED") <=> (\E y \in DOMAIN s.art : Succeeds(s, y, x))
        BY <4>1 DEF Sound, Chains
      <4> QED BY <1>3, <2>2, <2>6, <3>3, <4>1, <4>2
    <3> QED BY <3>1, <3>2, <3>3
  <2> QED BY <2>1, <2>4, <2>7 DEF Chains
<1>13. LogSound(t) /\ FreshRows(t)
  <2> DEFINE type == "ARTIFACT_REVISED"
  <2>1. \A x \in DOMAIN t.art \ DOMAIN s.art :
          /\ x = id
          /\ t.art[x].owner # "human" => \A ref \in t.art[x].refs : FreshRef(s, ref)
    BY <1>3 DEF FreshRow
  <2>2. \A x \in DOMAIN s.art : t.art[x].status = "ACTIVE" => s.art[x].status = "ACTIVE"
    BY <1>2, <1>3
  <2>3. t.events = LogAfter(s, type, id) /\ type # "ARTIFACT_WITHDRAWN"
    BY <1>1
  <2> HIDE DEF type
  <2>4. EventWith(s, t, type, id)
    BY <1>1, <1>2, <1>3, <1>5, <2>1, <2>2, <2>3 DEF EventWith
  <2> QED BY <2>4, LogStep
<1>14. RowsRefer(t)
  BY <1>3, <1>6 DEF Sound, RowsRefer, FreshRow
<1> QED BY <1>3, <1>10, <1>11, <1>12, <1>13, <1>14 DEF Sound

(* An operation that leaves the rows to their owners. *)
LEMMA LifecycleKeeps ==
  ASSUME NEW s, Sound(s), NEW t, NEW type, NEW about,
         DOMAIN t = StateFields, s.edges \subseteq t.edges, t.tx = s.tx,
         t.requests = s.requests, t.results = s.results, t.events = LogAfter(s, type, about),
         type \notin {"ARTIFACT_COMMITTED", "ARTIFACT_REVISED"},
         \/ t.art = s.art /\ type # "ARTIFACT_WITHDRAWN"
         \/ Active(s, about) /\ t.art = [s.art EXCEPT ![about].status = "WITHDRAWN"]
  PROVE  Sound(t) /\ Extends(s, t) /\ HasEvent(t, type, about)
<1>1. \A x \in DOMAIN s.art : DOMAIN s.art[x] = RowFields
  BY DEF Sound, StateShape, RowShape
<1>2. /\ DOMAIN t.art = DOMAIN s.art
      /\ \A x \in DOMAIN s.art : SameRow(s.art[x], t.art[x]) /\ t.art[x].status \in {s.art[x].status, "WITHDRAWN"}
      /\ \A x \in DOMAIN s.art : t.art[x].status = "WITHDRAWN" => s.art[x].status \in {"ACTIVE", "WITHDRAWN"}
      /\ type = "ARTIFACT_WITHDRAWN" => about \in DOMAIN s.art /\ t.art[about].status # "ACTIVE"
  BY <1>1 DEF SameRow, RowFields, Active, Exists
<1>3. \A x \in DOMAIN s.art :
        /\ DOMAIN t.art[x] = RowFields /\ t.art[x].logical = s.art[x].logical
        /\ t.art[x].version = s.art[x].version /\ t.art[x].supersedes = s.art[x].supersedes
        /\ t.art[x].kind = s.art[x].kind /\ t.art[x].refs = s.art[x].refs
  BY <1>1, <1>2 DEF SameRow, RowFields
<1>4. IsLog(s.events)
  BY DEF Sound, StateShape
<1>5. /\ Len(s.events) <= Len(t.events) /\ \A i \in 1..Len(s.events) : t.events[i] = s.events[i]
      /\ \A i \in 1..Len(t.events) : i \notin 1..Len(s.events) => t.events[i].tx = s.tx
      /\ IsLog(t.events) /\ HasEvent(t, type, about)
      /\ \A k, x : HasEvent(s, k, x) => HasEvent(t, k, x)
  <2>1. LogExtended(s, t, type, about)
    BY <1>4, LogExtends
  <2> QED BY <2>1 DEF LogExtended
<1>6. Extends(s, t)
  BY <1>2, <1>5 DEF Extends, Kept
<1>7. StateShape(t)
  <2>1. \A x \in DOMAIN t.art : RowShape(t.art[x])
    BY <1>2, <1>3 DEF Sound, StateShape, RowShape, Statuses
  <2> QED BY <1>2, <1>5, <2>1 DEF Sound, StateShape
<1>8. Chains(t)
  <2>1. \A x, y \in DOMAIN s.art : Succeeds(t, y, x) <=> Succeeds(s, y, x)
    BY <1>3 DEF Succeeds
  <2>2. \A x \in DOMAIN s.art : (t.art[x].status = "SUPERSEDED") <=> (s.art[x].status = "SUPERSEDED")
    BY <1>2
  <2>3. \A x, y \in DOMAIN t.art :
          (t.art[x].logical = t.art[y].logical /\ t.art[x].version = t.art[y].version) => x = y
    BY <1>2, <1>3 DEF Sound, Chains
  <2>4. \A x \in DOMAIN t.art : t.art[x].version > 1 =>
          /\ t.art[x].supersedes \in DOMAIN t.art /\ Succeeds(t, x, t.art[x].supersedes)
          /\ HasEvent(t, "ARTIFACT_REVISED", x)
          /\ \E e \in t.edges : e.from = x /\ e.type = "SUPERSEDES" /\ e.to = t.art[x].supersedes
    BY <1>2, <1>3, <1>5, <2>1 DEF Sound, Chains
  <2>5. \A x \in DOMAIN t.art : (t.art[x].status = "SUPERSEDED") <=> (\E y \in DOMAIN t.art : Succeeds(t, y, x))
    BY <1>2, <2>1, <2>2 DEF Sound, Chains
  <2> QED BY <2>3, <2>4, <2>5 DEF Chains
<1>9. LogSound(t) /\ FreshRows(t)
  <2>1. \A x \in DOMAIN s.art : t.art[x].status = "ACTIVE" => s.art[x].status = "ACTIVE"
    BY <1>2
  <2>2. EventWith(s, t, type, about)
    BY <1>2, <2>1 DEF EventWith
  <2> QED BY <2>2, LogStep
<1>10. RowsRefer(t)
  BY <1>2, <1>3 DEF Sound, RowsRefer
<1> QED BY <1>5, <1>6, <1>7, <1>8, <1>9, <1>10 DEF Sound

LEMMA WithdrawKeeps ==
  ASSUME NEW s, Sound(s), NEW id, NEW warrants, WithdrawArtifactRow(s, id, warrants).ok
  PROVE  LET t == WithdrawArtifactRow(s, id, warrants).db IN Sound(t) /\ Extends(s, t)
<1> DEFINE t == WithdrawArtifactRow(s, id, warrants).db
<1>1. /\ DOMAIN t = StateFields /\ t.art = [s.art EXCEPT ![id].status = "WITHDRAWN"]
      /\ t.edges = s.edges /\ t.requests = s.requests /\ t.results = s.results /\ t.tx = s.tx
      /\ t.events = LogAfter(s, "ARTIFACT_WITHDRAWN", id) /\ Active(s, id)
  BY WithdrawEffect DEF Sound
<1> DEFINE type == "ARTIFACT_WITHDRAWN"
<1>2. type \notin {"ARTIFACT_COMMITTED", "ARTIFACT_REVISED"} /\ t.events = LogAfter(s, type, id)
  BY <1>1
<1> HIDE DEF t, type
<1>3. Sound(t) /\ Extends(s, t)
  BY <1>1, <1>2, LifecycleKeeps
<1> QED BY <1>3 DEF t

LEMMA RecordKeeps ==
  ASSUME NEW s, Sound(s), NEW about, NEW type,
         type \notin {"ARTIFACT_COMMITTED", "ARTIFACT_REVISED", "ARTIFACT_WITHDRAWN"}
  PROVE  LET t == Recorded(s, type, about) IN Sound(t) /\ Extends(s, t) /\ HasEvent(t, type, about)
<1> DEFINE t == Recorded(s, type, about)
<1>1. /\ DOMAIN t = StateFields /\ t.art = s.art /\ t.edges = s.edges /\ t.requests = s.requests
      /\ t.results = s.results /\ t.tx = s.tx /\ t.events = LogAfter(s, type, about)
  BY RecordedEffect DEF Sound, StateShape
<1> HIDE DEF t
<1> QED BY <1>1, LifecycleKeeps DEF t

(* Requests and results are rows of their own. *)
LEMMA SameRecord ==
  ASSUME NEW s, Sound(s), NEW t, DOMAIN t = StateFields, t.art = s.art, t.edges = s.edges, t.events = s.events,
         t.tx \in {s.tx, s.tx + 1}
  PROVE  Sound(t) /\ \A k, x : HasEvent(t, k, x) <=> HasEvent(s, k, x)
<1>1. \A k, x : HasEvent(t, k, x) <=> HasEvent(s, k, x)
  BY DEF HasEvent
<1>2. \A x, y : Succeeds(t, x, y) <=> Succeeds(s, x, y)
  BY DEF Succeeds
<1>3. \A i, x : (Ends(t, i, x) <=> Ends(s, i, x)) /\ (Writes(t, i, x) <=> Writes(s, i, x))
  BY DEF Ends, Writes
<1>4. s.tx \in Nat /\ t.tx \in Nat /\ s.tx <= t.tx
  BY DEF Sound, StateShape
<1>5. StateShape(t)
  BY <1>4 DEF Sound, StateShape
<1>6. Chains(t)
  BY <1>1, <1>2 DEF Sound, Chains
<1>7. LogSound(t)
  <2>1. \A i \in 1..Len(t.events) : t.events[i].tx \in Nat /\ t.events[i].tx <= t.tx
    BY <1>4 DEF Sound, LogSound
  <2> QED BY <1>3, <2>1 DEF Sound, LogSound
<1>8. FreshRows(t)
  BY <1>3 DEF Sound, FreshRows
<1>9. RowsRefer(t)
  BY DEF Sound, RowsRefer
<1> QED BY <1>1, <1>5, <1>6, <1>7, <1>8, <1>9 DEF Sound

LEMMA LengthOfLog == ASSUME NEW s, Sound(s) PROVE Len(s.events) \in Nat
BY LogAppends DEF Sound, StateShape

LEMMA KeptStays == ASSUME NEW s, NEW t, NEW u, Sound(s), Sound(t), Sound(u), Kept(s, t), Kept(t, u) PROVE Kept(s, u)
<1>1. Len(s.events) \in Nat /\ Len(t.events) \in Nat /\ Len(u.events) \in Nat
  BY LengthOfLog
<1>2. \A x \in DOMAIN s.art : SameRow(s.art[x], u.art[x])
  BY DEF Kept, SameRow
<1>3. Len(s.events) <= Len(u.events) /\ \A i \in 1..Len(s.events) : u.events[i] = s.events[i]
  BY <1>1 DEF Kept
<1> QED BY <1>2, <1>3 DEF Kept

LEMMA ExtendsStays ==
  ASSUME NEW s, NEW t, NEW u, Sound(s), Sound(t), Sound(u), Extends(s, t), Extends(t, u)
  PROVE  Extends(s, u)
<1>1. Len(s.events) \in Nat /\ Len(t.events) \in Nat /\ Len(u.events) \in Nat
  BY LengthOfLog
<1>2. Kept(s, u)
  BY KeptStays DEF Extends
<1>3. \A i \in 1..Len(u.events) : i \notin 1..Len(s.events) => u.events[i].tx = s.tx
  BY <1>1 DEF Extends, Kept
<1> QED BY <1>2, <1>3 DEF Extends

LEMMA ExtendsItself == ASSUME NEW s, Sound(s) PROVE Extends(s, s) /\ Kept(s, s)
BY LengthOfLog DEF Extends, Kept, SameRow

LEMMA EventsStay ==
  ASSUME NEW s, NEW t, Sound(s), Sound(t), Kept(s, t) PROVE \A k, x : HasEvent(s, k, x) => HasEvent(t, k, x)
BY LengthOfLog DEF Kept, HasEvent

(* What is current has not been ended, and is not by an earlier transaction  *)
(* while this one lasts.                                                     *)
LEMMA ActiveIsFresh == ASSUME NEW s, Sound(s), NEW ref, Active(s, ref) PROVE FreshRef(s, ref)
BY DEF Sound, LogSound, FreshRef, Active, Exists

LEMMA FreshStays ==
  ASSUME NEW s, NEW t, Sound(s), Sound(t), Extends(s, t), NEW ref, FreshRef(s, ref) PROVE FreshRef(t, ref)
<1>1. Len(s.events) \in Nat /\ Len(t.events) \in Nat /\ s.tx \in Nat /\ t.tx = s.tx
  BY LengthOfLog DEF Sound, StateShape, Extends
<1>2. SUFFICES ASSUME NEW i \in 1..Len(t.events), Ends(t, i, ref) PROVE t.tx <= t.events[i].tx
  BY DEF FreshRef
<1>3. CASE i \notin 1..Len(s.events)
  BY <1>1, <1>3 DEF Extends
<1>4. CASE i \in 1..Len(s.events)
  <2>1. t.events[i] = s.events[i]
    BY <1>4 DEF Extends, Kept
  <2>2. ASSUME s.events[i].type = "ARTIFACT_REVISED"
        PROVE  t.art[s.events[i].about].supersedes = s.art[s.events[i].about].supersedes
    <3>1. s.events[i].about \in DOMAIN s.art
      BY <1>4, <2>2 DEF Sound, LogSound
    <3>2. SameRow(s.art[s.events[i].about], t.art[s.events[i].about]) /\ RowShape(s.art[s.events[i].about])
      BY <3>1 DEF Extends, Kept, Sound, StateShape
    <3> QED BY <3>2 DEF SameRow, RowShape, RowFields
  <2>3. Ends(s, i, ref)
    BY <1>2, <2>1, <2>2 DEF Ends
  <2> QED BY <1>1, <1>4, <2>1, <2>3 DEF FreshRef
<1> QED BY <1>3, <1>4

(* The effects a committed command has left. *)
ResponseStands(s, turn, p) ==
  /\ turn \in DOMAIN s.requests /\ s.requests[turn] = p
  /\ turn \in DOMAIN s.results /\ s.results[turn] = ResponseResult(turn, p)
  /\ ResponseComplete(s, turn, s.results[turn])
BundleStands(s, turn, visible, bundle) == CritiqueContract(turn, visible, bundle) /\ TurnComplete(s, turn, bundle)
CommandStands(s, c) ==
  IF "response" \in DOMAIN c THEN ResponseStands(s, c.turn, c.response)
  ELSE BundleStands(s, c.turn, c.visible, c.bundle)

(* One artifact of a bundle is as the bundle wrote it. *)
RowStands(s, turn, bundle, i) ==
  LET id == TurnArtifact(turn, i)
  IN /\ Exists(s, id) /\ HasEvent(s, "ARTIFACT_COMMITTED", id)
     /\ LET row == NewRow(id, bundle[i], AgentOf[turn], RoundOf[turn])
        IN Snapshot(s, id) = [f \in DOMAIN row \ {"status"} |-> row[f]]

LEMMA RowStays ==
  ASSUME NEW s, NEW t, Sound(s), Sound(t), Kept(s, t), NEW turn, NEW bundle, NEW i, RowStands(s, turn, bundle, i)
  PROVE  RowStands(t, turn, bundle, i)
<1> DEFINE id == TurnArtifact(turn, i)
           row == NewRow(id, bundle[i], AgentOf[turn], RoundOf[turn])
           shot == [f \in DOMAIN row \ {"status"} |-> row[f]]
<1>1. Exists(s, id) /\ HasEvent(s, "ARTIFACT_COMMITTED", id) /\ Snapshot(s, id) = shot
  BY DEF RowStands
<1>2. Exists(t, id) /\ HasEvent(t, "ARTIFACT_COMMITTED", id) /\ Snapshot(t, id) = shot
  <2> HIDE DEF id, shot
  <2>1. \A k, x : HasEvent(s, k, x) => HasEvent(t, k, x)
    BY EventsStay
  <2>2. id \in DOMAIN t.art /\ SameRow(s.art[id], t.art[id])
    BY <1>1 DEF Kept, Exists
  <2>3. Snapshot(t, id) = Snapshot(s, id)
    BY <2>2 DEF SameRow, Snapshot
  <2> QED BY <1>1, <2>1, <2>2, <2>3 DEF Exists
<1> QED BY <1>2 DEF RowStands

LEMMA BundleStaysComplete ==
  ASSUME NEW s, NEW t, Sound(s), Sound(t), Kept(s, t), NEW turn, NEW visible, NEW bundle,
         BundleStands(s, turn, visible, bundle)
  PROVE  BundleStands(t, turn, visible, bundle)
<1>1. /\ CritiqueContract(turn, visible, bundle) /\ HasEvent(s, "AGENT_TURN_COMPLETED", TurnEvent(turn))
      /\ \A i \in 1..Len(bundle) : RowStands(s, turn, bundle, i)
  BY DEF BundleStands, TurnComplete, RowStands
<1>2. HasEvent(t, "AGENT_TURN_COMPLETED", TurnEvent(turn))
  BY <1>1, EventsStay
<1>3. \A i \in 1..Len(bundle) : RowStands(t, turn, bundle, i)
  BY <1>1, RowStays
<1> QED BY <1>1, <1>2, <1>3 DEF BundleStands, TurnComplete, RowStands

LEMMA ResponseStaysComplete ==
  ASSUME NEW s, NEW t, Sound(s), Sound(t), Kept(s, t), NEW turn, NEW p, ResponseStands(s, turn, p)
  PROVE  ResponseStands(t, turn, p)
<1> DEFINE result == s.results[turn]
<1>1. /\ turn \in DOMAIN t.requests /\ t.requests[turn] = p
      /\ turn \in DOMAIN t.results /\ t.results[turn] = result /\ result = ResponseResult(turn, p)
  BY DEF ResponseStands, Kept
<1>2. ResponseComplete(s, turn, result)
  BY DEF ResponseStands
<1> HIDE DEF result
<1>3. \A x \in DOMAIN s.art : x \in DOMAIN t.art /\ t.art[x].version = s.art[x].version
  BY DEF Kept, SameRow, Sound, StateShape, RowShape, RowFields
<1>4. HasEvent(t, "CRITIQUE_RESPONDED", <<turn, 0>>)
  BY <1>2, EventsStay DEF ResponseComplete
<1>5. ResponseComplete(t, turn, result)
  BY <1>2, <1>3, <1>4 DEF ResponseComplete, Exists
<1> QED BY <1>1, <1>5 DEF ResponseStands

LEMMA CommandStays ==
  ASSUME NEW s, NEW t, Sound(s), Sound(t), Kept(s, t), NEW c, CommandStands(s, c) PROVE CommandStands(t, c)
BY BundleStaysComplete, ResponseStaysComplete DEF CommandStands

(* A command that stands is answered without another effect. *)
LEMMA StandingAnswers ==
  ASSUME NEW s, NEW c, CommandStands(s, c)
  PROVE  (IF "response" \in DOMAIN c THEN Respond(s, c.turn, c.visible, c.response)
          ELSE CommitTurn(s, c.turn, c.visible, c.bundle)) = Done(s)
<1>1. ASSUME NEW turn, NEW visible, NEW p, ResponseStands(s, turn, p)
      PROVE  Respond(s, turn, visible, p) = Done(s)
  BY <1>1 DEF ResponseStands, Respond
<1>2. ASSUME NEW turn, NEW visible, NEW bundle, BundleStands(s, turn, visible, bundle)
      PROVE  CommitTurn(s, turn, visible, bundle) = Done(s)
  <2>1. HasEvent(s, "AGENT_TURN_COMPLETED", TurnEvent(turn))
    BY <1>2 DEF BundleStands, TurnComplete
  <2> QED BY <1>2, <2>1 DEF BundleStands, CommitTurn
<1> QED BY <1>1, <1>2 DEF CommandStands

(* One artifact of a bundle, when those before it were written. *)
WriteNext(step, turn, bundle, i) ==
  IF step.ok THEN CommitArtifactRow(step.db, TurnArtifact(turn, i),
                    NewRow(TurnArtifact(turn, i), bundle[i], AgentOf[turn], RoundOf[turn]))
  ELSE step

LEMMA BundleUnfolds ==
  ASSUME NEW state, NEW turn, NEW bundle, Len(bundle) \in Nat
  PROVE  \E g : /\ g[0] = Done(state)
                /\ \A i \in 1..Len(bundle) : g[i] = WriteNext(g[i - 1], turn, bundle, i)
                /\ WriteBundle(state, turn, bundle) =
                     IF g[Len(bundle)].ok
                     THEN Done(Recorded(g[Len(bundle)].db, "AGENT_TURN_COMPLETED", TurnEvent(turn)))
                     ELSE g[Len(bundle)]
<1> DEFINE Rows(g, n) == [i \in 0..n |-> IF i = 0 THEN Done(state) ELSE WriteNext(g[i - 1], turn, bundle, i)]
           defined == {n \in Nat : \E g : g = Rows(g, n)}
<1>1. 0 \in defined
  <2> DEFINE g == [d \in 0..0 |-> Done(state)]
  <2>1. g = Rows(g, 0)
    OBVIOUS
  <2> QED BY <2>1
<1>2. ASSUME NEW n \in Nat, n \in defined PROVE n + 1 \in defined
  <2>1. PICK g : g = Rows(g, n)
    BY <1>2
  <2> DEFINE h == [d \in 0..(n + 1) |-> IF d <= n THEN g[d] ELSE WriteNext(g[n], turn, bundle, n + 1)]
  <2>2. \A d \in 0..(n + 1) : h[d] = IF d = 0 THEN Done(state) ELSE WriteNext(h[d - 1], turn, bundle, d)
    <3> SUFFICES ASSUME NEW d \in 0..(n + 1)
                 PROVE  h[d] = IF d = 0 THEN Done(state) ELSE WriteNext(h[d - 1], turn, bundle, d)
      OBVIOUS
    <3>1. CASE d = 0
      <4>1. g[0] = Done(state) BY <2>1
      <4> QED BY <3>1, <4>1
    <3>2. CASE d \in 1..n
      <4>1. g[d] = WriteNext(g[d - 1], turn, bundle, d) BY <2>1, <3>2
      <4>2. h[d] = g[d] /\ h[d - 1] = g[d - 1] /\ d # 0 BY <3>2
      <4> HIDE DEF h
      <4> QED BY <4>1, <4>2
    <3>3. CASE d = n + 1
      <4>1. h[d] = WriteNext(g[n], turn, bundle, n + 1) /\ h[d - 1] = g[n] /\ d # 0 BY <3>3
      <4> HIDE DEF h
      <4> QED BY <3>3, <4>1
    <3> QED BY <3>1, <3>2, <3>3
  <2>3. h = Rows(h, n + 1)
    BY <2>2
  <2> HIDE DEF h
  <2> QED BY <2>3
<1>3. Len(bundle) \in defined
  <2> HIDE DEF defined
  <2> QED BY <1>1, <1>2, Climb
<1> DEFINE written == CHOOSE g : g = Rows(g, Len(bundle))
<1>4. WriteBundle(state, turn, bundle) =
        IF written[Len(bundle)].ok
        THEN Done(Recorded(written[Len(bundle)].db, "AGENT_TURN_COMPLETED", TurnEvent(turn)))
        ELSE written[Len(bundle)]
  BY DEF WriteBundle, Then, WriteNext
<1>5. written = Rows(written, Len(bundle))
  BY <1>3
<1>6. /\ written[0] = Done(state)
      /\ \A i \in 1..Len(bundle) : written[i] = WriteNext(written[i - 1], turn, bundle, i)
  <2> HIDE DEF written
  <2> QED BY <1>5
<1> HIDE DEF written
<1> QED BY <1>4, <1>6

(* References a preflight has let pass. *)
DraftFresh(s, draft) ==
  /\ draft.refs # {} => Refers(draft.kind)
  /\ \A ref \in draft.refs : FreshRef(s, ref)

LEMMA WriteNextKeeps ==
  ASSUME NEW s, Sound(s), NEW turn, NEW bundle, NEW i, DraftFresh(s, bundle[i]),
         NEW step, step.ok, step.db = s, NEW next, next = WriteNext(step, turn, bundle, i), next.ok
  PROVE  Sound(next.db) /\ Extends(s, next.db) /\ RowStands(next.db, turn, bundle, i)
<1> DEFINE id == TurnArtifact(turn, i)
           row == NewRow(id, bundle[i], AgentOf[turn], RoundOf[turn])
           t == next.db
<1>1. next = CommitArtifactRow(s, id, row)
  BY DEF WriteNext
<1>2. row.refs = bundle[i].refs /\ row.kind = bundle[i].kind /\ RowShape(row)
  BY DEF NewRow, RowShape, RowFields, Statuses
<1>3. FreshRow(s, row)
  <2> HIDE DEF row
  <2> QED BY <1>2 DEF FreshRow, DraftFresh
<1>4. /\ Sound(t) /\ Extends(s, t) /\ HasEvent(t, "ARTIFACT_COMMITTED", id)
      /\ id \in DOMAIN t.art /\ t.art[id] = row
  <2>1. t = CommitArtifactRow(s, id, row).db /\ CommitArtifactRow(s, id, row).ok
    BY <1>1
  <2> HIDE DEF id, row, t
  <2> QED BY <1>3, <2>1, CommitKeeps
<1>5. RowStands(t, turn, bundle, i)
  <2>1. Snapshot(t, id) = [f \in DOMAIN row \ {"status"} |-> row[f]]
    <3> HIDE DEF row, id, t
    <3> QED BY <1>4 DEF Snapshot
  <2>2. Exists(t, id) BY <1>4 DEF Exists
  <2> QED BY <1>4, <2>1, <2>2 DEF RowStands
<1> QED BY <1>4, <1>5

LEMMA BundleKeeps ==
  ASSUME NEW s, Sound(s), NEW turn, NEW bundle, Len(bundle) \in Nat,
         \A i \in 1..Len(bundle) : DraftFresh(s, bundle[i]), WriteBundle(s, turn, bundle).ok
  PROVE  LET t == WriteBundle(s, turn, bundle).db
         IN Sound(t) /\ Extends(s, t) /\ TurnComplete(t, turn, bundle)
<1> DEFINE n == Len(bundle)
           w == WriteBundle(s, turn, bundle)
<1>1. PICK g : /\ g[0] = Done(s)
               /\ \A i \in 1..n : g[i] = WriteNext(g[i - 1], turn, bundle, i)
               /\ w = IF g[n].ok THEN Done(Recorded(g[n].db, "AGENT_TURN_COMPLETED", TurnEvent(turn)))
                      ELSE g[n]
  BY BundleUnfolds
<1> DEFINE Good(i) == g[i].ok => /\ Sound(g[i].db) /\ Extends(s, g[i].db)
                                 /\ \A j \in 1..i : RowStands(g[i].db, turn, bundle, j)
           kept == {i \in Nat : i <= n => Good(i)}
<1>2. 0 \in kept
  <2>1. g[0].db = s BY <1>1 DEF Done
  <2> QED BY <2>1, ExtendsItself
<1>3. ASSUME NEW i \in Nat, i \in kept PROVE i + 1 \in kept
  <2> SUFFICES ASSUME i + 1 <= n, g[i + 1].ok
               PROVE  /\ Sound(g[i + 1].db) /\ Extends(s, g[i + 1].db)
                      /\ \A j \in 1..(i + 1) : RowStands(g[i + 1].db, turn, bundle, j)
    OBVIOUS
  <2>1. i + 1 \in 1..n /\ (i + 1) - 1 = i
    OBVIOUS
  <2>2. g[i + 1] = WriteNext(g[i], turn, bundle, i + 1)
    BY <1>1, <2>1
  <2>3. g[i].ok
    BY <2>2 DEF WriteNext
  <2>4. Good(i)
    BY <1>3
  <2> DEFINE old == g[i].db
             new == g[i + 1].db
  <2>5. Sound(old) /\ Extends(s, old) /\ \A j \in 1..i : RowStands(old, turn, bundle, j)
    BY <2>3, <2>4
  <2>6. DraftFresh(old, bundle[i + 1])
    BY <2>1, <2>5, FreshStays DEF DraftFresh
  <2>7. Sound(new) /\ Extends(old, new) /\ RowStands(new, turn, bundle, i + 1)
    BY <2>2, <2>3, <2>5, <2>6, WriteNextKeeps
  <2> HIDE DEF old, new
  <2>8. Extends(s, new)
    BY <2>5, <2>7, ExtendsStays
  <2>9. \A j \in 1..i : RowStands(new, turn, bundle, j)
    BY <2>5, <2>7, RowStays DEF Extends
  <2>10. \A j \in 1..(i + 1) : RowStands(new, turn, bundle, j)
    <3>1. \A j \in 1..(i + 1) : j \in 1..i \/ j = i + 1 OBVIOUS
    <3> QED BY <2>7, <2>9, <3>1
  <2> QED BY <2>7, <2>8, <2>10 DEF new
<1>4. n \in kept
  <2> HIDE DEF kept, n
  <2>1. n \in Nat BY DEF n
  <2> QED BY <1>2, <1>3, <2>1, Climb
<1>5. g[n].ok /\ w.db = Recorded(g[n].db, "AGENT_TURN_COMPLETED", TurnEvent(turn))
  BY <1>1 DEF Done
<1>6. /\ Sound(g[n].db) /\ Extends(s, g[n].db) /\ \A j \in 1..n : RowStands(g[n].db, turn, bundle, j)
  BY <1>4, <1>5
<1> DEFINE old == g[n].db
           t == w.db
<1>7. Sound(t) /\ Extends(old, t) /\ HasEvent(t, "AGENT_TURN_COMPLETED", TurnEvent(turn))
  <2> DEFINE type == "AGENT_TURN_COMPLETED"
  <2>1. type \notin {"ARTIFACT_COMMITTED", "ARTIFACT_REVISED", "ARTIFACT_WITHDRAWN"} OBVIOUS
  <2>2. t = Recorded(old, type, TurnEvent(turn)) /\ Sound(old) BY <1>5, <1>6
  <2> HIDE DEF type, old, t
  <2>3. Sound(t) /\ Extends(old, t) /\ HasEvent(t, type, TurnEvent(turn))
    BY <2>1, <2>2, RecordKeeps
  <2> QED BY <2>3 DEF type
<1>8. Extends(s, t) /\ \A j \in 1..n : RowStands(t, turn, bundle, j)
  <2> HIDE DEF old, t, n
  <2>1. Sound(old) /\ Extends(s, old) /\ \A j \in 1..n : RowStands(old, turn, bundle, j)
    BY <1>6 DEF old
  <2>2. Extends(s, t)
    BY <1>7, <2>1, ExtendsStays
  <2> QED BY <1>7, <2>1, <2>2, RowStays DEF Extends
<1>9. TurnComplete(t, turn, bundle)
  BY <1>7, <1>8 DEF TurnComplete, RowStands
<1> QED BY <1>7, <1>8, <1>9

LEMMA CheckedIsFresh ==
  ASSUME NEW s, Sound(s), NEW turn, NEW visible, NEW draft, draft.refs # {} => Refers(draft.kind),
         \A ref \in DraftReferences(draft) : Preflight(s, turn, visible, ref)
  PROVE  DraftFresh(s, draft)
<1>1. \A ref \in draft.refs : ref \in DraftReferences(draft)
  BY DEF DraftReferences, Refers
<1>2. \A ref \in draft.refs : Active(s, ref)
  BY <1>1 DEF Preflight
<1> QED BY <1>2, ActiveIsFresh DEF DraftFresh

LEMMA TurnKeeps ==
  ASSUME NEW s, Sound(s), NEW turn, NEW visible, NEW bundle, Len(bundle) \in Nat,
         \A i \in 1..Len(bundle) : bundle[i].refs # {} => Refers(bundle[i].kind),
         CommitTurn(s, turn, visible, bundle).ok, NEW t, t = CommitTurn(s, turn, visible, bundle).db
  PROVE  Sound(t) /\ Extends(s, t) /\ BundleStands(t, turn, visible, bundle)
<1> DEFINE prior == \/ \E i \in 1..Len(bundle) : Exists(s, TurnArtifact(turn, i))
                    \/ HasEvent(s, "AGENT_TURN_COMPLETED", TurnEvent(turn))
<1>1. CritiqueContract(turn, visible, bundle)
  BY DEF CommitTurn, Refused
<1>2. CASE prior
  <2>1. TurnComplete(s, turn, bundle) /\ t = s
    BY <1>1, <1>2 DEF CommitTurn, Refused, Done
  <2> QED BY <1>1, <2>1, ExtendsItself DEF BundleStands
<1>3. CASE ~prior
  <2>1. /\ \A i \in 1..Len(bundle) : \A ref \in DraftReferences(bundle[i]) : Preflight(s, turn, visible, ref)
        /\ CommitTurn(s, turn, visible, bundle) = WriteBundle(s, turn, bundle)
    BY <1>1, <1>3 DEF CommitTurn, Refused
  <2>2. \A i \in 1..Len(bundle) : DraftFresh(s, bundle[i])
    BY <2>1, CheckedIsFresh
  <2>3. Sound(t) /\ Extends(s, t) /\ TurnComplete(t, turn, bundle)
    BY <2>1, <2>2, BundleKeeps
  <2> QED BY <1>1, <2>3 DEF BundleStands
<1> QED BY <1>2, <1>3

LEMMA CritiquesRefer == Refers("CRITIQUE")
<1>1. "CRITIQUE" \in Shapes /\ KindOf("CRITIQUE") = "CRITIQUE" /\ ProposalFields("CRITIQUE") # {}
  BY DEF Shapes, KindOf, ProposalFields, ArtifactKind, Representation
<1> QED BY <1>1 DEF Refers

LEMMA InferencesRefer == Refers("INFERENCE")
<1>1. "INFERENCE" \in Shapes /\ KindOf("INFERENCE") = "INFERENCE" /\ ProposalFields("INFERENCE") # {}
  BY DEF Shapes, KindOf, ProposalFields, ArtifactKind, Representation
<1> QED BY <1>1 DEF Refers

NextAfter(row, old) == row.version = old.version + 1

LEMMA NextVersionFits ==
  ASSUME NEW s, NEW base, StateShape(base), NEW previous \in DOMAIN base.art, NEW turn, NEW refs, NEW resolution, NEW parents,
         refs # {} => Refers(base.art[previous].kind), \A ref \in refs : FreshRef(s, ref),
         NEW row, row = NextVersion(base, turn, previous, refs, resolution, parents)
  PROVE  FreshRow(s, row) /\ NextAfter(row, base.art[previous])
<1> DEFINE old == base.art[previous]
<1>1. RowShape(old)
  BY DEF StateShape
<1> HIDE DEF old
<1>2. row = [old EXCEPT !.version = @ + 1, !.status = "ACTIVE", !.supersedes = previous,
               !.round = RoundOf[turn], !.refs = refs, !.resolution = resolution, !.parents = parents]
  BY DEF NextVersion, old
<1>3. DOMAIN row = RowFields /\ row.version = old.version + 1 /\ row.status = "ACTIVE" /\ row.refs = refs /\ row.kind = old.kind
  BY <1>1, <1>2 DEF RowShape, RowFields
<1>4. RowShape(row)
  BY <1>1, <1>3 DEF RowShape, Statuses
<1>5. FreshRow(s, row)
  BY <1>3, <1>4 DEF FreshRow, old
<1> QED BY <1>3, <1>5 DEF old, NextAfter

LEMMA RequestKeeps ==
  ASSUME NEW s, Sound(s), NEW turn, turn \notin DOMAIN s.requests, NEW p, NEW t, t = AddRequest(s, turn, p)
  PROVE  Sound(t) /\ Extends(s, t) /\ turn \in DOMAIN t.requests /\ t.requests[turn] = p /\ t.art = s.art
<1>1. /\ DOMAIN t = StateFields /\ t.art = s.art /\ t.edges = s.edges /\ t.events = s.events /\ t.tx = s.tx
      /\ t.results = s.results
      /\ t.requests = [u \in DOMAIN s.requests \cup {turn} |-> IF u = turn THEN p ELSE s.requests[u]]
  BY DEF AddRequest, Sound, StateShape, StateFields
<1>2. Sound(t)
  BY <1>1, SameRecord
<1>3. DOMAIN s.requests \subseteq DOMAIN t.requests /\ \A u \in DOMAIN s.requests : t.requests[u] = s.requests[u]
  BY <1>1
<1>4. Extends(s, t)
  BY <1>1, <1>3, LengthOfLog DEF Extends, Kept, SameRow
<1> QED BY <1>1, <1>2, <1>4

LEMMA ResultKeeps ==
  ASSUME NEW s, Sound(s), NEW turn, NEW result, AddResult(s, turn, result).ok,
         NEW t, t = AddResult(s, turn, result).db
  PROVE  /\ Sound(t) /\ Extends(s, t) /\ turn \in DOMAIN t.results /\ t.results[turn] = result
         /\ ResultInsertable(s, turn, result) /\ t.art = s.art
<1>1. ResultInsertable(s, turn, result)
  BY DEF AddResult, Refused
<1>2. /\ DOMAIN t = StateFields /\ t.art = s.art /\ t.edges = s.edges /\ t.events = s.events /\ t.tx = s.tx
      /\ t.requests = s.requests
      /\ t.results = [u \in DOMAIN s.results \cup {turn} |-> IF u = turn THEN result ELSE s.results[u]]
  BY <1>1 DEF AddResult, Done, Sound, StateShape, StateFields
<1>3. turn \notin DOMAIN s.results
  BY <1>1 DEF ResultInsertable
<1>4. Sound(t)
  BY <1>2, SameRecord
<1>5. DOMAIN s.results \subseteq DOMAIN t.results /\ \A u \in DOMAIN s.results : t.results[u] = s.results[u]
  BY <1>2, <1>3
<1>6. Extends(s, t)
  <2>1. Len(s.events) \in Nat BY LengthOfLog
  <2>2. Kept(s, t)
    <3>1. t.art = s.art /\ t.events = s.events /\ t.requests = s.requests BY <1>2
    <3> QED BY ONLY <1>5, <2>1, <3>1 DEF Kept, SameRow
  <2> QED BY <1>2, <2>2 DEF Extends
<1> QED BY <1>1, <1>2, <1>4, <1>6

(* A response's transaction, operation by operation. *)
LEMMA ResponseSteps ==
  ASSUME NEW s, NEW turn, NEW p, WriteResponse(s, turn, p).ok
  PROVE  LET asked == AddRequest(s, turn, p)
             critique == ReviseArtifactRow(asked, CritiqueRevision(turn), CritiqueRevisionRow(asked, turn, p))
             target == IF p.disposition # "REVISE" THEN critique
                       ELSE ReviseArtifactRow(critique.db, TargetRevision(turn), TargetRevisionRow(s, turn, p))
             noted == Recorded(target.db, "CRITIQUE_RESPONDED", <<turn, 0>>)
         IN /\ critique.ok /\ target.ok /\ AddResult(noted, turn, ResponseResult(turn, p)).ok
            /\ WriteResponse(s, turn, p) = AddResult(noted, turn, ResponseResult(turn, p))
<1> DEFINE asked == AddRequest(s, turn, p)
           critique == ReviseArtifactRow(asked, CritiqueRevision(turn), CritiqueRevisionRow(asked, turn, p))
           second == ReviseArtifactRow(critique.db, TargetRevision(turn), TargetRevisionRow(s, turn, p))
           target == IF p.disposition # "REVISE" THEN critique ELSE IF critique.ok THEN second ELSE critique
           result == AddResult(Recorded(target.db, "CRITIQUE_RESPONDED", <<turn, 0>>), turn, ResponseResult(turn, p))
<1>1. WriteResponse(s, turn, p) = IF target.ok THEN result ELSE target
  BY DEF WriteResponse, Then, Done
<1> HIDE DEF asked, critique, second, result
<1>2. target.ok /\ WriteResponse(s, turn, p) = result /\ result.ok
  BY <1>1
<1>3. critique.ok /\ target = IF p.disposition # "REVISE" THEN critique ELSE second
  BY <1>2
<1> QED BY <1>2, <1>3 DEF asked, critique, second, result

LEMMA ResponseKeeps ==
  ASSUME NEW s, Sound(s), NEW turn, NEW visible, NEW p,
         (p.disposition = "REVISE" /\ p.target \in visible) =>
           (p.revision[1].refs # {} => Refers(p.revision[1].kind)),
         Respond(s, turn, visible, p).ok, NEW t, t = Respond(s, turn, visible, p).db
  PROVE  Sound(t) /\ Extends(s, t) /\ ResponseStands(t, turn, p)
<1>1. CASE turn \in DOMAIN s.requests \cup DOMAIN s.results
  <2>1. /\ turn \in DOMAIN s.requests /\ s.requests[turn] = p
        /\ turn \in DOMAIN s.results /\ s.results[turn] = ResponseResult(turn, p)
        /\ ResponseComplete(s, turn, s.results[turn]) /\ t = s
    BY <1>1 DEF Respond, Done, Refused
  <2> QED BY <2>1, ExtendsItself DEF ResponseStands
<1>2. CASE turn \notin DOMAIN s.requests \cup DOMAIN s.results
  <2> DEFINE asked == AddRequest(s, turn, p)
             critiqueRow == CritiqueRevisionRow(asked, turn, p)
             critique == ReviseArtifactRow(asked, CritiqueRevision(turn), critiqueRow)
             targetRow == TargetRevisionRow(s, turn, p)
             target == IF p.disposition # "REVISE" THEN critique
                       ELSE ReviseArtifactRow(critique.db, TargetRevision(turn), targetRow)
             noted == Recorded(target.db, "CRITIQUE_RESPONDED", <<turn, 0>>)
             result == ResponseResult(turn, p)
             draft == p.revision[1]
  <2>1. /\ ResponsePreflight(s, turn, visible, p) /\ Respond(s, turn, visible, p) = WriteResponse(s, turn, p)
        /\ p.disposition = "REVISE" =>
             draft.kind = s.art[p.target].kind /\ RevisionPreflight(s, turn, visible, draft)
    BY <1>2 DEF Respond, Refused
  <2>2. /\ critique.ok /\ target.ok /\ AddResult(noted, turn, result).ok
        /\ t = AddResult(noted, turn, result).db
    BY <2>1, ResponseSteps
  <2>3. /\ p.critique \in DOMAIN s.art /\ p.target \in DOMAIN s.art
        /\ Active(s, p.target) /\ s.art[p.critique].kind = "CRITIQUE"
        /\ s.art[p.critique].version = p.critiqueVersion
    BY <2>1 DEF ResponsePreflight, Exists
  <2> HIDE DEF asked
  <2>4. Sound(asked) /\ Extends(s, asked) /\ turn \in DOMAIN asked.requests /\ asked.requests[turn] = p /\ asked.art = s.art
    BY <1>2, RequestKeeps DEF asked
  <2>5. FreshRow(asked, critiqueRow) /\ critiqueRow.version = p.critiqueVersion + 1
    <3>1. FreshRef(asked, p.target)
      BY <2>3, <2>4, ActiveIsFresh, FreshStays
    <3>2. StateShape(asked) BY <2>4 DEF Sound
    <3> DEFINE refs == {p.target}
               resolution == ResolutionBy(p.disposition)
               parents == {[type |-> "ATTACKS", target |-> p.target]}
    <3>3. critiqueRow = NextVersion(asked, turn, p.critique, refs, resolution, parents)
      BY DEF CritiqueRevisionRow
    <3>4. refs # {} => Refers(asked.art[p.critique].kind) BY <2>3, <2>4, CritiquesRefer
    <3>5. \A ref \in refs : FreshRef(asked, ref) BY <3>1
    <3>6. p.critique \in DOMAIN asked.art /\ asked.art[p.critique].version = p.critiqueVersion BY <2>3, <2>4
    <3> HIDE DEF refs, resolution, parents, critiqueRow
    <3> DEFINE previous == p.critique
    <3>7. previous \in DOMAIN asked.art /\ (refs # {} => Refers(asked.art[previous].kind)) BY <3>4, <3>6
    <3>8. critiqueRow = NextVersion(asked, turn, previous, refs, resolution, parents) BY <3>3
    <3>9. asked.art[previous].version = p.critiqueVersion BY <3>6
    <3> HIDE DEF previous
    <3>10. FreshRow(asked, critiqueRow) /\ NextAfter(critiqueRow, asked.art[previous])
      BY <3>2, <3>5, <3>7, <3>8, NextVersionFits
    <3> QED BY <3>9, <3>10 DEF NextAfter
  <2> HIDE DEF critiqueRow, critique
  <2>6. /\ Sound(critique.db) /\ Extends(asked, critique.db)
        /\ CritiqueRevision(turn) \in DOMAIN critique.db.art /\ critique.db.art[CritiqueRevision(turn)] = critiqueRow
    BY <2>2, <2>4, <2>5, ReviseKeeps DEF critique
  <2>7. Extends(s, critique.db)
    BY <2>4, <2>6, ExtendsStays
  <2>8. Sound(target.db) /\ Extends(critique.db, target.db)
    <3>1. CASE p.disposition # "REVISE"
      BY <2>6, <3>1, ExtendsItself
    <3>2. CASE p.disposition = "REVISE"
      <4>1. DraftFresh(s, draft)
        <5>1. \A ref \in DraftReferences(draft) : Preflight(s, turn, visible, ref)
          BY <2>1, <3>2 DEF RevisionPreflight
        <5>2. draft.refs # {} => Refers(draft.kind)
          BY <2>1, <3>2 DEF ResponsePreflight
        <5> HIDE DEF draft
        <5> QED BY <5>1, <5>2, CheckedIsFresh
      <4>2. \A ref \in draft.refs : FreshRef(critique.db, ref)
        BY <2>6, <2>7, <4>1, FreshStays DEF DraftFresh
      <4>3. draft.refs # {} => Refers(s.art[p.target].kind)
        BY <2>1, <3>2, <4>1 DEF DraftFresh
      <4>4. FreshRow(critique.db, targetRow)
        <5>1. StateShape(s) BY DEF Sound
        <5> QED BY <2>3, <4>2, <4>3, <5>1, NextVersionFits DEF TargetRevisionRow
      <4> HIDE DEF targetRow
      <4>5. target = ReviseArtifactRow(critique.db, TargetRevision(turn), targetRow) /\ target.ok
        BY <2>2, <3>2
      <4> HIDE DEF target
      <4> QED BY <2>6, <4>4, <4>5, ReviseKeeps
    <3> QED BY <3>1, <3>2
  <2> HIDE DEF target
  <2>9. Sound(noted) /\ Extends(target.db, noted) /\ HasEvent(noted, "CRITIQUE_RESPONDED", <<turn, 0>>)
    <3> DEFINE type == "CRITIQUE_RESPONDED"
               about == <<turn, 0>>
    <3>1. type \notin {"ARTIFACT_COMMITTED", "ARTIFACT_REVISED", "ARTIFACT_WITHDRAWN"} OBVIOUS
    <3>2. noted = Recorded(target.db, type, about) OBVIOUS
    <3> HIDE DEF type, about, noted
    <3>3. Sound(noted) /\ Extends(target.db, noted) /\ HasEvent(noted, type, about)
      BY <2>8, <3>1, <3>2, RecordKeeps
    <3> QED BY <3>3 DEF type, about
  <2> HIDE DEF noted, result
  <2>10. /\ Sound(t) /\ Extends(noted, t) /\ turn \in DOMAIN t.results /\ t.results[turn] = result
         /\ ResultInsertable(noted, turn, result) /\ t.art = noted.art
    BY <2>2, <2>9, ResultKeeps
  <2>11. Extends(critique.db, t)
    BY <2>6, <2>8, <2>9, <2>10, ExtendsStays
  <2>12. Extends(s, t) /\ Extends(asked, t)
    BY <2>4, <2>6, <2>7, <2>10, <2>11, ExtendsStays
  <2>13. turn \in DOMAIN t.requests /\ t.requests[turn] = p
    BY <2>4, <2>12 DEF Extends, Kept
  <2>14. ResponseComplete(t, turn, result)
    <3>1. /\ result.critique = CritiqueRevision(turn) /\ result.critiqueVersion = p.critiqueVersion + 1
      BY DEF result, ResponseResult
    <3>2. HasEvent(t, "CRITIQUE_RESPONDED", <<turn, 0>>)
      BY <2>9, <2>10, EventsStay DEF Extends
    <3>3. result.target # None => Exists(t, result.target)
      BY <2>10 DEF ResultInsertable, Exists
    <3>4. /\ CritiqueRevision(turn) \in DOMAIN t.art
          /\ SameRow(critiqueRow, t.art[CritiqueRevision(turn)])
      BY <2>6, <2>11 DEF Extends, Kept
    <3>5. t.art[CritiqueRevision(turn)].version = critiqueRow.version
      BY <2>5, <3>4 DEF SameRow, FreshRow, RowShape, RowFields
    <3> QED BY <2>5, <3>1, <3>2, <3>3, <3>4, <3>5 DEF ResponseComplete, Exists
  <2> QED BY <2>10, <2>12, <2>13, <2>14 DEF ResponseStands, result
<1> QED BY <1>1, <1>2

(* What an agent may answer names only what its kind refers to. *)
Answerable(turn, outcome) ==
  ~IsTimeout(outcome) =>
    IF PhaseOf[turn] = "REVISE"
    THEN (outcome.response.disposition = "REVISE" /\ outcome.response.target \in context[turn][1]) =>
           (outcome.response.revision[1].refs # {} => Refers(outcome.response.revision[1].kind))
    ELSE /\ Len(outcome.bundle) \in Nat
         /\ \A i \in 1..Len(outcome.bundle) : outcome.bundle[i].refs # {} => Refers(outcome.bundle[i].kind)

LEMMA OutcomeKeeps ==
  ASSUME NEW s, Sound(s), NEW turn, NEW outcome, Answerable(turn, outcome),
         TurnOutcome(s, turn, outcome).ok, NEW t, t = TurnOutcome(s, turn, outcome).db
  PROVE  /\ Sound(t) /\ Extends(s, t)
         /\ ~IsTimeout(outcome) => CommandStands(t, CommandOf(turn, outcome))
<1>1. ASSUME NEW type, type \notin {"ARTIFACT_COMMITTED", "ARTIFACT_REVISED", "ARTIFACT_WITHDRAWN"}
      PROVE  Sound(Recorded(s, type, TurnEvent(turn))) /\ Extends(s, Recorded(s, type, TurnEvent(turn)))
  BY <1>1, RecordKeeps
<1>2. CASE IsTimeout(outcome)
  <2>1. t = Recorded(s, "TURN_TIMEOUT", TurnEvent(turn))
    BY <1>2 DEF TurnOutcome, ResponseOutcome, CritiqueOutcome, Done
  <2> QED BY <1>1, <1>2, <2>1
<1>3. CASE ~IsTimeout(outcome) /\ PhaseOf[turn] = "REVISE"
  <2> DEFINE p == outcome.response
             visible == context[turn][1]
             c == CommandOf(turn, outcome)
  <2>1. TurnOutcome(s, turn, outcome) = Respond(s, turn, visible, p)
    BY <1>3 DEF TurnOutcome, ResponseOutcome
  <2>2. (p.disposition = "REVISE" /\ p.target \in visible) => (p.revision[1].refs # {} => Refers(p.revision[1].kind))
    BY <1>3 DEF Answerable
  <2>3. "response" \in DOMAIN c /\ c.turn = turn /\ c.response = p
    BY <1>3 DEF CommandOf
  <2> HIDE DEF p, visible, c
  <2>4. Sound(t) /\ Extends(s, t) /\ ResponseStands(t, turn, p)
    BY <2>1, <2>2, ResponseKeeps
  <2>5. CommandStands(t, c)
    BY <2>3, <2>4 DEF CommandStands
  <2> QED BY <2>4, <2>5 DEF c
<1>4. CASE ~IsTimeout(outcome) /\ PhaseOf[turn] # "REVISE"
  <2> DEFINE bundle == outcome.bundle
             visible == context[turn][1]
             c == CommandOf(turn, outcome)
             u == RecordInactivity(s, turn, outcome)
  <2>1. TurnOutcome(s, turn, outcome) = CommitTurn(u, turn, visible, bundle)
    BY <1>4 DEF TurnOutcome, CritiqueOutcome
  <2>2. Len(bundle) \in Nat /\ \A i \in 1..Len(bundle) : bundle[i].refs # {} => Refers(bundle[i].kind)
    BY <1>4 DEF Answerable
  <2>3. "response" \notin DOMAIN c /\ c.turn = turn /\ c.visible = visible /\ c.bundle = bundle
    BY <1>4 DEF CommandOf
  <2>4. Sound(u) /\ Extends(s, u)
    <3>1. u = s \/ u = Recorded(s, "CRITIC_INACTIVE", TurnEvent(turn))
      BY DEF RecordInactivity
    <3> QED BY <1>1, <3>1, ExtendsItself
  <2> HIDE DEF bundle, visible, c, u
  <2>5. Sound(t) /\ Extends(u, t) /\ BundleStands(t, turn, visible, bundle)
    BY <2>1, <2>2, <2>4, TurnKeeps
  <2>6. Extends(s, t)
    BY <2>4, <2>5, ExtendsStays
  <2>7. CommandStands(t, c)
    BY <2>3, <2>5 DEF CommandStands
  <2> QED BY <2>5, <2>6, <2>7 DEF c
<1> QED BY <1>2, <1>3, <1>4

(* One outcome of a round, when those before it were applied. *)
ApplyNext(step, turn, outcome) == IF step.ok THEN TurnOutcome(step.db, turn, outcome) ELSE step

LEMMA RoundUnfolds ==
  ASSUME NEW state, NEW k, NEW outcome, NEW responses, NEW order, order = RoundOrder(k, responses),
         Len(order) \in Nat, RunRound(state, k, outcome, responses).ok
  PROVE  \E g : /\ g[0] = Done(state)
                /\ \A i \in 1..Len(order) : g[i] = ApplyNext(g[i - 1], order[i], outcome[order[i]])
                /\ g[Len(order)].ok /\ RunRound(state, k, outcome, responses) = g[Len(order)]
<1> DEFINE Steps(g, n) == [i \in 0..n |-> IF i = 0 THEN Done(state) ELSE ApplyNext(g[i - 1], order[i], outcome[order[i]])]
           defined == {n \in Nat : \E g : g = Steps(g, n)}
<1>1. 0 \in defined
  <2> DEFINE g == [d \in 0..0 |-> Done(state)]
  <2>1. g = Steps(g, 0)
    OBVIOUS
  <2> QED BY <2>1
<1>2. ASSUME NEW n \in Nat, n \in defined PROVE n + 1 \in defined
  <2>1. PICK g : g = Steps(g, n)
    BY <1>2
  <2> DEFINE last == ApplyNext(g[n], order[n + 1], outcome[order[n + 1]])
             h == [d \in 0..(n + 1) |-> IF d <= n THEN g[d] ELSE last]
  <2>2. \A d \in 0..(n + 1) : h[d] = IF d = 0 THEN Done(state) ELSE ApplyNext(h[d - 1], order[d], outcome[order[d]])
    <3> SUFFICES ASSUME NEW d \in 0..(n + 1)
                 PROVE  h[d] = IF d = 0 THEN Done(state) ELSE ApplyNext(h[d - 1], order[d], outcome[order[d]])
      OBVIOUS
    <3>1. CASE d = 0
      <4>1. g[0] = Done(state) BY <2>1
      <4> QED BY <3>1, <4>1
    <3>2. CASE d \in 1..n
      <4>1. g[d] = ApplyNext(g[d - 1], order[d], outcome[order[d]])
        <5>1. d \in 0..n /\ d # 0 BY <3>2
        <5> QED BY ONLY <2>1, <5>1
      <4>2. h[d] = g[d] /\ h[d - 1] = g[d - 1] /\ d # 0 BY <3>2
      <4> HIDE DEF h
      <4> QED BY <4>1, <4>2
    <3>3. CASE d = n + 1
      <4>1. h[d] = last /\ h[d - 1] = g[n] /\ d # 0 BY <3>3
      <4> HIDE DEF h
      <4> QED BY <3>3, <4>1
    <3> QED BY <3>1, <3>2, <3>3
  <2>3. h = Steps(h, n + 1)
    BY <2>2
  <2> HIDE DEF h
  <2> QED BY <2>3
<1>3. Len(order) \in defined
  <2> HIDE DEF defined
  <2> QED BY <1>1, <1>2, Climb
<1> DEFINE after == CHOOSE g : g = Steps(g, Len(order))
           final == after[Len(order)]
<1>4. RunRound(state, k, outcome, responses) =
        IF final.ok /\ DistinctResponses(k, outcome) /\ HandoffRead(final.db) THEN final ELSE Refused(state)
  BY DEF RunRound, Then, ApplyNext
<1>5. after = Steps(after, Len(order))
  BY <1>3
<1>6. /\ after[0] = Done(state)
      /\ \A i \in 1..Len(order) : after[i] = ApplyNext(after[i - 1], order[i], outcome[order[i]])
  <2> HIDE DEF after
  <2> QED BY <1>5
<1> HIDE DEF after
<1>7. final.ok /\ RunRound(state, k, outcome, responses) = final
  BY <1>4 DEF Refused
<1> QED BY <1>6, <1>7

(* A sequence without repetitions of all the elements of a finite set. *)
LEMMA ListsCover ==
  ASSUME NEW S, IsFiniteSet(S), NEW f \in [1..Cardinality(S) -> S],
         \A i, j \in 1..Cardinality(S) : i # j => f[i] # f[j]
  PROVE  f \in Seq(S) /\ Len(f) = Cardinality(S) /\ \A x \in S : \E i \in 1..Len(f) : f[i] = x
<1> DEFINE n == Cardinality(S)
<1>1. n \in Nat
  BY FS_CardinalityType
<1>2. IsFiniteSet(1..n) /\ Cardinality(1..n) = n
  BY <1>1, FS_Interval
<1>3. f \in Injection(1..n, S)
  BY DEF Injection, IsInjective
<1> HIDE DEF n
<1>4. f \in Surjection(1..n, S)
  BY <1>2, <1>3, FS_Injection DEF n
<1>5. f \in Seq(S) /\ Len(f) = n
  BY <1>1 DEF n
<1> QED BY <1>4, <1>5 DEF Surjection, n

LEMMA SetToSeqCovers ==
  ASSUME NEW S, IsFiniteSet(S)
  PROVE  SetToSeq(S) \in Seq(S) /\ \A x \in S : \E i \in 1..Len(SetToSeq(S)) : SetToSeq(S)[i] = x
<1> DEFINE n == Cardinality(S)
<1>1. PICK f \in Bijection(1..n, S) : TRUE
  BY FS_CardinalityType DEF ExistsBijection
<1>2. f \in [1..n -> S] /\ IsInjective(f)
  BY DEF Bijection, Injection
<1>3. SetToSeq(S) \in [1..n -> S] /\ IsInjective(SetToSeq(S))
  BY <1>2 DEF SetToSeq
<1> DEFINE g == SetToSeq(S)
<1>4. g \in [1..n -> S] /\ \A i, j \in 1..n : i # j => g[i] # g[j]
  BY <1>3 DEF IsInjective
<1> HIDE DEF g
<1>5. g \in Seq(S) /\ \A x \in S : \E i \in 1..Len(g) : g[i] = x
  BY <1>4, ListsCover
<1> QED BY <1>5 DEF g

ListsAll(f, S) == f \in Seq(S) /\ \A x \in S : \E i \in 1..Len(f) : f[i] = x

LEMMA ConcatCovers ==
  ASSUME NEW S, NEW f, ListsAll(f, S), NEW T, NEW g, ListsAll(g, T) PROVE ListsAll(f \o g, S \cup T)
<1>1. f \in Seq(S \cup T) /\ g \in Seq(S \cup T) /\ Len(f) \in Nat /\ Len(g) \in Nat
  BY DEF ListsAll
<1>2. /\ f \o g \in Seq(S \cup T) /\ Len(f \o g) = Len(f) + Len(g)
      /\ \A i \in 1..(Len(f) + Len(g)) : (f \o g)[i] = IF i <= Len(f) THEN f[i] ELSE g[i - Len(f)]
  BY <1>1, ConcatProperties
<1>3. ASSUME NEW i \in 1..Len(f) PROVE i \in 1..Len(f \o g) /\ (f \o g)[i] = f[i]
  BY <1>1, <1>2
<1>4. ASSUME NEW i \in 1..Len(g) PROVE Len(f) + i \in 1..Len(f \o g) /\ (f \o g)[Len(f) + i] = g[i]
  <2>1. Len(f) + i \in 1..(Len(f) + Len(g)) /\ ~(Len(f) + i <= Len(f)) /\ (Len(f) + i) - Len(f) = i
    BY <1>1
  <2> QED BY <1>2, <2>1
<1>5. \A x \in S : \E i \in 1..Len(f \o g) : (f \o g)[i] = x
  BY <1>3 DEF ListsAll
<1>6. \A x \in T : \E i \in 1..Len(f \o g) : (f \o g)[i] = x
  BY <1>4 DEF ListsAll
<1> QED BY <1>2, <1>5, <1>6 DEF ListsAll

LEMMA OrderCovers ==
  ASSUME NEW k, NEW responses \in SetToSeqs(RespondingTurns(k))
  PROVE  /\ RoundOrder(k, responses) \in Seq(TurnsOf(k))
         /\ \A t \in TurnsOf(k) : \E i \in 1..Len(RoundOrder(k, responses)) : RoundOrder(k, responses)[i] = t
<1> DEFINE C == CriticTurns(k)
           P == PeerTurns(k)
           R == RespondingTurns(k)
           c == SetToSeq(C)
           q == SetToSeq(P)
<1>1. IsFiniteSet(C) /\ IsFiniteSet(P) /\ IsFiniteSet(R)
  BY TurnsArePinned, FS_Subset DEF CriticTurns, PeerTurns, RespondingTurns
<1>2. /\ responses \in [1..Cardinality(R) -> R]
      /\ \A i, j \in 1..Cardinality(R) : i # j => responses[i] # responses[j]
  BY DEF SetToSeqs
<1> HIDE DEF C, P, R
<1>3. ListsAll(responses, R)
  BY <1>1, <1>2, ListsCover DEF ListsAll
<1>4. ListsAll(c, C) /\ ListsAll(q, P)
  BY <1>1, SetToSeqCovers DEF ListsAll
<1> HIDE DEF c, q
<1>5. ListsAll((c \o q) \o responses, (C \cup P) \cup R)
  BY <1>3, <1>4, ConcatCovers
<1>6. RoundOrder(k, responses) = (c \o q) \o responses /\ TurnsOf(k) = (C \cup P) \cup R
  BY DEF RoundOrder, TurnsOf, c, q, C, P, R
<1> QED BY <1>5, <1>6 DEF ListsAll

LEMMA RoundKeeps ==
  ASSUME NEW s, Sound(s), NEW k, NEW outcome, NEW responses \in SetToSeqs(RespondingTurns(k)),
         \A t \in TurnsOf(k) : Answerable(t, outcome[t]), RunRound(s, k, outcome, responses).ok,
         NEW t, t = RunRound(s, k, outcome, responses).db
  PROVE  /\ Sound(t) /\ Extends(s, t)
         /\ \A turn \in TurnsOf(k) : ~IsTimeout(outcome[turn]) => CommandStands(t, CommandOf(turn, outcome[turn]))
<1> DEFINE order == RoundOrder(k, responses)
           n == Len(order)
<1>1. order \in Seq(TurnsOf(k)) /\ \A turn \in TurnsOf(k) : \E i \in 1..Len(order) : order[i] = turn
  BY OrderCovers
<1>2. n \in Nat /\ \A i \in 1..n : order[i] \in TurnsOf(k)
  <2> HIDE DEF order
  <2> QED BY <1>1
<1>3. PICK g : /\ g[0] = Done(s)
               /\ \A i \in 1..n : g[i] = ApplyNext(g[i - 1], order[i], outcome[order[i]])
               /\ g[n].ok /\ RunRound(s, k, outcome, responses) = g[n]
  BY <1>2, RoundUnfolds
<1> HIDE DEF order, n
<1> DEFINE Stand(i) == \A j \in 1..i : ~IsTimeout(outcome[order[j]]) =>
                         CommandStands(g[i].db, CommandOf(order[j], outcome[order[j]]))
           kept == {i \in Nat : i <= n => (g[i].ok => Sound(g[i].db) /\ Extends(s, g[i].db) /\ Stand(i))}
<1>4. 0 \in kept
  <2>1. g[0].db = s BY <1>3 DEF Done
  <2> QED BY <2>1, ExtendsItself
<1>5. ASSUME NEW i \in Nat, i \in kept PROVE i + 1 \in kept
  <2> SUFFICES ASSUME i + 1 <= n, g[i + 1].ok
               PROVE  Sound(g[i + 1].db) /\ Extends(s, g[i + 1].db) /\ Stand(i + 1)
    OBVIOUS
  <2> DEFINE turn == order[i + 1]
             old == g[i].db
             new == g[i + 1].db
  <2>1. i + 1 \in 1..n /\ (i + 1) - 1 = i /\ i <= n
    BY <1>2
  <2>2. g[i + 1] = ApplyNext(g[i], turn, outcome[turn])
    BY <1>3, <2>1
  <2>3. g[i].ok /\ g[i + 1] = TurnOutcome(old, turn, outcome[turn])
    BY <2>2 DEF ApplyNext
  <2>4. Sound(old) /\ Extends(s, old) /\ Stand(i)
    BY <1>5, <2>1, <2>3
  <2>5. turn \in TurnsOf(k) /\ Answerable(turn, outcome[turn])
    BY <1>2, <2>1
  <2>6. /\ Sound(new) /\ Extends(old, new)
        /\ ~IsTimeout(outcome[turn]) => CommandStands(new, CommandOf(turn, outcome[turn]))
    BY <2>3, <2>4, <2>5, OutcomeKeeps
  <2>7. ASSUME NEW j \in 1..i, ~IsTimeout(outcome[order[j]])
        PROVE  CommandStands(new, CommandOf(order[j], outcome[order[j]]))
    <3>1. CommandStands(old, CommandOf(order[j], outcome[order[j]]))
      BY <2>4, <2>7
    <3> HIDE DEF old, new
    <3> QED BY <2>4, <2>6, <3>1, CommandStays DEF Extends
  <2>8. Stand(i + 1)
    <3>1. \A j \in 1..(i + 1) : j \in 1..i \/ j = i + 1 OBVIOUS
    <3> QED BY <2>6, <2>7, <3>1
  <2>9. Extends(s, new)
    BY <2>4, <2>6, ExtendsStays
  <2> QED BY <2>6, <2>8, <2>9
<1>6. n \in kept
  <2> HIDE DEF kept
  <2> QED BY <1>2, <1>4, <1>5, Climb
<1>7. Sound(t) /\ Extends(s, t) /\ Stand(n) /\ t = g[n].db
  BY <1>2, <1>3, <1>6
<1> QED BY <1>1, <1>7 DEF n

(* The record is sound, a turn's snapshot shows rows that exist, and every   *)
(* committed command still stands.                                           *)
DelibInv ==
  /\ Sound(db)
  /\ DOMAIN context = Turns /\ \A turn \in Turns : context[turn] # <<>> => context[turn][1] \subseteq DOMAIN db.art
  /\ \A c \in commands : CommandStands(db, c)

LEMMA DelibInitHolds == DelibInit => DelibInv
<1> SUFFICES ASSUME DelibInit PROVE DelibInv
  OBVIOUS
<1> DEFINE row == NewRow(Objective, [kind |-> "OBJECTIVE", refs |-> {}, resolution |-> "none"], "human", 0)
<1>1. /\ DOMAIN db = StateFields /\ db.art = [x \in {Objective} |-> row] /\ db.events = <<>> /\ db.tx = 1
      /\ commands = {} /\ context = [t \in Turns |-> <<>>]
  BY DEF DelibInit, StateFields
<1>2. RowShape(row) /\ row.version = 1 /\ row.status = "ACTIVE" /\ row.refs = {} /\ row.owner = "human"
  BY DEF NewRow, RowShape, RowFields, Statuses
<1> HIDE DEF row
<1>3. DOMAIN db.art = {Objective} /\ db.art[Objective] = row /\ Len(db.events) = 0
  BY <1>1
<1>4. StateShape(db)
  <2>1. IsFiniteSet(DOMAIN db.art) BY <1>3, FS_Singleton
  <2>2. IsLog(db.events)
    <3>1. <<>> \in Seq({}) OBVIOUS
    <3> QED BY <1>1, <3>1 DEF IsLog
  <2> QED BY <1>1, <1>2, <1>3, <2>1, <2>2 DEF StateShape
<1>5. Chains(db)
  BY <1>2, <1>3 DEF Chains, Succeeds
<1>6. LogSound(db) /\ FreshRows(db) /\ RowsRefer(db)
  BY <1>2, <1>3 DEF LogSound, FreshRows, RowsRefer
<1> QED BY <1>1, <1>4, <1>5, <1>6 DEF DelibInv, Sound

(* A committed transaction of sound operations. *)
LEMMA TransactionKeeps ==
  ASSUME DelibInv, NEW step, Sound(step.db), Kept(db, step.db), db' = Committed(step), UNCHANGED context,
         \A c \in commands' : c \in commands \/ CommandStands(step.db, c)
  PROVE  DelibInv'
<1> DEFINE s == step.db
<1>1. DOMAIN s = StateFields /\ s.tx \in Nat
  BY DEF Sound, StateShape
<1>2. /\ DOMAIN db' = StateFields /\ db'.art = s.art /\ db'.edges = s.edges /\ db'.events = s.events
      /\ db'.requests = s.requests /\ db'.results = s.results /\ db'.tx = s.tx + 1
  BY <1>1 DEF Committed, StateFields
<1>3. Sound(db')
  BY <1>2, SameRecord
<1>4. Kept(s, db')
  <2>1. Len(s.events) \in Nat BY LengthOfLog
  <2> HIDE DEF s
  <2> QED BY <1>2, <2>1 DEF Kept, SameRow
<1> HIDE DEF s
<1>5. Sound(s) /\ Kept(db, s) /\ Sound(db)
  BY DEF s, DelibInv
<1>6. Kept(db, db')
  BY <1>3, <1>4, <1>5, KeptStays
<1>7. \A c \in commands' : CommandStands(db', c)
  <2>1. \A c \in commands : CommandStands(db', c)
    BY <1>3, <1>5, <1>6, CommandStays DEF DelibInv
  <2>2. \A c : CommandStands(s, c) => CommandStands(db', c)
    BY <1>3, <1>4, <1>5, CommandStays
  <2> QED BY <2>1, <2>2 DEF s
<1>8. DOMAIN db.art \subseteq DOMAIN db'.art
  BY <1>6 DEF Kept
<1> QED BY <1>3, <1>7, <1>8 DEF DelibInv

LEMMA AssembleKeeps == ASSUME DelibInv, NEW turn \in Turns, Assemble(turn) PROVE DelibInv'
<1> DEFINE shown == IF RoundOf[turn] = 1 /\ PhaseOf[turn] = "ASSESS" THEN {}
                    ELSE {id \in DOMAIN db.art : Active(db, id) /\ db.art[id].round <= RoundOf[turn]
                                                  /\ db.art[id].kind # "OBJECTIVE"}
<1>1. context' = [context EXCEPT ![turn] = <<shown>>] /\ UNCHANGED <<db, commands>>
  BY DEF Assemble
<1>2. shown \subseteq DOMAIN db.art
  OBVIOUS
<1> HIDE DEF shown
<1>3. DOMAIN context' = Turns /\ \A t \in Turns : context'[t] # <<>> => context'[t][1] \subseteq DOMAIN db.art
  BY <1>1, <1>2 DEF DelibInv
<1> QED BY <1>1, <1>3 DEF DelibInv

LEMMA AssessmentKeeps == ASSUME DelibInv, NEW turn \in Turns, CommitAssessment(turn) PROVE DelibInv'
<1> DEFINE visible == context[turn][1]
<1>1. PICK draft \in AssessDrafts(visible) :
        LET step == CommitTurn(db, turn, visible, <<draft>>)
        IN /\ step.ok /\ db' = Committed(step)
           /\ commands' = commands \cup {[turn |-> turn, visible |-> visible, bundle |-> <<draft>>]}
  BY DEF CommitAssessment
<1> DEFINE bundle == <<draft>>
           step == CommitTurn(db, turn, visible, bundle)
           c == [turn |-> turn, visible |-> visible, bundle |-> bundle]
<1>2. draft.refs # {} => Refers(draft.kind)
  BY InferencesRefer DEF AssessDrafts, Draft
<1>3. Len(bundle) \in Nat /\ \A i \in 1..Len(bundle) : bundle[i].refs # {} => Refers(bundle[i].kind)
  BY <1>2
<1>4. "response" \notin DOMAIN c /\ c.turn = turn /\ c.visible = visible /\ c.bundle = bundle
  OBVIOUS
<1>5. step.ok /\ db' = Committed(step) /\ commands' = commands \cup {c} /\ UNCHANGED context
  BY <1>1 DEF CommitAssessment
<1> HIDE DEF visible, bundle, c
<1>6. Sound(step.db) /\ Extends(db, step.db) /\ BundleStands(step.db, turn, visible, bundle)
  BY <1>3, <1>5, TurnKeeps DEF DelibInv
<1> HIDE DEF step
<1>7. CommandStands(step.db, c)
  BY <1>4, <1>6 DEF CommandStands
<1> QED BY <1>5, <1>6, <1>7, TransactionKeeps DEF Extends

LEMMA OutcomesAreAnswerable ==
  ASSUME DelibInv, NEW turn \in Turns, context[turn] # <<>>, NEW outcome \in OutcomesOf(turn)
  PROVE  Answerable(turn, outcome)
<1>1. CASE outcome = TimedOut
  BY <1>1 DEF TimedOut, IsTimeout, Answerable
<1>2. CASE outcome # TimedOut /\ PhaseOf[turn] # "REVISE"
  <2>1. outcome = [bundle |-> <<>>] \/ \E v : outcome = [bundle |-> <<Attack(v)>>]
    BY <1>2 DEF OutcomesOf, CriticOutcomes
  <2>2. CASE outcome = [bundle |-> <<>>]
    BY <1>2, <2>2 DEF Answerable
  <2>3. ASSUME NEW v, outcome = [bundle |-> <<Attack(v)>>] PROVE Answerable(turn, outcome)
    <3> DEFINE draft == Attack(v)
               bundle == <<draft>>
    <3>1. draft.kind = "CRITIQUE" BY DEF Attack, Draft
    <3> HIDE DEF draft
    <3>2. Len(bundle) \in Nat /\ \A i \in 1..Len(bundle) : bundle[i].refs # {} => Refers(bundle[i].kind)
      BY <3>1, CritiquesRefer
    <3>3. outcome.bundle = bundle BY <2>3 DEF draft
    <3> HIDE DEF bundle
    <3> QED BY <1>2, <3>2, <3>3 DEF Answerable
  <2> QED BY <2>1, <2>2, <2>3
<1>3. CASE outcome # TimedOut /\ PhaseOf[turn] = "REVISE"
  <2> DEFINE p == outcome.response
             visible == context[turn][1]
  <2>1. SUFFICES ASSUME p.disposition = "REVISE", p.target \in visible
                 PROVE  p.revision[1].refs # {} => Refers(p.revision[1].kind)
    BY <1>3 DEF Answerable
  <2>2. p.target \in DOMAIN db.art
    BY <2>1 DEF DelibInv
  <2>3. \E d : /\ p.revision = <<d>>
               /\ IF db.art[p.target].kind = "CRITIQUE" THEN d.kind = "CRITIQUE"
                  ELSE d.kind = db.art[p.target].kind /\ d.refs = db.art[p.target].refs
    <3> DEFINE Target(c) == CHOOSE r \in db.art[c].refs : TRUE
               critiques == {v \in visible : db.art[v].kind = "CRITIQUE"}
               Response(c, disposition, warrants, revision) ==
                 [response |-> [critique |-> c, critiqueVersion |-> db.art[c].version,
                                target |-> Target(c), targetVersion |-> db.art[Target(c)].version,
                                disposition |-> disposition, warrants |-> warrants, revision |-> revision]]
               Replacements(target) ==
                 IF db.art[target].kind = "CRITIQUE"
                 THEN {Draft("CRITIQUE", {v}, r) : v \in visible \ {target}, r \in {"OPEN", "RESOLVED"}}
                 ELSE {Draft(db.art[target].kind, db.art[target].refs, "none")}
               Rejected(c, w) == Response(c, "REJECT_WITH_JUSTIFICATION", {w}, <<>>)
               Revised(c, d) == Response(c, "REVISE", {}, <<d>>)
               plain == {Response(c, d, {}, <<>>) :
                           c \in critiques, d \in Offered \ {"REVISE", "REJECT_WITH_JUSTIFICATION"}}
               rejected == {Rejected(c, w) : c \in critiques, w \in visible}
               revised == UNION {{Revised(c, d) : d \in Replacements(Target(c))} : c \in critiques}
    <3>1. outcome \in plain \/ outcome \in rejected \/ outcome \in revised
      <4>1. ResponseOutcomes(turn) = {TimedOut} \cup plain
              \cup (IF "REJECT_WITH_JUSTIFICATION" \in Offered THEN rejected ELSE {})
              \cup (IF "REVISE" \in Offered THEN revised ELSE {})
        BY DEF ResponseOutcomes
      <4> HIDE DEF plain, rejected, revised
      <4> QED BY <1>3, <4>1 DEF OutcomesOf
    <3>2. /\ \A c, d : Response(c, d, {}, <<>>).response.disposition = d
          /\ \A c, w : Rejected(c, w).response.disposition # "REVISE"
          /\ \A c, d : Revised(c, d).response.target = Target(c) /\ Revised(c, d).response.revision = <<d>>
      OBVIOUS
    <3>3. \A t : \A d \in Replacements(t) :
            IF db.art[t].kind = "CRITIQUE" THEN d.kind = "CRITIQUE"
            ELSE d.kind = db.art[t].kind /\ d.refs = db.art[t].refs
      BY DEF Draft
    <3> HIDE DEF Target, critiques, Response, Rejected, Revised, Replacements
    <3>4. outcome \notin plain /\ outcome \notin rejected
      BY <2>1, <3>2
    <3>5. PICK c, d : d \in Replacements(Target(c)) /\ outcome = Revised(c, d)
      BY <3>1, <3>4
    <3>6. p.target = Target(c) /\ p.revision = <<d>>
      BY <3>2, <3>5
    <3> QED BY <3>3, <3>5, <3>6
  <2>4. PICK d : /\ p.revision = <<d>>
                 /\ IF db.art[p.target].kind = "CRITIQUE" THEN d.kind = "CRITIQUE"
                    ELSE d.kind = db.art[p.target].kind /\ d.refs = db.art[p.target].refs
    BY <2>3
  <2>5. p.revision[1] = d
    BY <2>4
  <2> HIDE DEF p
  <2> QED BY <2>2, <2>4, <2>5, CritiquesRefer DEF DelibInv, Sound, RowsRefer
<1> QED BY <1>1, <1>2, <1>3

LEMMA CritiqueRoundKeeps == ASSUME DelibInv, NEW k \in Rounds, CritiqueRound(k) PROVE DelibInv'
<1>1. PICK outcome : /\ \A t \in TurnsOf(k) : outcome[t] \in OutcomesOf(t)
                     /\ \E responses \in SetToSeqs(RespondingTurns(k)) :
                          LET step == RunRound(db, k, outcome, responses)
                          IN /\ step.ok /\ db' = Committed(step)
                             /\ commands' = commands \cup {CommandOf(t, outcome[t]) :
                                  t \in {t \in TurnsOf(k) : ~IsTimeout(outcome[t])}}
  BY DEF CritiqueRound
<1>2. PICK responses \in SetToSeqs(RespondingTurns(k)) :
        /\ RunRound(db, k, outcome, responses).ok /\ db' = Committed(RunRound(db, k, outcome, responses))
        /\ commands' = commands \cup {CommandOf(t, outcome[t]) :
             t \in {t \in TurnsOf(k) : ~IsTimeout(outcome[t])}}
  BY <1>1
<1>3. (\A t \in TurnsOf(k) : context[t] # <<>>) /\ UNCHANGED context
  BY DEF CritiqueRound
<1>4. \A t \in TurnsOf(k) : Answerable(t, outcome[t])
  <2>1. TurnsOf(k) \subseteq Turns
    BY DEF TurnsOf, CriticTurns, PeerTurns, RespondingTurns
  <2> QED BY <1>1, <1>3, <2>1, OutcomesAreAnswerable
<1> DEFINE step == RunRound(db, k, outcome, responses)
<1>5. /\ Sound(step.db) /\ Extends(db, step.db)
      /\ \A turn \in TurnsOf(k) : ~IsTimeout(outcome[turn]) => CommandStands(step.db, CommandOf(turn, outcome[turn]))
  BY <1>2, <1>4, RoundKeeps DEF DelibInv
<1>6. db' = Committed(step) BY <1>2
<1> HIDE DEF step
<1>7. \A c \in commands' : c \in commands \/ CommandStands(step.db, c)
  BY <1>2, <1>5
<1> QED BY <1>3, <1>5, <1>6, <1>7, TransactionKeeps DEF Extends

LEMMA ApiKeeps ==
  ASSUME DelibInv, NEW step, ApiWrite(step), Sound(step.db), Extends(db, step.db) PROVE DelibInv'
<1>1. db' = Committed(step) /\ UNCHANGED <<context, commands>>
  BY DEF ApiWrite
<1> QED BY <1>1, TransactionKeeps DEF Extends

LEMMA CreateKeeps == ASSUME DelibInv, CreateArtifact PROVE DelibInv'
<1>1. PICK draft : /\ draft = Draft("ASSUMPTION", {}, "none") \/ \E id : draft = Attack(id)
                   /\ ApiWrite(CommitArtifactRow(db, ApiId, NewRow(ApiId, draft, "human", 0)))
  BY DEF CreateArtifact
<1> DEFINE row == NewRow(ApiId, draft, "human", 0)
           step == CommitArtifactRow(db, ApiId, row)
<1>2. draft.refs # {} => Refers(draft.kind)
  BY <1>1, CritiquesRefer DEF Draft, Attack
<1>3. RowShape(row) /\ row.refs = draft.refs /\ row.kind = draft.kind /\ row.owner = "human"
  BY DEF NewRow, RowShape, RowFields, Statuses
<1> HIDE DEF row
<1>4. FreshRow(db, row)
  BY <1>2, <1>3 DEF FreshRow
<1>5. step.ok /\ ApiWrite(step)
  BY <1>1 DEF ApiWrite, row
<1>6. Sound(step.db) /\ Extends(db, step.db)
  BY <1>4, <1>5, CommitKeeps DEF DelibInv
<1> QED BY <1>5, <1>6, ApiKeeps

LEMMA ReviseByHandKeeps == ASSUME DelibInv, NEW id \in DOMAIN db.art, ReviseArtifact(id) PROVE DelibInv'
<1> DEFINE old == db.art[id]
<1>1. PICK resolution : ApiWrite(ReviseArtifactRow(db, ApiId,
         [old EXCEPT !.version = @ + 1, !.status = "ACTIVE", !.supersedes = id,
                     !.owner = "human", !.round = 0, !.resolution = resolution]))
  BY DEF ReviseArtifact
<1>2. RowShape(old) /\ (old.refs # {} => Refers(old.kind))
  BY DEF DelibInv, Sound, StateShape, RowsRefer
<1> HIDE DEF old
<1> DEFINE row == [old EXCEPT !.version = @ + 1, !.status = "ACTIVE", !.supersedes = id,
                              !.owner = "human", !.round = 0, !.resolution = resolution]
           step == ReviseArtifactRow(db, ApiId, row)
<1>3. /\ DOMAIN row = RowFields /\ row.version = old.version + 1 /\ row.status = "ACTIVE"
      /\ row.refs = old.refs /\ row.kind = old.kind /\ row.owner = "human"
  BY <1>2 DEF RowShape, RowFields
<1>4. step.ok /\ ApiWrite(step)
  BY <1>1 DEF ApiWrite
<1> HIDE DEF row
<1>5. RowShape(row)
  BY <1>2, <1>3 DEF RowShape, Statuses
<1>6. FreshRow(db, row)
  BY <1>2, <1>3, <1>5 DEF FreshRow
<1>7. Sound(step.db) /\ Extends(db, step.db)
  BY <1>4, <1>6, ReviseKeeps DEF DelibInv
<1> QED BY <1>4, <1>7, ApiKeeps

LEMMA WithdrawByHandKeeps == ASSUME DelibInv, NEW id \in DOMAIN db.art, WithdrawArtifact(id) PROVE DelibInv'
<1> DEFINE step == WithdrawArtifactRow(db, id, {Objective})
<1>1. step.ok /\ ApiWrite(step)
  BY DEF WithdrawArtifact, ApiWrite
<1>2. Sound(step.db) /\ Extends(db, step.db)
  BY <1>1, WithdrawKeeps DEF DelibInv
<1> QED BY <1>1, <1>2, ApiKeeps

LEMMA DelibStep == ASSUME DelibInv, [DelibNext]_delibVars PROVE DelibInv'
<1>1. ASSUME NEW turn \in Turns, Assemble(turn) PROVE DelibInv'
  BY <1>1, AssembleKeeps
<1>2. ASSUME NEW turn \in Turns, CommitAssessment(turn) PROVE DelibInv'
  BY <1>2, AssessmentKeeps
<1>3. ASSUME NEW k \in Rounds, CritiqueRound(k) PROVE DelibInv'
  BY <1>3, CritiqueRoundKeeps
<1>4. CASE CreateArtifact
  BY <1>4, CreateKeeps
<1>5. ASSUME NEW id \in DOMAIN db.art, ReviseArtifact(id) PROVE DelibInv'
  BY <1>5, ReviseByHandKeeps
<1>6. ASSUME NEW id \in DOMAIN db.art, WithdrawArtifact(id) PROVE DelibInv'
  BY <1>6, WithdrawByHandKeeps
<1>7. CASE UNCHANGED delibVars
  BY <1>7 DEF delibVars, DelibInv
<1> QED BY <1>1, <1>2, <1>3, <1>4, <1>5, <1>6, <1>7 DEF DelibNext

LEMMA DelibInvariant == DelibSpec => []DelibInv
BY DelibInitHolds, DelibStep, PTL DEF DelibSpec

(* A committed command can be sent again at any later time and is answered   *)
(* without another effect, for any turns, rounds and writes of people        *)
(* (application/proposal_commit.py and critique_response.py,                 *)
(* _idempotent_result).                                                      *)
THEOREM CommandsStayAnswered == DelibSpec => []RetriesAccepted
<1>1. ASSUME DelibInv PROVE RetriesAccepted
  BY <1>1, StandingAnswers DEF DelibInv, RetriesAccepted
<1> QED BY <1>1, DelibInvariant, PTL

(* An agent's artifact never names one that an earlier transaction had       *)
(* superseded or withdrawn, for any turns, rounds and writes of people       *)
(* (application/proposal_commit.py and critique_response.py, _preflight).    *)
THEOREM ReferencesStayFresh == DelibSpec => []FreshReferences
<1>1. ASSUME DelibInv PROVE FreshReferences
  <2>1. FreshRows(db) BY <1>1 DEF DelibInv, Sound
  <2> SUFFICES ASSUME NEW id \in DOMAIN db.art, db.art[id].owner # "human", NEW ref \in db.art[id].refs,
                      NEW ended \in EndedBy(ref), NEW written \in WrittenBy(id)
               PROVE  written <= ended
    BY DEF FreshReferences
  <2>2. PICK i \in 1..Len(db.events) : Ends(db, i, ref) /\ ended = db.events[i].tx
    BY DEF EndedBy, Ends
  <2>3. PICK j \in 1..Len(db.events) : Writes(db, j, id) /\ written = db.events[j].tx
    BY DEF WrittenBy, Writes
  <2> QED BY <2>1, <2>2, <2>3 DEF FreshRows
<1> QED BY <1>1, DelibInvariant, PTL

(* A finite set of positive numbers with the predecessor of each of its      *)
(* numbers is an initial interval.                                           *)
LEMMA InitialInterval ==
  ASSUME NEW V, IsFiniteSet(V), V \subseteq Nat \ {0}, \A v \in V : v > 1 => v - 1 \in V
  PROVE  V = 1..Cardinality(V)
<1> DEFINE n == Cardinality(V)
<1>1. n \in Nat
  BY FS_CardinalityType
<1>2. ASSUME NEW v \in V PROVE 1..v \subseteq V
  <2> DEFINE below == {d \in Nat : d < v => v - d \in V}
  <2>1. v \in Nat /\ v > 0
    OBVIOUS
  <2>2. 0 \in below
    BY <2>1
  <2>3. ASSUME NEW d \in Nat, d \in below PROVE d + 1 \in below
    <3> SUFFICES ASSUME d + 1 < v PROVE v - (d + 1) \in V
      OBVIOUS
    <3>1. v - d \in V /\ v - d > 1 /\ (v - d) - 1 = v - (d + 1)
      BY <2>1, <2>3
    <3> QED BY <3>1
  <2>4. Nat \subseteq below
    <3> HIDE DEF below
    <3> QED BY <2>2, <2>3, Climb
  <2> SUFFICES ASSUME NEW i \in 1..v PROVE i \in V
    OBVIOUS
  <2>5. v - i \in Nat /\ v - i < v /\ v - (v - i) = i
    BY <2>1
  <2> QED BY <2>4, <2>5
<1>3. \A v \in V : v \in 1..n
  <2> SUFFICES ASSUME NEW v \in V PROVE v <= n
    BY <1>1
  <2>1. Cardinality(1..v) = v /\ 1..v \in SUBSET V
    BY <1>2, FS_Interval
  <2> QED BY <2>1, FS_Subset
<1>4. IsFiniteSet(1..n) /\ Cardinality(1..n) = n
  BY <1>1, FS_Interval
<1>5. V \in SUBSET (1..n)
  BY <1>3
<1> QED BY <1>4, <1>5, FS_Subset

Chain(s, name) == {x \in DOMAIN s.art : s.art[x].logical = name}
Versions(s, chain) == {s.art[x].version : x \in chain}

LEMMA ChainVersions ==
  ASSUME NEW s, Sound(s), NEW name
  PROVE  Versions(s, Chain(s, name)) = 1..Cardinality(Chain(s, name))
<1> DEFINE chain == Chain(s, name)
<1> USE DEF Chain
<1> DEFINE V == {s.art[x].version : x \in chain}
           number == [x \in chain |-> s.art[x].version]
<1>1. IsFiniteSet(chain)
  <2>1. chain \in SUBSET DOMAIN s.art OBVIOUS
  <2> QED BY <2>1, FS_Subset DEF Sound, StateShape
<1>2. number \in Bijection(chain, V)
  <2>1. number \in [chain -> V] OBVIOUS
  <2>2. \A x, y \in chain : number[x] = number[y] => x = y
    BY DEF Sound, Chains
  <2>3. \A v \in V : \E x \in chain : number[x] = v OBVIOUS
  <2> HIDE DEF number, V
  <2>4. DOMAIN number = chain BY <2>1
  <2> QED BY <2>1, <2>2, <2>3, <2>4 DEF Bijection, Injection, IsInjective, Surjection
<1>3. IsFiniteSet(V) /\ Cardinality(V) = Cardinality(chain)
  <2> HIDE DEF number, V
  <2> QED BY <1>1, <1>2, FS_Bijection DEF ExistsBijection
<1>4. V \subseteq Nat \ {0}
  BY DEF Sound, StateShape, RowShape
<1>5. ASSUME NEW v \in V, v > 1 PROVE v - 1 \in V
  <2>1. PICK x \in chain : v = s.art[x].version OBVIOUS
  <2>2. s.art[x].supersedes \in DOMAIN s.art /\ Succeeds(s, x, s.art[x].supersedes)
    BY <1>5, <2>1 DEF Sound, Chains
  <2> DEFINE y == s.art[x].supersedes
  <2>3. s.art[y].version \in Nat
    BY <2>2 DEF Sound, StateShape, RowShape
  <2>4. y \in chain /\ s.art[y].version = v - 1
    BY <2>1, <2>2, <2>3 DEF Succeeds
  <2> QED BY <2>4
<1> HIDE DEF V
<1>6. V = 1..Cardinality(chain)
  BY <1>3, <1>4, <1>5, InitialInterval
<1> QED BY <1>6 DEF V, Versions

(* Every chain has one version of each number, exactly those before its      *)
(* newest are superseded, and every revision has its event and its edge,     *)
(* for any turns, rounds and writes of people (application/artifact_commit.py *)
(* under the constraints of migration 0005).                                 *)
THEOREM ChainsStayLinear == DelibSpec => []ChainsAreLinear
<1>1. ASSUME DelibInv PROVE ChainsAreLinear
  <2> SUFFICES ASSUME NEW id \in DOMAIN db.art
               PROVE  LET chain == {other \in DOMAIN db.art : db.art[other].logical = db.art[id].logical}
                      IN /\ {db.art[other].version : other \in chain} = 1..Cardinality(chain)
                         /\ \A other \in chain :
                              (db.art[other].status = "SUPERSEDED") = (db.art[other].version < Cardinality(chain))
                         /\ db.art[id].version > 1 =>
                              /\ HasEvent(db, "ARTIFACT_REVISED", id)
                              /\ \E e \in db.edges :
                                   e.from = id /\ e.type = "SUPERSEDES" /\ e.to = db.art[id].supersedes
    BY DEF ChainsAreLinear
  <2> DEFINE chain == {other \in DOMAIN db.art : db.art[other].logical = db.art[id].logical}
             n == Cardinality(chain)
  <2>1. Sound(db) BY <1>1 DEF DelibInv
  <2>2. {db.art[other].version : other \in chain} = 1..n
    <3>1. Versions(db, Chain(db, db.art[id].logical)) = 1..Cardinality(Chain(db, db.art[id].logical))
      BY <2>1, ChainVersions
    <3> QED BY <3>1 DEF Versions, Chain
  <2>3. n \in Nat
    <3>1. chain \in SUBSET DOMAIN db.art OBVIOUS
    <3>2. IsFiniteSet(chain) BY <2>1, <3>1, FS_Subset DEF Sound, StateShape
    <3> QED BY <3>2, FS_CardinalityType
  <2>4. ASSUME NEW x \in chain
        PROVE  (db.art[x].status = "SUPERSEDED") <=> (db.art[x].version < n)
    <3> HIDE DEF n
    <3>1. db.art[x].version \in 1..n BY <2>2
    <3>2. (db.art[x].status = "SUPERSEDED") <=> (\E y \in DOMAIN db.art : Succeeds(db, y, x))
      BY <2>1 DEF Sound, Chains
    <3>3. ASSUME NEW y \in DOMAIN db.art, Succeeds(db, y, x) PROVE db.art[x].version < n
      <4>1. y \in chain /\ db.art[y].version = db.art[x].version + 1 BY <3>3 DEF Succeeds
      <4>2. db.art[y].version \in 1..n BY <2>2, <4>1
      <4> QED BY <2>3, <3>1, <4>1, <4>2
    <3>4. ASSUME db.art[x].version < n PROVE \E y \in DOMAIN db.art : Succeeds(db, y, x)
      <4>1. db.art[x].version + 1 \in 1..n BY <2>3, <3>1, <3>4
      <4>2. PICK y \in chain : db.art[y].version = db.art[x].version + 1 BY <2>2, <4>1
      <4> QED BY <4>2 DEF Succeeds
    <3> QED BY <3>2, <3>3, <3>4
  <2>5. db.art[id].version > 1 =>
          /\ HasEvent(db, "ARTIFACT_REVISED", id)
          /\ \E e \in db.edges : e.from = id /\ e.type = "SUPERSEDES" /\ e.to = db.art[id].supersedes
    BY <2>1 DEF Sound, Chains
  <2> HIDE DEF chain, n
  <2>6. \A other \in chain : (db.art[other].status = "SUPERSEDED") = (db.art[other].version < n)
    BY <2>4
  <2> QED BY <2>2, <2>5, <2>6 DEF chain, n
<1> QED BY <1>1, DelibInvariant, PTL
-----------------------------------------------------------------------------
(* The coverage of a report.                                                 *)
(*                                                                           *)
(* A walk's rows are the simple paths from its root.  On each such path the  *)
(* analysis has expanded a first node, and from each expanded node either    *)
(* the next one is expanded too or the rest of the path lies in one segment. *)

(* In order, every identity of a set has its place and nothing else has one. *)
LEMMA OrderLists ==
  ASSUME NEW ids \in SUBSET Nat, IsFiniteSet(ids)
  PROVE  ListsAll(InOrder(ids), ids) /\ Len(InOrder(ids)) = Cardinality(ids)
<1> DEFINE n == Cardinality(ids)
           place == [x \in ids |-> Place(ids, x) + 1]
<1>1. n \in Nat /\ IsFiniteSet(1..n) /\ Cardinality(1..n) = n
  BY FS_CardinalityType, FS_Interval
<1>2. \A x \in ids : /\ Place(ids, x) \in Nat /\ Place(ids, x) + 1 \in 1..n
                     /\ InOrder(ids)[Place(ids, x) + 1] = x
  BY PlaceFacts
<1>3. place \in Injection(ids, 1..n)
  BY <1>2 DEF Injection, IsInjective
<1>4. place \in Surjection(ids, 1..n)
  <2> HIDE DEF place
  <2> QED BY <1>1, <1>3, FS_Injection
<1>5. ASSUME NEW i \in 1..n PROVE InOrder(ids)[i] \in ids
  <2>1. PICK x \in ids : place[x] = i
    BY <1>4 DEF Surjection
  <2> QED BY <1>2, <2>1
<1>6. InOrder(ids) \in [1..n -> ids]
  <2>1. DOMAIN InOrder(ids) = 1..n /\ InOrder(ids) = [i \in 1..n |-> InOrder(ids)[i]]
    BY DEF InOrder
  <2> QED BY <1>5, <2>1
<1> DEFINE order == InOrder(ids)
<1> HIDE DEF order, n, place
<1>7. order \in Seq(ids) /\ Len(order) = n
  BY <1>1, <1>6 DEF order
<1>8. \A x \in ids : \E i \in 1..Len(order) : order[i] = x
  BY <1>2, <1>7 DEF order
<1> QED BY <1>7, <1>8 DEF ListsAll, order, n

(* Every page shows members of the result. *)
LEMMA PageShows ==
  ASSUME NEW reached, Listed(reached), NEW offset \in Nat
  PROVE  /\ Page(reached, offset).nodes \subseteq reached.nodes
         /\ Page(reached, offset).edges \subseteq reached.edges
         /\ Page(reached, offset).truncated = reached.truncated
         /\ LET next == Page(reached, offset).next
            IN next = -1 \/ (next \in Nat /\ next > offset /\ next < Len(Members(reached)))
<1> DEFINE N == Cardinality(reached.nodes)
           E == Cardinality(reached.edges)
           first == [i \in 1..N |-> <<"node", InOrder(reached.nodes)[i]>>]
           second == [i \in 1..E |-> <<"edge", InOrder(reached.edges)[i]>>]
           members == Members(reached)
           L == Len(members)
           last == IF offset + PageSize < L THEN offset + PageSize ELSE L
           shown == {members[i] : i \in (offset + 1)..last}
           page == Page(reached, offset)
           Tagged == ({"node"} \X reached.nodes) \cup ({"edge"} \X reached.edges)
<1>1. N \in Nat /\ E \in Nat /\ L \in Nat /\ PageSize \in Nat \ {0}
  BY FS_CardinalityType, MemberFacts, GraphBounds DEF Listed
<1>2. /\ \A i \in 1..N : InOrder(reached.nodes)[i] \in reached.nodes
      /\ \A i \in 1..E : InOrder(reached.edges)[i] \in reached.edges
  <2>1. /\ InOrder(reached.nodes) \in Seq(reached.nodes) /\ Len(InOrder(reached.nodes)) = N
        /\ InOrder(reached.edges) \in Seq(reached.edges) /\ Len(InOrder(reached.edges)) = E
    BY OrderLists DEF Listed, ListsAll
  <2> QED BY <2>1
<1>3. first \in [1..N -> Tagged] /\ second \in [1..E -> Tagged]
  <2> HIDE DEF N, E
  <2> QED BY <1>2
<1>4. members = first \o second
  BY DEF Members
<1>5. members \in Seq(Tagged)
  <2> HIDE DEF first, second, N, E, Tagged, members
  <2>1. first \in Seq(Tagged) /\ second \in Seq(Tagged)
    BY <1>1, <1>3, IsASeq
  <2> QED BY <1>4, <2>1, ConcatProperties
<1>6. /\ page.nodes = {m[2] : m \in {m \in shown : m[1] = "node"}}
      /\ page.edges = {m[2] : m \in {m \in shown : m[1] = "edge"}}
      /\ page.truncated = reached.truncated
      /\ page.next = IF last < L THEN last ELSE -1
  BY DEF Page, PageEnd
<1> HIDE DEF page, members, first, second
<1>7. \A i \in (offset + 1)..last : members[i] \in Tagged
  <2>1. \A i \in (offset + 1)..last : i \in 1..L
    <3> HIDE DEF L
    <3> QED BY <1>1
  <2> HIDE DEF last, Tagged
  <2> QED BY <1>5, <2>1
<1>8. shown \subseteq Tagged
  <2> HIDE DEF Tagged, last
  <2> QED BY <1>7
<1>9. page.nodes \subseteq reached.nodes /\ page.edges \subseteq reached.edges
  <2> HIDE DEF shown
  <2> QED BY <1>6, <1>8
<1>10. page.next = -1 \/ (page.next \in Nat /\ page.next > offset /\ page.next < L)
  <2> HIDE DEF L
  <2> QED BY <1>1, <1>6
<1> QED BY <1>6, <1>9, <1>10 DEF page, members

(* The loop over the pages, as it is defined. *)
LEMMA PagesUnfold ==
  ASSUME NEW reached, NEW n \in Nat, NEW pages, pages = (CHOOSE g : g = [k \in 0..n |->
           IF k = 0 THEN Page(reached, 0) ELSE WithNext(g[k - 1], reached)])
  PROVE  /\ pages[0] = Page(reached, 0)
         /\ \A k \in 0..n : k # 0 => pages[k] = WithNext(pages[k - 1], reached)
<1> DEFINE Loop(g, m) == [k \in 0..m |-> IF k = 0 THEN Page(reached, 0) ELSE WithNext(g[k - 1], reached)]
           defined == {m \in Nat : \E g : g = Loop(g, m)}
<1>1. 0 \in defined
  <2> DEFINE g == [k \in 0..0 |-> Page(reached, 0)]
  <2>1. g = Loop(g, 0)
    OBVIOUS
  <2> QED BY <2>1
<1>2. ASSUME NEW m \in Nat, m \in defined PROVE m + 1 \in defined
  <2>1. PICK g : g = Loop(g, m)
    BY <1>2
  <2> DEFINE h == [k \in 0..(m + 1) |-> IF k <= m THEN g[k] ELSE WithNext(g[m], reached)]
  <2>2. \A k \in 0..(m + 1) : h[k] = IF k = 0 THEN Page(reached, 0) ELSE WithNext(h[k - 1], reached)
    <3> SUFFICES ASSUME NEW k \in 0..(m + 1)
                 PROVE  h[k] = IF k = 0 THEN Page(reached, 0) ELSE WithNext(h[k - 1], reached)
      OBVIOUS
    <3>1. CASE k = 0
      <4>1. g[0] = Page(reached, 0) BY <2>1
      <4> QED BY <3>1, <4>1
    <3>2. CASE k \in 1..m
      <4>1. g[k] = WithNext(g[k - 1], reached) BY <2>1, <3>2
      <4>2. h[k] = g[k] /\ h[k - 1] = g[k - 1] /\ k # 0 BY <3>2
      <4> HIDE DEF h
      <4> QED BY <4>1, <4>2
    <3>3. CASE k = m + 1
      <4>1. h[k] = WithNext(g[m], reached) /\ h[k - 1] = g[m] /\ k # 0 BY <3>3
      <4> HIDE DEF h
      <4> QED BY <4>1
    <3> QED BY <3>1, <3>2, <3>3
  <2>3. h = Loop(h, m + 1)
    BY <2>2
  <2> HIDE DEF h
  <2> QED BY <2>3
<1>3. n \in defined
  <2> HIDE DEF defined
  <2> QED BY <1>1, <1>2, Climb
<1>4. pages = Loop(pages, n)
  <2>1. pages = CHOOSE g : g = Loop(g, n)
    OBVIOUS
  <2> QED BY <1>3, <2>1
<1>5. ASSUME NEW k \in 0..n PROVE pages[k] = IF k = 0 THEN Page(reached, 0) ELSE WithNext(pages[k - 1], reached)
  BY ONLY <1>4, k \in 0..n
<1>6. 0 \in 0..n
  OBVIOUS
<1> QED BY ONLY <1>5, <1>6

(* Nothing is lost between pages, and nothing added. *)
PagesHold(pages, reached, k) ==
  /\ pages.nodes \subseteq reached.nodes /\ pages.edges \subseteq reached.edges
  /\ pages.truncated = reached.truncated
  /\ pages.next = -1 \/ (pages.next \in Nat /\ pages.next > k /\ pages.next < Len(Members(reached)))
  /\ \A n \in reached.nodes : n \in pages.nodes \/ (pages.next # -1 /\ pages.next <= Place(reached.nodes, n))
  /\ \A e \in reached.edges : e \in pages.edges \/ (pages.next # -1 /\ pages.next <= EdgePlace(reached, e))

LEMMA FirstPageHolds == ASSUME NEW reached, Listed(reached) PROVE PagesHold(Page(reached, 0), reached, 0)
<1>1. /\ \A n \in reached.nodes : 0 <= Place(reached.nodes, n)
      /\ \A e \in reached.edges : 0 <= EdgePlace(reached, e)
  BY MemberFacts
<1> QED BY <1>1, PageShows, PageAdvances DEF PagesHold

LEMMA NextPageHolds ==
  ASSUME NEW reached, Listed(reached), NEW k \in Nat, NEW pages, PagesHold(pages, reached, k)
  PROVE  PagesHold(WithNext(pages, reached), reached, k + 1)
<1>1. CASE pages.next = -1
  BY <1>1 DEF WithNext, PagesHold
<1>2. CASE pages.next # -1
  <2> DEFINE page == Page(reached, pages.next)
             both == WithNext(pages, reached)
  <2>1. pages.next \in Nat /\ pages.next > k
    BY <1>2 DEF PagesHold
  <2>2. /\ page.nodes \subseteq reached.nodes /\ page.edges \subseteq reached.edges
        /\ page.truncated = reached.truncated
        /\ page.next = -1 \/ (page.next \in Nat /\ page.next > pages.next /\ page.next < Len(Members(reached)))
    BY <2>1, PageShows
  <2>3. /\ \A n \in reached.nodes : pages.next <= Place(reached.nodes, n) =>
             n \in page.nodes \/ (page.next # -1 /\ page.next <= Place(reached.nodes, n))
        /\ \A e \in reached.edges : pages.next <= EdgePlace(reached, e) =>
             e \in page.edges \/ (page.next # -1 /\ page.next <= EdgePlace(reached, e))
    BY <2>1, PageAdvances
  <2>4. /\ both.nodes = page.nodes \cup pages.nodes /\ both.edges = page.edges \cup pages.edges
        /\ both.truncated = page.truncated /\ both.next = page.next
    BY <1>2 DEF WithNext, Page
  <2> HIDE DEF page, both
  <2>5. both.next = -1 \/ (both.next \in Nat /\ both.next > k + 1 /\ both.next < Len(Members(reached)))
    BY <2>1, <2>2, <2>4
  <2>6. both.nodes \subseteq reached.nodes /\ both.edges \subseteq reached.edges /\ both.truncated = reached.truncated
    BY <2>2, <2>4 DEF PagesHold
  <2>7. /\ \A n \in reached.nodes : n \in both.nodes \/ (both.next # -1 /\ both.next <= Place(reached.nodes, n))
        /\ \A e \in reached.edges : e \in both.edges \/ (both.next # -1 /\ both.next <= EdgePlace(reached, e))
    BY <1>2, <2>3, <2>4 DEF PagesHold
  <2> QED BY <2>5, <2>6, <2>7 DEF PagesHold, both
<1> QED BY <1>1, <1>2

(* All pages together are the result. *)
LEMMA PagesAreAll ==
  ASSUME NEW reached, Listed(reached)
  PROVE  /\ AllPages(reached).nodes = reached.nodes /\ AllPages(reached).edges = reached.edges
         /\ AllPages(reached).truncated = reached.truncated
<1> DEFINE L == Len(Members(reached))
           pages == CHOOSE g : g = [k \in 0..L |-> IF k = 0 THEN Page(reached, 0) ELSE WithNext(g[k - 1], reached)]
           held == {k \in Nat : k <= L => PagesHold(pages[k], reached, k)}
<1>1. L \in Nat
  BY MemberFacts
<1>2. AllPages(reached) = pages[L]
  BY DEF AllPages
<1>3. /\ pages[0] = Page(reached, 0)
      /\ \A k \in 0..L : k # 0 => pages[k] = WithNext(pages[k - 1], reached)
  <2> HIDE DEF L
  <2>1. PICK g : g = pages
    OBVIOUS
  <2>2. /\ g[0] = Page(reached, 0)
        /\ \A k \in 0..L : k # 0 => g[k] = WithNext(g[k - 1], reached)
    BY <1>1, <2>1, PagesUnfold
  <2> QED BY <2>1, <2>2
<1> HIDE DEF pages, L
<1>4. 0 \in held
  BY <1>3, FirstPageHolds
<1>5. ASSUME NEW k \in Nat, k \in held PROVE k + 1 \in held
  <2> SUFFICES ASSUME k + 1 <= L PROVE PagesHold(pages[k + 1], reached, k + 1)
    OBVIOUS
  <2>1. PagesHold(pages[k], reached, k) /\ k + 1 \in 0..L /\ k + 1 # 0 /\ (k + 1) - 1 = k
    BY <1>1, <1>5
  <2>2. pages[k + 1] = WithNext(pages[k], reached)
    BY <1>3, <2>1
  <2> QED BY <2>1, <2>2, NextPageHolds
<1>6. PagesHold(pages[L], reached, L)
  <2>1. L \in held
    <3> HIDE DEF held
    <3> QED BY <1>1, <1>4, <1>5, Climb
  <2> QED BY <1>1, <2>1
<1>7. pages[L].next = -1
  BY <1>1, <1>6 DEF PagesHold, L
<1> QED BY <1>2, <1>6, <1>7 DEF PagesHold

(* A path that visits no node twice. *)
IsPath(edges, p, d) ==
  /\ \A i, j \in 0..d : p[i] = p[j] => i = j
  /\ \A i \in 1..d : \E e \in edges : e.from = p[i - 1] /\ e.to = p[i]

Visited(p, d) == {p[i] : i \in 0..d}

LEMMA HopTaken ==
  ASSUME NEW rows, NEW edges, NEW w \in rows, NEW e \in edges, e.from = w.node, e.to \notin w.path
  PROVE  [node |-> e.to, path |-> w.path \cup {e.to}, edge |-> e.id] \in HopRows("forward", rows, edges)
<1> DEFINE h == [node |-> e.to, edge |-> e.id]
<1>1. h \in Hop("forward", w.node, edges)
  BY DEF Hop
<1>2. h.node = e.to /\ h.edge = e.id
  OBVIOUS
<1> HIDE DEF h
<1> DEFINE taken(v) == {[node |-> g.node, path |-> v.path \cup {g.node}, edge |-> g.edge] :
                          g \in {g \in Hop("forward", v.node, edges) : g.node \notin v.path}}
<1>3. [node |-> h.node, path |-> w.path \cup {h.node}, edge |-> h.edge] \in taken(w)
  BY <1>1, <1>2
<1>4. taken(w) \subseteq HopRows("forward", rows, edges)
  BY Zenon DEF HopRows
<1> QED BY <1>2, <1>3, <1>4

LEMMA HopOrigin ==
  ASSUME NEW rows, NEW edges, NEW row \in HopRows("forward", rows, edges)
  PROVE  \E w \in rows, e \in edges : /\ e.from = w.node /\ e.to \notin w.path
                                      /\ row.node = e.to /\ row.path = w.path \cup {e.to} /\ row.edge = e.id
<1>1. PICK w \in rows : \E h \in Hop("forward", w.node, edges) :
        h.node \notin w.path /\ row = [node |-> h.node, path |-> w.path \cup {h.node}, edge |-> h.edge]
  BY DEF HopRows
<1>h. PICK h \in Hop("forward", w.node, edges) :
        h.node \notin w.path /\ row = [node |-> h.node, path |-> w.path \cup {h.node}, edge |-> h.edge]
  BY <1>1
<1>2. PICK e \in edges : e.from = w.node /\ h.node = e.to /\ h.edge = e.id
  BY DEF Hop
<1> QED BY <1>h, <1>2

(* Its nodes so far, when it goes on. *)
LEMMA VisitedGrows ==
  ASSUME NEW p, NEW d \in Nat
  PROVE  Visited(p, 0) = {p[0]} /\ Visited(p, d + 1) = Visited(p, d) \cup {p[d + 1]}
<1>1. 0..0 = {0} /\ 0..(d + 1) = (0..d) \cup {d + 1}
  OBVIOUS
<1> QED BY <1>1 DEF Visited

Walked(edges, depth, p, d) ==
  \E w \in Walk("forward", {p[0]}, edges, depth)[d] : w.node = p[d] /\ w.path = Visited(p, d)

WalkedBy(edges, depth, p, d, e) ==
  \E w \in Walk("forward", {p[0]}, edges, depth)[d] : w.node = p[d] /\ w.edge = e.id

(* Every path is walked, by its last edge or any other between those nodes. *)
LEMMA PathIsWalked ==
  ASSUME NEW edges, NEW depth \in Nat, NEW p, NEW D \in Nat, D <= depth, IsPath(edges, p, D)
  PROVE  \A d \in 0..D : Walked(edges, depth, p, d)
<1> DEFINE walk == Walk("forward", {p[0]}, edges, depth)
           walked == {d \in Nat : d <= D => \E w \in walk[d] : w.node = p[d] /\ w.path = Visited(p, d)}
<1>1. 0 \in walked
  <2>1. walk[0] = StartRows({p[0]}) BY WalkUnfolds
  <2>2. Visited(p, 0) = {p[0]} BY VisitedGrows
  <2> HIDE DEF walk
  <2>3. [node |-> p[0], path |-> {p[0]}, edge |-> 0] \in walk[0]
    BY <2>1 DEF StartRows
  <2> QED BY <2>2, <2>3
<1>2. ASSUME NEW d \in Nat, d \in walked PROVE d + 1 \in walked
  <2> SUFFICES ASSUME d + 1 <= D PROVE \E w \in walk[d + 1] : w.node = p[d + 1] /\ w.path = Visited(p, d + 1)
    OBVIOUS
  <2>1. /\ d <= D /\ d + 1 \in 0..depth /\ d + 1 # 0 /\ (d + 1) - 1 = d /\ d + 1 \in 1..D
    OBVIOUS
  <2>2. walk[d + 1] = HopRows("forward", walk[d], edges)
    BY <2>1, WalkUnfolds
  <2> HIDE DEF walk
  <2>3. PICK w \in walk[d] : w.node = p[d] /\ w.path = Visited(p, d)
    BY <1>2, <2>1
  <2>4. PICK e \in edges : e.from = p[d] /\ e.to = p[d + 1]
    BY <2>1 DEF IsPath
  <2>5. p[d + 1] \notin Visited(p, d)
    <3> SUFFICES ASSUME NEW i \in 0..d, p[i] = p[d + 1] PROVE FALSE
      BY DEF Visited
    <3>1. i \in 0..D /\ d + 1 \in 0..D /\ i # d + 1
      BY <2>1
    <3> QED BY <3>1 DEF IsPath
  <2>6. [node |-> e.to, path |-> w.path \cup {e.to}, edge |-> e.id] \in walk[d + 1]
    BY <2>2, <2>3, <2>4, <2>5, HopTaken
  <2> QED BY <2>3, <2>4, <2>6, VisitedGrows
<1> HIDE DEF walked
<1>3. Nat \subseteq walked
  BY <1>1, <1>2, Climb
<1>4. ASSUME NEW d \in 0..D PROVE \E w \in walk[d] : w.node = p[d] /\ w.path = Visited(p, d)
  <2>1. d \in walked /\ d <= D
    BY <1>3
  <2> HIDE DEF walk
  <2> QED BY <2>1 DEF walked
<1> QED BY <1>4 DEF Walked

LEMMA LastHopIsWalked ==
  ASSUME NEW edges, NEW depth \in Nat, NEW p, NEW D \in Nat \ {0}, D <= depth, IsPath(edges, p, D),
         NEW e \in edges, e.from = p[D - 1], e.to = p[D]
  PROVE  WalkedBy(edges, depth, p, D, e)
<1> DEFINE walk == Walk("forward", {p[0]}, edges, depth)
<1>1. D \in Nat /\ D - 1 \in 0..D /\ D \in 0..depth /\ D # 0 /\ D - 1 \in Nat /\ (D - 1) + 1 = D
  OBVIOUS
<1>2. PICK w \in walk[D - 1] : w.node = p[D - 1] /\ w.path = Visited(p, D - 1)
  <2>1. Walked(edges, depth, p, D - 1)
    BY <1>1, PathIsWalked
  <2> QED BY <2>1 DEF Walked
<1>3. walk[D] = HopRows("forward", walk[D - 1], edges)
  BY <1>1, WalkUnfolds
<1> HIDE DEF walk
<1>4. p[D] \notin Visited(p, D - 1)
  <2> SUFFICES ASSUME NEW i \in 0..(D - 1), p[i] = p[D] PROVE FALSE
    BY DEF Visited
  <2>1. i \in 0..D /\ D \in 0..D /\ i # D
    OBVIOUS
  <2> QED BY <2>1 DEF IsPath
<1>5. [node |-> e.to, path |-> w.path \cup {e.to}, edge |-> e.id] \in walk[D]
  BY <1>2, <1>3, <1>4, HopTaken
<1>6. \E row \in walk[D] : row.node = p[D] /\ row.edge = e.id
  BY <1>5
<1> QED BY <1>6 DEF walk, WalkedBy

(* And every row of a walk is the end of a path. *)
PathTo(edges, root, d, w, p) == p[0] = root /\ p[d] = w.node /\ w.path = Visited(p, d) /\ IsPath(edges, p, d)

LEMMA PathGoesOn ==
  ASSUME NEW edges, NEW root, NEW d \in Nat, NEW w, NEW p, PathTo(edges, root, d, w, p),
         NEW e \in edges, e.from = w.node, e.to \notin w.path,
         NEW row, row.node = e.to, row.path = w.path \cup {e.to}
  PROVE  \E q : PathTo(edges, root, d + 1, row, q)
<1> DEFINE q == [i \in 0..(d + 1) |-> IF i <= d THEN p[i] ELSE e.to]
<1>1. q[d + 1] = e.to /\ \A i \in 0..d : q[i] = p[i]
  OBVIOUS
<1>2. 0 \in 0..d /\ d \in 0..d
  OBVIOUS
<1> HIDE DEF q
<1>3. Visited(q, d) = Visited(p, d)
  BY <1>1 DEF Visited
<1>4. \A i \in 0..d : p[i] # e.to
  BY DEF PathTo, Visited
<1>5. ASSUME NEW i \in 0..(d + 1), NEW j \in 0..(d + 1), q[i] = q[j] PROVE i = j
  <2>1. CASE i \in 0..d /\ j \in 0..d
    BY <1>1, <1>5, <2>1 DEF PathTo, IsPath
  <2>2. CASE i = d + 1 /\ j \in 0..d
    BY <1>1, <1>4, <1>5, <2>2
  <2>3. CASE j = d + 1 /\ i \in 0..d
    BY <1>1, <1>4, <1>5, <2>3
  <2>4. (i \in 0..d \/ i = d + 1) /\ (j \in 0..d \/ j = d + 1)
    OBVIOUS
  <2> QED BY <2>1, <2>2, <2>3, <2>4
<1>6. ASSUME NEW i \in 1..(d + 1) PROVE \E f \in edges : f.from = q[i - 1] /\ f.to = q[i]
  <2>1. CASE i \in 1..d
    <3>1. i \in 0..d /\ i - 1 \in 0..d
      BY <2>1
    <3> QED BY <1>1, <2>1, <3>1 DEF PathTo, IsPath
  <2>2. CASE i = d + 1
    <3>1. i - 1 = d BY <2>2
    <3> QED BY <1>1, <1>2, <2>2, <3>1 DEF PathTo
  <2>3. i \in 1..d \/ i = d + 1
    OBVIOUS
  <2> QED BY <2>1, <2>2, <2>3
<1>7. IsPath(edges, q, d + 1)
  BY <1>5, <1>6 DEF IsPath
<1>8. Visited(q, d + 1) = row.path
  BY <1>1, <1>3, VisitedGrows DEF PathTo
<1>9. q[0] = root
  BY <1>1, <1>2 DEF PathTo
<1> QED BY <1>1, <1>7, <1>8, <1>9 DEF PathTo

LEMMA WalkIsPath ==
  ASSUME NEW edges, NEW depth \in Nat, NEW root
  PROVE  \A d \in 0..depth : \A w \in Walk("forward", {root}, edges, depth)[d] : \E p : PathTo(edges, root, d, w, p)
<1> DEFINE walk == Walk("forward", {root}, edges, depth)
           paths == {d \in Nat : d <= depth => \A w \in walk[d] : \E p : PathTo(edges, root, d, w, p)}
<1>1. 0 \in paths
  <2>1. walk[0] = StartRows({root}) BY WalkUnfolds
  <2> HIDE DEF walk
  <2> SUFFICES ASSUME NEW w \in walk[0] PROVE \E p : PathTo(edges, root, 0, w, p)
    OBVIOUS
  <2>2. w.node = root /\ w.path = {root}
    BY <2>1 DEF StartRows
  <2> DEFINE p == [i \in 0..0 |-> root]
  <2>3. p[0] = root
    OBVIOUS
  <2> HIDE DEF p
  <2>4. Visited(p, 0) = {root} BY <2>3, VisitedGrows
  <2>5. IsPath(edges, p, 0)
    BY DEF IsPath
  <2> QED BY <2>2, <2>3, <2>4, <2>5 DEF PathTo
<1>2. ASSUME NEW d \in Nat, d \in paths PROVE d + 1 \in paths
  <2> SUFFICES ASSUME d + 1 <= depth, NEW row \in walk[d + 1] PROVE \E p : PathTo(edges, root, d + 1, row, p)
    OBVIOUS
  <2>1. /\ d <= depth /\ d + 1 \in 0..depth /\ d + 1 # 0 /\ (d + 1) - 1 = d
    OBVIOUS
  <2>2. walk[d + 1] = HopRows("forward", walk[d], edges)
    BY <2>1, WalkUnfolds
  <2> HIDE DEF walk
  <2>3. PICK w \in walk[d], e \in edges : /\ e.from = w.node /\ e.to \notin w.path
                                          /\ row.node = e.to /\ row.path = w.path \cup {e.to}
    BY <2>2, HopOrigin
  <2>4. PICK p : PathTo(edges, root, d, w, p)
    BY <1>2, <2>1
  <2> QED BY <2>3, <2>4, PathGoesOn
<1> HIDE DEF paths
<1>3. Nat \subseteq paths
  BY <1>1, <1>2, Climb
<1> QED BY <1>3 DEF paths

(* A part of a path is a path. *)
Part(p, a, b) == [i \in 0..(b - a) |-> p[a + i]]

PartFollows(edges, p, a, b) ==
  /\ IsPath(edges, Part(p, a, b), b - a) /\ b - a \in Nat
  /\ \A i \in 0..(b - a) : Part(p, a, b)[i] = p[a + i]

LEMMA PartIsPath ==
  ASSUME NEW edges, NEW p, NEW D \in Nat, IsPath(edges, p, D), NEW a \in Nat, NEW b \in Nat, a <= b, b <= D
  PROVE  PartFollows(edges, p, a, b)
<1> DEFINE q == Part(p, a, b)
<1>1. b - a \in Nat /\ \A i \in 0..(b - a) : q[i] = p[a + i]
  BY DEF Part
<1> HIDE DEF q
<1>2. ASSUME NEW i \in 0..(b - a), NEW j \in 0..(b - a), q[i] = q[j] PROVE i = j
  <2>1. a + i \in 0..D /\ a + j \in 0..D
    OBVIOUS
  <2>2. a + i = a + j
    BY <1>1, <1>2, <2>1 DEF IsPath
  <2> QED BY <2>2
<1>3. ASSUME NEW i \in 1..(b - a) PROVE \E e \in edges : e.from = q[i - 1] /\ e.to = q[i]
  <2>1. a + i \in 1..D /\ i - 1 \in 0..(b - a) /\ i \in 0..(b - a) /\ a + (i - 1) = (a + i) - 1
    OBVIOUS
  <2>2. q[i - 1] = p[(a + i) - 1] /\ q[i] = p[a + i]
    BY <1>1, <2>1
  <2> QED BY <2>1, <2>2 DEF IsPath
<1> QED BY <1>1, <1>2, <1>3 DEF IsPath, PartFollows, q

LEMMA WalksAreListed ==
  ASSUME NEW some \in SUBSET Nodes, NEW direction, NEW depth \in Nat, NEW root \in Nodes
  PROVE  LET now == Reached(direction, {root}, EdgesAmong(some), depth) IN Listed(now) /\ now.nodes \subseteq Nodes
<1> DEFINE now == Reached(direction, {root}, EdgesAmong(some), depth)
<1>1. now.nodes \subseteq Nodes /\ now.edges \subseteq {e.id : e \in EdgesAmong(some)}
  <2>1. {root} \in SUBSET Nodes /\ \A e \in EdgesAmong(some) : e.from \in Nodes /\ e.to \in Nodes
    BY EdgeFacts
  <2> QED BY <2>1, ReachedStays
<1> HIDE DEF now
<1>2. now.nodes \in SUBSET Nat /\ IsFiniteSet(now.nodes)
  BY <1>1, NodesAreNumbers, FS_Subset
<1>3. now.edges \in SUBSET Nat /\ IsFiniteSet(now.edges)
  BY <1>1, EdgeFacts, FS_Subset
<1> QED BY <1>1, <1>2, <1>3 DEF Listed, now

(* A segment is the bounded walk from its node. *)
LEMMA SegmentIsWalk ==
  ASSUME NEW some \in SUBSET Nodes, NEW n \in Nodes, NEW edges, edges = EdgesAmong(some)
  PROVE  /\ Segment(n, edges).nodes = Reached("forward", {n}, edges, MaxDepth).nodes
         /\ Segment(n, edges).edges = Reached("forward", {n}, edges, MaxDepth).edges
         /\ Segment(n, edges).truncated = Reached("forward", {n}, edges, MaxDepth).truncated
         /\ Segment(n, edges).nodes \subseteq Nodes
<1>1. MaxDepth \in Nat
  BY GraphBounds
<1>2. Listed(Reached("forward", {n}, edges, MaxDepth)) /\ Reached("forward", {n}, edges, MaxDepth).nodes \subseteq Nodes
  BY <1>1, WalksAreListed
<1> QED BY <1>2, PagesAreAll DEF Segment

LEMMA EdgesAreNamed == ASSUME NEW some \in SUBSET Nodes, NEW e \in EdgesAmong(some) PROVE e.id # 0
<1>1. \E n, m \in Nodes : e.id = 100 * n + m
  BY ParentsAreNodes DEF EdgesAmong, EdgesOf
<1> QED BY <1>1, NodesAreNumbers

(* A segment has every path from its node that is short enough, and is       *)
(* truncated when there is a longer one.                                     *)
LEMMA SegmentReaches ==
  ASSUME NEW some \in SUBSET Nodes, NEW edges, edges = EdgesAmong(some), NEW p, p[0] \in Nodes,
         NEW d \in Nat \ {0}, IsPath(edges, p, d), NEW e \in edges, e.from = p[d - 1], e.to = p[d]
  PROVE  /\ d <= MaxDepth => p[d] \in Segment(p[0], edges).nodes /\ e.id \in Segment(p[0], edges).edges
         /\ d > MaxDepth => Segment(p[0], edges).truncated
<1> DEFINE walk == Walk("forward", {p[0]}, edges, MaxDepth + 1)
           within == UNION {walk[k] : k \in 0..MaxDepth}
<1>1. MaxDepth \in Nat /\ MaxDepth + 1 \in Nat /\ d \in Nat
  BY GraphBounds
<1>2. /\ Segment(p[0], edges).nodes = {w.node : w \in within}
      /\ Segment(p[0], edges).edges = {w.edge : w \in within} \ {0}
      /\ Segment(p[0], edges).truncated = (walk[MaxDepth + 1] # {})
  <2> DEFINE now == Reached("forward", {p[0]}, edges, MaxDepth)
  <2>1. /\ now.nodes = {w.node : w \in within} /\ now.edges = {w.edge : w \in within} \ {0}
        /\ now.truncated = (walk[MaxDepth + 1] # {})
    BY DEF Reached
  <2> HIDE DEF within, walk, now
  <2>2. /\ Segment(p[0], edges).nodes = now.nodes /\ Segment(p[0], edges).edges = now.edges
        /\ Segment(p[0], edges).truncated = now.truncated
    BY SegmentIsWalk DEF now
  <2> QED BY <2>1, <2>2
<1>3. ASSUME d <= MaxDepth PROVE p[d] \in Segment(p[0], edges).nodes /\ e.id \in Segment(p[0], edges).edges
  <2>0. d <= MaxDepth + 1
    BY <1>1, <1>3
  <2>1. PICK w \in walk[d] : w.node = p[d] /\ w.edge = e.id
    <3>1. WalkedBy(edges, MaxDepth + 1, p, d, e)
      BY <1>1, <2>0, LastHopIsWalked
    <3> QED BY <3>1 DEF WalkedBy
  <2>2. w \in within
    <3> HIDE DEF walk
    <3>1. d \in 0..MaxDepth BY <1>1, <1>3
    <3> QED BY <2>1, <3>1
  <2>3. e.id # 0
    BY EdgesAreNamed
  <2> HIDE DEF within
  <2> QED BY <1>2, <2>1, <2>2, <2>3
<1>4. ASSUME d > MaxDepth PROVE Segment(p[0], edges).truncated
  <2> DEFINE m == MaxDepth + 1
  <2>1. m \in Nat /\ m <= d /\ m \in 0..m /\ m <= m
    BY <1>1, <1>4
  <2>2. IsPath(edges, p, m)
    <3>1. \A i \in 0..m : i \in 0..d
      BY <2>1
    <3>2. \A i \in 1..m : i \in 1..d
      BY <2>1
    <3> HIDE DEF m
    <3> QED BY <3>1, <3>2 DEF IsPath
  <2>3. Walked(edges, m, p, m)
    <3> HIDE DEF m
    <3> QED BY <2>1, <2>2, PathIsWalked
  <2>4. walk[m] # {}
    BY <2>3 DEF Walked
  <2> HIDE DEF walk
  <2> QED BY <1>2, <2>4
<1> QED BY <1>3, <1>4

LEMMA SegmentHasItsNode ==
  ASSUME NEW some \in SUBSET Nodes, NEW n \in Nodes, NEW edges, edges = EdgesAmong(some)
  PROVE  n \in Segment(n, edges).nodes
<1> DEFINE walk == Walk("forward", {n}, edges, MaxDepth + 1)
<1>1. MaxDepth \in Nat /\ MaxDepth + 1 \in Nat /\ 0 \in 0..MaxDepth
  BY GraphBounds
<1>2. walk[0] = StartRows({n})
  BY <1>1, WalkUnfolds
<1>3. Segment(n, edges).nodes = {w.node : w \in UNION {walk[k] : k \in 0..MaxDepth}}
  <2>1. Reached("forward", {n}, edges, MaxDepth).nodes = {w.node : w \in UNION {walk[k] : k \in 0..MaxDepth}}
    BY DEF Reached
  <2> HIDE DEF walk
  <2> QED BY <2>1, SegmentIsWalk
<1> HIDE DEF walk
<1>4. [node |-> n, path |-> {n}, edge |-> 0] \in walk[0]
  BY <1>2 DEF StartRows
<1>5. [node |-> n, path |-> {n}, edge |-> 0] \in UNION {walk[k] : k \in 0..MaxDepth}
  BY <1>1, <1>4
<1>6. n = [node |-> n, path |-> {n}, edge |-> 0].node
  OBVIOUS
<1> QED BY <1>3, <1>5, <1>6

(* What the analysis of a root knows between two segments. *)
Queued(q, x) == \E i \in 1..Len(q) : q[i] = x

Followed(s, edges, x) ==
  /\ Segment(x, edges).nodes \subseteq s.nodes /\ Segment(x, edges).edges \subseteq s.edges
  /\ (Segment(x, edges).truncated /\ ~s.truncated) =>
       /\ Segment(x, edges).nodes # {x}
       /\ \A m \in Segment(x, edges).nodes : m \in s.expanded \/ Queued(s.queue, m)

Analysed(s, root, edges) ==
  /\ DOMAIN s = {"queue", "expanded", "nodes", "edges", "truncated"}
  /\ s.queue \in Seq(Nodes) /\ s.expanded \subseteq Nodes
  /\ root \in s.expanded \/ Queued(s.queue, root)
  /\ \A x \in s.expanded : Followed(s, edges, x)

(* How much of the analysis is left: the queue, and what the nodes still to  *)
(* be expanded may add to it.                                                *)
Effort(s) == Len(s.queue) + (Cardinality(Nodes) - Cardinality(s.expanded)) * Cardinality(Nodes)

LEMMA QueueAdvances ==
  ASSUME NEW q \in Seq(Nodes), q # <<>>
  PROVE  /\ Head(q) \in Nodes /\ Tail(q) \in Seq(Nodes) /\ Len(Tail(q)) = Len(q) - 1 /\ Len(q) \in Nat \ {0}
         /\ \A x : Queued(q, x) => x = Head(q) \/ Queued(Tail(q), x)
<1>1. /\ Head(q) \in Nodes /\ Tail(q) \in Seq(Nodes) /\ Len(Tail(q)) = Len(q) - 1 /\ Len(q) \in Nat
      /\ Head(q) = q[1] /\ \A i \in 1..Len(Tail(q)) : Tail(q)[i] = q[i + 1]
  BY HeadTailProperties
<1>2. Len(q) # 0
  BY EmptySeq
<1>3. ASSUME NEW x, NEW i \in 1..Len(q), q[i] = x PROVE x = Head(q) \/ Queued(Tail(q), x)
  <2>1. CASE i = 1
    BY <1>1, <1>3, <2>1
  <2>2. CASE i # 1
    <3>1. i - 1 \in 1..Len(Tail(q)) /\ (i - 1) + 1 = i
      BY <1>1, <2>2
    <3>2. Tail(q)[i - 1] = x
      BY <1>1, <1>3, <3>1
    <3> QED BY <3>1, <3>2 DEF Queued
  <2> QED BY <2>1, <2>2
<1> QED BY <1>1, <1>2, <1>3 DEF Queued

LEMMA QueueExtends ==
  ASSUME NEW q \in Seq(Nodes), NEW more \in SUBSET Nodes
  PROVE  /\ q \o InOrder(more) \in Seq(Nodes) /\ Len(q \o InOrder(more)) = Len(q) + Cardinality(more)
         /\ \A x : Queued(q, x) => Queued(q \o InOrder(more), x)
         /\ \A x \in more : Queued(q \o InOrder(more), x)
<1> DEFINE r == InOrder(more)
<1>1. more \in SUBSET Nat /\ IsFiniteSet(more)
  BY NodesAreNumbers, FS_Subset
<1>2. ListsAll(r, more) /\ Len(r) = Cardinality(more)
  BY <1>1, OrderLists
<1> HIDE DEF r
<1>3. r \in Seq(Nodes) /\ Len(r) \in Nat /\ Len(q) \in Nat
  BY <1>2 DEF ListsAll
<1>4. /\ q \o r \in Seq(Nodes) /\ Len(q \o r) = Len(q) + Len(r)
      /\ \A i \in 1..(Len(q) + Len(r)) : (q \o r)[i] = IF i <= Len(q) THEN q[i] ELSE r[i - Len(q)]
  BY <1>3, ConcatProperties
<1>5. ASSUME NEW i \in 1..Len(q) PROVE i \in 1..Len(q \o r) /\ (q \o r)[i] = q[i]
  BY <1>3, <1>4
<1>6. ASSUME NEW i \in 1..Len(r) PROVE Len(q) + i \in 1..Len(q \o r) /\ (q \o r)[Len(q) + i] = r[i]
  <2>1. Len(q) + i \in 1..(Len(q) + Len(r)) /\ ~(Len(q) + i <= Len(q)) /\ (Len(q) + i) - Len(q) = i
    BY <1>3
  <2> QED BY <1>4, <2>1
<1>7. \A x : Queued(q, x) => Queued(q \o r, x)
  BY <1>5 DEF Queued
<1>8. \A x \in more : Queued(q \o r, x)
  BY <1>2, <1>6 DEF Queued, ListsAll
<1> QED BY <1>2, <1>4, <1>7, <1>8 DEF r

LEMMA EffortFacts ==
  ASSUME NEW C \in Nat, NEW k \in Nat, k <= C
  PROVE  /\ (C - k) * C \in Nat
         /\ (C - (k + 1)) * C = (C - k) * C - C
<1>1. C - k \in Nat
  OBVIOUS
<1>2. (C - k) * C \in Nat
  BY <1>1
<1> QED BY <1>2

(* One step: the head is dropped, or expanded and its continuation queued. *)
LEMMA DropStep ==
  ASSUME NEW root, NEW edges, NEW s, Analysed(s, root, edges), s.queue # <<>>, Head(s.queue) \in s.expanded,
         NEW t, t = [s EXCEPT !.queue = Tail(@)]
  PROVE  Analysed(t, root, edges) /\ Effort(t) <= Effort(s) - 1
<1> DEFINE C == Cardinality(Nodes)
<1>1. /\ DOMAIN t = DOMAIN s /\ t.queue = Tail(s.queue) /\ t.expanded = s.expanded
      /\ t.nodes = s.nodes /\ t.edges = s.edges /\ t.truncated = s.truncated
  BY DEF Analysed
<1>2. /\ Tail(s.queue) \in Seq(Nodes) /\ Len(Tail(s.queue)) = Len(s.queue) - 1 /\ Len(s.queue) \in Nat \ {0}
      /\ \A x : Queued(s.queue, x) => x = Head(s.queue) \/ Queued(Tail(s.queue), x)
  BY QueueAdvances DEF Analysed
<1>3. \A x : x \in s.expanded \/ Queued(s.queue, x) => x \in t.expanded \/ Queued(t.queue, x)
  BY <1>1, <1>2
<1>4. \A x \in t.expanded : Followed(t, edges, x)
  BY <1>1, <1>3 DEF Analysed, Followed
<1>5. Analysed(t, root, edges)
  BY <1>1, <1>2, <1>3, <1>4 DEF Analysed
<1>6. /\ C \in Nat /\ Cardinality(s.expanded) \in Nat /\ Cardinality(s.expanded) <= C
  BY NodesAreNumbers, FS_Subset, FS_CardinalityType DEF Analysed
<1>7. (C - Cardinality(s.expanded)) * C \in Nat
  BY <1>6, EffortFacts
<1> HIDE DEF C
<1>8. Effort(t) <= Effort(s) - 1
  <2> DEFINE rest == (C - Cardinality(s.expanded)) * C
  <2>1. Effort(t) = Len(Tail(s.queue)) + rest /\ Effort(s) = Len(s.queue) + rest
    BY <1>1 DEF Effort, C
  <2> HIDE DEF rest
  <2> QED BY <1>2, <1>7, <2>1 DEF rest
<1> QED BY <1>5, <1>8

LEMMA ExpandStep ==
  ASSUME NEW root, NEW some \in SUBSET Nodes, NEW edges, edges = EdgesAmong(some),
         NEW s, Analysed(s, root, edges), s.queue # <<>>, Head(s.queue) \notin s.expanded,
         NEW t, t = Expanded(s, Head(s.queue), Segment(Head(s.queue), edges))
  PROVE  Analysed(t, root, edges) /\ Effort(t) <= Effort(s) - 1
<1> DEFINE C == Cardinality(Nodes)
           n == Head(s.queue)
           segment == Segment(n, edges)
           more == Continuation(segment, s.expanded \cup {n})
<1>1. /\ n \in Nodes /\ Tail(s.queue) \in Seq(Nodes) /\ Len(Tail(s.queue)) = Len(s.queue) - 1
      /\ Len(s.queue) \in Nat \ {0}
      /\ \A x : Queued(s.queue, x) => x = n \/ Queued(Tail(s.queue), x)
  BY QueueAdvances DEF Analysed
<1>2. segment.nodes \subseteq Nodes
  BY <1>1, SegmentIsWalk
<1>3. more = IF segment.truncated THEN segment.nodes \ (s.expanded \cup {n}) ELSE {}
  BY DEF Continuation
<1>4. /\ DOMAIN t = {"queue", "expanded", "nodes", "edges", "truncated"}
      /\ t.queue = Tail(s.queue) \o InOrder(more) /\ t.expanded = s.expanded \cup {n}
      /\ t.nodes = s.nodes \cup segment.nodes /\ t.edges = s.edges \cup segment.edges
      /\ t.truncated = (s.truncated \/ (segment.truncated /\ more = {}))
  BY DEF Expanded
<1> HIDE DEF segment, more
<1>5. more \in SUBSET Nodes
  BY <1>2, <1>3
<1>6. /\ t.queue \in Seq(Nodes) /\ Len(t.queue) = Len(Tail(s.queue)) + Cardinality(more)
      /\ \A x : Queued(Tail(s.queue), x) => Queued(t.queue, x)
      /\ \A x \in more : Queued(t.queue, x)
  <2>1. PICK q \in Seq(Nodes) : q = Tail(s.queue)
    BY <1>1
  <2>2. /\ q \o InOrder(more) \in Seq(Nodes) /\ Len(q \o InOrder(more)) = Len(q) + Cardinality(more)
        /\ \A x : Queued(q, x) => Queued(q \o InOrder(more), x)
        /\ \A x \in more : Queued(q \o InOrder(more), x)
    BY <1>5, QueueExtends
  <2> QED BY <1>4, <2>1, <2>2
<1>7. \A x : x \in s.expanded \/ Queued(s.queue, x) => x \in t.expanded \/ Queued(t.queue, x)
  BY <1>1, <1>4, <1>6
<1>8. \A x \in s.expanded : Followed(t, edges, x)
  BY <1>4, <1>7 DEF Analysed, Followed
<1>9. Followed(t, edges, n)
  <2>1. segment.nodes \subseteq t.nodes /\ segment.edges \subseteq t.edges
    BY <1>4
  <2>2. ASSUME segment.truncated, ~t.truncated
        PROVE  segment.nodes # {n} /\ \A m \in segment.nodes : m \in t.expanded \/ Queued(t.queue, m)
    <3>1. more # {}
      BY <1>4, <2>2
    <3>2. more = segment.nodes \ (s.expanded \cup {n})
      BY <1>3, <2>2
    <3> QED BY <1>4, <1>6, <3>1, <3>2
  <2> QED BY <2>1, <2>2 DEF Followed, segment
<1>10. Analysed(t, root, edges)
  <2>1. \A x \in t.expanded : Followed(t, edges, x)
    BY <1>4, <1>8, <1>9
  <2>2. root \in t.expanded \/ Queued(t.queue, root)
    BY <1>7 DEF Analysed
  <2>3. t.expanded \subseteq Nodes
    BY <1>1, <1>4 DEF Analysed
  <2> QED BY <1>4, <1>6, <2>1, <2>2, <2>3 DEF Analysed
<1>11. Effort(t) <= Effort(s) - 1
  <2>1. /\ C \in Nat /\ Cardinality(s.expanded) \in Nat /\ Cardinality(s.expanded) <= C /\ IsFiniteSet(s.expanded)
        /\ Cardinality(more) \in Nat /\ Cardinality(more) <= C
    BY <1>5, NodesAreNumbers, FS_Subset, FS_CardinalityType DEF Analysed
  <2>2. Cardinality(t.expanded) = Cardinality(s.expanded) + 1
    <3>1. n \notin s.expanded
      OBVIOUS
    <3> HIDE DEF n
    <3>2. Cardinality(s.expanded \cup {n}) = Cardinality(s.expanded) + 1
      BY <2>1, <3>1, FS_AddElement
    <3> QED BY <1>4, <3>2
  <2> DEFINE k == Cardinality(s.expanded)
             rest == (C - k) * C
  <2> HIDE DEF C
  <2>3. rest \in Nat /\ (C - (k + 1)) * C = rest - C
    BY <2>1, EffortFacts
  <2>4. Effort(t) = Len(t.queue) + (C - (k + 1)) * C /\ Effort(s) = Len(s.queue) + rest
    BY <2>2 DEF Effort, C
  <2>5. Effort(t) = ((Len(s.queue) - 1) + Cardinality(more)) + (rest - C)
    BY <1>1, <1>6, <2>3, <2>4
  <2> HIDE DEF rest, k, n
  <2> QED BY <1>1, <2>1, <2>3, <2>4, <2>5
<1> QED BY <1>10, <1>11

(* The loop as it is defined. *)
Unfolded(run, first, edges, n) ==
  /\ run[0] = first
  /\ \A k \in 0..n : k # 0 => run[k] = ClosureStep(run[k - 1], edges)

LEMMA ClosureUnfolds ==
  ASSUME NEW first, NEW edges, NEW n \in Nat, NEW run,
         run = (CHOOSE g : g = [k \in 0..n |-> IF k = 0 THEN first ELSE ClosureStep(g[k - 1], edges)])
  PROVE  Unfolded(run, first, edges, n)
<1> DEFINE Loop(g, m) == [k \in 0..m |-> IF k = 0 THEN first ELSE ClosureStep(g[k - 1], edges)]
           defined == {m \in Nat : \E g : g = Loop(g, m)}
<1>1. 0 \in defined
  <2> DEFINE g == [k \in 0..0 |-> first]
  <2>1. g = Loop(g, 0)
    OBVIOUS
  <2> QED BY <2>1
<1>2. ASSUME NEW m \in Nat, m \in defined PROVE m + 1 \in defined
  <2>1. PICK g : g = Loop(g, m)
    BY <1>2
  <2> DEFINE h == [k \in 0..(m + 1) |-> IF k <= m THEN g[k] ELSE ClosureStep(g[m], edges)]
  <2>2. \A k \in 0..(m + 1) : h[k] = IF k = 0 THEN first ELSE ClosureStep(h[k - 1], edges)
    <3> SUFFICES ASSUME NEW k \in 0..(m + 1)
                 PROVE  h[k] = IF k = 0 THEN first ELSE ClosureStep(h[k - 1], edges)
      OBVIOUS
    <3>1. CASE k = 0
      <4>1. g[0] = first BY <2>1
      <4> QED BY <3>1, <4>1
    <3>2. CASE k \in 1..m
      <4>1. g[k] = ClosureStep(g[k - 1], edges) BY <2>1, <3>2
      <4>2. h[k] = g[k] /\ h[k - 1] = g[k - 1] /\ k # 0 BY <3>2
      <4> HIDE DEF h
      <4> QED BY <4>1, <4>2
    <3>3. CASE k = m + 1
      <4>1. h[k] = ClosureStep(g[m], edges) /\ h[k - 1] = g[m] /\ k # 0 BY <3>3
      <4> HIDE DEF h
      <4> QED BY <4>1
    <3> QED BY <3>1, <3>2, <3>3
  <2>3. h = Loop(h, m + 1)
    BY <2>2
  <2> HIDE DEF h
  <2> QED BY <2>3
<1>3. n \in defined
  <2> HIDE DEF defined
  <2> QED BY <1>1, <1>2, Climb
<1>4. run = Loop(run, n)
  <2>1. run = CHOOSE g : g = Loop(g, n)
    OBVIOUS
  <2> QED BY <1>3, <2>1
<1>5. ASSUME NEW k \in 0..n PROVE run[k] = IF k = 0 THEN first ELSE ClosureStep(run[k - 1], edges)
  BY ONLY <1>4, k \in 0..n
<1>6. 0 \in 0..n
  OBVIOUS
<1> QED BY ONLY <1>5, <1>6 DEF Unfolded

(* The queue runs empty within the bound. *)
LEMMA ClosureEnds ==
  ASSUME NEW root \in Nodes, NEW some \in SUBSET Nodes, NEW edges, edges = EdgesAmong(some)
  PROVE  Analysed(Closure(root, edges), root, edges) /\ Closure(root, edges).queue = <<>>
<1> DEFINE C == Cardinality(Nodes)
           bound == C * C + 1
           first == [queue |-> <<root>>, expanded |-> {}, nodes |-> {}, edges |-> {}, truncated |-> FALSE]
           run == CHOOSE g : g = [k \in 0..bound |-> IF k = 0 THEN first ELSE ClosureStep(g[k - 1], edges)]
           Within(k) == Analysed(run[k], root, edges) /\ (run[k].queue = <<>> \/ Effort(run[k]) <= bound - k)
           kept == {k \in Nat : k <= bound => Within(k)}
<1>1. C \in Nat /\ bound \in Nat
  <2>1. C \in Nat BY NodesAreNumbers, FS_CardinalityType
  <2> HIDE DEF C
  <2> QED BY <2>1
<1>2. Closure(root, edges) = run[bound]
  BY DEF Closure
<1>3. /\ run[0] = first
      /\ \A k \in 0..bound : k # 0 => run[k] = ClosureStep(run[k - 1], edges)
  <2> HIDE DEF bound, first
  <2>1. PICK g : g = run
    OBVIOUS
  <2>2. Unfolded(g, first, edges, bound)
    BY ONLY <1>1, <2>1, ClosureUnfolds
  <2> QED BY <2>1, <2>2 DEF Unfolded
<1> HIDE DEF run
<1>4. 0 \in kept
  <2>1. /\ DOMAIN run[0] = {"queue", "expanded", "nodes", "edges", "truncated"}
        /\ run[0].queue = <<root>> /\ run[0].expanded = {}
    BY <1>3
  <2>2. <<root>> \in Seq(Nodes) /\ Len(<<root>>) = 1 /\ <<root>>[1] = root
    OBVIOUS
  <2>3. Analysed(run[0], root, edges)
    BY <2>1, <2>2 DEF Analysed, Queued
  <2>4. Effort(run[0]) = bound
    <3>1. Cardinality(run[0].expanded) = 0
      BY <2>1, FS_EmptySet
    <3>2. Effort(run[0]) = 1 + (C - 0) * C
      BY <2>1, <2>2, <3>1 DEF Effort
    <3> HIDE DEF C
    <3> QED BY <1>1, <3>2
  <2> HIDE DEF bound
  <2> QED BY <1>1, <2>3, <2>4
<1> HIDE DEF bound
<1>5. ASSUME NEW k \in Nat, k \in kept PROVE k + 1 \in kept
  <2> SUFFICES ASSUME k + 1 <= bound PROVE Within(k + 1)
    OBVIOUS
  <2>1. k + 1 \in 0..bound /\ k + 1 # 0 /\ (k + 1) - 1 = k /\ k <= bound
    BY <1>1
  <2>2. PICK s : s = run[k] /\ Analysed(s, root, edges) /\ (s.queue = <<>> \/ Effort(s) <= bound - k)
    BY <1>5, <2>1
  <2>3. PICK t : t = run[k + 1] /\ t = ClosureStep(s, edges)
    BY <1>3, <2>1, <2>2
  <2>4. CASE s.queue = <<>>
    BY <2>2, <2>3, <2>4 DEF ClosureStep
  <2>5. CASE s.queue # <<>>
    <3>1. Analysed(t, root, edges) /\ Effort(t) <= Effort(s) - 1
      <4>1. CASE Head(s.queue) \in s.expanded
        <5>1. t = [s EXCEPT !.queue = Tail(@)]
          BY <2>3, <2>5, <4>1 DEF ClosureStep
        <5> QED BY <2>2, <2>5, <4>1, <5>1, DropStep
      <4>2. CASE Head(s.queue) \notin s.expanded
        <5>1. t = Expanded(s, Head(s.queue), Segment(Head(s.queue), edges))
          BY <2>3, <2>5, <4>2 DEF ClosureStep
        <5> QED BY <2>2, <2>5, <4>2, <5>1, ExpandStep
      <4> QED BY <4>1, <4>2
    <3>2. Effort(s) <= bound - k
      BY <2>2, <2>5
    <3>3. Effort(s) \in Int /\ Effort(t) \in Int
      <4>1. ASSUME NEW u, Analysed(u, root, edges) PROVE Effort(u) \in Int
        <5>1. Len(u.queue) \in Nat /\ Cardinality(u.expanded) \in Nat
          BY <4>1, NodesAreNumbers, FS_Subset, FS_CardinalityType DEF Analysed
        <5>2. (C - Cardinality(u.expanded)) * C \in Int
          <6> HIDE DEF C
          <6> QED BY <1>1, <5>1
        <5> QED BY <5>1, <5>2 DEF Effort
      <4> QED BY <2>2, <3>1, <4>1
    <3>4. Effort(t) <= bound - (k + 1)
      BY <1>1, <3>1, <3>2, <3>3
    <3> QED BY <2>3, <3>1, <3>4
  <2> QED BY <2>4, <2>5
<1>6. Within(bound)
  <2>1. bound \in kept
    <3> HIDE DEF kept
    <3> QED BY <1>1, <1>4, <1>5, Climb
  <2> HIDE DEF Within
  <2> QED BY <1>1, <2>1
<1>7. run[bound].queue = <<>>
  <2>1. PICK s : s = run[bound] /\ Analysed(s, root, edges) /\ (s.queue = <<>> \/ Effort(s) <= bound - bound)
    BY <1>6
  <2>2. /\ C \in Nat /\ Cardinality(s.expanded) \in Nat /\ Cardinality(s.expanded) <= C
        /\ s.queue \in Seq(Nodes) /\ Len(s.queue) \in Nat
    BY <2>1, NodesAreNumbers, FS_Subset, FS_CardinalityType DEF Analysed
  <2>3. (C - Cardinality(s.expanded)) * C \in Nat
    BY <2>2, EffortFacts
  <2>4. Effort(s) = Len(s.queue) + (C - Cardinality(s.expanded)) * C
    BY DEF Effort
  <2>5. Effort(s) <= bound - bound => Len(s.queue) = 0
    <3> HIDE DEF C
    <3> QED BY <1>1, <2>2, <2>3, <2>4
  <2>6. Len(s.queue) = 0 => s.queue = <<>>
    BY <2>2, EmptySeq
  <2> QED BY <2>1, <2>5, <2>6
<1> QED BY <1>2, <1>6, <1>7

LEMMA ShortSegment ==
  ASSUME NEW some \in SUBSET Nodes, NEW n \in Nodes, NEW edges, edges = EdgesAmong(some), MaxDepth = 0
  PROVE  Segment(n, edges).nodes = {n}
<1> DEFINE walk == Walk("forward", {n}, edges, MaxDepth + 1)
<1>1. MaxDepth + 1 \in Nat /\ 0..MaxDepth = {0}
  BY GraphBounds
<1>2. walk[0] = StartRows({n})
  BY <1>1, WalkUnfolds
<1>3. Segment(n, edges).nodes = {w.node : w \in UNION {walk[k] : k \in 0..MaxDepth}}
  <2>1. Reached("forward", {n}, edges, MaxDepth).nodes = {w.node : w \in UNION {walk[k] : k \in 0..MaxDepth}}
    BY DEF Reached
  <2> HIDE DEF walk
  <2> QED BY <2>1, SegmentIsWalk
<1> HIDE DEF walk
<1>4. UNION {walk[k] : k \in 0..MaxDepth} = walk[0]
  BY <1>1
<1>5. \A w \in walk[0] : w.node = n
  BY <1>2 DEF StartRows
<1>6. \A m \in Segment(n, edges).nodes : m = n
  BY <1>3, <1>4, <1>5
<1> QED BY <1>6, SegmentHasItsNode

(* On a path from the root, the last expanded node before any other reaches  *)
(* it within its own segment.                                                *)
OnTheWay(c, edges, p, i) ==
  \E j \in 0..i : p[j] \in c.expanded /\ (j = i \/ ~Segment(p[j], edges).truncated)

Finished(c, root, edges) ==
  /\ c.expanded \subseteq Nodes /\ root \in c.expanded
  /\ \A x \in c.expanded :
       /\ Segment(x, edges).nodes \subseteq c.nodes /\ Segment(x, edges).edges \subseteq c.edges
       /\ Segment(x, edges).truncated => /\ MaxDepth # 0
                                         /\ Segment(x, edges).nodes \subseteq c.expanded

LEMMA ClosureFinishes ==
  ASSUME NEW root \in Nodes, NEW some \in SUBSET Nodes, NEW edges, edges = EdgesAmong(some),
         NEW c, c = Closure(root, edges), ~c.truncated
  PROVE  Finished(c, root, edges)
<1>1. Analysed(c, root, edges) /\ c.queue = <<>>
  BY ClosureEnds
<1>2. \A x : ~Queued(c.queue, x)
  BY <1>1 DEF Queued
<1>3. ASSUME NEW x \in c.expanded
      PROVE  /\ Segment(x, edges).nodes \subseteq c.nodes /\ Segment(x, edges).edges \subseteq c.edges
             /\ Segment(x, edges).truncated => MaxDepth # 0 /\ Segment(x, edges).nodes \subseteq c.expanded
  <2>1. Followed(c, edges, x) /\ x \in Nodes
    BY <1>1 DEF Analysed
  <2>2. Segment(x, edges).truncated => Segment(x, edges).nodes # {x} /\ Segment(x, edges).nodes \subseteq c.expanded
    BY <1>2, <2>1 DEF Followed
  <2>3. MaxDepth = 0 => Segment(x, edges).nodes = {x}
    BY <2>1, ShortSegment
  <2> QED BY <2>1, <2>2, <2>3 DEF Followed
<1> QED BY <1>1, <1>2, <1>3 DEF Finished, Analysed

(* What a node's segment says of a later node of a path through both. *)
LEMMA PathFromSegment ==
  ASSUME NEW some \in SUBSET Nodes, NEW edges, edges = EdgesAmong(some), NEW p, NEW D \in Nat, IsPath(edges, p, D),
         NEW j \in Nat, NEW i \in Nat, j <= i, i + 1 <= D, p[j] \in Nodes,
         NEW e \in edges, e.from = p[i], e.to = p[i + 1]
  PROVE  LET segment == Segment(p[j], edges)
         IN \/ p[i + 1] \in segment.nodes /\ e.id \in segment.edges
            \/ segment.truncated /\ (i + 1) - j > MaxDepth
<1> DEFINE q == Part(p, j, i + 1)
           d == (i + 1) - j
<1>1. i + 1 \in Nat /\ j <= i + 1
  OBVIOUS
<1>2. IsPath(edges, q, d) /\ d \in Nat /\ \A k \in 0..d : q[k] = p[j + k]
  <2>1. PICK b \in Nat : b = i + 1
    BY <1>1
  <2>2. /\ IsPath(edges, Part(p, j, b), b - j) /\ b - j \in Nat
        /\ \A k \in 0..(b - j) : Part(p, j, b)[k] = p[j + k]
    <3>1. j <= b /\ b <= D
      BY <1>1, <2>1
    <3>2. PartFollows(edges, p, j, b)
      BY <2>1, <3>1, PartIsPath
    <3> QED BY <3>2 DEF PartFollows
  <2> QED BY <2>1, <2>2
<1>3. /\ d \in Nat \ {0} /\ 0 \in 0..d /\ d - 1 \in 0..d /\ d \in 0..d
      /\ j + 0 = j /\ j + (d - 1) = i /\ j + d = i + 1
  OBVIOUS
<1>4. q[0] = p[j] /\ q[d - 1] = p[i] /\ q[d] = p[i + 1]
  <2> HIDE DEF q, d
  <2>1. q[0] = p[j + 0] /\ q[d - 1] = p[j + (d - 1)] /\ q[d] = p[j + d]
    BY <1>2, <1>3
  <2> QED BY <1>3, <2>1
<1> HIDE DEF q
<1>5. /\ d <= MaxDepth => q[d] \in Segment(q[0], edges).nodes /\ e.id \in Segment(q[0], edges).edges
      /\ d > MaxDepth => Segment(q[0], edges).truncated
  <2> HIDE DEF d
  <2> QED BY <1>2, <1>3, <1>4, SegmentReaches
<1>6. d <= MaxDepth \/ d > MaxDepth
  BY <1>3, GraphBounds
<1> QED BY <1>4, <1>5, <1>6

(* Everything on a path from the root is collected. *)
LEMMA PathIsCollected ==
  ASSUME NEW root \in Nodes, NEW some \in SUBSET Nodes, NEW edges, edges = EdgesAmong(some),
         NEW c, Finished(c, root, edges), NEW p, p[0] = root, NEW D \in Nat, IsPath(edges, p, D)
  PROVE  p[D] \in c.nodes /\ IsPath({e \in edges : e.id \in c.edges}, p, D)
<1> DEFINE collected == {e \in edges : e.id \in c.edges}
           way == {i \in Nat : i <= D => OnTheWay(c, edges, p, i)}
<1>1. \A i \in 0..D : i + 1 <= D => \E e \in edges : e.from = p[i] /\ e.to = p[i + 1]
  <2> SUFFICES ASSUME NEW i \in 0..D, i + 1 <= D PROVE \E e \in edges : e.from = p[i] /\ e.to = p[i + 1]
    OBVIOUS
  <2>1. i + 1 \in 1..D /\ (i + 1) - 1 = i
    OBVIOUS
  <2> QED BY <2>1 DEF IsPath
<1>2. 0 \in way
  <2>1. 0 \in 0..0 OBVIOUS
  <2> QED BY <2>1 DEF OnTheWay, Finished
<1>3. ASSUME NEW i \in Nat, i \in way PROVE i + 1 \in way
  <2> SUFFICES ASSUME i + 1 <= D PROVE OnTheWay(c, edges, p, i + 1)
    OBVIOUS
  <2>1. i \in 0..D /\ i <= D /\ i + 1 \in 0..(i + 1)
    OBVIOUS
  <2>2. PICK j \in 0..i : p[j] \in c.expanded /\ (j = i \/ ~Segment(p[j], edges).truncated)
    BY <1>3, <2>1 DEF OnTheWay
  <2>3. PICK e \in edges : e.from = p[i] /\ e.to = p[i + 1]
    BY <1>1, <2>1
  <2>4. j \in 0..(i + 1) /\ j \in Nat /\ j <= i
    OBVIOUS
  <2>5. CASE ~Segment(p[j], edges).truncated
    BY <2>2, <2>4, <2>5 DEF OnTheWay
  <2>6. CASE Segment(p[j], edges).truncated
    <3>1. j = i /\ p[i] \in c.expanded /\ p[i] \in Nodes
      BY <2>2, <2>6 DEF Finished
    <3>2. MaxDepth # 0 /\ Segment(p[i], edges).nodes \subseteq c.expanded
      BY <2>6, <3>1 DEF Finished
    <3>3. p[i + 1] \in Segment(p[i], edges).nodes \/ (i + 1) - i > MaxDepth
      BY <2>3, <3>1, PathFromSegment
    <3>4. ~((i + 1) - i > MaxDepth)
      BY <3>2, GraphBounds
    <3>5. p[i + 1] \in c.expanded
      BY <3>2, <3>3, <3>4
    <3> QED BY <2>1, <3>5 DEF OnTheWay
  <2> QED BY <2>5, <2>6
<1>4. \A i \in 0..D : OnTheWay(c, edges, p, i)
  <2> HIDE DEF way
  <2>1. Nat \subseteq way
    BY <1>2, <1>3, Climb
  <2> SUFFICES ASSUME NEW i \in 0..D PROVE OnTheWay(c, edges, p, i)
    OBVIOUS
  <2>2. i \in way /\ i <= D
    BY <2>1
  <2> QED BY <2>2 DEF way
<1>5. ASSUME NEW i \in 0..D, i + 1 <= D
      PROVE  p[i + 1] \in c.nodes /\ \E e \in collected : e.from = p[i] /\ e.to = p[i + 1]
  <2>1. PICK j \in 0..i : p[j] \in c.expanded /\ (j = i \/ ~Segment(p[j], edges).truncated)
    BY <1>4 DEF OnTheWay
  <2>2. PICK e \in edges : e.from = p[i] /\ e.to = p[i + 1]
    BY <1>1, <1>5
  <2>3. j \in Nat /\ i \in Nat /\ j <= i /\ p[j] \in Nodes
    BY <2>1 DEF Finished
  <2>4. \/ p[i + 1] \in Segment(p[j], edges).nodes /\ e.id \in Segment(p[j], edges).edges
        \/ Segment(p[j], edges).truncated /\ (i + 1) - j > MaxDepth
    BY <1>5, <2>2, <2>3, PathFromSegment
  <2>5. ~(Segment(p[j], edges).truncated /\ (i + 1) - j > MaxDepth)
    <3> SUFFICES ASSUME Segment(p[j], edges).truncated PROVE ~((i + 1) - j > MaxDepth)
      OBVIOUS
    <3>1. j = i /\ MaxDepth # 0
      BY <2>1 DEF Finished
    <3> QED BY <2>3, <3>1, GraphBounds
  <2>6. p[i + 1] \in c.nodes /\ e.id \in c.edges
    BY <2>1, <2>4, <2>5 DEF Finished
  <2> QED BY <2>2, <2>6
<1>6. p[D] \in c.nodes
  <2>1. CASE D = 0
    <3>1. root \in Segment(root, edges).nodes
      BY SegmentHasItsNode
    <3> QED BY <2>1, <3>1 DEF Finished
  <2>2. CASE D # 0
    <3>1. D - 1 \in 0..D /\ (D - 1) + 1 = D /\ (D - 1) + 1 <= D
      BY <2>2
    <3> QED BY <1>5, <3>1
  <2> QED BY <2>1, <2>2
<1>7. IsPath(collected, p, D)
  <2>1. ASSUME NEW i \in 1..D PROVE \E e \in collected : e.from = p[i - 1] /\ e.to = p[i]
    <3>1. i - 1 \in 0..D /\ (i - 1) + 1 = i /\ (i - 1) + 1 <= D
      OBVIOUS
    <3> HIDE DEF collected
    <3> QED BY <1>5, <3>1
  <2> HIDE DEF collected
  <2> QED BY <2>1 DEF IsPath
<1> QED BY <1>6, <1>7

(* Where a walk of at most as many hops as there are nodes finds a node. *)
Found(root, edges, n, d) == \E w \in Walk("forward", {root}, edges, Cardinality(Nodes))[d] : w.node = n

LEMMA LeastOf ==
  ASSUME NEW S, S \subseteq Nat, S # {} PROVE \E n \in S : \A m \in S : n <= m
<1> DEFINE less == {pair \in Nat \X Nat : pair[1] < pair[2]}
<1>1. IsWellFoundedOn(less, Nat)
  BY NatLessThanWellFounded DEF OpToRel
<1>2. \A x, y \in Nat : x < y => <<x, y>> \in less
  OBVIOUS
<1> HIDE DEF less
<1>3. PICK n \in S : \A m \in S : ~(<<m, n>> \in less)
  BY <1>1, WFMin
<1>4. \A m \in S : ~(m < n)
  BY <1>2, <1>3
<1> QED BY <1>3, <1>4

(* The collected edges find a node where all edges do. *)
LEMMA CollectedFinds ==
  ASSUME NEW root \in Nodes, NEW some \in SUBSET Nodes, NEW edges, edges = EdgesAmong(some),
         NEW c, Finished(c, root, edges), NEW n, NEW d \in 0..Cardinality(Nodes)
  PROVE  /\ Found(root, edges, n, d) => n \in c.nodes /\ Found(root, {e \in edges : e.id \in c.edges}, n, d)
         /\ Found(root, {e \in edges : e.id \in c.edges}, n, d) => Found(root, edges, n, d)
<1> DEFINE C == Cardinality(Nodes)
           collected == {e \in edges : e.id \in c.edges}
<1>1. C \in Nat /\ d \in Nat /\ d <= C /\ d \in 0..d
  <2>1. C \in Nat BY NodesAreNumbers, FS_CardinalityType
  <2> HIDE DEF C
  <2> QED BY <2>1 DEF C
<1> HIDE DEF C
<1>2. ASSUME Found(root, edges, n, d) PROVE n \in c.nodes /\ Found(root, collected, n, d)
  <2>1. PICK w \in Walk("forward", {root}, edges, C)[d] : w.node = n
    BY <1>2 DEF Found, C
  <2>2. PICK p : PathTo(edges, root, d, w, p)
    BY <1>1, WalkIsPath DEF C
  <2>3. p[0] = root /\ p[d] = n /\ IsPath(edges, p, d)
    BY <2>1, <2>2 DEF PathTo
  <2>4. p[d] \in c.nodes /\ IsPath(collected, p, d)
    BY <1>1, <2>3, PathIsCollected
  <2> HIDE DEF collected
  <2>5. Walked(collected, C, p, d)
    BY <1>1, <2>4, PathIsWalked
  <2> QED BY <2>3, <2>4, <2>5 DEF Walked, Found, C
<1>3. ASSUME Found(root, collected, n, d) PROVE Found(root, edges, n, d)
  <2>1. collected \subseteq edges
    OBVIOUS
  <2> HIDE DEF collected
  <2>2. Walk("forward", {root}, collected, C)[d] \subseteq Walk("forward", {root}, edges, C)[d]
    BY <1>1, <2>1, WalkGrows DEF C
  <2> QED BY <1>3, <2>2 DEF Found, C
<1> QED BY <1>2, <1>3

(* So the depth that is reported is the shortest distance. *)
LEMMA DepthIsShortest ==
  ASSUME NEW root \in Nodes, NEW some \in SUBSET Nodes, NEW edges, edges = EdgesAmong(some),
         NEW c, Finished(c, root, edges), NEW n, NEW k \in 0..Cardinality(Nodes), Found(root, edges, n, k),
         NEW depth, depth = Depth(root, n, {e \in edges : e.id \in c.edges})
  PROVE  /\ depth \in 0..Cardinality(Nodes) /\ Found(root, edges, n, depth)
         /\ \A d \in 0..(depth - 1) : ~Found(root, edges, n, d)
<1> DEFINE C == Cardinality(Nodes)
           collected == {e \in edges : e.id \in c.edges}
           depths == {d \in 0..C : Found(root, collected, n, d)}
<1>1. C \in Nat
  BY NodesAreNumbers, FS_CardinalityType
<1>2. depth = IF depths = {} THEN MaxDepth ELSE CHOOSE d \in depths : \A other \in depths : d <= other
  BY DEF Depth, Found
<1>3. \A d \in 0..C : Found(root, edges, n, d) <=> d \in depths
  <2>1. \A d \in 0..C : Found(root, edges, n, d) <=> Found(root, collected, n, d)
    BY CollectedFinds
  <2> QED BY <2>1
<1> HIDE DEF C, collected
<1>4. depths \subseteq Nat /\ depths # {}
  <2>1. depths \subseteq Nat BY <1>1
  <2>2. k \in depths BY <1>3 DEF C
  <2> QED BY <2>1, <2>2
<1>5. \A d \in depths : d \in 0..C
  OBVIOUS
<1> HIDE DEF depths
<1>6. \E d \in depths : \A other \in depths : d <= other
  BY <1>4, LeastOf
<1>7. depth \in depths /\ \A other \in depths : depth <= other
  BY <1>2, <1>4, <1>6
<1>8. ASSUME NEW d \in 0..(depth - 1) PROVE ~Found(root, edges, n, d)
  <2>1. depth \in Nat /\ depth <= C
    BY <1>1, <1>5, <1>7
  <2>2. d \in 0..C /\ ~(depth <= d)
    BY <1>1, <2>1
  <2> QED BY <1>3, <1>7, <2>2
<1> QED BY <1>3, <1>5, <1>7, <1>8 DEF C

(* What the property asks of an analysis. *)
ListedAt(dependencies, root, edges, n) ==
  \E a \in dependencies :
    /\ a.type = "ARTIFACT" /\ a.dependent = n /\ a.root = root
    /\ a.depth \in 0..Cardinality(Nodes) /\ Found(root, edges, n, a.depth)
    /\ \A d \in 0..(a.depth - 1) : ~Found(root, edges, n, d)

Covers(analysis, roots, edges) ==
  analysis.complete =>
    \A root \in roots : \A n, k : k \in 0..Cardinality(Nodes) /\ Found(root, edges, n, k) =>
      ListedAt(analysis.dependencies, root, edges, n)

LEMMA TraceCovers ==
  ASSUME NEW roots \in SUBSET Nodes, NEW some \in SUBSET Nodes, NEW edges, edges = EdgesAmong(some)
  PROVE  Covers(ImpactAnalysis(\A root \in roots : ~Closure(root, edges).truncated,
                               ArtifactDependencies(roots, edges)), roots, edges)
<1> DEFINE complete == \A root \in roots : ~Closure(root, edges).truncated
           dependencies == ArtifactDependencies(roots, edges)
<1>1. ASSUME complete, NEW root \in roots, NEW n, NEW k \in 0..Cardinality(Nodes), Found(root, edges, n, k)
      PROVE  ListedAt(dependencies, root, edges, n)
  <2>1. PICK c : c = Closure(root, edges) /\ ~c.truncated
    BY <1>1
  <2>2. Finished(c, root, edges)
    BY <2>1, ClosureFinishes
  <2>3. n \in c.nodes
    BY <1>1, <2>2, CollectedFinds
  <2> DEFINE collected == {e \in edges : e.id \in c.edges}
  <2>4. PICK depth : depth = Depth(root, n, collected)
    OBVIOUS
  <2>5. /\ depth \in 0..Cardinality(Nodes) /\ Found(root, edges, n, depth)
        /\ \A d \in 0..(depth - 1) : ~Found(root, edges, n, d)
    BY <1>1, <2>2, <2>4, DepthIsShortest
  <2> DEFINE rows == {[type |-> "ARTIFACT", dependent |-> m, root |-> root, depth |-> Depth(root, m, collected)] :
                        m \in c.nodes}
             a == [type |-> "ARTIFACT", dependent |-> n, root |-> root, depth |-> depth]
  <2>6. a \in rows
    <3> HIDE DEF collected
    <3> QED BY <2>3, <2>4
  <2>7. rows \subseteq dependencies
    <3> DEFINE RowsOf(r) ==
                 LET closure == Closure(r, edges)
                     got == {e \in edges : e.id \in closure.edges}
                 IN {[type |-> "ARTIFACT", dependent |-> m, root |-> r, depth |-> Depth(r, m, got)] : m \in closure.nodes}
    <3>1. rows = RowsOf(root)
      BY <2>1
    <3>2. dependencies = UNION {RowsOf(r) : r \in roots}
      BY DEF ArtifactDependencies
    <3> HIDE DEF RowsOf, rows, dependencies
    <3> QED BY <3>1, <3>2
  <2>8. a.type = "ARTIFACT" /\ a.dependent = n /\ a.root = root /\ a.depth = depth
    OBVIOUS
  <2> HIDE DEF a, rows, dependencies
  <2> QED BY <2>5, <2>6, <2>7, <2>8 DEF ListedAt
<1> HIDE DEF dependencies, complete
<1>2. /\ ImpactAnalysis(complete, dependencies).complete = complete
      /\ ImpactAnalysis(complete, dependencies).dependencies = dependencies
  BY DEF ImpactAnalysis
<1>3. Covers(ImpactAnalysis(complete, dependencies), roots, edges)
  BY <1>1, <1>2 DEF Covers
<1> QED BY <1>3 DEF complete, dependencies

(* What is found forward of an artifact stays when others are committed: an  *)
(* artifact's edges lead to older ones.                                      *)
LEMMA FoundStays ==
  ASSUME NEW some \in SUBSET Nodes, \A m \in some : \A q \in Parents[m] : q.target \in some,
         NEW x \in Nodes \ some, NEW root \in some, NEW n, NEW d \in 0..Cardinality(Nodes)
  PROVE  Found(root, EdgesAmong(some \cup {x}), n, d) <=> Found(root, EdgesAmong(some), n, d)
<1> DEFINE C == Cardinality(Nodes)
           old == Walk("forward", {root}, EdgesAmong(some), C)
           new == Walk("forward", {root}, EdgesAmong(some \cup {x}), C)
           same == {k \in Nat : k <= C => new[k] = old[k] /\ \A w \in old[k] : w.node \in some}
<1>1. C \in Nat
  BY NodesAreNumbers, FS_CardinalityType
<1>u. /\ old[0] = StartRows({root}) /\ new[0] = StartRows({root})
      /\ \A k \in 0..C : k # 0 => /\ old[k] = HopRows("forward", old[k - 1], EdgesAmong(some))
                                  /\ new[k] = HopRows("forward", new[k - 1], EdgesAmong(some \cup {x}))
  BY <1>1, WalkUnfolds
<1> HIDE DEF old, new, C
<1>2. 0 \in same
  <2>1. \A w \in StartRows({root}) : w.node \in some
    BY DEF StartRows
  <2> QED BY <1>u, <2>1
<1>3. ASSUME NEW k \in Nat, k \in same PROVE k + 1 \in same
  <2> SUFFICES ASSUME k + 1 <= C PROVE new[k + 1] = old[k + 1] /\ \A w \in old[k + 1] : w.node \in some
    OBVIOUS
  <2>1. k + 1 \in 0..C /\ k + 1 # 0 /\ (k + 1) - 1 = k /\ k <= C
    BY <1>1
  <2>2. /\ old[k + 1] = HopRows("forward", old[k], EdgesAmong(some))
        /\ new[k + 1] = HopRows("forward", new[k], EdgesAmong(some \cup {x}))
    BY <1>u, <2>1
  <2>3. new[k] = old[k] /\ \A w \in old[k] : w.node \in some
    BY <1>3, <2>1
  <2>4. \A e : (e \in EdgesAmong(some \cup {x}) /\ e.from \in some) <=> e \in EdgesAmong(some)
    <3>1. \A m \in Nodes : \A e \in EdgesOf(m) : e.from = m
      BY DEF EdgesOf
    <3> QED BY <3>1 DEF EdgesAmong
  <2>5. \A w \in old[k] : Hop("forward", w.node, EdgesAmong(some \cup {x})) = Hop("forward", w.node, EdgesAmong(some))
    <3> SUFFICES ASSUME NEW w \in old[k]
                 PROVE  Hop("forward", w.node, EdgesAmong(some \cup {x})) = Hop("forward", w.node, EdgesAmong(some))
      OBVIOUS
    <3>1. {e \in EdgesAmong(some \cup {x}) : e.from = w.node} = {e \in EdgesAmong(some) : e.from = w.node}
      BY <2>3, <2>4
    <3>2. ASSUME NEW E PROVE Hop("forward", w.node, E) = {[node |-> IF e.from = w.node THEN e.to ELSE e.from, edge |-> e.id] :
                                                            e \in {e \in E : e.from = w.node}}
      BY DEF Hop
    <3> QED BY <3>1, <3>2
  <2>6. HopRows("forward", old[k], EdgesAmong(some \cup {x})) = HopRows("forward", old[k], EdgesAmong(some))
    BY <2>5 DEF HopRows
  <2>7. ASSUME NEW row \in old[k + 1] PROVE row.node \in some
    <3>1. PICK w \in old[k], e \in EdgesAmong(some) : row.node = e.to
      BY <2>2, HopOrigin
    <3> QED BY <3>1 DEF EdgesAmong, EdgesOf
  <2> QED BY <2>2, <2>3, <2>6, <2>7
<1>4. new[d] = old[d]
  <2> HIDE DEF same
  <2>1. Nat \subseteq same
    BY <1>2, <1>3, Climb
  <2>2. d \in same /\ d <= C
    BY <1>1, <2>1 DEF C
  <2> QED BY <2>2 DEF same
<1> QED BY <1>4 DEF Found, old, new, C

LEMMA CoversStays ==
  ASSUME NEW some \in SUBSET Nodes, \A m \in some : \A q \in Parents[m] : q.target \in some,
         NEW x \in Nodes \ some, NEW roots \in SUBSET some, NEW analysis,
         Covers(analysis, roots, EdgesAmong(some))
  PROVE  Covers(analysis, roots, EdgesAmong(some \cup {x}))
<1> DEFINE C == Cardinality(Nodes)
           old == EdgesAmong(some)
           new == EdgesAmong(some \cup {x})
<1>1. C \in Nat
  BY NodesAreNumbers, FS_CardinalityType
<1>2. \A root \in roots : \A n : \A d \in 0..C : Found(root, new, n, d) <=> Found(root, old, n, d)
  BY FoundStays
<1> HIDE DEF C, old, new
<1>3. ASSUME analysis.complete, NEW root \in roots, NEW n, NEW k \in 0..C, Found(root, new, n, k)
      PROVE  ListedAt(analysis.dependencies, root, new, n)
  <2>1. ListedAt(analysis.dependencies, root, old, n)
    BY <1>2, <1>3 DEF Covers, C, old
  <2>2. PICK a \in analysis.dependencies :
          /\ a.type = "ARTIFACT" /\ a.dependent = n /\ a.root = root
          /\ a.depth \in 0..C /\ Found(root, old, n, a.depth)
          /\ \A d \in 0..(a.depth - 1) : ~Found(root, old, n, d)
    BY <2>1 DEF ListedAt, C
  <2>3. \A d \in 0..(a.depth - 1) : d \in 0..C
    BY <1>1, <2>2
  <2>4. Found(root, new, n, a.depth) /\ \A d \in 0..(a.depth - 1) : ~Found(root, new, n, d)
    BY <1>2, <2>2, <2>3
  <2> QED BY <2>2, <2>4 DEF ListedAt, C
<1> QED BY <1>3 DEF Covers, C, new

(* What every analysis so far covers, it still covers. *)
CoverInv ==
  /\ committed \subseteq Nodes /\ \A n \in committed : \A p \in Parents[n] : p.target \in committed
  /\ citations \subseteq committed /\ attaching \subseteq committed
  /\ DOMAIN request = Requests
  /\ \A r \in Requests :
       /\ request[r].phase = "locked" => request[r].roots \subseteq committed
       /\ request[r].phase \in {"traced", "analysed"} =>
            /\ DOMAIN request[r] = {"phase", "answer", "roots", "analysis"}
            /\ DOMAIN request[r].analysis = {"complete", "dependencies"}
            /\ request[r].roots \subseteq committed
            /\ Covers(request[r].analysis, request[r].roots, EdgesAmong(committed))
  /\ \A row \in report : row.roots \subseteq committed /\ Covers(row.analysis, row.roots, EdgesAmong(committed))

(* A step of one request that leaves the graph alone. *)
LEMMA RequestCovers ==
  ASSUME CoverInv, NEW r \in Requests, NEW next, request' = [request EXCEPT ![r] = next],
         UNCHANGED <<committed, citations, attaching, report>>,
         next.phase = "locked" => next.roots \subseteq committed,
         next.phase \in {"traced", "analysed"} =>
            /\ DOMAIN next = {"phase", "answer", "roots", "analysis"}
            /\ DOMAIN next.analysis = {"complete", "dependencies"}
            /\ next.roots \subseteq committed
            /\ Covers(next.analysis, next.roots, EdgesAmong(committed))
  PROVE  CoverInv'
<1>1. DOMAIN request' = Requests /\ request'[r] = next /\ \A other \in Requests \ {r} : request'[other] = request[other]
  BY DEF CoverInv
<1>2. EdgesAmong(committed)' = EdgesAmong(committed)
  BY DEF EdgesAmong
<1> QED BY <1>1, <1>2 DEF CoverInv

LEMMA CommitCovers == ASSUME CoverInv, NEW n \in Nodes, CommitArtifact(n) PROVE CoverInv'
<1>1. /\ committed' = committed \cup {n} /\ n \notin committed
      /\ \A p \in Parents[n] : p.target \in committed
      /\ UNCHANGED <<citations, attaching, request, report>>
  BY DEF CommitArtifact, requestVars
<1>2. PICK some \in SUBSET Nodes : some = committed
  BY DEF CoverInv
<1>3. EdgesAmong(committed)' = EdgesAmong(some \cup {n}) /\ EdgesAmong(committed) = EdgesAmong(some)
  BY <1>1, <1>2 DEF EdgesAmong
<1>4. \A m \in some : \A q \in Parents[m] : q.target \in some
  BY <1>2 DEF CoverInv
<1>5. ASSUME NEW roots \in SUBSET some, NEW analysis, Covers(analysis, roots, EdgesAmong(some))
      PROVE  Covers(analysis, roots, EdgesAmong(some \cup {n}))
  BY <1>1, <1>2, <1>4, <1>5, CoversStays
<1>6. committed' \subseteq Nodes /\ \A m \in committed' : \A p \in Parents[m] : p.target \in committed'
  BY <1>1 DEF CoverInv
<1>7. citations' \subseteq committed' /\ attaching' \subseteq committed' /\ DOMAIN request' = Requests
  BY <1>1 DEF CoverInv
<1>8. ASSUME NEW row \in report' PROVE row.roots \subseteq committed' /\ Covers(row.analysis, row.roots, EdgesAmong(some \cup {n}))
  <2>1. row.roots \subseteq some /\ Covers(row.analysis, row.roots, EdgesAmong(some))
    BY <1>1, <1>2 DEF CoverInv
  <2> QED BY <1>1, <1>2, <1>5, <2>1
<1>9. ASSUME NEW r \in Requests
      PROVE  /\ request'[r].phase = "locked" => request'[r].roots \subseteq committed'
             /\ request'[r].phase \in {"traced", "analysed"} =>
                  /\ DOMAIN request'[r] = {"phase", "answer", "roots", "analysis"}
                  /\ DOMAIN request'[r].analysis = {"complete", "dependencies"}
                  /\ request'[r].roots \subseteq committed'
                  /\ Covers(request'[r].analysis, request'[r].roots, EdgesAmong(some \cup {n}))
  <2>1. request'[r] = request[r]
    BY <1>1
  <2>2. request[r].phase = "locked" => request[r].roots \subseteq committed'
    BY <1>1 DEF CoverInv
  <2>3. ASSUME request[r].phase \in {"traced", "analysed"}
        PROVE  /\ DOMAIN request[r] = {"phase", "answer", "roots", "analysis"}
               /\ DOMAIN request[r].analysis = {"complete", "dependencies"}
               /\ request[r].roots \subseteq some
               /\ Covers(request[r].analysis, request[r].roots, EdgesAmong(some))
    BY <1>2, <2>3 DEF CoverInv
  <2>4. request[r].phase \in {"traced", "analysed"} =>
          Covers(request[r].analysis, request[r].roots, EdgesAmong(some \cup {n}))
    BY <1>5, <2>3
  <2> QED BY <1>1, <1>2, <2>1, <2>2, <2>3, <2>4
<1> QED BY <1>3, <1>6, <1>7, <1>8, <1>9 DEF CoverInv

LEMMA TraceStep == ASSUME CoverInv, NEW r \in Requests, Trace(r) PROVE CoverInv'
<1> DEFINE roots == request[r].roots
           analysis == ImpactAnalysis(\A root \in roots : ~Closure(root, EdgesAmong(committed)).truncated,
                                      ArtifactDependencies(roots, EdgesAmong(committed)))
<1>1. Edges = EdgesAmong(committed)
  BY DEF Edges, EdgesAmong
<1>2. /\ request' = [request EXCEPT ![r] = [phase |-> "traced", answer |-> Reply("none"), roots |-> roots, analysis |-> analysis]]
      /\ request[r].phase = "locked"
      /\ UNCHANGED <<committed, citations, attaching, report>>
  BY <1>1 DEF Trace
<1>3. roots \in SUBSET committed /\ roots \in SUBSET Nodes /\ committed \in SUBSET Nodes
  BY <1>2 DEF CoverInv
<1>4. Covers(analysis, roots, EdgesAmong(committed))
  <2> HIDE DEF roots
  <2> QED BY <1>3, TraceCovers
<1>5. DOMAIN analysis = {"complete", "dependencies"}
  BY DEF ImpactAnalysis
<1> HIDE DEF roots, analysis
<1>6. PICK next : next = [phase |-> "traced", answer |-> Reply("none"), roots |-> roots, analysis |-> analysis]
  OBVIOUS
<1>7. /\ DOMAIN next = {"phase", "answer", "roots", "analysis"} /\ next.phase = "traced"
      /\ next.roots = roots /\ next.analysis = analysis
  BY <1>6
<1>8. request' = [request EXCEPT ![r] = next]
  BY <1>2, <1>6
<1> QED BY <1>2, <1>3, <1>4, <1>5, <1>7, <1>8, RequestCovers

(* What the downstream records add takes nothing away. *)
LEMMA DownstreamStep == ASSUME CoverInv, NEW r \in Requests, ReadDownstream(r) PROVE CoverInv'
<1> DEFINE old == request[r]
           added == DownstreamRecords(old.analysis.dependencies, results)
           analysis == [old.analysis EXCEPT !.dependencies = @ \cup added]
           next == [[old EXCEPT !.phase = "analysed"] EXCEPT !.analysis = analysis]
<1>1. /\ DOMAIN old = {"phase", "answer", "roots", "analysis"}
      /\ DOMAIN old.analysis = {"complete", "dependencies"}
      /\ old.roots \subseteq committed /\ Covers(old.analysis, old.roots, EdgesAmong(committed))
      /\ DOMAIN request = Requests /\ old.phase = "traced"
  BY DEF CoverInv, ReadDownstream
<1>2. request' = [request EXCEPT ![r] = next] /\ UNCHANGED <<committed, citations, attaching, report>>
  BY <1>1 DEF ReadDownstream
<1>3. /\ DOMAIN analysis = {"complete", "dependencies"} /\ analysis.complete = old.analysis.complete
      /\ old.analysis.dependencies \subseteq analysis.dependencies
  <2> HIDE DEF added
  <2> QED BY <1>1
<1> HIDE DEF analysis
<1>4. /\ DOMAIN next = {"phase", "answer", "roots", "analysis"} /\ next.phase = "analysed"
      /\ next.roots = old.roots /\ next.analysis = analysis
  BY <1>1
<1> HIDE DEF next, old
<1>5. Covers(analysis, old.roots, EdgesAmong(committed))
  BY <1>1, <1>3 DEF Covers, ListedAt
<1> QED BY <1>1, <1>2, <1>3, <1>4, <1>5, RequestCovers

LEMMA RetractCovers == ASSUME CoverInv, NEW r \in Requests, Retract(r) PROVE CoverInv'
<1> DEFINE row == [by |-> r, roots |-> request[r].roots, analysis |-> request[r].analysis]
           next == [phase |-> "done", answer |-> Retracted(row)]
<1>1. /\ report' = report \cup {row} /\ request' = [request EXCEPT ![r] = next] /\ request[r].phase = "analysed"
      /\ UNCHANGED <<committed, citations, attaching>>
  BY DEF Retract
<1>2. row.roots = request[r].roots /\ row.analysis = request[r].analysis /\ next.phase = "done"
  OBVIOUS
<1> HIDE DEF row, next
<1>3. row.roots \subseteq committed /\ Covers(row.analysis, row.roots, EdgesAmong(committed))
  BY <1>1, <1>2 DEF CoverInv
<1>4. DOMAIN request' = Requests /\ request'[r] = next /\ \A other \in Requests \ {r} : request'[other] = request[other]
  BY <1>1 DEF CoverInv
<1>5. EdgesAmong(committed)' = EdgesAmong(committed)
  BY <1>1 DEF EdgesAmong
<1> QED BY <1>1, <1>2, <1>3, <1>4, <1>5 DEF CoverInv

LEMMA CoverStep == ASSUME CoverInv, [ImpactNext]_impactVars PROVE CoverInv'
<1>1. ASSUME NEW n \in Nodes, CommitArtifact(n) PROVE CoverInv'
  BY <1>1, CommitCovers
<1>2. ASSUME UNCHANGED <<committed, citations, attaching, request, report>> PROVE CoverInv'
  BY <1>2 DEF CoverInv, EdgesAmong
<1>3. ASSUME NEW e \in EvidenceNodes, AttachCheck(e) \/ AttachInsert(e) PROVE CoverInv'
  <2>1. /\ UNCHANGED <<committed, request, report>>
        /\ attaching' \subseteq committed /\ citations' \subseteq committed
    BY <1>3 DEF AttachCheck, AttachInsert, CoverInv, requestVars
  <2> QED BY <2>1 DEF CoverInv, EdgesAmong
<1>4. ASSUME NEW r \in Requests, OpenRequest(r) PROVE CoverInv'
  <2>1. PICK next : request' = [request EXCEPT ![r] = next] /\ next.phase \in {"keyed", "done"}
    <3> DEFINE keyed  == [phase |-> "keyed", answer |-> Reply("none")]
               clash  == [phase |-> "done", answer |-> Reply("conflict")]
               again  == [phase |-> "done", answer |-> saved[KeyOf[r]][2]]
    <3>1. \/ request' = [request EXCEPT ![r] = keyed]
          \/ request' = [request EXCEPT ![r] = clash]
          \/ request' = [request EXCEPT ![r] = again]
      BY <1>4 DEF OpenRequest
    <3>2. keyed.phase = "keyed" /\ clash.phase = "done" /\ again.phase = "done"
      OBVIOUS
    <3> HIDE DEF keyed, clash, again
    <3> QED BY <3>1, <3>2
  <2> QED BY <1>4, <2>1, RequestCovers DEF OpenRequest
<1>5. ASSUME NEW r \in Requests, LockSource(r) PROVE CoverInv'
  <2>1. PICK next : /\ request' = [request EXCEPT ![r] = next]
                    /\ next.phase = "done" \/ (next.phase = "locked" /\ next.roots = citations)
    <3>1. CASE source = "RETRACTED"
      <4> DEFINE next == [phase |-> "done", answer |-> Reply("not_found")]
      <4>1. request' = [request EXCEPT ![r] = next]
        BY <1>5, <3>1 DEF LockSource
      <4>2. next.phase = "done"
        OBVIOUS
      <4> HIDE DEF next
      <4> QED BY <4>1, <4>2
    <3>2. CASE source # "RETRACTED"
      <4> DEFINE next == [phase |-> "locked", answer |-> Reply("none"), roots |-> citations]
      <4>1. request' = [request EXCEPT ![r] = next]
        BY <1>5, <3>2 DEF LockSource
      <4>2. next.phase = "locked" /\ next.roots = citations
        OBVIOUS
      <4> QED BY <4>1, <4>2
    <3> QED BY <3>1, <3>2
  <2>2. UNCHANGED <<committed, citations, attaching, report>> /\ citations \subseteq committed
    BY <1>5 DEF LockSource, CoverInv
  <2> QED BY <2>1, <2>2, RequestCovers
<1>6. ASSUME NEW r \in Requests, TraceFails(r) PROVE CoverInv'
  <2> DEFINE next == [phase |-> "analysed", answer |-> Reply("none"), roots |-> request[r].roots, analysis |-> Incomplete]
  <2>1. /\ request' = [request EXCEPT ![r] = next] /\ request[r].phase = "locked"
        /\ UNCHANGED <<committed, citations, attaching, report>>
    BY <1>6 DEF TraceFails
  <2>2. /\ DOMAIN next = {"phase", "answer", "roots", "analysis"} /\ next.phase = "analysed"
        /\ next.roots = request[r].roots /\ next.analysis = Incomplete
    OBVIOUS
  <2>3. DOMAIN Incomplete = {"complete", "dependencies"} /\ ~Incomplete.complete
    BY DEF Incomplete, ImpactAnalysis
  <2> HIDE DEF next
  <2>4. next.roots \subseteq committed
    BY <2>1, <2>2 DEF CoverInv
  <2> QED BY <2>1, <2>2, <2>3, <2>4, RequestCovers DEF Covers
<1>7. ASSUME NEW r \in Requests, AbortRetraction(r) PROVE CoverInv'
  <2> DEFINE next == [phase |-> "new", answer |-> Reply("none")]
  <2>1. request' = [request EXCEPT ![r] = next]
    BY <1>7 DEF AbortRetraction
  <2>2. next.phase = "new"
    OBVIOUS
  <2> HIDE DEF next
  <2> QED BY <1>7, <2>1, <2>2, RequestCovers DEF AbortRetraction
<1>8. ASSUME NEW r \in Requests, Trace(r) \/ ReadDownstream(r) \/ Retract(r) PROVE CoverInv'
  BY <1>8, TraceStep, DownstreamStep, RetractCovers
<1>9. CASE \E c \in Results : CommitResult(c)
  BY <1>2, <1>9 DEF CommitResult, requestVars
<1>10. CASE \E query \in ReaderQueries, root \in Nodes : OpenReader(query, root)
  BY <1>2, <1>10 DEF OpenReader, requestVars
<1>11. CASE NextPage
  BY <1>2, <1>11 DEF NextPage, requestVars
<1>12. CASE UNCHANGED impactVars
  BY <1>2, <1>12 DEF impactVars
<1> QED BY <1>1, <1>3, <1>4, <1>5, <1>6, <1>7, <1>8, <1>9, <1>10, <1>11, <1>12 DEF ImpactNext

(* A complete report lists, for every citation it started from, every        *)
(* artifact that can be reached from it and its shortest distance, for every *)
(* graph, depth bound and page size, and the loop over segments ends within  *)
(* its bound (application/source_impact.py, SourceImpactService.impact_of).  *)
THEOREM ReportsCoverImpact == ImpactSpec => []ImpactCovers
<1>1. ImpactInit => CoverInv
  BY DEF ImpactInit, CoverInv
<1>2. ASSUME CoverInv PROVE ImpactCovers
  <2> DEFINE C == Cardinality(Nodes)
             Reach(root) == Walk("forward", {root}, Edges, C)
  <2>1. Edges = EdgesAmong(committed)
    BY DEF Edges, EdgesAmong
  <2> SUFFICES ASSUME NEW row \in report, row.analysis.complete, NEW root \in row.roots,
                      NEW n \in {w.node : w \in UNION {Reach(root)[d] : d \in 0..C}}
               PROVE  \E a \in row.analysis.dependencies :
                        /\ a.type = "ARTIFACT" /\ a.dependent = n /\ a.root = root
                        /\ \E w \in Reach(root)[a.depth] : w.node = n
                        /\ \A d \in 0..(a.depth - 1) : \A w \in Reach(root)[d] : w.node # n
    BY DEF ImpactCovers
  <2>2. \A d : Found(root, Edges, n, d) <=> \E w \in Reach(root)[d] : w.node = n
    BY DEF Found
  <2>3. PICK k \in 0..C : \E w \in Reach(root)[k] : w.node = n
    <3> HIDE DEF Reach
    <3> QED OBVIOUS
  <2>4. Covers(row.analysis, row.roots, Edges)
    BY <1>2, <2>1 DEF CoverInv
  <2>5. ListedAt(row.analysis.dependencies, root, Edges, n)
    BY <2>2, <2>3, <2>4 DEF Covers
  <2> HIDE DEF Reach
  <2> QED BY <2>2, <2>5 DEF ListedAt
<1> QED BY <1>1, <1>2, CoverStep, PTL DEF ImpactSpec
=============================================================================
