----------------------------- MODULE Consensus -----------------------------
(***************************************************************************)
(* The consensus of one round: the shared feasibility gate, the three      *)
(* strategies as functions of the frozen context, and the orchestrator     *)
(* that stores one result per strategy beside the others.                  *)
(*                                                                         *)
(* A decimal is an integer in units of 1/Unit; quotients are rounded down. *)
(* One position per agent and alternative; the position, verification and  *)
(* trust weights are the defaults.  Names, rationales, ratios and the      *)
(* derivation's wording are left out.                                      *)
(*                                                                         *)
(* Sources: backend/app/application/consensus.py, domain/consensus.py,     *)
(* ports/consensus.py, db/consensus.py.                                    *)
(***************************************************************************)
EXTENDS Integers, Sequences, FiniteSets, FiniteSetsExt, SequencesExt, Functions

CONSTANTS
  Contexts,   \* the frozen inputs a round may have
  Unit,       \* what stands for 1
  Absent      \* an absent value

Strategies == {"weighted", "evidence_weighted", "constraint_aware"}

Outcomes == {"FULL_CONSENSUS", "PARTIAL_CONSENSUS", "CONDITIONAL_CONSENSUS", "PARETO_SET",
             "NO_CONSENSUS", "DEADLOCK", "INSUFFICIENT_EVIDENCE", "INFEASIBLE"}

Stances == {"SUPPORT", "CONDITIONALLY_SUPPORT", "INSUFFICIENT_EVIDENCE", "OPPOSE", "ABSTAIN"}

Severities == {"LOW", "MEDIUM", "HIGH", "BLOCKING"}
Resolutions == {"OPEN", "RESOLVED", "UNRESOLVED", "DISPUTED"}
Verifications == {"UNVERIFIED", "SOURCE_VERIFIED", "CROSS_CHECKED", "DISPUTED", "REJECTED"}
TrustLevels == {"PRIMARY", "AUTHORITATIVE", "SECONDARY", "COMMERCIAL", "UNATTRIBUTED", "SYNTHETIC"}

(* The validators of ConsensusContext: alternatives are unique and there is  *)
(* one, and a verdict is about one of them ("none" where there is none).     *)
ValidAlternatives(c) ==
  /\ c.alternatives \in Seq(ToSet(c.alternatives)) /\ c.alternatives # <<>>
  /\ Cardinality(ToSet(c.alternatives)) = Len(c.alternatives)
  /\ c.feasibility \in [ToSet(c.alternatives) -> {"none", "SAT", "UNSAT", "UNKNOWN"}]

ValidPosition(c, p) ==
  /\ DOMAIN p = {"agent", "alternative", "stance", "confidence", "evidence_ids"}
  /\ p.stance \in Stances /\ p.confidence \in 0..Unit
  /\ p.evidence_ids \in Seq(ToSet(p.evidence_ids))
  /\ \A q \in c.positions : p.agent = q.agent /\ p.alternative = q.alternative => p = q

ValidDebate(c) ==
  /\ IsFiniteSet(c.positions) /\ \A p \in c.positions : ValidPosition(c, p)
  /\ \A q \in c.critiques : q.severity \in Severities /\ q.resolution \in Resolutions
  /\ \A e \in DOMAIN c.evidence : /\ c.evidence[e].verification \in Verifications
                                  /\ c.evidence[e].trust_level \in TrustLevels

ValidObjectives(c) ==
  /\ IsFiniteSet(DOMAIN c.objectives)
  /\ \A k \in DOMAIN c.objectives : /\ c.objectives[k].weight \in 0..Unit
                                    /\ \A a \in ToSet(c.alternatives) : c.values[k][a] \in Int \cup {Absent}

(* The parameters: not negative, and in the range docs/consensus-formalism   *)
(* gives where it gives one; the strategies take them as they come.          *)
ValidParameters(c) ==
  /\ c.params.alpha \in Nat /\ c.params.lambda \in Nat /\ c.params.evidence_weight \in 0..Unit
  /\ c.params.agreement_threshold \in 0..Unit /\ c.params.partial_threshold \in 0..Unit
  /\ c.params.epsilon \in 0..Unit /\ c.params.min_flip_distance \in 0..Unit
  /\ c.params.independence_cap \in Nat

WellFormed(c) ==
  /\ DOMAIN c = {"alternatives", "positions", "evidence", "critiques", "objectives", "values",
                 "feasibility", "params"}
  /\ ValidAlternatives(c) /\ ValidDebate(c) /\ ValidObjectives(c) /\ ValidParameters(c)

ASSUME ConsensusAssumption ==
  /\ Unit \in Nat \ {0} /\ Absent \notin Int
  /\ \A c \in Contexts : WellFormed(c)

VARIABLES
  context,   \* the round's ConsensusContext
  rows,      \* consensus_results with its explanation, by strategy
  failed     \* the strategies that raised instead of returning a result

consensusVars == <<context, rows, failed>>
-----------------------------------------------------------------------------
Times(x, y) == (x * y) \div Unit

(* The elements of a set, each behind those that are ahead of it. *)
Arranged(S, ahead) ==
  [n \in 1..Cardinality(S) |-> CHOOSE x \in S : Cardinality({y \in S : <<y, x>> \in ahead}) = n - 1]

(* The elements of a sequence that are in T, in their order. *)
Keep(s, T) ==
  LET kept == {i \in DOMAIN s : s[i] \in T}
      places == Arranged(kept, {p \in kept \X kept : p[1] < p[2]})
  IN [n \in DOMAIN places |-> s[places[n]]]

Clamp(value, low, high) == IF value < low THEN low ELSE IF value > high THEN high ELSE value

PositionWeights ==
  [SUPPORT |-> Unit, CONDITIONALLY_SUPPORT |-> (3 * Unit) \div 4,
   INSUFFICIENT_EVIDENCE |-> Unit \div 4, OPPOSE |-> 0, ABSTAIN |-> Unit \div 2]

PositionScore(c, p) ==
  IF c.params.use_confidence THEN Times(PositionWeights[p.stance], p.confidence)
  ELSE PositionWeights[p.stance]

(* The positions that count for an alternative. *)
Relevant(c, a) ==
  {p \in c.positions : /\ p.alternative = a
                       /\ c.params.abstain_policy = "EXCLUDE" => p.stance # "ABSTAIN"}

ComputeSupport(c, a) ==
  LET counted == Relevant(c, a)
  IN IF counted = {} THEN 0
     ELSE SumFunction([p \in counted |-> PositionScore(c, p)]) \div Cardinality(counted)

Blocking(c) ==
  {q \in c.critiques : q.severity = "BLOCKING" /\ q.resolution \in {"OPEN", "UNRESOLVED", "DISPUTED"}}

Opposed(c, alternatives, stances) ==
  {p \in c.positions : p.alternative \in alternatives /\ p.stance \in stances}

(* FR-505: every dissenting or abstaining agent. *)
Dissent(c, alternatives) == Opposed(c, alternatives, {"OPPOSE", "ABSTAIN", "INSUFFICIENT_EVIDENCE"})

Minority(c, alternatives) == Opposed(c, alternatives, {"OPPOSE", "INSUFFICIENT_EVIDENCE"})

Degenerate(c) ==
  Len(c.alternatives) <= 1 \/ Cardinality({p.agent : p \in c.positions}) <= 1

(* value(a): the weighted sum over the objectives that have a value for a. *)
WeightedObjectiveValue(c, a) ==
  LET valued == {k \in DOMAIN c.objectives : c.values[k][a] # Absent}
  IN IF valued = {} THEN Absent
     ELSE SumFunction([k \in valued |-> Times(c.objectives[k].weight, c.values[k][a])])

RankScore(c, a, support) ==
  LET value == WeightedObjectiveValue(c, a)
  IN IF value = Absent THEN support
     ELSE Times(c.params.alpha, support) + Times(Unit - c.params.alpha, value)
-----------------------------------------------------------------------------
(* The feasibility gate.  An alternative without a verdict is rankable; one  *)
(* with an UNKNOWN verdict is rankable and unresolved.                       *)

Rankable(c) == Keep(c.alternatives, {a \in ToSet(c.alternatives) : c.feasibility[a] # "UNSAT"})

Unresolved(c, a) == c.feasibility[a] = "UNKNOWN"

UnsatCores(c) == {a \in ToSet(c.alternatives) : c.feasibility[a] = "UNSAT"}

StatusOf(c, a) == IF Unresolved(c, a) THEN "UNKNOWN" ELSE "SAT"
-----------------------------------------------------------------------------
(* Evidence. *)
VerificationWeights ==
  [UNVERIFIED |-> (3 * Unit) \div 10, SOURCE_VERIFIED |-> (8 * Unit) \div 10,
   CROSS_CHECKED |-> Unit, DISPUTED |-> Unit \div 10, REJECTED |-> 0]

TrustMultiplier ==
  [PRIMARY |-> Unit, AUTHORITATIVE |-> (9 * Unit) \div 10, SECONDARY |-> (6 * Unit) \div 10,
   COMMERCIAL |-> (4 * Unit) \div 10, UNATTRIBUTED |-> 0, SYNTHETIC |-> 0]

CitationWeight(e) == Times(VerificationWeights[e.verification], TrustMultiplier[e.trust_level])

EvidenceForPosition(c, p) == Keep(p.evidence_ids, DOMAIN c.evidence)

(* The places, in citation order, the independence cap keeps: at most cap of *)
(* one publisher, whatever their polarity and verification.                  *)
CappedByPublisher(c, cited) ==
  {i \in DOMAIN cited :
     Cardinality({j \in 1..i : c.evidence[cited[j]].publisher = c.evidence[cited[i]].publisher})
       <= c.params.independence_cap}

(* Mutant: what was rejected still counts as a citation of full weight. *)
StrengthOfAnyCitation(c, p, polarity) ==
  LET cited == EvidenceForPosition(c, p)
      counted == {i \in CappedByPublisher(c, cited) : c.evidence[cited[i]].polarity = polarity}
  IN SumFunction([i \in counted |-> TrustMultiplier[c.evidence[cited[i]].trust_level]])

(* E (polarity SUPPORT) or D (OPPOSE) of one position. *)
EvidenceStrength(c, p, polarity) ==
  LET cited == EvidenceForPosition(c, p)
      counted == {i \in CappedByPublisher(c, cited) :
                    /\ c.evidence[cited[i]].verification # "REJECTED"
                    /\ c.evidence[cited[i]].polarity = polarity}
  IN SumFunction([i \in counted |-> CitationWeight(c.evidence[cited[i]])])

EvidenceTotal(c, a) ==
  SumFunction([p \in Relevant(c, a) |-> EvidenceStrength(c, p, "SUPPORT")])

(* base * (1 + lambda * max(0, evid)), evid = (E - D) / (E + D + 1) clamped. *)
BackedScore(c, p) ==
  LET e == EvidenceStrength(c, p, "SUPPORT")
      d == EvidenceStrength(c, p, "OPPOSE")
      evid == Clamp(((e - d) * Unit) \div (e + d + Unit), -Unit, Unit)
  IN Times(PositionScore(c, p), Unit + Times(c.params.lambda, Max({0, evid})))

EvidenceSupport(c, a) ==
  LET counted == Relevant(c, a)
  IN IF counted = {} THEN 0
     ELSE Min({Unit, SumFunction([p \in counted |-> BackedScore(c, p)]) \div Cardinality(counted)})

BlendedSupport(c, a) ==
  Times(Unit - c.params.evidence_weight, ComputeSupport(c, a))
    + Times(c.params.evidence_weight, EvidenceSupport(c, a))
-----------------------------------------------------------------------------
(* Results. *)

(* Mutant: without reverse=True the weakest comes first. *)
Behind(x, y) == x.key < y.key \/ (x.key = y.key /\ x.place < y.place)

(* sorted(..., reverse=True) is stable: equal keys keep their input order. *)
Ahead(x, y) == x.key > y.key \/ (x.key = y.key /\ x.place < y.place)

Score(a, support, status) ==
  [alternative |-> a, support |-> Clamp(support, 0, Unit), feasibility |-> status]

(* No row, and what an evaluation that raises leaves. *)
NoResult == [outcome |-> "none"]

(* A result that ends before the ranking. *)
Stopped(c, outcome) ==
  [outcome |-> outcome, scores |-> <<>>, selected |-> Absent, pareto_set |-> <<>>,
   support |-> Absent, blocking_critiques |-> {}, blocking_constraints |-> {},
   threshold_bound |-> FALSE, dissent |-> {}, minority |-> {}, degenerate |-> Degenerate(c)]

Infeasible(c) == [Stopped(c, "INFEASIBLE") EXCEPT !.blocking_constraints = UnsatCores(c)]

(* What every result that ranked or refused to rank records of the debate. *)
Recorded(c, outcome, scores) ==
  [Stopped(c, outcome) EXCEPT !.scores = scores, !.blocking_critiques = Blocking(c),
                              !.dissent = Dissent(c, ToSet(Rankable(c))),
                              !.minority = Minority(c, ToSet(Rankable(c)))]

(* C-6. *)
BlockingGateOutcome(c, candidate) ==
  IF Blocking(c) # {} /\ candidate = "FULL_CONSENSUS" THEN "PARTIAL_CONSENSUS" ELSE candidate

AllActiveSupportive(c, a) ==
  \A p \in c.positions : p.alternative = a => p.stance \in {"SUPPORT", "ABSTAIN"}

(* Mutant: the unresolved feasibility of the leader is left out. *)
OutcomeByThreshold(c, leader) ==
  BlockingGateOutcome(c,
    IF leader.support >= c.params.agreement_threshold /\ AllActiveSupportive(c, leader.alternative)
    THEN "FULL_CONSENSUS"
    ELSE IF leader.support >= c.params.partial_threshold THEN "PARTIAL_CONSENSUS"
    ELSE "NO_CONSENSUS")

OutcomeFor(c, leader) ==
  BlockingGateOutcome(c,
    IF Unresolved(c, leader.alternative) THEN "CONDITIONAL_CONSENSUS"
    ELSE IF /\ leader.support >= c.params.agreement_threshold
            /\ AllActiveSupportive(c, leader.alternative)
    THEN "FULL_CONSENSUS"
    ELSE IF leader.support >= c.params.partial_threshold THEN "PARTIAL_CONSENSUS"
    ELSE "NO_CONSENSUS")

Selectable == {"FULL_CONSENSUS", "PARTIAL_CONSENSUS", "CONDITIONAL_CONSENSUS"}

(* The leader classified: the outcome, and the selection where there is one. *)
Classified(c, scores) ==
  LET leader == scores[1]
      outcome == OutcomeFor(c, leader)
  IN [Recorded(c, outcome, scores) EXCEPT
        !.selected = IF outcome \in Selectable THEN leader.alternative ELSE Absent,
        !.support = leader.support]
-----------------------------------------------------------------------------
(* The strategies. *)

(* The alternatives with their support, the highest key first. *)
Ranked(c, alternatives, support, key) ==
  LET entries == {LET a == alternatives[i]
                  IN [alternative |-> a, place |-> i, support |-> support[a], key |-> key[a]] :
                  i \in DOMAIN alternatives}
      sorted == Arranged(entries, {p \in entries \X entries : Ahead(p[1], p[2])})
  IN [i \in DOMAIN sorted |->
        Score(sorted[i].alternative, sorted[i].support, StatusOf(c, sorted[i].alternative))]

(* Ranked by the blend of support and objective value. *)
RankedByScore(c, support) ==
  Ranked(c, Rankable(c), support, [a \in DOMAIN support |-> RankScore(c, a, support[a])])

WeightedEvaluate(c) ==
  IF Rankable(c) = <<>> THEN Infeasible(c)
  ELSE Classified(c, RankedByScore(c, [a \in ToSet(Rankable(c)) |-> ComputeSupport(c, a)]))

EvidenceWeightedEvaluate(c) ==
  LET scores == RankedByScore(c, [a \in ToSet(Rankable(c)) |-> BlendedSupport(c, a)])
  IN IF Rankable(c) = <<>> THEN Infeasible(c)
     ELSE IF EvidenceTotal(c, scores[1].alternative) = 0
     THEN Recorded(c, "INSUFFICIENT_EVIDENCE", scores)
     ELSE Classified(c, scores)

(* Stage 2: the evidence floor. *)
Evidenced(c) ==
  IF c.params.allow_unevidenced THEN Rankable(c)
  ELSE Keep(Rankable(c), {a \in ToSet(Rankable(c)) : EvidenceTotal(c, a) > 0})

(* Mutant: being better by epsilon somewhere is enough. *)
BetterSomewhere(c, a, b) ==
  \E k \in DOMAIN c.objectives :
    /\ c.values[k][a] # Absent /\ c.values[k][b] # Absent
    /\ c.values[k][a] > c.values[k][b] + c.params.epsilon

Dominates(c, a, b) ==
  /\ \A k \in DOMAIN c.objectives :
       /\ c.values[k][a] # Absent /\ c.values[k][b] # Absent
       /\ c.values[k][a] >= c.values[k][b]
  /\ \E k \in DOMAIN c.objectives : c.values[k][a] > c.values[k][b] + c.params.epsilon

(* Stage 3: the undominated set. *)
Undominated(c, alternatives) ==
  LET among == ToSet(alternatives)
  IN Keep(alternatives, {a \in among : ~\E b \in among : b # a /\ Dominates(c, b, a)})

(* The first of the best alternatives on an objective, if any has a value. *)
Argmax(c, k, pareto) ==
  LET valued == {i \in DOMAIN pareto : c.values[k][pareto[i]] # Absent}
      best == {i \in valued : \A j \in valued :
                                c.values[k][pareto[i]] >= c.values[k][pareto[j]]}
  IN IF valued = {} THEN {} ELSE {pareto[Min(best)]}

(* Stage 4: the objectives conflict on the frontier. *)
Conflict(c, pareto) ==
  /\ \E k \in DOMAIN c.objectives : c.objectives[k].conflicts
  /\ Cardinality(UNION {Argmax(c, k, pareto) : k \in DOMAIN c.objectives}) >= 2
  /\ Len(pareto) > 1

FrontierResult(c, pareto) ==
  [Recorded(c, BlockingGateOutcome(c, "PARETO_SET"),
            [i \in DOMAIN pareto |-> Score(pareto[i], BlendedSupport(c, pareto[i]), "SAT")])
     EXCEPT !.pareto_set = pareto]

(* Stage 5. *)
SupportOrder(c, pareto) ==
  LET support == [a \in ToSet(pareto) |-> BlendedSupport(c, a)]
  IN Ranked(c, pareto, support, support)

(* Stage 6: the two first are closer than min_flip_distance. *)
ThresholdBound(c, scores) ==
  /\ Len(scores) >= 2
  /\ scores[1].support - scores[2].support < c.params.min_flip_distance

(* Stages 1 to 7; an empty frontier would fail on its first score. *)
ConstraintAwareEvaluate(c) ==
  LET evidenced == Evidenced(c)
      pareto == Undominated(c, evidenced)
      scores == SupportOrder(c, pareto)
  IN IF Rankable(c) = <<>> THEN Infeasible(c)
     ELSE IF evidenced = <<>> THEN Recorded(c, "INSUFFICIENT_EVIDENCE", <<>>)
     ELSE IF Conflict(c, pareto) THEN FrontierResult(c, pareto)
     ELSE IF scores = <<>> THEN NoResult
     ELSE [Classified(c, scores) EXCEPT !.threshold_bound = ThresholdBound(c, scores)]

Evaluate(strategy, c) ==
  CASE strategy = "weighted" -> WeightedEvaluate(c)
    [] strategy = "evidence_weighted" -> EvidenceWeightedEvaluate(c)
    [] strategy = "constraint_aware" -> ConstraintAwareEvaluate(c)
-----------------------------------------------------------------------------
(* ConsensusOrchestrator.run in the caller's transaction. *)
ConsensusInit ==
  /\ context \in Contexts
  /\ rows = [s \in Strategies |-> NoResult]
  /\ failed = {}

(* The strategy is resolved and evaluated; its result and explanation are    *)
(* added together.                                                           *)
RunStrategy(s) ==
  /\ rows[s] = NoResult
  /\ LET result == Evaluate(s, context)
     IN /\ rows' = [rows EXCEPT ![s] = result]
        /\ failed' = IF result = NoResult THEN failed \cup {s} ELSE failed
  /\ UNCHANGED context

(* uq_consensus_results_session_strategy: a second result of the same        *)
(* strategy for the round is refused and its transaction rolled back.        *)
RunAgain(s) ==
  /\ rows[s] # NoResult
  /\ UNCHANGED consensusVars

ConsensusNext == \E s \in Strategies : RunStrategy(s) \/ RunAgain(s)

ConsensusSpec == ConsensusInit /\ [][ConsensusNext]_consensusVars
-----------------------------------------------------------------------------
Stored(s) == rows[s] # NoResult

ScoredAlternatives(r) == {r.scores[i].alternative : i \in DOMAIN r.scores}

(* The context, the stored results and the failed runs have their types. *)
ConsensusTypeOK ==
  /\ WellFormed(context)
  /\ DOMAIN rows = Strategies
  /\ failed \subseteq Strategies
  /\ \A s \in Strategies : Stored(s) =>
       LET r == rows[s]
       IN /\ r.outcome \in Outcomes
          /\ r.selected \in ScoredAlternatives(r) \cup {Absent}
          /\ r.selected # Absent => r.outcome \in Selectable
          /\ r.support \in 0..Unit \cup {Absent}
          /\ \A i \in DOMAIN r.scores : r.scores[i].support \in 0..Unit

(* The alternatives constraint_aware compares. *)
Contenders ==
  {a \in ToSet(Rankable(context)) : context.params.allow_unevidenced \/ EvidenceTotal(context, a) > 0}

(* Dominance with a margin has no cycles: no evaluation fails on an empty    *)
(* frontier, and every contender left out is dominated by one that is on it. *)
FrontierIsKernel ==
  /\ failed = {}
  /\ Stored("constraint_aware") =>
       LET front == ScoredAlternatives(rows["constraint_aware"])
       IN \A a \in Contenders : a \in front <=> ~\E b \in front : Dominates(context, b, a)

(* C-6 and C-8: a full consensus leaves no blocking critique unresolved, no  *)
(* opponent of the selection and no doubt of its feasibility; an unresolved  *)
(* selection is conditional.                                                 *)
NothingOverlooked ==
  \A s \in Strategies : Stored(s) /\ rows[s].selected # Absent =>
    LET a == rows[s].selected
    IN /\ rows[s].outcome = "FULL_CONSENSUS" =>
            /\ ~\E q \in context.critiques : q.severity = "BLOCKING" /\ q.resolution # "RESOLVED"
            /\ ~\E p \in context.positions : p.alternative = a
                                             /\ p.stance \notin {"SUPPORT", "ABSTAIN"}
       /\ rows[s].outcome = "CONDITIONAL_CONSENSUS" <=> context.feasibility[a] = "UNKNOWN"

(* An opponent who comes to support the selected alternative never costs it  *)
(* its selection or its support, and changes the outcome only to a full      *)
(* consensus.                                                                *)
SupportNeverHurts ==
  \A s \in Strategies : Stored(s) /\ rows[s].selected # Absent =>
    \A p \in {q \in context.positions : /\ q.alternative = rows[s].selected
                                        /\ q.stance = "OPPOSE"} :
      LET won == [p EXCEPT !.stance = "SUPPORT"]
          after == Evaluate(s, [context EXCEPT !.positions = (@ \ {p}) \cup {won}])
      IN /\ after.selected = rows[s].selected
         /\ after.support >= rows[s].support
         /\ after.outcome \in {rows[s].outcome, "FULL_CONSENSUS"}

(* What the evidence strategies select has a citation in its support that    *)
(* was not rejected and has a source, unless the evidence floor is waived.   *)
SelectionIsEvidenced ==
  \A s \in {"evidence_weighted", "constraint_aware"} :
    Stored(s) /\ rows[s].selected # Absent /\ ~(s = "constraint_aware" /\ context.params.allow_unevidenced)
      => \E p \in context.positions :
           /\ p.alternative = rows[s].selected
           /\ \E e \in ToSet(p.evidence_ids) \cap DOMAIN context.evidence :
                /\ context.evidence[e].polarity = "SUPPORT"
                /\ context.evidence[e].verification # "REJECTED"
                /\ context.evidence[e].trust_level \notin {"UNATTRIBUTED", "SYNTHETIC"}

(* C-8: UNKNOWN feasibility caps an outcome: what is selected conditionally  *)
(* has the support any consensus needs.                                      *)
UnknownOnlyCaps ==
  \A s \in Strategies : Stored(s) /\ rows[s].selected # Absent =>
    rows[s].support >= context.params.partial_threshold
=============================================================================
