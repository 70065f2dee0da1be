-------------------------- MODULE MCKnowledgeBase --------------------------
(***************************************************************************)
(* What a workspace knows and decides by: sources being ingested           *)
(* (Ingestion), retrieval over the chunks and vectors of ingested ones     *)
(* (Knowledge), the semantic memory of earlier sessions (SemanticMemory),  *)
(* formalizations with their solver evidence (Formalization) and the       *)
(* consensus of a round (Consensus). The definitions share no state, so a  *)
(* behaviour exercises one and leaves the others as they began; and it     *)
(* exercises one of the two formalizations, which share no row.            *)
(***************************************************************************)
EXTENDS MCConsensus, MCIngestion, Knowledge, SemanticMemory, Formalization

VARIABLE part   \* the component under study
-----------------------------------------------------------------------------
(* Knowledge: an agent of a session, the session's namespace and one it is   *)
(* not granted, chunks with access lists, and embeddings by two models.      *)
MCNamespaceOf ==
  [open |-> [tier |-> "WORKSPACE", session |-> "none", agent |-> "none", listed |-> {}],
   own |-> [tier |-> "SESSION", session |-> "ses", agent |-> "none", listed |-> {}]]

MCNamespaceOfSource == [s1 |-> "own"]

MCChunkOf ==
  <<[source |-> "s1", acl |-> {}, lexical |-> 1, cosine |-> 2],
    [source |-> "s1", acl |-> {"eve"}, lexical |-> 2, cosine |-> 1],
    [source |-> "s1", acl |-> {"ses"}, lexical |-> 2, cosine |-> 1]>>

(* The fused scores of so few chunks are exact. *)
ASSUME FusionIsExact == Len(MCChunkOf) <= 3

MCGrants == {[namespace |-> "own", kind |-> "SESSION", subject |-> "ses", capability |-> "READ",
              from |-> 1, until |-> 0]}

Subject(kind, id) == [kind |-> kind, id |-> id, principal |-> "bot"]

MCStanding == {Subject("AGENT_DEFINITION", "bot"), Subject("SESSION", "ses")}

AgentQuery(namespaces, k, expected) ==
  [attempt |-> "t1", class |-> "AGENT", principal |-> "bot", namespaces |-> namespaces,
   subjects |-> {[kind |-> "WORKSPACE", id |-> "workspace"],
                 [kind |-> "AGENT_DEFINITION", id |-> "bot"], [kind |-> "SESSION", id |-> "ses"]},
   embedding |-> "m1", expected |-> expected, k |-> k, at |-> 2]

(* The second query reuses the first's attempt identity. *)
MCQueries == [q1 |-> AgentQuery({"open", "own"}, 2, FALSE), q2 |-> AgentQuery({"open"}, 1, TRUE)]

MCUpserts == [u1 |-> [items |-> <<3, 1>>, embedding |-> "m1"],
              u2 |-> [items |-> <<1>>, embedding |-> "m2"]]
-----------------------------------------------------------------------------
(* Memory: an entry, two that would supersede it, one in the global tier,    *)
(* and retention events of the first in every order.                         *)
Promotion(entry, art, ns, validators, at, review, supersedes) ==
  [entry |-> entry, artifact |-> art, namespace |-> ns, evidence |-> {"ev"},
   validators |-> validators, at |-> at, review |-> review, supersedes |-> supersedes]

MCPromotions ==
  [p1 |-> Promotion("e1", "art1", "past", <<"u1">>, 1, 3, "none"),
   p2 |-> Promotion("e2", "art2", "past", <<"u1">>, 2, -1, "e1"),
   p3 |-> Promotion("e3", "art1", "past", <<"u1">>, 2, -1, "e1"),
   p4 |-> Promotion("e4", "art1", "all", <<"u1", "u2">>, 2, -1, "none")]

Retention(state, at) ==
  [entry |-> "e1", namespace |-> "past", state |-> state, actor |-> "u1", at |-> at]

MCRetentions == [r1 |-> Retention("STALE", 2), r2 |-> Retention("ARCHIVED", 1),
                 r3 |-> Retention("ARCHIVED", 3)]

MCTierOf == [past |-> "HISTORICAL", all |-> "GLOBAL"]
-----------------------------------------------------------------------------
(* Formalization: an unsatisfiable well-typed body, one that mixes sorts, a  *)
(* disjunction with three models, and a satisfiable one that names a label.  *)
Declaration(name, sort, unit) == [name |-> name, sort |-> sort, unit |-> unit]

MCLabels == <<"agora_assertion_0", "agora_assertion_1">>

Body(ast, models) ==
  [ast |-> ast, canonical |-> TRUE, source |-> "con1", premises |-> {"ev1"}, coherent |-> TRUE,
   models |-> models,
   symbols |-> <<Declaration("x", "REAL", {SetToBag({"m"})}), Declaration("n", "INTEGER", {One}),
                 Declaration("p", "BOOLEAN", {}), Declaration("q", "BOOLEAN", {})>>]

MCBodies ==
  [contra |-> Body(<<Sym("x"), Sym("n"), Op("DIV", <<1, 2>>), Lit("real"), Op("EQ", <<3, 4>>),
                     Op("NOT", <<5>>), Op("AND", <<5, 6>>)>>, {}),
   mixed |-> Body(<<Sym("p"), Lit("integer"), Op("EQ", <<1, 2>>)>>, {}),
   either |-> Body(<<Sym("p"), Sym("q"), Op("OR", <<1, 2>>)>>, {{"p"}, {"q"}, {"p", "q"}}),
   label |-> [Body(<<Sym("agora_assertion_0"), Op("NOT", <<1>>)>>, {{}}) EXCEPT
                !.symbols = <<Declaration("agora_assertion_0", "BOOLEAN", {})>>]]

MCSourceArtifacts ==
  [con1 |-> [kind |-> "CONSTRAINT", lineage |-> "con", session |-> "s"],
   ev1 |-> [kind |-> "EVIDENCE", lineage |-> "ev", session |-> "s"]]

Request(what, on, key, ifMatch, body) ==
  [op |-> what, on |-> on, key |-> key, ifMatch |-> ifMatch, body |-> body]

(* A formalization, its validation, a confirmation of its first revision     *)
(* that races with its revision, the second's validation, and another        *)
(* formalization.                                                            *)
MCEdits ==
  [c1 |-> Request("create", "none", "k0", 0, "contra"),
   v1 |-> Request("validate", "c1", "k1", 1, "none"),
   k1 |-> Request("CONFIRMED", "c1", "k1", 1, "none"),
   r1 |-> Request("revise", "c1", "k1", 1, "mixed"),
   v2 |-> Request("validate", "c1", "k1", 2, "none"),
   c2 |-> Request("create", "none", "k2", 0, "either")]

Run(on, at) == [on |-> on, revision |-> 1, configuration |-> "short", at |-> at]

(* Two evaluations of the contradiction and two of the disjunction. *)
MCEvaluations == [e1 |-> Run("c1", 1), e2 |-> Run("c1", 2), e3 |-> Run("c2", 1), e4 |-> Run("c2", 2)]

(* The body that names a label, alone. *)
MCLabelEdits == [c1 |-> Request("create", "none", "k0", 0, "label")]

MCLabelEvaluations == [e1 |-> Run("c1", 1)]
-----------------------------------------------------------------------------
(* Of the promotions the first and those into one tier take a step. *)
OfTier(tier) ==
  \A p \in DOMAIN Promotions :
    memoryTx'[p] # memoryTx[p] => p = "p1" \/ TierOf[Promotions[p].namespace] = tier

(* Only requests and evaluations of one formalization take a step. *)
OfFormal(f) ==
  /\ \A r \in DOMAIN Edits : edit'[r] # edit[r] => Target(r) = f
  /\ \A e \in DOMAIN Evaluations : evaluation'[e] # evaluation[e] => Evaluations[e].on = f

MCInit ==
  /\ \/ part = "consensus"
     \/ part \in {"ingestion", "knowledge", "HISTORICAL", "GLOBAL", "c1", "c2"} /\ context = Unopposed
  /\ Init /\ KnowledgeInit /\ MemoryInit /\ FormalInit /\ ConsensusInit
  /\ part # "knowledge" => documentStatus = [s \in DOMAIN NamespaceOfSource |-> "READY"]

MCNext ==
  /\ UNCHANGED part
  /\ \/ /\ part = "ingestion" /\ Next
        /\ UNCHANGED <<knowledgeVars, memoryVars, formalVars, consensusVars>>
     \/ /\ part = "knowledge" /\ KnowledgeNext
        /\ UNCHANGED <<vars, memoryVars, formalVars, consensusVars>>
     \/ /\ part \in {"HISTORICAL", "GLOBAL"} /\ MemoryNext /\ OfTier(part)
        /\ UNCHANGED <<vars, knowledgeVars, formalVars, consensusVars>>
     \/ /\ part \in {"c1", "c2"} /\ FormalNext /\ OfFormal(part)
        /\ UNCHANGED <<vars, knowledgeVars, memoryVars, consensusVars>>
     \/ /\ part = "consensus" /\ ConsensusNext
        /\ UNCHANGED <<vars, knowledgeVars, memoryVars, formalVars>>

MCSpec == MCInit /\ [][MCNext]_<<part, vars, knowledgeVars, memoryVars, formalVars, consensusVars>>
=============================================================================
