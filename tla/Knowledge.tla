----------------------------- MODULE Knowledge -----------------------------
(***************************************************************************)
(* Retrieval from the knowledge base.  A request is authorized, searched   *)
(* lexically, searched by embedding and audited in four transactions, each *)
(* of which decides again which namespaces the requester may read; the     *)
(* results are fused by rank and reranked.  Meanwhile grants are added,    *)
(* subjects lose their standing, documents become ready, sources are       *)
(* retracted, and embeddings are written to and deleted from the index.    *)
(*                                                                         *)
(* Sources: backend/app/domain/knowledge.py, domain/retrieval.py,          *)
(* application/retrieval.py, adapters/retrieval/postgres.py,               *)
(* adapters/pgvector/vector_store.py, db/knowledge.py, db/retrieval.py,    *)
(* db/models/knowledge.py and retrieval.py, and the migrations 20260906    *)
(* _0010, _0012, _0014 and _0017.                                          *)
(***************************************************************************)
EXTENDS Integers, Sequences, FiniteSets, SequencesExt

CONSTANTS
  NamespaceOf,   \* [namespaces -> [tier, session, agent, listed]]: listed, the agents whose definition names it
  NamespaceOfSource,  \* [sources -> namespace]; a source has one document
  ChunkOf,       \* [1..n -> [source, acl, lexical, cosine]]: scores against the query, 0 for none
  Grants,        \* grants that may be given: [namespace, kind, subject, capability, from, until]
  Standing,      \* what the workspace's tables vouch for at first: [kind, id, principal]
  Queries,       \* [id -> [attempt, class, principal, namespaces, subjects, embedding, expected, k, at]]
  Upserts        \* [id -> [items, embedding]]: items, a sequence of chunks

ASSUME ChunksAreNumbered == IsFiniteSet(DOMAIN ChunkOf) /\ DOMAIN ChunkOf = 1..Cardinality(DOMAIN ChunkOf)

(* Scores are numbers, and a request asks for at least one result. *)
ASSUME ScoresAreNumbers == \A c \in DOMAIN ChunkOf : ChunkOf[c].lexical \in Int /\ ChunkOf[c].cosine \in Int
ASSUME QueriesWantResults == \A id \in DOMAIN Queries : Queries[id].k \in Nat \ {0}

(* VectorStore.upsert takes a batch of items, each the vector of a chunk. *)
ASSUME UpsertsAreBatches == \A u \in DOMAIN Upserts : Upserts[u].items \in Seq(DOMAIN ChunkOf)

VARIABLES
  grants,      \* rows of knowledge_namespace_grants
  vouched,     \* subjects that stand
  sourceStatus,  \* [sources -> status]
  documentStatus, \* [sources -> status of the document]
  vectors,     \* committed rows of vector_items: [chunk, embedding]
  upsert,      \* [Upserts -> [step, rows]]
  query,       \* [Queries -> [step, searched, lexical, vector, degradation, chunks]]
  attempts,    \* rows of retrieval_attempts
  gone         \* [Queries -> sources retracted before the query began]

knowledgeVars == <<grants, vouched, sourceStatus, documentStatus, vectors, upsert, query, attempts, gone>>

Chunk == DOMAIN ChunkOf
Home(c) == NamespaceOfSource[ChunkOf[c].source]

(* The rows of sources and documents by the statuses a search tells apart,   *)
(* and the rows of vector_items.                                             *)
SourceRows == [DOMAIN NamespaceOfSource -> {"READY", "RETRACTED"}]
DocumentRows == [DOMAIN NamespaceOfSource -> {"CHUNKED", "READY"}]
VectorItems == [chunk : Chunk, embedding : STRING]
NamespaceGrantRows == [namespace : DOMAIN NamespaceOf, kind : {"WORKSPACE", "USER", "AGENT_DEFINITION", "SESSION"},
                       subject : STRING, capability : STRING, from : Nat, until : Nat]
-----------------------------------------------------------------------------
(* KnowledgeNamespace and the constraints of its table. *)
ValidNamespace(n) == (n.tier = "SESSION") = (n.session # "none") /\ (n.tier = "AGENT") = (n.agent # "none")

ASSUME NamespacesAreValid == \A n \in DOMAIN NamespaceOf : ValidNamespace(NamespaceOf[n])

(* NamespaceGrant and the constraint of its table on the interval. *)
ValidGrant(g) == g.until # 0 => g.until > g.from

(* enforce_namespace_grant_subject, at the commit. *)
SubjectExists(g) == IF g.kind = "WORKSPACE" THEN g.subject = "workspace"
                    ELSE \E v \in Standing : v.kind = g.kind /\ v.id = g.subject

(* RetrievalRequest: its scope names the workspace and the principal. *)
PrincipalKind(q) == IF q.class = "HUMAN" THEN "USER" ELSE "AGENT_DEFINITION"
ValidRequest(q) ==
  /\ q.namespaces # {} /\ [kind |-> "WORKSPACE", id |-> "workspace"] \in q.subjects
  /\ [kind |-> PrincipalKind(q), id |-> q.principal] \in q.subjects

(* trusted_subjects: a member who asks, an agent version in use that asks,   *)
(* a session of the one who asks.                                            *)
Trusted(q) ==
  {s \in q.subjects :
     \/ s.kind = "WORKSPACE" /\ s.id = "workspace"
     \/ s.kind = PrincipalKind(q) /\ s.id = q.principal /\ [kind |-> s.kind, id |-> s.id, principal |-> q.principal] \in vouched
     \/ s.kind = "SESSION" /\ [kind |-> s.kind, id |-> s.id, principal |-> q.principal] \in vouched}

(* authorized_namespaces, what a grant must be for the tier. *)
OpensTier(g, n, q) ==
  \/ n.tier \in {"GLOBAL", "WORKSPACE"} /\ g.kind \in {"WORKSPACE", "USER", "AGENT_DEFINITION"}
  \/ n.tier = "SESSION" /\ g.kind = "SESSION" /\ g.subject = n.session
  \/ /\ n.tier \in {"DOMAIN", "HISTORICAL", "AGENT"}
     /\ g.kind = "AGENT_DEFINITION" /\ q.class = "AGENT" /\ g.subject = q.principal
     /\ IF n.tier = "AGENT" THEN n.agent = q.principal ELSE q.principal \in n.listed

(* authorized_namespaces: nothing, unless every supplied subject is trusted. *)
Authorized(q, asked) ==
  {n \in asked :
     /\ Trusted(q) = q.subjects
     /\ \E g \in grants :
          /\ g.namespace = n /\ g.capability = "READ" /\ g.from <= q.at /\ (g.until = 0 \/ g.until > q.at)
          /\ [kind |-> g.kind, id |-> g.subject] \in Trusted(q)
          /\ OpensTier(g, NamespaceOf[n], q)}

(* Mutant: the lists of access on chunks are not asked. *)
ReadableByAnyone(q, asked, c) ==
  /\ Home(c) \in Authorized(q, asked)
  /\ sourceStatus[ChunkOf[c].source] = "READY" /\ documentStatus[ChunkOf[c].source] = "READY"

(* The chunks a search may score. *)
Readable(q, asked, c) ==
  /\ Home(c) \in Authorized(q, asked)
  /\ sourceStatus[ChunkOf[c].source] = "READY" /\ documentStatus[ChunkOf[c].source] = "READY"
  /\ ChunkOf[c].acl = {} \/ \E s \in Trusted(q) : s.id \in ChunkOf[c].acl

(* ORDER BY score DESC, chunk LIMIT k. *)
Best(found, score, k) ==
  LET ahead(c) == {b \in found : score[b] > score[c] \/ (score[b] = score[c] /\ b < c)}
      size == IF Cardinality(found) < k THEN Cardinality(found) ELSE k
  IN [i \in 1..size |-> CHOOSE c \in found : Cardinality(ahead(c)) = i - 1]

(* PostgresCandidateSearch.lexical and vector. *)
Lexical(q, asked) == Best({c \in Chunk : Readable(q, asked, c) /\ ChunkOf[c].lexical > 0},
                          [c \in Chunk |-> ChunkOf[c].lexical], 3 * q.k)
Vector(q, asked) == Best({c \in Chunk : Readable(q, asked, c) /\ [chunk |-> c, embedding |-> q.embedding] \in vectors},
                         [c \in Chunk |-> ChunkOf[c].cosine], 3 * q.k)

(* The index of the namespaces holds no other embedding. *)
IndexMatches(q, asked) == \A v \in vectors : Home(v.chunk) \in Authorized(q, asked) => v.embedding = q.embedding

(* reciprocal_rank_fusion with k0 = 60, in whole parts of FusionScale: exact *)
(* for ranks up to 3, beyond which scores that differ by less than a part    *)
(* are ordered by chunk.                                                     *)
FusionScale == 61 * 62 * 63
Part(arm, c) == IF \E i \in DOMAIN arm : arm[i] = c THEN FusionScale \div (60 + (CHOOSE i \in DOMAIN arm : arm[i] = c)) ELSE 0
Fused(lexical, vector) ==
  Best(ToSet(lexical) \cup ToSet(vector), [c \in Chunk |-> Part(lexical, c) + Part(vector, c)], Cardinality(Chunk))

(* _validate_reranker_output: k of the candidates, each once. *)
Reranked(fused, k) == {s \in UNION {[1..n -> ToSet(fused)] : n \in {IF Len(fused) < k THEN Len(fused) ELSE k}} :
                         \A i, j \in DOMAIN s : i # j => s[i] # s[j]}
-----------------------------------------------------------------------------
(* RetrievalAttempt, the constraints of its table and its primary key: the   *)
(* census of the results fits the outcome, and an attempt is audited once.   *)
Insertable(a) ==
  /\ a.outcome = "ALLOWED" => a.degradation # "null"
  /\ a.outcome = "DENIED" => a.searched = {} /\ a.counts = <<0, 0>> /\ a.degradation = "null"
  /\ a.outcome # "ALLOWED" => a.chunks = <<>>
  /\ ~\E b \in attempts : b.attempt = a.attempt

Attempt(id, outcome) ==
  LET q == query[id]
  IN [attempt |-> Queries[id].attempt, query |-> id, outcome |-> outcome, searched |-> q.searched,
      counts |-> <<Len(q.lexical), Len(q.vector)>>, degradation |-> q.degradation, chunks |-> q.chunks]

(* The rows of retrieval_attempts. *)
RetrievalAttemptRows ==
  [attempt : STRING, query : DOMAIN Queries, outcome : {"ALLOWED", "DENIED", "RAG_FAILED"},
   searched : SUBSET DOMAIN NamespaceOf, counts : Nat \X Nat,
   degradation : {"null", "NONE", "LEXICAL_ONLY", "INDEX_MISMATCH", "RERANKER_FAILED"}, chunks : Seq(Chunk)]

Reach(id, step) == query' = [query EXCEPT ![id].step = step]
QueryAlone == UNCHANGED <<grants, vouched, sourceStatus, documentStatus, vectors, upsert, attempts, gone>>

(* retrieve: the namespaces are authorized, or the database fails. *)
Authorize(id) ==
  /\ query[id].step = "new" /\ ValidRequest(Queries[id])
  /\ gone' = [gone EXCEPT ![id] = {s \in DOMAIN NamespaceOfSource : sourceStatus[s] = "RETRACTED"}]
  /\ LET allowed == Authorized(Queries[id], Queries[id].namespaces)
     IN \/ query' = [query EXCEPT ![id].step = IF allowed = {} THEN "DENIED" ELSE "authorized", ![id].searched = allowed]
        \/ Reach(id, "RAG_FAILED")
  /\ UNCHANGED <<grants, vouched, sourceStatus, documentStatus, vectors, upsert, attempts>>

SearchLexical(id) ==
  /\ query[id].step = "authorized"
  /\ \/ query' = [query EXCEPT ![id].step = "lexical", ![id].lexical = Lexical(Queries[id], query[id].searched)]
     \/ Reach(id, "RAG_FAILED")
  /\ QueryAlone

(* retrieve: without the vectors the answer is degraded, not refused, when   *)
(* the database may recover or the index holds another embedding.            *)
SearchVector(id) ==
  /\ query[id].step = "lexical"
  /\ \/ /\ IndexMatches(Queries[id], query[id].searched)
        /\ query' = [query EXCEPT ![id].step = "searched", ![id].degradation = "NONE",
                                  ![id].vector = Vector(Queries[id], query[id].searched)]
     \/ /\ ~IndexMatches(Queries[id], query[id].searched)
        /\ query' = [query EXCEPT ![id].step = "searched", ![id].degradation = "INDEX_MISMATCH"]
     \/ query' = [query EXCEPT ![id].step = "searched", ![id].degradation = "LEXICAL_ONLY"]
     \/ Reach(id, "RAG_FAILED")
  /\ QueryAlone

(* retrieve: the fused order, as the reranker orders it or, when it fails,   *)
(* as it is; an expected match that finds nothing has failed.                *)
Rank(id) ==
  /\ query[id].step = "searched"
  /\ LET q == Queries[id]
         fused == Fused(query[id].lexical, query[id].vector)
         step == IF q.expected /\ fused = <<>> THEN "RAG_FAILED" ELSE "ALLOWED"
     IN \/ \E chunks \in Reranked(fused, q.k) : query' = [query EXCEPT ![id].step = step, ![id].chunks = chunks]
        \/ query' = [query EXCEPT ![id].step = step, ![id].degradation = "RERANKER_FAILED",
                                  ![id].chunks = SubSeq(fused, 1, IF Len(fused) < q.k THEN Len(fused) ELSE q.k)]
  /\ QueryAlone

(* PostgresRetrievalAudit.append, and only then the answer or the error; a   *)
(* row that is refused or not written leaves the caller an error.            *)
Audit(id) ==
  /\ query[id].step \in {"ALLOWED", "DENIED", "RAG_FAILED"}
  /\ LET a == Attempt(id, query[id].step)
     IN \/ /\ Insertable(a) /\ attempts' = attempts \cup {a}
           /\ Reach(id, IF a.outcome = "ALLOWED" THEN "answered" ELSE "error")
        \/ Reach(id, "error") /\ UNCHANGED attempts
  /\ UNCHANGED <<grants, vouched, sourceStatus, documentStatus, vectors, upsert, gone>>
-----------------------------------------------------------------------------
Writing(u) == upsert[u].step = "writing"
NamespacesOf(u) == {Home(c) : c \in ToSet(Upserts[u].items)}

(* Mutant: the index is written without the lock on its namespaces. *)
NamespaceOpen(u) == TRUE

(* pg_advisory_xact_lock of every namespace, in order. *)
NamespaceFree(u) == ~\E w \in DOMAIN Upserts \ {u} : Writing(w) /\ NamespacesOf(w) \cap NamespacesOf(u) # {}

BeginUpsert(u) ==
  /\ upsert[u].step = "new" /\ NamespaceFree(u)
  /\ upsert' = [upsert EXCEPT ![u] = [step |-> "writing", rows |-> {}]]
  /\ UNCHANGED <<grants, vouched, sourceStatus, documentStatus, vectors, query, attempts, gone>>

(* One item: the namespace's rows carry its embedding, its own rows included, *)
(* and the chunk resolves; otherwise the whole batch is rolled back.          *)
WriteItem(u) ==
  LET n == Cardinality(upsert[u].rows) + 1
      c == Upserts[u].items[n]
      seen == {v \in vectors \cup upsert[u].rows : Home(v.chunk) = Home(c)}
  IN /\ Writing(u) /\ n <= Len(Upserts[u].items)
     /\ upsert' = IF \A v \in seen : v.embedding = Upserts[u].embedding
                  THEN [upsert EXCEPT ![u].rows = @ \cup {[chunk |-> c, embedding |-> Upserts[u].embedding]}]
                  ELSE [upsert EXCEPT ![u] = [step |-> "refused", rows |-> {}]]
     /\ UNCHANGED <<grants, vouched, sourceStatus, documentStatus, vectors, query, attempts, gone>>

(* The batch is committed, or lost with its connection. *)
EndUpsert(u) ==
  /\ Writing(u)
  /\ \/ /\ Cardinality(upsert[u].rows) = Len(Upserts[u].items)
        /\ vectors' = {v \in vectors : \A r \in upsert[u].rows : r.chunk # v.chunk} \cup upsert[u].rows
        /\ upsert' = [upsert EXCEPT ![u] = [step |-> "done", rows |-> {}]]
     \/ upsert' = [upsert EXCEPT ![u] = [step |-> "refused", rows |-> {}]] /\ UNCHANGED vectors
  /\ UNCHANGED <<grants, vouched, sourceStatus, documentStatus, query, attempts, gone>>

(* delete_namespace takes no lock: it deletes the committed rows, and waits   *)
(* for a batch that has written one of them again.                           *)
DeleteNamespace(n) ==
  /\ \E v \in vectors : Home(v.chunk) = n
  /\ ~\E u \in DOMAIN Upserts : \E r \in upsert[u].rows : Home(r.chunk) = n /\ \E v \in vectors : v.chunk = r.chunk
  /\ vectors' = {v \in vectors : Home(v.chunk) # n}
  /\ UNCHANGED <<grants, vouched, sourceStatus, documentStatus, upsert, query, attempts, gone>>

(* add_grant; grants are never taken back. *)
AddGrant(g) ==
  /\ g \in Grants \ grants /\ ValidGrant(g) /\ SubjectExists(g) /\ grants' = grants \cup {g}
  /\ UNCHANGED <<vouched, sourceStatus, documentStatus, vectors, upsert, query, attempts, gone>>

(* A member leaves, an agent is retired, or replaced in a session. *)
Disown(v) ==
  /\ v \in vouched /\ vouched' = vouched \ {v}
  /\ UNCHANGED <<grants, sourceStatus, documentStatus, vectors, upsert, query, attempts, gone>>

(* Ingestion makes the document of a source ready, and the source, which the *)
(* constraint on retracted rows refuses.                                     *)
MakeReady(s) ==
  /\ documentStatus[s] = "CHUNKED" /\ sourceStatus[s] = "READY" /\ documentStatus' = [documentStatus EXCEPT ![s] = "READY"]
  /\ UNCHANGED <<grants, vouched, sourceStatus, vectors, upsert, query, attempts, gone>>

(* A source is retracted. *)
RetractSource(s) ==
  /\ sourceStatus[s] = "READY" /\ sourceStatus' = [sourceStatus EXCEPT ![s] = "RETRACTED"]
  /\ UNCHANGED <<grants, vouched, documentStatus, vectors, upsert, query, attempts, gone>>

KnowledgeInit ==
  /\ grants = {} /\ vouched = Standing
  /\ sourceStatus = [s \in DOMAIN NamespaceOfSource |-> "READY"]
  /\ documentStatus \in DocumentRows
  /\ vectors = {} /\ upsert = [u \in DOMAIN Upserts |-> [step |-> "new", rows |-> {}]]
  /\ query = [id \in DOMAIN Queries |-> [step |-> "new", searched |-> {}, lexical |-> <<>>, vector |-> <<>>,
                                         degradation |-> "null", chunks |-> <<>>]]
  /\ attempts = {} /\ gone = [id \in DOMAIN Queries |-> {}]

KnowledgeNext ==
  \/ \E id \in DOMAIN Queries : Authorize(id) \/ SearchLexical(id) \/ SearchVector(id) \/ Rank(id) \/ Audit(id)
  \/ \E u \in DOMAIN Upserts : BeginUpsert(u) \/ WriteItem(u) \/ EndUpsert(u)
  \/ \E n \in DOMAIN NamespaceOf : DeleteNamespace(n)
  \/ \E g \in Grants : AddGrant(g)
  \/ \E v \in Standing : Disown(v)
  \/ \E s \in DOMAIN NamespaceOfSource : MakeReady(s) \/ RetractSource(s)

KnowledgeSpec == KnowledgeInit /\ [][KnowledgeNext]_knowledgeVars
-----------------------------------------------------------------------------
(* The types: rows are of their tables, and one vector belongs to a chunk.   *)
KnowledgeTypeOK ==
  /\ grants \subseteq NamespaceGrantRows /\ vouched \subseteq Standing
  /\ sourceStatus \in SourceRows /\ documentStatus \in DocumentRows
  /\ vectors \subseteq VectorItems /\ \A v, w \in vectors : v.chunk = w.chunk => v = w
  /\ \A u \in DOMAIN Upserts : /\ upsert[u].step \in {"new", "writing", "done", "refused"}
                                /\ upsert[u].rows \subseteq VectorItems
  /\ \A id \in DOMAIN Queries : query[id].searched \subseteq Queries[id].namespaces
  /\ \A a \in attempts : /\ DOMAIN a = DOMAIN Attempt(a.query, a.outcome) /\ a.attempt = Queries[a.query].attempt
                          /\ a \in RetrievalAttemptRows
  /\ gone \in [DOMAIN Queries -> SUBSET DOMAIN NamespaceOfSource]
-----------------------------------------------------------------------------
(* What a caller gets is lawful although four transactions made it: every    *)
(* chunk lies in a namespace that was asked for and that a grant of the time *)
(* of the request opens to one of the subjects, its access list names one,   *)
(* its source had not been retracted when the request began; and the audit   *)
(* has, once, exactly this answer.                                           *)
AnswersAreLawful ==
  \A id \in DOMAIN Queries :
    query[id].step = "answered" =>
      LET q == Queries[id]
      IN /\ \A c \in ToSet(query[id].chunks) :
              /\ Home(c) \in query[id].searched \cap q.namespaces
              /\ \E g \in grants : g.namespace = Home(c) /\ g.capability = "READ" /\ g.from <= q.at
                                   /\ [kind |-> g.kind, id |-> g.subject] \in q.subjects
              /\ ChunkOf[c].acl = {} \/ \E s \in q.subjects : s.id \in ChunkOf[c].acl
              /\ ChunkOf[c].source \notin gone[id]
         /\ Len(query[id].chunks) <= q.k
         /\ {a \in attempts : a.attempt = q.attempt} = {Attempt(id, "ALLOWED")}

(* However batches and deletions overlap, the index of a namespace holds one *)
(* embedding identity, so that a search never compares vectors of two models *)
(* (vector_store.py upsert).                                                 *)
OneIndexIdentity == \A v, w \in vectors : Home(v.chunk) = Home(w.chunk) => v.embedding = w.embedding
=============================================================================
