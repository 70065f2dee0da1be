------------------------ MODULE KnowledgeBaseProofs ------------------------
(***************************************************************************)
(* Proofs about what a workspace knows: the vector index and the answers   *)
(* of retrieval, the history of semantic memory, and the evidence on       *)
(* formalizations.                                                         *)
(***************************************************************************)
EXTENDS Knowledge, SemanticMemory, Formalization, SequenceTheorems,
        FiniteSetTheorems, WellFoundedInduction, TLAPS

-----------------------------------------------------------------------------
(* The vector index.                                                         *)
(*                                                                           *)
(* A batch checks one item at a time against the rows it can see, which are  *)
(* the committed ones and its own.  That the index keeps one identity        *)
(* therefore rests on what it cannot see: another batch that writes now      *)
(* writes other namespaces, because of the advisory locks, and its rows are  *)
(* consistent with everything that has been committed since it wrote them.   *)

ItemRows == {[chunk |-> c, embedding |-> Upserts[u].embedding] : c \in Chunk, u \in DOMAIN Upserts}

Batches ==
  /\ upsert \in [DOMAIN Upserts -> [step : {"new", "writing", "done", "refused"}, rows : SUBSET ItemRows]]
  /\ \A u \in DOMAIN Upserts : IsFiniteSet(upsert[u].rows)

(* What a batch has written is its own: items of it, while it is open. *)
RowsAreOwn ==
  \A u \in DOMAIN Upserts : \A r \in upsert[u].rows :
    /\ Writing(u) /\ r.chunk \in ToSet(Upserts[u].items) /\ r.embedding = Upserts[u].embedding

LocksExclude ==
  \A u, w \in DOMAIN Upserts : u # w /\ Writing(u) /\ Writing(w) => NamespacesOf(w) \cap NamespacesOf(u) = {}

RowsFitIndex ==
  \A v \in vectors : \A u \in DOMAIN Upserts : \A r \in upsert[u].rows :
    Home(v.chunk) = Home(r.chunk) => v.embedding = r.embedding

IndexInv == Batches /\ RowsAreOwn /\ LocksExclude /\ RowsFitIndex /\ OneIndexIdentity

LEMMA IndexInit == KnowledgeInit => IndexInv
<1> SUFFICES ASSUME KnowledgeInit PROVE IndexInv OBVIOUS
<1>1. vectors = {} /\ upsert = [u \in DOMAIN Upserts |-> [step |-> "new", rows |-> {}]] BY DEF KnowledgeInit
<1>2. Batches BY <1>1, FS_EmptySet DEF Batches
<1> QED BY <1>1, <1>2 DEF IndexInv, RowsAreOwn, LocksExclude, RowsFitIndex, OneIndexIdentity, Writing

(* A batch that ends gives up its rows and its locks.                        *)
LEMMA BatchesEnd ==
  ASSUME Batches, RowsAreOwn, LocksExclude, NEW u \in DOMAIN Upserts, NEW s \in {"new", "writing", "done", "refused"},
         upsert' = [upsert EXCEPT ![u] = [step |-> s, rows |-> {}]],
         s = "writing" => NamespaceFree(u)
  PROVE  Batches' /\ RowsAreOwn' /\ LocksExclude'
<1>1. \A w \in DOMAIN Upserts : w # u => upsert'[w] = upsert[w] BY DEF Batches
<1>2. upsert'[u] = [step |-> s, rows |-> {}] BY DEF Batches
<1>3. Batches'
  <2>1. upsert' \in [DOMAIN Upserts -> [step : {"new", "writing", "done", "refused"}, rows : SUBSET ItemRows]]
    BY DEF Batches
  <2>2. \A w \in DOMAIN Upserts : IsFiniteSet(upsert'[w].rows)
    BY <1>1, <1>2, FS_EmptySet DEF Batches
  <2> QED BY <2>1, <2>2 DEF Batches, ItemRows, Chunk
<1>4. RowsAreOwn' BY <1>1, <1>2 DEF RowsAreOwn, Writing
<1>5. LocksExclude'
  <2> SUFFICES ASSUME NEW v \in DOMAIN Upserts, NEW w \in DOMAIN Upserts, v # w, Writing(v)', Writing(w)'
      PROVE NamespacesOf(w) \cap NamespacesOf(v) = {}
    BY DEF LocksExclude, NamespacesOf, Home
  <2>1. CASE v # u /\ w # u BY <2>1, <1>1 DEF LocksExclude, Writing
  <2>2. CASE v = u
    <3>1. s = "writing" /\ w # u /\ Writing(w) BY <2>2, <1>1, <1>2 DEF Writing
    <3> QED BY <3>1, <2>2 DEF NamespaceFree
  <2>3. CASE w = u
    <3>1. s = "writing" /\ v # u /\ Writing(v) BY <2>3, <1>1, <1>2 DEF Writing
    <3> QED BY <3>1, <2>3 DEF NamespaceFree
  <2> QED BY <2>1, <2>2, <2>3
<1> QED BY <1>3, <1>4, <1>5

LEMMA IndexBegin ==
  ASSUME IndexInv, NEW u \in DOMAIN Upserts, BeginUpsert(u) PROVE IndexInv'
<1>1. /\ upsert' = [upsert EXCEPT ![u] = [step |-> "writing", rows |-> {}]] /\ UNCHANGED vectors
      /\ NamespaceFree(u)
  BY DEF BeginUpsert
<1>2. Batches' /\ RowsAreOwn' /\ LocksExclude' BY <1>1, BatchesEnd DEF IndexInv
<1>3. RowsFitIndex'
  <2>1. \A w \in DOMAIN Upserts : upsert'[w].rows \subseteq upsert[w].rows BY <1>1 DEF IndexInv, Batches
  <2> QED BY <1>1, <2>1 DEF IndexInv, RowsFitIndex, Home
<1> QED BY <1>1, <1>2, <1>3 DEF IndexInv, OneIndexIdentity, Home

(* An item that is written is an item of the batch, in a namespace whose     *)
(* committed rows have its embedding.                                        *)
LEMMA IndexWrite ==
  ASSUME IndexInv, NEW u \in DOMAIN Upserts, WriteItem(u) PROVE IndexInv'
<1> DEFINE rows == upsert[u].rows
           n == Cardinality(rows) + 1
           c == Upserts[u].items[n]
           r == [chunk |-> c, embedding |-> Upserts[u].embedding]
           fits == \A v \in {v \in vectors \cup rows : Home(v.chunk) = Home(c)} : v.embedding = Upserts[u].embedding
<1>1. /\ Writing(u) /\ n <= Len(Upserts[u].items) /\ UNCHANGED vectors
      /\ upsert' = IF fits THEN [upsert EXCEPT ![u].rows = @ \cup {r}]
                   ELSE [upsert EXCEPT ![u] = [step |-> "refused", rows |-> {}]]
  BY DEF WriteItem
<1>2. c \in Chunk /\ c \in ToSet(Upserts[u].items)
  <2>1. Cardinality(rows) \in Nat BY FS_CardinalityType DEF IndexInv, Batches
  <2>2. Upserts[u].items \in Seq(Chunk) BY UpsertsAreBatches DEF Chunk
  <2>3. n \in DOMAIN Upserts[u].items BY <1>1, <2>1, <2>2
  <2> QED BY <2>2, <2>3 DEF ToSet
<1>3. r \in ItemRows BY <1>2 DEF ItemRows
<1>4. CASE ~fits
  <2>1. upsert' = [upsert EXCEPT ![u] = [step |-> "refused", rows |-> {}]] BY <1>1, <1>4
  <2>2. Batches' /\ RowsAreOwn' /\ LocksExclude' BY <2>1, BatchesEnd DEF IndexInv
  <2>3. \A w \in DOMAIN Upserts : upsert'[w].rows \subseteq upsert[w].rows BY <2>1 DEF IndexInv, Batches
  <2> QED BY <1>1, <2>2, <2>3 DEF IndexInv, RowsFitIndex, OneIndexIdentity, Home
<1>5. CASE fits
  <2>1. upsert' = [upsert EXCEPT ![u].rows = @ \cup {r}] BY <1>1, <1>5
  <2> HIDE DEF r
  <2>2. /\ upsert'[u].rows = rows \cup {r} /\ \A w \in DOMAIN Upserts : upsert'[w].step = upsert[w].step
        /\ \A w \in DOMAIN Upserts : w # u => upsert'[w].rows = upsert[w].rows
    BY <2>1 DEF IndexInv, Batches
  <2>3. r.chunk = c /\ r.embedding = Upserts[u].embedding BY DEF r
  <2> HIDE DEF rows, n, c, fits
  <2>4. Batches'
    <3>1. upsert' \in [DOMAIN Upserts -> [step : {"new", "writing", "done", "refused"}, rows : SUBSET ItemRows]]
      BY <2>1, <1>3 DEF IndexInv, Batches
    <3>2. IsFiniteSet(rows \cup {r}) BY FS_AddElement DEF IndexInv, Batches, rows
    <3>3. ASSUME NEW w \in DOMAIN Upserts PROVE IsFiniteSet(upsert'[w].rows)
      <4>1. CASE w = u BY <4>1, <3>2, <2>2
      <4>2. CASE w # u BY <4>2, <2>2 DEF IndexInv, Batches
      <4> QED BY <4>1, <4>2
    <3> QED BY <3>1, <3>3 DEF Batches, ItemRows, Chunk
  <2>5. RowsAreOwn' BY <2>2, <2>3, <1>1, <1>2 DEF IndexInv, RowsAreOwn, Writing, rows
  <2>6. LocksExclude' BY <2>2 DEF IndexInv, LocksExclude, Writing, NamespacesOf, Home
  <2>7. \A v \in vectors : Home(v.chunk) = Home(c) => v.embedding = Upserts[u].embedding BY <1>5 DEF fits
  <2>8. RowsFitIndex'
    <3> SUFFICES ASSUME NEW v \in vectors, NEW w \in DOMAIN Upserts, NEW x \in upsert'[w].rows, Home(v.chunk) = Home(x.chunk)
        PROVE v.embedding = x.embedding
      BY <1>1 DEF RowsFitIndex, Home
    <3>1. CASE x \in upsert[w].rows BY <3>1 DEF IndexInv, RowsFitIndex
    <3>2. CASE x \notin upsert[w].rows
      <4>1. x = r BY <3>2, <2>2 DEF rows
      <4> QED BY <4>1, <2>3, <2>7
    <3> QED BY <3>1, <3>2
  <2> QED BY <1>1, <2>4, <2>5, <2>6, <2>8 DEF IndexInv, OneIndexIdentity, Home
<1> QED BY <1>4, <1>5

LEMMA IndexEnd ==
  ASSUME IndexInv, NEW u \in DOMAIN Upserts, EndUpsert(u) PROVE IndexInv'
<1>1. Writing(u) BY DEF EndUpsert
<1>2. CASE /\ vectors' = {v \in vectors : \A r \in upsert[u].rows : r.chunk # v.chunk} \cup upsert[u].rows
           /\ upsert' = [upsert EXCEPT ![u] = [step |-> "done", rows |-> {}]]
  <2>1. Batches' /\ RowsAreOwn' /\ LocksExclude' BY <1>2, BatchesEnd DEF IndexInv
  <2>2. upsert'[u].rows = {} /\ \A w \in DOMAIN Upserts : w # u => upsert'[w] = upsert[w]
    BY <1>2 DEF IndexInv, Batches
  <2>3. \A v \in vectors' : v \in vectors \/ v \in upsert[u].rows BY <1>2
  <2>4. OneIndexIdentity'
    <3> SUFFICES ASSUME NEW v \in vectors', NEW w \in vectors', Home(v.chunk) = Home(w.chunk)
        PROVE v.embedding = w.embedding
      BY DEF OneIndexIdentity, Home
    <3>1. v \in upsert[u].rows /\ w \in upsert[u].rows => v.embedding = w.embedding BY DEF IndexInv, RowsAreOwn
    <3>2. v \in vectors /\ w \in vectors => v.embedding = w.embedding BY DEF IndexInv, OneIndexIdentity
    <3>3. v \in vectors /\ w \in upsert[u].rows => v.embedding = w.embedding BY DEF IndexInv, RowsFitIndex
    <3>4. w \in vectors /\ v \in upsert[u].rows => v.embedding = w.embedding BY DEF IndexInv, RowsFitIndex
    <3> QED BY <2>3, <3>1, <3>2, <3>3, <3>4
  <2>5. RowsFitIndex'
    <3> SUFFICES ASSUME NEW v \in vectors', NEW w \in DOMAIN Upserts, NEW x \in upsert'[w].rows, Home(v.chunk) = Home(x.chunk)
        PROVE v.embedding = x.embedding
      BY DEF RowsFitIndex, Home
    <3>1. w # u /\ x \in upsert[w].rows BY <2>2
    <3>2. CASE v \in vectors BY <3>1, <3>2 DEF IndexInv, RowsFitIndex
    <3>3. CASE v \in upsert[u].rows
      <4>1. Home(v.chunk) \in NamespacesOf(u) BY <3>3 DEF IndexInv, RowsAreOwn, NamespacesOf
      <4>2. Home(x.chunk) \in NamespacesOf(w) /\ Writing(w) BY <3>1 DEF IndexInv, RowsAreOwn, NamespacesOf
      <4> QED BY <4>1, <4>2, <1>1, <3>1 DEF IndexInv, LocksExclude
    <3> QED BY <2>3, <3>2, <3>3
  <2> QED BY <2>1, <2>4, <2>5 DEF IndexInv
<1>3. CASE upsert' = [upsert EXCEPT ![u] = [step |-> "refused", rows |-> {}]] /\ UNCHANGED vectors
  <2>1. Batches' /\ RowsAreOwn' /\ LocksExclude' BY <1>3, BatchesEnd DEF IndexInv
  <2>2. \A w \in DOMAIN Upserts : upsert'[w].rows \subseteq upsert[w].rows BY <1>3 DEF IndexInv, Batches
  <2> QED BY <1>3, <2>1, <2>2 DEF IndexInv, RowsFitIndex, OneIndexIdentity, Home
<1> QED BY <1>2, <1>3 DEF EndUpsert

LEMMA IndexShrinks ==
  ASSUME IndexInv, vectors' \subseteq vectors, upsert' = upsert PROVE IndexInv'
<1>1. Batches' BY DEF IndexInv, Batches, ItemRows, Chunk
<1>2. RowsAreOwn' /\ LocksExclude' BY DEF IndexInv, RowsAreOwn, LocksExclude, Writing, NamespacesOf, Home
<1>3. RowsFitIndex' /\ OneIndexIdentity' BY DEF IndexInv, RowsFitIndex, OneIndexIdentity, Home
<1> QED BY <1>1, <1>2, <1>3 DEF IndexInv

LEMMA IndexStep == IndexInv /\ [KnowledgeNext]_knowledgeVars => IndexInv'
<1> SUFFICES ASSUME IndexInv, [KnowledgeNext]_knowledgeVars PROVE IndexInv' OBVIOUS
<1>1. ASSUME NEW id \in DOMAIN Queries, Authorize(id) \/ SearchLexical(id) \/ SearchVector(id) \/ Rank(id) \/ Audit(id)
      PROVE IndexInv'
  <2>1. UNCHANGED <<vectors, upsert>>
    BY <1>1 DEF Authorize, SearchLexical, SearchVector, Rank, Audit, QueryAlone
  <2> QED BY <2>1, IndexShrinks
<1>2. ASSUME NEW u \in DOMAIN Upserts, BeginUpsert(u) \/ WriteItem(u) \/ EndUpsert(u) PROVE IndexInv'
  BY <1>2, IndexBegin, IndexWrite, IndexEnd
<1>3. ASSUME NEW n \in DOMAIN NamespaceOf, DeleteNamespace(n) PROVE IndexInv'
  BY <1>3, IndexShrinks DEF DeleteNamespace
<1>4. ASSUME NEW g \in Grants, AddGrant(g) PROVE IndexInv' BY <1>4, IndexShrinks DEF AddGrant
<1>5. ASSUME NEW v \in Standing, Disown(v) PROVE IndexInv' BY <1>5, IndexShrinks DEF Disown
<1>6. ASSUME NEW s \in DOMAIN NamespaceOfSource, MakeReady(s) \/ RetractSource(s) PROVE IndexInv'
  BY <1>6, IndexShrinks DEF MakeReady, RetractSource
<1>7. CASE UNCHANGED knowledgeVars BY <1>7, IndexShrinks DEF knowledgeVars
<1> QED BY <1>1, <1>2, <1>3, <1>4, <1>5, <1>6, <1>7 DEF KnowledgeNext

(* For every set of batches, however they overlap with each other and with   *)
(* deletions of namespaces: the index of a namespace has one embedding       *)
(* identity (PgVectorStore.upsert, delete_namespace).                        *)
THEOREM IndexesHaveOneIdentity == KnowledgeSpec => []OneIndexIdentity
<1>1. IndexInv => OneIndexIdentity BY DEF IndexInv
<1> QED BY IndexInit, IndexStep, <1>1, PTL DEF KnowledgeSpec
-----------------------------------------------------------------------------
(* Retrieval.                                                                *)
(*                                                                           *)
(* A ranking returns only what it ranks: the chunks ahead of one another     *)
(* are fewer and fewer, so each position up to the number found is taken.    *)

LEMMA ChunksFinite == IsFiniteSet(Chunk) /\ Chunk \subseteq Int
<1>1. PICK n \in Nat : Chunk = 1..n BY ChunksAreNumbered, FS_CardinalityType DEF Chunk
<1>2. IsFiniteSet(1..n) BY FS_Interval
<1> QED BY <1>1, <1>2

LEMMA RanksAreTaken ==
  ASSUME NEW found, IsFiniteSet(found), NEW rank \in [found -> 0..(Cardinality(found) - 1)],
         \A a, b \in found : a # b => rank[a] # rank[b],
         NEW i \in 0..(Cardinality(found) - 1)
  PROVE  \E c \in found : rank[c] = i
<1> DEFINE n == Cardinality(found)
<1>1. n \in Nat BY FS_CardinalityType
<1>2. n # 0 BY <1>1
<1> DEFINE T == 0..(n - 1)
<1>3. IsFiniteSet(T) /\ Cardinality(T) = n
  <2>1. n - 1 \in Int /\ 0 \in Int BY <1>1
  <2>2. IsFiniteSet(T) /\ Cardinality(T) = IF 0 > n - 1 THEN 0 ELSE (n - 1) - 0 + 1 BY <2>1, FS_Interval
  <2> QED BY <2>2, <1>1, <1>2
<1>4. rank \in Injection(found, T) BY DEF Injection, IsInjective
<1>5. rank \in Surjection(found, T) BY <1>3, <1>4, FS_Injection
<1> QED BY <1>5 DEF Surjection

LEMMA BestIsFound ==
  ASSUME NEW found \in SUBSET Chunk, NEW score, \A c \in found : score[c] \in Int, NEW k \in Nat
  PROVE  /\ Best(found, score, k) \in Seq(Chunk) /\ Len(Best(found, score, k)) <= k
         /\ ToSet(Best(found, score, k)) \subseteq found
<1> DEFINE ahead(c) == {b \in found : score[b] > score[c] \/ (score[b] = score[c] /\ b < c)}
           n == Cardinality(found)
           size == IF n < k THEN n ELSE k
           rank == [c \in found |-> Cardinality(ahead(c))]
<1>1. IsFiniteSet(found) /\ n \in Nat
  <2>1. IsFiniteSet(found) BY ChunksFinite, FS_Subset
  <2> QED BY <2>1, FS_CardinalityType
<1>2. \A c \in found : c \in Int BY ChunksFinite
<1>3. \A c \in found : IsFiniteSet(ahead(c)) /\ Cardinality(ahead(c)) \in Nat
  <2> SUFFICES ASSUME NEW c \in found PROVE IsFiniteSet(ahead(c)) /\ Cardinality(ahead(c)) \in Nat OBVIOUS
  <2>1. ahead(c) \in SUBSET found OBVIOUS
  <2> HIDE DEF ahead
  <2>2. IsFiniteSet(ahead(c)) BY <2>1, <1>1, FS_Subset
  <2> QED BY <2>2, FS_CardinalityType
<1>4. ASSUME NEW c \in found PROVE Cardinality(ahead(c)) \in 0..(n - 1)
  <2>1. ahead(c) \in SUBSET found /\ c \notin ahead(c) BY <1>2
  <2> HIDE DEF ahead
  <2>2. Cardinality(ahead(c)) <= n /\ (n = Cardinality(ahead(c)) => found = ahead(c)) BY <2>1, <1>1, FS_Subset
  <2> QED BY <2>1, <2>2, <1>1, <1>3
<1>5. ASSUME NEW a \in found, NEW b \in found, a \in ahead(b) PROVE Cardinality(ahead(a)) < Cardinality(ahead(b))
  <2>1. ahead(a) \in SUBSET ahead(b)
    <3> SUFFICES ASSUME NEW x \in ahead(a) PROVE x \in ahead(b) OBVIOUS
    <3>1. x \in found /\ x \in Int /\ a \in Int /\ b \in Int /\ score[x] \in Int /\ score[a] \in Int /\ score[b] \in Int
      BY <1>2
    <3>2. score[x] > score[a] \/ (score[x] = score[a] /\ x < a) OBVIOUS
    <3>3. score[a] > score[b] \/ (score[a] = score[b] /\ a < b) BY <1>5
    <3>4. score[x] > score[b] \/ (score[x] = score[b] /\ x < b) BY <3>1, <3>2, <3>3
    <3> QED BY <3>1, <3>4
  <2>2. a \in ahead(b) /\ a \notin ahead(a) BY <1>2, <1>5
  <2> HIDE DEF ahead
  <2>3. Cardinality(ahead(a)) <= Cardinality(ahead(b)) /\ (Cardinality(ahead(b)) = Cardinality(ahead(a)) => ahead(b) = ahead(a))
    BY <2>1, <1>3, FS_Subset
  <2> QED BY <2>2, <2>3, <1>3
<1>6. ASSUME NEW a \in found, NEW b \in found, a # b PROVE Cardinality(ahead(a)) # Cardinality(ahead(b))
  <2>1. a \in ahead(b) \/ b \in ahead(a)
    <3>1. a \in Int /\ b \in Int /\ score[a] \in Int /\ score[b] \in Int BY <1>2
    <3> QED BY <3>1, <1>6
  <2> HIDE DEF ahead
  <2> QED BY <2>1, <1>3, <1>5
<1> HIDE DEF ahead
<1>7. rank \in [found -> 0..(n - 1)] BY <1>4
<1>8. \A a, b \in found : a # b => rank[a] # rank[b] BY <1>6
<1> HIDE DEF rank
<1>9. ASSUME NEW i \in 0..(n - 1) PROVE \E c \in found : rank[c] = i BY <1>1, <1>7, <1>8, RanksAreTaken
<1> DEFINE best == [i \in 1..size |-> CHOOSE c \in found : Cardinality(ahead(c)) = i - 1]
<1>10. Best(found, score, k) = best BY DEF Best, ahead
<1>11. size \in Nat /\ size <= n /\ size <= k BY <1>1
<1> HIDE DEF size
<1>12. ASSUME NEW i \in 1..size PROVE best[i] \in found
  <2>1. i - 1 \in 0..(n - 1) BY <1>1, <1>11
  <2>2. \E c \in found : Cardinality(ahead(c)) = i - 1 BY <1>9, <2>1 DEF rank
  <2> QED BY <2>2
<1>13. best \in [1..size -> found] BY <1>12
<1> HIDE DEF best
<1>14. best \in Seq(found) /\ Len(best) = size /\ DOMAIN best = 1..size BY <1>11, <1>13
<1>15. ToSet(best) \subseteq found BY <1>12, <1>14 DEF ToSet
<1>16. best \in Seq(Chunk) BY <1>11, <1>13
<1> QED BY <1>10, <1>11, <1>14, <1>15, <1>16

(* The four transactions of a request decide anew what may be read; what     *)
(* each found stays lawful, since grants and retractions are not taken back. *)

QuerySteps == {"new", "authorized", "lexical", "searched", "ALLOWED", "DENIED", "RAG_FAILED", "answered", "error"}
Degradations == {"null", "NONE", "LEXICAL_ONLY", "INDEX_MISMATCH", "RERANKER_FAILED"}
AskedFor == UNION {Queries[id].namespaces : id \in DOMAIN Queries}
QueryRecords ==
  [step : QuerySteps, searched : SUBSET AskedFor, lexical : Seq(Chunk), vector : Seq(Chunk),
   degradation : Degradations, chunks : Seq(Chunk)]

QueriesTyped == query \in [DOMAIN Queries -> QueryRecords]

Lawful(id, c) ==
  /\ Home(c) \in query[id].searched \cap Queries[id].namespaces
  /\ \E g \in grants : g.namespace = Home(c) /\ g.capability = "READ" /\ g.from <= Queries[id].at
                       /\ [kind |-> g.kind, id |-> g.subject] \in Queries[id].subjects
  /\ ChunkOf[c].acl = {} \/ \E s \in Queries[id].subjects : s.id \in ChunkOf[c].acl
  /\ ChunkOf[c].source \notin gone[id]

Found(id) == ToSet(query[id].lexical) \cup ToSet(query[id].vector) \cup ToSet(query[id].chunks)

SearchedWasAsked == \A id \in DOMAIN Queries : query[id].searched \subseteq Queries[id].namespaces
NewHasNothing == \A id \in DOMAIN Queries : query[id].step = "new" => Found(id) = {}
FoundIsLawful == \A id \in DOMAIN Queries : \A c \in Found(id) : Lawful(id, c)
AnswersFit == \A id \in DOMAIN Queries : query[id].step \in {"ALLOWED", "answered"} => Len(query[id].chunks) <= Queries[id].k
GoneIsRetracted ==
  /\ DOMAIN gone = DOMAIN Queries /\ sourceStatus \in SourceRows
  /\ \A id \in DOMAIN Queries : \A s \in gone[id] : s \in DOMAIN NamespaceOfSource /\ sourceStatus[s] = "RETRACTED"
AnsweredOnce ==
  \A id \in DOMAIN Queries : query[id].step = "answered" =>
    {a \in attempts : a.attempt = Queries[id].attempt} = {Attempt(id, "ALLOWED")}

AnswerInv ==
  QueriesTyped /\ SearchedWasAsked /\ NewHasNothing /\ FoundIsLawful /\ AnswersFit /\ GoneIsRetracted /\ AnsweredOnce

LEMMA AnswersStart == KnowledgeInit => AnswerInv
<1> SUFFICES ASSUME KnowledgeInit PROVE AnswerInv OBVIOUS
<1> DEFINE q0 == [step |-> "new", searched |-> {}, lexical |-> <<>>, vector |-> <<>>, degradation |-> "null", chunks |-> <<>>]
<1>1. query = [id \in DOMAIN Queries |-> q0] /\ attempts = {} /\ gone = [id \in DOMAIN Queries |-> {}] BY DEF KnowledgeInit
<1>2. <<>> \in Seq(Chunk) OBVIOUS
<1>3. q0 \in QueryRecords BY <1>2 DEF QueryRecords, QuerySteps, Degradations
<1>4. ToSet(<<>>) = {} BY DEF ToSet
<1>5. q0.step = "new" /\ q0.searched = {} /\ q0.lexical = <<>> /\ q0.vector = <<>> /\ q0.chunks = <<>> OBVIOUS
<1> HIDE DEF q0
<1>6. \A id \in DOMAIN Queries : query[id] = q0 BY <1>1
<1>7. \A id \in DOMAIN Queries : Found(id) = {} BY <1>4, <1>5, <1>6 DEF Found
<1>8. QueriesTyped BY <1>1, <1>3 DEF QueriesTyped
<1>9. GoneIsRetracted BY <1>1 DEF GoneIsRetracted, KnowledgeInit, SourceRows
<1>10. SearchedWasAsked /\ AnswersFit /\ AnsweredOnce BY <1>5, <1>6 DEF SearchedWasAsked, AnswersFit, AnsweredOnce
<1>11. NewHasNothing /\ FoundIsLawful BY <1>7 DEF NewHasNothing, FoundIsLawful
<1> QED BY <1>8, <1>9, <1>10, <1>11 DEF AnswerInv

(* Steps of others: grants are added, sources retracted.                     *)
LEMMA AnswersUndisturbed ==
  ASSUME AnswerInv, UNCHANGED <<query, attempts, gone>>, grants \subseteq grants', sourceStatus' \in SourceRows,
         \A s \in DOMAIN NamespaceOfSource : sourceStatus[s] = "RETRACTED" => sourceStatus'[s] = "RETRACTED"
  PROVE  AnswerInv'
<1>1. QueriesTyped' BY DEF AnswerInv, QueriesTyped, QueryRecords, QuerySteps, Degradations, AskedFor, Chunk
<1>2. SearchedWasAsked' /\ AnswersFit' BY DEF AnswerInv, SearchedWasAsked, AnswersFit
<1>6. NewHasNothing'
  <2>1. \A id \in DOMAIN Queries : Found(id)' = Found(id) BY DEF Found, ToSet
  <2> QED BY <2>1 DEF AnswerInv, NewHasNothing
<1>3. FoundIsLawful'
  <2> SUFFICES ASSUME NEW id \in DOMAIN Queries, NEW c \in Found(id)' PROVE Lawful(id, c)' BY DEF FoundIsLawful
  <2>1. c \in Found(id) BY DEF Found, ToSet
  <2>2. Lawful(id, c) BY <2>1 DEF AnswerInv, FoundIsLawful
  <2> QED BY <2>2 DEF Lawful, Home
<1>4. GoneIsRetracted' BY DEF AnswerInv, GoneIsRetracted, SourceRows
<1>5. AnsweredOnce' BY DEF AnswerInv, AnsweredOnce, Attempt
<1> QED BY <1>1, <1>2, <1>3, <1>4, <1>5, <1>6 DEF AnswerInv

(* A step of one request that searches or ranks.                             *)
LEMMA AnswersMove ==
  ASSUME AnswerInv, NEW id \in DOMAIN Queries, NEW rec \in QueryRecords, query' = [query EXCEPT ![id] = rec],
         UNCHANGED <<attempts, gone, grants, sourceStatus>>,
         query[id].step \notin {"new", "answered"}, rec.step \notin {"new", "answered"}, rec.searched = query[id].searched,
         \A c \in ToSet(rec.lexical) \cup ToSet(rec.vector) \cup ToSet(rec.chunks) : Lawful(id, c),
         rec.step = "ALLOWED" => Len(rec.chunks) <= Queries[id].k
  PROVE  AnswerInv'
<1>1. query'[id] = rec /\ \A o \in DOMAIN Queries : o # id => query'[o] = query[o] BY DEF AnswerInv, QueriesTyped
<1>2. QueriesTyped'
  <2>1. query' \in [DOMAIN Queries -> QueryRecords] BY DEF AnswerInv, QueriesTyped
  <2> QED BY <2>1 DEF QueriesTyped, QueryRecords, QuerySteps, Degradations, AskedFor, Chunk
<1>3. SearchedWasAsked' BY <1>1 DEF AnswerInv, SearchedWasAsked
<1>4. \A o \in DOMAIN Queries : query'[o].searched = query[o].searched BY <1>1
<1>5. ASSUME NEW o \in DOMAIN Queries, o # id PROVE Found(o)' = Found(o) BY <1>1, <1>5 DEF Found, ToSet
<1>6. Found(id)' = ToSet(rec.lexical) \cup ToSet(rec.vector) \cup ToSet(rec.chunks) BY <1>1 DEF Found, ToSet
<1>7. NewHasNothing' BY <1>1, <1>5 DEF AnswerInv, NewHasNothing
<1>8. FoundIsLawful'
  <2> SUFFICES ASSUME NEW o \in DOMAIN Queries, NEW c \in Found(o)' PROVE Lawful(o, c)' BY DEF FoundIsLawful
  <2>1. Lawful(o, c)
    <3>1. CASE o = id BY <3>1, <1>6
    <3>2. CASE o # id BY <3>2, <1>5 DEF AnswerInv, FoundIsLawful
    <3> QED BY <3>1, <3>2
  <2> QED BY <2>1, <1>4 DEF Lawful, Home
<1>9. AnswersFit' BY <1>1 DEF AnswerInv, AnswersFit
<1>10. GoneIsRetracted' BY DEF AnswerInv, GoneIsRetracted, SourceRows
<1>11. AnsweredOnce'
  <2> SUFFICES ASSUME NEW o \in DOMAIN Queries, query'[o].step = "answered"
      PROVE {a \in attempts : a.attempt = Queries[o].attempt} = {Attempt(o, "ALLOWED")'}
    BY DEF AnsweredOnce
  <2>1. o # id /\ query'[o] = query[o] BY <1>1
  <2> QED BY <2>1 DEF AnswerInv, AnsweredOnce, Attempt
<1> QED BY <1>2, <1>3, <1>7, <1>8, <1>9, <1>10, <1>11 DEF AnswerInv

(* What a search may score is lawful.                                        *)
LEMMA ReadableIsLawful ==
  ASSUME AnswerInv, NEW id \in DOMAIN Queries, NEW c \in Chunk, Readable(Queries[id], query[id].searched, c)
  PROVE  Lawful(id, c)
<1>1. Home(c) \in query[id].searched /\ Home(c) \in Queries[id].namespaces
  BY DEF Readable, Authorized, AnswerInv, SearchedWasAsked
<1>2. \A s \in Trusted(Queries[id]) : s \in Queries[id].subjects BY DEF Trusted
<1>3. \E g \in grants : g.namespace = Home(c) /\ g.capability = "READ" /\ g.from <= Queries[id].at
                        /\ [kind |-> g.kind, id |-> g.subject] \in Queries[id].subjects
  BY <1>2 DEF Readable, Authorized
<1>4. ChunkOf[c].acl = {} \/ \E s \in Queries[id].subjects : s.id \in ChunkOf[c].acl BY <1>2 DEF Readable
<1>5. ChunkOf[c].source \notin gone[id] BY DEF Readable, AnswerInv, GoneIsRetracted
<1> QED BY <1>1, <1>3, <1>4, <1>5 DEF Lawful

LEMMA SearchesFind ==
  ASSUME AnswerInv, NEW id \in DOMAIN Queries
  PROVE  /\ Lexical(Queries[id], query[id].searched) \in Seq(Chunk)
         /\ \A c \in ToSet(Lexical(Queries[id], query[id].searched)) : Lawful(id, c)
         /\ Vector(Queries[id], query[id].searched) \in Seq(Chunk)
         /\ \A c \in ToSet(Vector(Queries[id], query[id].searched)) : Lawful(id, c)
<1> DEFINE q == Queries[id]
           asked == query[id].searched
           byText == {c \in Chunk : Readable(q, asked, c) /\ ChunkOf[c].lexical > 0}
           byVector == {c \in Chunk : Readable(q, asked, c) /\ [chunk |-> c, embedding |-> q.embedding] \in vectors}
           text == [c \in Chunk |-> ChunkOf[c].lexical]
           cosine == [c \in Chunk |-> ChunkOf[c].cosine]
<1>1. 3 * q.k \in Nat BY QueriesWantResults
<1>2. byText \in SUBSET Chunk /\ byVector \in SUBSET Chunk OBVIOUS
<1>3. (\A c \in byText : text[c] \in Int) /\ \A c \in byVector : cosine[c] \in Int BY ScoresAreNumbers DEF Chunk
<1>4. \A c \in byText \cup byVector : Lawful(id, c) BY ReadableIsLawful
<1>5. Lexical(q, asked) = Best(byText, text, 3 * q.k) /\ Vector(q, asked) = Best(byVector, cosine, 3 * q.k) BY DEF Lexical, Vector
<1> HIDE DEF byText, byVector, text, cosine
<1> DEFINE k == 3 * q.k
<1> HIDE DEF k
<1>6. k \in Nat BY <1>1 DEF k
<1>7. Best(byText, text, k) \in Seq(Chunk) /\ ToSet(Best(byText, text, k)) \subseteq byText BY <1>2, <1>3, <1>6, BestIsFound
<1>8. Best(byVector, cosine, k) \in Seq(Chunk) /\ ToSet(Best(byVector, cosine, k)) \subseteq byVector BY <1>2, <1>3, <1>6, BestIsFound
<1> QED BY <1>4, <1>5, <1>7, <1>8 DEF k

(* Fusion ranks what the two searches have found, and nothing else.          *)
LEMMA FusionFinds ==
  ASSUME NEW lexical \in Seq(Chunk), NEW vector \in Seq(Chunk)
  PROVE  Fused(lexical, vector) \in Seq(Chunk) /\ ToSet(Fused(lexical, vector)) \subseteq ToSet(lexical) \cup ToSet(vector)
<1> DEFINE found == ToSet(lexical) \cup ToSet(vector)
           score == [c \in Chunk |-> Part(lexical, c) + Part(vector, c)]
<1>1. \A arm \in Seq(Chunk) : \A c : Part(arm, c) \in Int
  <2> SUFFICES ASSUME NEW arm \in Seq(Chunk), NEW c, \E i \in DOMAIN arm : arm[i] = c PROVE Part(arm, c) \in Int
    BY DEF Part
  <2> DEFINE i == CHOOSE i \in DOMAIN arm : arm[i] = c
  <2>1. i \in DOMAIN arm OBVIOUS
  <2>2. i \in Nat /\ i >= 1 BY <2>1
  <2> HIDE DEF i
  <2>3. FusionScale \in Int BY DEF FusionScale
  <2>4. FusionScale \div (60 + i) \in Int BY <2>2, <2>3
  <2> QED BY <2>4 DEF Part, i
<1>2. \A c \in Chunk : score[c] \in Int BY <1>1
<1>3. found \in SUBSET Chunk BY DEF ToSet
<1>4. Cardinality(Chunk) \in Nat BY ChunksFinite, FS_CardinalityType
<1>5. Fused(lexical, vector) = Best(found, score, Cardinality(Chunk)) BY DEF Fused
<1> HIDE DEF found, score
<1>6. \A c \in found : score[c] \in Int BY <1>2, <1>3
<1>7. Best(found, score, Cardinality(Chunk)) \in Seq(Chunk) /\ ToSet(Best(found, score, Cardinality(Chunk))) \subseteq found
  BY <1>3, <1>4, <1>6, BestIsFound
<1> QED BY <1>5, <1>7 DEF found

LEMMA AnswersFail ==
  ASSUME AnswerInv, NEW id \in DOMAIN Queries, NEW st \in {"RAG_FAILED", "error"}, Reach(id, st),
         UNCHANGED <<attempts, gone, grants, sourceStatus>>, query[id].step \notin {"new", "answered"}
  PROVE  AnswerInv'
<1> DEFINE rec == [query[id] EXCEPT !.step = st]
<1>1. query[id] \in QueryRecords BY DEF AnswerInv, QueriesTyped
<1>2. rec \in QueryRecords BY <1>1 DEF QueryRecords, QuerySteps
<1>3. /\ rec.step = st /\ rec.searched = query[id].searched /\ rec.lexical = query[id].lexical
      /\ rec.vector = query[id].vector /\ rec.chunks = query[id].chunks
  BY <1>1 DEF QueryRecords
<1>4. query' = [query EXCEPT ![id] = rec] BY DEF Reach, AnswerInv, QueriesTyped
<1> HIDE DEF rec
<1>5. \A c \in ToSet(rec.lexical) \cup ToSet(rec.vector) \cup ToSet(rec.chunks) : Lawful(id, c)
  BY <1>3 DEF AnswerInv, FoundIsLawful, Found
<1> QED BY <1>2, <1>3, <1>4, <1>5, AnswersMove

LEMMA AnswersLexical ==
  ASSUME AnswerInv, NEW id \in DOMAIN Queries, SearchLexical(id) PROVE AnswerInv'
<1>1. query[id].step = "authorized" /\ UNCHANGED <<attempts, gone, grants, sourceStatus>> BY DEF SearchLexical, QueryAlone
<1>2. CASE Reach(id, "RAG_FAILED") BY <1>1, <1>2, AnswersFail
<1>3. CASE query' = [query EXCEPT ![id].step = "lexical", ![id].lexical = Lexical(Queries[id], query[id].searched)]
  <2> DEFINE hits == Lexical(Queries[id], query[id].searched)
             rec == [query[id] EXCEPT !.step = "lexical", !.lexical = hits]
  <2>1. hits \in Seq(Chunk) /\ \A c \in ToSet(hits) : Lawful(id, c) BY SearchesFind
  <2>2. query' = [query EXCEPT ![id].step = "lexical", ![id].lexical = hits] BY <1>3
  <2> HIDE DEF hits
  <2>3. query[id] \in QueryRecords BY DEF AnswerInv, QueriesTyped
  <2>4. rec \in QueryRecords BY <2>1, <2>3 DEF QueryRecords, QuerySteps
  <2>5. /\ rec.step = "lexical" /\ rec.searched = query[id].searched /\ rec.lexical = hits
        /\ rec.vector = query[id].vector /\ rec.chunks = query[id].chunks
    BY <2>3 DEF QueryRecords
  <2>6. query' = [query EXCEPT ![id] = rec] BY <2>2, <2>3 DEF AnswerInv, QueriesTyped, QueryRecords
  <2> HIDE DEF rec
  <2>7. \A c \in ToSet(rec.lexical) \cup ToSet(rec.vector) \cup ToSet(rec.chunks) : Lawful(id, c)
    BY <2>1, <2>5 DEF AnswerInv, FoundIsLawful, Found
  <2> QED BY <1>1, <2>4, <2>5, <2>6, <2>7, AnswersMove
<1> QED BY <1>2, <1>3 DEF SearchLexical

LEMMA AnswersVector ==
  ASSUME AnswerInv, NEW id \in DOMAIN Queries, SearchVector(id) PROVE AnswerInv'
<1>1. query[id].step = "lexical" /\ UNCHANGED <<attempts, gone, grants, sourceStatus>> BY DEF SearchVector, QueryAlone
<1>2. CASE Reach(id, "RAG_FAILED") BY <1>1, <1>2, AnswersFail
<1>3. query[id] \in QueryRecords BY DEF AnswerInv, QueriesTyped
<1>4. ASSUME NEW hits \in Seq(Chunk), NEW d \in Degradations, \A c \in ToSet(hits) : Lawful(id, c),
             query' = [query EXCEPT ![id].step = "searched", ![id].degradation = d, ![id].vector = hits]
      PROVE  AnswerInv'
  <2> DEFINE rec == [query[id] EXCEPT !.step = "searched", !.degradation = d, !.vector = hits]
  <2>1. rec \in QueryRecords BY <1>3 DEF QueryRecords, QuerySteps
  <2>2. /\ rec.step = "searched" /\ rec.searched = query[id].searched /\ rec.lexical = query[id].lexical
        /\ rec.vector = hits /\ rec.chunks = query[id].chunks
    BY <1>3 DEF QueryRecords
  <2>3. query' = [query EXCEPT ![id] = rec] BY <1>3, <1>4 DEF AnswerInv, QueriesTyped, QueryRecords
  <2> HIDE DEF rec
  <2>4. \A c \in ToSet(rec.lexical) \cup ToSet(rec.vector) \cup ToSet(rec.chunks) : Lawful(id, c)
    BY <1>4, <2>2 DEF AnswerInv, FoundIsLawful, Found
  <2> QED BY <1>1, <2>1, <2>2, <2>3, <2>4, AnswersMove
<1>5. CASE query' = [query EXCEPT ![id].step = "searched", ![id].degradation = "NONE",
                                  ![id].vector = Vector(Queries[id], query[id].searched)]
  <2>1. Vector(Queries[id], query[id].searched) \in Seq(Chunk) /\ \A c \in ToSet(Vector(Queries[id], query[id].searched)) : Lawful(id, c)
    BY SearchesFind
  <2> QED BY <1>4, <1>5, <2>1 DEF Degradations
<1>6. ASSUME NEW d \in {"INDEX_MISMATCH", "LEXICAL_ONLY"}, query' = [query EXCEPT ![id].step = "searched", ![id].degradation = d]
      PROVE  AnswerInv'
  <2> DEFINE hits == query[id].vector
  <2>1. hits \in Seq(Chunk) BY <1>3 DEF QueryRecords
  <2>2. \A c \in ToSet(hits) : Lawful(id, c) BY DEF AnswerInv, FoundIsLawful, Found
  <2>3. query' = [query EXCEPT ![id].step = "searched", ![id].degradation = d, ![id].vector = hits]
    BY <1>3, <1>6 DEF AnswerInv, QueriesTyped, QueryRecords
  <2> HIDE DEF hits
  <2> QED BY <1>4, <2>1, <2>2, <2>3 DEF Degradations
<1> QED BY <1>2, <1>5, <1>6 DEF SearchVector

LEMMA AnswersRank ==
  ASSUME AnswerInv, NEW id \in DOMAIN Queries, Rank(id) PROVE AnswerInv'
<1> DEFINE q == Queries[id]
           fused == Fused(query[id].lexical, query[id].vector)
           st == IF q.expected /\ fused = <<>> THEN "RAG_FAILED" ELSE "ALLOWED"
           size == IF Len(fused) < q.k THEN Len(fused) ELSE q.k
<1>1. query[id].step = "searched" /\ UNCHANGED <<attempts, gone, grants, sourceStatus>> BY DEF Rank, QueryAlone
<1>2. query[id] \in QueryRecords BY DEF AnswerInv, QueriesTyped
<1>3. query[id].lexical \in Seq(Chunk) /\ query[id].vector \in Seq(Chunk) BY <1>2 DEF QueryRecords
<1>4. fused \in Seq(Chunk) /\ \A c \in ToSet(fused) : Lawful(id, c)
  <2>1. fused \in Seq(Chunk) /\ ToSet(fused) \subseteq ToSet(query[id].lexical) \cup ToSet(query[id].vector) BY <1>3, FusionFinds
  <2> QED BY <2>1 DEF AnswerInv, FoundIsLawful, Found
<1>5. q.k \in Nat BY QueriesWantResults
<1>6. \/ \E chunks \in Reranked(fused, q.k) : query' = [query EXCEPT ![id].step = st, ![id].chunks = chunks]
      \/ query' = [query EXCEPT ![id].step = st, ![id].degradation = "RERANKER_FAILED", ![id].chunks = SubSeq(fused, 1, size)]
  BY DEF Rank
<1>7. st \in {"RAG_FAILED", "ALLOWED"} OBVIOUS
<1> HIDE DEF fused, st
<1>8. size \in Nat /\ size <= Len(fused) /\ size <= q.k
  <2>1. Len(fused) \in Nat BY <1>4
  <2> QED BY <2>1, <1>5
<1>9. ASSUME NEW chunks \in Seq(Chunk), NEW d \in Degradations, ToSet(chunks) \subseteq ToSet(fused), Len(chunks) <= q.k,
             query' = [query EXCEPT ![id].step = st, ![id].degradation = d, ![id].chunks = chunks]
      PROVE  AnswerInv'
  <2> DEFINE rec == [query[id] EXCEPT !.step = st, !.degradation = d, !.chunks = chunks]
  <2>1. rec \in QueryRecords BY <1>2, <1>7 DEF QueryRecords, QuerySteps
  <2>2. /\ rec.step = st /\ rec.searched = query[id].searched /\ rec.lexical = query[id].lexical
        /\ rec.vector = query[id].vector /\ rec.chunks = chunks
    BY <1>2 DEF QueryRecords
  <2>3. query' = [query EXCEPT ![id] = rec] BY <1>2, <1>9 DEF AnswerInv, QueriesTyped, QueryRecords
  <2> HIDE DEF rec
  <2>4. \A c \in ToSet(rec.lexical) \cup ToSet(rec.vector) \cup ToSet(rec.chunks) : Lawful(id, c)
    BY <1>4, <1>9, <2>2 DEF AnswerInv, FoundIsLawful, Found
  <2>5. Len(rec.chunks) <= Queries[id].k BY <1>9, <2>2
  <2> QED BY <1>1, <1>7, <2>1, <2>2, <2>3, <2>4, <2>5, AnswersMove
<1>10. CASE \E chunks \in Reranked(fused, q.k) : query' = [query EXCEPT ![id].step = st, ![id].chunks = chunks]
  <2>1. PICK chunks \in Reranked(fused, q.k) : query' = [query EXCEPT ![id].step = st, ![id].chunks = chunks] BY <1>10
  <2>2. chunks \in [1..size -> ToSet(fused)] BY DEF Reranked
  <2> HIDE DEF size
  <2>3. ToSet(fused) \subseteq Chunk BY <1>4 DEF ToSet
  <2>4. chunks \in Seq(Chunk) /\ Len(chunks) = size /\ DOMAIN chunks = 1..size BY <1>8, <2>2, <2>3
  <2>5. ToSet(chunks) \subseteq ToSet(fused)
    <3> SUFFICES ASSUME NEW i \in DOMAIN chunks PROVE chunks[i] \in ToSet(fused) BY DEF ToSet
    <3> QED BY <2>2, <2>4
  <2>6. Len(chunks) <= q.k BY <1>8, <2>4
  <2> DEFINE d == query[id].degradation
  <2>7. d \in Degradations BY <1>2 DEF QueryRecords
  <2>8. query' = [query EXCEPT ![id].step = st, ![id].degradation = d, ![id].chunks = chunks]
    BY <1>2, <2>1 DEF AnswerInv, QueriesTyped, QueryRecords
  <2> HIDE DEF d
  <2> QED BY <1>9, <2>4, <2>5, <2>6, <2>7, <2>8
<1>11. CASE query' = [query EXCEPT ![id].step = st, ![id].degradation = "RERANKER_FAILED", ![id].chunks = SubSeq(fused, 1, size)]
  <2> DEFINE chunks == SubSeq(fused, 1, size)
  <2> HIDE DEF size
  <2>1. /\ chunks \in Seq(Chunk) /\ Len(chunks) = size
        /\ \A i \in DOMAIN chunks : i \in DOMAIN fused /\ chunks[i] = fused[i]
    BY <1>4, <1>8
  <2> HIDE DEF chunks
  <2>2. ToSet(chunks) \subseteq ToSet(fused) BY <2>1 DEF ToSet
  <2>3. Len(chunks) <= q.k BY <2>1, <1>8
  <2> QED BY <1>9, <1>11, <2>1, <2>2, <2>3 DEF Degradations, chunks
<1> QED BY <1>6, <1>10, <1>11

LEMMA AnswersAuthorize ==
  ASSUME AnswerInv, NEW id \in DOMAIN Queries, Authorize(id) PROVE AnswerInv'
<1> DEFINE retracted == {s \in DOMAIN NamespaceOfSource : sourceStatus[s] = "RETRACTED"}
           allowed == Authorized(Queries[id], Queries[id].namespaces)
<1>1. /\ query[id].step = "new" /\ gone' = [gone EXCEPT ![id] = retracted]
      /\ UNCHANGED <<attempts, grants, sourceStatus>>
  BY DEF Authorize
<1>2. query[id] \in QueryRecords BY DEF AnswerInv, QueriesTyped
<1>3. \E st \in {"DENIED", "authorized", "RAG_FAILED"}, ns \in SUBSET Queries[id].namespaces :
        query' = [query EXCEPT ![id].step = st, ![id].searched = ns]
  <2>1. CASE Reach(id, "RAG_FAILED")
    <3>1. query' = [query EXCEPT ![id].step = "RAG_FAILED", ![id].searched = query[id].searched]
      BY <2>1, <1>2 DEF Reach, AnswerInv, QueriesTyped, QueryRecords
    <3>2. query[id].searched \in SUBSET Queries[id].namespaces BY DEF AnswerInv, SearchedWasAsked
    <3> QED BY <3>1, <3>2
  <2>2. CASE query' = [query EXCEPT ![id].step = IF allowed = {} THEN "DENIED" ELSE "authorized", ![id].searched = allowed]
    <3>1. allowed \in SUBSET Queries[id].namespaces BY DEF Authorized
    <3> HIDE DEF allowed
    <3> QED BY <2>2, <3>1
  <2> QED BY <2>1, <2>2 DEF Authorize
<1>4. PICK st \in {"DENIED", "authorized", "RAG_FAILED"}, ns \in SUBSET Queries[id].namespaces :
        query' = [query EXCEPT ![id].step = st, ![id].searched = ns]
  BY <1>3
<1> DEFINE rec == [query[id] EXCEPT !.step = st, !.searched = ns]
<1>5. ns \in SUBSET AskedFor BY DEF AskedFor
<1>6. rec \in QueryRecords BY <1>2, <1>5 DEF QueryRecords, QuerySteps
<1>7. /\ rec.step = st /\ rec.searched = ns /\ rec.lexical = query[id].lexical
      /\ rec.vector = query[id].vector /\ rec.chunks = query[id].chunks
  BY <1>2 DEF QueryRecords
<1>8. query' = [query EXCEPT ![id] = rec] BY <1>2, <1>4 DEF AnswerInv, QueriesTyped, QueryRecords
<1> HIDE DEF rec
<1>9. query'[id] = rec /\ \A o \in DOMAIN Queries : o # id => query'[o] = query[o] BY <1>8 DEF AnswerInv, QueriesTyped
<1>10. gone'[id] = retracted /\ DOMAIN gone' = DOMAIN Queries /\ \A o \in DOMAIN Queries : o # id => gone'[o] = gone[o]
  BY <1>1 DEF AnswerInv, GoneIsRetracted
<1>11. QueriesTyped'
  <2>1. query' \in [DOMAIN Queries -> QueryRecords] BY <1>6, <1>8 DEF AnswerInv, QueriesTyped
  <2> QED BY <2>1 DEF QueriesTyped, QueryRecords, QuerySteps, Degradations, AskedFor, Chunk
<1>12. SearchedWasAsked' BY <1>7, <1>9 DEF AnswerInv, SearchedWasAsked
<1>13. ASSUME NEW o \in DOMAIN Queries PROVE Found(o)' = Found(o)
  <2>1. query'[o].lexical = query[o].lexical /\ query'[o].vector = query[o].vector /\ query'[o].chunks = query[o].chunks
    BY <1>7, <1>9
  <2> QED BY <2>1 DEF Found, ToSet
<1>14. Found(id) = {} BY <1>1 DEF AnswerInv, NewHasNothing
<1>15. NewHasNothing' BY <1>13, <1>14, <1>9 DEF AnswerInv, NewHasNothing
<1>16. FoundIsLawful'
  <2> SUFFICES ASSUME NEW o \in DOMAIN Queries, NEW c \in Found(o)' PROVE Lawful(o, c)' BY DEF FoundIsLawful
  <2>1. o # id /\ Lawful(o, c) BY <1>13, <1>14 DEF AnswerInv, FoundIsLawful
  <2> QED BY <2>1, <1>1, <1>9, <1>10 DEF Lawful, Home
<1>17. AnswersFit' BY <1>7, <1>9 DEF AnswerInv, AnswersFit
<1>18. GoneIsRetracted' BY <1>1, <1>10 DEF AnswerInv, GoneIsRetracted, SourceRows
<1>19. AnsweredOnce'
  <2> SUFFICES ASSUME NEW o \in DOMAIN Queries, query'[o].step = "answered"
      PROVE {a \in attempts : a.attempt = Queries[o].attempt} = {Attempt(o, "ALLOWED")'}
    BY <1>1 DEF AnsweredOnce
  <2>1. o # id /\ query'[o] = query[o] BY <1>7, <1>9
  <2> QED BY <2>1 DEF AnswerInv, AnsweredOnce, Attempt
<1> QED BY <1>11, <1>12, <1>15, <1>16, <1>17, <1>18, <1>19 DEF AnswerInv

(* An answer leaves with its row in the audit, the only one of its attempt.  *)
LEMMA AnswersAudit ==
  ASSUME AnswerInv, NEW id \in DOMAIN Queries, Audit(id) PROVE AnswerInv'
<1> DEFINE out == query[id].step
           a == Attempt(id, out)
           st == IF a.outcome = "ALLOWED" THEN "answered" ELSE "error"
<1>1. out \in {"ALLOWED", "DENIED", "RAG_FAILED"} /\ UNCHANGED <<grants, sourceStatus, gone>> BY DEF Audit
<1>2. CASE Reach(id, "error") /\ UNCHANGED attempts BY <1>1, <1>2, AnswersFail
<1>3. CASE Insertable(a) /\ attempts' = attempts \cup {a} /\ Reach(id, st)
  <2>1. a.attempt = Queries[id].attempt /\ a.outcome = out BY DEF Attempt
  <2>2. st \in {"answered", "error"} /\ (st = "answered" => out = "ALLOWED") BY <2>1
  <2>3. ~\E b \in attempts : b.attempt = Queries[id].attempt BY <1>3, <2>1 DEF Insertable
  <2> HIDE DEF st
  <2> DEFINE rec == [query[id] EXCEPT !.step = st]
  <2>4. query[id] \in QueryRecords BY DEF AnswerInv, QueriesTyped
  <2>5. rec \in QueryRecords BY <2>2, <2>4 DEF QueryRecords, QuerySteps
  <2>6. /\ rec.step = st /\ rec.searched = query[id].searched /\ rec.lexical = query[id].lexical
        /\ rec.vector = query[id].vector /\ rec.chunks = query[id].chunks /\ rec.degradation = query[id].degradation
    BY <2>4 DEF QueryRecords
  <2>7. query' = [query EXCEPT ![id] = rec] BY <1>3 DEF Reach, AnswerInv, QueriesTyped
  <2> HIDE DEF rec
  <2>8. query'[id] = rec /\ \A o \in DOMAIN Queries : o # id => query'[o] = query[o] BY <2>7 DEF AnswerInv, QueriesTyped
  <2>9. QueriesTyped'
    <3>1. query' \in [DOMAIN Queries -> QueryRecords] BY <2>5, <2>7 DEF AnswerInv, QueriesTyped
    <3> QED BY <3>1 DEF QueriesTyped, QueryRecords, QuerySteps, Degradations, AskedFor, Chunk
  <2>10. \A o \in DOMAIN Queries : /\ query'[o].searched = query[o].searched /\ query'[o].lexical = query[o].lexical
                                   /\ query'[o].vector = query[o].vector /\ query'[o].chunks = query[o].chunks
                                   /\ query'[o].degradation = query[o].degradation
    BY <2>6, <2>8
  <2>11. SearchedWasAsked' BY <2>10 DEF AnswerInv, SearchedWasAsked
  <2>12. \A o \in DOMAIN Queries : Found(o)' = Found(o) BY <2>10 DEF Found, ToSet
  <2>13. NewHasNothing' BY <2>2, <2>6, <2>8, <2>12 DEF AnswerInv, NewHasNothing
  <2>14. FoundIsLawful'
    <3> SUFFICES ASSUME NEW o \in DOMAIN Queries, NEW c \in Found(o)' PROVE Lawful(o, c)' BY DEF FoundIsLawful
    <3>1. Lawful(o, c) BY <2>12 DEF AnswerInv, FoundIsLawful
    <3> QED BY <3>1, <1>1, <2>10 DEF Lawful, Home
  <2>15. AnswersFit'
    <3> SUFFICES ASSUME NEW o \in DOMAIN Queries, query'[o].step \in {"ALLOWED", "answered"}
        PROVE Len(query[o].chunks) <= Queries[o].k
      BY <2>10 DEF AnswersFit
    <3>1. query[o].step \in {"ALLOWED", "answered"} BY <2>2, <2>6, <2>8
    <3> QED BY <3>1 DEF AnswerInv, AnswersFit
  <2>16. GoneIsRetracted' BY <1>1 DEF AnswerInv, GoneIsRetracted, SourceRows
  <2>17. \A o \in DOMAIN Queries : Attempt(o, "ALLOWED")' = Attempt(o, "ALLOWED") BY <2>10 DEF Attempt
  <2>18. AnsweredOnce'
    <3> SUFFICES ASSUME NEW o \in DOMAIN Queries, query'[o].step = "answered"
        PROVE {b \in attempts' : b.attempt = Queries[o].attempt} = {Attempt(o, "ALLOWED")}
      BY <2>17 DEF AnsweredOnce
    <3>1. CASE o = id
      <4>1. out = "ALLOWED" BY <3>1, <2>2, <2>6, <2>8
      <4> QED BY <4>1, <3>1, <1>3, <2>1, <2>3
    <3>2. CASE o # id
      <4>1. {b \in attempts : b.attempt = Queries[o].attempt} = {Attempt(o, "ALLOWED")}
        BY <3>2, <2>8 DEF AnswerInv, AnsweredOnce
      <4>2. Queries[o].attempt # a.attempt
        <5>1. \E b \in attempts : b.attempt = Queries[o].attempt BY <4>1
        <5> QED BY <5>1, <2>1, <2>3
      <4> QED BY <4>1, <4>2, <1>3
    <3> QED BY <3>1, <3>2
  <2> QED BY <2>9, <2>11, <2>13, <2>14, <2>15, <2>16, <2>18 DEF AnswerInv
<1> QED BY <1>2, <1>3 DEF Audit

LEMMA AnswersStep == AnswerInv /\ [KnowledgeNext]_knowledgeVars => AnswerInv'
<1> SUFFICES ASSUME AnswerInv, [KnowledgeNext]_knowledgeVars PROVE AnswerInv' OBVIOUS
<1>1. ASSUME NEW id \in DOMAIN Queries, Authorize(id) \/ SearchLexical(id) \/ SearchVector(id) \/ Rank(id) \/ Audit(id)
      PROVE AnswerInv'
  BY <1>1, AnswersAuthorize, AnswersLexical, AnswersVector, AnswersRank, AnswersAudit
<1>2. sourceStatus \in SourceRows BY DEF AnswerInv, GoneIsRetracted
<1>3. ASSUME UNCHANGED <<query, attempts, gone, sourceStatus>>, grants \subseteq grants' PROVE AnswerInv'
  BY <1>2, <1>3, AnswersUndisturbed
<1>4. ASSUME NEW u \in DOMAIN Upserts, BeginUpsert(u) \/ WriteItem(u) \/ EndUpsert(u) PROVE AnswerInv'
  BY <1>3, <1>4 DEF BeginUpsert, WriteItem, EndUpsert
<1>5. ASSUME NEW n \in DOMAIN NamespaceOf, DeleteNamespace(n) PROVE AnswerInv' BY <1>3, <1>5 DEF DeleteNamespace
<1>6. ASSUME NEW g \in Grants, AddGrant(g) PROVE AnswerInv' BY <1>3, <1>6 DEF AddGrant
<1>7. ASSUME NEW v \in Standing, Disown(v) PROVE AnswerInv' BY <1>3, <1>7 DEF Disown
<1>8. ASSUME NEW s \in DOMAIN NamespaceOfSource, MakeReady(s) PROVE AnswerInv' BY <1>3, <1>8 DEF MakeReady
<1>9. ASSUME NEW s \in DOMAIN NamespaceOfSource, RetractSource(s) PROVE AnswerInv'
  <2>1. /\ sourceStatus' \in SourceRows
        /\ \A t \in DOMAIN NamespaceOfSource : sourceStatus[t] = "RETRACTED" => sourceStatus'[t] = "RETRACTED"
    BY <1>2, <1>9 DEF RetractSource, SourceRows
  <2> QED BY <1>9, <2>1, AnswersUndisturbed DEF RetractSource
<1>10. CASE UNCHANGED knowledgeVars BY <1>3, <1>10 DEF knowledgeVars
<1> QED BY <1>1, <1>4, <1>5, <1>6, <1>7, <1>8, <1>9, <1>10 DEF KnowledgeNext

(* For every set of namespaces, chunks, grants and requests: although four   *)
(* transactions made the answer and grants, standing, sources and the index  *)
(* changed between them, each of its chunks was asked for, granted to one of *)
(* the subjects, open to one of them and not of a source already retracted   *)
(* when the request began, there are at most final_k, and the audit has this *)
(* answer as the one row of its attempt (RetrievalService.retrieve).         *)
THEOREM AnswersStayLawful == KnowledgeSpec => []AnswersAreLawful
<1>1. AnswerInv => AnswersAreLawful
  <2> SUFFICES ASSUME AnswerInv, NEW id \in DOMAIN Queries, query[id].step = "answered"
      PROVE /\ \A c \in ToSet(query[id].chunks) : Lawful(id, c)
            /\ Len(query[id].chunks) <= Queries[id].k
            /\ {a \in attempts : a.attempt = Queries[id].attempt} = {Attempt(id, "ALLOWED")}
    BY DEF AnswersAreLawful, Lawful
  <2> QED BY DEF AnswerInv, FoundIsLawful, Found, AnswersFit, AnsweredOnce
<1> QED BY AnswersStart, AnswersStep, <1>1, PTL DEF KnowledgeSpec

-----------------------------------------------------------------------------
(* Semantic memory.                                                          *)
(*                                                                           *)
(* Promotions and retentions check first and write later.  The unique        *)
(* constraints keep entries apart that have been inserted, committed or not; *)
(* entries are never deleted, so a predecessor that was found stays.  The    *)
(* lock of the trigger leaves one uncommitted event on an entry, which is    *)
(* later and older in state than every event of it.                          *)

MemorySteps == {"new", "checked", "inserted", "committed", "refused"}
MemoryIds == DOMAIN Promotions \cup DOMAIN Retentions
Held(id) == memoryTx[id].step \in {"checked", "inserted", "committed"}
Kept(id) == memoryTx[id].step \in {"inserted", "committed"}

MemoryTables ==
  /\ artifact \in [Artifacts -> {"ACTIVE", "RETIRED"}] /\ people \subseteq Members
  /\ memoryTx \in [MemoryIds -> MemoryTransactions]

EntriesAreCommitted == entries = {Row(id) : id \in {p \in DOMAIN Promotions : At(p, "committed")}}

EntriesDiffer ==
  \A p, q \in DOMAIN Promotions : p # q /\ Kept(p) /\ Kept(q) => ~Conflicts(Row(p), Row(q))

Follows(p) ==
  \E f \in entries : /\ f.entry = Promotions[p].supersedes /\ f.namespace = Promotions[p].namespace
                     /\ memoryTx[p].version = f.version + 1
VersionsFollow ==
  \A p \in DOMAIN Promotions :
    Held(p) => memoryTx[p].version # 0 /\ (Promotions[p].supersedes # NoEntry => Follows(p))

PromotionInv == MemoryTables /\ EntriesAreCommitted /\ EntriesDiffer /\ VersionsFollow

Older(k, l) == k.at < l.at /\ k.state = "STALE" /\ l.state = "ARCHIVED"
InLine(events) == \A k, l \in events : k = l \/ Older(k, l) \/ Older(l, k)

EventsKnown == lifecycle \subseteq LifecycleEventRows /\ \A l \in lifecycle : Entry(l.entry) # {}
EventsInLine == \A k, l \in lifecycle : k.entry = l.entry => k = l \/ Older(k, l) \/ Older(l, k)
RetentionsHeld ==
  \A r \in DOMAIN Retentions :
    Held(r) => Retentions[r].state \in {"STALE", "ARCHIVED"} /\ Entry(Retentions[r].entry) # {}
RetentionsFit ==
  \A r \in DOMAIN Retentions : At(r, "inserted") =>
    /\ \A s \in DOMAIN Retentions : s # r /\ At(s, "inserted") => Retentions[s].entry # Retentions[r].entry
    /\ \A l \in lifecycle : l.entry = Retentions[r].entry => Older(l, Retentions[r])

RetentionInv == EventsKnown /\ EventsInLine /\ RetentionsHeld /\ RetentionsFit

MemoryInv == PromotionInv /\ RetentionInv

(* A transaction moves on; what it has read and the others stay.             *)
LEMMA TransactionMoves ==
  ASSUME MemoryTables, NEW id \in MemoryIds, NEW s \in MemorySteps, Move(id, s), UNCHANGED <<artifact, people>>
  PROVE  /\ MemoryTables'
         /\ memoryTx'[id].step = s /\ memoryTx'[id].version = memoryTx[id].version
         /\ \A x \in MemoryIds : x # id => memoryTx'[x] = memoryTx[x]
<1>1. memoryTx' = [memoryTx EXCEPT ![id].step = s] /\ memoryTx \in [MemoryIds -> MemoryTransactions]
  BY DEF Move, MemoryTables
<1>2. memoryTx' \in [MemoryIds -> MemoryTransactions] BY <1>1 DEF MemoryTransactions, MemorySteps
<1>3. memoryTx'[id].step = s /\ memoryTx'[id].version = memoryTx[id].version BY <1>1 DEF MemoryTransactions
<1>4. \A x \in MemoryIds : x # id => memoryTx'[x] = memoryTx[x] BY <1>1
<1> QED BY <1>2, <1>3, <1>4 DEF MemoryTables, MemoryIds

LEMMA PromotionsUndisturbed ==
  ASSUME PromotionInv, MemoryTables', entries' = entries,
         \A p \in DOMAIN Promotions : memoryTx'[p] = memoryTx[p]
  PROVE  PromotionInv'
<1>1. \A p \in DOMAIN Promotions : Row(p)' = Row(p) /\ At(p, "committed")' = At(p, "committed") /\ Kept(p)' = Kept(p)
                                   /\ Held(p)' = Held(p)
  BY DEF Row, At, Kept, Held
<1>2. EntriesAreCommitted' BY <1>1 DEF PromotionInv, EntriesAreCommitted
<1>3. EntriesDiffer' BY <1>1 DEF PromotionInv, EntriesDiffer, Conflicts
<1>4. VersionsFollow' BY <1>1 DEF PromotionInv, VersionsFollow, Follows
<1> QED BY <1>2, <1>3, <1>4 DEF PromotionInv

LEMMA RetentionsUndisturbed ==
  ASSUME RetentionInv, lifecycle' = lifecycle, entries \subseteq entries',
         \A r \in DOMAIN Retentions : memoryTx'[r] = memoryTx[r]
  PROVE  RetentionInv'
<1>1. \A x : Entry(x) \subseteq Entry(x)' BY DEF Entry
<1>2. EventsKnown' BY <1>1 DEF RetentionInv, EventsKnown
<1>3. EventsInLine' BY DEF RetentionInv, EventsInLine
<1>4. RetentionsHeld' BY <1>1 DEF RetentionInv, RetentionsHeld, Held
<1>5. RetentionsFit' BY DEF RetentionInv, RetentionsFit, At
<1> QED BY <1>2, <1>3, <1>4, <1>5 DEF RetentionInv

LEMMA EntriesAreRows ==
  ASSUME PromotionInv PROVE entries \subseteq EntryRows
<1> SUFFICES ASSUME NEW p \in DOMAIN Promotions, At(p, "committed") PROVE Row(p) \in EntryRows
  BY DEF PromotionInv, EntriesAreCommitted
<1>1. memoryTx[p].version \in Nat \ {0}
  BY DEF PromotionInv, VersionsFollow, Held, At, MemoryTables, MemoryTransactions, MemoryIds
<1> QED BY <1>1, PromotionsAreCommands DEF Row, EntryRows

LEMMA MemoryStarts == MemoryInit => MemoryInv
<1> SUFFICES ASSUME MemoryInit PROVE MemoryInv OBVIOUS
<1>1. memoryTx = [id \in MemoryIds |-> [step |-> "new", version |-> 0]] /\ entries = {} /\ lifecycle = {}
  BY DEF MemoryInit, MemoryIds
<1>2. \A id \in MemoryIds : memoryTx[id].step = "new" BY <1>1
<1>3. MemoryTables BY <1>1 DEF MemoryInit, MemoryTables, MemoryTransactions
<1>4. EntriesAreCommitted BY <1>1, <1>2 DEF EntriesAreCommitted, At, MemoryIds
<1>5. EntriesDiffer /\ VersionsFollow BY <1>2 DEF EntriesDiffer, VersionsFollow, Kept, Held, MemoryIds
<1>6. RetentionInv BY <1>1, <1>2 DEF RetentionInv, EventsKnown, EventsInLine, RetentionsHeld, RetentionsFit, Held, At, MemoryIds
<1> QED BY <1>3, <1>4, <1>5, <1>6 DEF MemoryInv, PromotionInv

(* A promotion or a retention that is refused or rolled back.                *)
LEMMA MemoryRefuses ==
  ASSUME MemoryInv, NEW id \in MemoryIds, memoryTx[id].step # "committed", Move(id, "refused"),
         UNCHANGED <<artifact, people, entries, lifecycle>>
  PROVE  MemoryInv'
<1>1. /\ MemoryTables' /\ memoryTx'[id].step = "refused"
      /\ \A x \in MemoryIds : x # id => memoryTx'[x] = memoryTx[x]
  BY TransactionMoves DEF MemoryInv, PromotionInv, MemorySteps
<1>2. \A x \in MemoryIds : /\ At(x, "committed")' = At(x, "committed")
                           /\ (Kept(x)' \/ Held(x)' \/ At(x, "inserted")' \/ At(x, "committed")') => memoryTx'[x] = memoryTx[x]
  BY <1>1 DEF At, Kept, Held
<1>3. \A p \in DOMAIN Promotions : Kept(p)' \/ At(p, "committed")' => Row(p)' = Row(p) /\ Kept(p)
  BY <1>2 DEF Row, Kept, At, MemoryIds
<1>4. EntriesAreCommitted'
  <2>1. \A p \in DOMAIN Promotions : At(p, "committed") => Row(p)' = Row(p) BY <1>2, <1>3 DEF MemoryIds
  <2> QED BY <1>2, <2>1 DEF MemoryInv, PromotionInv, EntriesAreCommitted, MemoryIds
<1>5. EntriesDiffer'
  <2> SUFFICES ASSUME NEW p \in DOMAIN Promotions, NEW q \in DOMAIN Promotions, p # q, Kept(p)', Kept(q)'
      PROVE ~Conflicts(Row(p), Row(q))'
    BY DEF EntriesDiffer
  <2>1. Row(p)' = Row(p) /\ Row(q)' = Row(q) /\ Kept(p) /\ Kept(q) BY <1>3
  <2> QED BY <2>1 DEF MemoryInv, PromotionInv, EntriesDiffer, Conflicts
<1>6. VersionsFollow'
  <2> SUFFICES ASSUME NEW p \in DOMAIN Promotions, Held(p)'
      PROVE memoryTx'[p].version # 0 /\ (Promotions[p].supersedes # NoEntry => Follows(p)')
    BY DEF VersionsFollow
  <2>1. memoryTx'[p] = memoryTx[p] /\ Held(p) BY <1>2 DEF Held, MemoryIds
  <2> QED BY <2>1 DEF MemoryInv, PromotionInv, VersionsFollow, Follows
<1>7. RetentionInv'
  <2>1. \A r \in DOMAIN Retentions : (Held(r)' => Held(r)) /\ (At(r, "inserted")' => At(r, "inserted"))
    BY <1>2 DEF Held, At, MemoryIds
  <2>2. EventsKnown' /\ EventsInLine' BY DEF MemoryInv, RetentionInv, EventsKnown, EventsInLine, Entry
  <2>3. RetentionsHeld' BY <2>1 DEF MemoryInv, RetentionInv, RetentionsHeld, Entry
  <2>4. RetentionsFit' BY <2>1 DEF MemoryInv, RetentionInv, RetentionsFit
  <2> QED BY <2>2, <2>3, <2>4 DEF RetentionInv
<1> QED BY <1>1, <1>4, <1>5, <1>6, <1>7 DEF MemoryInv, PromotionInv


(* A promotion takes its version from a predecessor that is committed.       *)
LEMMA MemoryCheckPromotion ==
  ASSUME MemoryInv, NEW id \in DOMAIN Promotions, CheckPromotion(id) PROVE MemoryInv'
<1> DEFINE p == Promotions[id]
           found == Predecessor(p)
           version == IF p.supersedes = NoEntry THEN 1 ELSE 1 + (CHOOSE e \in found : TRUE).version
<1>1. At(id, "new") /\ UNCHANGED <<artifact, people, entries, lifecycle>> BY DEF CheckPromotion
<1>2. id \in MemoryIds /\ id \notin DOMAIN Retentions BY RetentionsAreCommands DEF MemoryIds
<1>3. CASE Move(id, "refused") BY <1>1, <1>2, <1>3, MemoryRefuses DEF At
<1>4. CASE /\ p.supersedes # NoEntry => found # {}
           /\ memoryTx' = [memoryTx EXCEPT ![id] = [step |-> "checked", version |-> version]]
  <2>1. p.supersedes # NoEntry => \E f \in entries : f.entry = p.supersedes /\ f.namespace = p.namespace /\ version = f.version + 1
    <3> SUFFICES ASSUME p.supersedes # NoEntry
        PROVE \E f \in entries : f.entry = p.supersedes /\ f.namespace = p.namespace /\ version = f.version + 1
      OBVIOUS
    <3> DEFINE f == CHOOSE e \in found : TRUE
    <3>1. f \in found BY <1>4
    <3>2. f \in entries /\ f.entry = p.supersedes /\ f.namespace = p.namespace BY <3>1 DEF Predecessor, Entry
    <3>3. f.version \in Nat BY <3>2, EntriesAreRows DEF EntryRows, MemoryInv
    <3>4. version = f.version + 1 BY <3>3
    <3> QED BY <3>2, <3>4
  <2>2. version \in Nat \ {0}
    <3>1. CASE p.supersedes = NoEntry BY <3>1
    <3>2. CASE p.supersedes # NoEntry
      <4>1. PICK f \in entries : version = f.version + 1 BY <2>1, <3>2
      <4>2. f.version \in Nat BY EntriesAreRows DEF EntryRows, MemoryInv
      <4> QED BY <4>1, <4>2
    <3> QED BY <3>1, <3>2
  <2> HIDE DEF version
  <2>3. memoryTx'[id] = [step |-> "checked", version |-> version] /\ \A x \in MemoryIds : x # id => memoryTx'[x] = memoryTx[x]
    BY <1>2, <1>4 DEF MemoryInv, PromotionInv, MemoryTables
  <2>4. MemoryTables'
    <3>1. memoryTx' \in [MemoryIds -> MemoryTransactions]
      BY <1>2, <1>4, <2>2 DEF MemoryInv, PromotionInv, MemoryTables, MemoryTransactions
    <3> QED BY <3>1, <1>1 DEF MemoryInv, PromotionInv, MemoryTables, MemoryIds
  <2>5. \A q \in DOMAIN Promotions : /\ At(q, "committed")' = At(q, "committed") /\ Kept(q)' = Kept(q)
                                     /\ Kept(q) => Row(q)' = Row(q)
    BY <2>3, <1>1 DEF At, Kept, Row, MemoryIds
  <2>6. EntriesAreCommitted'
    <3>1. \A q \in DOMAIN Promotions : At(q, "committed") => Row(q)' = Row(q) BY <2>5 DEF At, Kept
    <3> QED BY <1>1, <2>5, <3>1 DEF MemoryInv, PromotionInv, EntriesAreCommitted
  <2>7. EntriesDiffer'
    <3> SUFFICES ASSUME NEW q \in DOMAIN Promotions, NEW w \in DOMAIN Promotions, q # w, Kept(q)', Kept(w)'
        PROVE ~Conflicts(Row(q), Row(w))'
      BY DEF EntriesDiffer
    <3>1. Row(q)' = Row(q) /\ Row(w)' = Row(w) /\ Kept(q) /\ Kept(w) BY <2>5
    <3> QED BY <3>1 DEF MemoryInv, PromotionInv, EntriesDiffer, Conflicts
  <2>8. VersionsFollow'
    <3> SUFFICES ASSUME NEW q \in DOMAIN Promotions, Held(q)'
        PROVE memoryTx'[q].version # 0 /\ (Promotions[q].supersedes # NoEntry => Follows(q)')
      BY DEF VersionsFollow
    <3>1. CASE q = id BY <3>1, <2>1, <2>2, <2>3, <1>1 DEF Follows
    <3>2. CASE q # id
      <4>1. memoryTx'[q] = memoryTx[q] /\ Held(q) BY <3>2, <2>3 DEF Held, MemoryIds
      <4> QED BY <4>1, <1>1 DEF MemoryInv, PromotionInv, VersionsFollow, Follows
    <3> QED BY <3>1, <3>2
  <2>9. RetentionInv'
    <3>1. \A r \in DOMAIN Retentions : memoryTx'[r] = memoryTx[r] BY <1>2, <2>3 DEF MemoryIds
    <3> QED BY <3>1, <1>1, RetentionsUndisturbed DEF MemoryInv
  <2> QED BY <2>4, <2>6, <2>7, <2>8, <2>9 DEF MemoryInv, PromotionInv
<1> QED BY <1>3, <1>4 DEF CheckPromotion

(* The unique constraints see what is inserted and what is committed.        *)
LEMMA MemoryInsertEntry ==
  ASSUME MemoryInv, NEW id \in DOMAIN Promotions, InsertEntry(id) PROVE MemoryInv'
<1>1. At(id, "checked") /\ UNCHANGED <<artifact, people, entries, lifecycle>> BY DEF InsertEntry
<1>2. id \in MemoryIds /\ id \notin DOMAIN Retentions BY RetentionsAreCommands DEF MemoryIds
<1>3. CASE Move(id, "refused") BY <1>1, <1>2, <1>3, MemoryRefuses DEF At
<1>4. CASE Move(id, "inserted") /\ ~\E e \in entries : Conflicts(e, Row(id))
  <2>1. /\ MemoryTables' /\ memoryTx'[id].step = "inserted" /\ memoryTx'[id].version = memoryTx[id].version
        /\ \A x \in MemoryIds : x # id => memoryTx'[x] = memoryTx[x]
    BY <1>1, <1>2, <1>4, TransactionMoves DEF MemoryInv, PromotionInv, MemorySteps
  <2>2. \A q \in DOMAIN Promotions : /\ Row(q)' = Row(q) /\ At(q, "committed")' = At(q, "committed") /\ Held(q)' = Held(q)
                                     /\ q # id => Kept(q)' = Kept(q)
    BY <2>1, <1>1 DEF At, Kept, Held, Row, MemoryIds
  <2>3. EntriesAreCommitted' BY <1>1, <2>2 DEF MemoryInv, PromotionInv, EntriesAreCommitted
  <2>4. \A q \in DOMAIN Promotions : q # id /\ Kept(q) => ~Conflicts(Row(q), Row(id))
    <3> SUFFICES ASSUME NEW q \in DOMAIN Promotions, q # id, Kept(q) PROVE ~Conflicts(Row(q), Row(id))
      OBVIOUS
    <3>1. CASE At(q, "inserted") BY <3>1 DEF InsertEntry
    <3>2. CASE At(q, "committed")
      <4>1. Row(q) \in entries BY <3>2 DEF MemoryInv, PromotionInv, EntriesAreCommitted
      <4> QED BY <4>1, <1>4
    <3> QED BY <3>1, <3>2 DEF Kept, At
  <2>5. \A e, f : Conflicts(e, f) => Conflicts(f, e) BY DEF Conflicts
  <2>6. EntriesDiffer'
    <3> SUFFICES ASSUME NEW q \in DOMAIN Promotions, NEW w \in DOMAIN Promotions, q # w, Kept(q)', Kept(w)'
        PROVE ~Conflicts(Row(q), Row(w))'
      BY DEF EntriesDiffer
    <3>1. Row(q)' = Row(q) /\ Row(w)' = Row(w) BY <2>2
    <3>2. ~Conflicts(Row(q), Row(w))
      <4>1. CASE q = id BY <4>1, <2>2, <2>4, <2>5
      <4>2. CASE w = id BY <4>2, <2>2, <2>4
      <4>3. CASE q # id /\ w # id BY <4>3, <2>2 DEF MemoryInv, PromotionInv, EntriesDiffer
      <4> QED BY <4>1, <4>2, <4>3
    <3> QED BY <3>1, <3>2 DEF Conflicts
  <2>7. VersionsFollow'
    <3>1. \A q \in DOMAIN Promotions : memoryTx'[q].version = memoryTx[q].version BY <2>1 DEF MemoryIds
    <3> QED BY <3>1, <2>2, <1>1 DEF MemoryInv, PromotionInv, VersionsFollow, Follows
  <2>8. RetentionInv'
    <3>1. \A r \in DOMAIN Retentions : memoryTx'[r] = memoryTx[r] BY <1>2, <2>1 DEF MemoryIds
    <3> QED BY <3>1, <1>1, RetentionsUndisturbed DEF MemoryInv
  <2> QED BY <2>1, <2>3, <2>6, <2>7, <2>8 DEF MemoryInv, PromotionInv
<1> QED BY <1>3, <1>4 DEF InsertEntry

LEMMA MemoryCommitEntry ==
  ASSUME MemoryInv, NEW id \in DOMAIN Promotions, CommitEntry(id) PROVE MemoryInv'
<1>1. /\ At(id, "inserted") /\ entries' = entries \cup {Row(id)} /\ Move(id, "committed")
      /\ UNCHANGED <<artifact, people, lifecycle>>
  BY DEF CommitEntry
<1>2. id \in MemoryIds /\ id \notin DOMAIN Retentions BY RetentionsAreCommands DEF MemoryIds
<1>3. /\ MemoryTables' /\ memoryTx'[id].step = "committed" /\ memoryTx'[id].version = memoryTx[id].version
      /\ \A x \in MemoryIds : x # id => memoryTx'[x] = memoryTx[x]
  BY <1>1, <1>2, TransactionMoves DEF MemoryInv, PromotionInv, MemorySteps
<1>4. \A q \in DOMAIN Promotions : /\ Row(q)' = Row(q) /\ At(q, "committed")' = (At(q, "committed") \/ q = id)
                                   /\ Held(q)' = Held(q) /\ Kept(q)' = Kept(q)
  BY <1>1, <1>3 DEF At, Kept, Held, Row, MemoryIds
<1>5. EntriesAreCommitted' BY <1>1, <1>4 DEF MemoryInv, PromotionInv, EntriesAreCommitted
<1>6. EntriesDiffer' BY <1>4 DEF MemoryInv, PromotionInv, EntriesDiffer, Conflicts
<1>7. VersionsFollow'
  <2>1. \A q \in DOMAIN Promotions : memoryTx'[q].version = memoryTx[q].version BY <1>3 DEF MemoryIds
  <2>2. entries \subseteq entries' BY <1>1
  <2>3. \A q \in DOMAIN Promotions : Follows(q) => Follows(q)' BY <2>1, <2>2 DEF Follows
  <2> QED BY <2>1, <2>3, <1>4 DEF MemoryInv, PromotionInv, VersionsFollow
<1>8. RetentionInv'
  <2>1. \A r \in DOMAIN Retentions : memoryTx'[r] = memoryTx[r] BY <1>2, <1>3 DEF MemoryIds
  <2> QED BY <2>1, <1>1, RetentionsUndisturbed DEF MemoryInv
<1> QED BY <1>3, <1>5, <1>6, <1>7, <1>8 DEF MemoryInv, PromotionInv

(* Events in line have a latest one, and when it is STALE there is no other. *)
LEMMA LatestExists ==
  ASSUME NEW events, InLine(events), events # {}, \A l \in events : l.at \in Int
  PROVE  /\ Latest(events) \in events
         /\ \A k \in events : k.at <= Latest(events).at
         /\ \A k \in events : k = Latest(events) \/ Older(k, Latest(events))
<1>1. \E l \in events : \A k \in events : k.at <= l.at
  <2>1. PICK l \in events : TRUE OBVIOUS
  <2>2. CASE \E k \in events : Older(l, k)
    <3>1. PICK k \in events : Older(l, k) BY <2>2
    <3>2. \A m \in events : m = k \/ Older(m, k) BY <3>1 DEF InLine, Older
    <3> QED BY <3>2 DEF Older
  <2>3. CASE ~\E k \in events : Older(l, k)
    <3>1. \A m \in events : m = l \/ Older(m, l) BY <2>3 DEF InLine
    <3> QED BY <3>1 DEF Older
  <2> QED BY <2>2, <2>3
<1>2. Latest(events) \in events /\ \A k \in events : k.at <= Latest(events).at BY <1>1 DEF Latest
<1>3. \A k \in events : k = Latest(events) \/ Older(k, Latest(events)) BY <1>2 DEF InLine, Older
<1> QED BY <1>2, <1>3

LEMMA EventsOfAnEntry ==
  ASSUME RetentionInv, NEW id PROVE InLine(EventsOf(id)) /\ \A l \in EventsOf(id) : l \in LifecycleEventRows /\ l.at \in Int
BY DEF RetentionInv, EventsKnown, EventsInLine, InLine, EventsOf, LifecycleEventRows

LEMMA MemoryCheckRetention ==
  ASSUME MemoryInv, NEW id \in DOMAIN Retentions, CheckRetention(id) PROVE MemoryInv'
<1>1. At(id, "new") /\ UNCHANGED <<artifact, people, entries, lifecycle>> BY DEF CheckRetention
<1>2. id \in MemoryIds /\ id \notin DOMAIN Promotions BY RetentionsAreCommands DEF MemoryIds
<1>3. CASE Move(id, "refused") BY <1>1, <1>2, <1>3, MemoryRefuses DEF At
<1>4. CASE /\ Move(id, "checked") /\ ValidRetention(Retentions[id])
           /\ \E e \in {e \in Entry(Retentions[id].entry) : e.at <= Retentions[id].at /\ e.namespace = Retentions[id].namespace} : TRUE
  <2>1. /\ MemoryTables' /\ memoryTx'[id].step = "checked"
        /\ \A x \in MemoryIds : x # id => memoryTx'[x] = memoryTx[x]
    BY <1>1, <1>2, <1>4, TransactionMoves DEF MemoryInv, PromotionInv, MemorySteps
  <2>2. PromotionInv'
    <3>1. \A p \in DOMAIN Promotions : memoryTx'[p] = memoryTx[p] BY <1>2, <2>1 DEF MemoryIds
    <3> QED BY <3>1, <2>1, <1>1, PromotionsUndisturbed DEF MemoryInv
  <2>3. Entry(Retentions[id].entry) # {} /\ Retentions[id].state \in {"STALE", "ARCHIVED"} BY <1>4 DEF ValidRetention
  <2>4. \A r \in DOMAIN Retentions : (Held(r)' => Held(r) \/ r = id) /\ (At(r, "inserted")' => At(r, "inserted"))
    BY <2>1 DEF Held, At, MemoryIds
  <2>5. EventsKnown' /\ EventsInLine' BY <1>1 DEF MemoryInv, RetentionInv, EventsKnown, EventsInLine, Entry
  <2>6. RetentionsHeld' BY <1>1, <2>3, <2>4 DEF MemoryInv, RetentionInv, RetentionsHeld, Entry
  <2>7. RetentionsFit' BY <1>1, <2>4 DEF MemoryInv, RetentionInv, RetentionsFit
  <2> QED BY <2>2, <2>5, <2>6, <2>7 DEF MemoryInv, RetentionInv
<1> QED BY <1>3, <1>4 DEF CheckRetention

(* The trigger admits an event later than all of the entry's, and an archive *)
(* after at most one staleness.                                              *)
LEMMA MemoryInsertRetention ==
  ASSUME MemoryInv, NEW id \in DOMAIN Retentions, InsertRetention(id) PROVE MemoryInv'
<1> DEFINE r == Retentions[id]
<1>1. At(id, "checked") /\ EntryUnlocked(id) /\ UNCHANGED <<artifact, people, entries, lifecycle>> BY DEF InsertRetention
<1>2. id \in MemoryIds /\ id \notin DOMAIN Promotions BY RetentionsAreCommands DEF MemoryIds
<1>3. CASE Move(id, "refused") BY <1>1, <1>2, <1>3, MemoryRefuses DEF At
<1>4. CASE Move(id, "inserted") /\ Monotonic(r)
  <2>1. /\ MemoryTables' /\ memoryTx'[id].step = "inserted"
        /\ \A x \in MemoryIds : x # id => memoryTx'[x] = memoryTx[x]
    BY <1>1, <1>2, <1>4, TransactionMoves DEF MemoryInv, PromotionInv, MemorySteps
  <2>2. PromotionInv'
    <3>1. \A p \in DOMAIN Promotions : memoryTx'[p] = memoryTx[p] BY <1>2, <2>1 DEF MemoryIds
    <3> QED BY <3>1, <2>1, <1>1, PromotionsUndisturbed DEF MemoryInv
  <2>3. \A s \in DOMAIN Retentions : /\ Held(s)' => Held(s)
                                     /\ At(s, "inserted")' => At(s, "inserted") \/ s = id
    BY <1>1, <2>1 DEF Held, At, MemoryIds
  <2>4. EventsKnown' /\ EventsInLine' BY <1>1 DEF MemoryInv, RetentionInv, EventsKnown, EventsInLine, Entry
  <2>5. RetentionsHeld' BY <1>1, <2>3 DEF MemoryInv, RetentionInv, RetentionsHeld, Entry
  <2>6. \A l \in lifecycle : l.entry = r.entry => Older(l, r)
    <3> SUFFICES ASSUME NEW l \in lifecycle, l.entry = r.entry PROVE Older(l, r) OBVIOUS
    <3> DEFINE prior == EventsOf(r.entry)
    <3>1. l \in prior BY DEF EventsOf
    <3>2. r.at > Latest(prior).at /\ Latest(prior).state = "STALE" /\ r.state = "ARCHIVED"
      BY <3>1, <1>4 DEF Monotonic
    <3>3. l = Latest(prior) \/ Older(l, Latest(prior))
      BY <3>1, EventsOfAnEntry, LatestExists DEF MemoryInv
    <3>4. l = Latest(prior) BY <3>2, <3>3 DEF Older
    <3>5. l.at \in Int /\ r.at \in Int BY <3>1, EventsOfAnEntry, RetentionsAreCommands DEF MemoryInv
    <3> QED BY <3>2, <3>4, <3>5 DEF Older
  <2>7. RetentionsFit'
    <3>1. \A s \in DOMAIN Retentions : s # id /\ At(s, "inserted") => Retentions[s].entry # r.entry
      BY <1>1 DEF EntryUnlocked
    <3> QED BY <1>1, <2>3, <2>6, <3>1 DEF MemoryInv, RetentionInv, RetentionsFit
  <2> QED BY <2>2, <2>4, <2>5, <2>7 DEF MemoryInv, RetentionInv
<1> QED BY <1>3, <1>4 DEF InsertRetention

LEMMA MemoryCommitRetention ==
  ASSUME MemoryInv, NEW id \in DOMAIN Retentions, CommitRetention(id) PROVE MemoryInv'
<1> DEFINE r == Retentions[id]
           event == [entry |-> r.entry, state |-> r.state, at |-> r.at]
<1>1. /\ At(id, "inserted") /\ lifecycle' = lifecycle \cup {event} /\ Move(id, "committed")
      /\ UNCHANGED <<artifact, people, entries>>
  BY DEF CommitRetention
<1>2. id \in MemoryIds /\ id \notin DOMAIN Promotions BY RetentionsAreCommands DEF MemoryIds
<1>3. /\ MemoryTables' /\ memoryTx'[id].step = "committed"
      /\ \A x \in MemoryIds : x # id => memoryTx'[x] = memoryTx[x]
  BY <1>1, <1>2, TransactionMoves DEF MemoryInv, PromotionInv, MemorySteps
<1>4. PromotionInv'
  <2>1. \A p \in DOMAIN Promotions : memoryTx'[p] = memoryTx[p] BY <1>2, <1>3 DEF MemoryIds
  <2> QED BY <2>1, <1>3, <1>1, PromotionsUndisturbed DEF MemoryInv
<1>5. \A s \in DOMAIN Retentions : (Held(s)' => Held(s)) /\ (At(s, "inserted")' => At(s, "inserted") /\ s # id)
  BY <1>1, <1>3 DEF Held, At, MemoryIds
<1>6. /\ r.state \in {"STALE", "ARCHIVED"} /\ Entry(r.entry) # {} /\ r.entry \in STRING /\ r.at \in Int
  BY <1>1, RetentionsAreCommands DEF MemoryInv, RetentionInv, RetentionsHeld, Held, At
<1>7. event \in LifecycleEventRows BY <1>6 DEF LifecycleEventRows
<1>8. event.entry = r.entry /\ \A l : Older(l, event) = Older(l, r) BY DEF Older
<1> HIDE DEF event, r
<1>9. EventsKnown' BY <1>1, <1>6, <1>7, <1>8 DEF MemoryInv, RetentionInv, EventsKnown, Entry
<1>10. \A l \in lifecycle : l.entry = r.entry => Older(l, event)
  BY <1>1, <1>8 DEF MemoryInv, RetentionInv, RetentionsFit, r
<1>11. EventsInLine' BY <1>1, <1>8, <1>10 DEF MemoryInv, RetentionInv, EventsInLine
<1>12. RetentionsHeld' BY <1>1, <1>5 DEF MemoryInv, RetentionInv, RetentionsHeld, Entry
<1>13. RetentionsFit'
  <2>1. \A s \in DOMAIN Retentions : s # id /\ At(s, "inserted") => Retentions[s].entry # event.entry
    BY <1>1, <1>8 DEF MemoryInv, RetentionInv, RetentionsFit, r
  <2> QED BY <1>1, <1>5, <2>1 DEF MemoryInv, RetentionInv, RetentionsFit
<1> QED BY <1>4, <1>9, <1>11, <1>12, <1>13 DEF MemoryInv, RetentionInv

LEMMA MemoryStep == MemoryInv /\ [MemoryNext]_memoryVars => MemoryInv'
<1> SUFFICES ASSUME MemoryInv, [MemoryNext]_memoryVars PROVE MemoryInv' OBVIOUS
<1>1. ASSUME NEW id \in DOMAIN Promotions, CheckPromotion(id) \/ InsertEntry(id) \/ CommitEntry(id) PROVE MemoryInv'
  BY <1>1, MemoryCheckPromotion, MemoryInsertEntry, MemoryCommitEntry
<1>2. ASSUME NEW id \in DOMAIN Retentions, CheckRetention(id) \/ InsertRetention(id) \/ CommitRetention(id) PROVE MemoryInv'
  BY <1>2, MemoryCheckRetention, MemoryInsertRetention, MemoryCommitRetention
<1>3. ASSUME NEW id \in DOMAIN memoryTx, AbortMemory(id) PROVE MemoryInv'
  <2>1. id \in MemoryIds BY DEF MemoryInv, PromotionInv, MemoryTables
  <2> QED BY <1>3, <2>1, MemoryRefuses DEF AbortMemory
<1>4. ASSUME MemoryTables', UNCHANGED <<entries, lifecycle, memoryTx>> PROVE MemoryInv'
  BY <1>4, PromotionsUndisturbed, RetentionsUndisturbed DEF MemoryInv
<1>5. ASSUME NEW a \in Artifacts, RetireArtifact(a) PROVE MemoryInv'
  <2>1. MemoryTables' BY <1>5 DEF RetireArtifact, MemoryInv, PromotionInv, MemoryTables, MemoryIds
  <2> QED BY <1>4, <1>5, <2>1 DEF RetireArtifact
<1>6. ASSUME NEW u \in Members, Deactivate(u) PROVE MemoryInv'
  <2>1. MemoryTables' BY <1>6 DEF Deactivate, MemoryInv, PromotionInv, MemoryTables, MemoryIds
  <2> QED BY <1>4, <1>6, <2>1 DEF Deactivate
<1>7. CASE UNCHANGED memoryVars
  <2>1. MemoryTables' BY <1>7 DEF memoryVars, MemoryInv, PromotionInv, MemoryTables, MemoryIds
  <2> QED BY <1>4, <1>7, <2>1 DEF memoryVars
<1> QED BY <1>1, <1>2, <1>3, <1>5, <1>6, <1>7 DEF MemoryNext

(* The state of an entry, read at two times.                                 *)
LEMMA StatesGrowOlder ==
  ASSUME MemoryInv, NEW e \in entries, NEW day \in Int, NEW later \in Int, day <= later
  PROVE  Age[StateAt(e, day)] <= Age[StateAt(e, later)]
<1> DEFINE past(d) == {l \in EventsOf(e.entry) : l.at <= d}
           due(d) == IF e.review # Never /\ e.review <= d THEN "STALE" ELSE "ACTIVE"
<1>1. \A d \in Int : StateAt(e, d) = IF past(d) # {} THEN Latest(past(d)).state ELSE due(d) BY DEF StateAt
<1>2. \A d \in Int : /\ InLine(past(d)) /\ \A l \in past(d) : l.at \in Int /\ l.state \in {"STALE", "ARCHIVED"}
  BY EventsOfAnEntry DEF MemoryInv, InLine, LifecycleEventRows
<1>3. past(day) \subseteq past(later)
  <2> SUFFICES ASSUME NEW l \in EventsOf(e.entry), l.at <= day PROVE l.at <= later OBVIOUS
  <2>1. l.at \in Int BY EventsOfAnEntry DEF MemoryInv
  <2> QED BY <2>1
<1>4. \A d \in Int : past(d) # {} => /\ Latest(past(d)) \in past(d) /\ \A k \in past(d) : k = Latest(past(d)) \/ Older(k, Latest(past(d)))
  BY <1>2, LatestExists
<1>5. e.review \in Int BY EntriesAreRows DEF MemoryInv, EntryRows
<1>6. Age["ACTIVE"] = 0 /\ Age["STALE"] = 1 /\ Age["ARCHIVED"] = 2 BY DEF Age
<1>7. CASE past(day) # {}
  <2>1. /\ Latest(past(day)) \in past(later)
        /\ Latest(past(day)) = Latest(past(later)) \/ Older(Latest(past(day)), Latest(past(later)))
    BY <1>3, <1>4, <1>7
  <2>2. StateAt(e, day) = Latest(past(day)).state /\ StateAt(e, later) = Latest(past(later)).state
    BY <1>1, <1>7, <2>1
  <2>3. StateAt(e, day) \in {"STALE", "ARCHIVED"} BY <1>2, <1>4, <1>7, <2>2
  <2>4. StateAt(e, day) = StateAt(e, later) \/ (StateAt(e, day) = "STALE" /\ StateAt(e, later) = "ARCHIVED")
    BY <2>1, <2>2 DEF Older
  <2> QED BY <2>3, <2>4, <1>6
<1>8. CASE past(day) = {} /\ past(later) # {}
  <2>1. StateAt(e, later) \in {"STALE", "ARCHIVED"} BY <1>1, <1>2, <1>4, <1>8
  <2>2. StateAt(e, day) \in {"STALE", "ACTIVE"} BY <1>1, <1>8
  <2> QED BY <2>1, <2>2, <1>6
<1>9. CASE past(day) = {} /\ past(later) = {}
  <2>1. StateAt(e, day) = due(day) /\ StateAt(e, later) = due(later) BY <1>1, <1>9
  <2>2. due(day) = "STALE" => due(later) = "STALE" BY <1>5
  <2>3. due(day) \in {"STALE", "ACTIVE"} /\ due(later) \in {"STALE", "ACTIVE"} OBVIOUS
  <2> HIDE DEF due
  <2> QED BY <2>1, <2>2, <2>3, <1>6
<1> QED BY <1>7, <1>8, <1>9

LEMMA MemoryReplays == MemoryInv => HistoryReplays
<1> SUFFICES ASSUME MemoryInv PROVE HistoryReplays OBVIOUS
<1>1. \A e \in entries : \A day \in e.at..LastDay, later \in e.at..LastDay :
        day <= later => Age[StateAt(e, day)] <= Age[StateAt(e, later)]
  BY StatesGrowOlder
<1>2. \A k, l \in lifecycle : (k.entry = l.entry /\ k.at = l.at) => k = l
  <2> SUFFICES ASSUME NEW k \in lifecycle, NEW l \in lifecycle, k.entry = l.entry, k.at = l.at PROVE k = l OBVIOUS
  <2>1. k.at \in Int BY DEF MemoryInv, RetentionInv, EventsKnown, LifecycleEventRows
  <2> QED BY <2>1 DEF MemoryInv, RetentionInv, EventsInLine, Older
<1>3. \A e \in entries : \E p \in DOMAIN Promotions : At(p, "committed") /\ e = Row(p)
  BY DEF MemoryInv, PromotionInv, EntriesAreCommitted
<1>4. \A e \in entries : e.supersedes # NoEntry =>
        \E f \in entries : f.entry = e.supersedes /\ f.namespace = e.namespace /\ e.version = f.version + 1
  <2> SUFFICES ASSUME NEW p \in DOMAIN Promotions, At(p, "committed"), Row(p).supersedes # NoEntry
      PROVE \E f \in entries : f.entry = Row(p).supersedes /\ f.namespace = Row(p).namespace /\ Row(p).version = f.version + 1
    BY <1>3
  <2>1. Follows(p) BY DEF MemoryInv, PromotionInv, VersionsFollow, Held, At, Row
  <2> QED BY <2>1 DEF Follows, Row
<1>5. \A e, f \in entries : (e.supersedes = f.supersedes /\ e.supersedes # NoEntry) => e = f
  <2> SUFFICES ASSUME NEW p \in DOMAIN Promotions, NEW q \in DOMAIN Promotions, At(p, "committed"), At(q, "committed"),
                      Row(p).supersedes = Row(q).supersedes, Row(p).supersedes # NoEntry
      PROVE Row(p) = Row(q)
    BY <1>3
  <2>1. Conflicts(Row(p), Row(q)) BY DEF Conflicts
  <2>2. p = q BY <2>1 DEF MemoryInv, PromotionInv, EntriesDiffer, Kept, At
  <2> QED BY <2>2
<1> QED BY <1>1, <1>2, <1>4, <1>5 DEF HistoryReplays

(* For every set of promotions and retentions, in every interleaving of      *)
(* their checks, inserts, commits and rollbacks: the states of an entry,     *)
(* read at later and later times, never get younger, its events have         *)
(* different times, and versions form a line (db/memory.py _read, _promote,  *)
(* expire and the triggers of the migration).                                *)
THEOREM HistoriesReplay == MemorySpec => []HistoryReplays
BY MemoryStarts, MemoryStep, MemoryReplays, PTL DEF MemorySpec

(* Rows are of their tables, and no event is recorded for an entry that does *)
(* not exist.                                                                *)
THEOREM MemoryTyping == MemorySpec => []MemoryTypeOK
<1>1. MemoryInv => MemoryTypeOK
  BY EntriesAreRows DEF MemoryInv, RetentionInv, EventsKnown, PromotionInv, MemoryTables, MemoryTypeOK, MemoryIds
<1> QED BY MemoryStarts, MemoryStep, <1>1, PTL DEF MemorySpec

-----------------------------------------------------------------------------
(* The two typings of a formula.                                             *)
(*                                                                           *)
(* They differ: the validator calls every product REAL, the adapter calls a  *)
(* product of integers INTEGER.  What they agree on is whether a node is     *)
(* Boolean or numeric, and that is all an operator asks of its operands; so  *)
(* it holds of every node of a tree without issues, from the leaves up.      *)

(* Induction over the naturals, by the smallest number that is missing. *)
LEMMA NumbersClimb ==
  ASSUME NEW S, 0 \in S, \A n \in Nat : n \in S => n + 1 \in S
  PROVE  Nat \subseteq S
<1> DEFINE missing == {n \in Nat : n \notin S}
           less == {pair \in Nat \X Nat : pair[1] < pair[2]}
<1>1. SUFFICES ASSUME missing # {} PROVE FALSE
  OBVIOUS
<1>2. IsWellFoundedOn(less, Nat)
  BY NatLessThanWellFounded DEF OpToRel
<1>3. PICK x \in missing : \A y \in missing : ~(<<y, x>> \in less)
  <2>1. missing \subseteq Nat OBVIOUS
  <2> HIDE DEF missing, less
  <2> QED BY <1>1, <1>2, <2>1, WFMin
<1>4. x \in Nat /\ x # 0
  OBVIOUS
<1>5. x - 1 \in Nat /\ x - 1 < x
  BY <1>4
<1>6. x - 1 \notin missing
  <2>1. <<x - 1, x>> \in less BY <1>4, <1>5
  <2> QED BY <1>3, <2>1
<1>7. x - 1 \in S
  BY <1>5, <1>6
<1>8. (x - 1) + 1 \in S
  BY <1>5, <1>7
<1> QED BY <1>4, <1>8

(* The operands of a node are nodes before it. *)
LEMMA OperandsAreBelow ==
  ASSUME NEW ast, IsTree(ast), NEW i \in DOMAIN ast, NEW k \in Operands(ast[i])
  PROVE  ast[i].args[k] \in 1..(i - 1) /\ ast[i].args[k] \in DOMAIN ast /\ ast[i].args[k] < i
<1>1. i \in 1..Len(ast) /\ Len(ast) \in Nat
  BY DEF IsTree
<1>2. ast[i].kind = "operation" /\ k \in DOMAIN ast[i].args
  BY DEF Operands
<1>3. ast[i].args \in Seq(1..(i - 1))
  BY <1>2 DEF IsTree, Literals
<1>4. ast[i].args[k] \in 1..(i - 1)
  <2>1. ASSUME NEW S, NEW a \in Seq(S), NEW e \in DOMAIN a PROVE a[e] \in S
    OBVIOUS
  <2> QED BY <1>2, <1>3, <2>1
<1> QED BY <1>1, <1>4 DEF IsTree

(* The validator's walk types every node from the types of its operands. *)
LEMMA WalkUnfolds ==
  ASSUME NEW ast, IsTree(ast), NEW symbols, NEW i \in DOMAIN ast
  PROVE  Walk(ast, symbols)[i] =
           NodeType(ast[i], [k \in Operands(ast[i]) |-> Walk(ast, symbols)[ast[i].args[k]]], symbols)
<1> DEFINE N == Len(ast)
           Node(g, j) == NodeType(ast[j], [k \in Operands(ast[j]) |-> g[ast[j].args[k]]], symbols)
           Typed(g, n) == \A j \in DOMAIN ast : j <= n => g[j] = Node(g, j)
           reached == {n \in Nat : \E g : Typed(g, n)}
<1>1. N \in Nat /\ DOMAIN ast = 1..N
  BY DEF IsTree
<1>2. ASSUME NEW j \in DOMAIN ast, NEW g, NEW h, \A m \in DOMAIN ast : m < j => g[m] = h[m]
      PROVE  Node(g, j) = Node(h, j)
  <2>1. \A k \in Operands(ast[j]) : g[ast[j].args[k]] = h[ast[j].args[k]]
    BY <1>2, OperandsAreBelow
  <2>2. [k \in Operands(ast[j]) |-> g[ast[j].args[k]]] = [k \in Operands(ast[j]) |-> h[ast[j].args[k]]]
    BY <2>1
  <2> QED BY <2>2
<1> HIDE DEF Node, N
<1>3. 0 \in reached
  BY <1>1
<1>4. ASSUME NEW n \in Nat, n \in reached PROVE n + 1 \in reached
  <2>1. PICK g : Typed(g, n)
    BY <1>4
  <2> DEFINE h == [j \in DOMAIN ast |-> IF j <= n THEN g[j] ELSE Node(g, j)]
  <2>2. ASSUME NEW j \in DOMAIN ast, j <= n + 1 PROVE h[j] = Node(h, j)
    <3>1. j \in 1..N BY <1>1
    <3>2. \A m \in DOMAIN ast : m < j => h[m] = g[m]
      BY <1>1, <2>2, <3>1
    <3>3. Node(h, j) = Node(g, j)
      <4> HIDE DEF h
      <4> QED BY <1>2, <3>2
    <3>4. h[j] = Node(g, j)
      BY <2>1
    <3> QED BY <3>3, <3>4
  <2> HIDE DEF h
  <2>3. Typed(h, n + 1)
    BY <2>2
  <2> HIDE DEF Typed
  <2> QED BY <2>3
<1>5. N \in reached
  <2> HIDE DEF reached
  <2> QED BY <1>1, <1>3, <1>4, NumbersClimb
<1>6. \E g : g = [j \in DOMAIN ast |-> Node(g, j)]
  <2>1. PICK g : Typed(g, N)
    BY <1>5
  <2> DEFINE h == [j \in DOMAIN ast |-> g[j]]
  <2>2. ASSUME NEW j \in DOMAIN ast PROVE h[j] = Node(h, j)
    <3>1. j <= N BY <1>1
    <3>2. g[j] = Node(g, j) BY <2>1, <3>1
    <3>3. \A m \in DOMAIN ast : m < j => h[m] = g[m] OBVIOUS
    <3>4. h[j] = g[j] OBVIOUS
    <3> HIDE DEF h
    <3> QED BY <1>2, <3>2, <3>3, <3>4
  <2>3. h = [j \in DOMAIN ast |-> Node(h, j)]
    <3>1. h = [j \in DOMAIN ast |-> h[j]] OBVIOUS
    <3> HIDE DEF h
    <3> QED BY <2>2, <3>1
  <2> HIDE DEF h
  <2> QED BY <2>3
<1> DEFINE sig == CHOOSE g : g = [j \in DOMAIN ast |-> Node(g, j)]
<1>7. Walk(ast, symbols) = sig
  BY DEF Walk, Node
<1>8. sig = [j \in DOMAIN ast |-> Node(sig, j)]
  BY <1>6
<1> HIDE DEF sig
<1>9. sig[i] = Node(sig, i)
  BY <1>8
<1> QED BY <1>7, <1>9 DEF Node

(* The adapter's translation types every node from the types of its operands. *)
LEMMA TranslationUnfolds ==
  ASSUME NEW ast, IsTree(ast), NEW symbols, NEW i \in DOMAIN ast
  PROVE  Translated(ast, symbols)[i] =
           NodeSort(ast[i], [k \in Operands(ast[i]) |-> Translated(ast, symbols)[ast[i].args[k]]], symbols)
<1> DEFINE N == Len(ast)
           Node(g, j) == NodeSort(ast[j], [k \in Operands(ast[j]) |-> g[ast[j].args[k]]], symbols)
           Typed(g, n) == \A j \in DOMAIN ast : j <= n => g[j] = Node(g, j)
           reached == {n \in Nat : \E g : Typed(g, n)}
<1>1. N \in Nat /\ DOMAIN ast = 1..N
  BY DEF IsTree
<1>2. ASSUME NEW j \in DOMAIN ast, NEW g, NEW h, \A m \in DOMAIN ast : m < j => g[m] = h[m]
      PROVE  Node(g, j) = Node(h, j)
  <2>1. \A k \in Operands(ast[j]) : g[ast[j].args[k]] = h[ast[j].args[k]]
    BY <1>2, OperandsAreBelow
  <2>2. [k \in Operands(ast[j]) |-> g[ast[j].args[k]]] = [k \in Operands(ast[j]) |-> h[ast[j].args[k]]]
    BY <2>1
  <2> QED BY <2>2
<1> HIDE DEF Node, N
<1>3. 0 \in reached
  BY <1>1
<1>4. ASSUME NEW n \in Nat, n \in reached PROVE n + 1 \in reached
  <2>1. PICK g : Typed(g, n)
    BY <1>4
  <2> DEFINE h == [j \in DOMAIN ast |-> IF j <= n THEN g[j] ELSE Node(g, j)]
  <2>2. ASSUME NEW j \in DOMAIN ast, j <= n + 1 PROVE h[j] = Node(h, j)
    <3>1. j \in 1..N BY <1>1
    <3>2. \A m \in DOMAIN ast : m < j => h[m] = g[m]
      BY <1>1, <2>2, <3>1
    <3>3. Node(h, j) = Node(g, j)
      <4> HIDE DEF h
      <4> QED BY <1>2, <3>2
    <3>4. h[j] = Node(g, j)
      BY <2>1
    <3> QED BY <3>3, <3>4
  <2> HIDE DEF h
  <2>3. Typed(h, n + 1)
    BY <2>2
  <2> HIDE DEF Typed
  <2> QED BY <2>3
<1>5. N \in reached
  <2> HIDE DEF reached
  <2> QED BY <1>1, <1>3, <1>4, NumbersClimb
<1>6. \E g : g = [j \in DOMAIN ast |-> Node(g, j)]
  <2>1. PICK g : Typed(g, N)
    BY <1>5
  <2> DEFINE h == [j \in DOMAIN ast |-> g[j]]
  <2>2. ASSUME NEW j \in DOMAIN ast PROVE h[j] = Node(h, j)
    <3>1. j <= N BY <1>1
    <3>2. g[j] = Node(g, j) BY <2>1, <3>1
    <3>3. \A m \in DOMAIN ast : m < j => h[m] = g[m] OBVIOUS
    <3>4. h[j] = g[j] OBVIOUS
    <3> HIDE DEF h
    <3> QED BY <1>2, <3>2, <3>3, <3>4
  <2>3. h = [j \in DOMAIN ast |-> Node(h, j)]
    <3>1. h = [j \in DOMAIN ast |-> h[j]] OBVIOUS
    <3> HIDE DEF h
    <3> QED BY <2>2, <3>1
  <2> HIDE DEF h
  <2> QED BY <2>3
<1> DEFINE sort == CHOOSE g : g = [j \in DOMAIN ast |-> Node(g, j)]
<1>7. Translated(ast, symbols) = sort
  BY DEF Translated, Node
<1>8. sort = [j \in DOMAIN ast |-> Node(sort, j)]
  BY <1>6
<1> HIDE DEF sort
<1>9. sort[i] = Node(sort, i)
  BY <1>8
<1> QED BY <1>7, <1>9 DEF Node

(* The typings agree on a node: both call it Boolean, or both numeric. *)
Agree(v, t) == (v = "BOOLEAN" /\ t = "BOOLEAN") \/ (v \in Numeric /\ t \in Numeric)

LEMMA TwoAreMore ==
  ASSUME NEW a, NEW b, a # b PROVE Cardinality({a, b}) > 1
<1>1. IsFiniteSet({b}) /\ Cardinality({b}) = 1
  BY FS_Singleton
<1>2. Cardinality({b} \cup {a}) = Cardinality({b}) + 1
  BY <1>1, FS_AddElement
<1>3. {b} \cup {a} = {a, b}
  OBVIOUS
<1> QED BY <1>1, <1>2, <1>3

(* An operation on operands they agree on, to which the validator has no     *)
(* objection, they agree on.                                                 *)
LEMMA OperationsAgree ==
  ASSUME NEW op \in Operators, NEW sigs, NEW sorts,
         DOMAIN sigs = 1..Arity(op), DOMAIN sorts = 1..Arity(op),
         \A k \in 1..Arity(op) : Agree(sigs[k].sort, sorts[k]),
         OperationIssues(op, sigs) = {}
  PROVE  Agree(OperationType(op, sigs).sort, TranslatedOperation(op, sorts))
<1> DEFINE used == {sigs[k].sort : k \in DOMAIN sigs}
<1>1. ~SortMismatch(op, used)
  <2>1. SortMismatch(op, used) => "SORT_MISMATCH" \in OperationIssues(op, sigs)
    BY DEF OperationIssues
  <2> QED BY <2>1
<1>2. CASE op \in {"NOT", "AND", "OR"}
  <2>1. used = {"BOOLEAN"}
    BY <1>1, <1>2 DEF SortMismatch
  <2>2. \A k \in DOMAIN sorts : sorts[k] = "BOOLEAN"
    BY <2>1 DEF Agree, Numeric
  <2>3. TranslatedOperation(op, sorts) = "BOOLEAN"
    BY <1>2, <2>2 DEF TranslatedOperation
  <2>4. OperationType(op, sigs).sort = "BOOLEAN"
    BY <1>2 DEF OperationType
  <2> QED BY <2>3, <2>4 DEF Agree
<1>3. CASE op \in {"EQ", "NE"}
  <2>1. 1 \in 1..Arity(op) /\ 2 \in 1..Arity(op) /\ 1..Arity(op) = {1, 2}
    BY <1>3 DEF Arity
  <2>2. used = {sigs[1].sort, sigs[2].sort}
    BY <2>1
  <2>3. used \subseteq Numeric \/ sigs[1].sort = sigs[2].sort
    <3>1. ~(Cardinality(used) > 1 /\ ~(used \subseteq Numeric))
      BY <1>1, <1>3 DEF SortMismatch
    <3> HIDE DEF used
    <3> QED BY <2>2, <3>1, TwoAreMore
  <2>4. sorts[1] = sorts[2] \/ \A k \in DOMAIN sorts : sorts[k] \in Numeric
    BY <2>1, <2>2, <2>3 DEF Agree, Numeric
  <2>5. TranslatedOperation(op, sorts) = "BOOLEAN"
    BY <1>3, <2>4 DEF TranslatedOperation
  <2>6. OperationType(op, sigs).sort = "BOOLEAN"
    BY <1>3 DEF OperationType
  <2> QED BY <2>5, <2>6 DEF Agree
<1>4. CASE op \notin {"NOT", "AND", "OR", "EQ", "NE"}
  <2>1. used \subseteq Numeric
    BY <1>1, <1>4 DEF SortMismatch
  <2>2. \A k \in 1..Arity(op) : sigs[k].sort \in Numeric /\ sorts[k] \in Numeric
    BY <2>1 DEF Agree, Numeric
  <2>3. 1 \in 1..Arity(op)
    BY DEF Arity
  <2>4. CASE op \in {"LT", "LE", "GT", "GE"}
    <3>1. TranslatedOperation(op, sorts) = "BOOLEAN"
      BY <2>2, <2>4 DEF TranslatedOperation
    <3>2. OperationType(op, sigs).sort = "BOOLEAN"
      BY <2>4 DEF OperationType
    <3> QED BY <3>1, <3>2 DEF Agree
  <2>5. CASE op = "NEG"
    <3>1. TranslatedOperation(op, sorts) = sorts[1]
      BY <2>2, <2>5 DEF TranslatedOperation
    <3>2. OperationType(op, sigs).sort = sigs[1].sort
      BY <2>5 DEF OperationType
    <3> QED BY <2>2, <2>3, <3>1, <3>2 DEF Agree
  <2>6. CASE op \in {"ADD", "SUB", "MUL", "DIV"}
    <3>1. TranslatedOperation(op, sorts) \in Numeric
      BY <2>2, <2>6 DEF TranslatedOperation, Numeric
    <3>2. OperationType(op, sigs).sort \in Numeric
      BY <2>6 DEF OperationType, Numeric
    <3> QED BY <3>1, <3>2 DEF Agree
  <2> QED BY <1>4, <2>4, <2>5, <2>6 DEF Operators
<1> QED BY <1>2, <1>3, <1>4

(* A node to which the validator has no objection. *)
LEMMA NodesAgree ==
  ASSUME NEW ast, IsTree(ast), NEW i \in DOMAIN ast, NEW symbols,
         \A j \in DOMAIN symbols : ValidDeclaration(symbols[j]),
         NEW sigs, NEW sorts, DOMAIN sigs = Operands(ast[i]), DOMAIN sorts = Operands(ast[i]),
         \A k \in Operands(ast[i]) : Agree(sigs[k].sort, sorts[k]),
         NodeType(ast[i], sigs, symbols).issues = {}
  PROVE  Agree(NodeType(ast[i], sigs, symbols).sort, NodeSort(ast[i], sorts, symbols))
<1> DEFINE node == ast[i]
           declared == Declared(symbols, node.name)
           d == CHOOSE d \in declared : TRUE
<1>1. CASE node.kind \in DOMAIN Literals
  <2>0. node.kind # "symbol"
    BY <1>1 DEF Literals
  <2>1. NodeType(node, sigs, symbols).sort = Literals[node.kind]
    BY <1>1, <2>0 DEF NodeType
  <2>2. NodeSort(node, sorts, symbols) = Literals[node.kind]
    BY <1>1, <2>0 DEF NodeSort
  <2>3. Literals[node.kind] \in {"BOOLEAN"} \cup Numeric
    BY <1>1 DEF Literals, Numeric
  <2> QED BY <2>1, <2>2, <2>3 DEF Agree
<1>2. CASE node.kind = "symbol"
  <2>1. node.kind \notin DOMAIN Literals
    BY <1>2 DEF Literals
  <2>2. declared # {}
    BY <1>2, <2>1 DEF NodeType
  <2>3. d \in declared
    BY <2>2
  <2>4. NodeType(node, sigs, symbols).sort = d.sort
    BY <1>2, <2>1, <2>2 DEF NodeType
  <2>5. NodeSort(node, sorts, symbols) = d.sort
    BY <1>2, <2>1, <2>2 DEF NodeSort
  <2>6. d.sort \in {"BOOLEAN"} \cup Numeric
    <3>1. \A e \in declared : e.sort \in {"BOOLEAN"} \cup Numeric
      BY DEF Declared, ValidDeclaration
    <3> HIDE DEF d
    <3> QED BY <2>3, <3>1
  <2> QED BY <2>4, <2>5, <2>6 DEF Agree
<1>3. CASE node.kind = "operation"
  <2>1. node.kind \notin DOMAIN Literals /\ node.kind # "symbol"
    BY <1>3 DEF Literals
  <2>2. node.op \in Operators /\ node.args \in Seq(1..(i - 1))
    BY <2>1 DEF IsTree
  <2>3. Len(node.args) = Arity(node.op)
    BY <2>1 DEF NodeType
  <2>4. Operands(node) = 1..Arity(node.op)
    <3>1. ASSUME NEW S, NEW a \in Seq(S) PROVE DOMAIN a = 1..Len(a)
      OBVIOUS
    <3>2. DOMAIN node.args = 1..Len(node.args)
      BY <2>2, <3>1
    <3> QED BY <1>3, <2>3, <3>2 DEF Operands
  <2>5. \A k \in DOMAIN sigs : sigs[k].sort # Untyped
    BY DEF Agree, Numeric, Untyped
  <2>6. \A k \in DOMAIN sorts : sorts[k] # InputError
    BY DEF Agree, Numeric, InputError
  <2>7. NodeType(node, sigs, symbols) = [sort |-> OperationType(node.op, sigs).sort,
          unit |-> OperationType(node.op, sigs).unit, issues |-> OperationIssues(node.op, sigs)]
    BY <2>1, <2>3, <2>5 DEF NodeType
  <2>8. NodeSort(node, sorts, symbols) = TranslatedOperation(node.op, sorts)
    BY <2>1, <2>3, <2>6 DEF NodeSort
  <2>9. Agree(OperationType(node.op, sigs).sort, TranslatedOperation(node.op, sorts))
    <3>1. OperationIssues(node.op, sigs) = {}
      BY <2>7
    <3> QED BY <2>2, <2>4, <3>1, OperationsAgree
  <2> QED BY <2>7, <2>8, <2>9
<1> QED BY <1>1, <1>2, <1>3 DEF IsTree

(* What the structural validator has no objection to, the adapter            *)
(* translates to a Boolean (validate_revision and _translate_node).          *)
LEMMA ValidatedTranslates ==
  ASSUME NEW b, IsTree(b.ast), \A j \in DOMAIN b.symbols : ValidDeclaration(b.symbols[j]),
         Issues(b) = {}
  PROVE  Translates(b)
<1> DEFINE ast == b.ast
           sig == Walk(b.ast, b.symbols)
           sort == Translated(b.ast, b.symbols)
           agreed == {n \in Nat : \A i \in DOMAIN ast : i <= n => Agree(sig[i].sort, sort[i])}
<1>1. Len(ast) \in Nat \ {0} /\ DOMAIN ast = 1..Len(ast)
  BY DEF IsTree
<1>2. ~NamedTwice(b.symbols) /\ \A i \in DOMAIN ast : sig[i].issues = {}
  BY DEF Issues
<1>3. sig[Len(ast)].sort \in {Untyped, "BOOLEAN"}
  BY DEF Issues
<1> HIDE DEF sig, sort
<1>4. 0 \in agreed
  BY <1>1
<1>5. ASSUME NEW n \in Nat, n \in agreed PROVE n + 1 \in agreed
  <2> SUFFICES ASSUME NEW i \in DOMAIN ast, i = n + 1 PROVE Agree(sig[i].sort, sort[i])
    BY <1>1, <1>5
  <2> DEFINE sigs == [k \in Operands(ast[i]) |-> sig[ast[i].args[k]]]
             sorts == [k \in Operands(ast[i]) |-> sort[ast[i].args[k]]]
  <2>1. sig[i] = NodeType(ast[i], sigs, b.symbols) /\ sort[i] = NodeSort(ast[i], sorts, b.symbols)
    BY WalkUnfolds, TranslationUnfolds DEF sig, sort
  <2>2. ASSUME NEW k \in Operands(ast[i]) PROVE Agree(sigs[k].sort, sorts[k])
    <3>1. ast[i].args[k] \in DOMAIN ast /\ ast[i].args[k] <= n
      <4>1. ast[i].args[k] \in DOMAIN ast /\ ast[i].args[k] < n + 1 BY OperandsAreBelow
      <4> QED BY <1>1, <4>1
    <3>2. Agree(sig[ast[i].args[k]].sort, sort[ast[i].args[k]])
      BY <1>5, <3>1
    <3> QED BY <3>2
  <2>3. DOMAIN sigs = Operands(ast[i]) /\ DOMAIN sorts = Operands(ast[i])
    OBVIOUS
  <2> HIDE DEF sigs, sorts
  <2>4. NodeType(ast[i], sigs, b.symbols).issues = {}
    BY <1>2, <2>1
  <2>5. Agree(NodeType(ast[i], sigs, b.symbols).sort, NodeSort(ast[i], sorts, b.symbols))
    BY <2>2, <2>3, <2>4, NodesAgree
  <2> QED BY <2>1, <2>5
<1>6. Len(ast) \in agreed
  <2> HIDE DEF agreed
  <2> QED BY <1>1, <1>4, <1>5, NumbersClimb
<1>7. Agree(sig[Len(ast)].sort, sort[Len(ast)])
  BY <1>1, <1>6
<1>8. sort[Len(ast)] = "BOOLEAN"
  BY <1>3, <1>7 DEF Agree, Numeric, Untyped
<1> QED BY <1>2, <1>8 DEF Translates, sort

-----------------------------------------------------------------------------
(* Formalizations.                                                           *)
(*                                                                           *)
(* A request writes under the lock of its formalization, which it holds      *)
(* until it commits.  So what it has written still fits the head when it     *)
(* commits: a revision follows it, a fact is about it.                       *)

EditSteps == {"new", "begun", "written", "done"}
EditAnswers == {"none", "replayed", "conflict", "not found", "invalid", "accepted", "error"}
RowSets == [revisions : SUBSET RevisionRows, validations : SUBSET ValidationRows, decisions : SUBSET DecisionRows]
EditRecords == [step : EditSteps, number : Nat, write : RowSets, status : FormalStatuses \cup {"none"}, answer : EditAnswers]

EditsTyped == edit \in [DOMAIN Edits -> EditRecords]

Open(r) == edit[r].step \in {"begun", "written"}

(* Revisions are numbered 1, 2, ... and stay with the source's lineage. *)
RevisionsTyped == revisions \subseteq RevisionRows
RevisionsDiffer == \A x, y \in revisions : x.formal = y.formal /\ x.number = y.number => x = y
RevisionsChain == \A f : \E n \in Nat : Numbers(f) = 1..n
OneLineage ==
  \A x, y \in revisions : x.formal = y.formal => SourceArtifacts[x.source].lineage = SourceArtifacts[y.source].lineage

(* A formalization begins with the request that creates it, and what is      *)
(* under way has been found acceptable.                                      *)
RevisionsCreated == \A x \in revisions : Edits[x.formal].op = "create" /\ InStep(x.formal, "done")
EditsBegun ==
  \A r \in DOMAIN Edits : Open(r) =>
    /\ Edits[r].op \in {"create", "revise"} => Acceptable(Bodies[Edits[r].body])
    /\ Edits[r].op = "create" => edit[r].number = 1
    /\ Edits[r].op = "revise" => Numbers(Target(r)) # {}

LocksHeld == \A r, s \in DOMAIN Edits : r # s /\ InStep(r, "written") /\ InStep(s, "written") => Target(r) # Target(s)

(* What a request writes fits the head. *)
About(x, f) == x.formal = f /\ x.number = HeadNumber(f) /\ \E y \in revisions : y.formal = f /\ y.number = x.number /\ y.body = x.body
Fits(r, w) ==
  /\ \A x, y \in w.revisions : x = y
  /\ \A x \in w.revisions :
       /\ x.formal = Target(r) /\ x.number = HeadNumber(Target(r)) + 1
       /\ (Target(r) = r /\ Edits[r].op = "create") \/ Numbers(Target(r)) # {}
       /\ \A y \in revisions : y.formal = Target(r) => SourceArtifacts[y.source].lineage = SourceArtifacts[x.source].lineage
  /\ \A x \in w.validations \cup w.decisions : About(x, Target(r)) /\ w.revisions = {}
  /\ \A x \in w.validations : x.success <=> Issues(Bodies[x.body]) = {}
WritesFit == \A r \in DOMAIN Edits : InStep(r, "written") => Fits(r, edit[r].write)

(* Facts are about a revision that exists, with its body. *)
FactsGrounded ==
  /\ \A x \in validations \cup decisions : \E y \in revisions : y.formal = x.formal /\ y.number = x.number /\ y.body = x.body
  /\ \A x \in validations : x.success <=> Issues(Bodies[x.body]) = {}

RevisionInv == RevisionsTyped /\ RevisionsDiffer /\ RevisionsChain /\ OneLineage
EditInv == EditsTyped /\ RevisionsCreated /\ EditsBegun /\ LocksHeld /\ WritesFit
FormalInv == RevisionInv /\ EditInv /\ FactsGrounded

(* The head of a formalization.                                              *)
LEMMA HeadIsLast ==
  ASSUME NEW f, NEW n \in Nat, Numbers(f) = 1..n PROVE HeadNumber(f) = n
<1>1. CASE n = 0 BY <1>1 DEF HeadNumber
<1>2. CASE n # 0
  <2>1. n \in 1..n /\ \A m \in 1..n : m <= n BY <1>2
  <2>2. Greatest(1..n) \in 1..n /\ \A m \in 1..n : m <= Greatest(1..n) BY <2>1 DEF Greatest
  <2>3. Greatest(1..n) = n BY <2>1, <2>2
  <2> QED BY <2>1, <2>3 DEF HeadNumber
<1> QED BY <1>1, <1>2

LEMMA HeadFacts ==
  ASSUME RevisionInv, NEW f
  PROVE  /\ HeadNumber(f) \in Nat /\ Numbers(f) = 1..HeadNumber(f)
         /\ HeadNumber(f) # 0 => HeadRow(f) \in revisions /\ HeadRow(f).formal = f /\ HeadRow(f).number = HeadNumber(f)
<1>1. PICK n \in Nat : Numbers(f) = 1..n BY DEF RevisionInv, RevisionsChain
<1>2. HeadNumber(f) = n BY <1>1, HeadIsLast
<1>3. ASSUME n # 0 PROVE \E r \in revisions : r.formal = f /\ r.number = n
  <2>1. n \in Numbers(f) BY <1>1, <1>3
  <2> QED BY <2>1 DEF Numbers
<1>4. HeadNumber(f) # 0 => HeadRow(f) \in revisions /\ HeadRow(f).formal = f /\ HeadRow(f).number = HeadNumber(f)
  BY <1>2, <1>3 DEF HeadRow
<1> QED BY <1>1, <1>2, <1>4

(* What is known of the head when no revision of the formalization changes.  *)
LEMMA HeadStays ==
  ASSUME NEW f, {y \in revisions' : y.formal = f} = {y \in revisions : y.formal = f}
  PROVE  Numbers(f)' = Numbers(f) /\ HeadNumber(f)' = HeadNumber(f)
<1>1. Numbers(f)' = Numbers(f) BY DEF Numbers
<1> QED BY <1>1 DEF HeadNumber

LEMMA FormalStarts == FormalInit => FormalInv
<1> SUFFICES ASSUME FormalInit PROVE FormalInv OBVIOUS
<1>1. revisions = {} /\ validations = {} /\ decisions = {} /\ edit = [r \in DOMAIN Edits |-> Unsent] BY DEF FormalInit
<1>2. Unsent \in EditRecords BY DEF Unsent, Nothing, EditRecords, EditSteps, EditAnswers, RowSets
<1>3. Unsent.step = "new" BY DEF Unsent
<1>4. EditsTyped BY <1>1, <1>2 DEF EditsTyped
<1>5. \A r \in DOMAIN Edits : edit[r].step = "new" BY <1>1, <1>3
<1>6. RevisionsChain
  <2>1. \A f : Numbers(f) = {} BY <1>1 DEF Numbers
  <2>2. 1..0 = {} OBVIOUS
  <2> QED BY <2>1, <2>2 DEF RevisionsChain
<1>7. RevisionInv BY <1>1, <1>6 DEF RevisionInv, RevisionsTyped, RevisionsDiffer, OneLineage
<1>8. EditInv BY <1>1, <1>4, <1>5 DEF EditInv, RevisionsCreated, EditsBegun, Open, LocksHeld, WritesFit, InStep
<1> QED BY <1>1, <1>7, <1>8 DEF FormalInv, FactsGrounded

(* A step of one request that changes no table.                              *)
LEMMA FormalRequestMoves ==
  ASSUME FormalInv, NEW r \in DOMAIN Edits, NEW rec \in EditRecords, edit' = [edit EXCEPT ![r] = rec],
         UNCHANGED <<revisions, validations, decisions>>,
         edit[r].step = "done" => rec.step = "done",
         rec.step \in {"begun", "written"} =>
           /\ Edits[r].op \in {"create", "revise"} => Acceptable(Bodies[Edits[r].body])
           /\ Edits[r].op = "create" => rec.number = 1
           /\ Edits[r].op = "revise" => Numbers(Target(r)) # {},
         rec.step = "written" => FormalUnlocked(r) /\ Fits(r, rec.write)
  PROVE  FormalInv'
<1>1. edit'[r] = rec /\ \A s \in DOMAIN Edits : s # r => edit'[s] = edit[s] BY DEF FormalInv, EditInv, EditsTyped
<1>2. EditsTyped'
  <2>1. edit' \in [DOMAIN Edits -> EditRecords] BY DEF FormalInv, EditInv, EditsTyped
  <2> QED BY <2>1 DEF EditsTyped, EditRecords, EditSteps, EditAnswers, RowSets, RevisionRows, ValidationRows, DecisionRows, FormalStatuses
<1>3. RevisionInv' BY DEF FormalInv, RevisionInv, RevisionsTyped, RevisionsDiffer, RevisionsChain, OneLineage, Numbers, RevisionRows
<1>4. \A f : Numbers(f)' = Numbers(f) /\ HeadNumber(f)' = HeadNumber(f) BY HeadStays
<1>5. \A s : \A w : Fits(s, w) => Fits(s, w)'
  <2> SUFFICES ASSUME NEW s, NEW w, Fits(s, w) PROVE Fits(s, w)' OBVIOUS
  <2>1. \A x, f : About(x, f)' = About(x, f) BY <1>4 DEF About
  <2>2. HeadNumber(Target(s))' = HeadNumber(Target(s)) /\ Numbers(Target(s))' = Numbers(Target(s)) BY <1>4 DEF Target
  <2> QED BY <2>1, <2>2 DEF Fits, Target
<1>6. RevisionsCreated' BY <1>1 DEF FormalInv, EditInv, RevisionsCreated, InStep, RevisionInv, RevisionsTyped, RevisionRows
<1>7. EditsBegun'
  <2> SUFFICES ASSUME NEW s \in DOMAIN Edits, Open(s)'
      PROVE /\ Edits[s].op \in {"create", "revise"} => Acceptable(Bodies[Edits[s].body])
            /\ Edits[s].op = "create" => edit'[s].number = 1
            /\ Edits[s].op = "revise" => Numbers(Target(s))' # {}
    BY DEF EditsBegun, Acceptable
  <2>1. Numbers(Target(s))' = Numbers(Target(s)) BY <1>4 DEF Target
  <2>2. CASE s = r BY <2>1, <2>2, <1>1 DEF Open
  <2>3. CASE s # r BY <2>1, <2>3, <1>1 DEF Open, FormalInv, EditInv, EditsBegun
  <2> QED BY <2>2, <2>3
<1>8. LocksHeld'
  <2>1. \A s \in DOMAIN Edits : s # r => InStep(s, "written")' = InStep(s, "written") BY <1>1 DEF InStep
  <2>2. InStep(r, "written")' => \A s \in DOMAIN Edits : s # r /\ InStep(s, "written") => Target(s) # Target(r)
    BY <1>1 DEF InStep, FormalUnlocked
  <2>3. \A s : Target(s)' = Target(s) BY DEF Target
  <2> QED BY <2>1, <2>2, <2>3 DEF FormalInv, EditInv, LocksHeld
<1>9. WritesFit'
  <2> SUFFICES ASSUME NEW s \in DOMAIN Edits, InStep(s, "written")' PROVE Fits(s, edit[s].write)'
    BY DEF WritesFit
  <2> DEFINE w == edit'[s].write
  <2>1. Fits(s, w)
    <3>1. CASE s = r BY <3>1, <1>1 DEF InStep
    <3>2. CASE s # r BY <3>2, <1>1 DEF InStep, FormalInv, EditInv, WritesFit
    <3> QED BY <3>1, <3>2
  <2> QED BY <2>1, <1>4 DEF Fits, About, Target
<1>10. FactsGrounded' BY DEF FormalInv, FactsGrounded
<1> QED BY <1>2, <1>3, <1>6, <1>7, <1>8, <1>9, <1>10 DEF FormalInv, EditInv

LEMMA AnswersAreRecords ==
  ASSUME NEW a \in EditAnswers
  PROVE  [Unsent EXCEPT !.step = "done", !.answer = a] \in EditRecords /\ [Unsent EXCEPT !.step = "done", !.answer = a].step = "done"
BY DEF Unsent, Nothing, EditRecords, EditSteps, EditAnswers, RowSets

LEMMA FormalAnswers ==
  ASSUME FormalInv, NEW r \in DOMAIN Edits, NEW a \in EditAnswers, edit' = Answered(r, a),
         UNCHANGED <<revisions, validations, decisions>>
  PROVE  FormalInv'
<1> DEFINE rec == [Unsent EXCEPT !.step = "done", !.answer = a]
<1>1. edit' = [edit EXCEPT ![r] = rec] BY DEF Answered
<1>2. rec \in EditRecords /\ rec.step = "done" BY AnswersAreRecords
<1> HIDE DEF rec
<1> QED BY <1>1, <1>2, FormalRequestMoves

(* A formalization has no revision before its creation is done.              *)
LEMMA NothingBeforeCreation ==
  ASSUME FormalInv, NEW r \in DOMAIN Edits, edit[r].step # "done" PROVE Numbers(r) = {} /\ HeadNumber(r) = 0
<1>1. Numbers(r) = {} BY DEF FormalInv, EditInv, RevisionsCreated, InStep, Numbers
<1> QED BY <1>1 DEF HeadNumber

LEMMA FormalBegin ==
  ASSUME FormalInv, NEW r \in DOMAIN Edits, Begin(r) PROVE FormalInv'
<1>1. InStep(r, "new") /\ UNCHANGED <<revisions, validations, decisions>> BY DEF Begin
<1>2. CASE \E a \in {"replayed", "conflict", "not found", "invalid"} : edit' = Answered(r, a)
  BY <1>1, <1>2, FormalAnswers DEF EditAnswers
<1>3. CASE /\ ~(Edits[r].op = "revise" /\ Numbers(Edits[r].on) = {})
           /\ ~(Edits[r].op \in {"create", "revise"} /\ ~Acceptable(Bodies[Edits[r].body]))
           /\ edit' = [edit EXCEPT ![r].step = "begun", ![r].number = HeadNumber(Target(r)) + 1]
  <2> DEFINE head == HeadNumber(Target(r))
             rec == [edit[r] EXCEPT !.step = "begun", !.number = head + 1]
  <2>1. head \in Nat BY HeadFacts DEF FormalInv
  <2>2. Edits[r].op = "create" => head = 0 BY <1>1, NothingBeforeCreation DEF InStep, Target
  <2> HIDE DEF head
  <2>3. edit[r] \in EditRecords BY DEF FormalInv, EditInv, EditsTyped
  <2>4. rec \in EditRecords /\ rec.step = "begun" /\ rec.number = head + 1
    <3>1. head + 1 \in Nat BY <2>1
    <3> DEFINE next == head + 1
    <3> HIDE DEF next
    <3>2. [edit[r] EXCEPT !.step = "begun", !.number = next] \in EditRecords
      BY <2>3, <3>1 DEF EditRecords, EditSteps, next
    <3>3. rec.step = "begun" /\ rec.number = head + 1 BY <2>3 DEF EditRecords
    <3> QED BY <3>2, <3>3 DEF next
  <2>5. edit' = [edit EXCEPT ![r] = rec] BY <1>3, <2>3 DEF EditRecords, head, FormalInv, EditInv, EditsTyped
  <2> HIDE DEF rec
  <2>6. Edits[r].op = "revise" => Numbers(Target(r)) # {} BY <1>3 DEF Target
  <2>7. Edits[r].op = "create" => rec.number = 1 BY <2>2, <2>4
  <2>8. /\ edit[r].step # "done" /\ rec.step # "written"
        /\ Edits[r].op \in {"create", "revise"} => Acceptable(Bodies[Edits[r].body])
    BY <1>1, <1>3, <2>4 DEF InStep
  <2> QED BY <1>1, <2>4, <2>5, <2>6, <2>7, <2>8, FormalRequestMoves
<1> QED BY <1>2, <1>3 DEF Begin

LEMMA FormalLose ==
  ASSUME FormalInv, NEW r \in DOMAIN Edits, LoseEdit(r) PROVE FormalInv'
<1>1. Unsent \in EditRecords /\ Unsent.step = "new"
  BY DEF Unsent, Nothing, EditRecords, EditSteps, EditAnswers, RowSets
<1> QED BY <1>1, FormalRequestMoves DEF LoseEdit

(* What an action writes fits the head it has read under the lock.           *)
LEMMA WritesAreSound ==
  ASSUME FormalInv, NEW r \in DOMAIN Edits, InStep(r, "begun"), NEW w \in Writes(r)
  PROVE  w \in RowSets /\ Fits(r, w)
<1> DEFINE f == Target(r)
           n == HeadNumber(f)
           head == HeadRow(f)
<1>1. n \in Nat /\ Numbers(f) = 1..n BY HeadFacts DEF FormalInv
<1>2. n # 0 => head \in revisions /\ head.formal = f /\ head.number = n BY HeadFacts DEF FormalInv
<1>3. edit[r].number \in Nat BY DEF FormalInv, EditInv, EditsTyped, EditRecords
<1>4. Edits[r].op \in {"create", "revise"} => Acceptable(Bodies[Edits[r].body]) BY DEF FormalInv, EditInv, EditsBegun, Open, InStep
<1>5. CASE Edits[r].op = "create" /\ w = [Nothing EXCEPT !.revisions = {NewRevision(r)}]
  <2>1. f = r /\ n = 0 /\ Numbers(f) = {} BY <1>5, NothingBeforeCreation DEF Target, InStep
  <2>2. edit[r].number = 1 BY <1>5 DEF FormalInv, EditInv, EditsBegun, Open, InStep
  <2>3. NewRevision(r) \in RevisionRows /\ NewRevision(r).formal = f /\ NewRevision(r).number = 1
    BY <1>4, <1>5, <2>1, <2>2, EditsAreRequests DEF NewRevision, RevisionRows, Acceptable, SourcesPinned
  <2>4. ~\E y \in revisions : y.formal = f BY <2>1 DEF Numbers
  <2>5. w.revisions = {NewRevision(r)} /\ w.validations = {} /\ w.decisions = {} /\ w \in RowSets
    BY <1>5, <2>3 DEF Nothing, RowSets
  <2> HIDE DEF n, f, head
  <2>6. NewRevision(r).number = n + 1 BY <2>1, <2>3
  <2> QED BY <1>5, <2>1, <2>3, <2>4, <2>5, <2>6 DEF Fits, n, f
<1>6. CASE Edits[r].op = "revise" /\ MayRevise(r) /\ w = [Nothing EXCEPT !.revisions = {NewRevision(r)}]
  <2>1. Numbers(f) # {} BY <1>6 DEF FormalInv, EditInv, EditsBegun, Open, InStep
  <2>2. n # 0 BY <1>1, <2>1
  <2>3. head \in revisions /\ head.formal = f BY <1>2, <2>2
  <2>4. f \in DOMAIN Edits BY <2>3 DEF FormalInv, RevisionInv, RevisionsTyped, RevisionRows
  <2>5. edit[r].number = n + 1 BY <1>6 DEF MayRevise
  <2>6. SourceArtifacts[NewRevision(r).source].lineage = SourceArtifacts[head.source].lineage BY <1>6 DEF MayRevise
  <2> HIDE DEF n, head
  <2>7. NewRevision(r) \in RevisionRows /\ NewRevision(r).formal = f /\ NewRevision(r).number = n + 1
    BY <1>1, <1>4, <1>6, <2>4, <2>5, EditsAreRequests DEF NewRevision, RevisionRows, Acceptable, SourcesPinned
  <2>8. w.revisions = {NewRevision(r)} /\ w.validations = {} /\ w.decisions = {} /\ w \in RowSets
    BY <1>6, <2>7 DEF Nothing, RowSets
  <2>9. \A y \in revisions : y.formal = f => SourceArtifacts[y.source].lineage = SourceArtifacts[NewRevision(r).source].lineage
    BY <2>3, <2>6 DEF FormalInv, RevisionInv, OneLineage
  <2> HIDE DEF f
  <2> QED BY <2>1, <2>7, <2>8, <2>9 DEF Fits, n, f
<1>7. CASE w = Nothing BY <1>7 DEF Nothing, RowSets, Fits
<1>8. ASSUME n = Edits[r].ifMatch, Edits[r].op # "create"
      PROVE  n \in Nat \ {0} /\ head \in revisions /\ head.formal = f /\ head.number = n /\ f \in DOMAIN Edits /\ head.body \in DOMAIN Bodies
  <2>1. n \in Nat \ {0} BY <1>8, EditsAreRequests
  <2> QED BY <2>1, <1>2 DEF FormalInv, RevisionInv, RevisionsTyped, RevisionRows
<1>9. CASE /\ Edits[r].op = "validate" /\ n = Edits[r].ifMatch
           /\ w = [Nothing EXCEPT !.validations = {[formal |-> f, number |-> n, body |-> head.body, success |-> Issues(Bodies[head.body]) = {}]}]
  <2> DEFINE x == [formal |-> f, number |-> n, body |-> head.body, success |-> Issues(Bodies[head.body]) = {}]
  <2>1. n \in Nat \ {0} /\ head \in revisions /\ head.formal = f /\ head.number = n /\ f \in DOMAIN Edits /\ head.body \in DOMAIN Bodies
    BY <1>8, <1>9
  <2> HIDE DEF n, head, f
  <2>2. x \in ValidationRows BY <2>1 DEF ValidationRows
  <2>3. x.formal = f /\ x.number = n /\ x.body = head.body /\ (x.success <=> Issues(Bodies[x.body]) = {}) OBVIOUS
  <2>4. w = [Nothing EXCEPT !.validations = {x}] BY <1>9
  <2> HIDE DEF x
  <2>5. w.revisions = {} /\ w.validations = {x} /\ w.decisions = {} /\ w \in RowSets BY <2>4, <2>2 DEF Nothing, RowSets
  <2>6. About(x, f) BY <2>1, <2>3 DEF About, n
  <2> QED BY <2>3, <2>5, <2>6 DEF Fits, f
<1>10. CASE /\ Edits[r].op \in {"CONFIRMED", "REJECTED"} /\ n = Edits[r].ifMatch
            /\ w = [Nothing EXCEPT !.decisions = {[formal |-> f, number |-> n, body |-> head.body, kind |-> Edits[r].op]}]
  <2> DEFINE x == [formal |-> f, number |-> n, body |-> head.body, kind |-> Edits[r].op]
  <2>1. n \in Nat \ {0} /\ head \in revisions /\ head.formal = f /\ head.number = n /\ f \in DOMAIN Edits /\ head.body \in DOMAIN Bodies
    BY <1>8, <1>10
  <2> HIDE DEF n, head, f
  <2>2. x \in DecisionRows BY <2>1, <1>10 DEF DecisionRows
  <2>3. x.formal = f /\ x.number = n /\ x.body = head.body OBVIOUS
  <2>4. w = [Nothing EXCEPT !.decisions = {x}] BY <1>10
  <2> HIDE DEF x
  <2>5. w.revisions = {} /\ w.validations = {} /\ w.decisions = {x} /\ w \in RowSets BY <2>4, <2>2 DEF Nothing, RowSets
  <2>6. About(x, f) BY <2>1, <2>3 DEF About, n
  <2> QED BY <2>5, <2>6 DEF Fits, f
<1>11. Edits[r].op \in {"create", "revise", "validate", "CONFIRMED", "REJECTED"} BY EditsAreRequests
<1>12. CASE Edits[r].op = "create" BY <1>5, <1>12 DEF Writes
<1>13. CASE Edits[r].op = "revise" BY <1>6, <1>13 DEF Writes
<1>14. CASE Edits[r].op = "validate" BY <1>7, <1>9, <1>14 DEF Writes
<1>15. CASE Edits[r].op \in {"CONFIRMED", "REJECTED"}
  <2>1. MayDecide(r) /\ w = [Nothing EXCEPT !.decisions = {[formal |-> f, number |-> n, body |-> head.body, kind |-> Edits[r].op]}]
    BY <1>15 DEF Writes
  <2> QED BY <1>10, <1>15, <2>1 DEF MayDecide
<1> QED BY <1>11, <1>12, <1>13, <1>14, <1>15

LEMMA FormalWrite ==
  ASSUME FormalInv, NEW r \in DOMAIN Edits, Write(r) PROVE FormalInv'
<1>1. InStep(r, "begun") /\ FormalUnlocked(r) /\ UNCHANGED <<revisions, validations, decisions>> BY DEF Write
<1>2. CASE Writes(r) = {}
  <2>1. edit' = Answered(r, "conflict") BY <1>2 DEF Write
  <2> QED BY <1>1, <2>1, FormalAnswers DEF EditAnswers
<1>3. CASE Writes(r) # {}
  <2> DEFINE w == CHOOSE w \in Writes(r) : TRUE
             st == RecordedStatus(r, w)
             rec == [edit[r] EXCEPT !.step = "written", !.write = w, !.status = st]
  <2>1. w \in Writes(r) BY <1>3
  <2>2. edit' = [edit EXCEPT ![r].step = "written", ![r].write = w, ![r].status = st] BY <1>3 DEF Write
  <2>3. st \in FormalStatuses BY DEF RecordedStatus, DeriveStatus, FormalStatuses
  <2> HIDE DEF w, st
  <2>4. w \in RowSets /\ Fits(r, w) BY <1>1, <2>1, WritesAreSound
  <2>5. edit[r] \in EditRecords BY DEF FormalInv, EditInv, EditsTyped
  <2>6. rec \in EditRecords BY <2>3, <2>4, <2>5 DEF EditRecords, EditSteps
  <2>7. rec.step = "written" /\ rec.number = edit[r].number /\ rec.write = w BY <2>5 DEF EditRecords
  <2>8. edit' = [edit EXCEPT ![r] = rec] BY <2>2, <2>5 DEF EditRecords, FormalInv, EditInv, EditsTyped
  <2> HIDE DEF rec
  <2>9. /\ Edits[r].op \in {"create", "revise"} => Acceptable(Bodies[Edits[r].body])
        /\ Edits[r].op = "create" => rec.number = 1
        /\ Edits[r].op = "revise" => Numbers(Target(r)) # {}
    BY <1>1, <2>7 DEF FormalInv, EditInv, EditsBegun, Open, InStep
  <2>10. edit[r].step # "done" BY <1>1 DEF InStep
  <2> QED BY <1>1, <2>4, <2>6, <2>7, <2>8, <2>9, <2>10, FormalRequestMoves
<1> QED BY <1>2, <1>3

(* The revisions after a commit are those before and at most one more, the   *)
(* next of its formalization.                                                *)
LEMMA RevisionsCommit ==
  ASSUME RevisionInv, NEW r \in DOMAIN Edits, NEW w \in RowSets, Fits(r, w), RowsUnique(w),
         revisions' = revisions \cup w.revisions
  PROVE  RevisionInv'
<1>1. RevisionsTyped' BY DEF RevisionInv, RevisionsTyped, RowSets, RevisionRows
<1>2. RevisionsDiffer'
  <2>1. \A x \in w.revisions : \A y \in revisions : ~(x.formal = y.formal /\ x.number = y.number) BY DEF RowsUnique, Of
  <2> QED BY <2>1 DEF RevisionInv, RevisionsDiffer, Fits
<1>3. RevisionsChain'
  <2> SUFFICES ASSUME NEW f PROVE \E n \in Nat : Numbers(f)' = 1..n BY DEF RevisionsChain
  <2>1. CASE \E x \in w.revisions : x.formal = f
    <3>1. PICK x \in w.revisions : x.formal = f BY <2>1
    <3>2. w.revisions = {x} BY DEF Fits
    <3>3. f = Target(r) /\ x.number = HeadNumber(f) + 1 BY <3>1 DEF Fits
    <3>4. HeadNumber(f) \in Nat /\ Numbers(f) = 1..HeadNumber(f) BY HeadFacts
    <3>5. Numbers(f)' = Numbers(f) \cup {x.number} BY <3>1, <3>2 DEF Numbers
    <3>6. (1..HeadNumber(f)) \cup {HeadNumber(f) + 1} = 1..(HeadNumber(f) + 1) BY <3>4
    <3>7. HeadNumber(f) + 1 \in Nat BY <3>4
    <3> QED BY <3>3, <3>4, <3>5, <3>6, <3>7
  <2>2. CASE ~\E x \in w.revisions : x.formal = f
    <3>1. {y \in revisions' : y.formal = f} = {y \in revisions : y.formal = f} BY <2>2
    <3>2. Numbers(f)' = Numbers(f) BY <3>1, HeadStays
    <3> QED BY <3>2 DEF RevisionInv, RevisionsChain
  <2> QED BY <2>1, <2>2
<1>4. OneLineage' BY DEF RevisionInv, OneLineage, Fits
<1> QED BY <1>1, <1>2, <1>3, <1>4 DEF RevisionInv

LEMMA FormalCommit ==
  ASSUME FormalInv, NEW r \in DOMAIN Edits, CommitEdit(r) PROVE FormalInv'
<1> DEFINE w == edit[r].write
<1>1. InStep(r, "written") BY DEF CommitEdit
<1>2. CASE ~RowsUnique(w)
  <2>1. edit' = Answered(r, "error") /\ UNCHANGED <<revisions, validations, decisions>> BY <1>2 DEF CommitEdit
  <2> QED BY <2>1, FormalAnswers DEF EditAnswers
<1>3. CASE RowsUnique(w)
  <2> DEFINE rec == [Unsent EXCEPT !.step = "done", !.answer = "accepted"]
  <2>1. /\ revisions' = revisions \cup w.revisions /\ validations' = validations \cup w.validations
        /\ decisions' = decisions \cup w.decisions /\ edit' = [edit EXCEPT ![r] = rec]
    BY <1>3 DEF CommitEdit, Answered
  <2>2. rec \in EditRecords /\ rec.step = "done" BY AnswersAreRecords DEF EditAnswers
  <2> HIDE DEF rec
  <2>3. w \in RowSets BY DEF FormalInv, EditInv, EditsTyped, EditRecords
  <2>4. Fits(r, w) BY <1>1 DEF FormalInv, EditInv, WritesFit
  <2> HIDE DEF w
  <2>5. edit'[r] = rec /\ \A s \in DOMAIN Edits : s # r => edit'[s] = edit[s] BY <2>1 DEF FormalInv, EditInv, EditsTyped
  <2>6. RevisionInv' BY <1>3, <2>1, <2>3, <2>4, RevisionsCommit DEF FormalInv
  <2>7. EditsTyped'
    <3>1. edit' \in [DOMAIN Edits -> EditRecords] BY <2>1, <2>2 DEF FormalInv, EditInv, EditsTyped
    <3> QED BY <3>1 DEF EditsTyped, EditRecords, EditSteps, EditAnswers, RowSets, RevisionRows, ValidationRows, DecisionRows, FormalStatuses
  <2>8. \A f : f # Target(r) => Numbers(f)' = Numbers(f) /\ HeadNumber(f)' = HeadNumber(f)
    <3> SUFFICES ASSUME NEW f, f # Target(r) PROVE Numbers(f)' = Numbers(f) /\ HeadNumber(f)' = HeadNumber(f) OBVIOUS
    <3>1. {y \in revisions' : y.formal = f} = {y \in revisions : y.formal = f} BY <2>1, <2>4 DEF Fits
    <3> QED BY <3>1, HeadStays
  <2>9. \A f : Numbers(f) \subseteq Numbers(f)' BY <2>1 DEF Numbers
  <2>10. RevisionsCreated'
    <3> SUFFICES ASSUME NEW x \in revisions' PROVE Edits[x.formal].op = "create" /\ InStep(x.formal, "done")'
      BY DEF RevisionsCreated
    <3>0. \A y \in revisions : y.formal \in DOMAIN Edits /\ Edits[y.formal].op = "create" /\ edit'[y.formal].step = "done"
      BY <2>2, <2>5 DEF FormalInv, EditInv, RevisionsCreated, InStep, RevisionInv, RevisionsTyped, RevisionRows
    <3>1. CASE x \in revisions BY <3>0, <3>1 DEF InStep
    <3>2. CASE x \in w.revisions
      <4>1. x.formal = Target(r) BY <3>2, <2>4 DEF Fits
      <4>2. CASE Target(r) = r /\ Edits[r].op = "create" BY <4>1, <4>2, <2>2, <2>5 DEF InStep
      <4>3. CASE Numbers(Target(r)) # {}
        <5>1. PICK y \in revisions : y.formal = Target(r) BY <4>3 DEF Numbers
        <5> QED BY <5>1, <4>1, <3>0 DEF InStep
      <4> QED BY <4>2, <4>3, <3>2, <2>4 DEF Fits
    <3> QED BY <3>1, <3>2, <2>1
  <2>11. EditsBegun'
    <3> SUFFICES ASSUME NEW s \in DOMAIN Edits, Open(s)'
        PROVE /\ Edits[s].op \in {"create", "revise"} => Acceptable(Bodies[Edits[s].body])
              /\ Edits[s].op = "create" => edit'[s].number = 1
              /\ Edits[s].op = "revise" => Numbers(Target(s))' # {}
      BY DEF EditsBegun, Acceptable
    <3>1. s # r /\ Open(s) /\ edit'[s] = edit[s] BY <2>2, <2>5 DEF Open
    <3>2. Numbers(Target(s)) \subseteq Numbers(Target(s))' BY <2>9 DEF Target
    <3> QED BY <3>1, <3>2 DEF FormalInv, EditInv, EditsBegun
  <2>12. \A s \in DOMAIN Edits : InStep(s, "written")' => s # r /\ InStep(s, "written") /\ edit'[s] = edit[s]
    BY <2>2, <2>5 DEF InStep
  <2>13. LocksHeld' BY <2>12 DEF FormalInv, EditInv, LocksHeld, Target
  <2>14. WritesFit'
    <3> SUFFICES ASSUME NEW s \in DOMAIN Edits, InStep(s, "written")' PROVE Fits(s, edit[s].write)' BY DEF WritesFit
    <3>1. s # r /\ InStep(s, "written") /\ edit'[s] = edit[s] BY <2>12
    <3> DEFINE f == Target(s)
               v == edit[s].write
    <3>2. f # Target(r) BY <1>1, <3>1 DEF FormalInv, EditInv, LocksHeld
    <3>3. Fits(s, v) BY <3>1 DEF FormalInv, EditInv, WritesFit
    <3>4. Numbers(f)' = Numbers(f) /\ HeadNumber(f)' = HeadNumber(f) BY <2>8, <3>2 DEF Target
    <3>5. \A y \in revisions' : y.formal = f => y \in revisions BY <2>1, <2>4, <3>2 DEF Fits
    <3>6. edit'[s].write = v /\ Target(s)' = f BY <3>1 DEF Target
    <3> HIDE DEF v
    <3>7. \A x \in v.validations \cup v.decisions : About(x, f)'
      <4> SUFFICES ASSUME NEW x \in v.validations \cup v.decisions PROVE About(x, f)' OBVIOUS
      <4>1. About(x, f) BY <3>3 DEF Fits
      <4> QED BY <4>1, <3>4, <2>1 DEF About, Target
    <3> QED BY <3>3, <3>4, <3>5, <3>6, <3>7 DEF Fits, Target
  <2>15. FactsGrounded'
    <3>1. \A x \in w.validations \cup w.decisions : \E y \in revisions : y.formal = x.formal /\ y.number = x.number /\ y.body = x.body
      BY <2>4 DEF Fits, About
    <3>2. \A x \in w.validations : x.success <=> Issues(Bodies[x.body]) = {} BY <2>4 DEF Fits
    <3> QED BY <2>1, <3>1, <3>2 DEF FormalInv, FactsGrounded
  <2> QED BY <2>6, <2>7, <2>10, <2>11, <2>13, <2>14, <2>15 DEF FormalInv, EditInv
<1> QED BY <1>2, <1>3

LEMMA FormalStutters ==
  ASSUME FormalInv, UNCHANGED <<revisions, validations, decisions, edit>> PROVE FormalInv'
<1>1. EditsTyped'
  BY DEF FormalInv, EditInv, EditsTyped, EditRecords, EditSteps, EditAnswers, RowSets, RevisionRows, ValidationRows, DecisionRows, FormalStatuses
<1>2. RevisionInv' BY DEF FormalInv, RevisionInv, RevisionsTyped, RevisionsDiffer, RevisionsChain, OneLineage, Numbers, RevisionRows
<1>3. \A f : Numbers(f)' = Numbers(f) /\ HeadNumber(f)' = HeadNumber(f) BY HeadStays
<1>4. RevisionsCreated' /\ LocksHeld' BY DEF FormalInv, EditInv, RevisionsCreated, LocksHeld, InStep, Target
<1>5. EditsBegun' BY <1>3 DEF FormalInv, EditInv, EditsBegun, Open, Target
<1>6. WritesFit'
  <2> SUFFICES ASSUME NEW s \in DOMAIN Edits, InStep(s, "written") PROVE Fits(s, edit[s].write)' BY DEF WritesFit, InStep
  <2> DEFINE v == edit[s].write
  <2>1. Fits(s, v) BY DEF FormalInv, EditInv, WritesFit
  <2>2. /\ HeadNumber(Target(s))' = HeadNumber(Target(s)) /\ Numbers(Target(s))' = Numbers(Target(s))
        /\ edit'[s].write = v
    BY <1>3 DEF Target
  <2> HIDE DEF v
  <2> QED BY <2>1, <2>2 DEF Fits, About, Target
<1>7. FactsGrounded' BY DEF FormalInv, FactsGrounded
<1> QED BY <1>1, <1>2, <1>4, <1>5, <1>6, <1>7 DEF FormalInv, EditInv

LEMMA FormalStep == FormalInv /\ [FormalNext]_formalVars => FormalInv'
<1> SUFFICES ASSUME FormalInv, [FormalNext]_formalVars PROVE FormalInv' OBVIOUS
<1>1. ASSUME NEW r \in DOMAIN Edits, Begin(r) \/ Write(r) \/ CommitEdit(r) \/ LoseEdit(r) PROVE FormalInv'
  BY <1>1, FormalBegin, FormalWrite, FormalCommit, FormalLose
<1>2. ASSUME NEW e \in DOMAIN Evaluations, LoadRevision(e) \/ Solve(e) \/ Persist(e) PROVE FormalInv'
  <2>1. UNCHANGED lifecycleVars BY <1>2 DEF LoadRevision, Solve, Persist
  <2> QED BY <2>1, FormalStutters DEF lifecycleVars
<1>3. CASE UNCHANGED formalVars BY <1>3, FormalStutters DEF formalVars
<1> QED BY <1>1, <1>2, <1>3 DEF FormalNext

LEMMA FormalIsSound == FormalInv => ConfirmedIsSound
<1> SUFFICES ASSUME FormalInv PROVE ConfirmedIsSound OBVIOUS
<1>1. ASSUME NEW x \in revisions, NEW f \in Of(validations, x.formal, x.number) \cup Of(decisions, x.formal, x.number)
      PROVE  f.body = x.body
  <2>1. f \in validations \cup decisions /\ f.formal = x.formal /\ f.number = x.number BY DEF Of
  <2>2. PICK y \in revisions : y.formal = x.formal /\ y.number = x.number /\ y.body = f.body
    BY <2>1 DEF FormalInv, FactsGrounded
  <2>3. y = x BY <2>2 DEF FormalInv, RevisionInv, RevisionsDiffer
  <2> QED BY <2>2, <2>3
<1>2. ASSUME NEW x \in revisions, Status(x.formal, x.number) = "VALIDATED" PROVE Issues(Bodies[x.body]) = {}
  <2>1. \E v \in Of(validations, x.formal, x.number) : v.success BY <1>2 DEF Status, DeriveStatus
  <2>2. PICK v \in Of(validations, x.formal, x.number) : v.success BY <2>1
  <2>3. v.body = x.body BY <1>1
  <2>4. Issues(Bodies[v.body]) = {} BY <2>2 DEF FormalInv, FactsGrounded, Of
  <2> QED BY <2>3, <2>4
<1>3. ASSUME NEW x \in revisions
      PROVE \E y \in revisions : /\ y.formal = x.formal /\ (x.number = 1 \/ y.number = x.number - 1)
                                 /\ SourceArtifacts[y.source].lineage = SourceArtifacts[x.source].lineage
  <2>1. x.number \in Nat \ {0} BY DEF FormalInv, RevisionInv, RevisionsTyped, RevisionRows
  <2>2. CASE x.number = 1 BY <2>2
  <2>3. CASE x.number # 1
    <3>1. PICK n \in Nat : Numbers(x.formal) = 1..n BY DEF FormalInv, RevisionInv, RevisionsChain
    <3>2. x.number \in 1..n BY <3>1 DEF Numbers
    <3>3. x.number - 1 \in Numbers(x.formal) BY <2>1, <2>3, <3>1, <3>2
    <3>4. PICK y \in revisions : y.formal = x.formal /\ y.number = x.number - 1 BY <3>3 DEF Numbers
    <3> QED BY <3>4 DEF FormalInv, RevisionInv, OneLineage
  <2> QED BY <2>2, <2>3
<1>4. ASSUME NEW v \in validations, v.success PROVE Translates(Bodies[v.body])
  <2>1. PICK y \in revisions : y.body = v.body BY DEF FormalInv, FactsGrounded
  <2>2. v.body \in DOMAIN Bodies BY <2>1 DEF FormalInv, RevisionInv, RevisionsTyped, RevisionRows
  <2>3. Issues(Bodies[v.body]) = {} BY <1>4 DEF FormalInv, FactsGrounded
  <2> QED BY <2>2, <2>3, ValidatedTranslates, BodiesAreTrees, BodiesDeclareValidSymbols
<1> QED BY <1>1, <1>2, <1>3, <1>4 DEF ConfirmedIsSound

(* For every set of requests, bodies and sources, with requests lost and     *)
(* sent again: what has been confirmed was validated, without an issue, as   *)
(* the very text that is enforced, its revisions are a chain without gaps of *)
(* one lineage, and every validated formula translates, however deep it is   *)
(* (FormalizationLifecycleService, validate_revision, _translate_node).      *)
THEOREM ConfirmationsAreSound == FormalSpec => []ConfirmedIsSound
BY FormalStarts, FormalStep, FormalIsSound, PTL DEF FormalSpec

(* A fact that is committed is about the head.                               *)
LEMMA FactsCommit ==
  ASSUME FormalInv, NEW r \in DOMAIN Edits, CommitEdit(r),
         NEW x \in (validations' \cup decisions') \ (validations \cup decisions)
  PROVE  x.number = Greatest({y.number : y \in {y \in revisions' : y.formal = x.formal}})
<1> DEFINE w == edit[r].write
<1>1. InStep(r, "written") /\ Fits(r, w) BY DEF CommitEdit, FormalInv, EditInv, WritesFit
<1>2. x \in w.validations \cup w.decisions /\ revisions' = revisions \cup w.revisions BY DEF CommitEdit
<1>3. w.revisions = {} /\ x.number = HeadNumber(x.formal) /\ \E y \in revisions : y.formal = x.formal
  BY <1>1, <1>2 DEF Fits, About
<1>4. {y.number : y \in {y \in revisions' : y.formal = x.formal}} = Numbers(x.formal) BY <1>2, <1>3 DEF Numbers
<1>5. Numbers(x.formal) # {} BY <1>3 DEF Numbers
<1> QED BY <1>3, <1>4, <1>5 DEF HeadNumber

LEMMA FactsStep ==
  FormalInv /\ [FormalNext]_formalVars =>
    [\A x \in (validations' \cup decisions') \ (validations \cup decisions) :
       x.number = Greatest({y.number : y \in {y \in revisions' : y.formal = x.formal}})]_formalVars
<1> SUFFICES ASSUME FormalInv, FormalNext
    PROVE \A x \in (validations' \cup decisions') \ (validations \cup decisions) :
            x.number = Greatest({y.number : y \in {y \in revisions' : y.formal = x.formal}})
  OBVIOUS
<1>1. CASE \E r \in DOMAIN Edits : CommitEdit(r) BY <1>1, FactsCommit
<1>2. CASE UNCHANGED <<validations, decisions>> BY <1>2
<1>3. (\E r \in DOMAIN Edits : CommitEdit(r)) \/ UNCHANGED <<validations, decisions>>
  BY DEF FormalNext, Begin, Write, LoseEdit, LoadRevision, Solve, Persist, lifecycleVars
<1> QED BY <1>1, <1>2, <1>3

(* However requests race, a validation or a decision is recorded only for    *)
(* the revision that is the head when it commits (db/formalization.py head   *)
(* for_update, add_revision).                                                *)
THEOREM FactsAreRecordedOfTheHead == FormalSpec => FactsAreOfTheHead
BY FormalStarts, FormalStep, FactsStep, PTL DEF FormalSpec, FactsAreOfTheHead

-----------------------------------------------------------------------------
(* Solver evidence.                                                          *)
(*                                                                           *)
(* The solver runs between the read of a revision and the write of the       *)
(* evidence, while anything may commit.  Revisions are immutable and their   *)
(* numbers unique, so the body that was read is still the revision's; and a  *)
(* run has one row, so that two who ask the same are told the same.          *)

AllVerdicts == UNION {Verdicts(Bodies[b]) : b \in DOMAIN Bodies}
EvaluationRecords ==
  [step : {"new", "loaded", "solved", "done"}, body : DOMAIN Bodies \cup {"none"}, result : SUBSET AllVerdicts,
   answer : EvaluationOutcomes]

BodyRead(on, n, b) == b \in DOMAIN Bodies /\ \E x \in revisions : x.formal = on /\ x.number = n /\ x.body = b
Read(e) == BodyRead(Evaluations[e].on, Evaluations[e].revision, evaluation[e].body)
Told(e) == \E x \in evidence : SameRun(x, e) /\ evaluation[e].answer = ActionOn(x.result.status)

EvaluationsTyped == evaluation \in [DOMAIN Evaluations -> EvaluationRecords]
EvaluationsRead == \A e \in DOMAIN Evaluations : evaluation[e].step # "new" => Read(e)
EvaluationsSolved ==
  \A e \in DOMAIN Evaluations : evaluation[e].step = "solved" =>
    \E v \in Verdicts(Bodies[evaluation[e].body]) : evaluation[e].result = {v}
EvaluationsTold ==
  \A e \in DOMAIN Evaluations : evaluation[e].answer \in {"PROCEED", "BLOCK", "DEFER"} => evaluation[e].step = "done" /\ Told(e)
EvidenceGrounded ==
  \A x \in evidence : BodyRead(x.on, x.revision, x.body) /\ x.result \in Verdicts(Bodies[x.body])
EvidenceDiffers ==
  \A x, y \in evidence : x.on = y.on /\ x.revision = y.revision /\ x.configuration = y.configuration => x = y

EvidenceInv ==
  EvaluationsTyped /\ EvaluationsRead /\ EvaluationsSolved /\ EvaluationsTold /\ EvidenceGrounded /\ EvidenceDiffers

LEMMA EvidenceStarts == FormalInit => EvidenceInv
<1> SUFFICES ASSUME FormalInit PROVE EvidenceInv OBVIOUS
<1>1. /\ evidence = {}
      /\ evaluation = [e \in DOMAIN Evaluations |-> [step |-> "new", body |-> "none", result |-> {}, answer |-> "none"]]
  BY DEF FormalInit
<1>2. EvaluationsTyped BY <1>1 DEF EvaluationsTyped, EvaluationRecords, EvaluationOutcomes
<1> QED BY <1>1, <1>2 DEF EvidenceInv, EvaluationsRead, EvaluationsSolved, EvaluationsTold, EvidenceGrounded, EvidenceDiffers

LEMMA RevisionsOnlyGrow == FormalNext => revisions \subseteq revisions'
<1> SUFFICES ASSUME FormalNext PROVE revisions \subseteq revisions' OBVIOUS
<1>1. ASSUME NEW r \in DOMAIN Edits, CommitEdit(r) PROVE revisions \subseteq revisions' BY <1>1 DEF CommitEdit
<1>2. ASSUME NEW r \in DOMAIN Edits, Begin(r) \/ Write(r) \/ LoseEdit(r) PROVE revisions \subseteq revisions'
  BY <1>2 DEF Begin, Write, LoseEdit
<1>3. ASSUME NEW e \in DOMAIN Evaluations, LoadRevision(e) \/ Solve(e) \/ Persist(e) PROVE revisions \subseteq revisions'
  BY <1>3 DEF LoadRevision, Solve, Persist, lifecycleVars
<1> QED BY <1>1, <1>2, <1>3 DEF FormalNext

LEMMA EvidenceStays ==
  ASSUME EvidenceInv, revisions \subseteq revisions', UNCHANGED evaluationVars PROVE EvidenceInv'
<1>1. evidence' = evidence /\ evaluation' = evaluation BY DEF evaluationVars
<1>2. \A on, n, b : BodyRead(on, n, b) => BodyRead(on, n, b)' BY DEF BodyRead
<1>3. EvaluationsTyped' BY <1>1 DEF EvidenceInv, EvaluationsTyped, EvaluationRecords, AllVerdicts, Verdicts, EvaluationOutcomes
<1>4. EvaluationsRead'
  <2> SUFFICES ASSUME NEW e \in DOMAIN Evaluations, evaluation[e].step # "new" PROVE Read(e)'
    BY <1>1 DEF EvaluationsRead
  <2>1. Read(e) BY DEF EvidenceInv, EvaluationsRead
  <2> QED BY <2>1, <1>1 DEF Read, BodyRead
<1>5. EvaluationsSolved' /\ EvidenceDiffers' BY <1>1 DEF EvidenceInv, EvaluationsSolved, EvidenceDiffers, Verdicts
<1>6. EvaluationsTold' BY <1>1 DEF EvidenceInv, EvaluationsTold, Told, SameRun
<1>7. EvidenceGrounded'
  <2> SUFFICES ASSUME NEW x \in evidence PROVE BodyRead(x.on, x.revision, x.body)' /\ x.result \in Verdicts(Bodies[x.body])
    BY <1>1 DEF EvidenceGrounded, Verdicts
  <2> QED BY <1>2 DEF EvidenceInv, EvidenceGrounded
<1> QED BY <1>3, <1>4, <1>5, <1>6, <1>7 DEF EvidenceInv

(* An evaluation moves on and writes no evidence.                            *)
LEMMA EvaluationMoves ==
  ASSUME EvidenceInv, NEW e \in DOMAIN Evaluations, NEW rec \in EvaluationRecords,
         evaluation' = [evaluation EXCEPT ![e] = rec], UNCHANGED <<evidence, revisions>>,
         rec.step # "new" => BodyRead(Evaluations[e].on, Evaluations[e].revision, rec.body),
         rec.step = "solved" => \E v \in Verdicts(Bodies[rec.body]) : rec.result = {v},
         rec.answer \notin {"PROCEED", "BLOCK", "DEFER"}
  PROVE  EvidenceInv'
<1>1. evaluation'[e] = rec /\ \A f \in DOMAIN Evaluations : f # e => evaluation'[f] = evaluation[f]
  BY DEF EvidenceInv, EvaluationsTyped
<1>2. EvaluationsTyped'
  <2>1. evaluation' \in [DOMAIN Evaluations -> EvaluationRecords] BY DEF EvidenceInv, EvaluationsTyped
  <2> QED BY <2>1 DEF EvaluationsTyped, EvaluationRecords, AllVerdicts, Verdicts, EvaluationOutcomes
<1>3. EvaluationsRead'
  <2> SUFFICES ASSUME NEW f \in DOMAIN Evaluations, evaluation'[f].step # "new" PROVE Read(f)' BY DEF EvaluationsRead
  <2>1. BodyRead(Evaluations[f].on, Evaluations[f].revision, evaluation'[f].body)
    <3>1. CASE f = e BY <1>1, <3>1
    <3>2. CASE f # e BY <1>1, <3>2 DEF EvidenceInv, EvaluationsRead, Read
    <3> QED BY <3>1, <3>2
  <2> QED BY <2>1 DEF Read, BodyRead
<1>4. EvaluationsSolved'
  <2> SUFFICES ASSUME NEW f \in DOMAIN Evaluations, evaluation'[f].step = "solved"
      PROVE \E v \in Verdicts(Bodies[evaluation'[f].body]) : evaluation'[f].result = {v}
    BY DEF EvaluationsSolved, Verdicts
  <2>1. CASE f = e BY <1>1, <2>1
  <2>2. CASE f # e BY <1>1, <2>2 DEF EvidenceInv, EvaluationsSolved
  <2> QED BY <2>1, <2>2
<1>5. EvaluationsTold' BY <1>1 DEF EvidenceInv, EvaluationsTold, Told, SameRun
<1>6. EvidenceGrounded' /\ EvidenceDiffers' BY DEF EvidenceInv, EvidenceGrounded, EvidenceDiffers, BodyRead, Verdicts
<1> QED BY <1>2, <1>3, <1>4, <1>5, <1>6 DEF EvidenceInv

LEMMA EvidenceLoad ==
  ASSUME FormalInv, EvidenceInv, NEW e \in DOMAIN Evaluations, LoadRevision(e) PROVE EvidenceInv'
<1> DEFINE rows == Of(revisions, Evaluations[e].on, Evaluations[e].revision)
           b == (CHOOSE x \in rows : TRUE).body
           rec == [evaluation[e] EXCEPT !.step = "loaded", !.body = b]
<1>1. /\ evaluation[e].step = "new" /\ rows # {} /\ UNCHANGED <<evidence, revisions>>
      /\ evaluation' = [evaluation EXCEPT ![e].step = "loaded", ![e].body = b]
  BY DEF LoadRevision, lifecycleVars
<1>2. BodyRead(Evaluations[e].on, Evaluations[e].revision, b)
  <2>1. (CHOOSE x \in rows : TRUE) \in rows BY <1>1
  <2> QED BY <2>1 DEF BodyRead, Of, FormalInv, RevisionInv, RevisionsTyped, RevisionRows
<1> HIDE DEF b
<1>3. evaluation[e] \in EvaluationRecords BY DEF EvidenceInv, EvaluationsTyped
<1>4. rec \in EvaluationRecords BY <1>2, <1>3 DEF EvaluationRecords, BodyRead
<1>5. rec.step = "loaded" /\ rec.body = b /\ rec.answer = evaluation[e].answer BY <1>3 DEF EvaluationRecords
<1>6. evaluation' = [evaluation EXCEPT ![e] = rec] BY <1>1, <1>3 DEF EvaluationRecords, EvidenceInv, EvaluationsTyped
<1>7. rec.answer \notin {"PROCEED", "BLOCK", "DEFER"} BY <1>1, <1>5 DEF EvidenceInv, EvaluationsTold
<1> HIDE DEF rec
<1> QED BY <1>1, <1>2, <1>4, <1>5, <1>6, <1>7, EvaluationMoves

LEMMA EvidenceSolve ==
  ASSUME EvidenceInv, NEW e \in DOMAIN Evaluations, Solve(e) PROVE EvidenceInv'
<1> DEFINE b == evaluation[e].body
<1>1. evaluation[e].step = "loaded" /\ UNCHANGED <<evidence, revisions>> BY DEF Solve, lifecycleVars
<1>2. BodyRead(Evaluations[e].on, Evaluations[e].revision, b) BY <1>1 DEF EvidenceInv, EvaluationsRead, Read
<1>3. evaluation[e] \in EvaluationRecords BY DEF EvidenceInv, EvaluationsTyped
<1>4. evaluation[e].answer \notin {"PROCEED", "BLOCK", "DEFER"} BY <1>1 DEF EvidenceInv, EvaluationsTold
<1>5. CASE \E v \in Verdicts(Bodies[b]) : evaluation' = [evaluation EXCEPT ![e].step = "solved", ![e].result = {v}]
  <2>1. PICK v \in Verdicts(Bodies[b]) : evaluation' = [evaluation EXCEPT ![e].step = "solved", ![e].result = {v}] BY <1>5
  <2> DEFINE rec == [evaluation[e] EXCEPT !.step = "solved", !.result = {v}]
  <2>2. v \in AllVerdicts BY <1>2 DEF AllVerdicts, BodyRead
  <2>3. rec \in EvaluationRecords BY <1>3, <2>2 DEF EvaluationRecords
  <2>4. rec.step = "solved" /\ rec.body = b /\ rec.result = {v} /\ rec.answer = evaluation[e].answer BY <1>3 DEF EvaluationRecords
  <2>5. evaluation' = [evaluation EXCEPT ![e] = rec] BY <2>1, <1>3 DEF EvaluationRecords, EvidenceInv, EvaluationsTyped
  <2> HIDE DEF rec, b
  <2>6. \E u \in Verdicts(Bodies[rec.body]) : rec.result = {u} BY <2>4
  <2> QED BY <1>1, <1>2, <1>4, <2>3, <2>4, <2>5, <2>6, EvaluationMoves
<1>6. ASSUME NEW error \in {"input error", "solver error"},
             evaluation' = [evaluation EXCEPT ![e].step = "done", ![e].answer = error]
      PROVE  EvidenceInv'
  <2> DEFINE rec == [evaluation[e] EXCEPT !.step = "done", !.answer = error]
  <2>1. rec \in EvaluationRecords BY <1>3 DEF EvaluationRecords, EvaluationOutcomes
  <2>2. rec.step = "done" /\ rec.body = b /\ rec.answer = error BY <1>3 DEF EvaluationRecords
  <2>3. evaluation' = [evaluation EXCEPT ![e] = rec] BY <1>6, <1>3 DEF EvaluationRecords, EvidenceInv, EvaluationsTyped
  <2> HIDE DEF rec, b
  <2> QED BY <1>1, <1>2, <2>1, <2>2, <2>3, EvaluationMoves
<1> QED BY <1>5, <1>6 DEF Solve

(* The evidence of a run is written once, and who asks again is told what it *)
(* says or that his answer conflicts.                                        *)
LEMMA EvidencePersist ==
  ASSUME EvidenceInv, NEW e \in DOMAIN Evaluations, Persist(e) PROVE EvidenceInv'
<1> DEFINE v == CHOOSE v \in evaluation[e].result : TRUE
           b == evaluation[e].body
           old == {x \in evidence : SameRun(x, e)}
           row == [on |-> Evaluations[e].on, revision |-> Evaluations[e].revision, body |-> b,
                   configuration |-> Evaluations[e].configuration, at |-> Evaluations[e].at, result |-> v]
           ans == IF \A x \in old : x.result = v THEN ActionOn(v.status) ELSE "evidence conflict"
           rec == [evaluation[e] EXCEPT !.step = "done", !.answer = ans]
<1>1. /\ evaluation[e].step = "solved" /\ UNCHANGED revisions
      /\ IF old = {} THEN evidence' = evidence \cup {row} ELSE evidence' = evidence
      /\ evaluation' = [evaluation EXCEPT ![e].step = "done", ![e].answer = ans]
  BY DEF Persist, lifecycleVars
<1>2. v \in Verdicts(Bodies[b])
  <2>1. PICK u \in Verdicts(Bodies[b]) : evaluation[e].result = {u} BY <1>1 DEF EvidenceInv, EvaluationsSolved
  <2> QED BY <2>1
<1>3. BodyRead(Evaluations[e].on, Evaluations[e].revision, b) BY <1>1 DEF EvidenceInv, EvaluationsRead, Read
<1>4. evaluation[e] \in EvaluationRecords BY DEF EvidenceInv, EvaluationsTyped
<1> HIDE DEF v, b
<1>5. /\ row.on = Evaluations[e].on /\ row.revision = Evaluations[e].revision
      /\ row.configuration = Evaluations[e].configuration /\ row.body = b /\ row.result = v
  OBVIOUS
<1> HIDE DEF row
<1>6. ans \in EvaluationOutcomes BY DEF EvaluationOutcomes, ActionOn
<1>7. evidence \subseteq evidence' /\ \A x \in evidence' : x \in evidence \/ (x = row /\ old = {}) BY <1>1
<1>8. ans \in {"PROCEED", "BLOCK", "DEFER"} =>
        \E x \in evidence' : /\ x.on = Evaluations[e].on /\ x.revision = Evaluations[e].revision
                             /\ x.configuration = Evaluations[e].configuration /\ ans = ActionOn(x.result.status)
  <2> SUFFICES ASSUME ans \in {"PROCEED", "BLOCK", "DEFER"}
      PROVE \E x \in evidence' : /\ x.on = Evaluations[e].on /\ x.revision = Evaluations[e].revision
                                 /\ x.configuration = Evaluations[e].configuration /\ ans = ActionOn(x.result.status)
    OBVIOUS
  <2>1. (\A x \in old : x.result = v) /\ ans = ActionOn(v.status) OBVIOUS
  <2> HIDE DEF ans
  <2>2. CASE old = {}
    <3>1. row \in evidence' BY <1>1, <2>2
    <3> QED BY <3>1, <1>5, <2>1
  <2>3. CASE old # {}
    <3>1. PICK x \in old : TRUE BY <2>3
    <3>2. x.result = v /\ x \in evidence' /\ SameRun(x, e) BY <2>1, <1>7
    <3> QED BY <3>2, <2>1 DEF SameRun
  <2> QED BY <2>2, <2>3
<1> HIDE DEF ans
<1>9. rec \in EvaluationRecords BY <1>4, <1>6 DEF EvaluationRecords
<1>10. rec.step = "done" /\ rec.body = evaluation[e].body /\ rec.answer = ans BY <1>4 DEF EvaluationRecords
<1>11. evaluation' = [evaluation EXCEPT ![e] = rec] BY <1>1, <1>4 DEF EvaluationRecords, EvidenceInv, EvaluationsTyped
<1> HIDE DEF rec
<1>12. evaluation'[e] = rec /\ \A f \in DOMAIN Evaluations : f # e => evaluation'[f] = evaluation[f]
  BY <1>11 DEF EvidenceInv, EvaluationsTyped
<1>13. EvaluationsTyped'
  <2>1. evaluation' \in [DOMAIN Evaluations -> EvaluationRecords] BY <1>9, <1>11 DEF EvidenceInv, EvaluationsTyped
  <2> QED BY <2>1 DEF EvaluationsTyped, EvaluationRecords, AllVerdicts, Verdicts, EvaluationOutcomes
<1>14. EvaluationsRead'
  <2> SUFFICES ASSUME NEW f \in DOMAIN Evaluations, evaluation'[f].step # "new" PROVE Read(f)' BY DEF EvaluationsRead
  <2>1. BodyRead(Evaluations[f].on, Evaluations[f].revision, evaluation'[f].body)
    <3>1. CASE f = e BY <1>3, <1>10, <1>12, <3>1 DEF b
    <3>2. CASE f # e BY <1>12, <3>2 DEF EvidenceInv, EvaluationsRead, Read
    <3> QED BY <3>1, <3>2
  <2> QED BY <2>1, <1>1 DEF Read, BodyRead
<1>15. EvaluationsSolved'
  <2> SUFFICES ASSUME NEW f \in DOMAIN Evaluations, evaluation'[f].step = "solved"
      PROVE \E u \in Verdicts(Bodies[evaluation'[f].body]) : evaluation'[f].result = {u}
    BY DEF EvaluationsSolved, Verdicts
  <2>1. f # e BY <1>10, <1>12
  <2> QED BY <1>12, <2>1 DEF EvidenceInv, EvaluationsSolved
<1>16. EvaluationsTold'
  <2> SUFFICES ASSUME NEW f \in DOMAIN Evaluations, evaluation'[f].answer \in {"PROCEED", "BLOCK", "DEFER"}
      PROVE evaluation'[f].step = "done" /\ Told(f)'
    BY DEF EvaluationsTold
  <2>1. CASE f = e BY <1>8, <1>10, <1>12, <2>1 DEF Told, SameRun
  <2>2. CASE f # e BY <1>7, <1>12, <2>2 DEF EvidenceInv, EvaluationsTold, Told, SameRun
  <2> QED BY <2>1, <2>2
<1>17. EvidenceGrounded'
  <2> SUFFICES ASSUME NEW x \in evidence' PROVE BodyRead(x.on, x.revision, x.body) /\ x.result \in Verdicts(Bodies[x.body])
    BY <1>1 DEF EvidenceGrounded, BodyRead, Verdicts
  <2> QED BY <1>2, <1>3, <1>5, <1>7 DEF EvidenceInv, EvidenceGrounded
<1>18. EvidenceDiffers'
  <2>1. old = {} => ~\E x \in evidence : x.on = row.on /\ x.revision = row.revision /\ x.configuration = row.configuration
    BY <1>5 DEF SameRun
  <2> QED BY <1>7, <2>1 DEF EvidenceInv, EvidenceDiffers
<1> QED BY <1>13, <1>14, <1>15, <1>16, <1>17, <1>18 DEF EvidenceInv

LEMMA EvidenceStep == FormalInv /\ EvidenceInv /\ [FormalNext]_formalVars => EvidenceInv'
<1> SUFFICES ASSUME FormalInv, EvidenceInv, [FormalNext]_formalVars PROVE EvidenceInv' OBVIOUS
<1>1. ASSUME NEW r \in DOMAIN Edits, Begin(r) \/ Write(r) \/ CommitEdit(r) \/ LoseEdit(r) PROVE EvidenceInv'
  <2>1. FormalNext BY <1>1 DEF FormalNext
  <2>2. UNCHANGED evaluationVars BY <1>1 DEF Begin, Write, CommitEdit, LoseEdit
  <2> QED BY <2>1, <2>2, RevisionsOnlyGrow, EvidenceStays
<1>2. ASSUME NEW e \in DOMAIN Evaluations, LoadRevision(e) \/ Solve(e) \/ Persist(e) PROVE EvidenceInv'
  BY <1>2, EvidenceLoad, EvidenceSolve, EvidencePersist
<1>3. CASE UNCHANGED formalVars BY <1>3, EvidenceStays DEF formalVars, evaluationVars
<1> QED BY <1>1, <1>2, <1>3 DEF FormalNext

LEMMA EvidenceTells == FormalInv /\ EvidenceInv => EvidenceIsExact
<1> SUFFICES ASSUME FormalInv, EvidenceInv PROVE EvidenceIsExact OBVIOUS
<1>1. \A s : /\ ActionOn(s) = "PROCEED" <=> s = "SAT"
             /\ ActionOn(s) = "BLOCK" <=> s = "UNSAT"
             /\ ActionOn(s) = "DEFER" <=> s \notin {"SAT", "UNSAT"}
  BY DEF ActionOn
<1>2. \A c : \A v \in Verdicts(c) :
        /\ v.status = "SAT" => Solutions(c) # {}
        /\ v.status = "UNSAT" => Solutions(c) = {}
        /\ v.witness \subseteq Solutions(c)
  BY DEF Verdicts
<1>3. ASSUME NEW e \in DOMAIN Evaluations, NEW x \in evidence, SameRun(x, e), evaluation[e].step # "new"
      PROVE  x.body = evaluation[e].body
  <2>1. PICK y \in revisions : y.formal = x.on /\ y.number = x.revision /\ y.body = x.body
    BY DEF EvidenceInv, EvidenceGrounded, BodyRead
  <2>2. PICK z \in revisions : z.formal = x.on /\ z.number = x.revision /\ z.body = evaluation[e].body
    BY <1>3 DEF EvidenceInv, EvaluationsRead, Read, BodyRead, SameRun
  <2>3. y = z BY <2>1, <2>2 DEF FormalInv, RevisionInv, RevisionsDiffer
  <2> QED BY <2>1, <2>2, <2>3
<1>4. ASSUME NEW e \in DOMAIN Evaluations, evaluation[e].answer \in {"PROCEED", "BLOCK"}
      PROVE  /\ evaluation[e].answer = "PROCEED" => Satisfiable(Bodies[evaluation[e].body])
             /\ (evaluation[e].answer = "BLOCK" /\ Captured(Bodies[evaluation[e].body]) = {})
                  => ~Satisfiable(Bodies[evaluation[e].body])
             /\ \E x \in evidence : /\ SameRun(x, e) /\ x.body = evaluation[e].body /\ x.result.status # "UNKNOWN"
                                    /\ x.result.witness \subseteq Bodies[x.body].models
  <2>1. evaluation[e].step = "done" /\ Told(e) BY <1>4 DEF EvidenceInv, EvaluationsTold
  <2>2. PICK x \in evidence : SameRun(x, e) /\ evaluation[e].answer = ActionOn(x.result.status) BY <2>1 DEF Told
  <2>3. x.body = evaluation[e].body BY <1>3, <2>1, <2>2
  <2>4. x.result \in Verdicts(Bodies[evaluation[e].body]) BY <2>3 DEF EvidenceInv, EvidenceGrounded
  <2>5. x.result.status \in {"SAT", "UNSAT"} BY <1>1, <1>4, <2>2
  <2> DEFINE c == Bodies[evaluation[e].body]
  <2>6. /\ evaluation[e].answer = "PROCEED" => Solutions(c) # {}
        /\ evaluation[e].answer = "BLOCK" => Solutions(c) = {}
        /\ x.result.witness \subseteq Solutions(c)
    BY <1>1, <1>2, <2>2, <2>4, <2>5
  <2> HIDE DEF c
  <2>7. /\ Solutions(c) # {} => Satisfiable(c)
        /\ Solutions(c) = {} /\ Captured(c) = {} => ~Satisfiable(c)
        /\ Solutions(c) \subseteq c.models
    BY DEF Solutions, Satisfiable
  <2>8. x.result.witness \subseteq Bodies[x.body].models BY <2>3, <2>6, <2>7 DEF c
  <2> QED BY <2>2, <2>3, <2>5, <2>6, <2>7, <2>8 DEF c
<1>5. ASSUME NEW e \in DOMAIN Evaluations, NEW f \in DOMAIN Evaluations, evaluation[e].answer = "DEFER",
             evaluation[f].answer \in {"PROCEED", "BLOCK"}, NEW z \in evidence, SameRun(z, e), SameRun(z, f)
      PROVE  FALSE
  <2>1. PICK x \in evidence : SameRun(x, e) /\ "DEFER" = ActionOn(x.result.status) BY <1>5 DEF EvidenceInv, EvaluationsTold, Told
  <2>2. PICK y \in evidence : SameRun(y, f) /\ evaluation[f].answer = ActionOn(y.result.status)
    BY <1>5 DEF EvidenceInv, EvaluationsTold, Told
  <2>3. x = z /\ y = z BY <1>5, <2>1, <2>2 DEF EvidenceInv, EvidenceDiffers, SameRun
  <2> QED BY <1>5, <2>1, <2>2, <2>3
<1> QED BY <1>4, <1>5 DEF EvidenceIsExact

(* For every set of bodies, requests and evaluations: PROCEED is true of the *)
(* revision's body and its witness solves it; BLOCK is true of a body none   *)
(* of whose Boolean symbols has the name of a label; either is on record for *)
(* that run, and nobody is told DEFER where another was told an answer       *)
(* (SymbolicEvaluationService, Z3SymbolicReasoner._solve).                   *)
THEOREM EvidenceStaysExact == FormalSpec => []EvidenceIsExact
<1>1. FormalInit => FormalInv /\ EvidenceInv BY FormalStarts, EvidenceStarts
<1>2. FormalInv /\ EvidenceInv /\ [FormalNext]_formalVars => (FormalInv /\ EvidenceInv)' BY FormalStep, EvidenceStep
<1> QED BY <1>1, <1>2, EvidenceTells, PTL DEF FormalSpec
=============================================================================
