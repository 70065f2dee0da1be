---------------------------- MODULE SourceImpact ----------------------------
(***************************************************************************)
(* A source is retracted while people still cite it, artifacts are still   *)
(* committed and others read the graph page by page.                       *)
(*                                                                         *)
(* Retraction is one transaction per request: the idempotency key's lock,  *)
(* the source's row lock, the impact analysis, the retraction with its     *)
(* report and its outbox event, and the saved answer.  Attaching a         *)
(* citation is one statement that reads the source before its foreign key  *)
(* waits for that row lock.  An artifact's edges are written with it and   *)
(* lead to older artifacts, so what an artifact reaches forward never      *)
(* changes and the analysis may trace it in one step.                      *)
(*                                                                         *)
(* Sources: backend/app/application/source_impact.py, citations.py,        *)
(* provenance.py, assumption_register.py, their db/ and domain/ modules    *)
(* and migrations 0015 and 0021.                                           *)
(***************************************************************************)
EXTENDS ReasoningGraph

CONSTANTS
  Nodes,      \* identities of the artifacts (and of their graph nodes)
  Kind,       \* [Nodes -> ArtifactKind]
  Parents,    \* [Nodes -> set of [type, target]]: parent_relationships
  Results,    \* consensus results that may be recorded
  Selected,   \* [Results -> SUBSET Nodes]: pareto_set with the selected alternative
  Requests,   \* retraction requests
  KeyOf,      \* [Requests -> Idempotency-Key]
  ReasonOf    \* [Requests -> the body's reason]

ASSUME NodesAreNumbers == IsFiniteSet(Nodes) /\ Nodes \subseteq Nat \ {0}
ASSUME ParentsAreNodes == \A n \in Nodes : \A p \in Parents[n] : p.target \in Nodes

VARIABLES
  committed,  \* artifacts with their nodes and edges
  results,    \* consensus results with their recommendations
  citations,  \* evidence that cites the source
  attaching,  \* evidence whose citation has read the source as READY
  source,     \* sources.status
  locked,     \* who holds the source's row lock
  request,    \* the retraction requests
  saved,      \* idempotency_records
  report,     \* impact_reports: a set of at most one
  outbox,     \* SOURCE_RETRACTED events
  reader      \* a paging reader of the graph

impactVars == <<committed, results, citations, attaching, source, locked, request, saved, report,
          outbox, reader>>

Nobody == "nobody"
ASSUME RequestsAreNamed == Nobody \notin Requests
RetractionKeys == {KeyOf[r] : r \in Requests}

(* GraphEdgeRow: one edge per parent relationship. *)
EdgesOf(n) ==
  {[id |-> 100 * n + p.target, from |-> n, to |-> p.target, type |-> p.type] : p \in Parents[n]}
Edges == UNION {EdgesOf(n) : n \in committed}

EvidenceNodes == {n \in Nodes : Kind[n] = "EVIDENCE"}
-----------------------------------------------------------------------------
(* What the analysis computes. *)

(* Mutant: the cursor of the first page is not followed. *)
FirstPageOnly(n, edges) ==
  LET reached == Reached("forward", {n}, edges, MaxDepth)
      page == Page(reached, 0)
  IN [nodes |-> page.nodes, edges |-> page.edges, truncated |-> reached.truncated]

(* What the pages so far have brought, with the one at their cursor. *)
WithNext(pages, reached) ==
  IF pages.next = -1 THEN pages
  ELSE LET page == Page(reached, pages.next)
       IN [page EXCEPT !.nodes = @ \cup pages.nodes, !.edges = @ \cup pages.edges]

AllPages(reached) ==
  LET collected[k \in 0..Len(Members(reached))] ==
        IF k = 0 THEN Page(reached, 0) ELSE WithNext(collected[k - 1], reached)
  IN collected[Len(Members(reached))]

(* One frontier: every page of a bounded forward trace. *)
Segment(n, edges) == AllPages(Reached("forward", {n}, edges, MaxDepth))

(* The nodes of a truncated segment that are not expanded yet. *)
Continuation(segment, expanded) == IF segment.truncated THEN segment.nodes \ expanded ELSE {}

(* The head of the queue has been traced. *)
Expanded(s, n, segment) ==
  LET more == Continuation(segment, s.expanded \cup {n})
  IN [queue |-> Tail(s.queue) \o InOrder(more),
      expanded |-> s.expanded \cup {n},
      nodes |-> s.nodes \cup segment.nodes,
      edges |-> s.edges \cup segment.edges,
      truncated |-> s.truncated \/ (segment.truncated /\ more = {})]

ClosureStep(s, edges) ==
  IF s.queue = <<>> THEN s
  ELSE IF Head(s.queue) \in s.expanded THEN [s EXCEPT !.queue = Tail(@)]
  ELSE Expanded(s, Head(s.queue), Segment(Head(s.queue), edges))

(* impact_of, for one root: segments from the queue until it is empty. *)
Closure(root, edges) ==
  LET bound == Cardinality(Nodes) * Cardinality(Nodes) + 1
      run[k \in 0..bound] ==
        IF k = 0 THEN [queue |-> <<root>>, expanded |-> {}, nodes |-> {}, edges |-> {}, truncated |-> FALSE]
        ELSE ClosureStep(run[k - 1], edges)
  IN run[bound]

(* _shortest_depth: breadth first over the edges collected for the root. *)
Depth(root, n, edges) ==
  LET reach == Walk("forward", {root}, edges, Cardinality(Nodes))
      depths == {d \in 0..Cardinality(Nodes) : \E w \in reach[d] : w.node = n}
  IN IF depths = {} THEN MaxDepth ELSE CHOOSE d \in depths : \A other \in depths : d <= other

(* artifact_dependencies: one row per artifact and root. *)
ArtifactDependencies(roots, edges) ==
  UNION {LET closure == Closure(root, edges)
             collected == {e \in edges : e.id \in closure.edges}
         IN {[type |-> "ARTIFACT", dependent |-> n, root |-> root, depth |-> Depth(root, n, collected)] :
               n \in closure.nodes} : root \in roots}

(* downstream_records: a result depends on what it ranks or selects, its     *)
(* recommendation on the result.                                             *)
DownstreamRecords(artifacts, recorded) ==
  UNION {LET via == {a \in artifacts : a.dependent \in Selected[c]}
             depth(root) == CHOOSE d \in {a.depth : a \in {a \in via : a.root = root}} :
                              \A a \in {a \in via : a.root = root} : d <= a.depth
         IN UNION {{[type |-> "CONSENSUS_RESULT", dependent |-> c, root |-> root,
                     depth |-> depth(root) + 1],
                    [type |-> "RECOMMENDATION", dependent |-> c, root |-> root,
                     depth |-> depth(root) + 2]} : root \in {a.root : a \in via}} :
           c \in recorded}

(* ImpactAnalysisResult, consistent_status. *)
ImpactAnalysis(complete, dependencies) == [complete |-> complete, dependencies |-> dependencies]
Incomplete == ImpactAnalysis(FALSE, {})
-----------------------------------------------------------------------------
(* The reader: a subgraph of radius one (the assumption register) or the     *)
(* backward trace (provenance), one page per statement.                      *)
ReaderQueries == {[direction |-> "both", depth |-> 1], [direction |-> "backward", depth |-> MaxDepth]}
NoReader == [phase |-> "idle"]

(* The nodes the register starts from. *)
RegisterKinds == {"ASSUMPTION", "CONSTRAINT", "UNCERTAINTY"}

(* What the register lists as dependents of an entry: across the edges its   *)
(* pages brought, the artifacts its first snapshot knew.                     *)
RegisterDependents(root, edges, snapshot) ==
  {n \in snapshot :
     /\ Kind[n] # "CRITIQUE"
     /\ \E e \in edges :
          \/ e.from = n /\ e.to = root /\ e.type # "SUPERSEDES"
          \/ e.from = root /\ e.to = n /\ e.type \in {"CONSTRAINS", "QUANTIFIES"}}

ReadNow(query, root) == Reached(query.direction, {root}, Edges, query.depth)

(* What a request is answered: a refusal, or the retraction's report. *)
Reply(status) == [status |-> status]
Retracted(row) == [status |-> "retracted", report |-> row]

ImpactInit ==
  /\ committed = {} /\ results = {} /\ citations = {} /\ attaching = {}
  /\ source = "READY" /\ locked = Nobody
  /\ request = [r \in Requests |-> [phase |-> "new", answer |-> Reply("none")]]
  /\ saved = [k \in RetractionKeys |-> <<>>]
  /\ report = {} /\ outbox = 0 /\ reader = NoReader

requestVars == <<source, locked, request, saved, report, outbox>>

(* ArtifactCommitService.commit, as the graph sees it. *)
CommitArtifact(n) ==
  /\ n \notin committed /\ {p.target : p \in Parents[n]} \subseteq committed
  /\ \A e \in EdgesOf(n) : EdgeAllowed(Kind, e)
  /\ committed' = committed \cup {n}
  /\ UNCHANGED <<results, citations, attaching, requestVars, reader>>

(* A round's result and its recommendation: immutable facts. *)
CommitResult(c) ==
  /\ c \notin results /\ Selected[c] \subseteq committed
  /\ results' = results \cup {c}
  /\ UNCHANGED <<committed, citations, attaching, requestVars, reader>>

(* attach_manual: the INSERT's SELECT finds the source READY. *)
AttachCheck(e) ==
  /\ e \in (committed \cap EvidenceNodes) \ (citations \cup attaching)
  /\ source = "READY"
  /\ attaching' = attaching \cup {e}
  /\ UNCHANGED <<committed, results, citations, requestVars, reader>>

(* Its foreign key waits for the row lock and asks only that the row exists. *)
AttachInsert(e) ==
  /\ e \in attaching /\ locked = Nobody
  /\ attaching' = attaching \ {e}
  /\ citations' = citations \cup {e}
  /\ UNCHANGED <<committed, results, requestVars, reader>>

InTransaction(r) == request[r].phase \in {"keyed", "locked", "traced", "analysed"}

(* Mutant: the record is looked up without the key's lock. *)
KeyUnguarded(r) == TRUE

(* The advisory lock of an idempotency key. *)
KeyFree(r) == \A other \in Requests \ {r} : KeyOf[other] = KeyOf[r] => ~InTransaction(other)

(* _idempotent: replay the saved answer, refuse another body, or go on. *)
OpenRequest(r) ==
  /\ request[r].phase = "new" /\ KeyFree(r)
  /\ request' = [request EXCEPT ![r] =
       IF saved[KeyOf[r]] = <<>> THEN [phase |-> "keyed", answer |-> Reply("none")]
       ELSE IF saved[KeyOf[r]][1] # ReasonOf[r] THEN [phase |-> "done", answer |-> Reply("conflict")]
       ELSE [phase |-> "done", answer |-> saved[KeyOf[r]][2]]]
  /\ UNCHANGED <<committed, results, citations, attaching, source, locked, saved, report, outbox,
                 reader>>

(* lock_source_for_analysis, then citation_roots. *)
LockSource(r) ==
  /\ request[r].phase = "keyed" /\ locked = Nobody
  /\ IF source = "RETRACTED"
     THEN /\ request' = [request EXCEPT ![r] = [phase |-> "done", answer |-> Reply("not_found")]]
          /\ UNCHANGED locked
     ELSE /\ request' = [request EXCEPT ![r] = [phase |-> "locked", answer |-> Reply("none"),
                                                roots |-> citations]]
          /\ locked' = r
  /\ UNCHANGED <<committed, results, citations, attaching, source, saved, report, outbox, reader>>

(* impact_of: every root's closure. *)
Trace(r) ==
  /\ request[r].phase = "locked"
  /\ LET roots == request[r].roots
     IN request' = [request EXCEPT ![r] =
          [phase |-> "traced", answer |-> Reply("none"), roots |-> roots,
           analysis |-> ImpactAnalysis(\A root \in roots : ~Closure(root, Edges).truncated,
                                 ArtifactDependencies(roots, Edges))]]
  /\ UNCHANGED <<committed, results, citations, attaching, source, locked, saved, report, outbox,
                 reader>>

(* impact_of raises: what it knows so far is reported as incomplete. *)
TraceFails(r) ==
  /\ request[r].phase = "locked"
  /\ request' = [request EXCEPT ![r] =
       [phase |-> "analysed", answer |-> Reply("none"), roots |-> @.roots, analysis |-> Incomplete]]
  /\ UNCHANGED <<committed, results, citations, attaching, source, locked, saved, report, outbox,
                 reader>>

(* downstream_records reads the results recorded by now. *)
ReadDownstream(r) ==
  /\ request[r].phase = "traced"
  /\ request' = [request EXCEPT ![r].phase = "analysed",
       ![r].analysis.dependencies = @ \cup DownstreamRecords(@, results)]
  /\ UNCHANGED <<committed, results, citations, attaching, source, locked, saved, report, outbox,
                 reader>>

(* The constraints of impact_reports and of its dependencies: one report per *)
(* source, one row per dependent and root.                                   *)
ReportInsertable(row) ==
  /\ report = {}
  /\ \A a, b \in row.analysis.dependencies :
       (a.type = b.type /\ a.dependent = b.dependent /\ a.root = b.root) => a = b

(* sources: RETRACTED is final, and set only from another status. *)
Retractable == source # "RETRACTED"

(* retract_and_report and the commit: retraction, report, event and answer   *)
(* together.                                                                 *)
Retract(r) ==
  LET row == [by |-> r, roots |-> request[r].roots, analysis |-> request[r].analysis]
  IN /\ request[r].phase = "analysed" /\ Retractable /\ ReportInsertable(row)
     /\ source' = "RETRACTED" /\ locked' = Nobody
     /\ report' = report \cup {row} /\ outbox' = outbox + 1
     /\ saved' = [saved EXCEPT ![KeyOf[r]] = <<ReasonOf[r], Retracted(row)>>]
     /\ request' = [request EXCEPT ![r] = [phase |-> "done", answer |-> Retracted(row)]]
     /\ UNCHANGED <<committed, results, citations, attaching, reader>>

(* The transaction is lost: nothing of it stays, and the client may retry. *)
AbortRetraction(r) ==
  /\ InTransaction(r)
  /\ request' = [request EXCEPT ![r] = [phase |-> "new", answer |-> Reply("none")]]
  /\ locked' = IF locked = r THEN Nobody ELSE locked
  /\ UNCHANGED <<committed, results, citations, attaching, source, saved, report, outbox, reader>>

(* The first page; `due` is what the result holds now. *)
OpenReader(query, root) ==
  LET now == ReadNow(query, root)
      page == Page(now, 0)
  IN /\ reader = NoReader /\ root \in committed
     /\ query.direction = "both" => Kind[root] \in RegisterKinds
     /\ reader' = [phase |-> IF page.next = -1 THEN "done" ELSE "reading",
                   query |-> query, root |-> root, offset |-> page.next,
                   snapshot |-> committed,
                   due |-> [nodes |-> now.nodes, edges |-> now.edges],
                   nodes |-> page.nodes, edges |-> page.edges]
     /\ UNCHANGED <<committed, results, citations, attaching, requestVars>>

(* A further page, over what is committed by then. *)
NextPage ==
  /\ reader.phase = "reading"
  /\ CursorAccepted(ReadNow(reader.query, reader.root), reader.offset, TRUE)
  /\ LET page == Page(ReadNow(reader.query, reader.root), reader.offset)
     IN reader' = [reader EXCEPT !.phase = IF page.next = -1 THEN "done" ELSE "reading",
                                 !.offset = page.next, !.nodes = @ \cup page.nodes,
                                 !.edges = @ \cup page.edges]
  /\ UNCHANGED <<committed, results, citations, attaching, requestVars>>

ImpactNext ==
  \/ \E n \in Nodes : CommitArtifact(n)
  \/ \E c \in Results : CommitResult(c)
  \/ \E e \in EvidenceNodes : AttachCheck(e) \/ AttachInsert(e)
  \/ \E r \in Requests :
       \/ OpenRequest(r) \/ LockSource(r) \/ Trace(r) \/ TraceFails(r)
       \/ ReadDownstream(r) \/ Retract(r) \/ AbortRetraction(r)
  \/ \E query \in ReaderQueries, root \in Nodes : OpenReader(query, root)
  \/ NextPage

ImpactSpec == ImpactInit /\ [][ImpactNext]_impactVars
-----------------------------------------------------------------------------
(* Rows of graph_edges: between artifacts that exist, as the policy allows. *)
GraphEdgeRowOK(e) == {e.from, e.to} \subseteq committed /\ EdgeAllowed(Kind, e)

(* Rows of evidence_citations: the evidence is an artifact of the session. *)
CitationRowOK(e) == e \in committed /\ Kind[e] = "EVIDENCE"

(* Rows of impact_report_dependencies: only an artifact has a snapshot. *)
DependencyRowOK(d) ==
  /\ d.type \in {"ARTIFACT", "CONSENSUS_RESULT", "RECOMMENDATION"} /\ d.depth \in Nat
  /\ IF d.type = "ARTIFACT" THEN d.dependent \in committed ELSE d.dependent \in results
  /\ d.root \in citations

(* Rows of impact_reports: the retraction they belong to, and what it found. *)
ReportRowOK(row) ==
  /\ row.by \in Requests /\ row.roots \subseteq citations /\ row.analysis.complete \in BOOLEAN
  /\ \A d \in row.analysis.dependencies : DependencyRowOK(d)

(* The types: rows are of their tables, and refer to rows that exist.        *)
ImpactTypeOK ==
  /\ committed \subseteq Nodes /\ results \subseteq Results /\ source \in {"READY", "RETRACTED"}
  /\ \A e \in Edges : GraphEdgeRowOK(e)
  /\ \A e \in citations \cup attaching : CitationRowOK(e)
  /\ locked \in Requests \cup {Nobody}
  /\ \A r \in Requests : InTransaction(r) \/ request[r].phase \in {"new", "done"}
  /\ \A row \in report : ReportRowOK(row)
-----------------------------------------------------------------------------
(* A report that calls itself complete lists, for every citation the         *)
(* analysis started from, every artifact that can be reached over any number *)
(* of segments and pages, at its shortest distance: no page boundary, depth  *)
(* bound or order of identities may lose one.                                *)
ImpactCovers ==
  \A row \in report :
    row.analysis.complete =>
      \A root \in row.roots :
        LET reach == Walk("forward", {root}, Edges, Cardinality(Nodes))
        IN \A n \in {w.node : w \in UNION {reach[d] : d \in 0..Cardinality(Nodes)}} :
             \E a \in row.analysis.dependencies :
               /\ a.type = "ARTIFACT" /\ a.dependent = n /\ a.root = root
               /\ \E w \in reach[a.depth] : w.node = n
               /\ \A d \in 0..(a.depth - 1) : \A w \in reach[d] : w.node # n

(* Requests that carry one idempotency key and one body are never answered   *)
(* differently, and a source is retracted exactly with one report and one    *)
(* event: the second of two racing requests must replay the first's answer,  *)
(* not find the source gone.                                                 *)
RetractedOnce ==
  /\ (source = "RETRACTED") = (Cardinality(report) = 1)
  /\ outbox = Cardinality(report)
  /\ \A r, other \in Requests :
       (/\ KeyOf[r] = KeyOf[other] /\ ReasonOf[r] = ReasonOf[other]
        /\ request[r].phase = "done" /\ request[other].phase = "done")
         => request[r].answer = request[other].answer

(* A reader that has read all pages has seen every node and edge its first   *)
(* page's result held, whatever was committed between the pages, and the     *)
(* assumption register built from them names every dependent there was.      *)
NothingSkipped ==
  reader.phase = "done" =>
    /\ reader.due.nodes \subseteq reader.nodes /\ reader.due.edges \subseteq reader.edges
    /\ reader.query.direction = "both" =>
         RegisterDependents(reader.root, {e \in Edges : e.id \in reader.due.edges}, reader.snapshot)
           \subseteq RegisterDependents(reader.root, {e \in Edges : e.id \in reader.edges},
                                        reader.snapshot)

(* The claims the given evidence bears on, and the claims derived from them. *)
ClaimsRestingOn(roots) ==
  LET resting == {e \in Edges : e.type = "DERIVED_FROM"}
      bearing == {e.to : e \in {e \in Edges : e.from \in roots /\ e.type \in {"SUPPORTS", "OPPOSES"}}}
      derived == Walk("backward", bearing, resting, Cardinality(Nodes))
  IN {w.node : w \in UNION {derived[d] : d \in 0..Cardinality(Nodes)}}

(* FR-408: the analysis a report is written from, when it calls itself       *)
(* complete, lists every claim that rests on the evidence it starts from, as *)
(* the graph is at that moment.                                              *)
DependentClaimsListed ==
  [][\A r \in Requests :
       (/\ request[r].phase = "locked" /\ request'[r].phase = "traced"
        /\ request'[r].analysis.complete)
         => ClaimsRestingOn(request[r].roots)
              \subseteq {a.dependent : a \in request'[r].analysis.dependencies}]_impactVars
=============================================================================
