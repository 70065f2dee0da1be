--------------------------- MODULE ReasoningGraph ---------------------------
(***************************************************************************)
(* The reasoning graph: which edges the schema admits, the bounded walk    *)
(* every reader runs over them, and the pages its result is handed out in. *)
(* A graph is a set of edges; an edge's identity and a node's are numbers, *)
(* since results are ordered by identity.                                  *)
(*                                                                         *)
(* Sources: backend/app/domain/reasoning_graph.py,                         *)
(* backend/app/db/reasoning_graph.py and migrations 0006 and 0019.         *)
(***************************************************************************)
EXTENDS Integers, SequencesExt, ArtifactContract

CONSTANT MaxDepth,  \* MAX_ALLOWED_DEPTH, twelve hops in the program
         PageSize   \* MAX_PAGE_SIZE, two hundred members in the program
ASSUME GraphBounds == MaxDepth \in Nat /\ PageSize \in Nat \ {0}

(* Migration 0019 lets an artifact of any kind answer a critique. *)
RespondingKinds == ArtifactKind

(* graph_edge_endpoint_pair_allowed: the kinds each type of edge may join. *)
Endpoints(type) ==
  CASE type \in {"SUPPORTS", "OPPOSES"} -> {"EVIDENCE", "CLAIM"} \X {"CLAIM"}
    [] type = "CONTRADICTS" -> {"CLAIM"} \X {"CLAIM"}
    [] type = "DERIVED_FROM" -> {"CLAIM"} \X {"CLAIM", "ASSUMPTION", "FACT"}
    [] type = "BASED_ON_ASSUMPTION" -> {"CLAIM", "ALTERNATIVE"} \X {"ASSUMPTION"}
    [] type = "FORMALIZES" -> {"PROPOSITION"} \X {"CLAIM"}
    [] type = "QUANTIFIES" -> {"UNCERTAINTY"} \X ArtifactKind
    [] type = "IMPACTS" -> {"ALTERNATIVE"} \X {"OBJECTIVE"}
    [] type = "CONSTRAINS" -> {"CONSTRAINT"} \X {"ALTERNATIVE", "OBJECTIVE"}
    [] type \in {"VIOLATES", "SATISFIES", "INFEASIBLE_UNKNOWN"} -> {"ALTERNATIVE"} \X {"CONSTRAINT"}
    [] type = "ATTACKS" -> {"CRITIQUE"} \X ArtifactKind
    [] type = "SUPERSEDES" -> {<<k, k>> : k \in ArtifactKind}
    [] type = "ADVOCATES" -> {"POSITION"} \X {"ALTERNATIVE"}
    [] type = "RESPONDS_TO" -> RespondingKinds \X {"CRITIQUE"}

(* The trigger on graph_edges, with the model's refusal of a self loop. *)
EdgeAllowed(kind, edge) ==
  /\ edge.from # edge.to
  /\ <<kind[edge.from], kind[edge.to]>> \in Endpoints(edge.type)

(* The neighbours one hop of the walk may take from a node. *)
Hop(direction, node, edges) ==
  {[node |-> IF e.from = node THEN e.to ELSE e.from, edge |-> e.id] :
     e \in {e \in edges : \/ direction \in {"forward", "both"} /\ e.from = node
                          \/ direction \in {"backward", "both"} /\ e.to = node}}

(* _walk_sql: the rows the recursive query starts from, and those one hop    *)
(* adds to a depth's rows; no walk visits a node twice.                      *)
StartRows(roots) == {[node |-> r, path |-> {r}, edge |-> 0] : r \in roots}
HopRows(direction, rows, edges) ==
  UNION {{[node |-> h.node, path |-> w.path \cup {h.node}, edge |-> h.edge] :
            h \in {h \in Hop(direction, w.node, edges) : h.node \notin w.path}} : w \in rows}

(* The rows at each depth. *)
Walk(direction, roots, edges, depth) ==
  LET rows[d \in 0..depth] ==
        IF d = 0 THEN StartRows(roots) ELSE HopRows(direction, rows[d - 1], edges)
  IN rows

(* _walk: the members within the bound, and whether a walk went beyond it. *)
Reached(direction, roots, edges, depth) ==
  LET rows == Walk(direction, roots, edges, depth + 1)
      within == UNION {rows[d] : d \in 0..depth}
  IN [nodes |-> {w.node : w \in within},
      edges |-> {w.edge : w \in within} \ {0},
      truncated |-> rows[depth + 1] # {}]

(* ORDER BY identity: the i-th has i - 1 before it. *)
Before(ids, x) == {y \in ids : y < x}
InOrder(ids) == [i \in 1..Cardinality(ids) |-> CHOOSE x \in ids : Cardinality(Before(ids, x)) = i - 1]

(* Node identities in order, then edge identities in order. *)
Members(reached) ==
  LET tagged(tag, ids) == [i \in 1..Cardinality(ids) |-> <<tag, InOrder(ids)[i]>>]
  IN tagged("node", reached.nodes) \o tagged("edge", reached.edges)

(* Mutant: a page ends one member further than it shows. *)
PageEndSkippingOne(offset, count) == IF offset + PageSize < count THEN offset + PageSize + 1 ELSE count

(* page_end, where the next cursor points. *)
PageEnd(offset, count) == IF offset + PageSize < count THEN offset + PageSize ELSE count

(* One page.  `next` is -1 when no page is left. *)
Page(reached, offset) ==
  LET members == Members(reached)
      end == PageEnd(offset, Len(members))
      last == IF offset + PageSize < Len(members) THEN offset + PageSize ELSE Len(members)
      shown == {members[i] : i \in (offset + 1)..last}
  IN [nodes |-> {m[2] : m \in {m \in shown : m[1] = "node"}},
      edges |-> {m[2] : m \in {m \in shown : m[1] = "edge"}},
      truncated |-> reached.truncated,
      next |-> IF end < Len(members) THEN end ELSE -1]

(* The cursor is refused beyond the result, or for another query. *)
CursorAccepted(reached, offset, sameQuery) ==
  offset > 0 => sameQuery /\ offset < Len(Members(reached))
=============================================================================
