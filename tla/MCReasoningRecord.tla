------------------------ MODULE MCReasoningRecord ------------------------
(***************************************************************************)
(* The reasoning record: what may be written into it (ArtifactContract),   *)
(* the turns and people that write it (Deliberation) and the analysis of a *)
(* retracted source over its graph (SourceImpact). The three share the     *)
(* definitions of the graph and no state, so a behaviour exercises one of  *)
(* them and leaves the variables of the others as they began.              *)
(***************************************************************************)
EXTENDS SourceImpact, Deliberation

VARIABLE part   \* the component under study

(* Two turns of an author and two of a critic over two rounds; the critic    *)
(* has been empty twice before its second turn.                              *)
MCAgentOf == [t \in Turns |-> IF t \in {"assess", "revise", "respond"} THEN "author" ELSE "critic"]

MCRoleOf == [author |-> "domain_expert", critic |-> "critic"]

MCPhaseOf ==
  [t \in Turns |-> CASE t = "assess" -> "ASSESS"
                     [] t \in {"critique", "again"} -> "CRITIQUE"
                     [] OTHER -> "REVISE"]

MCRoundOf == [t \in Turns |-> IF t \in {"assess", "critique"} THEN 2 ELSE 3]

MCPriorEmpty == [t \in Turns |-> IF t = "again" THEN 2 ELSE 0]

(* Evidence for a claim, the claims and the assumption it was derived from   *)
(* and an alternative based on the assumption: the graph has a diamond, its  *)
(* walks are longer than one segment and their results than one page.        *)
Edge(type, target) == [type |-> type, target |-> target]

MCKind == <<"EVIDENCE", "ALTERNATIVE", "CLAIM", "ASSUMPTION", "CLAIM">>

MCParents ==
  <<{Edge("SUPPORTS", 5)}, {Edge("BASED_ON_ASSUMPTION", 4)}, {Edge("DERIVED_FROM", 4)}, {},
    {Edge("DERIVED_FROM", 3), Edge("BASED_ON_ASSUMPTION", 4)}>>

(* The same with evidence for the first claim, from which the second one is  *)
(* derived: what rests on the evidence lies against the edges' direction.    *)
MCClaimParents == [MCParents EXCEPT ![1] = {Edge("SUPPORTS", 3)}]

MCSelected == [c1 |-> {2, 5}]

(* A request, its retry and a request with a key of its own. *)
MCKeyOf == [r1 |-> "k1", r2 |-> "k1", r3 |-> "k2"]

MCReasonOf == [r \in Requests |-> "retracted by its publisher"]

RecordInit ==
  /\ ContractInit /\ (part = "contract" \/ candidate = Plain("FACT"))
  /\ ImpactInit /\ DelibInit

RecordNext ==
  \/ part = "contract" /\ ContractNext /\ UNCHANGED <<impactVars, delibVars>>
  \/ part = "impact" /\ ImpactNext /\ UNCHANGED <<candidate, delibVars>>
  \/ part = "deliberation" /\ DelibNext /\ UNCHANGED <<candidate, impactVars>>

recordVars == <<candidate, impactVars, delibVars>>

RecordSpec ==
  /\ part \in {"contract", "impact", "deliberation"} /\ RecordInit
  /\ [][UNCHANGED part /\ RecordNext]_<<part, recordVars>>
=============================================================================
