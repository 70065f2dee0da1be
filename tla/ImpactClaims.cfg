SPECIFICATION RecordSpec
CONSTANTS
  MaxDepth = 1
  PageSize = 2
  Nodes = {1, 2, 3, 4, 5}
  Kind <- MCKind
  Parents <- MCClaimParents
  Results = {"c1"}
  Selected <- MCSelected
  Requests = {"r1", "r2", "r3"}
  KeyOf <- MCKeyOf
  ReasonOf <- MCReasonOf
  Turns = {"assess", "critique", "again", "revise"}
  AgentOf <- MCAgentOf
  RoleOf <- MCRoleOf
  PhaseOf <- MCPhaseOf
  RoundOf <- MCRoundOf
  PriorEmpty <- MCPriorEmpty
  Rounds = {2, 3}
  Offered = {"ACCEPT", "REVISE", "REJECT_WITH_JUSTIFICATION"}
  MaxApiWrites = 1
PROPERTY DependentClaimsListed
CHECK_DEADLOCK FALSE
