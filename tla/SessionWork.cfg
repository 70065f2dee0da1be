SPECIFICATION MCSpec
CONSTANTS
  MaxDepth = 1
  PageSize = 2
  Nodes = {1, 2, 3, 4, 5}
  Kind <- MCKind
  Parents <- MCParents
  Results = {"c1"}
  Selected <- MCSelected
  Requests = {"r1", "r2", "r3"}
  KeyOf <- MCKeyOf
  ReasonOf <- MCReasonOf
  Turns = {"assess", "critique", "again", "revise"}
  AgentOf <- MCAgentOf
  RoleOf <- MCRoleOf
  PhaseOf <- MCPhaseOf
  RoundOf <- MCRoundOf
  PriorEmpty <- MCPriorEmpty
  Rounds = {2, 3}
  Offered = {"ACCEPT", "REVISE", "REJECT_WITH_JUSTIFICATION"}
  MaxApiWrites = 1
  EventIds = {e1, e2, e3, e4}
  Payloads = {0}
  NoEvent = NoEvent
  Agents = {"a1", "a2", "b1"}
  LogicalOf <- MCLogicalOf
  VersionOf <- MCVersionOf
  BoundAgents <- MCBoundAgents
  Interventions <- MCInterventions
  LastRound = 2
  MaxAttempts = 2
  Answers <- MCAnswers
  SessionCeiling = 2
  AgentCeiling <- MCAgentCeiling
  ToolCalls = {m1, m2, m3, m4}
  CallOf <- MCCallOf
  MaxDedup = 1
  MaxRuns = 2
  Endings = {"ok", "timeout"}
  MaxRestarts = 1
  BusEvents = {"e1", "bad"}
  Undecodable = {"bad"}
  BusGroups <- MCBusGroups
  MaxDeliver = 3
  MaxPublished = 2
  Writers = {m1, m2}
  Captures <- MCCaptures
  Closings <- MCClosings
  Registry = {"census", "coordinator", "reward", "credit"}
  MaxDecisions = 2
  Finalizers = {m1, m2}
  Replays = {m1, m2}
  Documents <- MCDocuments
  Implementations <- MCImplementations
  ReplayRequests <- MCReplayRequests
  Launches <- MCLaunches
  MarlAvailable = TRUE
  MaxLedger = 1
  m1 = m1
  m2 = m2
  m3 = m3
  m4 = m4
INVARIANT DomainIsStorable
INVARIANT ImpactCovers
INVARIANT RetractedOnce
INVARIANT NothingSkipped
INVARIANT ChainsAreLinear
INVARIANT FreshReferences
INVARIANT RetriesAccepted
INVARIANT AcceptedIsInterpretable
INVARIANT MembershipReplays
INVARIANT OperationRunsOnce
INVARIANT LostOnlyByFailing
INVARIANT EpisodeReadable
INVARIANT VerdictIsExact
INVARIANT VerdictsStand
SYMMETRY WorkSymmetry
CHECK_DEADLOCK FALSE
