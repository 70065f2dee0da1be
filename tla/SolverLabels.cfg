SPECIFICATION MCSpec
CONSTANTS
  a1 = a1
  a2 = a2
  a3 = a3
  b1 = b1
  x = x
  y = y
  None = None
  Attempts = {a1, a2, a3, b1}
  Inputs = {x, y}
  InputOf <- MCInputOf
  NamespaceOf <- MCNamespaceOf
  NamespaceOfSource <- MCNamespaceOfSource
  ChunkOf <- MCChunkOf
  Grants <- MCGrants
  Standing <- MCStanding
  Queries <- MCQueries
  Upserts <- MCUpserts
  Artifacts = {"art1", "art2", "ev"}
  EvidenceOnly = {"ev"}
  TierOf <- MCTierOf
  Members = {"u1", "u2"}
  Promotions <- MCPromotions
  Retentions <- MCRetentions
  LastDay = 4
  SourceArtifacts <- MCSourceArtifacts
  Bodies <- MCBodies
  Labels <- MCLabels
  Edits <- MCLabelEdits
  Evaluations <- MCLabelEvaluations
  alt1 = alt1
  alt2 = alt2
  alt3 = alt3
  i1 = i1
  i2 = i2
  k1 = k1
  k2 = k2
  p1 = p1
  p2 = p2
  Absent = Absent
  Unit = 1200
  Contexts <- MCContexts
INVARIANT BlockedIsContradictory
CHECK_DEADLOCK FALSE
