SPECIFICATION ConsensusSpec
CONSTANTS
  alt1 = alt1
  alt2 = alt2
  alt3 = alt3
  i1 = i1
  i2 = i2
  k1 = k1
  k2 = k2
  p1 = p1
  p2 = p2
  Absent = Absent
  Unit = 1200
  Contexts <- MCContexts
INVARIANT UnknownOnlyCaps
