SPECIFICATION Spec
CONSTANTS
  pause = pause
  resume = resume
  cancel = cancel
  directive = directive
  None = None
  s1 = s1
  s2 = s2
  d1 = d1
  Starters = {s1, s2}
  Commands = {pause, resume}
  KindOf <- MCKindOf
  Dispatches = {d1}
  MaxAttempts = 2
  MaxFaults = 2
  MaxIssues = 2
  LateAttempts = TRUE
INVARIANT RowConstraintsHold
INVARIANT RowIsSomeEvent
PROPERTY EndedForGood
CHECK_DEADLOCK FALSE
