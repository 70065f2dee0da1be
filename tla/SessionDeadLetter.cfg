SPECIFICATION Spec
CONSTANTS
  pause = pause
  resume = resume
  cancel = cancel
  directive = directive
  None = None
  s1 = s1
  s2 = s2
  d1 = d1
  Starters = {s1}
  Commands = {pause}
  KindOf <- MCKindOf
  Dispatches = {}
  MaxAttempts = 2
  MaxFaults = 2
  MaxIssues = 1
  LateAttempts = FALSE
INVARIANT DeadLetterIsDurable
CHECK_DEADLOCK FALSE
