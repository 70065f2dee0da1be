SPECIFICATION Spec
CONSTANTS
  pause = pause
  resume = resume
  cancel = cancel
  directive = directive
  None = None
  s1 = s1
  s2 = s2
  d1 = d1
  Starters = {s1}
  Commands = {pause, resume}
  KindOf <- MCKindOf
  Dispatches = {}
  MaxAttempts = 2
  MaxFaults = 1
  MaxIssues = 1
  LateAttempts = TRUE
PROPERTY EffectCarriesEvent
CHECK_DEADLOCK FALSE
