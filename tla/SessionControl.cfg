SPECIFICATION FairSpec
CONSTANTS
  pause = pause
  resume = resume
  cancel = cancel
  directive = directive
  None = None
  s1 = s1
  s2 = s2
  d1 = d1
  Starters = {s1}
  Commands = {pause, cancel, directive}
  KindOf <- MCKindOf
  Dispatches = {d1}
  MaxAttempts = 2
  MaxFaults = 1
  MaxIssues = 1
  LateAttempts = FALSE
INVARIANT WorkflowInStep
PROPERTY LifecycleRefined
PROPERTY ControlsHonoured
CHECK_DEADLOCK FALSE
