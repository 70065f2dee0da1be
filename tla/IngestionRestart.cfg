SPECIFICATION Spec
CONSTANTS
  a1 = a1
  a2 = a2
  a3 = a3
  b1 = b1
  x = x
  y = y
  None = None
  Attempts = {a1, a2, a3}
  Inputs = {x, y}
  InputOf <- MCInputOf
CHECK_DEADLOCK FALSE
PROPERTY CompletedForGood
