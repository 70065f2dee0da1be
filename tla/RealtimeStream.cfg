SPECIFICATION FairSSpec
CONSTANTS
  w1 = w1
  w2 = w2
  w3 = w3
  e1 = e1
  e2 = e2
  e3 = e3
  x = x
  y = y
  c1 = c1
  None = None
  Writers = {w1, w2, w3}
  EventIds = {e1, e2, e3}
  Contents = {x, y}
  Work <- MCWork
  Ending = {w2}
  Clients = {c1}
  PageSize = 1
  MaxDrops = 1
INVARIANT LedgerVerifies
INVARIANT RecordedOnce
INVARIANT CommittedWhole
INVARIANT ReceivedIsPrefix
INVARIANT ReturnedIsComplete
INVARIANT NoLostWakeup
PROPERTY Delivered
