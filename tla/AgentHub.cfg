SPECIFICATION FairSpec
CONSTANTS
  i1 = i1
  i2 = i2
  i3 = i3
  old = old
  new = new
  ws = ws
  Instances = {i1, i2, i3}
  Conns = {old, new}
  NoConn = NoConn
  Places <- MCPlaces
  Requests = {ws}
  Entry <- MCEntry
  Admin = {i1}
  Capacity = 1
  MaxEpoch = 2
  MaxDrops = 1
  MaxEvents = 1
\* Every connection may be closed and the agent disabled.
CHECK_DEADLOCK FALSE
INVARIANTS
  TypeOK
  OpenIsRegistered
  DeliveredOnce
  AnswerKept
PROPERTIES
  LeaseReturns
  DisabledGoesOffline
