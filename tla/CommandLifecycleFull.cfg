\* The agent's send queue is full.
CONSTANTS
  a = a  b = b  s = s  u = u  one = one
  NoRun = NoRun  NoSession = NoSession  NoCmd = NoCmd  NoAck = NoAck  NoBeat = NoBeat
  Sessions = {one}
  SessionOf <- MCSessionOf
  Starts = {a}
  Stops = {s}
  StopRun <- MCStopRun
  Workers = {"request", "dispatcher"}
  Expirable = {}
  CanDisable = FALSE
  Beating = FALSE
  CanFill = TRUE
  Plans <- One
  MaxCancels = 0
  MaxRetries = 0
  MaxChanges = 2
SPECIFICATION Spec
PROPERTY StoppedBeforeDispatch
\* Every command may be closed and every run over.
CHECK_DEADLOCK FALSE
