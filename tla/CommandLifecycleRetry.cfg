\* A failed start is retried.
CONSTANTS
  a = a  b = b  s = s  u = u  one = one
  NoRun = NoRun  NoSession = NoSession  NoCmd = NoCmd  NoAck = NoAck  NoBeat = NoBeat
  Sessions = {one}
  SessionOf <- MCSessionOf
  Starts = {a}
  Stops = {}
  StopRun <- MCStopRun
  Workers = {"request", "dispatcher"}
  Expirable = {}
  CanDisable = FALSE
  Beating = TRUE
  CanFill = FALSE
  Plans <- Two
  MaxCancels = 0
  MaxRetries = 1
  MaxChanges = 2
SPECIFICATION FairSpec
PROPERTY RetriedRunEnds
\* Every command may be closed and every run over.
CHECK_DEADLOCK FALSE
