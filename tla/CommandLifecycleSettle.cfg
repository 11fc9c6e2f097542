\* A start, a lost connection, a crash.
CONSTANTS
  a = a  b = b  s = s  u = u  one = one
  NoRun = NoRun  NoSession = NoSession  NoCmd = NoCmd  NoAck = NoAck  NoBeat = NoBeat
  Sessions = {one}
  SessionOf <- MCSessionOf
  Starts = {a}
  Stops = {}
  StopRun <- MCStopRun
  Workers = {"request", "dispatcher"}
  Expirable = {}
  CanDisable = FALSE
  Beating = FALSE
  CanFill = FALSE
  Plans <- Faulty
  MaxCancels = 1
  MaxRetries = 0
  MaxChanges = 2
SPECIFICATION FairSpec
PROPERTY RunSettles
\* Every command may be closed and every run over.
CHECK_DEADLOCK FALSE
