\* Replay, disabling, expiry, a full queue, heartbeats, a retry.
CONSTANTS
  a = a  b = b  s = s  u = u  one = one
  NoRun = NoRun  NoSession = NoSession  NoCmd = NoCmd  NoAck = NoAck  NoBeat = NoBeat
  Sessions = {one}
  SessionOf <- MCSessionOf
  Starts = {a}
  Stops = {}
  StopRun <- MCStopRun
  Workers = {"request", "replay"}
  Expirable = {a}
  CanDisable = TRUE
  Beating = TRUE
  CanFill = TRUE
  Plans <- One
  MaxCancels = 0
  MaxRetries = 1
  MaxChanges = 2
SPECIFICATION Spec
INVARIANT TypeOK
PROPERTY AnsweredNotPending
\* Every command may be closed and every run over.
CHECK_DEADLOCK FALSE
