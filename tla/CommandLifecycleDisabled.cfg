\* The agent is away and is disabled.
CONSTANTS
  a = a  b = b  s = s  u = u  one = one
  NoRun = NoRun  NoSession = NoSession  NoCmd = NoCmd  NoAck = NoAck  NoBeat = NoBeat
  Sessions = {one}
  SessionOf <- MCSessionOf
  Starts = {a}
  Stops = {s}
  StopRun <- MCStopRun
  Workers = {"request", "dispatcher"}
  Expirable = {}
  CanDisable = TRUE
  Beating = FALSE
  CanFill = TRUE
  Plans <- Two
  MaxCancels = 0
  MaxRetries = 0
  MaxChanges = 2
SPECIFICATION AwaySpec
PROPERTY DisabledSettles
\* Every command may be closed and every run over.
CHECK_DEADLOCK FALSE
