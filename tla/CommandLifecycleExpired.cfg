\* The agent is away, a command expires.
CONSTANTS
  a = a  b = b  s = s  u = u  one = one
  NoRun = NoRun  NoSession = NoSession  NoCmd = NoCmd  NoAck = NoAck  NoBeat = NoBeat
  Sessions = {one}
  SessionOf <- MCSessionOf
  Starts = {a}
  Stops = {}
  StopRun <- MCStopRun
  Workers = {"request", "dispatcher"}
  Expirable = {a}
  CanDisable = FALSE
  Beating = TRUE
  CanFill = TRUE
  Plans <- One
  MaxCancels = 0
  MaxRetries = 0
  MaxChanges = 2
SPECIFICATION AwaySpec
PROPERTY ExpiredSettles
\* Every command may be closed and every run over.
CHECK_DEADLOCK FALSE
