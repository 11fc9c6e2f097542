\* A stop is closed by the server alone: a start is on its way, or was stopped before.
CONSTANTS
  a = a  b = b  s = s  u = u  one = one
  NoRun = NoRun  NoSession = NoSession  NoCmd = NoCmd  NoAck = NoAck  NoBeat = NoBeat
  Sessions = {one}
  SessionOf <- MCSessionOf
  Starts = {a}
  Stops = {s, u}
  StopRun <- MCStopRun
  Workers = {"request", "dispatcher"}
  Expirable = {}
  CanDisable = FALSE
  Beating = FALSE
  CanFill = FALSE
  Plans <- TwiceStopped
  MaxCancels = 0
  MaxRetries = 0
  MaxChanges = 2
SPECIFICATION Spec
INVARIANT EveryStopDoneMeansStopped
\* Every command may be closed and every run over.
CHECK_DEADLOCK FALSE
