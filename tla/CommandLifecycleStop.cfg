\* Two starts of a session and a stop, nothing is lost; or a start and a stop of its session,
\* a message or the connection is lost, the agent restarts. A context may be cancelled, the
\* server replays on every connect, and a claim may lapse while its command is being sent.
CONSTANTS
  a = a  b = b  s = s  u = u  one = one
  NoRun = NoRun  NoSession = NoSession  NoCmd = NoCmd  NoAck = NoAck  NoBeat = NoBeat
  Sessions = {one}
  SessionOf <- MCSessionOf
  Starts = {a, b}
  Stops = {s, u}
  StopRun <- MCStopRun
  Workers = {"request", "replay"}
  Expirable = {}
  CanDisable = FALSE
  Beating = FALSE
  CanFill = FALSE
  Plans <- StopPlans
  MaxCancels = 1
  MaxRetries = 0
  MaxChanges = 2
SPECIFICATION Spec
INVARIANT AnsweredStopMeansStopped
PROPERTY FinishedRunKept
\* Every command may be closed and every run over.
CHECK_DEADLOCK FALSE
