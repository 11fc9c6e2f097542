\* Two overlapping read loops, redelivered commands, SQL statements that fail.
CONSTANTS
  new1 = new1  send2 = send2  halt = halt  odd = odd
  r1 = r1  r2 = r2  s1 = s1  t1 = t1  h1 = h1  h2 = h2
  NoCmd = NoCmd  NoSession = NoSession  NoAck = NoAck  NoRun = NoRun  NoEntry = NoEntry
  Conns = {h1, h2}
  Commands = {new1, halt}
  StartCmds = {new1}
  StopCmds = {halt}
  Runs = {r1}
  Sessions = {s1}
  RunOf <- MCRunOf
  SessionOf <- MCSessionOf
  NativeOf <- MCNativeSame
  Deadlined = {}
  MaxActive = 1
  MaxCrashes = 0
  DbErrors = TRUE
SPECIFICATION Spec
INVARIANTS TypeOK OneOwner AcceptedIsStarted LaunchedIsAcked AtMostOnceExecution StoppedNotFailed
SYMMETRY Symmetry
