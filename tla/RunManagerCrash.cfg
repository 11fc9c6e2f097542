\* One read loop at a time, two starts and a stop of one session, a crash anywhere.
CONSTANTS
  new1 = new1  send2 = send2  halt = halt  odd = odd
  r1 = r1  r2 = r2  s1 = s1  t1 = t1  h1 = h1  h2 = h2
  NoCmd = NoCmd  NoSession = NoSession  NoAck = NoAck  NoRun = NoRun  NoEntry = NoEntry
  Conns = {h1}
  Commands = {new1, send2, halt}
  StartCmds = {new1, send2}
  StopCmds = {halt}
  Runs = {r1, r2}
  Sessions = {s1, t1}
  RunOf <- MCRunOf
  SessionOf <- MCSessionOf
  NativeOf <- MCNativeOf
  Deadlined = {send2}
  MaxActive = 2
  MaxCrashes = 1
  DbErrors = FALSE
SPECIFICATION FairSpec
INVARIANTS AtMostOnceExecution NothingLeftRunning
PROPERTY StopEndsRun
