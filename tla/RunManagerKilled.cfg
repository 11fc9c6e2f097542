\* A stop whose kill is seen before its cancel.
CONSTANTS
  new1 = new1  send2 = send2  halt = halt  odd = odd
  r1 = r1  r2 = r2  s1 = s1  t1 = t1  h1 = h1  h2 = h2
  NoCmd = NoCmd  NoSession = NoSession  NoAck = NoAck  NoRun = NoRun  NoEntry = NoEntry
  Conns = {h1}
  Commands = {new1, halt}
  StartCmds = {new1}
  StopCmds = {halt}
  Runs = {r1}
  Sessions = {s1, t1}
  RunOf <- MCRunOf
  SessionOf <- MCNoSession
  NativeOf <- MCNativeOf
  Deadlined = {}
  MaxActive = 1
  MaxCrashes = 0
  DbErrors = FALSE
SPECIFICATION Spec
PROPERTY KilledIsStopped
