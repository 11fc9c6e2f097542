\* Two ids of one native thread.
CONSTANTS
  new1 = new1  send2 = send2  halt = halt  odd = odd
  r1 = r1  r2 = r2  s1 = s1  t1 = t1  h1 = h1  h2 = h2
  NoCmd = NoCmd  NoSession = NoSession  NoAck = NoAck  NoRun = NoRun  NoEntry = NoEntry
  Conns = {h1}
  Commands = {new1, send2}
  StartCmds = {new1, send2}
  StopCmds = {}
  Runs = {r1, r2}
  Sessions = {s1, t1}
  RunOf <- MCRunOf
  SessionOf <- MCSessionByThread
  NativeOf <- MCNativeOf
  Deadlined = {}
  MaxActive = 2
  MaxCrashes = 0
  DbErrors = FALSE
SPECIFICATION Spec
INVARIANT ThreadSerial
