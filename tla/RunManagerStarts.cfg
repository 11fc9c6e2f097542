\* Two overlapping read loops, two starts of one session, an unknown kind.
CONSTANTS
  new1 = new1  send2 = send2  halt = halt  odd = odd
  r1 = r1  r2 = r2  s1 = s1  t1 = t1  h1 = h1  h2 = h2
  NoCmd = NoCmd  NoSession = NoSession  NoAck = NoAck  NoRun = NoRun  NoEntry = NoEntry
  Conns = {h1, h2}
  Commands = {new1, send2, odd}
  StartCmds = {new1, send2}
  StopCmds = {}
  Runs = {r1, r2}
  Sessions = {s1}
  RunOf <- MCRunOf
  SessionOf <- MCSessionOf
  NativeOf <- MCNativeSame
  Deadlined = {}
  MaxActive = 2
  MaxCrashes = 0
  DbErrors = FALSE
SPECIFICATION Spec
INVARIANT SessionSerial
SYMMETRY StartSymmetry
