\* Two runs over one connection that is not lost; the server refuses the second.
CONSTANTS
  start = start  out = out  err = err  stop = stop  cut = cut  other = other  r1 = r1  r2 = r2
  NoEvent = NoEvent
  Events = {start, stop, other}
  Runs = {r1, r2}
  RunOf <- MCRunOf
  KindOf <- MCKindOf
  Waits <- MCWaits
  Refused = {other}
  Batch = 3
  Window = 1
  MaxDrops = 0
  MaxCrashes = 0
  MaxOthers = 1
  MaxFailures = 0
  MaxFaults = 0
SPECIFICATION Spec
INVARIANT CausalUnlessQueued
\* The system rests when everything is delivered.
CHECK_DEADLOCK FALSE
