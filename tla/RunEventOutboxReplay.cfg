\* One run over one connection, no other traffic.
CONSTANTS
  start = start  out = out  err = err  stop = stop  cut = cut  other = other  r1 = r1  r2 = r2
  NoEvent = NoEvent
  Events = {start, out, err, stop}
  Runs = {r1, r2}
  RunOf <- MCRunOf
  KindOf <- MCKindOf
  Waits <- MCWaits
  Refused = {}
  Batch = 4
  Window = 2
  MaxDrops = 0
  MaxCrashes = 0
  MaxOthers = 0
  MaxFailures = 0
  MaxFaults = 0
SPECIFICATION Spec
PROPERTY OnlyReplaysRejected
\* The system rests when everything is delivered.
CHECK_DEADLOCK FALSE
