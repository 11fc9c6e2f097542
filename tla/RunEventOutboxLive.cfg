\* Two runs, a crash, a lost connection, an error at the server.
CONSTANTS
  start = start  out = out  err = err  stop = stop  cut = cut  other = other  r1 = r1  r2 = r2
  NoEvent = NoEvent
  Events = {start, cut, other}
  Runs = {r1, r2}
  RunOf <- MCRunOf
  KindOf <- MCKindOf
  Waits <- MCWaits
  Refused = {}
  Batch = 1
  Window = 1
  MaxDrops = 1
  MaxCrashes = 1
  MaxOthers = 0
  MaxFailures = 1
  MaxFaults = 2
SPECIFICATION FairSpec
INVARIANTS TypeOK SeqUnique
PROPERTIES Delivers EventuallyDelivered
\* The system rests when everything is delivered.
CHECK_DEADLOCK FALSE
