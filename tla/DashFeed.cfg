SPECIFICATION Spec
CONSTANTS
  m1 = m1
  m2 = m2
  t1 = t1
  i1 = i1
  i2 = i2
  Items = {m1, m2, t1}
  NoItem = NoItem
  Admins = {first, second}
  Instances = {i1, i2}
  Conns = {1, 2}
  InstOf <- MCInstOf
  NoInst = NoInst
  Window = 1
  Limit = 2
  Cap = 2
  Scenarios <- MCScenarios
\* The run ends and the bounds are spent.
CHECK_DEADLOCK FALSE
INVARIANTS
  TypeOK
  TablesComplete
  MatchesMirror
  NothingSkipped
  SnapshotWhole
PROPERTY FeedCatchesUp
