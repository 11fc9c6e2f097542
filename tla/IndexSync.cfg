SPECIFICATION Spec
CONSTANTS
  c1 = c1
  c2 = c2
  t1 = t1
  r1 = r1
  r2 = r2
  home = home
  archived = archived
  live = live
  Convs = {c1, c2}
  Thread <- MCThread
  Roots = {home}
  Places <- MCPlaces
  RootOf <- MCRootOf
  Live = {live}
  NoPlace = NoPlace
  Tasks = {walk1, walk2}
  Runs = {r1, r2}
  walk1 = walk1
  walk2 = walk2
  NoRun = NoRun
  NoId = NoId
  Scenarios <- MCScenarios
\* Every run may end and the bounds be spent.
CHECK_DEADLOCK FALSE
INVARIANTS
  TypeOK
  ScanRepairs
  ServerFollows
PROPERTY RunKept
