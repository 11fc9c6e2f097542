SPECIFICATION Spec
CONSTANTS
  c1 = c1
  c2 = c2
  sync = sync
  post = post
  cmd = cmd
  Uploads = {c1, c2, sync, post, cmd}
  KindOf <- MCKindOf
  Then <- MCThen
  Scenarios <- MCScenarios
  MaxVersion = 2
  BatchCount <- MCGrowing
  Insert = {"done", "busy"}
  UploadChunks = TRUE
  MaxDrops = 1
  MaxFailures = 1
CHECK_DEADLOCK FALSE
INVARIANTS CursorMeansShown RefreshStores
