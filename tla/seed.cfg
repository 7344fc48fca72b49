\* seed without --overwrite of two tiles, one beyond max_zoom, for an ordinary
\* map and one with custom parameters by two workers
CONSTANTS
  t1 = t1
  t2 = t2
  m1 = m1
  mp = mp
  Tiles = {t1, t2}
  Maps = {m1, mp}
  ParamMaps = {mp}
  Cacheable = {t1}
  TileList <- TwoTiles
  MapList <- BothMaps
  Workers = {w1, w2}
  Source = "bounds"
  Command = "seed"
  Overwrite = FALSE
SPECIFICATION FairSpec
INVARIANTS
  TypeOK
  NoGoroutineLeft
  AppliedOnSuccess
  StopsPromptly
  GenErrorReported
  WorkerErrorReported
  
PROPERTIES
  ExistingKept
  Termination
\* the process ends
CHECK_DEADLOCK FALSE
