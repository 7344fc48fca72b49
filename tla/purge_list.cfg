\* purge of a tile list that names one tile twice
CONSTANTS
  t1 = t1
  t2 = t2
  m1 = m1
  mp = mp
  Tiles = {t1, t2}
  Maps = {m1, mp}
  ParamMaps = {mp}
  Cacheable = {t1, t2}
  TileList <- SharedTile
  MapList <- BothMaps
  Workers = {w1, w2}
  Source = "tile-list"
  Command = "purge"
  Overwrite = FALSE
SPECIFICATION FairSpec
INVARIANT AppliedOnSuccess
PROPERTY Termination
\* the process ends
CHECK_DEADLOCK FALSE
