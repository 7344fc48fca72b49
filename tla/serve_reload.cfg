\* two requests while the map is replaced and tiles are purged
CONSTANTS
  r1 = r1
  r2 = r2
  m1 = m1
  l1 = l1
  l2 = l2
  t1 = t1
  t2 = t2
  Requests = {r1, r2}
  MapNames = {m1}
  Layers = {l1, l2}
  Tiles = {t1}
  Versions = {1, 2}
  Defs <- Reloaded
  Selects <- Substring
  Queries = {"none"}
  Accepts = {"gzip"}
  All = All
  NoMap = NoMap
  NoBody = NoBody
SPECIFICATION Spec
SYMMETRY RequestSymmetry
INVARIANTS
  TilesConsistent
  FreshUnlessHit
 
\* requests that are done stay done
CHECK_DEADLOCK FALSE
