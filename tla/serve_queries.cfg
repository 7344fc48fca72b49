\* two requests with any query for a map with custom parameters, drawn by one mvt
\* provider
CONSTANTS
  r1 = r1
  r2 = r2
  m1 = m1
  l1 = l1
  l2 = l2
  t1 = t1
  t2 = t2
  Requests = {r1, r2}
  MapNames = {m1}
  Layers = {l1}
  Tiles = {t1}
  Versions = {1}
  Defs <- WithParams
  Selects <- Substring
  Queries = {"none", "param", "debug"}
  Accepts = {"gzip", "refused"}
  All = All
  NoMap = NoMap
  NoBody = NoBody
SPECIFICATION FairSpec
INVARIANTS
  CacheKeyed
  
PROPERTY Answered
\* requests that are done stay done
CHECK_DEADLOCK FALSE
