\* a second request, without Accept-Encoding, for a cached tile
CONSTANTS
  r1 = r1
  r2 = r2
  m1 = m1
  l1 = l1
  l2 = l2
  t1 = t1
  t2 = t2
  Requests = {r1, r2}
  MapNames = {m1}
  Layers = {l1, l2}
  Tiles = {t1, t2}
  Versions = {1}
  Defs <- OfMvt
  Selects <- Substring
  Queries = {"none"}
  Accepts = {"none"}
  All = All
  NoMap = NoMap
  NoBody = NoBody
SPECIFICATION Spec
SYMMETRY RequestSymmetry
INVARIANT DecompressedIfRefused
\* requests that are done stay done
CHECK_DEADLOCK FALSE
