----------------------------- MODULE MCSeedPurge -----------------------------
(* Small instances of SeedPurge.                                             *)
EXTENDS SeedPurge

CONSTANTS t1, t2, m1, mp

\* two tiles, the second one beyond the cache's max_zoom or not
TwoTiles == <<t1, t2>>

\* a tile list in which two neighbours name the same parent tile
SharedTile == <<t1, t1>>

\* an ordinary map and one with custom parameters
BothMaps == <<m1, mp>>
=============================================================================
