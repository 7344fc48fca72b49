----------------------------- MODULE MCTileServer -----------------------------
(* Small instances of TileServer.                                            *)
EXTENDS TileServer, TLC

CONSTANTS r1, r2, m1, l1, l2, t1, t2

Def(layers, tiles, params, mvt) ==
  [layersAt |-> [t \in Tiles |-> layers], bounds |-> tiles,
   params |-> params, mvt |-> mvt]

\* a reload replaces a map of two layers by one that lost the first
Reloaded == [v \in Versions |-> IF v = 1 THEN Def({l1, l2}, Tiles, FALSE, FALSE)
                                          ELSE Def({l2}, Tiles, FALSE, FALSE)]

\* a map of one mvt provider, whose bounds miss the second tile
OfMvt == [v \in Versions |-> Def({l1, l2}, {t1}, FALSE, TRUE)]

\* a map with custom parameters, drawn by one mvt provider
WithParams == [v \in Versions |-> Def({l1}, Tiles, TRUE, TRUE)]

\* The name of layer l2 contains the provider layer name of l1: a request for l2
\* selects both.
Substring == [l \in Layers |-> IF l = l2 THEN {l1, l2} ELSE {l1}]

RequestSymmetry == Permutations(Requests)
=============================================================================
