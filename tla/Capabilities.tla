----------------------------- MODULE Capabilities -----------------------------
(***************************************************************************)
(* What the server says of its maps: the capabilities, the TileJSON and    *)
(* the style of a map (server/handle_*.go), with the URLs they hold, next  *)
(* to what the tile handler draws for such a URL.                          *)
(*                                                                         *)
(* A layer has a name (Nameless when it is not set), the name of its       *)
(* provider's layer, a kind of geometry and its zooms.                     *)
(***************************************************************************)
EXTENDS TileNames

CONSTANT PartOf        \* the pairs of layer names of which one is part of the other

MVTName(l) == IF l.name # Nameless THEN l.name ELSE l.plname

DebugNames == {Word("debug-tile-outline"), Word("debug-tile-center")}
DebugLayers ==
  << [name |-> Word("debug-tile-outline"), plname |-> Word("debug-tile-outline"),
      geom |-> "line", min |-> 0, max |-> MaxZ],
     [name |-> Word("debug-tile-center"), plname |-> Word("debug-tile-center"),
      geom |-> "point", min |-> 0, max |-> MaxZ] >>

AddDebugLayers(m) == IF m.mvt THEN m ELSE [m EXCEPT !.layers = @ \o DebugLayers]
Shown(m, debug) == IF debug THEN AddDebugLayers(m).layers ELSE m.layers

Lower(a, b)  == IF a > b THEN b ELSE a
Higher(a, b) == IF a < b THEN b ELSE a

\* mutant: a layer of a known name is skipped before its zooms are looked at
Bug_AddLayer(list, l) ==
  IF \E i \in DOMAIN list : list[i].name = MVTName(l) THEN list
  ELSE Append(list, [name |-> MVTName(l), min |-> l.min, max |-> l.max, geom |-> l.geom])

(* Both listings have one entry for the layers of a name, from their lowest   *)
(* to their highest zoom.                                                      *)
AddLayer(list, l) ==
  IF \E i \in DOMAIN list : list[i].name = MVTName(l)
  THEN [i \in DOMAIN list |->
          IF list[i].name = MVTName(l)
          THEN [list[i] EXCEPT !.min = Lower(@, l.min), !.max = Higher(@, l.max)]
          ELSE list[i]]
  ELSE Append(list, [name |-> MVTName(l), min |-> l.min, max |-> l.max, geom |-> l.geom])

MapLayers(m, debug) == FoldLeft(AddLayer, <<>>, Shown(m, debug))

\* HandleMapCapabilities: the zooms of the whole map start with the first layer
TileJSONStep(acc, l) ==
  LET first == acc.layers = <<>>
  IN  [layers |-> AddLayer(acc.layers, l),
       min |-> IF first THEN l.min ELSE Lower(acc.min, l.min),
       max |-> IF first THEN l.max ELSE Higher(acc.max, l.max)]

TileJSON(m, debug) ==
  FoldLeft(TileJSONStep, [layers |-> <<>>, min |-> 0, max |-> 0], Shown(m, debug))

(* HandleMapStyle: a layer of an unknown geometry has no style, and does not  *)
(* stop a later one of its name from having one.                              *)
StyleStep(styles, l) ==
  IF l.geom = "unknown" \/ \E i \in DOMAIN styles : styles[i].name = MVTName(l) THEN styles
  ELSE Append(styles, [name |-> MVTName(l), geom |-> l.geom])

Style(m, debug) == FoldLeft(StyleStep, <<>>, Shown(m, debug))

-----------------------------------------------------------------------------
(* What the tile handler draws.                                                *)
Entries(list) == {list[i] : i \in DOMAIN list}

\* the filters append the layers they keep, in their order
Kept(layers, wanted) ==
  FoldLeft(LAMBDA kept, l : IF l \in wanted THEN Append(kept, l) ELSE kept, <<>>, layers)

FilterLayersByZoom(layers, z) == Kept(layers, {l \in Entries(layers) : l.min <= z /\ l.max >= z})

\* mutant: a layer that has a name of its own is not found by it
Bug_FilterLayersByName(layers, n) ==
  Kept(layers, {l \in Entries(layers) :
    l.plname # Nameless /\ (l.plname = n \/ <<l.plname, n>> \in PartOf)})

FilterLayersByName(layers, n) ==
  Kept(layers, {l \in Entries(layers) :
    \/ l.name # Nameless /\ l.name = n
    \/ l.plname # Nameless /\ (l.plname = n \/ <<l.plname, n>> \in PartOf)})

\* the layers of a request, empty when the answer is "not found"; the debug
\* layers come after the filters
Drawn(m, layer, z, debug) ==
  LET zoomed   == FilterLayersByZoom(m.layers, z)
      filtered == IF layer = Nameless THEN zoomed ELSE FilterLayersByName(zoomed, layer)
  IN  IF filtered = <<>> THEN <<>>
      ELSE Shown([m EXCEPT !.layers = filtered], debug)

-----------------------------------------------------------------------------
NamesOf(layers) == {MVTName(layers[i]) : i \in DOMAIN layers}

(* Whatever is drawn at a zoom is advertised at that zoom, and a layer that   *)
(* is advertised is drawn at the first and the last zoom of its entry.        *)
ZoomsAdvertised(m, debug) ==
  LET sound == \A i \in DOMAIN m.layers : m.layers[i].min <= m.layers[i].max
      list  == MapLayers(m, debug)
      At(z) == NamesOf(Drawn(m, Nameless, z, debug))
  IN  sound =>
      /\ \A z \in 0..MaxZ : \A n \in At(z) :
           \E e \in Entries(list) : e.name = n /\ e.min <= z /\ z <= e.max
      /\ \A e \in Entries(list) : e.name \notin DebugNames =>
           e.name \in At(e.min) /\ e.name \in At(e.max)
      /\ TileJSON(m, debug).layers = list
      /\ list # <<>> => \A e \in Entries(list) :
           TileJSON(m, debug).min <= e.min /\ e.max <= TileJSON(m, debug).max

(* The URL of a layer in the capabilities is answered with that layer, at     *)
(* each zoom where the tile of the map has it.  The debug layers are not      *)
(* found by their own URLs.                                                    *)
LayerServed(prefix, m, debug) ==
  \A e \in Entries(MapLayers(m, debug)) : \A z \in 0..MaxZ :
    LET url == FillIn(TemplatePath(prefix, m.name, e.name), z, 0, 0)
        req == ParseURI(prefix, url)
    IN  e.name \in NamesOf(Drawn(m, Nameless, z, debug)) \ DebugNames =>
          /\ Routed(prefix, url) /\ req.ok /\ req.map = m.name
          /\ e.name \in NamesOf(Drawn(m, req.layer, req.z, debug))

(* A style names a layer once, and only layers the TileJSON has.              *)
StylesNamed(m, debug) ==
  LET s == Style(m, debug)
  IN  /\ \A i, j \in DOMAIN s : s[i].name = s[j].name => i = j
      /\ \A i \in DOMAIN s : s[i].name \in {e.name : e \in Entries(MapLayers(m, debug))}

(* The capabilities advertise the layers and zooms the tile handler draws.    *)
Advertised(prefix, m, debug) ==
  ZoomsAdvertised(m, debug) /\ LayerServed(prefix, m, debug) /\ StylesNamed(m, debug)
=============================================================================
