------------------------------ MODULE TileNames ------------------------------
(***************************************************************************)
(* The names of a tile: the URL of a request as the router's handlers and  *)
(* the cache middleware read it (server, cache/cache.go), the key a tile   *)
(* has in a cache, and the template of its URL in the capabilities         *)
(* (server/tile_url_template.go).                                          *)
(*                                                                         *)
(* A path is a sequence of segments.  A segment has a name, the number it  *)
(* spells (NaN when it does not) and the extensions after its first dot.   *)
(***************************************************************************)
EXTENDS Integers, Sequences, SequencesExt, FiniteSets, TLC

CONSTANT MaxZ          \* tegola.MaxZ

NaN == -1
Word(n)        == [name |-> n, num |-> NaN, exts |-> <<>>]
Number(k)      == [name |-> ToString(k), num |-> k, exts |-> <<>>]
WithExt(s, e)  == [s EXCEPT !.exts = Append(@, e)]
Plain(s)       == s.exts = <<>>
Nameless       == Word("")

(* A segment that spells a number of at most max: all of it, or, for y, what *)
(* comes before its extension.                                               *)
Parsed(s, max)   == s.num # NaN /\ s.num <= max /\ Plain(s)
ParsedY(s, max)  == s.num # NaN /\ s.num <= max

Rejected == [ok |-> FALSE]
Named(map, layer, z, x, y) ==
  [ok |-> TRUE, map |-> map, layer |-> layer, z |-> z, x |-> x, y |-> y]

LastXY(z) == 2^z - 1

ZXY(map, layer, z, x, y) ==
  IF Parsed(z, MaxZ) /\ Parsed(x, LastXY(z.num)) /\ ParsedY(y, LastXY(z.num))
  THEN Named(map, layer, z.num, x.num, y.num)
  ELSE Rejected

\* mutant: the parts are told apart by their number only, and three are a map
Bug_ParseKey(path) ==
  LET n == Len(path)
  IN  IF n \notin 4..5 THEN Rejected
      ELSE ZXY(path[1], IF n = 5 THEN path[1] ELSE Nameless, path[n - 2], path[n - 1], path[n])

\* cache.ParseKey of a path below "maps"
ParseKey(path) ==
  LET n == Len(path)
  IN  IF n \notin 3..5 THEN Rejected
      ELSE ZXY(IF n > 3 THEN path[1] ELSE Nameless, IF n = 5 THEN path[2] ELSE Nameless,
               path[n - 2], path[n - 1], path[n])

\* filepath.Join leaves out the empty names
Filled(s) == IF s = Nameless THEN <<>> ELSE <<s>>

\* Key.String
KeyString(k) ==
  Filled(k.map) \o Filled(k.layer) \o <<Number(k.z), Number(k.x), Number(k.y)>>

\* TrimPrefix with the prefix of the server and "maps"
TrimPrefix(prefix, path) ==
  IF IsPrefix(prefix \o <<Word("maps")>>, path)
  THEN SubSeq(path, Len(prefix) + 2, Len(path))
  ELSE path

(* The routes of NewRouter that end in a tile, and parseURI: what the handler *)
(* reads from the parameters of the route.                                    *)
Routed(prefix, path) ==
  /\ IsPrefix(prefix \o <<Word("maps")>>, path)
  /\ Len(path) - Len(prefix) \in {5, 6}

ParseURI(prefix, path) ==
  LET p == SubSeq(path, Len(prefix) + 2, Len(path))
  IN  IF Len(p) = 4 THEN ZXY(p[1], Nameless, p[2], p[3], p[4])
      ELSE ZXY(p[1], p[2], p[3], p[4], p[5])

(* What the handler draws for a URL is what the middleware looks up and       *)
(* stores: the same map, layer and tile, or both refuse the URL.              *)
SameTile(prefix, path) ==
  Routed(prefix, path) => ParseKey(TrimPrefix(prefix, path)) = ParseURI(prefix, path)

(* A key is told by its path, and no key's path leads through another's, as   *)
(* the file cache needs it, when no layer is called like a number.            *)
KeysApart(k, l) ==
  (k # l /\ k.layer.num = NaN /\ l.layer.num = NaN) => ~IsPrefix(KeyString(k), KeyString(l))

\* a key that is parsed from its own path (a purge after a restart)
KeyKept(k) == ParseKey(KeyString(k)) = k

-----------------------------------------------------------------------------
(* The templates of tile URLs: the path of TileURLTemplate.String, and what  *)
(* UnmarshalJSON reads back from it.                                          *)
TemplatePath(prefix, map, layer) ==
  prefix \o <<Word("maps"), map>> \o Filled(layer)
    \o <<Word("{z}"), Word("{x}"), WithExt(Word("{y}"), "pbf")>>

\* the last "maps" before the first {z} decides
Unmarshal(path) ==
  LET z    == CHOOSE i \in DOMAIN path :
                path[i] = Word("{z}") /\ \A j \in 1..(i - 1) : path[j] # Word("{z}")
      maps == {i \in 1..z : path[i] = Word("maps")}
      last == CHOOSE i \in maps : \A j \in maps : j <= i
  IN  IF \A i \in DOMAIN path : path[i] # Word("{z}") THEN Rejected
      ELSE IF maps = {}
      THEN [ok |-> TRUE, prefix |-> <<>>, map |-> Nameless, layer |-> path[z - 1]]
      ELSE [ok |-> TRUE, prefix |-> SubSeq(path, 1, last - 1), map |-> path[last + 1],
            layer |-> IF path[z - 1] # path[last + 1] THEN path[z - 1] ELSE Nameless]

\* a template is read back unless a layer is called like its map, or a name is "maps"
TemplateKept(prefix, map, layer) ==
  (layer # map /\ map # Word("maps") /\ layer # Word("maps")) =>
     Unmarshal(TemplatePath(prefix, map, layer)) =
       [ok |-> TRUE, prefix |-> prefix, map |-> map, layer |-> layer]

\* a client that fills in a template
FillIn(path, z, x, y) ==
  [i \in DOMAIN path |->
     CASE path[i] = Word("{z}") -> Number(z)
       [] path[i] = Word("{x}") -> Number(x)
       [] path[i] = WithExt(Word("{y}"), "pbf") -> WithExt(Number(y), "pbf")
       [] OTHER -> path[i]]

(* The URL a client makes from an advertised template is routed to the tile  *)
(* of that map and layer.                                                     *)
TemplateServed(prefix, map, layer, z, x, y) ==
  LET url == FillIn(TemplatePath(prefix, map, layer), z, x, y)
  IN  Routed(prefix, url) /\ ParseURI(prefix, url) = Named(map, layer, z, x, y)
=============================================================================
