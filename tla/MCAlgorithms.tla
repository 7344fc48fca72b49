----------------------------- MODULE MCAlgorithms -----------------------------
(* The pure algorithms of the program over small inputs, and those no theorem  *)
(* is about: what a text of the configuration becomes, and the lines and      *)
(* rings of a feature.                                                         *)
EXTENDS Algorithms, FiniteSets, TLC

Seqs(S, n) == UNION {[1..k -> S] : k \in 0..n}

-----------------------------------------------------------------------------
(* The statements and rows of the SQL providers.                              *)
ParamSqls == {<<Sql!Mark>>, <<Sql!Text("x"), Sql!Mark, Sql!Mark>>, <<Sql!Text("y")>>}
LayerSqls == Seqs({Sql!Text("a"), Sql!Token("P"), Sql!Token("Q"), Sql!Token("BBOX")}, 2)

ParamsOf(s) == [t \in DOMAIN s |-> Sql!Value([token |-> t], s[t], "value of " \o t)]
Statements ==
  [params : {ParamsOf(s) : s \in UNION {[ts -> ParamSqls] : ts \in SUBSET {"P", "Q"}}},
   sqls : [1..2 -> LayerSqls]]

HstoreOf(key) == [go |-> "hstore", v |-> [k \in {key} |-> [go |-> "string", v |-> 7]]]
PgVals == {Pg!Nil, [go |-> "string", v |-> 1], [go |-> "bytes", v |-> 2], [go |-> "int16", v |-> 3]}
            \cup {HstoreOf("a"), HstoreOf("id")}

PgRowsTaken ==
  [1..3 -> [name : {"id", "geom", "a"}, class : {"plain"}, val : PgVals]]

HanaTypes == {"STPOINT", "BLOB", "NVARCHAR", "INTEGER", "ARRAY"}
HanaVals(type) ==   \* only a large object may hold no bytes
  [valid : BOOLEAN, v : CASE type = "NVARCHAR" -> {1, 9}
                          [] type = "BLOB" -> {"", "data"}
                          [] OTHER -> {"data"}]
HanaCols(n) == [1..n -> [name : {"id", "geom", "a"}, type : HanaTypes]]
Read(type)  == [valid |-> TRUE, v |-> IF type = "NVARCHAR" THEN 1 ELSE "data"]

HanaRowsTaken ==
  UNION {[columns : {cols}, vals : HanaVals(cols[1].type) \X HanaVals(cols[2].type)]
           : cols \in HanaCols(2)}
    \cup {[columns |-> cols, vals |-> [i \in 1..3 |-> Read(cols[i].type)]] : cols \in HanaCols(3)}

Headers == [len : 0..64, flags : 0..63, magic : BOOLEAN]

Tables ==
  {cols \in Seqs([name : {"fid", "geom", "a"}, pk : BOOLEAN,
                  type : {<<"int">>, <<"decimal", "(", "8", ",", "2", ")">>}], 3) :
     \A i, j \in DOMAIN cols : cols[i].name = cols[j].name => i = j}

-----------------------------------------------------------------------------
(* The configuration.                                                         *)
Tokens    == {"!p!", "!P!", "!bbox!", "!BBOX!", "x"}
NoTokens  == {"x"}
Uppercase == [t \in Tokens |-> CASE t = "!p!" -> "!P!" [] t = "!bbox!" -> "!BBOX!" [] OTHER -> t]
TokensOnly == Tokens \ NoTokens
Values    == {<<"int", "1">>, <<"string", "1">>, <<"string", "word">>}
LayerIDs  == [n \in {"s", "t", "v", "w"} |-> IF n = "s" THEN {"a", "b"} ELSE {"a"}]

Provider(n, t) == [name |-> n, type |-> t]
Providers == <<Provider("s", "postgis"), Provider("t", "postgis"),
               Provider("v", "mvt_postgis"), Provider("w", "mvt_postgis")>>

Map(name, layers, params) ==
  [name |-> name, layers |-> layers, params |-> params, buffer |-> None]
Config(providers, maps) ==
  [providers |-> providers, maps |-> maps, headers |-> {}, prefix |-> None, buffer |-> None]

ZoomPairs == {<<None, None>>, <<0, 0>>, <<2, None>>, <<1, 1>>, <<2, 3>>}
LayersWith(names, paths, zooms) ==
  {[name |-> n, path |-> p, min |-> z[1], max |-> z[2]] : n \in names, p \in paths, z \in zooms}
SameName   == LayersWith({"l"}, {<<"s", "a">>}, ZoomPairs)
AnyLayer   == LayersWith({None, "l"}, {<<"s", "a">>, <<"s", "b">>, <<"t", "b">>, <<"v", "a">>,
                                      <<"u", "a">>, <<"s">>}, {<<None, None>>, <<0, 1>>, <<2, 3>>})
Mixed      == LayersWith({None}, {<<n, "a">> : n \in {"s", "t", "v", "w"}},
                         {<<0, 1>>, <<2, 2>>, <<3, 3>>})

OfLayers ==
  {Config(Providers, <<Map("m", ls, <<>>)>>) :
     ls \in Seqs(AnyLayer, 2) \cup Seqs(SameName, 3) \cup Seqs(Mixed, 3)}
  \cup {Config(Providers, <<Map("m", ls, <<>>), Map(other, more, <<>>)>>) :
          ls \in Seqs(SameName, 1), more \in Seqs(SameName, 2), other \in {"m", "n"}}

OfProviders ==
  {Config(ps, <<Map("m", <<CHOOSE l \in SameName : TRUE>>, <<>>)>>) :
     ps \in Seqs([name : {None, "s", "v"}, type : {None, "postgis", "mvt_postgis", "shape"}], 2)}

ParamsWith(names, types) ==
  [name : names, token : Tokens, type : types, sql : {None}, defaultSQL : {None, "sql"},
   defaultValue : {None, "1", "word"}]

OfParams ==
  {Config(Providers, <<Map("m", <<>>, <<p, q>>)>>) : p, q \in ParamsWith({"n", "o"}, {"int"})}
  \cup {Config(Providers, <<Map("m", <<>>, <<p>>), Map("n", <<>>, <<q>>)>>) :
          p, q \in ParamsWith({"n"}, {"string", "date"})}

-----------------------------------------------------------------------------
(* The dictionaries.                                                          *)
Variables == {"$A", "$B", "$C"}
SomeEnv   == [w \in {"$A", "$B"} |-> IF w = "$A" THEN <<"1", ",", "-1">> ELSE <<"true">>]

TextsTaken ==
  UNION {[env : [vs -> {<<"1">>, <<"$A", ",", "$C">>, <<"$C", "$C">>, <<"$A">>, <<>>}],
          text : Seqs({"1", "$A", "$B"}, 3)] : vs \in SUBSET Variables}

StringVals == {[type |-> "string", v |-> t] : t \in Seqs({"1", " ", ",", "$A", "$B", "$C"}, 2)}
TypedVals ==
  [type : {"int", "int64", "uint", "uint64", "float64"}, v : {0, 1}]
    \cup [type : {"int", "int64"}, v : {-1}]
SliceVals == {[type |-> "[]int", v |-> <<1, 2>>], [type |-> "[]uint", v |-> <<1>>],
              [type |-> "[]float64", v |-> <<1>>]}
Elements == {[type |-> "nil"]} \cup [type : {"int64"}, v : {1}] \cup [type : {"bool"}, v : {TRUE}]
              \cup [type : {"string"}, v : {<<"$B">>, <<"$C">>}]
ListVals == [type : {"list"}, v : {<<>>} \cup [1..1 -> Elements] \cup [1..2 -> Elements]]
TableVals == [type : {"map"}, v : [{"a", "b"} -> Elements]]

OptionVals == StringVals \cup TypedVals \cup {[type |-> "absent"], [type |-> "nil"]} \cup SliceVals
                \cup ListVals \cup TableVals

Options ==
  [kind : {"string"}, val : OptionVals, def : {{}, {<<"default">>}}]
    \cup [kind : {"bool"}, val : OptionVals, def : {{}, {TRUE}}]
    \cup [kind : {"int", "uint", "float"}, val : OptionVals, def : {{}, {7}}]

-----------------------------------------------------------------------------
(* The names of tiles and what the server says of its maps.                   *)
Path    == INSTANCE TileNames
Road    == Path!Word("road")
Roads   == Path!Word("roads")
Osm     == Path!Word("osm")
OsmV2   == Path!WithExt(Osm, "v2")
MapsW   == Path!Word("maps")
Tegola  == Path!Word("tegola")
Parts   == {<<Road, Roads>>}

Prefixes == {<<>>, <<Tegola>>, <<MapsW>>}

InPaths == {Osm, OsmV2, Road, Tiles!WithExt(Tiles!Number(1), "pbf")}
             \cup {Tiles!Number(k) : k \in {0, 1, 3, 4}}
AllSegments == InPaths \cup {Tiles!Nameless, Roads, MapsW, Tegola}

Paths ==
  {[prefix |-> prefix, path |-> prefix \o <<MapsW>> \o rest] :
     prefix \in Prefixes, rest \in UNION {[1..n -> InPaths] : n \in 3..5}}

TileKeys == {k \in [ok : {TRUE}, map : {Osm, Tiles!Number(1)}, layer : {Tiles!Nameless, Road, Tiles!Number(1)},
                    z : 0..1, x : 0..1, y : 0..1] : k.x < 2^k.z /\ k.y < 2^k.z}

TilesTo(n) == UNION {[z : {z}, x : 0..(2^z - 1), y : 0..(2^z - 1)] : z \in 0..n}

Templates ==
  [prefix : Prefixes, map : {Osm, MapsW, OsmV2}, layer : {Tiles!Nameless, Road, Osm, MapsW},
   tile : TilesTo(2)]

LayerSet ==
  {[name |-> n, plname |-> p, geom |-> g, min |-> z[1], max |-> z[2]] :
     n \in {Tiles!Nameless, Road, Roads}, p \in {Road, Roads}, g \in {"point", "unknown"},
     z \in {<<0, 0>>, <<0, 1>>, <<2, 2>>, <<2, 1>>}}
MapsTaken ==
  [prefix : {<<MapsW>>}, debug : BOOLEAN,
   map : [name : {Osm}, layers : Seqs(LayerSet, 2), mvt : BOOLEAN]]

Formats ==
  [format : Seqs({"/", "1", "x", "y", "z"}, 4) \cup {<<"-", "y", "z", "x", "x">>}, tile : TilesTo(1)]

FlagsTaken == [flags : [min : FlagZooms, max : FlagZooms], tile : TilesTo(2)]

-----------------------------------------------------------------------------
(* The lines and rings of a feature.                                          *)
Lines(unit) == INSTANCE LineWork WITH Unit <- unit, Nil <- None

Corners == {<<0, 0>>, <<1, 0>>}
PToXY == [p \in Corners |-> <<p[1] + 5, p[2] + 7>>]
PToLonLat == [p \in Corners \cup {<<5, 7>>, <<6, 7>>} |-> <<p[1] - 5, p[2] - 7>>]

NonEmpty(S, n) == Seqs(S, n) \ {<<>>}
PointLists == NonEmpty(Corners, 2)
Geometries ==
  [type : {"point"}, v : Corners]
    \cup [type : {"multi point", "line"}, v : Seqs(Corners, 3)]
    \cup [type : {"multi line", "polygon"}, v : Seqs(PointLists, 2)]
    \cup [type : {"multi polygon"}, v : Seqs(NonEmpty(PointLists, 2), 1)]
    \cup [type : {"collection"}, v : {<<>>}]
GeometriesTaken == [srid : {"web mercator", "WGS84", "other"}, g : Geometries]

Grid(side, n) == {<<side * x, side * y>> : x, y \in 0..n}
Halves == {<<-1, 0>>, <<0, 0>>, <<1, 0>>, <<2, 0>>, <<3, 0>>, <<0, 3>>, <<1, 3>>, <<3, 3>>}

LinesTaken ==   \* in halves, which are truncated
  [line : UNION {[1..n -> {<<0, 0>>, <<1, 3>>}] : n \in 0..4} \cup [1..5 -> Halves],
   tolerance : {<<0, 1>>, <<1, 2>>, <<1, 1>>, <<3, 2>>}]

(* Valid rings, open or with the first corner repeated, and a hole.           *)
Hole  == <<<<1, 1>>, <<2, 1>>, <<2, 2>>, <<1, 1>>>>
Rings == {ring \in UNION {[1..n -> Grid(1, 2)] : n \in 3..6} :
            ring[1] \in {<<0, 0>>, <<1, 1>>, <<1, 0>>} /\ Lines(1)!IsSimple(ring)}
RingsTaken == {<<ring, Hole>> : ring \in Rings}
                \cup {<<Append(ring, ring[1]), Hole>> : ring \in Rings}

Box == [min |-> <<12, 12>>, max |-> <<36, 36>>]
Clips ==
  {[line |-> <<p, q>> \o rest, extent |-> Box] :
     p, q \in Grid(12, 4), rest \in {<<>>} \cup {<<r>> : r \in Grid(24, 2)}}
    \cup [line : [1..3 -> Grid(12, 1)], extent : {None}]

-----------------------------------------------------------------------------
AllAlgorithms == {"statement", "postgis row", "hana row", "gpkg header", "gpkg table", "config",
                  "text", "option", "path", "keys", "template", "map", "format", "flags",
                  "line", "ring", "clip", "geometry"}

SmallInputs(name) ==
  CASE name = "statement"   -> Statements
    [] name = "postgis row" -> PgRowsTaken
    [] name = "hana row"    -> HanaRowsTaken
    [] name = "gpkg header" -> Headers
    [] name = "gpkg table"  -> Tables
    [] name = "config"      -> OfLayers \cup OfProviders \cup OfParams
    [] name = "text"        -> TextsTaken
    [] name = "option"      -> Options
    [] name = "path"        -> Paths
    [] name = "keys"        -> TileKeys \X TileKeys
    [] name = "template"    -> Templates
    [] name = "map"         -> MapsTaken
    [] name = "format"      -> Formats
    [] name = "flags"       -> FlagsTaken
    [] name = "line"        -> LinesTaken
    [] name = "ring"        -> RingsTaken
    [] name = "clip"        -> Clips
    [] name = "geometry"    -> GeometriesTaken

-----------------------------------------------------------------------------
EnvOf(env) == INSTANCE EnvDict WITH Env <- env

(* What is rewritten keeps what it says: a text its meaning with every        *)
(* variable replaced; a reprojected geometry its points and their order; a    *)
(* simplified line its ends and a polygon its outer ring; and a clipped line  *)
(* what is inside the tile and nothing else.                                   *)
RewritingKeeps ==
  taken =>
  CASE algorithm = "text" -> EnvOf(input.env)!Replaced(input.text)
    [] algorithm = "line" -> Lines(2)!LineSimplified(input.line, input.tolerance)
    [] algorithm = "ring" -> Lines(1)!PolygonSimplified(input, <<1, 2>>)
    [] algorithm = "geometry" -> Lines(1)!Reprojected(input.srid, input.g, PToXY, PToLonLat)
    [] algorithm = "clip" -> Lines(12)!LineClipped(input.line, input.extent)
    [] OTHER              -> TRUE
=============================================================================
