------------------------------ MODULE Algorithms ------------------------------
(***************************************************************************)
(* The pure algorithms of the program over any inputs.  An initial state   *)
(* is an algorithm, a step takes an input for it, and the invariants       *)
(* compare what it computes with a reference definition.                   *)
(***************************************************************************)
EXTENDS Integers, Sequences

CONSTANTS Offered,      \* the names of the algorithms
          Inputs(_),    \* the inputs an algorithm may be given, by its name
          Segments,     \* the segments of the paths a server may see
          None, NoFlag, MaxZ, IdSpace,
          DefaultTileBuffer, StdDrivers, MvtDrivers, ReservedTokens, TokenLike, Upper,
          Decodable, LayersOf,             \* of ConfigFile
          Vars, Env, MaxRounds,            \* of EnvDict
          PartOf                           \* of Capabilities

Sql   == INSTANCE SqlText
Pg    == INSTANCE PgRows
Hana  == INSTANCE HanaRows
Gpkg  == INSTANCE GpkgRows
Cfg   == INSTANCE ConfigFile
Dict  == INSTANCE EnvDict
Tiles == INSTANCE Capabilities
Flags == INSTANCE CacheFlags

-----------------------------------------------------------------------------
(* What an input of the program looks like.                                   *)

IsSequence(s) == Len(s) \in Nat /\ s = [i \in 1..Len(s) |-> s[i]]

\* words over names, arguments and values X: those of a parameter and of a layer
ParamWords(X) == {"text"} \X X
SqlsIn(X)     == Seq({"text", "token"} \X X)

ParamsIn(X, params) ==
  /\ DOMAIN params \subseteq X
  /\ \A t \in DOMAIN params : params[t].value \in X /\ params[t].sql \in Seq(ParamWords(X))

\* a value of a row has its Go type
Typed(c) == "go" \in DOMAIN c.val /\ "v" \in DOMAIN c.val

\* a geometry that is there holds bytes
Spatial(c, val) == c.type \in Hana!SpatialTypes => val.v # ""

(* The columns of a table of words S.  No name or type reads as a sign of the *)
(* statement, and the parentheses of a type match, with its commas in them.   *)
Signs == {"create table", "(", ")", ",", "primary key"}
Nested(type) ==
  LET depth[k \in 0..Len(type)] ==
        IF k = 0 THEN 0
        ELSE CASE type[k] = "(" -> depth[k - 1] + 1
               [] type[k] = ")" -> depth[k - 1] - 1
               [] OTHER         -> depth[k - 1]
  IN  /\ depth[Len(type)] = 0
      /\ \A k \in 1..Len(type) : depth[k] \in Nat /\ (type[k] = "," => depth[k] > 0)
ColumnsOf(S) == [name : S \ Signs, type : Seq(S \ {"primary key"}), pk : BOOLEAN]
TablesOf(S)  == Seq(ColumnsOf(S))

\* a configuration of texts, as the decoder of the file makes it
Zoom == {None} \cup Nat
Layers(Text) == [name : Text, path : Seq(Text), min : Zoom, max : Zoom]
Params(Text) == [name : Text, token : Text, type : Text, sql : Text, defaultSQL : Text,
                 defaultValue : Text]
Maps(Text)   == [name : Text, layers : Seq(Layers(Text)), params : Seq(Params(Text)), buffer : Zoom]
Configs(Text) ==
  [providers : Seq([name : Text, type : Text]), maps : Seq(Maps(Text)), headers : SUBSET Text,
   prefix : Text, buffer : Zoom]

\* the types an option is read as
Kinds == {"string", "bool", "int", "uint", "float"}

\* the keys of tiles
Keys(Segment) ==
  {k \in [ok : {TRUE}, map : Segment, layer : Segment, z : 0..MaxZ, x : Nat, y : Nat] :
     k.map # Tiles!Nameless /\ k.x <= Tiles!LastXY(k.z) /\ k.y <= Tiles!LastXY(k.z)}

\* the layers and the maps of a server
LayersIn(Segment) ==
  [name : Segment, plname : Segment, geom : STRING, min : Nat, max : Nat]
MapsIn(Segment)   == [name : Segment, layers : Seq(LayersIn(Segment)), mvt : BOOLEAN]

\* a tile of the grid
IsTile(t) ==
  /\ t \in [z : Nat, x : Nat, y : Nat]
  /\ t.z \in 0..MaxZ /\ t.x \in 0..(2^t.z - 1) /\ t.y \in 0..(2^t.z - 1)

FlagZooms == {NoFlag} \cup 0..MaxZ

Words == STRING \cup Nat
Texts == {None} \cup STRING

IsInput(name, i) ==
  CASE name = "statement"   -> ParamsIn(Words, i.params) /\ i.sqls \in Seq(SqlsIn(Words))
    [] name = "postgis row" -> IsSequence(i) /\ \A j \in DOMAIN i : Typed(i[j])
    [] name = "hana row"    -> /\ IsSequence(i.columns)
                               /\ \A j \in DOMAIN i.columns : Spatial(i.columns[j], i.vals[j])
    [] name = "gpkg header" -> i.len \in Nat /\ i.flags \in Nat
    [] name = "gpkg table"  -> i \in TablesOf(STRING) /\ \A j \in DOMAIN i : Nested(i[j].type)
    [] name = "config"      -> i \in Configs(Texts)
    [] name = "option"      -> i.kind \in Kinds
    [] name = "path"        -> i.prefix \in Seq(Segments) /\ i.path \in Seq(Segments)
    [] name = "keys"        -> i[1] \in Keys(Segments) /\ i[2] \in Keys(Segments)
    [] name = "template"    -> /\ i.prefix \in Seq(Segments) /\ i.map \in Segments
                               /\ i.layer \in Segments /\ IsTile(i.tile)
    [] name = "map"         -> /\ i.prefix \in Seq(Segments) /\ i.map \in MapsIn(Segments)
                               /\ i.debug \in BOOLEAN
    [] name = "format"      -> IsSequence(i.format) /\ IsTile(i.tile)
    [] name = "flags"       -> IsTile(i.tile) /\ i.flags \in [min : FlagZooms, max : FlagZooms]
    [] OTHER                -> TRUE

ASSUME InputsAssumption == \A a \in Offered : \A i \in Inputs(a) : IsInput(a, i)

\* a zoom that is not set is no zoom, and tegola.MaxZ is one
Zooms == MaxZ \in Nat \ {0} /\ None \notin Nat
ASSUME ZoomAssumption == Zooms

ASSUME RoundsAssumption == MaxRounds \in Nat

\* a type of provider registers as one kind, once (provider.Register, MVTRegister)
OneKind == StdDrivers \cap MvtDrivers = {}
ASSUME DriversAssumption == OneKind

\* the names of a server do not look like a placeholder of a template
Placeholders == {Tiles!Word("{z}"), Tiles!Word("{x}"), Tiles!WithExt(Tiles!Word("{y}"), "pbf")}
ASSUME SegmentsAssumption == Segments \cap Placeholders = {}

\* the arithmetic of powers and what a string is, of which the provers know nothing
PowersUpTo(n) ==
  /\ 2^0 = 1
  /\ \A a \in 0..n : /\ 2^a \in Nat \ {0}
                     /\ \A b \in 0..a : 2^a = 2^b * 2^(a - b)
ASSUME PowersAssumption == PowersUpTo(MaxZ) /\ PowersUpTo(3)
ASSUME StringsAssumption == {"BBOX", "ZOOM", "P", "Q"} \subseteq STRING

-----------------------------------------------------------------------------
VARIABLES algorithm,   \* the algorithm
          taken,       \* whether an input was taken
          input        \* and the input, 0 before

vars == <<algorithm, taken, input>>

Init == algorithm \in Offered /\ taken = FALSE /\ input = 0

Next == /\ ~taken /\ taken' = TRUE
        /\ input' \in Inputs(algorithm)
        /\ UNCHANGED algorithm

Spec == Init /\ [][Next]_vars

-----------------------------------------------------------------------------
(* The SQL providers compute with the parameters where a layer names them and *)
(* lose nothing of a row; the header of a geometry lies within its bytes, and *)
(* the statement of a table says its columns.                                  *)
StatementsAndRows ==
  taken =>
  CASE algorithm = "statement"   -> Sql!StatementBound(input.params, input.sqls)
    [] algorithm = "postgis row" -> Pg!RowRead("geom", "id", input)
    [] algorithm = "hana row"    -> Hana!HanaRowRead("geom", "id", input.columns, input.vals)
    [] algorithm = "gpkg header" -> Gpkg!HeaderFits(input.len, input.magic, input.flags)
    [] algorithm = "gpkg table"  -> Gpkg!ColumnsFound(input)
    [] OTHER                     -> TRUE

(* What config.Validate accepts the registration accepts, without layers or   *)
(* tokens that collide.                                                        *)
ConfigSound == taken /\ algorithm = "config" => Cfg!ConfigSound(input)

(* An option that is there is never taken for a missing one, and its value    *)
(* does not depend on how it is read (env.Dict, dict.Dict).                    *)
OptionsSound ==
  taken /\ algorithm = "option" => Dict!OptionsSound(input.kind, input.val, input.def)

(* A tile has one name in its URL, its cache key, its template and the lines  *)
(* of a tile list.                                                             *)
NamesAgree ==
  taken =>
  CASE algorithm = "path" -> Tiles!SameTile(input.prefix, input.path)
    [] algorithm = "keys" -> Tiles!KeyKept(input[1]) /\ Tiles!KeysApart(input[1], input[2])
    [] algorithm = "template" ->
         /\ Tiles!TemplateKept(input.prefix, input.map, input.layer)
         /\ Tiles!TemplateServed(input.prefix, input.map, input.layer,
                                 input.tile.z, input.tile.x, input.tile.y)
    [] algorithm = "format" -> Flags!LinesRead(input.format, input.tile)
    [] algorithm = "flags"  -> Flags!FamilyCovered(input.tile, input.flags)
    [] OTHER -> TRUE

(* The capabilities advertise the layers and zooms the tile handler draws.    *)
Advertised ==
  taken /\ algorithm = "map" =>
    Tiles!Advertised(input.prefix, input.map, input.debug)
=============================================================================
