------------------------------ MODULE MCProviders ------------------------------
(* Small instances of Providers.                                             *)
EXTENDS Providers

\* the rows of the layers
Tables == [roads |-> <<"good", "null", "good">>, lakes |-> <<"unknown", "corrupt">>,
              parks |-> <<"good", "null">>]

Cols == <<[name |-> "id", type |-> "INTEGER"], [name |-> "geom", type |-> "STGEOMETRY"]>>

Layer(name, fields) ==
  [name |-> name, has |-> {"name", "tablename"}, bad |-> {}, fields |-> fields,
   geom |-> "geom", id |-> "id", table |-> name, sql |-> <<>>, select |-> FALSE,
   geomType |-> "", srid |-> 3857, columns |-> Cols]

\* a layer with an SQL of its own
Custom(name, sql) ==
  [Layer(name, <<>>) EXCEPT !.sql = sql, !.select = TRUE, !.has = {"name", "sql"}]

Select == <<Text("*"), Token("bbox")>>

PgUri   == [parses |-> TRUE, scheme |-> "postgres", user |-> TRUE, port |-> TRUE,
            host |-> "h", path |-> "db", sslmode |-> ""]
HanaUri == [parses |-> TRUE, scheme |-> "hdb", params |-> {}, badParams |-> {}]

PgConfig(ls) ==
  [has |-> {"name", "uri"}, bad |-> {}, uri |-> PgUri, sslmode |-> "prefer", cert |-> "",
   key |-> "", rootCert |-> "", reserved |-> {}, max |-> 2, layers |-> ls]
HanaConfig(ls, max) ==
  [has |-> {"name", "uri"}, bad |-> {}, uri |-> HanaUri, version |-> 4, max |-> max,
   layers |-> ls]
GpkgConfig(ls) ==
  [has |-> {"filepath"}, bad |-> {}, file |-> "there", max |-> 1, layers |-> ls,
   tables |-> [t \in {"roads", "lakes"} |-> [type |-> "POINT", geom |-> "geom", srid |-> 4326]]]

Setup(backend, mvt, config) == [backend |-> backend, mvt |-> mvt, config |-> config]

\* configurations that are accepted
Roads  == Layer("roads", <<"id">>)
Lakes  == [Layer("lakes", <<>>) EXCEPT !.geomType = "polygon"]
Usable ==
  {Setup("postgis", FALSE, PgConfig(<<Roads, Lakes>>)),
   Setup("postgis", FALSE, PgConfig(<<[Roads EXCEPT !.geomType = "polygon"]>>)),
   Setup("postgis", TRUE, PgConfig(<<Custom("roads", Select), Lakes>>)),
   Setup("hana", FALSE, HanaConfig(<<Roads, [Lakes EXCEPT !.srid = 4326]>>, 5)),
   Setup("hana", TRUE, HanaConfig(<<[Roads EXCEPT !.srid = -1], Lakes>>, 6)),
   Setup("gpkg", FALSE, GpkgConfig(<<Roads, Custom("parks", Select)>>))}

\* and some that are not, or not in full
Refused ==
  {Setup("postgis", FALSE, PgConfig(<<Roads, Roads>>)),
   Setup("postgis", FALSE, PgConfig(<<Custom("roads", <<Text("*"), Token("BBOX"), Token("zoom")>>)>>)),
   Setup("postgis", FALSE, PgConfig(<<[Roads EXCEPT !.geomType = "curve"]>>)),
   Setup("postgis", FALSE, [PgConfig(<<>>) EXCEPT !.uri.sslmode = "always"]),
   Setup("hana", TRUE, [HanaConfig(<<Roads>>, 1) EXCEPT !.version = 2]),
   Setup("hana", FALSE, [HanaConfig(<<Roads>>, 2) EXCEPT !.uri.params = {"compress"}]),
   Setup("hana", FALSE, HanaConfig(<<[Lakes EXCEPT !.geom = "shape"]>>, 2)),
   Setup("hana", TRUE, HanaConfig(<<[Lakes EXCEPT !.bad = {"buffer"}]>>, 2)),
   Setup("gpkg", FALSE, GpkgConfig(<<[Roads EXCEPT !.bad = {"tablename"}]>>)),
   Setup("gpkg", FALSE, [GpkgConfig(<<Roads>>) EXCEPT !.file = "gone"])}

AllSetups == Usable \cup Refused

\* an mvt provider with a connection too few for two tiles of two layers
Starved ==
  {Setup("hana", TRUE, HanaConfig(<<Roads, [Roads EXCEPT !.name = "lakes"]>>, 4))}
=============================================================================
