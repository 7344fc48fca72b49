--------------------------------- MODULE Hana ---------------------------------
(***************************************************************************)
(* The SAP HANA provider (provider/hana): CreateProvider, TileFeatures,    *)
(* MVTForLayers and Cleanup.  Its pool is database/sql, which is external: *)
(* rows hold their connection until they are closed, a query waits while   *)
(* all connections are held, and Close does not wait for those.            *)
(***************************************************************************)
EXTENDS SqlProvider, SqlText, HanaRows

Hana == setup.backend = "hana"

\* the rows that are never closed hold their connection for good
Leaked == "leaked"

\* a connection a query would get now
Free     == Having("none") \cup Having("idle")
Taken(o) == [conn EXCEPT ![AnyOf(Free)].st = "busy", ![AnyOf(Free)].owner = o]

-----------------------------------------------------------------------------
(* The configuration.                                                        *)
KnownParams == {"max_connections", "max_connection_idle_time", "max_connection_life_time",
                "timeout", "tls_insecure", "tls_root", "tls_server"}

\* OpenDB does not connect
HanaOpened(u) ==
  /\ u.parses /\ u.scheme = "hdb"
  /\ u.params \subseteq KnownParams
  /\ u.badParams \cap {"max_connections", "max_connection_idle_time",
                       "max_connection_life_time"} = {}

(* CreateConnection pings the database and the version is asked for; the     *)
(* pool is left open when either fails, or when a later field is wrong.      *)
HanaReadConfig ==
  /\ Hana /\ pc = "config"
  /\ LET c == setup.config
     IN  IF ~(Required(c, "uri") /\ HanaOpened(c.uri))
         THEN FailCreation /\ UNCHANGED pool
         ELSE /\ pool' = "open"
              /\ \/ FailCreation
                 \/ /\ setup.mvt => c.version >= 4
                    /\ Optional(c, "srid") /\ Required(c, "name") /\ Optional(c, "layers")
                    /\ pc' = "layers" /\ li' = 1
                    /\ UNCHANGED <<setup, draft, layers, conn, req, cancelled>>

HanaLayerAccepted(lc) ==
  /\ Required(lc, "name") /\ ~Duplicate
  /\ \A key \in {"fields", "geometry_fieldname", "id_fieldname", "geometry_type",
                 "tablename", "sql", "srid"} : Optional(lc, key)
  /\ lc.id # lc.geom

\* sanitizeSQL
Sanitized(sql) ==
  [i \in DOMAIN sql |-> IF sql[i] \in {Token("BOX"), Token("bbox")} THEN Token("BBOX") ELSE sql[i]]

\* unlike PostGIS, a token that nothing replaces is accepted
HanaCustomAccepted(lc) ==
  LET sql == Sanitized(lc.sql)
  IN  /\ Contains(sql, Token("BBOX"))
      /\ \/ Contains(sql, Text("*"))
         \/ /\ Contains(sql, Text(lc.geom))
            /\ lc.id = "" \/ Contains(sql, Text(lc.id))

HanaNewLayer(lc) ==
  [name |-> lc.name, id |-> lc.id, geom |-> lc.geom, srid |-> lc.srid, columns |-> lc.columns,
   sql |-> <<>>, fields |-> <<>>, geomType |-> "nil"]

HanaReadLayer ==
  /\ Hana /\ pc = "layers" /\ li <= Len(setup.config.layers)
  /\ IF ~HanaLayerAccepted(CurrentLayer)
     THEN FailCreation
     ELSE /\ draft' = HanaNewLayer(CurrentLayer)
          /\ pc' = "srs"
          /\ UNCHANGED <<setup, li, layers, conn, req, cancelled>>
  /\ UNCHANGED pool

\* the SRID of the planar system that stands for a round-earth one
PlanarOffset == 1000000000
Planar(srid) == srid >= PlanarOffset
ToPlanar(srid) == PlanarOffset + srid
FromPlanar(srid) == IF Planar(srid) THEN srid - PlanarOffset ELSE srid
HanaSridSupported(l) == FromPlanar(l.srid) \in {3857, 4326}

\* getGeometryColumnSRID, for a layer without an SRID: it takes that of a row
DetectedSrids(lc) ==
  IF lc.srid >= 0 THEN {lc.srid} ELSE IF Table[lc.name] = <<>> THEN {} ELSE {4326, 3857}

\* isSrsRoundEarth: a query that fails means no, but 4326 is not asked for
RoundEarthAnswers(srid) == IF srid = 4326 THEN {TRUE} ELSE BOOLEAN

(* The reference system: that of a row when none is configured, and its      *)
(* planar equivalent when it is a round-earth one.  Each query needs a       *)
(* connection for a moment.                                                  *)
HanaReadSrs ==
  /\ Hana /\ pc = "srs" /\ Free # {}
  /\ \/ FailCreation
     \/ \E srid \in DetectedSrids(draft) : \E round \in RoundEarthAnswers(srid) :
          /\ draft' = [draft EXCEPT !.srid = IF round THEN ToPlanar(srid) ELSE srid]
          /\ pc' = "sql"
          /\ UNCHANGED <<setup, li, layers, conn, req, cancelled>>
  /\ UNCHANGED pool

\* genSQL: unlike PostGIS, an id among the fields is not appended again
HanaGenSQL(l, names, table) ==
  LET geometry  == <<"binary", l.geom>>
      IsLast(i) == names[i] = l.geom /\ \A j \in i + 1..Len(names) : names[j] # l.geom
      named == [i \in DOMAIN names |-> IF IsLast(i) THEN geometry ELSE Text(names[i])]
  IN  named \o (IF Contains(names, l.geom) THEN <<>> ELSE <<geometry>>)
            \o (IF l.id = "" \/ Contains(names, l.id) THEN <<>> ELSE <<Text(l.id)>>)
            \o <<<<"from", table>>, Token("BBOX")>>

HanaReadSql ==
  /\ Hana /\ pc = "sql"
  /\ LET lc == CurrentLayer
         table == IF lc.sql # <<>> THEN "subquery" ELSE lc.table
     IN  IF lc.select /\ ~HanaCustomAccepted(lc) THEN FailCreation
         ELSE /\ draft' = [draft EXCEPT !.sql =
                            IF lc.select THEN Sanitized(lc.sql)
                            ELSE IF lc.fields # <<>> THEN HanaGenSQL(draft, lc.fields, table)
                            ELSE <<<<"from", table>>>>]
              /\ pc' = IF ~lc.select /\ lc.fields = <<>> THEN "names" ELSE "columns"
              /\ UNCHANGED <<setup, li, layers, conn, req, cancelled>>
  /\ UNCHANGED pool

\* getLayerFields: the descriptions of the columns, empty when they are refused
HanaLayerFields == FieldDescriptions(draft.geom, draft.id, draft.columns, TRUE)

(* The statement is run for its columns.  Its rows are neither read nor      *)
(* closed, so that their connection stays taken.                             *)
HanaRunForColumns ==
  /\ Free # {}
  /\ conn' = Taken(Leaked)
  /\ UNCHANGED <<setup, li, layers, pool, req, cancelled>>

HanaColumnsFail ==
  /\ Hana /\ pc \in {"names", "columns"}
  /\ \/ Free # {} /\ FailCreation /\ UNCHANGED pool
     \/ HanaRunForColumns /\ HanaLayerFields = {} /\ pc' = "failed" /\ UNCHANGED draft

\* getTableFieldNames, for a table without fields
HanaReadNames ==
  /\ Hana /\ pc = "names"
  /\ HanaRunForColumns
  /\ \E d \in HanaLayerFields :
       IF d = <<>> THEN pc' = "failed" /\ UNCHANGED draft
       ELSE /\ draft' = [draft EXCEPT !.sql =
                           HanaGenSQL(draft, ColumnNames(draft), CurrentLayer.table)]
            /\ pc' = "columns"

HanaReadColumns ==
  /\ Hana /\ pc = "columns"
  /\ HanaRunForColumns
  /\ \E d \in HanaLayerFields : draft' = [draft EXCEPT !.fields = d] /\ pc' = "type"

\* genMVTSQL
HanaMVTSQL(l) ==
  LET tags == SelectSeq([i \in DOMAIN l.fields |-> l.fields[i].name], LAMBDA n : n # l.geom)
  IN  <<<<"asmvt", l.name, l.geom, IF tags = <<>> THEN "" ELSE l.id>>>>
        \o [i \in DOMAIN tags |-> Text(tags[i])] \o l.sql

\* an mvt layer has two fields more
MVTFieldsAccepted(lc) ==
  setup.mvt => Optional(lc, "buffer") /\ Optional(lc, "clip_geometry")

HanaKeepLayer(l) ==
  IF ~MVTFieldsAccepted(CurrentLayer) THEN FailCreation
  ELSE /\ KeepLayer(IF setup.mvt THEN [l EXCEPT !.sql = HanaMVTSQL(l)] ELSE l)
       /\ conn' = Returned("create")
       /\ UNCHANGED <<setup, req, cancelled>>

HanaGeomTypes == {"point", "linestring", "polygon", "multipoint", "multilinestring",
                  "multipolygon", "geometrycollection"}

\* setLayerGeomType for a configured type
HanaSetType ==
  /\ Hana /\ pc = "type"
  /\ LET type == CurrentLayer.geomType
     IN  IF type = "" THEN /\ pc' = "inspect"
                           /\ UNCHANGED <<setup, li, draft, layers, conn, req, cancelled>>
         ELSE IF type \in HanaGeomTypes THEN HanaKeepLayer([draft EXCEPT !.geomType = type])
         ELSE FailCreation
  /\ UNCHANGED pool

(* inspectLayerGeomType: the type of the first row with a geometry, whatever *)
(* the type of its column.                                                   *)
HanaInspect ==
  /\ Hana /\ pc = "inspect" /\ Free # {}
  /\ \/ FailCreation
     \/ /\ HanaSridSupported(draft)
        /\ FieldDescriptions(draft.geom, draft.id, draft.columns, FALSE) # {}
        /\ HanaKeepLayer(IF Table[draft.name] = <<>> THEN draft
                         ELSE [draft EXCEPT !.geomType = "polygon"])
  /\ UNCHANGED pool

HanaCreated ==
  /\ Hana /\ pc = "layers" /\ li > Len(setup.config.layers)
  /\ pc' = "ready"
  /\ UNCHANGED <<setup, li, draft, layers, pool, conn, req, cancelled>>

HanaCreate ==
  \/ HanaReadConfig \/ HanaReadLayer \/ HanaReadSrs \/ HanaReadSql \/ HanaReadNames
  \/ HanaReadColumns \/ HanaColumnsFail \/ HanaSetType \/ HanaInspect \/ HanaCreated

-----------------------------------------------------------------------------
(* Tiles.                                                                    *)
HanaLayer(name) ==
  (IF name = "" THEN {setup.config.layers[1].name} ELSE {name}) \cap DOMAIN layers

HanaStop(r) == Hana /\ Finish(r, "err")

HanaTileFeatures(r) ==
  /\ Hana /\ ~setup.mvt /\ pc = "ready" /\ req[r].pc = "idle"
  /\ \E name \in DOMAIN layers \cup {"", "nolayer"} :
       IF \A n \in HanaLayer(name) : ~HanaSridSupported(layers[n])
       THEN Finish(r, "err")
       ELSE /\ req' = [req EXCEPT ![r].pc = "query",
                                  ![r].layer = CHOOSE n \in HanaLayer(name) : TRUE]
            /\ UNCHANGED <<creation, pool, conn, cancelled>>

(* A query waits for a connection; it ends without one when the context is   *)
(* done or the pool is closed.                                               *)
HanaQueryRefused(r) ==
  /\ req[r].pc = "query"
  /\ r \in cancelled \/ pool = "closed"
  /\ HanaStop(r)

HanaQuery(r) ==
  /\ Hana /\ req[r].pc = "query" /\ pool = "open" /\ Free # {}
  /\ \/ HanaStop(r)
     \/ /\ r \notin cancelled
        /\ conn' = Taken(r)
        /\ req' = [req EXCEPT ![r].pc = IF setup.mvt THEN "scan" ELSE "rows"]
        /\ UNCHANGED <<creation, pool, cancelled>>

\* one turn of the loop over the rows
HanaRow(r) ==
  /\ Hana /\ MoreRows(r)
  /\ IF r \in cancelled THEN HanaStop(r)
     ELSE CASE RowKind(r) = "good" -> Deliver(r) \/ HanaStop(r)
            [] RowKind(r) \in {"null", "unknown"} -> Skip(r)
            [] OTHER -> HanaStop(r)

HanaRowsEnd(r) ==
  /\ Hana /\ req[r].pc = "rows"
  /\ \/ ~MoreRows(r) /\ Finish(r, "ok")
     \/ Finish(r, "err")

\* MVTForLayers: a statement for each layer
HanaMVTForLayers(r) ==
  /\ Hana /\ setup.mvt /\ pc = "ready" /\ req[r].pc = "idle"
  /\ IF r \in cancelled \/ \E n \in DOMAIN layers : ~HanaSridSupported(layers[n])
     THEN Finish(r, "err")
     ELSE IF layers = <<>> THEN Finish(r, "ok")
     ELSE /\ req' = [req EXCEPT ![r].pc = "query"]
          /\ UNCHANGED <<creation, pool, conn, cancelled>>

(* The one row of a layer's statement is read.  Its connection is given back *)
(* by a deferred Close, when the tile is complete.                           *)
HanaMVTScan(r) ==
  /\ Hana /\ req[r].pc = "scan"
  /\ \/ HanaStop(r)
     \/ LET last == req[r].i = Len(setup.config.layers)
        IN  /\ r \notin cancelled
            /\ req' = [req EXCEPT ![r].got = Append(@, req[r].i), ![r].i = @ + 1,
                                  ![r].pc = IF last THEN "done" ELSE "query",
                                  ![r].res = IF last THEN "ok" ELSE "none"]
            /\ conn' = IF last THEN Returned(r) ELSE conn
            /\ UNCHANGED <<creation, pool, cancelled>>

HanaCancel(r) == Hana /\ Cancel(r)

\* Close closes the connections nobody holds, and the others when they come back
HanaCleanup ==
  /\ Hana /\ pc = "ready" /\ pool = "open"
  /\ pool' = "closed"
  /\ UNCHANGED <<creation, conn, req, cancelled>>

HanaRequest(r) ==
  HanaQueryRefused(r) \/ HanaQuery(r) \/ HanaRow(r) \/ HanaRowsEnd(r) \/ HanaMVTScan(r)

HanaNext ==
  \/ HanaCreate \/ HanaCleanup
  \/ \E r \in Requests :
       HanaTileFeatures(r) \/ HanaMVTForLayers(r) \/ HanaRequest(r) \/ HanaCancel(r)
=============================================================================
