--------------------------------- MODULE Gpkg ---------------------------------
(***************************************************************************)
(* The GeoPackage provider (provider/gpkg): NewTileProvider, TileFeatures  *)
(* and Cleanup.  The file is an SQLite database; database/sql opens as many*)
(* connections as are asked for, so that none is waited for.               *)
(***************************************************************************)
EXTENDS SqlProvider, SqlText, GpkgRows

Gpkg == setup.backend = "gpkg"

DefaultID   == "fid"
DefaultGeom == "geom"

-----------------------------------------------------------------------------
(* The configuration.                                                        *)
SupportedTypes == {"POINT", "LINESTRING", "POLYGON", "MULTIPOINT", "MULTILINESTRING",
                   "MULTIPOLYGON", "GEOMETRY"}

\* featureTableMetaData: one feature table of a type it does not know spoils all
MetaDataRead(tables) == \A t \in DOMAIN tables : tables[t].type \in SupportedTypes

GpkgReadConfig ==
  /\ Gpkg /\ pc = "config"
  /\ LET c == setup.config
     IN  IF ~(Required(c, "filepath") /\ c.file = "there")
         THEN FailCreation /\ UNCHANGED pool
         ELSE /\ pool' = "open"
              /\ IF ~MetaDataRead(c.tables) \/ ~Optional(c, "layers") THEN FailCreation
                 ELSE \/ FailCreation
                      \/ /\ pc' = "layers" /\ li' = 1
                         /\ UNCHANGED <<setup, draft, layers, conn, req, cancelled>>

\* a key with a value of the wrong type: the error that is returned is nil
NilProvider(lc) ==
  \/ "tablename" \in lc.bad
  \/ "sql" \in lc.bad

GpkgLayerAccepted(lc) ==
  /\ Required(lc, "name") /\ lc.name # "" /\ ~Duplicate
  /\ ("tablename" \in lc.has) # ("sql" \in lc.has)
  /\ Optional(lc, "id_fieldname") /\ Optional(lc, "fields")
  /\ "tablename" \in lc.has => lc.table \in DOMAIN setup.config.tables

GpkgTableLayer(lc) ==
  LET d == setup.config.tables[lc.table]
  IN  [name |-> lc.name, table |-> lc.table, tags |-> lc.fields, geom |-> d.geom,
       id |-> IF "id_fieldname" \in lc.has THEN lc.id ELSE DefaultID,
       sql |-> <<>>, srid |-> d.srid, geomType |-> d.type]

\* the columns of a custom statement have the default names, whatever is configured
GpkgCustomLayer(lc, srid) ==
  [name |-> lc.name, table |-> "", tags |-> <<>>, geom |-> DefaultGeom, id |-> DefaultID,
   sql |-> lc.sql, srid |-> srid, geomType |-> "of the first row"]

(* A layer of a table is looked up in the metadata; the type of a custom     *)
(* statement is that of its first row, which it must have.                   *)
GpkgReadLayer ==
  /\ Gpkg /\ pc = "layers" /\ li <= Len(setup.config.layers)
  /\ LET lc == CurrentLayer
     IN  IF Required(lc, "name") /\ lc.name # "" /\ ~Duplicate /\ NilProvider(lc)
         THEN /\ pc' = "nil"
              /\ UNCHANGED <<setup, li, draft, layers, conn, req, cancelled>>
         ELSE IF ~GpkgLayerAccepted(lc) THEN FailCreation
         ELSE IF "tablename" \in lc.has
         THEN /\ KeepLayer(GpkgTableLayer(lc))
              /\ UNCHANGED <<setup, conn, req, cancelled>>
         ELSE \/ FailCreation
              \/ /\ Table[lc.name] # <<>> /\ Head(Table[lc.name]) \in {"good", "badid"}
                 /\ KeepLayer(GpkgCustomLayer(lc, lc.srid))
                 /\ UNCHANGED <<setup, conn, req, cancelled>>
  /\ UNCHANGED pool

GpkgCreated ==
  /\ Gpkg /\ pc = "layers" /\ li > Len(setup.config.layers)
  /\ pc' = "ready"
  /\ UNCHANGED <<setup, li, draft, layers, pool, conn, req, cancelled>>

-----------------------------------------------------------------------------
(* TileFeatures.  A layer that is not there has no SRID, which is the error  *)
(* of basic.FromWebMercator.  The query knows nothing of the context.        *)
GpkgTileFeatures(r) ==
  /\ Gpkg /\ pc = "ready" /\ req[r].pc = "idle"
  /\ \E name \in DOMAIN layers \cup {"nolayer"} :
       IF name \notin DOMAIN layers THEN Finish(r, "err")
       ELSE IF layers[name].srid \notin {3857, 4326} THEN Finish(r, "err")
       ELSE \/ Finish(r, "err")
            \/ /\ pool = "open"
               /\ req' = [req EXCEPT ![r].pc = "rows", ![r].layer = name]
               /\ UNCHANGED <<creation, pool, conn, cancelled>>

\* the statement of a table leaves out the rows without a geometry, a custom one
\* passes them on
GpkgRow(r) ==
  /\ Gpkg /\ MoreRows(r)
  /\ IF RowKind(r) = "null" /\ layers[req[r].layer].table # "" THEN Skip(r)
     ELSE IF r \in cancelled THEN Finish(r, "err")
     ELSE IF RowKind(r) \in {"good", "null"} THEN Deliver(r) \/ Finish(r, "err")
     ELSE Finish(r, "err")

(* rows.Next returns false at the end and when the rows are cut off: nobody  *)
(* asks which.                                                               *)
GpkgRowsEnd(r) ==
  /\ Gpkg /\ req[r].pc = "rows"
  /\ Finish(r, "ok")

GpkgCancel(r) == Gpkg /\ Cancel(r)

\* db.Close; the rows that are open are read to their end
GpkgCleanup ==
  /\ Gpkg /\ pc = "ready" /\ pool = "open"
  /\ pool' = "closed"
  /\ UNCHANGED <<creation, conn, req, cancelled>>

GpkgCreate == GpkgReadConfig \/ GpkgReadLayer \/ GpkgCreated
GpkgRequest(r) == GpkgRow(r) \/ GpkgRowsEnd(r)

GpkgNext ==
  \/ GpkgCreate \/ GpkgCleanup
  \/ \E r \in Requests : GpkgTileFeatures(r) \/ GpkgRequest(r) \/ GpkgCancel(r)
=============================================================================
