-------------------------------- MODULE PostGIS --------------------------------
(***************************************************************************)
(* The PostGIS provider (provider/postgis): CreateProvider, the connections*)
(* of its pool and the hstore type they are taught, TileFeatures,          *)
(* MVTForLayers and Cleanup.  The pool is pgxpool, which is external: it   *)
(* opens a connection when none is idle, runs AfterConnect on it, and its  *)
(* Close waits until every connection has been returned.                   *)
(***************************************************************************)
EXTENDS SqlProvider, SqlText

VARIABLE hstore   \* what AfterConnect shares between connections; installed is a fact

pgvars == <<shared, hstore>>

PgInit ==
  \E installed \in BOOLEAN :
    hstore = [installed |-> installed, oid |-> FALSE, hasInit |-> FALSE, err |-> "nil"]

Pg == setup.backend = "postgis"

-----------------------------------------------------------------------------
(* The configuration.                                                        *)
UriAccepted(u) ==
  /\ u.parses /\ u.scheme \in {"postgres", "postgresql"}
  /\ u.user /\ u.port /\ u.host # "" /\ u.path # ""

\* BuildURI: the sslmode of the query wins over that of the configuration
SslMode(c) == IF c.uri.sslmode # "" THEN c.uri.sslmode ELSE c.sslmode

UriBuilt(c) ==
  /\ Optional(c, "ssl_mode") /\ Required(c, "uri")
  /\ UriAccepted(c.uri)

TlsConfigured(c) ==
  \/ SslMode(c) = "disable"
  \/ /\ SslMode(c) \in {"allow", "prefer", "require", "verify-ca", "verify-full"}
     /\ c.rootCert \in {"", "readable"}
     /\ (c.cert = "") = (c.key = "")
     /\ c.cert \in {"", "readable"}

PgConfigAccepted(c) ==
  /\ UriBuilt(c)
  /\ \A key \in {"ssl_key", "ssl_cert", "ssl_root_cert", "application_name",
                 "default_transaction_read_only", "srid"} : Optional(c, key)
  /\ Required(c, "name")
  /\ TlsConfigured(c)

PgReadConfig ==
  /\ Pg /\ pc = "config"
  /\ IF ~PgConfigAccepted(setup.config)
     THEN FailCreation /\ UNCHANGED pool
     ELSE /\ pool' = "open"
          /\ IF Optional(setup.config, "layers")
             THEN /\ pc' = "layers" /\ li' = 1
                  /\ UNCHANGED <<setup, draft, layers, conn, req, cancelled>>
             ELSE FailCreation
  /\ UNCHANGED hstore

\* what is checked of a layer before its SQL is looked at
PgLayerAccepted(lc) ==
  /\ Required(lc, "name") /\ ~Duplicate
  /\ \A key \in {"fields", "geometry_fieldname", "id_fieldname", "geometry_type",
                 "tablename", "sql", "srid"} : Optional(lc, key)
  /\ lc.id # lc.geom

\* !BOX! and !bbox! are other names of !BBOX!
Compatible(sql) ==
  [i \in DOMAIN sql |-> IF sql[i] \in {Token("BOX"), Token("bbox")} THEN Token("BBOX") ELSE sql[i]]

\* a token of the configuration: config.ReservedTokens, in upper case
Reserved(t) == t \in Builtin \cup setup.config.reserved

PgCustomAccepted(lc) ==
  LET sql == Compatible(lc.sql)
  IN  /\ Contains(sql, Token("BBOX"))
      /\ \/ Contains(sql, Text("*"))
         \/ /\ Contains(sql, Text(lc.geom))
            /\ lc.id = "" \/ Contains(sql, Text(lc.id))
      /\ \A i \in DOMAIN sql : IsToken(sql[i]) => Reserved(sql[i][2])

SridSupported(l) == l.srid \in {3857, 4326}

\* genSQL: the geometry of the last field of that name is converted to WKB, and
\* the id is appended whether it is a field already or not
PgGenSQL(l, fields, table, mvt) ==
  LET geometry  == <<IF mvt THEN "column" ELSE "binary", l.geom>>
      IsLast(i) == fields[i] = l.geom /\ \A j \in i + 1..Len(fields) : fields[j] # l.geom
      named     == [i \in DOMAIN fields |-> IF IsLast(i) THEN geometry ELSE Text(fields[i])]
      all       == IF Contains(fields, l.geom) THEN named ELSE Append(named, geometry)
  IN  all \o (IF l.id # "" THEN <<Text(l.id)>> ELSE <<>>)
          \o <<<<"from", table>>>> \o (IF mvt THEN <<>> ELSE <<Token("BBOX")>>)

\* an SQL that is not a SELECT is a sub-query, used like a table
PgTable(lc) == IF lc.sql # <<>> THEN "subquery" ELSE lc.table

PgNewLayer(lc) ==
  [name |-> lc.name, id |-> lc.id, geom |-> lc.geom, srid |-> lc.srid, columns |-> ColumnNames(lc),
   sql |-> <<>>, geomType |-> "nil"]

PgReadLayer ==
  /\ Pg /\ pc = "layers" /\ li <= Len(setup.config.layers)
  /\ LET lc == CurrentLayer
         l  == PgNewLayer(lc)
     IN  IF \/ ~PgLayerAccepted(lc)
            \/ lc.select /\ ~PgCustomAccepted(lc)
            \/ ~lc.select /\ lc.fields = <<>> /\ ~SridSupported(l)
         THEN FailCreation
         ELSE /\ draft' = [l EXCEPT !.sql =
                            IF lc.select THEN Compatible(lc.sql)
                            ELSE IF lc.fields # <<>>
                            THEN PgGenSQL(l, lc.fields, PgTable(lc), setup.mvt) ELSE <<>>]
              /\ pc' = IF ~lc.select /\ lc.fields = <<>> THEN "fields" ELSE "type"
              /\ UNCHANGED <<setup, li, layers, conn, req, cancelled>>
  /\ UNCHANGED <<pool, hstore>>

\* genSQL asks the database for the fields of the table
PgReadFields ==
  /\ Pg /\ pc = "fields" /\ \E c \in HeldBy("create") : conn[c].st = "busy"
  /\ \/ FailCreation
     \/ /\ draft' = [draft EXCEPT !.sql =
                       PgGenSQL(draft, draft.columns, PgTable(CurrentLayer), setup.mvt)]
        /\ pc' = "type"
        /\ conn' = Returned("create")
        /\ draft.columns # <<>>
        /\ UNCHANGED <<setup, li, layers, req, cancelled>>
  /\ UNCHANGED <<pool, hstore>>

GeomTypes == {"point", "linestring", "polygon", "multipoint", "multilinestring",
              "multipolygon", "geometrycollection"}

\* setLayerGeomType for a configured type
PgSetType ==
  /\ Pg /\ pc = "type"
  /\ LET type == CurrentLayer.geomType
     IN  IF type = "" THEN /\ pc' = "inspect"
                           /\ UNCHANGED <<setup, li, draft, layers, conn, req, cancelled>>
         ELSE IF type \notin GeomTypes THEN FailCreation
         ELSE /\ KeepLayer([draft EXCEPT !.geomType = type])
              /\ UNCHANGED <<setup, conn, req, cancelled>>
  /\ UNCHANGED <<pool, hstore>>

(* inspectLayerGeomType runs the statement for one row.  It may find none,   *)
(* which leaves the type open, or a type that is not supported.              *)
PgInspect ==
  /\ Pg /\ pc = "inspect"
  /\ \/ ~SridSupported(draft) /\ FailCreation
     \/ /\ SridSupported(draft)
        /\ \E c \in HeldBy("create") : conn[c].st = "busy"
        /\ \/ FailCreation
           \/ /\ Table[draft.name] = <<>> \/ ~Contains(draft.columns, draft.geom)
              /\ KeepLayer(draft)
              /\ conn' = Returned("create")
              /\ UNCHANGED <<setup, req, cancelled>>
           \/ /\ Table[draft.name] # <<>> /\ Contains(draft.columns, draft.geom)
              /\ KeepLayer([draft EXCEPT !.geomType = "polygon"])
              /\ conn' = Returned("create")
              /\ UNCHANGED <<setup, req, cancelled>>
  /\ UNCHANGED <<pool, hstore>>

\* the provider is returned, and known to Cleanup
PgCreated ==
  /\ Pg /\ pc = "layers" /\ li > Len(setup.config.layers)
  /\ pc' = "ready"
  /\ UNCHANGED <<setup, li, draft, layers, pool, conn, req, cancelled, hstore>>

-----------------------------------------------------------------------------
(* Connections.                                                              *)
PgWants(o) ==
  /\ HeldBy(o) = {} /\ pool = "open"
  /\ IF o = "create" THEN pc = "fields" \/ (pc = "inspect" /\ SridSupported(draft))
     ELSE req[o].pc = "query"

PgAcquireIdle(o) ==
  /\ Pg /\ PgWants(o) /\ Having("idle") # {}
  /\ conn' = [conn EXCEPT ![AnyOf(Having("idle"))].st = "busy",
                          ![AnyOf(Having("idle"))].owner = o]
  /\ UNCHANGED <<creation, pool, req, cancelled, hstore>>

PgConnect(o) ==
  /\ Pg /\ PgWants(o) /\ Having("idle") = {} /\ Having("none") # {}
  /\ conn' = [conn EXCEPT ![AnyOf(Having("none"))] =
                [st |-> IF hstore.hasInit THEN "register" ELSE "lookup",
                 owner |-> o, hstore |-> FALSE]]
  /\ UNCHANGED <<creation, pool, req, cancelled, hstore>>

\* the owner of a connection is told that it cannot have one
PgAcquireFails(c) ==
  LET o == conn[c].owner
  IN  /\ conn' = [conn EXCEPT ![c] = Unborn]
      /\ pc' = IF o = "create" THEN "failed" ELSE pc
      /\ req' = IF o \in Requests THEN [req EXCEPT ![o].pc = "done", ![o].res = "err"] ELSE req
      /\ UNCHANGED <<setup, li, draft, layers, pool, cancelled>>

\* the server does not accept the connection
PgDialFails(c) ==
  /\ Pg /\ conn[c].st \in {"lookup", "register"} /\ PgAcquireFails(c)
  /\ UNCHANGED hstore

(* AfterConnect reads the OID of the hstore type into a variable that all    *)
(* connections share, and so does the error of doing so.                     *)
PgLookup(c) ==
  /\ Pg /\ conn[c].st = "lookup"
  /\ conn' = [conn EXCEPT ![c].st = "check"]
  /\ \/ hstore' = [hstore EXCEPT !.err = "failed"]
     \/ hstore.installed /\ hstore' = [hstore EXCEPT !.err = "nil", !.oid = TRUE]
     \/ ~hstore.installed /\ hstore' = [hstore EXCEPT !.err = "norows"]
  /\ UNCHANGED <<creation, pool, req, cancelled>>

\* mutant: no error keeps the lookup from being marked as done
Bug_PgCheck(c) ==
  /\ Pg /\ conn[c].st = "check"
  /\ IF hstore.err = "failed"
     THEN PgAcquireFails(c)
     ELSE /\ conn' = [conn EXCEPT ![c].st = "register"]
          /\ UNCHANGED <<creation, pool, req, cancelled>>
  /\ hstore' = [hstore EXCEPT !.hasInit = TRUE]

\* only a missing type is no error; the next connection looks again after one
PgCheck(c) ==
  /\ Pg /\ conn[c].st = "check"
  /\ IF hstore.err = "failed"
     THEN PgAcquireFails(c) /\ UNCHANGED hstore
     ELSE /\ conn' = [conn EXCEPT ![c].st = "register"]
          /\ hstore' = [hstore EXCEPT !.hasInit = TRUE]
          /\ UNCHANGED <<creation, pool, req, cancelled>>

\* the connection is taught hstore, and given to its owner or to the pool
PgRegister(c) ==
  /\ Pg /\ conn[c].st = "register"
  /\ conn' = [conn EXCEPT ![c].hstore = hstore.oid,
                          ![c].st = IF conn[c].owner = NoOwner THEN "idle" ELSE "busy"]
  /\ UNCHANGED <<creation, pool, req, cancelled, hstore>>

\* Close destroys the idle connections and waits for the others
PgCloseWaits ==
  /\ Pg /\ pool = "closing"
  /\ conn' = [c \in Conns |-> IF conn[c].st = "idle" THEN Unborn ELSE conn[c]]
  /\ pool' = IF Busy = {} THEN "closed" ELSE "closing"
  /\ Busy = {} \/ Having("idle") # {}
  /\ UNCHANGED <<creation, req, cancelled, hstore>>

\* a provider that was not created completely is not in the list of Cleanup
PgCleanup ==
  /\ Pg /\ pc = "ready" /\ pool = "open"
  /\ pool' = "closing"
  /\ UNCHANGED <<creation, conn, req, cancelled, hstore>>

-----------------------------------------------------------------------------
(* TileFeatures.                                                             *)
First == setup.config.layers[1].name

\* Layer: no name is the first layer
PgLayer(name) == IF name = "" THEN {First} \cap DOMAIN layers ELSE {name} \cap DOMAIN layers

\* mutant: the rows are not closed when the context is done
Bug_PgStop(r) ==
  /\ Pg
  /\ req' = [req EXCEPT ![r].pc = "done", ![r].res = "err"]
  /\ UNCHANGED <<creation, pool, conn, cancelled, hstore>>

\* with an error or a cancelled context nothing more is read, and the rows are
\* closed
PgStop(r) == Pg /\ Finish(r, "err") /\ UNCHANGED hstore

PgTileFeatures(r) ==
  /\ Pg /\ ~setup.mvt /\ pc = "ready" /\ req[r].pc = "idle"
  /\ \E name \in DOMAIN layers \cup {"", "nolayer"} :
       IF \/ PgLayer(name) = {}
          \/ r \in cancelled
          \/ \E n \in PgLayer(name) : ~SridSupported(layers[n])
       THEN Finish(r, "err")
       ELSE /\ req' = [req EXCEPT ![r].pc = "query",
                                  ![r].layer = CHOOSE n \in PgLayer(name) : TRUE]
            /\ UNCHANGED <<creation, pool, conn, cancelled>>
  /\ UNCHANGED hstore

\* mutant: only the context ends the wait for a connection
Bug_PgQueryRefused(r) ==
  /\ req[r].pc = "query"
  /\ \A c \in HeldBy(r) : conn[c].st # "busy"
  /\ r \in cancelled
  /\ PgStop(r)

\* a request that waits for a connection is cancelled or finds the pool closed
PgQueryRefused(r) ==
  /\ req[r].pc = "query"
  /\ \A c \in HeldBy(r) : conn[c].st # "busy"
  /\ r \in cancelled \/ (pool # "open" /\ HeldBy(r) = {})
  /\ PgStop(r)

\* the query is answered with rows, or fails
PgQuery(r) ==
  /\ Pg /\ req[r].pc = "query" /\ \E c \in HeldBy(r) : conn[c].st = "busy"
  /\ \/ PgStop(r)
     \/ /\ r \notin cancelled
        /\ req' = [req EXCEPT ![r].pc = IF setup.mvt THEN "scan" ELSE "rows"]
        /\ UNCHANGED <<creation, pool, conn, cancelled, hstore>>

PgGeomFieldFound(r) == Contains(layers[req[r].layer].columns, layers[req[r].layer].geom)

\* one turn of the loop over the rows
PgRow(r) ==
  /\ Pg /\ MoreRows(r)
  /\ IF r \in cancelled \/ ~PgGeomFieldFound(r)
     THEN PgStop(r)
     ELSE CASE RowKind(r) = "good" -> (Deliver(r) /\ UNCHANGED hstore) \/ PgStop(r)
            [] RowKind(r) \in {"null", "unknown"} -> Skip(r) /\ UNCHANGED hstore
            [] OTHER -> PgStop(r)

\* mutant: the error that ended the rows is not looked at
Bug_PgRowsEnd(r) ==
  /\ Pg /\ req[r].pc = "rows"
  /\ Finish(r, "ok")
  /\ UNCHANGED hstore

\* rows.Next returns false: the rows are read, or were cut off
PgRowsEnd(r) ==
  /\ Pg /\ req[r].pc = "rows"
  /\ \/ ~MoreRows(r) /\ Finish(r, "ok")
     \/ Finish(r, "err")
  /\ UNCHANGED hstore

(* MVTForLayers: one statement for all layers of the tile.  A layer that the *)
(* provider does not have has no SRID, which is the error of replaceTokens.  *)
PgMVTForLayers(r) ==
  /\ Pg /\ setup.mvt /\ pc = "ready" /\ req[r].pc = "idle"
  /\ \E unknown \in BOOLEAN :
       IF unknown \/ r \in cancelled \/ \E n \in DOMAIN layers : ~SridSupported(layers[n])
       THEN Finish(r, "err")
       ELSE /\ req' = [req EXCEPT ![r].pc = "query"]
            /\ UNCHANGED <<creation, pool, conn, cancelled>>
  /\ UNCHANGED hstore

PgMVTScan(r) ==
  /\ Pg /\ req[r].pc = "scan"
  /\ \/ PgStop(r)
     \/ /\ r \notin cancelled
        /\ req' = [req EXCEPT ![r].pc = "done", ![r].res = "ok",
                              ![r].got = [i \in DOMAIN setup.config.layers |-> i]]
        /\ conn' = Returned(r)
        /\ UNCHANGED <<creation, pool, cancelled, hstore>>

PgCancel(r) == Pg /\ Cancel(r) /\ UNCHANGED hstore

PgCreate == PgReadConfig \/ PgReadLayer \/ PgReadFields \/ PgSetType \/ PgInspect \/ PgCreated

PgConnection(c) == PgLookup(c) \/ PgCheck(c) \/ PgRegister(c)

PgRequest(r) ==
  \/ PgQueryRefused(r) \/ PgQuery(r) \/ PgRow(r) \/ PgRowsEnd(r) \/ PgMVTScan(r)

PgNext ==
  \/ PgCreate \/ PgCleanup \/ PgCloseWaits
  \/ \E o \in Owners : PgAcquireIdle(o) \/ PgConnect(o)
  \/ \E c \in Conns : PgDialFails(c) \/ PgConnection(c)
  \/ \E r \in Requests : PgTileFeatures(r) \/ PgMVTForLayers(r) \/ PgRequest(r) \/ PgCancel(r)

-----------------------------------------------------------------------------
(* Every connection of the pool that can be used decodes hstore when the     *)
(* database has it, however many connections are set up at the same time and *)
(* whichever of their lookups fail (AfterConnect in BuildDBConfig).          *)
HstoreEverywhere ==
  Pg => \A c \in Conns : conn[c].st \in {"idle", "busy"} => conn[c].hstore = hstore.installed
=============================================================================
