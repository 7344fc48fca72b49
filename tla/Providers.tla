------------------------------- MODULE Providers -------------------------------
(***************************************************************************)
(* The three database providers side by side: a behaviour creates one of   *)
(* them and uses it until Cleanup.  What they promise is the same for all: *)
(* a tile has every feature of its layer or an error, and a connection is  *)
(* held only while a tile is read, so that clean up ends.                  *)
(***************************************************************************)
EXTENDS PostGIS, Hana, Gpkg

vars == <<shared, hstore>>

Init == SqlInit /\ PgInit /\ (~Pg => ~hstore.installed)

Next ==
  \/ PgNext
  \/ HanaNext /\ UNCHANGED hstore
  \/ GpkgNext /\ UNCHANGED hstore

Spec == Init /\ [][Next]_vars

(* The database answers or fails, and goroutines go on.  Nobody has to ask   *)
(* for a tile, to cancel or to clean up.                                     *)
Fairness ==
  /\ WF_vars(PgCreate)
  /\ WF_vars(PgCloseWaits)
  /\ \A o \in Requests \cup {"create"} : WF_vars(PgAcquireIdle(o) \/ PgConnect(o))
  /\ \A c \in 1..7 : WF_vars(c \in Conns /\ PgConnection(c))
  /\ WF_vars(HanaCreate /\ UNCHANGED hstore)
  /\ WF_vars(GpkgCreate /\ UNCHANGED hstore)
  /\ \A r \in Requests : /\ WF_vars(PgRequest(r))
                         /\ WF_vars(HanaRequest(r) /\ UNCHANGED hstore)
                         /\ WF_vars(GpkgRequest(r) /\ UNCHANGED hstore)

FairSpec == Spec /\ Fairness

-----------------------------------------------------------------------------
\* the sequence has the members of the set, each once, in ascending order
InOrder(s, S) ==
  /\ Range(s) = S
  /\ \A i, j \in DOMAIN s : i < j => s[i] < s[j]

(* A tile without an error has all features of its layer, once each and in   *)
(* the order of the rows: what is cut off, cancelled or cannot be decoded is *)
(* an error (TileFeatures and MVTForLayers of PostGIS and HANA; GeoPackage   *)
(* does not look at the error that ends its rows).                           *)
FeaturesWhole ==
  \A r \in Requests :
    ~Gpkg /\ req[r].res = "ok" =>
      InOrder(req[r].got, IF setup.mvt THEN DOMAIN setup.config.layers
                          ELSE GoodRows(req[r].layer))

(* Every request is answered, whatever fails and whoever waits for a         *)
(* connection (TileFeatures, MVTForLayers).                                  *)
Answered ==
  \A r \in Requests : req[r].pc # "idle" ~> req[r].pc = "done"

(* The creation of a provider ends, and so does its clean up: every path out *)
(* of a request gives its connection back, which Close of pgxpool waits for  *)
(* (CreateProvider, Cleanup).                                                *)
CreatedAndCleaned ==
  /\ <>(pc \in {"ready", "failed", "nil"})
  /\ pool = "closing" ~> pool = "closed"
=============================================================================
