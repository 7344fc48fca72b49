------------------------------ MODULE SqlProvider ------------------------------
(***************************************************************************)
(* What the three database providers (provider/postgis, provider/hana,     *)
(* provider/gpkg) share: a provider is created from a configuration, layer *)
(* by layer; then it answers requests, each of which may be cancelled at   *)
(* any time; and Cleanup closes its pool of connections.                   *)
(*                                                                         *)
(* The tables are constant: Table[l] is the sequence of the kinds of rows  *)
(* the statement of layer l selects.  A query may fail, and it may be cut  *)
(* off after any row.                                                      *)
(***************************************************************************)
EXTENDS Integers, Sequences, FiniteSetsExt, SequencesExt

CONSTANTS Requests,   \* the requests for tiles
          Setups,     \* the [backend, mvt, config] a run tries
          Table       \* [layer name -> Seq(RowKinds)]

(* A good row is a feature; a null one has no geometry; the geometry of an   *)
(* unknown one is of a type that is not supported, and that of a corrupt one *)
(* cannot be decoded; a row with a bad id fails to be read.                  *)
RowKinds == {"good", "null", "unknown", "corrupt", "badid"}

ASSUME SqlProviderAssumption ==
  /\ Requests \cap {"create", "leaked", "pool"} = {}
  /\ \A l \in DOMAIN Table : Table[l] \in Seq(RowKinds)
  /\ \A s \in Setups :
       /\ s.backend \in {"postgis", "hana", "gpkg"}
       /\ s.config.layers \in Seq(Range(s.config.layers))
       /\ \A i \in DOMAIN s.config.layers : s.config.layers[i].name \in DOMAIN Table

VARIABLES
  setup,      \* which provider is created, and from what
  pc,         \* where its creation is
  li,         \* the layer it is at
  draft,      \* that layer
  layers,     \* the layers it has
  pool,       \* "none", "open", "closing" or "closed"
  conn,       \* [Conns -> the state, the owner and the types of a connection]
  req,        \* the requests
  cancelled   \* those whose context is done

shared == <<setup, pc, li, draft, layers, pool, conn, req, cancelled>>
creation == <<setup, pc, li, draft, layers>>

\* the connections the pool may open
Conns  == 1..setup.config.max
Owners == Requests \cup {"create"}
NoOwner == "pool"

\* a connection that is not established
Unborn == [st |-> "none", owner |-> NoOwner, hstore |-> FALSE]
NewRequest == [pc |-> "idle", layer |-> "", i |-> 1, row |-> 0, got |-> <<>>, res |-> "none"]

SqlInit ==
  /\ setup \in Setups
  /\ pc = "config" /\ li = 0 /\ layers = <<>>
  /\ draft = [name |-> ""]
  /\ pool = "none"
  /\ conn = [c \in Conns |-> Unborn]
  /\ req = [r \in Requests |-> NewRequest]
  /\ cancelled = {}

-----------------------------------------------------------------------------
(* Connections.                                                              *)
Having(st) == {c \in Conns : conn[c].st = st}
HeldBy(o)  == {c \in Conns : conn[c].owner = o}
Busy       == {c \in Conns : conn[c].st \notin {"none", "idle"}}

\* one connection of several that are alike
AnyOf(S) == CHOOSE c \in S : TRUE

\* the connections when owner o gives up what it holds
Returned(o) == [c \in Conns |-> IF conn[c].owner = o /\ conn[c].st = "busy"
                                THEN [conn[c] EXCEPT !.st = "idle", !.owner = NoOwner]
                                ELSE IF conn[c].owner = o
                                THEN [conn[c] EXCEPT !.owner = NoOwner]
                                ELSE conn[c]]

(* Configurations: "has" is the set of the keys that are there, "bad" those  *)
(* whose value has the wrong type.                                           *)
Optional(c, key) == key \notin c.bad
Required(c, key) == key \in c.has /\ key \notin c.bad

CurrentLayer == setup.config.layers[li]
\* the name is that of an earlier layer
Duplicate == \E j \in 1..li - 1 : setup.config.layers[j].name = CurrentLayer.name

\* the columns of the statement of a layer, a fact of the database
ColumnNames(lc) == [i \in DOMAIN lc.columns |-> lc.columns[i].name]


-----------------------------------------------------------------------------
(* Requests.  A request answers once, and then holds no connection: every    *)
(* path that has rows closes them on return.                                 *)
Finish(r, res) ==
  /\ req' = [req EXCEPT ![r].pc = "done", ![r].res = res]
  /\ conn' = Returned(r)
  /\ UNCHANGED <<creation, pool, cancelled>>

\* the rows of the layer of r
Rows(r) == Table[req[r].layer]
RowKind(r) == Rows(r)[req[r].row + 1]
MoreRows(r) == req[r].pc = "rows" /\ req[r].row < Len(Rows(r))

\* the next row is passed to the callback, or skipped
Deliver(r) ==
  /\ req' = [req EXCEPT ![r].row = @ + 1, ![r].got = Append(@, req[r].row + 1)]
  /\ UNCHANGED <<creation, pool, conn, cancelled>>
Skip(r) ==
  /\ req' = [req EXCEPT ![r].row = @ + 1]
  /\ UNCHANGED <<creation, pool, conn, cancelled>>

GoodRows(layer) == {i \in DOMAIN Table[layer] : Table[layer][i] = "good"}

\* the client goes away, or the server shuts down
Cancel(r) ==
  /\ req[r].pc # "done"
  /\ cancelled' = cancelled \cup {r}
  /\ UNCHANGED <<creation, pool, conn, req>>

FailCreation ==
  /\ pc' = "failed"
  /\ conn' = Returned("create")
  /\ UNCHANGED <<setup, li, draft, layers, req, cancelled>>

\* the layer that is built is complete
KeepLayer(l) ==
  /\ layers' = [n \in DOMAIN layers \cup {l.name} |-> IF n = l.name THEN l ELSE layers[n]]
  /\ li' = li + 1
  /\ pc' = "layers"
  /\ draft' = l
=============================================================================
