------------------------------ MODULE TileServer ------------------------------
(***************************************************************************)
(* A tile request through the server: GZipHandler, TileCacheHandler and    *)
(* HandleMapLayerZXY (server/), the lookup of the map in the atlas and the *)
(* concurrent encoding of its layers (atlas/).  Requests run at the same   *)
(* time as each other, as the reloading of map definitions                 *)
(* (Atlas.AddMap) and as purges of the cache by the purge command.  The    *)
(* cache is the atomic store of TileStore.                                 *)
(***************************************************************************)
EXTENDS Naturals, FiniteSets

CONSTANTS
  Requests,   \* the requests
  MapNames,   \* names requests ask for
  Layers,     \* layer names
  Tiles,      \* tile coordinates
  Versions,   \* versions of a map's definition, increasing numbers
  Defs,       \* Defs[v]: the definition a map has in version v
  Selects,    \* Selects[l]: the layers a request for layer l selects by name
  Queries,    \* the query strings: none, one of the map's parameters, ?debug=true
  Accepts,    \* Accept-Encoding: missing, allowing gzip, "gzip;q=0", something else
  All,        \* no layer name in the URL
  NoMap,      \* no such map
  NoBody      \* no tile

\* A definition: the layers that are drawn at each tile's zoom, the tiles inside
\* the bounds, whether the map has custom parameters, and whether one mvt
\* provider draws the layers.
Definitions == [layersAt : [Tiles -> SUBSET Layers], bounds : SUBSET Tiles,
                params : BOOLEAN, mvt : BOOLEAN]

ASSUME TileServerAssumption ==
  /\ Versions \subseteq Nat /\ 1 \in Versions
  /\ Defs \in [Versions -> Definitions]
  /\ Selects \in [Layers -> SUBSET Layers]
  /\ Queries \subseteq {"none", "param", "debug"}
  /\ Accepts \subseteq {"none", "gzip", "refused", "other"}
  /\ All \notin Layers
  /\ "debug" \notin Layers
  /\ NoMap \notin Versions

\* what the URL and the headers of a request say
Urls == [map : MapNames, layer : Layers \cup {All}, tile : Tiles,
         query : Queries, accept : Accepts]

\* the layer ?debug=true adds; no layer of a map has its name
Debug == "debug"

\* cache.Key of a request
Keys == [map : MapNames, layer : Layers \cup {All}, tile : Tiles]

VARIABLES
  atlas,   \* the version of each map in the atlas, or NoMap
  cache,   \* the tile cached for each key, or NoBody
  pc,      \* where each request is
  url,     \* what the request asks for
  copy,    \* the version of the map Atlas.Map copied for the request
  pending, \* layers whose goroutine has not finished
  drawn,   \* layers delivered so far: <<layer, version>>
  gone,    \* the request's context is cancelled
  caching, \* the response is copied for the cache (the cache missed)
  resp,    \* the response: status, Content-Encoding, Tegola-Cache, body
  since    \* history: the version of the map when the request arrived

reqVars == <<pc, url, copy, pending, drawn, gone, caching, resp, since>>
vars == <<atlas, cache, reqVars>>

NoResp == [status |-> 0, encoding |-> FALSE, hit |-> FALSE, gzipped |-> FALSE,
           body |-> NoBody]
NoUrl  == [map |-> "", layer |-> All, tile |-> "", query |-> "none", accept |-> "none"]

Init ==
  /\ atlas \in [MapNames -> {NoMap, 1}]
  /\ cache = [k \in Keys |-> NoBody]
  /\ pc = [r \in Requests |-> "idle"]
  /\ url = [r \in Requests |-> NoUrl]
  /\ copy = [r \in Requests |-> NoMap]
  /\ pending = [r \in Requests |-> {}]
  /\ drawn = [r \in Requests |-> {}]
  /\ gone = [r \in Requests |-> FALSE]
  /\ caching = [r \in Requests |-> FALSE]
  /\ resp = [r \in Requests |-> NoResp]
  /\ since = [r \in Requests |-> NoMap]

Goto(r, p) == pc' = [pc EXCEPT ![r] = p]

\* cache.ParseKey of the path
KeyOf(u) == [map |-> u.map, layer |-> u.layer, tile |-> u.tile]

Decompress(u) == u.accept \in {"none", "refused"}

-----------------------------------------------------------------------------
(* The middleware before the handler.                                         *)

\* mutant: requests with a query use the cache
Bug_Arrive(r, u) ==
  /\ pc[r] = "idle"
  /\ url' = [url EXCEPT ![r] = u]
  /\ since' = [since EXCEPT ![r] = atlas[u.map]]
  /\ resp' = [resp EXCEPT ![r].encoding = ~Decompress(u)]
  /\ Goto(r, "get")
  /\ UNCHANGED <<atlas, cache, copy, pending, drawn, gone, caching>>

\* GZipHandler sets Content-Encoding unless it decompresses; TileCacheHandler
\* leaves requests with a query alone
Arrive(r, u) ==
  /\ pc[r] = "idle"
  /\ url' = [url EXCEPT ![r] = u]
  /\ since' = [since EXCEPT ![r] = atlas[u.map]]
  /\ resp' = [resp EXCEPT ![r].encoding = ~Decompress(u)]
  /\ Goto(r, IF u.query = "none" THEN "get" ELSE "lookup")
  /\ UNCHANGED <<atlas, cache, copy, pending, drawn, gone, caching>>

\* cacher.Get finds the tile: it is written without a call of WriteHeader, so
\* the decompressing writer, which only looks at status 200, passes it through
CacheHit(r) ==
  /\ pc[r] = "get"
  /\ cache[KeyOf(url[r])] # NoBody
  /\ resp' = [resp EXCEPT ![r] = [status |-> 200, encoding |-> @.encoding, hit |-> TRUE,
                                  gzipped |-> TRUE, body |-> cache[KeyOf(url[r])]]]
  /\ Goto(r, "done")
  /\ UNCHANGED <<atlas, cache, url, copy, pending, drawn, gone, caching, since>>

CacheMiss(r) ==
  /\ pc[r] = "get"
  /\ cache[KeyOf(url[r])] = NoBody
  /\ caching' = [caching EXCEPT ![r] = TRUE]
  /\ Goto(r, "lookup")
  /\ UNCHANGED <<atlas, cache, url, copy, pending, drawn, gone, resp, since>>

\* cacher.Get failed: the handler runs without the cache
CacheError(r) ==
  /\ pc[r] = "get"
  /\ Goto(r, "lookup")
  /\ UNCHANGED <<atlas, cache, url, copy, pending, drawn, gone, caching, resp, since>>

-----------------------------------------------------------------------------
(* HandleMapLayerZXY.ServeHTTP and Map.Encode.                                *)

\* http.Error, through the gzip middleware: the text is never compressed
HttpError(r, code) ==
  /\ resp' = [resp EXCEPT ![r].status = code]
  /\ Goto(r, "after")

\* FilterLayersByZoom, then FilterLayersByName
LayersFor(v, u) ==
  LET zoomed == Defs[v].layersAt[u.tile]
  IN  IF u.layer = All THEN zoomed ELSE zoomed \cap Selects[u.layer]

\* mutant: an older definition is used
Bug_Lookup(r) ==
  /\ pc[r] = "lookup"
  /\ LET u == url[r]
         v == IF atlas[u.map] = NoMap THEN NoMap ELSE 1
     IN  IF v = NoMap \/ (v # NoMap /\ (LayersFor(v, u) = {} \/ u.tile \notin Defs[v].bounds))
           THEN HttpError(r, 404) /\ UNCHANGED <<copy, pending>>
           ELSE /\ copy' = [copy EXCEPT ![r] = v]
                /\ pending' = [pending EXCEPT ![r] = LayersFor(v, u)]
                /\ Goto(r, "encode")
                /\ UNCHANGED resp
  /\ UNCHANGED <<atlas, cache, url, drawn, gone, caching, since>>

\* Atlas.Map copies the definition under the lock.  An unknown map, no layer left
\* and a tile outside the bounds are 404, a bad parameter is 400.
Lookup(r) ==
  /\ pc[r] = "lookup"
  /\ LET u == url[r]
         v == atlas[u.map]
     IN  IF v = NoMap \/ (v # NoMap /\ (LayersFor(v, u) = {} \/ u.tile \notin Defs[v].bounds))
           THEN HttpError(r, 404) /\ UNCHANGED <<copy, pending>>
           ELSE \/ /\ copy' = [copy EXCEPT ![r] = v]
                   /\ pending' = [pending EXCEPT ![r] =
                        LayersFor(v, u) \cup (IF u.query = "debug" THEN {Debug} ELSE {})]
                   /\ Goto(r, "encode")
                   /\ UNCHANGED resp
                \/ /\ Defs[v].params /\ u.query = "param"
                   /\ HttpError(r, 400)
                   /\ UNCHANGED <<copy, pending>>
  /\ UNCHANGED <<atlas, cache, url, drawn, gone, caching, since>>

\* mutant: looks the map up again
Bug_LayerDrawn(r, l) ==
  /\ pc[r] = "encode"
  /\ l \in pending[r]
  /\ pending' = [pending EXCEPT ![r] = @ \ {l}]
  /\ drawn' = [drawn EXCEPT ![r] = @ \cup {<<l, atlas[url[r].map]>>}]
  /\ UNCHANGED <<atlas, cache, pc, url, copy, gone, caching, resp, since>>

\* the goroutine of layer l: TileFeatures returned and the layer is in its slot
LayerDrawn(r, l) ==
  /\ pc[r] = "encode"
  /\ l \in pending[r]
  /\ pending' = [pending EXCEPT ![r] = @ \ {l}]
  /\ drawn' = [drawn EXCEPT ![r] = @ \cup {<<l, copy[r]>>}]
  /\ UNCHANGED <<atlas, cache, pc, url, copy, gone, caching, resp, since>>

\* TileFeatures failed: the error is logged and the slot stays nil.  An mvt
\* provider draws all layers at once, and its error is one of Encode.
LayerFailed(r, l) ==
  /\ pc[r] = "encode"
  /\ l \in pending[r]
  /\ IF Defs[copy[r]].mvt
       THEN HttpError(r, 500) /\ UNCHANGED pending
       ELSE /\ pending' = [pending EXCEPT ![r] = @ \ {l}]
            /\ UNCHANGED <<pc, resp>>
  /\ UNCHANGED <<atlas, cache, url, copy, drawn, gone, caching, since>>

\* wg.Wait() returned, or the mvt provider did, and the context is cancelled:
\* nothing is written
EncodeCancelled(r) ==
  /\ pc[r] = "encode"
  /\ pending[r] = {} \/ Defs[copy[r]].mvt
  /\ gone[r]
  /\ Goto(r, "after")
  /\ UNCHANGED <<atlas, cache, url, copy, pending, drawn, gone, caching, resp, since>>

\* adding the layers or marshalling fails
EncodeError(r) ==
  /\ pc[r] = "encode"
  /\ pending[r] = {}
  /\ HttpError(r, 500)
  /\ UNCHANGED <<atlas, cache, url, copy, pending, drawn, gone, caching, since>>

Body(r) ==
  [key |-> KeyOf(url[r]), drawn |-> drawn[r],
   custom |-> Defs[copy[r]].params /\ url[r].query = "param"]

\* mutant: the tile is written without a call of WriteHeader
Bug_EncodeOk(r) ==
  /\ pc[r] = "encode"
  /\ pending[r] = {}
  /\ gone[r] => Defs[copy[r]].mvt
  /\ resp' = [resp EXCEPT ![r] = [status |-> 200, encoding |-> @.encoding, hit |-> FALSE,
                                  gzipped |-> TRUE, body |-> Body(r)]]
  /\ Goto(r, "after")
  /\ UNCHANGED <<atlas, cache, url, copy, pending, drawn, gone, caching, since>>

\* WriteHeader(200) and Write, through both writers
EncodeOk(r) ==
  /\ pc[r] = "encode"
  /\ pending[r] = {}
  /\ gone[r] => Defs[copy[r]].mvt
  /\ resp' = [resp EXCEPT ![r] = [status |-> 200, encoding |-> @.encoding, hit |-> FALSE,
                                  gzipped |-> ~Decompress(url[r]), body |-> Body(r)]]
  /\ Goto(r, "after")
  /\ UNCHANGED <<atlas, cache, url, copy, pending, drawn, gone, caching, since>>

-----------------------------------------------------------------------------
(* The middleware after the handler.                                          *)

\* mutant: stores the tile of a cancelled request
Bug_AfterHandler(r) ==
  /\ pc[r] = "after"
  /\ \/ /\ caching[r] /\ resp[r].body # NoBody
        /\ cache' = [cache EXCEPT ![KeyOf(url[r])] = resp[r].body]
     \/ UNCHANGED cache
  /\ Goto(r, "done")
  /\ UNCHANGED <<atlas, url, copy, pending, drawn, gone, caching, resp, since>>

\* mutant: a cancelled request never gets out of the middleware
Bug_AfterHandlerStuck(r) ==
  /\ pc[r] = "after"
  /\ ~gone[r]
  /\ Goto(r, "done")
  /\ UNCHANGED <<atlas, cache, url, copy, pending, drawn, gone, caching, resp, since>>

\* A missed tile is stored if the context is alive and the handler wrote a body
\* with status 200; the Set may fail.
AfterHandler(r) ==
  /\ pc[r] = "after"
  /\ \/ /\ caching[r] /\ ~gone[r] /\ resp[r].body # NoBody
        /\ cache' = [cache EXCEPT ![KeyOf(url[r])] = resp[r].body]
     \/ UNCHANGED cache
  /\ Goto(r, "done")
  /\ UNCHANGED <<atlas, url, copy, pending, drawn, gone, caching, resp, since>>

\* the client goes away or the server shuts down
Hangup(r) ==
  /\ pc[r] \notin {"idle", "done"}
  /\ ~gone[r]
  /\ gone' = [gone EXCEPT ![r] = TRUE]
  /\ UNCHANGED <<atlas, cache, pc, url, copy, pending, drawn, caching, resp, since>>

-----------------------------------------------------------------------------
(* The environment of the requests.                                           *)

\* Atlas.AddMap: a map is added or replaced by a newer version
AddMap(m) ==
  /\ \E v \in Versions :
        /\ atlas[m] = NoMap \/ (atlas[m] # NoMap /\ v > atlas[m])
        /\ atlas' = [atlas EXCEPT ![m] = v]
  /\ UNCHANGED <<cache, reqVars>>

\* Atlas.PurgeMapTile: only the key without a layer, never of a map with parameters
PurgeMapTile(m, t) ==
  /\ atlas[m] # NoMap
  /\ ~Defs[atlas[m]].params
  /\ cache' = [cache EXCEPT ![[map |-> m, layer |-> All, tile |-> t]] = NoBody]
  /\ UNCHANGED <<atlas, reqVars>>

RequestNext(r) ==
  \/ CacheHit(r) \/ CacheMiss(r) \/ CacheError(r)
  \/ Lookup(r)
  \/ \E l \in Layers \cup {Debug} : LayerDrawn(r, l) \/ LayerFailed(r, l)
  \/ EncodeCancelled(r) \/ EncodeError(r) \/ EncodeOk(r)
  \/ AfterHandler(r)

Next ==
  \/ \E r \in Requests :
       \/ \E u \in Urls : Arrive(r, u)
       \/ RequestNext(r)
       \/ Hangup(r)
  \/ \E m \in MapNames : AddMap(m) \/ \E t \in Tiles : PurgeMapTile(m, t)

Spec == Init /\ [][Next]_vars

\* the goroutines of a request run; providers and caches answer
Fairness == \A r \in Requests : WF_vars(RequestNext(r))
FairSpec == Spec /\ Fairness

-----------------------------------------------------------------------------
(* Properties.                                                                *)

Bodies == [key : Keys, drawn : SUBSET ((Layers \cup {Debug}) \X Versions), custom : BOOLEAN]
Optional(S) == S \cup {NoBody}

\* The types of the server's state.
TypeOK ==
  /\ atlas \in [MapNames -> Versions \cup {NoMap}]
  /\ cache \in [Keys -> Optional(Bodies)]
  /\ pc \in [Requests -> {"idle", "get", "lookup", "encode", "after", "done"}]
  /\ url \in [Requests -> Urls \cup {NoUrl}]
  /\ copy \in [Requests -> Versions \cup {NoMap}]
  /\ pending \in [Requests -> SUBSET (Layers \cup {Debug})]
  /\ drawn \in [Requests -> SUBSET ((Layers \cup {Debug}) \X Versions)]
  /\ gone \in [Requests -> BOOLEAN] /\ caching \in [Requests -> BOOLEAN]
  /\ resp \in [Requests -> [status : {0, 200, 400, 404, 500}, encoding : BOOLEAN,
                            hit : BOOLEAN, gzipped : BOOLEAN, body : Optional(Bodies)]]
  /\ since \in [Requests -> Versions \cup {NoMap}]

Cached(k) == cache[k] # NoBody

\* The cache never holds a tile of another key, a tile drawn with query
\* parameters or the debug layer: a request without a query gets what its own URL
\* stands for, whoever filled the cache (the bypass of TileCacheHandler, ParseKey).
CacheKeyed ==
  \A k \in Keys : Cached(k) =>
    /\ cache[k].key = k
    /\ ~cache[k].custom
    /\ Debug \notin {d[1] : d \in cache[k].drawn}

\* Every layer of a tile comes from one definition of its map, and from layers
\* the URL selects in it, even when the map is replaced while the tile is drawn
\* (the copy Atlas.Map makes).
OneVersion(b) ==
  \E v \in Versions :
    b.drawn \subseteq ((Defs[v].layersAt[b.key.tile] \cap
        (IF b.key.layer = All THEN Layers ELSE Selects[b.key.layer])) \cup {Debug}) \X {v}

TilesConsistent ==
  /\ \A k \in Keys : Cached(k) => OneVersion(cache[k])
  /\ \A r \in Requests : resp[r].body # NoBody => OneVersion(resp[r].body)

\* A tile that was not served from the cache is at least as new as the map was
\* when the request arrived.
FreshUnlessHit ==
  \A r \in Requests :
    resp[r].body # NoBody /\ ~resp[r].hit =>
      \A d \in resp[r].body.drawn : since[r] # NoMap => d[2] >= since[r]

\* A cancelled request leaves nothing in the cache: only a tile that was encoded
\* for a live request, of a map that is registered, is stored.
CacheOnlyGood ==
  [][\A k \in Keys : Cached(k)' /\ cache'[k] # cache[k] =>
       /\ atlas[k.map] # NoMap
       /\ \E r \in Requests : /\ ~gone[r] /\ resp[r].status = 200 /\ resp[r].body = cache'[k]
                              /\ url[r].query = "none"]_vars

\* A tile the server encoded for a client that does not take gzip is decompressed
\* when it was not served from the cache.
EncodedAsAccepted ==
  \A r \in Requests :
    resp[r].status = 200 /\ ~resp[r].hit => resp[r].gzipped = resp[r].encoding

\* "If no Accept-Encoding header is present ... the response is decompressed
\* prior to being sent to the client", cached or not.
DecompressedIfRefused ==
  \A r \in Requests :
    resp[r].status = 200 /\ Decompress(url[r]) => ~resp[r].gzipped

\* Every request is answered or dropped.
Answered == \A r \in Requests : pc[r] # "idle" ~> pc[r] = "done"
=============================================================================
