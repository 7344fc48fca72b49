-------------------------- MODULE TileServer_proofs --------------------------
(* Theorems about TileServer, for any requests, maps, layers, tiles, versions *)
(* and definitions.                                                           *)
EXTENDS TileServer, TLAPS

\* what a request with the URL u may draw from version v of its map
Drawable(v, u) == LayersFor(v, u) \cup (IF u.query = "debug" THEN {Debug} ELSE {})

\* a tile that the cache may hold for key k
BodyOK(k, b) ==
  /\ b.key = k /\ ~b.custom
  /\ Debug \notin {d[1] : d \in b.drawn}
  /\ OneVersion(b)

CacheOK == \A k \in Keys : Cached(k) => BodyOK(k, cache[k])

\* what holds of a request on its way through the middleware
Arrived(r) ==
  /\ pc[r] # "idle" => url[r] \in Urls /\ (resp[r].encoding <=> ~Decompress(url[r]))
  /\ pc[r] = "get" \/ caching[r] => url[r].query = "none"
  /\ pc[r] \in {"idle", "get"} => ~caching[r]
  /\ pc[r] \in {"idle", "get", "lookup"} => drawn[r] = {}
  /\ pc[r] \in {"get", "lookup"} /\ since[r] # NoMap =>
       atlas[url[r].map] # NoMap /\ atlas[url[r].map] >= since[r]

Encoding(r) ==
  /\ pc[r] = "encode" =>
       /\ copy[r] \in Versions
       /\ atlas[url[r].map] # NoMap
       /\ since[r] # NoMap => copy[r] >= since[r]
       /\ pending[r] \subseteq Drawable(copy[r], url[r])
       /\ drawn[r] \subseteq Drawable(copy[r], url[r]) \X {copy[r]}
  /\ pc[r] \in {"idle", "get", "lookup", "encode"} =>
       resp[r].status # 200 /\ resp[r].body = NoBody

Responded(r) ==
  /\ resp[r].status = 200 /\ ~resp[r].hit => (resp[r].gzipped <=> resp[r].encoding)
  /\ resp[r].body # NoBody =>
       /\ OneVersion(resp[r].body)
       /\ ~resp[r].hit /\ since[r] # NoMap => \A d \in resp[r].body.drawn : d[2] >= since[r]
  /\ pc[r] = "after" /\ resp[r].body # NoBody =>
       /\ resp[r].status = 200
       /\ atlas[url[r].map] # NoMap
       /\ url[r].query = "none" => BodyOK(KeyOf(url[r]), resp[r].body)

RequestOK(r) == Arrived(r) /\ Encoding(r) /\ Responded(r)

IInv == TypeOK /\ CacheOK /\ \A r \in Requests : RequestOK(r)

\* nothing of request q changes
Same(q) ==
  /\ pc'[q] = pc[q] /\ url'[q] = url[q] /\ copy'[q] = copy[q]
  /\ pending'[q] = pending[q] /\ drawn'[q] = drawn[q] /\ gone'[q] = gone[q]
  /\ caching'[q] = caching[q] /\ resp'[q] = resp[q] /\ since'[q] = since[q]

-----------------------------------------------------------------------------
\* A step of one request leaves what holds of the others alone.
LEMMA Others ==
  ASSUME NEW q \in Requests, RequestOK(q), Same(q), atlas' = atlas
  PROVE  RequestOK(q)'
<1>1. Arrived(q)'
  BY DEF Same, RequestOK, Arrived
<1>2. Encoding(q)'
  BY DEF Same, RequestOK, Encoding
<1>3. Responded(q)'
  BY DEF Same, RequestOK, Responded
<1> QED
  BY <1>1, <1>2, <1>3 DEF RequestOK

\* So it is enough to look at the request and the cache.
LEMMA OneRequest ==
  ASSUME IInv, NEW r \in Requests, TypeOK', CacheOK', atlas' = atlas,
         RequestOK(r)', \A q \in Requests \ {r} : Same(q)
  PROVE  IInv'
<1>1. \A q \in Requests \ {r} : RequestOK(q)'
  BY Others DEF IInv
<1>2. \A q \in Requests : RequestOK(q)'
  BY <1>1
<1> QED
  BY <1>2 DEF IInv

LEMMA SameCache == ASSUME CacheOK, cache' = cache PROVE CacheOK'
  BY DEF CacheOK, Cached

\* What a request draws comes from the version it copied.
LEMMA DrawableIsOneVersion ==
  ASSUME NEW v \in Versions, NEW u \in Urls, NEW b,
         b.key = KeyOf(u), b.drawn \subseteq Drawable(v, u) \X {v}
  PROVE  OneVersion(b)
<1>1. Defs[v].layersAt[u.tile] \subseteq Layers
  BY TileServerAssumption DEF Definitions, Urls
<1>2. b.key.tile = u.tile /\ b.key.layer = u.layer
  BY DEF KeyOf
<1>3. LayersFor(v, u) \subseteq Defs[v].layersAt[u.tile] \cap
        (IF u.layer = All THEN Layers ELSE Selects[u.layer])
  BY <1>1 DEF LayersFor
<1>4. Drawable(v, u) \subseteq (Defs[v].layersAt[u.tile] \cap
        (IF u.layer = All THEN Layers ELSE Selects[u.layer])) \cup {Debug}
  BY <1>3 DEF Drawable
<1> QED
  BY <1>2, <1>4 DEF OneVersion

\* The layers of a map are not the debug layer.
LEMMA LayersForTypes ==
  ASSUME NEW v \in Versions, NEW u \in Urls
  PROVE  LayersFor(v, u) \subseteq Layers /\ Debug \notin LayersFor(v, u)
<1>1. Defs[v].layersAt[u.tile] \subseteq Layers
  BY TileServerAssumption DEF Definitions, Urls
<1> QED
  BY <1>1, TileServerAssumption DEF LayersFor, Debug

\* Init establishes the invariant.
LEMMA InitInvariant == Init => IInv
<1> SUFFICES ASSUME Init PROVE IInv
  OBVIOUS
<1>1. TypeOK
  <2>1. NoResp \in [status : {0, 200, 400, 404, 500}, encoding : BOOLEAN,
                    hit : BOOLEAN, gzipped : BOOLEAN, body : Optional(Bodies)]
    BY DEF NoResp, Optional
  <2>2. cache \in [Keys -> Optional(Bodies)]
    BY DEF Init, Optional
  <2> QED
    BY <2>1, <2>2, TileServerAssumption DEF Init, TypeOK
<1>2. CacheOK
  BY DEF Init, CacheOK, Cached
<1>3. ASSUME NEW r \in Requests PROVE RequestOK(r)
  <2>1. resp[r] = NoResp /\ pc[r] = "idle" /\ drawn[r] = {} /\ caching[r] = FALSE
    BY DEF Init
  <2>2. Arrived(r) /\ Encoding(r) /\ Responded(r)
    BY <2>1 DEF Arrived, Encoding, Responded, NoResp
  <2> QED
    BY <2>2 DEF RequestOK
<1> QED
  BY <1>1, <1>2, <1>3 DEF IInv

\* A step that changes no request, and takes no map away, keeps what holds of one.
LEMMA Unmoved ==
  ASSUME NEW q \in Requests, RequestOK(q),
         UNCHANGED <<pc, url, copy, pending, drawn, caching, resp, since>>, atlas' = atlas
  PROVE  RequestOK(q)'
<1>1. Arrived(q)'
  BY DEF RequestOK, Arrived
<1>2. Encoding(q)'
  BY DEF RequestOK, Encoding
<1>3. Responded(q)'
  BY DEF RequestOK, Responded
<1> QED
  BY <1>1, <1>2, <1>3 DEF RequestOK

\* Which response a request has when its Accept-Encoding is known.
LEMMA EncodingSet ==
  ASSUME NEW Statuses, NEW Tls, NEW e \in BOOLEAN,
         NEW s \in [status : Statuses, encoding : BOOLEAN, hit : BOOLEAN, gzipped : BOOLEAN, body : Tls]
  PROVE  /\ [s EXCEPT !.encoding = e]
              \in [status : Statuses, encoding : BOOLEAN, hit : BOOLEAN, gzipped : BOOLEAN, body : Tls]
         /\ [s EXCEPT !.encoding = e].encoding = e
         /\ [s EXCEPT !.encoding = e].status = s.status
         /\ [s EXCEPT !.encoding = e].body = s.body
  OBVIOUS

-----------------------------------------------------------------------------
\* One lemma per action of a request.
LEMMA ArriveStep ==
  ASSUME IInv, NEW r \in Requests, NEW u \in Urls, Arrive(r, u)
  PROVE  IInv'
<1> TypeOK /\ CacheOK /\ RequestOK(r)
  BY DEF IInv
<1> DEFINE e == ~Decompress(u)
<1>0. e \in BOOLEAN
  OBVIOUS
<1>1. /\ pc[r] = "idle" /\ pc'[r] = (IF u.query = "none" THEN "get" ELSE "lookup")
      /\ url'[r] = u /\ since'[r] = atlas[u.map]
      /\ resp'[r] = [resp[r] EXCEPT !.encoding = e]
      /\ resp' = [resp EXCEPT ![r] = resp'[r]]
      /\ drawn'[r] = drawn[r] /\ caching'[r] = caching[r]
  BY DEF Arrive, Goto, TypeOK
<1>2. /\ u.map \in MapNames /\ atlas[u.map] \in Versions \cup {NoMap}
  BY DEF Urls, TypeOK
<1> HIDE DEF e
<1>3. resp'[r] \in [status : {0, 200, 400, 404, 500}, encoding : BOOLEAN,
                    hit : BOOLEAN, gzipped : BOOLEAN, body : Optional(Bodies)]
  <2>1. resp[r] \in [status : {0, 200, 400, 404, 500}, encoding : BOOLEAN,
                     hit : BOOLEAN, gzipped : BOOLEAN, body : Optional(Bodies)]
    BY DEF TypeOK
  <2> QED
    BY <1>0, <1>1, <2>1, EncodingSet
<1>4. TypeOK'
  BY <1>1, <1>2, <1>3 DEF Arrive, Goto, TypeOK
<1>5. /\ resp'[r].status = resp[r].status /\ resp'[r].body = resp[r].body
      /\ resp'[r].encoding = e
  <2>1. resp[r] \in [status : {0, 200, 400, 404, 500}, encoding : BOOLEAN,
                     hit : BOOLEAN, gzipped : BOOLEAN, body : Optional(Bodies)]
    BY DEF TypeOK
  <2> QED
    BY <1>0, <1>1, <2>1, EncodingSet
<1>6. resp'[r].encoding <=> ~Decompress(u)
  BY <1>5 DEF e
<1>7. since'[r] # NoMap => atlas[u.map] \in Nat /\ atlas[u.map] >= since'[r]
  BY <1>1, <1>2, TileServerAssumption
<1>8. Arrived(r)'
  BY <1>1, <1>6, <1>7 DEF RequestOK, Arrived, Arrive
<1>9. Encoding(r)' /\ Responded(r)'
  BY <1>1, <1>5 DEF RequestOK, Encoding, Responded
<1>10. \A q \in Requests \ {r} : Same(q)
  BY DEF Same, Arrive, Goto, TypeOK
<1> QED
  BY <1>4, <1>8, <1>9, <1>10, OneRequest, SameCache DEF RequestOK, Arrive

LEMMA CacheHitStep ==
  ASSUME IInv, NEW r \in Requests, CacheHit(r)
  PROVE  IInv'
<1> TypeOK /\ CacheOK /\ RequestOK(r)
  BY DEF IInv
<1> DEFINE b == cache[KeyOf(url[r])]
<1>1. /\ pc[r] = "get" /\ pc'[r] = "done" /\ b # NoBody
      /\ resp'[r] = [status |-> 200, encoding |-> resp[r].encoding, hit |-> TRUE,
                     gzipped |-> TRUE, body |-> b]
      /\ url' = url /\ drawn' = drawn /\ caching' = caching /\ since' = since
      /\ atlas' = atlas
  BY DEF CacheHit, Goto, TypeOK
<1>2. KeyOf(url[r]) \in Keys
  BY <1>1 DEF RequestOK, Arrived, KeyOf, Keys, Urls
<1>3. b \in Optional(Bodies) /\ OneVersion(b)
  BY <1>1, <1>2 DEF TypeOK, CacheOK, Cached, BodyOK
<1>4. resp'[r] \in [status : {0, 200, 400, 404, 500}, encoding : BOOLEAN,
                    hit : BOOLEAN, gzipped : BOOLEAN, body : Optional(Bodies)]
  BY <1>1, <1>3 DEF TypeOK
<1>5. TypeOK'
  BY <1>4 DEF CacheHit, Goto, TypeOK
<1>6. Arrived(r)' /\ Encoding(r)'
  BY <1>1 DEF RequestOK, Arrived, Encoding
<1>7. Responded(r)'
  BY <1>1, <1>3 DEF RequestOK, Responded
<1>8. \A q \in Requests \ {r} : Same(q)
  BY DEF Same, CacheHit, Goto, TypeOK
<1> QED
  BY <1>5, <1>6, <1>7, <1>8, OneRequest, SameCache DEF RequestOK, CacheHit

LEMMA CacheMissStep ==
  ASSUME IInv, NEW r \in Requests, CacheMiss(r) \/ CacheError(r)
  PROVE  IInv'
<1> TypeOK /\ CacheOK /\ RequestOK(r)
  BY DEF IInv
<1>1. /\ pc[r] = "get" /\ pc'[r] = "lookup"
      /\ UNCHANGED <<atlas, cache, url, copy, pending, drawn, gone, resp, since>>
  BY DEF CacheMiss, CacheError, Goto, TypeOK
<1>2. TypeOK'
  <2>1. CASE CacheMiss(r)
    BY <2>1 DEF CacheMiss, Goto, TypeOK
  <2>2. CASE CacheError(r)
    BY <2>2 DEF CacheError, Goto, TypeOK
  <2> QED
    BY <2>1, <2>2
<1>3. Arrived(r)' /\ Encoding(r)' /\ Responded(r)'
  BY <1>1 DEF RequestOK, Arrived, Encoding, Responded
<1>4. \A q \in Requests \ {r} : Same(q)
  BY DEF Same, CacheMiss, CacheError, Goto, TypeOK
<1> QED
  BY <1>1, <1>2, <1>3, <1>4, OneRequest, SameCache DEF RequestOK

\* http.Error, wherever it comes from.
LEMMA HttpErrorStep ==
  ASSUME IInv, NEW r \in Requests, pc[r] \in {"lookup", "encode"},
         NEW code \in {400, 404, 500}, HttpError(r, code),
         UNCHANGED <<atlas, cache, url, copy, pending, drawn, gone, caching, since>>
  PROVE  IInv'
<1> TypeOK /\ CacheOK /\ RequestOK(r)
  BY DEF IInv
<1>1. /\ pc'[r] = "after" /\ resp'[r] = [resp[r] EXCEPT !.status = code]
      /\ resp' = [resp EXCEPT ![r] = [resp[r] EXCEPT !.status = code]]
      /\ pc' = [pc EXCEPT ![r] = "after"]
  BY DEF HttpError, Goto, TypeOK
<1>2. /\ resp'[r].status = code /\ resp'[r].body = resp[r].body
      /\ resp'[r].encoding = resp[r].encoding
  BY <1>1 DEF TypeOK
<1>3. resp'[r] \in [status : {0, 200, 400, 404, 500}, encoding : BOOLEAN,
                    hit : BOOLEAN, gzipped : BOOLEAN, body : Optional(Bodies)]
  BY <1>1 DEF TypeOK
<1>4. TypeOK'
  BY <1>1, <1>3 DEF TypeOK
<1>5. Arrived(r)' /\ Encoding(r)' /\ Responded(r)'
  BY <1>1, <1>2 DEF RequestOK, Arrived, Encoding, Responded
<1>6. \A q \in Requests \ {r} : Same(q)
  BY <1>1 DEF Same, TypeOK
<1> QED
  BY <1>4, <1>5, <1>6, OneRequest, SameCache DEF RequestOK

LEMMA LookupStep ==
  ASSUME IInv, NEW r \in Requests, Lookup(r)
  PROVE  IInv'
<1> TypeOK /\ CacheOK /\ RequestOK(r)
  BY DEF IInv
<1> DEFINE u == url[r]
           v == atlas[u.map]
<1>1. /\ pc[r] = "lookup" /\ u \in Urls /\ u.map \in MapNames
      /\ UNCHANGED <<atlas, cache, url, drawn, gone, caching, since>>
  BY DEF Lookup, RequestOK, Arrived, Urls
<1>2. CASE \E code \in {400, 404} : HttpError(r, code) /\ UNCHANGED <<copy, pending>>
  BY <1>1, <1>2, HttpErrorStep
<1>3. CASE /\ v # NoMap
           /\ copy' = [copy EXCEPT ![r] = v]
           /\ pending' = [pending EXCEPT ![r] = Drawable(v, u)]
           /\ Goto(r, "encode") /\ UNCHANGED resp
  <2>1. v \in Versions /\ v \in Nat
    <3>1. v \in Versions \cup {NoMap}
      BY <1>1 DEF TypeOK
    <3> QED
      BY <1>3, <3>1, TileServerAssumption
  <2>2. Drawable(v, u) \subseteq Layers \cup {Debug}
    BY <1>1, <2>1, LayersForTypes DEF Drawable
  <2>3. pc'[r] = "encode" /\ copy'[r] = v /\ pending'[r] = Drawable(v, u)
    BY <1>3 DEF Goto, TypeOK
  <2>4. TypeOK'
    BY <1>1, <1>3, <2>1, <2>2 DEF Goto, TypeOK
  <2>5. Arrived(r)' /\ Responded(r)'
    BY <1>1, <1>3, <2>3 DEF RequestOK, Arrived, Encoding, Responded
  <2>6. Encoding(r)'
    <3>1. resp' = resp /\ resp[r].status # 200 /\ resp[r].body = NoBody /\ drawn[r] = {}
      BY <1>1, <1>3 DEF RequestOK, Arrived, Encoding
    <3>2. since[r] # NoMap => v >= since[r]
      BY <1>1 DEF RequestOK, Arrived
    <3> QED
      BY <1>1, <1>3, <2>1, <2>3, <3>1, <3>2 DEF Encoding
  <2>7. \A q \in Requests \ {r} : Same(q)
    BY <1>1, <1>3 DEF Same, Goto, TypeOK
  <2> QED
    BY <1>1, <2>4, <2>5, <2>6, <2>7, OneRequest, SameCache DEF RequestOK
<1> QED
  <2>1. \/ \E code \in {400, 404} : HttpError(r, code) /\ UNCHANGED <<copy, pending>>
        \/ /\ v # NoMap
           /\ copy' = [copy EXCEPT ![r] = v]
           /\ pending' = [pending EXCEPT ![r] = Drawable(v, u)]
           /\ Goto(r, "encode") /\ UNCHANGED resp
    BY SMTT(30) DEF Lookup, Drawable
  <2> QED
    BY <1>2, <1>3, <2>1

LEMMA LayerStep ==
  ASSUME IInv, NEW r \in Requests, NEW l \in Layers \cup {Debug},
         LayerDrawn(r, l) \/ LayerFailed(r, l)
  PROVE  IInv'
<1> TypeOK /\ CacheOK /\ RequestOK(r)
  BY DEF IInv
<1>1. /\ pc[r] = "encode" /\ l \in pending[r] /\ copy[r] \in Versions
      /\ l \in Drawable(copy[r], url[r])
      /\ UNCHANGED <<atlas, cache, url, copy, gone, caching, since>>
  BY DEF LayerDrawn, LayerFailed, RequestOK, Encoding
<1>2. CASE HttpError(r, 500) /\ UNCHANGED <<pending, drawn>>
  BY <1>1, <1>2, HttpErrorStep
<1>3. CASE /\ pending' = [pending EXCEPT ![r] = @ \ {l}]
           /\ \/ drawn' = [drawn EXCEPT ![r] = @ \cup {<<l, copy[r]>>}]
              \/ drawn' = drawn
           /\ UNCHANGED <<pc, resp>>
  <2>1. /\ pending'[r] = pending[r] \ {l}
        /\ drawn'[r] \subseteq drawn[r] \cup {<<l, copy[r]>>}
    BY <1>3 DEF TypeOK
  <2>2. pending' \in [Requests -> SUBSET (Layers \cup {Debug})]
    BY <1>3 DEF TypeOK
  <2>3. drawn' \in [Requests -> SUBSET ((Layers \cup {Debug}) \X Versions)]
    BY <1>1, <1>3 DEF TypeOK
  <2>4. TypeOK'
    BY <1>1, <1>3, <2>2, <2>3 DEF TypeOK
  <2>5. Arrived(r)' /\ Responded(r)'
    BY <1>1, <1>3 DEF RequestOK, Arrived, Responded
  <2>6. drawn'[r] \subseteq Drawable(copy[r], url[r]) \X {copy[r]}
    BY <1>1, <2>1 DEF RequestOK, Encoding
  <2>7. Encoding(r)'
    BY <1>1, <1>3, <2>1, <2>6 DEF RequestOK, Encoding
  <2>8. \A q \in Requests \ {r} : Same(q)
    BY <1>1, <1>3 DEF Same, TypeOK
  <2> QED
    BY <1>1, <2>4, <2>5, <2>7, <2>8, OneRequest, SameCache DEF RequestOK
<1> QED
  BY <1>2, <1>3 DEF LayerDrawn, LayerFailed

LEMMA EncodeFailsStep ==
  ASSUME IInv, NEW r \in Requests, EncodeCancelled(r) \/ EncodeError(r)
  PROVE  IInv'
<1> TypeOK /\ CacheOK /\ RequestOK(r)
  BY DEF IInv
<1>1. CASE EncodeError(r)
  BY <1>1, HttpErrorStep DEF EncodeError
<1>2. CASE EncodeCancelled(r)
  <2>1. /\ pc[r] = "encode" /\ pc'[r] = "after" /\ pc' = [pc EXCEPT ![r] = "after"]
        /\ UNCHANGED <<atlas, cache, url, copy, pending, drawn, gone, caching, resp, since>>
    BY <1>2 DEF EncodeCancelled, Goto, TypeOK
  <2>2. TypeOK'
    BY <2>1 DEF TypeOK
  <2>3. Arrived(r)' /\ Encoding(r)' /\ Responded(r)'
    BY <2>1 DEF RequestOK, Arrived, Encoding, Responded
  <2>4. \A q \in Requests \ {r} : Same(q)
    BY <2>1 DEF Same, TypeOK
  <2> QED
    BY <2>1, <2>2, <2>3, <2>4, OneRequest, SameCache DEF RequestOK
<1> QED
  BY <1>1, <1>2

\* The tile of a request, as Map.Encode makes it.
LEMMA EncodedBody ==
  ASSUME IInv, NEW r \in Requests, pc[r] = "encode"
  PROVE  /\ Body(r) \in Bodies /\ OneVersion(Body(r))
         /\ since[r] # NoMap => \A d \in Body(r).drawn : d[2] >= since[r]
         /\ url[r].query = "none" => BodyOK(KeyOf(url[r]), Body(r))
<1> DEFINE u == url[r]
           v == copy[r]
           c == Defs[v].params /\ u.query = "param"
<1>1. /\ u \in Urls /\ v \in Versions /\ drawn[r] \subseteq Drawable(v, u) \X {v}
      /\ drawn[r] \in SUBSET ((Layers \cup {Debug}) \X Versions)
      /\ since[r] # NoMap => v >= since[r]
  BY DEF IInv, TypeOK, RequestOK, Arrived, Encoding
<1>2. c \in BOOLEAN
  OBVIOUS
<1>3. Body(r) = [key |-> KeyOf(u), drawn |-> drawn[r], custom |-> c]
  BY DEF Body
<1>4. u.query = "none" => ~c
  OBVIOUS
<1> HIDE DEF c
<1>5. KeyOf(u) \in Keys
  BY <1>1 DEF KeyOf, Keys, Urls
<1>6. /\ Body(r).key = KeyOf(u) /\ Body(r).drawn = drawn[r] /\ Body(r).custom = c
      /\ Body(r) \in Bodies
  BY <1>1, <1>2, <1>3, <1>5 DEF Bodies
<1>7. OneVersion(Body(r))
  BY <1>1, <1>6, DrawableIsOneVersion
<1>8. \A d \in drawn[r] : d[2] = v /\ d[1] \in Drawable(v, u)
  BY <1>1
<1>9. u.query = "none" => Debug \notin {d[1] : d \in Body(r).drawn}
  BY <1>1, <1>6, <1>8, LayersForTypes DEF Drawable
<1> QED
  BY <1>1, <1>4, <1>6, <1>7, <1>8, <1>9 DEF BodyOK

LEMMA EncodeOkStep ==
  ASSUME IInv, NEW r \in Requests, EncodeOk(r)
  PROVE  IInv'
<1> TypeOK /\ CacheOK /\ RequestOK(r)
  BY DEF IInv
<1> DEFINE g == ~Decompress(url[r])
           b == Body(r)
           w == [status |-> 200, encoding |-> resp[r].encoding, hit |-> FALSE,
                 gzipped |-> g, body |-> b]
<1>0. g \in BOOLEAN
  OBVIOUS
<1>1. /\ pc[r] = "encode" /\ pc'[r] = "after" /\ pc' = [pc EXCEPT ![r] = "after"]
      /\ resp' = [resp EXCEPT ![r] = w] /\ resp'[r] = w
      /\ UNCHANGED <<atlas, cache, url, copy, pending, drawn, gone, caching, since>>
  BY DEF EncodeOk, Goto, TypeOK
<1>2. resp[r].encoding <=> g
  BY <1>1 DEF RequestOK, Arrived
<1>3. /\ b \in Bodies /\ OneVersion(b)
      /\ since[r] # NoMap => \A d \in b.drawn : d[2] >= since[r]
      /\ url[r].query = "none" => BodyOK(KeyOf(url[r]), b)
  BY <1>1, EncodedBody
<1>4. atlas[url[r].map] # NoMap
  BY <1>1 DEF RequestOK, Encoding
<1> HIDE DEF g, b
<1>5. w \in [status : {0, 200, 400, 404, 500}, encoding : BOOLEAN,
                    hit : BOOLEAN, gzipped : BOOLEAN, body : Optional(Bodies)]
  BY <1>0, <1>3 DEF TypeOK, Optional
<1>6. TypeOK'
  <2> HIDE DEF w
  <2>1. resp' \in [Requests -> [status : {0, 200, 400, 404, 500}, encoding : BOOLEAN,
                    hit : BOOLEAN, gzipped : BOOLEAN, body : Optional(Bodies)]]
    BY <1>1, <1>5 DEF TypeOK
  <2>2. pc' \in [Requests -> {"idle", "get", "lookup", "encode", "after", "done"}]
    BY <1>1 DEF TypeOK
  <2> QED
    BY <1>1, <2>1, <2>2 DEF TypeOK
<1>7. /\ resp'[r].gzipped = g /\ resp'[r].body = b /\ resp'[r].status = 200
      /\ resp'[r].encoding = resp[r].encoding
  BY <1>1
<1>8. Arrived(r)' /\ Encoding(r)'
  BY <1>1, <1>7 DEF RequestOK, Arrived, Encoding
<1>9. Responded(r)'
  BY <1>1, <1>2, <1>3, <1>7, <1>4 DEF Responded
<1>10. \A q \in Requests \ {r} : Same(q)
  BY <1>1 DEF Same, TypeOK
<1> QED
  BY <1>1, <1>6, <1>8, <1>9, <1>10, OneRequest, SameCache DEF RequestOK

LEMMA AfterHandlerStep ==
  ASSUME IInv, NEW r \in Requests, AfterHandler(r)
  PROVE  IInv'
<1> TypeOK /\ CacheOK /\ RequestOK(r)
  BY DEF IInv
<1> DEFINE k == KeyOf(url[r])
           b == resp[r].body
<1>1. /\ pc[r] = "after" /\ pc'[r] = "done" /\ pc' = [pc EXCEPT ![r] = "done"]
      /\ UNCHANGED <<atlas, url, copy, pending, drawn, gone, caching, resp, since>>
  BY DEF AfterHandler, Goto, TypeOK
<1>2. k \in Keys /\ b \in Optional(Bodies)
  BY <1>1 DEF RequestOK, Arrived, KeyOf, Keys, Urls, TypeOK
<1>3. RequestOK(r)'
  BY <1>1 DEF RequestOK, Arrived, Encoding, Responded
<1>4. \A q \in Requests \ {r} : Same(q)
  BY <1>1 DEF Same, TypeOK
<1>5. CASE cache' = cache
  <2>1. TypeOK'
    BY <1>1, <1>5 DEF TypeOK
  <2> QED
    BY <1>1, <1>5, <1>3, <1>4, <2>1, SameCache, OneRequest
<1>6. CASE caching[r] /\ b # NoBody /\ cache' = [cache EXCEPT ![k] = b]
  <2>1. TypeOK'
    BY <1>1, <1>2, <1>6 DEF TypeOK
  <2>2. BodyOK(k, b)
    BY <1>1, <1>6 DEF RequestOK, Arrived, Responded
  <2>3. \A j \in Keys : cache'[j] = IF j = k THEN b ELSE cache[j]
    BY <1>2, <1>6 DEF TypeOK
  <2>4. CacheOK'
    BY <2>2, <2>3 DEF CacheOK, Cached
  <2> QED
    BY <1>1, <1>3, <1>4, <2>1, <2>4, OneRequest
<1> QED
  BY <1>5, <1>6 DEF AfterHandler

LEMMA HangupStep ==
  ASSUME IInv, NEW r \in Requests, Hangup(r)
  PROVE  IInv'
<1>1. UNCHANGED <<atlas, cache, pc, url, copy, pending, drawn, caching, resp, since>>
  BY DEF Hangup
<1>2. TypeOK'
  BY DEF Hangup, IInv, TypeOK
<1>3. CacheOK'
  BY <1>1, SameCache DEF IInv
<1>4. \A q \in Requests : RequestOK(q)'
  BY <1>1, Unmoved DEF IInv
<1> QED
  BY <1>2, <1>3, <1>4 DEF IInv

\* Reloading a map: its version only grows.
LEMMA AddMapStep ==
  ASSUME IInv, NEW m \in MapNames, AddMap(m)
  PROVE  IInv'
<1> TypeOK /\ CacheOK
  BY DEF IInv
<1>1. PICK v \in Versions :
        /\ atlas[m] = NoMap \/ (atlas[m] # NoMap /\ v > atlas[m])
        /\ atlas' = [atlas EXCEPT ![m] = v]
  BY DEF AddMap
<1>2. UNCHANGED <<cache, reqVars>>
  BY DEF AddMap
<1>3. TypeOK'
  BY <1>1, <1>2 DEF TypeOK, reqVars
<1>4. CacheOK'
  BY <1>2, SameCache
<1>5. ASSUME NEW n \in MapNames, atlas[n] # NoMap
      PROVE  atlas'[n] # NoMap /\ atlas[n] \in Nat /\ atlas'[n] \in Nat /\ atlas'[n] >= atlas[n]
  <2>1. atlas[n] \in Versions /\ atlas[n] \in Nat /\ v \in Nat /\ v # NoMap
    <3>1. atlas[n] \in Versions \cup {NoMap}
      BY DEF TypeOK
    <3> QED
      BY <1>5, <3>1, TileServerAssumption
  <2>2. CASE n = m
    <3>1. atlas'[n] = v /\ v > atlas[n]
      BY <1>1, <1>5, <2>2 DEF TypeOK
    <3> QED
      BY <2>1, <3>1
  <2>3. CASE n # m
    <3>1. atlas'[n] = atlas[n]
      BY <1>1, <2>3 DEF TypeOK
    <3> QED
      BY <1>5, <2>1, <3>1
  <2> QED
    BY <2>2, <2>3
<1>6. ASSUME NEW q \in Requests PROVE RequestOK(q)'
  <2>1. RequestOK(q) /\ UNCHANGED reqVars
    BY <1>2 DEF IInv
  <2>2. pc[q] # "idle" => url[q].map \in MapNames
    BY <2>1 DEF RequestOK, Arrived, Urls
  <2>3. since[q] # NoMap => since[q] \in Nat
    <3>1. since[q] \in Versions \cup {NoMap}
      BY DEF TypeOK
    <3>2. Versions \subseteq Nat
      BY TileServerAssumption
    <3> QED
      BY <3>1, <3>2
  <2>4. pc[q] \in {"get", "lookup"} /\ since[q] # NoMap =>
          atlas'[url[q].map] # NoMap /\ atlas'[url[q].map] >= since[q]
    <3> SUFFICES ASSUME pc[q] \in {"get", "lookup"}, since[q] # NoMap
                 PROVE  atlas'[url[q].map] # NoMap /\ atlas'[url[q].map] >= since[q]
      OBVIOUS
    <3>1. atlas[url[q].map] # NoMap /\ atlas[url[q].map] >= since[q]
      BY <2>1 DEF RequestOK, Arrived
    <3>2. /\ atlas'[url[q].map] # NoMap /\ atlas'[url[q].map] >= atlas[url[q].map]
          /\ atlas'[url[q].map] \in Nat /\ atlas[url[q].map] \in Nat
      BY <1>5, <2>2, <3>1
    <3> QED
      BY <2>3, <3>1, <3>2
  <2>5. pc[q] # "idle" /\ atlas[url[q].map] # NoMap => atlas'[url[q].map] # NoMap
    BY <1>5, <2>2
  <2>6. Arrived(q)'
    BY <2>1, <2>4 DEF RequestOK, Arrived, reqVars
  <2>7. Encoding(q)'
    BY <2>1, <2>5 DEF RequestOK, Encoding, reqVars
  <2>8. Responded(q)'
    BY <2>1, <2>5 DEF RequestOK, Responded, reqVars
  <2> QED
    BY <2>6, <2>7, <2>8 DEF RequestOK
<1> QED
  BY <1>3, <1>4, <1>6 DEF IInv

LEMMA PurgeStep ==
  ASSUME IInv, NEW m \in MapNames, NEW t \in Tiles, PurgeMapTile(m, t)
  PROVE  IInv'
<1> DEFINE k == [map |-> m, layer |-> All, tile |-> t]
<1>1. cache' = [cache EXCEPT ![k] = NoBody] /\ UNCHANGED <<atlas, reqVars>>
  BY DEF PurgeMapTile
<1>2. TypeOK'
  BY <1>1 DEF IInv, TypeOK, reqVars, Optional
<1>3. CacheOK'
  <2>1. \A j \in Keys : cache'[j] = IF j = k THEN NoBody ELSE cache[j]
    BY <1>1 DEF IInv, TypeOK
  <2> QED
    BY <2>1 DEF IInv, CacheOK, Cached
<1>4. \A q \in Requests : RequestOK(q)'
  BY <1>1, Unmoved DEF IInv, reqVars
<1> QED
  BY <1>2, <1>3, <1>4 DEF IInv

\* The invariant is inductive.
LEMMA Step == ASSUME IInv, [Next]_vars PROVE IInv'
<1>1. ASSUME NEW r \in Requests, RequestNext(r)
      PROVE  IInv'
  BY <1>1, CacheHitStep, CacheMissStep, LookupStep, LayerStep, EncodeFailsStep,
     EncodeOkStep, AfterHandlerStep DEF RequestNext
<1>2. CASE UNCHANGED vars
  <2>1. UNCHANGED <<atlas, cache, pc, url, copy, pending, drawn, gone, caching, resp, since>>
    BY <1>2 DEF vars, reqVars
  <2>2. TypeOK'
    BY <2>1 DEF IInv, TypeOK
  <2>3. CacheOK'
    BY <2>1, SameCache DEF IInv
  <2>4. \A q \in Requests : RequestOK(q)'
    BY <2>1, Unmoved DEF IInv
  <2> QED
    BY <2>2, <2>3, <2>4 DEF IInv
<1> QED
  BY <1>1, <1>2, ArriveStep, HangupStep, AddMapStep, PurgeStep DEF Next

LEMMA Invariant == Spec => []IInv
  BY InitInvariant, Step, PTL DEF Spec

-----------------------------------------------------------------------------
\* The types of the server's state.
THEOREM TypesHold == Spec => []TypeOK
  BY Invariant, PTL DEF IInv

\* Whoever fills the cache, a key holds a tile of that key, drawn without query
\* parameters and without the debug layer (TileCacheHandler).
THEOREM CacheKeyedHolds == Spec => []CacheKeyed
<1>1. IInv => CacheKeyed
  BY DEF IInv, CacheOK, BodyOK, CacheKeyed
<1> QED
  BY <1>1, Invariant, PTL

\* However many requests run while maps are replaced, the layers of a tile come
\* from one definition (Atlas.Map copies it).
THEOREM TilesConsistentHolds == Spec => []TilesConsistent
<1>1. IInv => TilesConsistent
  BY DEF IInv, CacheOK, BodyOK, RequestOK, Responded, TilesConsistent
<1> QED
  BY <1>1, Invariant, PTL

\* A tile that does not come from the cache is as new as the map was when the
\* request arrived.
THEOREM FreshUnlessHitHolds == Spec => []FreshUnlessHit
<1>1. IInv => FreshUnlessHit
  BY DEF IInv, RequestOK, Responded, FreshUnlessHit
<1> QED
  BY <1>1, Invariant, PTL

\* GZipHandler and the decompressing writer agree for every tile that was encoded.
THEOREM EncodedAsAcceptedHolds == Spec => []EncodedAsAccepted
<1>1. IInv => EncodedAsAccepted
  <2> SUFFICES ASSUME IInv, NEW r \in Requests, resp[r].status = 200, ~resp[r].hit
               PROVE  resp[r].gzipped = resp[r].encoding
    BY DEF EncodedAsAccepted
  <2>1. resp[r].gzipped \in BOOLEAN /\ resp[r].encoding \in BOOLEAN
    BY DEF IInv, TypeOK
  <2> QED
    BY <2>1 DEF IInv, RequestOK, Responded
<1> QED
  BY <1>1, Invariant, PTL

\* Only AfterHandler fills the cache, and only for a request that is alive, with
\* the tile it was answered with.
THEOREM CacheOnlyGoodHolds == Spec => CacheOnlyGood
<1> DEFINE Good ==
      \A k \in Keys : Cached(k)' /\ cache'[k] # cache[k] =>
        /\ atlas[k.map] # NoMap
        /\ \E r \in Requests : /\ ~gone[r] /\ resp[r].status = 200 /\ resp[r].body = cache'[k]
                               /\ url[r].query = "none"
<1>1. ASSUME IInv, Next PROVE Good
  <2>1. CASE cache' = cache
    BY <2>1
  <2>2. ASSUME NEW r \in Requests, AfterHandler(r), cache' # cache
        PROVE  Good
    <3>1. /\ pc[r] = "after" /\ caching[r] /\ ~gone[r] /\ resp[r].body # NoBody
          /\ cache' = [cache EXCEPT ![KeyOf(url[r])] = resp[r].body]
      BY <2>2 DEF AfterHandler
    <3>2. /\ url[r].query = "none" /\ resp[r].status = 200 /\ atlas[url[r].map] # NoMap
      BY <1>1, <3>1 DEF IInv, RequestOK, Arrived, Responded
    <3>3. \A k \in Keys : cache'[k] # cache[k] => k = KeyOf(url[r]) /\ cache'[k] = resp[r].body
      BY <1>1, <3>1 DEF IInv, TypeOK
    <3>4. KeyOf(url[r]).map = url[r].map
      BY DEF KeyOf
    <3> QED
      BY <3>1, <3>2, <3>3, <3>4
  <2>3. ASSUME NEW m \in MapNames, NEW t \in Tiles, PurgeMapTile(m, t)
        PROVE  Good
    <3>1. \A k \in Keys : cache'[k] # cache[k] => cache'[k] = NoBody
      BY <1>1, <2>3 DEF PurgeMapTile, IInv, TypeOK
    <3> QED
      BY <3>1 DEF Cached
  <2>4. ASSUME NEW r \in Requests, RequestNext(r), ~AfterHandler(r)
        PROVE  cache' = cache
    BY <2>4 DEF RequestNext, CacheHit, CacheMiss, CacheError, Lookup, LayerDrawn, LayerFailed,
       EncodeCancelled, EncodeError, EncodeOk
  <2>5. ASSUME NEW r \in Requests, (\E u \in Urls : Arrive(r, u)) \/ Hangup(r)
        PROVE  cache' = cache
    BY <2>5 DEF Arrive, Hangup
  <2>6. ASSUME NEW m \in MapNames, AddMap(m)
        PROVE  cache' = cache
    BY <2>6 DEF AddMap
  <2> HIDE DEF Good
  <2> QED
    BY <1>1, <2>1, <2>2, <2>3, <2>4, <2>5, <2>6 DEF Next
<1>2. IInv /\ [Next]_vars => [Good]_vars
  BY <1>1
<1> QED
  BY <1>2, Invariant, PTL DEF Spec, CacheOnlyGood
=============================================================================
