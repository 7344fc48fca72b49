---------------------------- MODULE RemoteCache ----------------------------
(***************************************************************************)
(* The caches that are kept in a store behind a network: redis             *)
(* (cache/redis), s3 (cache/s3), gcs (cache/gcs) and azblob (cache/azblob).*)
(* Several tegola processes share one store: each reads its configuration, *)
(* probes the store with a test tile (redis: with a ping) and then sets,   *)
(* gets and purges tiles.  A request or its answer may be lost, and the    *)
(* account of the processes may lack a permission.                         *)
(***************************************************************************)
EXTENDS Naturals

CONSTANTS
  Procs,      \* tegola processes that use the store
  Keys,       \* cache keys
  ProbeKey,   \* the key of the test tile
  Vals,       \* encoded tiles
  TestData,   \* the test tile
  Beyond,     \* the keys above max_zoom
  MaxOps,     \* bound: operations and deaths of a process after its start
  Starts,     \* the configurations: [kind, opts, perms]
  Absent,     \* no value
  Unsampled   \* a Get that has not read yet

ASSUME RemoteCacheAssumption ==
  /\ ProbeKey \in Keys \ Beyond
  /\ TestData \in Vals /\ Absent \notin Vals /\ Unsampled \notin Vals
  /\ MaxOps \in Nat
  /\ \A s \in Starts : /\ s.kind \in {"redis", "s3", "gcs", "azblob"}
                       /\ s.perms \subseteq {"set", "get", "purge"}

VARIABLES
  start,   \* the configuration all processes run with
  tiles,   \* the store: the value of each key, or Absent
  pc,      \* where a process is: "off", a step of New, "ready" or "refused"
  req,     \* the cache operation a process is in
  seen,    \* what a Get has begun to read
  ans,     \* the answer to the last operation
  ops,     \* operations begun after the start, and deaths
  faulty   \* a request or an answer has been lost (history)

vars == <<start, tiles, pc, req, seen, ans, ops, faulty>>

-----------------------------------------------------------------------------
(* The configuration: an option is absent, of a wrong type, "" or good.      *)
Wrong(c)    == \E o \in DOMAIN c : c[o] = "wrong"
Given(c, o) == c[o] = "good"
Unset(c, o) == c[o] \in {"absent", "empty"}

S3Accepts(c) ==
  /\ ~Wrong(c)
  /\ Given(c, "bucket")
  /\ Given(c, "req_signing_host") => Given(c, "endpoint")
  /\ Given(c, "session")

GcsAccepts(c) ==
  /\ ~Wrong(c)
  /\ c.bucket # "absent"
  /\ c.basepath # "absent"
  /\ Given(c, "client")

\* neither of the credentials is an anonymous reader
Anonymous(c) == Unset(c, "account_name") /\ Unset(c, "shared_key")
AzReadOnly(c) == Anonymous(c) \/ Given(c, "read_only")
AzAccepts(c) ==
  /\ ~Wrong(c)
  /\ Anonymous(c) \/ (Given(c, "account_name") /\ Given(c, "shared_key"))
  /\ c.container_url # "absent"

\* a uri replaces the other options; without one the address needs a host
RedisOptions(c) ==
  \/ Given(c, "uri")
  \/ /\ Unset(c, "uri")
     /\ \A o \in {"network", "password", "db", "ssl"} : c[o] # "wrong"
     /\ c.address \in {"absent", "good"}
RedisAccepts(c) == RedisOptions(c) /\ c.max_zoom # "wrong" /\ c.ttl # "wrong"

Accepted ==
  CASE start.kind = "s3"     -> S3Accepts(start.opts)
    [] start.kind = "gcs"    -> GcsAccepts(start.opts)
    [] start.kind = "azblob" -> AzAccepts(start.opts)
    [] start.kind = "redis"  -> RedisAccepts(start.opts)

ReadOnly == start.kind = "azblob" /\ AzReadOnly(start.opts)

-----------------------------------------------------------------------------
(* The contract.  Requests and answers are lost, redis tiles expire, gcs     *)
(* takes any failure to open an object for a miss.  A read-only azblob cache *)
(* reports success for the writes it leaves out.                             *)
Link == {"late"} \cup (IF start.kind = "redis" THEN {"expires"} ELSE {})
                \cup (IF start.kind = "gcs" THEN {"hides"} ELSE {})
                \cup (IF ReadOnly THEN {"ignores"} ELSE {})

Store == INSTANCE TileStore WITH
  Clients  <- Procs,
  MayWrite <- [k \in Keys |-> Procs],
  link     <- Link

Idle == Store!Idle
None == Store!Answer("none")

-----------------------------------------------------------------------------
RemoteInit ==
  /\ start \in Starts
  /\ tiles = [k \in Keys |-> Absent]
  /\ pc = [p \in Procs |-> "off"]
  /\ req = [p \in Procs |-> Idle]
  /\ seen = [p \in Procs |-> Unsampled]
  /\ ans = [p \in Procs |-> None]
  /\ ops = [p \in Procs |-> 0]
  /\ faulty = FALSE

Goto(p, l) == pc' = [pc EXCEPT ![p] = l]

\* New reads the configuration; a redis client is asked for a PONG
New(p) ==
  /\ pc[p] = "off"
  /\ \/ ~Accepted /\ Goto(p, "refused") /\ UNCHANGED faulty
     \/ /\ Accepted
        /\ Goto(p, IF start.kind = "redis" THEN "ready"
                   ELSE IF ReadOnly THEN "probe_get" ELSE "probe_set")
        /\ UNCHANGED faulty
     \/ /\ start.kind = "redis" /\ Accepted
        /\ Goto(p, "refused") /\ faulty' = TRUE
  /\ UNCHANGED <<start, tiles, req, seen, ans, ops>>

\* a request that needs no store: above max_zoom, or a write of a reader
Local(r) ==
  \/ r.op = "set"   /\ (r.key \in Beyond \/ ReadOnly)
  \/ r.op = "get"   /\ start.kind = "azblob" /\ r.key \in Beyond
  \/ r.op = "purge" /\ ReadOnly

Begin(p, r) ==
  /\ req' = [req EXCEPT ![p] = r]
  /\ ans' = [ans EXCEPT ![p] = None]

End(p, a) ==
  /\ req' = [req EXCEPT ![p] = Idle]
  /\ seen' = [seen EXCEPT ![p] = Unsampled]
  /\ ans' = [ans EXCEPT ![p] = a]

\* the test tile is set, read and purged under a key all processes share
ProbeCall(p) ==
  CASE pc[p] = "probe_set"   -> [op |-> "set", key |-> ProbeKey, val |-> TestData]
    [] pc[p] = "probe_get"   -> [op |-> "get", key |-> ProbeKey, val |-> Absent]
    [] pc[p] = "probe_purge" -> [op |-> "purge", key |-> ProbeKey, val |-> Absent]

Probe(p) ==
  /\ pc[p] \in {"probe_set", "probe_get", "probe_purge"}
  /\ Begin(p, ProbeCall(p))
  /\ Goto(p, ProbeCall(p).op)
  /\ UNCHANGED <<start, tiles, seen, ops, faulty>>

\* a start that keeps the test tile after a miss
Bug_ProbeHolds(p) == pc[p] = "purge" \/ ans[p].res # "error"

\* what New makes of an answer: azblob insists on its own test tile
ProbeHolds(p) ==
  IF pc[p] = "get" /\ start.kind = "azblob" /\ ~ReadOnly
  THEN ans[p] = Store!Hit(TestData)
  ELSE ans[p].res # "error"

\* a start that leaves the deletion out
Bug_AfterProbe(p) == IF pc[p] = "set" THEN "probe_get" ELSE "ready"

AfterProbe(p) ==
  CASE pc[p] = "set"   -> "probe_get"
    [] pc[p] = "get"   -> IF ReadOnly THEN "ready" ELSE "probe_purge"
    [] pc[p] = "purge" -> "ready"

Probed(p) ==
  /\ pc[p] \in {"set", "get", "purge"} /\ req[p] = Idle
  /\ Goto(p, IF ProbeHolds(p) THEN AfterProbe(p) ELSE "refused")
  /\ UNCHANGED <<start, tiles, req, seen, ans, ops, faulty>>

-----------------------------------------------------------------------------
(* The operations.                                                           *)
Call(p, r) ==
  /\ pc[p] = "ready" /\ req[p] = Idle
  /\ ops[p] < MaxOps
  /\ ops' = [ops EXCEPT ![p] = @ + 1]
  /\ Begin(p, r)
  /\ UNCHANGED <<start, tiles, pc, seen, faulty>>

LocalAnswer(p) ==
  /\ req[p] # Idle /\ Local(req[p])
  /\ End(p, Store!Answer(IF req[p].op = "get" THEN "miss" ELSE "ok"))
  /\ UNCHANGED <<start, tiles, pc, ops, faulty>>

\* a request goes to the store
Sent(p, op) == req[p].op = op /\ ~Local(req[p])
Permitted(p) == req[p].op \in start.perms
Missing(p) == tiles[req[p].key] = Absent

\* the deletion of a tile that is not there: an error of gcs and azblob
PurgeRefused(p) ==
  /\ Sent(p, "purge") /\ Permitted(p) /\ Missing(p)
  /\ start.kind \in {"gcs", "azblob"}
  /\ End(p, Store!Answer("error"))
  /\ UNCHANGED <<start, tiles, pc, ops, faulty>>

Apply(p) ==
  tiles' = [tiles EXCEPT ![req[p].key] = IF req[p].op = "set" THEN req[p].val ELSE Absent]

\* the store does what it is asked for, and its answer arrives
Done(p) ==
  /\ Sent(p, "set") \/ (Sent(p, "purge") /\ (~Missing(p) \/ start.kind \in {"s3", "redis"}))
  /\ Permitted(p)
  /\ Apply(p)
  /\ End(p, Store!Answer("ok"))
  /\ UNCHANGED <<start, pc, ops, faulty>>

\* ... or is lost
AnswerLost(p) ==
  /\ Sent(p, "set") \/ (Sent(p, "purge") /\ ~Missing(p))
  /\ Permitted(p)
  /\ Apply(p)
  /\ End(p, Store!Answer("error"))
  /\ faulty' = TRUE
  /\ UNCHANGED <<start, pc, ops>>

\* an object is opened; its body is read later
GetOpens(p) ==
  /\ Sent(p, "get") /\ Permitted(p) /\ ~Missing(p)
  /\ seen[p] = Unsampled
  /\ seen' = [seen EXCEPT ![p] = tiles[req[p].key]]
  /\ UNCHANGED <<start, tiles, pc, req, ans, ops, faulty>>

GetReads(p) ==
  /\ seen[p] # Unsampled
  /\ End(p, Store!Hit(seen[p]))
  /\ UNCHANGED <<start, tiles, pc, ops, faulty>>

GetMisses(p) ==
  /\ Sent(p, "get") /\ Permitted(p) /\ Missing(p) /\ seen[p] = Unsampled
  /\ End(p, Store!Answer("miss"))
  /\ UNCHANGED <<start, tiles, pc, ops, faulty>>

\* an s3 Get that takes every error for a missing key
Bug_Failure(p) == Store!Answer(IF req[p].op = "get" THEN "miss" ELSE "error")

\* the answer to a request that fails; for gcs a Get that cannot open is a miss
Failure(p) ==
  Store!Answer(IF start.kind = "gcs" /\ req[p].op = "get" /\ seen[p] = Unsampled
               THEN "miss" ELSE "error")

Denied(p) ==
  /\ req[p] # Idle /\ ~Local(req[p]) /\ ~Permitted(p)
  /\ End(p, Failure(p))
  /\ UNCHANGED <<start, tiles, pc, ops, faulty>>

RequestLost(p) ==
  /\ req[p] # Idle /\ ~Local(req[p])
  /\ End(p, Failure(p))
  /\ faulty' = TRUE
  /\ UNCHANGED <<start, tiles, pc, ops>>

\* redis: the expiration of a tile
Expire(k) ==
  /\ start.kind = "redis" /\ Given(start.opts, "ttl")
  /\ tiles[k] # Absent
  /\ tiles' = [tiles EXCEPT ![k] = Absent]
  /\ UNCHANGED <<start, pc, req, seen, ans, ops, faulty>>

\* a process dies, and may be started again
Crash(p) ==
  /\ pc[p] \notin {"off", "refused"} /\ ops[p] < MaxOps
  /\ ops' = [ops EXCEPT ![p] = @ + 1]
  /\ Goto(p, "off")
  /\ End(p, IF req[p] = Idle THEN ans[p] ELSE None)
  /\ UNCHANGED <<start, tiles, faulty>>

Next ==
  \/ \E p \in Procs :
       \/ New(p) \/ Probe(p) \/ Probed(p)
       \/ \E r \in Store!Requests : r.key # ProbeKey /\ r.val # TestData /\ Call(p, r)
       \/ LocalAnswer(p) \/ PurgeRefused(p) \/ Done(p) \/ AnswerLost(p)
       \/ GetOpens(p) \/ GetReads(p) \/ GetMisses(p) \/ Denied(p) \/ RequestLost(p)
       \/ Crash(p)
  \/ \E k \in Keys : Expire(k)

Spec == RemoteInit /\ [][Next]_vars

-----------------------------------------------------------------------------
\* The caches keep the contract of cache.Interface, in the form a network
\* allows: a hit is a tile that is stored, a miss (but of gcs) means that there
\* is none, an "ok" that the tile is stored or gone.
ImplementsStore == Store!Spec

\* What New confirms with its test tile: a process that starts may write and
\* purge, and read as well unless the cache is gcs, whose Get reports no error.
ProbeSound ==
  \A p \in Procs :
    pc[p] = "ready" /\ start.kind # "redis" =>
      IF ReadOnly THEN "get" \in start.perms
      ELSE /\ {"set", "purge"} \subseteq start.perms
           /\ start.kind # "gcs" => "get" \in start.perms

\* A process with a good configuration and every permission is refused only
\* when a request was lost, or by gcs and azblob when another process probes
\* with the same key at the same time; and the last one to start without a
\* fault leaves no test tile behind.
StartsClean ==
  /\ \A p \in Procs :
       pc[p] = "refused" /\ Accepted /\ start.perms = {"set", "get", "purge"} /\ ~faulty =>
         /\ start.kind \in {"gcs", "azblob"}
         /\ \E q \in Procs \ {p} : pc[q] # "off" \/ ops[q] > 0
  /\ (\A p \in Procs : pc[p] = "ready") /\ ~faulty => tiles[ProbeKey] = Absent
=============================================================================
