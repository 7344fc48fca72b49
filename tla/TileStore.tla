------------------------------ MODULE TileStore ------------------------------
(***************************************************************************)
(* What cache.Interface promises its users (cache/cache.go): Set, Get and  *)
(* Purge of a key take effect at one instant between call and return, and  *)
(* an operation that reports an error changed nothing.  The middleware and *)
(* the seed and purge commands rely on this; FileCache implements it.      *)
(* A store behind a network promises less, and link says what: "late", an  *)
(* operation that reports an error may have taken effect; "expires", tiles *)
(* disappear by themselves; "hides", a stored tile may be missed;          *)
(* "ignores", writes are acknowledged and left out.                        *)
(* RemoteCache implements that contract.                                   *)
(***************************************************************************)
CONSTANTS
  Clients,   \* goroutines and processes that share the cache
  Keys,      \* cache keys
  Vals,      \* encoded tiles
  Beyond,    \* the keys above the cache's max_zoom
  MayWrite,  \* MayWrite[k]: the clients that set or purge key k
  Absent,    \* no value
  Unsampled  \* a Get that has not read yet

Requests ==
       [op : {"get"}, key : Keys, val : {Absent}]
  \cup [op : {"purge"}, key : Keys, val : {Absent}]
  \cup [op : {"set"}, key : Keys, val : Vals]
Idle    == [op |-> "idle"]
Answers == [res : {"none", "ok", "miss", "error"}, val : {Absent}]
             \cup [res : {"hit"}, val : Vals]
Answer(r) == [res |-> r, val |-> Absent]
Hit(v)    == [res |-> "hit", val |-> v]

VARIABLES
  tiles,  \* the stored value of each key, or Absent
  req,    \* the operation each client is in
  seen,   \* what a Get of the client has read, or Unsampled
  ans,    \* the answer to the client's last operation
  link    \* how the contract is weakened by the way to the store

vars == <<tiles, req, seen, ans, link>>

Init ==
  /\ tiles = [k \in Keys |-> Absent]
  /\ req = [c \in Clients |-> Idle]
  /\ seen = [c \in Clients |-> Unsampled]
  /\ ans = [c \in Clients |-> Answer("none")]
  /\ link \in SUBSET {"late", "expires", "hides", "ignores"}

Call(c, r) ==
  /\ req[c] = Idle
  /\ r.op # "get" => c \in MayWrite[r.key]
  /\ req' = [req EXCEPT ![c] = r]
  /\ ans' = [ans EXCEPT ![c] = Answer("none")]
  /\ UNCHANGED <<tiles, seen, link>>

Return(c, a) ==
  /\ req' = [req EXCEPT ![c] = Idle]
  /\ seen' = [seen EXCEPT ![c] = Unsampled]
  /\ ans' = [ans EXCEPT ![c] = a]
  /\ UNCHANGED link

Stored(c) ==
  /\ req[c].op = "set"
  /\ tiles' = IF req[c].key \in Beyond THEN tiles
              ELSE [tiles EXCEPT ![req[c].key] = req[c].val]

Removed(c) ==
  /\ req[c].op = "purge"
  /\ tiles' = [tiles EXCEPT ![req[c].key] = Absent]

SetOk(c) == Stored(c) /\ Return(c, Answer("ok"))

PurgeOk(c) == Removed(c) /\ Return(c, Answer("ok"))

GetMiss(c) ==
  /\ req[c].op = "get"
  /\ tiles[req[c].key] = Absent \/ "hides" \in link
  /\ Return(c, Answer("miss"))
  /\ UNCHANGED tiles

GetSample(c) ==
  /\ req[c].op = "get"
  /\ tiles[req[c].key] # Absent
  /\ seen[c] = Unsampled
  /\ seen' = [seen EXCEPT ![c] = tiles[req[c].key]]
  /\ UNCHANGED <<tiles, req, ans, link>>

GetHit(c) ==
  /\ req[c].op = "get"
  /\ seen[c] # Unsampled
  /\ Return(c, Hit(seen[c]))
  /\ UNCHANGED tiles

Error(c) ==
  /\ req[c] # Idle
  /\ Return(c, Answer("error"))
  /\ UNCHANGED tiles

\* the answer of the store is lost on the way
Late(c) ==
  /\ "late" \in link
  /\ Stored(c) \/ Removed(c)
  /\ Return(c, Answer("error"))

Ignore(c) ==
  /\ "ignores" \in link
  /\ req[c].op \in {"set", "purge"}
  /\ Return(c, Answer("ok"))
  /\ UNCHANGED tiles

Expire(k) ==
  /\ "expires" \in link
  /\ tiles' = [tiles EXCEPT ![k] = Absent]
  /\ UNCHANGED <<req, seen, ans, link>>

\* the process of the client dies inside the operation
Crash(c) ==
  /\ req[c] # Idle
  /\ Return(c, Answer("none"))
  /\ UNCHANGED tiles

Next ==
  \/ \E c \in Clients :
       \/ \E r \in Requests : Call(c, r)
       \/ SetOk(c) \/ PurgeOk(c) \/ GetMiss(c) \/ GetSample(c) \/ GetHit(c)
       \/ Error(c) \/ Late(c) \/ Ignore(c) \/ Crash(c)
  \/ \E k \in Keys : Expire(k)

Spec == Init /\ [][Next]_vars
=============================================================================
