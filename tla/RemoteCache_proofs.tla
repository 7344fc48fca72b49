-------------------------- MODULE RemoteCache_proofs --------------------------
(* Theorems about RemoteCache, for any number of processes, any keys and      *)
(* tiles, and any configurations.                                             *)
EXTENDS RemoteCache, TLAPS

Pcs == {"off", "refused", "probe_set", "set", "probe_get", "get",
        "probe_purge", "purge", "ready"}
Asking == {"set", "get", "purge"}

Typed ==
  /\ start \in Starts
  /\ tiles \in [Keys -> Vals \cup {Absent}]
  /\ pc \in [Procs -> Pcs]
  /\ req \in [Procs -> Store!Requests \cup {Idle}]
  /\ seen \in [Procs -> Vals \cup {Unsampled}]
  /\ ans \in [Procs -> Store!Answers]
  /\ ops \in [Procs -> Nat] /\ faulty \in BOOLEAN

\* what a process asks the store, by its place in New
InCall(p) ==
  /\ pc[p] \notin Asking \cup {"ready"} => req[p] = Idle
  /\ pc[p] \in Asking /\ req[p] # Idle =>
       req[p].op = pc[p] /\ req[p].key = ProbeKey /\ (pc[p] = "set" => req[p].val = TestData)
  /\ pc[p] = "ready" /\ req[p] # Idle => req[p].key # ProbeKey
  /\ seen[p] # Unsampled => req[p].op = "get" /\ req[p].op \in start.perms
  /\ pc[p] \in {"probe_set", "set", "probe_purge", "purge"} => ~ReadOnly
  /\ pc[p] \notin {"off", "refused", "ready"} => start.kind # "redis"

\* the permissions that a process has found in the answers so far
Confirmed(p) ==
  start.kind # "redis" =>
    /\ pc[p] \in Asking /\ req[p] = Idle /\ ans[p].res # "error" =>
         pc[p] \in start.perms \/ (pc[p] = "get" /\ start.kind = "gcs")
    /\ pc[p] \in {"probe_get", "get", "probe_purge", "purge", "ready"} /\ ~ReadOnly =>
         "set" \in start.perms
    /\ pc[p] \in {"probe_purge", "purge", "ready"} /\ start.kind # "gcs" => "get" \in start.perms
    /\ pc[p] = "ready" /\ ~ReadOnly => "purge" \in start.perms

\* nothing speaks against the start of p
Started(q) == pc[q] # "off" \/ ops[q] > 0
Alone(p)   == \A q \in Procs \ {p} : ~Started(q)
Full       == Accepted /\ start.perms = {"set", "get", "purge"} /\ ~faulty
Unharmed(p)    == Full /\ (start.kind \in {"gcs", "azblob"} => Alone(p))

\* the test tile of p should be in the store
Testing(p) ==
  /\ ~ReadOnly
  /\ \/ pc[p] \in {"probe_get", "get", "probe_purge"}
     \/ pc[p] = "set" /\ req[p] = Idle
     \/ pc[p] = "purge" /\ req[p] # Idle

Faultless(p) ==
  Unharmed(p) =>
    /\ pc[p] # "refused"
    /\ pc[p] \in Asking /\ req[p] = Idle => ProbeHolds(p)
    /\ Alone(p) /\ Testing(p) =>
         tiles[ProbeKey] = TestData /\ seen[p] \in {TestData, Unsampled}

ProcOK(p) == InCall(p) /\ Confirmed(p) /\ Faultless(p)

\* a process that will not remove the test tile any more
Finished(q) ==
  pc[q] = "ready" \/ (pc[q] = "purge" /\ req[q] = Idle /\ ans[q].res # "error")

StoreOK ==
  /\ \A k \in Keys : k \in Beyond => tiles[k] = Absent
  /\ start.kind = "redis" \/ ReadOnly => tiles[ProbeKey] = Absent
  /\ tiles[ProbeKey] # Absent => \E q \in Procs : ~Finished(q)

IInv == Typed /\ StoreOK /\ \A p \in Procs : ProcOK(p)

Same(q) ==
  /\ pc'[q] = pc[q] /\ req'[q] = req[q] /\ seen'[q] = seen[q]
  /\ ans'[q] = ans[q] /\ ops'[q] = ops[q]

-----------------------------------------------------------------------------
\* What only depends on the configuration stays.
LEMMA Configured ==
  ASSUME start' = start
  PROVE  /\ Accepted' = Accepted
         /\ ReadOnly' = ReadOnly
         /\ Link' = Link
<1>1. Accepted' = Accepted
  BY DEF Accepted, S3Accepts, GcsAccepts, AzAccepts, RedisAccepts, RedisOptions,
     Wrong, Given, Unset, Anonymous
<1>2. ReadOnly' = ReadOnly
  BY DEF ReadOnly, AzReadOnly, Anonymous, Given, Unset
<1>3. Link' = Link
  BY <1>2 DEF Link
<1> QED
  BY <1>1, <1>2, <1>3

LEMMA RequestFacts ==
  ASSUME NEW r \in Store!Requests
  PROVE  /\ r # Idle /\ r.key \in Keys /\ r.op \in Asking
         /\ r.op = "set" => r.val \in Vals
  BY DEF Store!Requests, Idle, Store!Idle, Asking

LEMMA IdleFacts == Idle.op = "idle"
  BY DEF Idle, Store!Idle

LEMMA AnswerFacts ==
  /\ \A s \in {"none", "ok", "miss", "error"} :
       Store!Answer(s) \in Store!Answers /\ Store!Answer(s).res = s
  /\ \A v \in Vals : Store!Hit(v) \in Store!Answers /\ Store!Hit(v).res = "hit"
  BY DEF Store!Answers, Store!Answer, Store!Hit

LEMMA KindFacts ==
  ASSUME Typed
  PROVE  /\ start.kind \in {"redis", "s3", "gcs", "azblob"}
         /\ ReadOnly => start.kind = "azblob"
         /\ ProbeKey \in Keys /\ ProbeKey \notin Beyond
         /\ TestData \in Vals /\ TestData # Absent /\ TestData # Unsampled
  BY RemoteCacheAssumption DEF Typed, ReadOnly

LEMMA InitInvariant == RemoteInit => IInv
<1> SUFFICES ASSUME RemoteInit PROVE IInv
  OBVIOUS
<1>1. Typed
  BY AnswerFacts DEF RemoteInit, Typed, Pcs, None
<1>2. StoreOK
  BY <1>1, KindFacts DEF RemoteInit, StoreOK
<1>3. ASSUME NEW p \in Procs
      PROVE  ProcOK(p)
  BY DEF RemoteInit, ProcOK, InCall, Confirmed, Faultless, Testing, Asking
<1> QED
  BY <1>1, <1>2, <1>3 DEF IInv

-----------------------------------------------------------------------------
\* Once a process has started, what holds of the others no longer depends on
\* the store.
LEMMA Others ==
  ASSUME NEW p \in Procs, NEW q \in Procs \ {p}, ProcOK(q), Same(q), start' = start,
         faulty => faulty', Started(p)'
  PROVE  ProcOK(q)'
<1> Accepted' = Accepted /\ ReadOnly' = ReadOnly
  BY Configured
<1>1. InCall(q)'
  BY DEF ProcOK, InCall, Same
<1>2. Confirmed(q)'
  BY DEF ProcOK, Confirmed, Same
<1>3. ~Alone(q)'
  BY DEF Alone
<1>4. Unharmed(q)' => Unharmed(q) /\ start.kind \notin {"gcs", "azblob"}
  BY <1>3 DEF Unharmed, Full
<1>5. ProbeHolds(q)' <=> ProbeHolds(q)
  BY DEF ProbeHolds, Same
<1>6. Faultless(q)'
  BY <1>3, <1>4, <1>5 DEF ProcOK, Faultless, Same
<1> QED
  BY <1>1, <1>2, <1>6 DEF ProcOK

\* So it is enough to look at the process that takes the step and at the store.
LEMMA OneProcess ==
  ASSUME IInv, NEW p \in Procs, Typed', StoreOK', ProcOK(p)',
         \A q \in Procs \ {p} : Same(q), start' = start, faulty => faulty', Started(p)'
  PROVE  IInv'
<1>1. \A q \in Procs \ {p} : ProcOK(q)'
  BY Others DEF IInv
<1> QED
  BY <1>1 DEF IInv

\* Others that keep still neither start nor fail.
LEMMA StillGood ==
  ASSUME NEW p \in Procs, \A q \in Procs \ {p} : Same(q), start' = start, faulty => faulty'
  PROVE  /\ Alone(p)' <=> Alone(p)
         /\ Unharmed(p)' => Unharmed(p) /\ ~faulty'
<1>1. Alone(p)' <=> Alone(p)
  BY DEF Alone, Started, Same
<1>2. Accepted' = Accepted
  BY Configured
<1> QED
  BY <1>1, <1>2 DEF Unharmed, Full

\* A step that leaves the store alone and does not finish with the test tile.
LEMMA SameTiles ==
  ASSUME IInv, NEW p \in Procs, \A q \in Procs \ {p} : Same(q), start' = start, tiles' = tiles,
         Finished(p)' => Finished(p) \/ start.kind = "redis" \/ ReadOnly
  PROVE  StoreOK'
<1> ReadOnly' = ReadOnly
  BY Configured
<1>1. \A q \in Procs \ {p} : Finished(q)' <=> Finished(q)
  BY DEF Finished, Same
<1>2. start'.kind = "redis" \/ ReadOnly' => tiles'[ProbeKey] = Absent
  BY DEF IInv, StoreOK
<1>3. tiles'[ProbeKey] # Absent => \E q \in Procs : ~Finished(q)'
  BY <1>1, <1>2 DEF IInv, StoreOK
<1> QED
  BY <1>2, <1>3 DEF IInv, StoreOK

-----------------------------------------------------------------------------
\* What an answer does to the process and, in the same way, to the store's client.
LEMMA EndFacts ==
  ASSUME IInv, NEW p \in Procs, NEW a \in Store!Answers, End(p, a),
         UNCHANGED <<start, pc, ops>>
  PROVE  /\ req'[p] = Idle /\ seen'[p] = Unsampled /\ ans'[p] = a
         /\ pc'[p] = pc[p] /\ ops'[p] = ops[p]
         /\ \A q \in Procs \ {p} : Same(q)
         /\ req' \in [Procs -> Store!Requests \cup {Idle}]
         /\ seen' \in [Procs -> Vals \cup {Unsampled}]
         /\ ans' \in [Procs -> Store!Answers]
         /\ Store!Return(p, a)
<1>1. /\ req \in [Procs -> Store!Requests \cup {Idle}]
      /\ seen \in [Procs -> Vals \cup {Unsampled}]
      /\ ans \in [Procs -> Store!Answers]
  BY DEF IInv, Typed
<1>2. Store!Return(p, a)
  BY Configured DEF End, Store!Return, Idle
<1> QED
  BY <1>1, <1>2 DEF End, Same

\* A process in a call has been started.
LEMMA Calling ==
  ASSUME IInv, NEW p \in Procs, req[p] # Idle
  PROVE  /\ pc[p] \in Asking \cup {"ready"}
         /\ req[p] \in Store!Requests /\ req[p].key \in Keys
         /\ req[p].op \in Asking /\ (req[p].op = "set" => req[p].val \in Vals)
         /\ InCall(p) /\ Confirmed(p) /\ Faultless(p)
<1>1. InCall(p) /\ Confirmed(p) /\ Faultless(p)
  BY DEF IInv, ProcOK
<1>2. req[p] \in Store!Requests
  BY DEF IInv, Typed
<1> QED
  BY <1>1, <1>2, RequestFacts DEF InCall

\* An answer that comes without a change of the store keeps the invariant if it
\* tells the truth about the permissions and is no error without a reason.
LEMMA AnswerStep ==
  ASSUME IInv, NEW p \in Procs, NEW a \in Store!Answers, req[p] # Idle, End(p, a),
         UNCHANGED <<start, tiles, pc, ops>>, faulty => faulty', faulty' \in BOOLEAN,
         pc[p] = "get" /\ a.res # "error" =>
           "get" \in start.perms \/ start.kind = "gcs" \/ start.kind = "redis",
         pc[p] \in {"set", "purge"} => a.res = "error",
         Unharmed(p) /\ ~faulty' /\ pc[p] \in Asking =>
           /\ a.res # "error"
           /\ start.kind = "azblob" /\ ~ReadOnly => a = Store!Hit(TestData)
  PROVE  IInv' /\ Store!Return(p, a)
<1> InCall(p) /\ Confirmed(p) /\ Faultless(p) /\ pc[p] \in Asking \cup {"ready"}
  BY Calling
<1> Accepted' = Accepted /\ ReadOnly' = ReadOnly
  BY Configured
<1>1. /\ req'[p] = Idle /\ seen'[p] = Unsampled /\ ans'[p] = a
      /\ pc'[p] = pc[p] /\ ops'[p] = ops[p]
      /\ \A q \in Procs \ {p} : Same(q)
      /\ Store!Return(p, a)
  BY EndFacts
<1>2. Typed'
  BY EndFacts DEF IInv, Typed
<1>3. StoreOK'
  <2>1. Finished(p)' => Finished(p)
    BY <1>1 DEF Finished
  <2> QED
    BY <1>1, <2>1, SameTiles
<1>4. InCall(p)'
  BY <1>1, IdleFacts DEF InCall, Asking
<1>5. Confirmed(p)'
  BY <1>1 DEF Confirmed, Asking
<1>6. Alone(p)' = Alone(p) /\ (Unharmed(p)' => Unharmed(p) /\ ~faulty')
  BY <1>1, StillGood DEF Alone
<1>7. Faultless(p)'
  <2>1. Unharmed(p)' => pc[p] # "set" /\ pc[p] # "purge"
    BY <1>6 DEF Asking
  <2>2. ProbeHolds(p)' <=> IF pc[p] = "get" /\ start.kind = "azblob" /\ ~ReadOnly
                           THEN a = Store!Hit(TestData) ELSE a.res # "error"
    BY <1>1 DEF ProbeHolds, Store!Hit
  <2>3. Unharmed(p)' /\ Testing(p)' => Testing(p)
    BY <1>1, <2>1 DEF Testing
  <2> QED
    BY <1>1, <1>6, <2>1, <2>2, <2>3 DEF Faultless
<1>8. Started(p)'
  BY <1>1 DEF Started, Asking
<1>9. ProcOK(p)'
  BY <1>4, <1>5, <1>7 DEF ProcOK
<1> QED
  BY <1>1, <1>2, <1>3, <1>8, <1>9, OneProcess

-----------------------------------------------------------------------------
\* A request that never leaves the process: no process asks one in its probe.
LEMMA LocalAnswerStep ==
  ASSUME IInv, NEW p \in Procs, LocalAnswer(p)
  PROVE  IInv' /\ (Store!GetMiss(p) \/ Store!SetOk(p) \/ Store!Ignore(p))
<1> DEFINE a == Store!Answer(IF req[p].op = "get" THEN "miss" ELSE "ok")
<1>1. /\ req[p] # Idle /\ Local(req[p]) /\ End(p, a)
      /\ UNCHANGED <<start, tiles, pc, ops, faulty>>
  BY DEF LocalAnswer
<1>2. /\ InCall(p) /\ pc[p] \in Asking \cup {"ready"}
      /\ req[p].op \in Asking /\ req[p].key \in Keys
  BY <1>1, Calling
<1>3. ProbeKey \notin Beyond /\ faulty \in BOOLEAN
  BY KindFacts DEF IInv, Typed
<1>4. pc[p] = "ready"
  BY <1>1, <1>2, <1>3 DEF InCall, Local, Asking
<1>5. a \in Store!Answers
  BY AnswerFacts
<1> HIDE DEF a
<1>6. IInv' /\ Store!Return(p, a)
  BY <1>1, <1>3, <1>4, <1>5, AnswerStep DEF Asking
<1>7. CASE req[p].op = "get"
  <2>1. tiles[req[p].key] = Absent
    BY <1>1, <1>2, <1>7 DEF Local, IInv, StoreOK
  <2>2. Store!Return(p, Store!Answer("miss"))
    BY <1>6, <1>7 DEF a
  <2> QED
    BY <1>1, <1>6, <1>7, <2>1, <2>2 DEF Store!GetMiss
<1>8. CASE req[p].op # "get"
  <2>1. Store!Return(p, Store!Answer("ok")) /\ req[p].op \in {"set", "purge"}
    BY <1>2, <1>6, <1>8 DEF a, Asking
  <2>2. CASE ReadOnly
    BY <1>1, <1>6, <2>1, <2>2 DEF Store!Ignore, Link
  <2>3. CASE req[p].op = "set" /\ req[p].key \in Beyond
    BY <1>1, <1>6, <2>1, <2>3 DEF Store!SetOk, Store!Stored
  <2> QED
    BY <1>1, <1>8, <2>2, <2>3 DEF Local
<1> QED
  BY <1>7, <1>8

\* The end of a Get: what it read, or that there is nothing.
LEMMA GetReadsStep ==
  ASSUME IInv, NEW p \in Procs, GetReads(p)
  PROVE  IInv' /\ Store!GetHit(p)
<1>1. /\ seen[p] # Unsampled /\ End(p, Store!Hit(seen[p]))
      /\ UNCHANGED <<start, tiles, pc, ops, faulty>>
  BY DEF GetReads
<1>2. InCall(p) /\ Faultless(p) /\ seen[p] \in Vals /\ faulty \in BOOLEAN
  BY <1>1 DEF IInv, Typed, ProcOK
<1>3. req[p].op = "get" /\ req[p].op \in start.perms /\ req[p] # Idle
  BY <1>1, <1>2, IdleFacts DEF InCall
<1>4. Store!Hit(seen[p]) \in Store!Answers /\ Store!Hit(seen[p]).res = "hit"
  BY <1>2, AnswerFacts
<1>5. pc[p] \notin {"set", "purge"}
  BY <1>2, <1>3 DEF InCall, Asking
<1>6. Unharmed(p) /\ pc[p] \in Asking /\ start.kind = "azblob" /\ ~ReadOnly =>
        Store!Hit(seen[p]) = Store!Hit(TestData)
  BY <1>1, <1>2, <1>5 DEF Faultless, Unharmed, Testing, Asking
<1>7. IInv' /\ Store!Return(p, Store!Hit(seen[p]))
  BY <1>1, <1>2, <1>3, <1>4, <1>5, <1>6, AnswerStep
<1> QED
  BY <1>1, <1>3, <1>7 DEF Store!GetHit

LEMMA GetMissesStep ==
  ASSUME IInv, NEW p \in Procs, GetMisses(p)
  PROVE  IInv' /\ Store!GetMiss(p)
<1>1. /\ req[p].op = "get" /\ req[p].op \in start.perms /\ tiles[req[p].key] = Absent
      /\ End(p, Store!Answer("miss")) /\ UNCHANGED <<start, tiles, pc, ops, faulty>>
  BY DEF GetMisses, Sent, Permitted, Missing
<1>2. req[p] # Idle
  BY <1>1, IdleFacts
<1>3. InCall(p) /\ Faultless(p) /\ faulty \in BOOLEAN
  BY DEF IInv, Typed, ProcOK
<1>4. pc[p] \notin {"set", "purge"}
  BY <1>1, <1>2, <1>3 DEF InCall, Asking
<1>5. Unharmed(p) /\ pc[p] \in Asking => start.kind # "azblob" \/ ReadOnly
  <2>1. pc[p] \in Asking => pc[p] = "get" /\ req[p].key = ProbeKey
    BY <1>2, <1>3, <1>4 DEF InCall, Asking
  <2>2. TestData # Absent
    BY KindFacts DEF IInv
  <2> QED
    BY <1>1, <1>3, <2>1, <2>2 DEF Faultless, Unharmed, Testing
<1>6. IInv' /\ Store!Return(p, Store!Answer("miss"))
  BY <1>1, <1>2, <1>3, <1>4, <1>5, AnswerFacts, AnswerStep
<1> QED
  BY <1>1, <1>6 DEF Store!GetMiss

\* The deletion of a missing test tile is refused: another process has removed it.
LEMMA PurgeRefusedStep ==
  ASSUME IInv, NEW p \in Procs, PurgeRefused(p)
  PROVE  IInv' /\ Store!Error(p)
<1>1. /\ req[p].op = "purge" /\ tiles[req[p].key] = Absent /\ start.kind \in {"gcs", "azblob"}
      /\ End(p, Store!Answer("error")) /\ UNCHANGED <<start, tiles, pc, ops, faulty>>
  BY DEF PurgeRefused, Sent, Missing
<1>2. req[p] # Idle
  BY <1>1, IdleFacts
<1>3. InCall(p) /\ Faultless(p) /\ faulty \in BOOLEAN
  BY DEF IInv, Typed, ProcOK
<1>4. pc[p] # "get"
  BY <1>1, <1>2, <1>3 DEF InCall, Asking
<1>5. ~(Unharmed(p) /\ pc[p] \in Asking)
  <2>1. pc[p] \in Asking => pc[p] = "purge" /\ req[p].key = ProbeKey /\ ~ReadOnly
    BY <1>1, <1>2, <1>3 DEF InCall, Asking
  <2>2. TestData # Absent
    BY KindFacts DEF IInv
  <2> QED
    BY <1>1, <1>2, <1>3, <2>1, <2>2 DEF Faultless, Unharmed, Testing
<1>6. IInv' /\ Store!Return(p, Store!Answer("error"))
  BY <1>1, <1>2, <1>3, <1>4, <1>5, AnswerFacts, AnswerStep
<1> QED
  BY <1>1, <1>2, <1>6 DEF Store!Error, Idle

\* A request that fails has changed nothing; only gcs takes that for a miss.
LEMMA FailureStep ==
  ASSUME IInv, NEW p \in Procs, Denied(p) \/ RequestLost(p)
  PROVE  IInv' /\ (Store!Error(p) \/ Store!GetMiss(p))
<1>1. /\ req[p] # Idle /\ End(p, Failure(p)) /\ UNCHANGED <<start, tiles, pc, ops>>
      /\ \/ req[p].op \notin start.perms /\ faulty' = faulty
         \/ faulty' = TRUE
  BY DEF Denied, RequestLost, Permitted
<1>2. InCall(p) /\ faulty \in BOOLEAN /\ req[p].op \in Asking
  BY <1>1, Calling DEF IInv, Typed
<1>3. \/ Failure(p) = Store!Answer("error")
      \/ Failure(p) = Store!Answer("miss") /\ start.kind = "gcs" /\ req[p].op = "get"
  BY DEF Failure
<1>4. Failure(p) \in Store!Answers
  BY <1>3, AnswerFacts
<1>5. ~(Unharmed(p) /\ ~faulty')
  BY <1>1, <1>2 DEF Unharmed, Full, Asking
<1>6. pc[p] = "get" /\ Failure(p).res # "error" => start.kind = "gcs"
  BY <1>3, AnswerFacts
<1>7. pc[p] \in {"set", "purge"} => Failure(p).res = "error"
  <2>1. pc[p] \in {"set", "purge"} => req[p].op # "get"
    BY <1>1, <1>2 DEF InCall, Asking
  <2> QED
    BY <1>3, <2>1, AnswerFacts
<1>8. faulty => faulty'
  BY <1>1
<1>9. faulty' \in BOOLEAN
  BY <1>1, <1>2
<1>10. IInv' /\ Store!Return(p, Failure(p))
  BY <1>1, <1>4, <1>5, <1>6, <1>7, <1>8, <1>9, AnswerStep
<1>11. CASE Failure(p) = Store!Answer("error")
  <2>1. Store!Return(p, Store!Answer("error"))
    BY <1>10, <1>11 DEF Store!Return
  <2> QED
    BY <1>1, <1>10, <2>1 DEF Store!Error, Idle
<1>12. CASE Failure(p) = Store!Answer("miss") /\ start.kind = "gcs" /\ req[p].op = "get"
  <2>1. Store!Return(p, Store!Answer("miss"))
    BY <1>10, <1>12 DEF Store!Return
  <2>2. "hides" \in Link
    BY <1>12 DEF Link
  <2> QED
    BY <1>1, <1>10, <1>12, <2>1, <2>2 DEF Store!GetMiss
<1> QED
  BY <1>3, <1>11, <1>12

-----------------------------------------------------------------------------
\* A Set or a Purge takes effect; its answer arrives or is lost.
LEMMA AppliedStep ==
  ASSUME IInv, NEW p \in Procs, Done(p) \/ AnswerLost(p)
  PROVE  IInv' /\ (Store!SetOk(p) \/ Store!PurgeOk(p) \/ Store!Late(p))
<1> DEFINE k == req[p].key
           x == IF req[p].op = "set" THEN req[p].val ELSE Absent
<1>1. /\ req[p].op \in {"set", "purge"} /\ ~Local(req[p]) /\ req[p].op \in start.perms
      /\ Apply(p) /\ UNCHANGED <<start, pc, ops>>
  BY DEF Done, AnswerLost, Sent, Permitted
<1>2. PICK s \in {"ok", "error"} :
        /\ End(p, Store!Answer(s))
        /\ s = "ok" => faulty' = faulty
        /\ s = "error" => faulty' = TRUE
  BY DEF Done, AnswerLost
<1>3. req[p] # Idle
  BY <1>1, IdleFacts
<1>4. /\ InCall(p) /\ Confirmed(p) /\ Faultless(p)
      /\ pc[p] \in Asking \cup {"ready"} /\ k \in Keys
      /\ req[p].op = "set" => req[p].val \in Vals
  BY <1>3, Calling
<1>5. tiles \in [Keys -> Vals \cup {Absent}] /\ faulty \in BOOLEAN /\ start \in Starts
  BY DEF IInv, Typed
<1>6. ~ReadOnly /\ (req[p].op = "set" => k \notin Beyond)
  BY <1>1 DEF Local
<1>7. tiles' = [tiles EXCEPT ![k] = x] /\ x \in Vals \cup {Absent}
  BY <1>1, <1>4 DEF Apply
<1>8. \A j \in Keys : tiles'[j] = IF j = k THEN x ELSE tiles[j]
  BY <1>4, <1>5, <1>7
<1>9. /\ req'[p] = Idle /\ seen'[p] = Unsampled /\ ans'[p] = Store!Answer(s)
      /\ pc'[p] = pc[p] /\ ops'[p] = ops[p] /\ Store!Answer(s).res = s
      /\ \A q \in Procs \ {p} : Same(q)
      /\ req' \in [Procs -> Store!Requests \cup {Idle}]
      /\ seen' \in [Procs -> Vals \cup {Unsampled}]
      /\ ans' \in [Procs -> Store!Answers]
      /\ Store!Return(p, Store!Answer(s))
  <2>1. Store!Answer(s) \in Store!Answers /\ Store!Answer(s).res = s
    BY AnswerFacts
  <2> QED
    BY <1>1, <1>2, <2>1, EndFacts
<1> Accepted' = Accepted /\ ReadOnly' = ReadOnly
  BY <1>1, Configured
<1>10. Typed'
  <2>1. tiles' \in [Keys -> Vals \cup {Absent}]
    BY <1>5, <1>7
  <2>2. faulty' \in BOOLEAN
    BY <1>2, <1>5
  <2> QED
    BY <1>1, <1>9, <2>1, <2>2 DEF IInv, Typed
<1> HIDE DEF k, x
<1>11. pc[p] \in Asking => k = ProbeKey /\ req[p].op = pc[p] /\ start.kind # "redis"
  BY <1>1, <1>3, <1>4 DEF InCall, Asking, k
<1>12. pc[p] \notin Asking => k # ProbeKey /\ pc[p] = "ready"
  BY <1>3, <1>4 DEF InCall, k
<1>13. ProbeKey \in Keys /\ TestData # Absent
  BY KindFacts DEF IInv
<1>14. StoreOK'
  <2>1. \A j \in Keys : j \in Beyond => tiles'[j] = Absent
    BY <1>1, <1>6, <1>8 DEF IInv, StoreOK, x
  <2>2. start'.kind = "redis" \/ ReadOnly' => tiles'[ProbeKey] = Absent
    BY <1>1, <1>6, <1>8, <1>11, <1>12, <1>13 DEF IInv, StoreOK
  <2>3. ASSUME tiles'[ProbeKey] # Absent
        PROVE  \E q \in Procs : ~Finished(q)'
    <3>1. CASE k = ProbeKey
      <4>1. req[p].op = "set"
        BY <1>8, <1>13, <2>3, <3>1 DEF x
      <4>2. pc[p] = "set"
        BY <1>11, <1>12, <3>1, <4>1
      <4> QED
        BY <1>9, <4>2 DEF Finished
    <3>2. CASE k # ProbeKey
      <4>1. pc[p] = "ready"
        BY <1>11, <1>12, <3>2
      <4>2. PICK q \in Procs : ~Finished(q)
        BY <1>8, <1>13, <2>3, <3>2 DEF IInv, StoreOK
      <4>3. q # p
        BY <4>1, <4>2 DEF Finished
      <4> QED
        BY <1>9, <4>2, <4>3 DEF Finished, Same
    <3> QED
      BY <3>1, <3>2
  <2> QED
    BY <2>1, <2>2, <2>3 DEF StoreOK
<1>15. InCall(p)' /\ Confirmed(p)'
  <2>1. InCall(p)'
    BY <1>1, <1>4, <1>9, IdleFacts DEF InCall, Asking
  <2>2. Confirmed(p)'
    BY <1>1, <1>4, <1>9, <1>11 DEF Confirmed, Asking
  <2> QED
    BY <2>1, <2>2
<1>16. Faultless(p)'
  <2>1. Alone(p)' = Alone(p) /\ (Unharmed(p)' => Unharmed(p) /\ ~faulty')
    BY <1>1, <1>2, <1>9, StillGood DEF Alone
  <2>2. Unharmed(p)' => s = "ok"
    BY <1>2, <2>1
  <2>3. s = "ok" /\ pc[p] \in Asking => ProbeHolds(p)'
    BY <1>1, <1>9, <1>11 DEF ProbeHolds
  <2>4. Testing(p)' => tiles'[ProbeKey] = TestData
    <3>1. Testing(p)' => pc[p] = "set"
      BY <1>1, <1>4, <1>9, <1>11 DEF Testing, Asking
    <3>2. pc[p] = "set" => x = TestData
      BY <1>3, <1>4, <1>11 DEF InCall, Asking, x
    <3> QED
      BY <1>8, <1>11, <1>13, <3>1, <3>2 DEF Asking
  <2> QED
    BY <1>4, <1>9, <2>1, <2>2, <2>3, <2>4 DEF Faultless
<1>17. IInv'
  <2>1. ProcOK(p)'
    BY <1>15, <1>16 DEF ProcOK
  <2>2. Started(p)'
    BY <1>4, <1>9 DEF Started, Asking
  <2>3. faulty => faulty'
    BY <1>2
  <2> QED
    BY <1>1, <1>9, <1>10, <1>14, <2>1, <2>2, <2>3, OneProcess
<1>18. CASE s = "ok"
  <2>1. Store!Return(p, Store!Answer("ok"))
    BY <1>9, <1>18
  <2> QED
    BY <1>1, <1>6, <1>7, <1>17, <2>1
       DEF Store!SetOk, Store!PurgeOk, Store!Stored, Store!Removed, k, x
<1>19. CASE s = "error"
  <2>1. Store!Return(p, Store!Answer("error")) /\ "late" \in Link
    BY <1>9, <1>19 DEF Link
  <2> QED
    BY <1>1, <1>6, <1>7, <1>17, <2>1
       DEF Store!Late, Store!Stored, Store!Removed, k, x
<1> QED
  BY <1>18, <1>19

-----------------------------------------------------------------------------
\* New decides on the configuration; the ping of redis may be lost.
LEMMA NewStep ==
  ASSUME IInv, NEW p \in Procs, New(p)
  PROVE  IInv' /\ UNCHANGED Store!vars
<1>1. /\ pc[p] = "off" /\ req[p] = Idle /\ seen[p] = Unsampled
      /\ UNCHANGED <<start, tiles, req, seen, ans, ops>>
  BY IdleFacts DEF New, IInv, ProcOK, InCall, Asking
<1> Accepted' = Accepted /\ ReadOnly' = ReadOnly
  BY <1>1, Configured
<1>2. /\ faulty \in BOOLEAN /\ faulty' \in {faulty, TRUE}
      /\ \/ pc'[p] = "refused" /\ (~Accepted \/ faulty')
         \/ pc'[p] = "ready" /\ start.kind = "redis"
         \/ pc'[p] = "probe_get" /\ ReadOnly /\ start.kind # "redis"
         \/ pc'[p] = "probe_set" /\ ~ReadOnly /\ start.kind # "redis"
  BY DEF New, Goto, IInv, Typed
<1>3. Typed' /\ \A q \in Procs \ {p} : Same(q)
  <2>1. pc' \in [Procs -> Pcs] /\ \A q \in Procs \ {p} : pc'[q] = pc[q]
    BY DEF New, Goto, IInv, Typed, Pcs
  <2>2. faulty' \in BOOLEAN
    BY <1>2
  <2> QED
    BY <1>1, <2>1, <2>2 DEF IInv, Typed, Same
<1>4. StoreOK'
  <2>1. Finished(p)' => start.kind = "redis"
    BY <1>2 DEF Finished
  <2> QED
    BY <1>1, <1>3, <2>1, SameTiles
<1>5. ProcOK(p)'
  <2>1. InCall(p)'
    BY <1>1, <1>2 DEF InCall, Asking
  <2>2. Confirmed(p)'
    BY <1>1, <1>2 DEF Confirmed, Asking
  <2>3. Faultless(p)'
    BY <1>1, <1>2 DEF Faultless, Unharmed, Full, Testing, Asking
  <2> QED
    BY <2>1, <2>2, <2>3 DEF ProcOK
<1>6. Started(p)' /\ (faulty => faulty')
  BY <1>2 DEF Started
<1>7. IInv'
  BY <1>1, <1>3, <1>4, <1>5, <1>6, OneProcess
<1> QED
  BY <1>1, <1>7, Configured DEF Store!vars

\* A process asks the store, for its probe or for a user of the cache.
LEMMA BeginStep ==
  ASSUME IInv, NEW p \in Procs, NEW r \in Store!Requests, NEW l \in Pcs, Begin(p, r),
         req[p] = Idle, UNCHANGED <<start, tiles, seen, faulty>>, Goto(p, l),
         ops' \in [Procs -> Nat], \A q \in Procs \ {p} : ops'[q] = ops[q],
         \/ /\ pc[p] = "ready" /\ l = "ready" /\ r.key # ProbeKey
         \/ /\ l = r.op /\ r.key = ProbeKey /\ (l = "set" => r.val = TestData)
            /\ \/ pc[p] = "probe_set" /\ l = "set"
               \/ pc[p] = "probe_get" /\ l = "get"
               \/ pc[p] = "probe_purge" /\ l = "purge"
  PROVE  IInv' /\ Store!Call(p, r)
<1> Accepted' = Accepted /\ ReadOnly' = ReadOnly
  BY Configured
<1> InCall(p) /\ Confirmed(p) /\ Faultless(p)
  BY DEF IInv, ProcOK
<1>1. /\ pc'[p] = l /\ req'[p] = r /\ ans'[p] = None /\ seen[p] = Unsampled
      /\ r # Idle /\ r.op \in Asking
  BY IdleFacts, RequestFacts DEF Begin, Goto, IInv, Typed, InCall
<1>2. Typed' /\ \A q \in Procs \ {p} : Same(q)
  <2>1. /\ pc' \in [Procs -> Pcs] /\ req' \in [Procs -> Store!Requests \cup {Idle}]
        /\ ans' \in [Procs -> Store!Answers]
    BY AnswerFacts DEF Begin, Goto, IInv, Typed, None
  <2>2. \A q \in Procs \ {p} : pc'[q] = pc[q] /\ req'[q] = req[q] /\ ans'[q] = ans[q]
    BY DEF Begin, Goto, IInv, Typed
  <2> QED
    BY <2>1, <2>2 DEF IInv, Typed, Same
<1>3. StoreOK'
  <2>1. Finished(p)' => Finished(p)
    BY <1>1 DEF Finished
  <2> QED
    BY <1>2, <2>1, SameTiles
<1>4. ProcOK(p)'
  <2>1. InCall(p)'
    BY <1>1 DEF InCall, Asking
  <2>2. Confirmed(p)'
    BY <1>1 DEF Confirmed, Asking
  <2>3. Alone(p)' = Alone(p) /\ (Unharmed(p)' => Unharmed(p))
    BY <1>2, StillGood DEF Alone
  <2>4. Testing(p)' => Testing(p)
    BY <1>1 DEF Testing
  <2>5. Faultless(p)'
    BY <1>1, <2>3, <2>4 DEF Faultless
  <2> QED
    BY <2>1, <2>2, <2>5 DEF ProcOK
<1>5. Started(p)'
  BY <1>1 DEF Started
<1>6. IInv'
  BY <1>2, <1>3, <1>4, <1>5, OneProcess
<1>7. Store!Call(p, r)
  <2>1. r.op # "get" => p \in [k \in Keys |-> Procs][r.key]
    BY RequestFacts
  <2> QED
    BY <2>1, Configured DEF Store!Call, Begin, Idle, None
<1> QED
  BY <1>6, <1>7

LEMMA ProbeStep ==
  ASSUME IInv, NEW p \in Procs, Probe(p)
  PROVE  IInv' /\ \E r \in Store!Requests : Store!Call(p, r)
<1> DEFINE r == ProbeCall(p)
<1>1. /\ pc[p] \in {"probe_set", "probe_get", "probe_purge"} /\ req[p] = Idle
      /\ Begin(p, r) /\ Goto(p, r.op) /\ UNCHANGED <<start, tiles, seen, ops, faulty>>
  BY DEF Probe, IInv, ProcOK, InCall, Asking
<1>2. ProbeKey \in Keys /\ TestData \in Vals
  BY KindFacts DEF IInv
<1>3. /\ pc[p] = "probe_set" => r = [op |-> "set", key |-> ProbeKey, val |-> TestData]
      /\ pc[p] = "probe_get" => r = [op |-> "get", key |-> ProbeKey, val |-> Absent]
      /\ pc[p] = "probe_purge" => r = [op |-> "purge", key |-> ProbeKey, val |-> Absent]
  BY DEF ProbeCall
<1> HIDE DEF r
<1>4. r \in Store!Requests
  BY <1>1, <1>2, <1>3 DEF Store!Requests
<1>5. r.op \in Pcs
  BY <1>1, <1>3 DEF Pcs
<1>6. ops' \in [Procs -> Nat] /\ \A q \in Procs \ {p} : ops'[q] = ops[q]
  BY <1>1 DEF IInv, Typed
<1>7. /\ r.key = ProbeKey /\ (r.op = "set" => r.val = TestData)
      /\ \/ pc[p] = "probe_set" /\ r.op = "set"
         \/ pc[p] = "probe_get" /\ r.op = "get"
         \/ pc[p] = "probe_purge" /\ r.op = "purge"
  BY <1>1, <1>3
<1>8. IInv' /\ Store!Call(p, r)
  BY <1>1, <1>4, <1>5, <1>6, <1>7, BeginStep
<1> QED
  BY <1>4, <1>8

LEMMA CallStep ==
  ASSUME IInv, NEW p \in Procs, NEW r \in Store!Requests, r.key # ProbeKey, Call(p, r)
  PROVE  IInv' /\ Store!Call(p, r)
<1>1. /\ pc[p] = "ready" /\ req[p] = Idle /\ Begin(p, r)
      /\ UNCHANGED <<start, tiles, seen, faulty>> /\ pc' = pc
      /\ ops' = [ops EXCEPT ![p] = ops[p] + 1]
  BY DEF Call
<1>2. ops' \in [Procs -> Nat] /\ \A q \in Procs \ {p} : ops'[q] = ops[q]
  BY <1>1 DEF IInv, Typed
<1>3. Goto(p, "ready")
  BY <1>1 DEF Goto, IInv, Typed
<1> QED
  BY <1>1, <1>2, <1>3, BeginStep DEF Pcs

\* What New makes of the answer to a step of its probe.
LEMMA ProbedStep ==
  ASSUME IInv, NEW p \in Procs, Probed(p)
  PROVE  IInv' /\ UNCHANGED Store!vars
<1>1. /\ pc[p] \in Asking /\ req[p] = Idle
      /\ UNCHANGED <<start, tiles, req, seen, ans, ops, faulty>>
  BY DEF Probed, Asking
<1> Accepted' = Accepted /\ ReadOnly' = ReadOnly
  BY <1>1, Configured
<1> InCall(p) /\ Confirmed(p) /\ Faultless(p)
  BY DEF IInv, ProcOK
<1>2. \/ pc'[p] = "refused" /\ ~ProbeHolds(p)
      \/ /\ ProbeHolds(p)
         /\ \/ pc[p] = "set" /\ pc'[p] = "probe_get"
            \/ pc[p] = "get" /\ ReadOnly /\ pc'[p] = "ready"
            \/ pc[p] = "get" /\ ~ReadOnly /\ pc'[p] = "probe_purge"
            \/ pc[p] = "purge" /\ pc'[p] = "ready"
  <2>1. /\ pc[p] = "set" => AfterProbe(p) = "probe_get"
        /\ pc[p] = "get" => AfterProbe(p) = IF ReadOnly THEN "ready" ELSE "probe_purge"
        /\ pc[p] = "purge" => AfterProbe(p) = "ready"
    BY DEF AfterProbe
  <2>2. pc'[p] = IF ProbeHolds(p) THEN AfterProbe(p) ELSE "refused"
    BY DEF Probed, Goto, IInv, Typed
  <2> QED
    BY <1>1, <2>1, <2>2 DEF Asking
<1>3. ProbeHolds(p) => ans[p].res # "error"
  BY AnswerFacts, KindFacts DEF ProbeHolds, IInv
<1>4. \A q \in Procs \ {p} : Same(q)
  BY <1>1 DEF Probed, Goto, IInv, Typed, Same
<1>5. Typed'
  <2>1. pc'[p] \in Pcs /\ \A q \in Procs \ {p} : pc'[q] = pc[q]
    BY <1>2, <1>4 DEF Pcs, Same
  <2>2. pc' \in [Procs -> Pcs]
    BY <2>1 DEF Probed, Goto, IInv, Typed
  <2> QED
    BY <1>1, <2>2 DEF IInv, Typed
<1>6. StoreOK'
  <2>1. Finished(p)' => Finished(p) \/ ReadOnly
    BY <1>1, <1>2, <1>3 DEF Finished
  <2> QED
    BY <1>1, <1>4, <2>1, SameTiles
<1>7. ProcOK(p)'
  <2>1. InCall(p)'
    BY <1>1, <1>2 DEF InCall, Asking
  <2>2. Confirmed(p)'
    <3>1. start.kind # "redis" /\ pc'[p] # "refused" =>
            pc[p] \in start.perms \/ (pc[p] = "get" /\ start.kind = "gcs")
      BY <1>1, <1>2, <1>3 DEF Confirmed
    <3>2. ReadOnly => start.kind = "azblob"
      BY KindFacts DEF IInv
    <3> QED
      BY <1>1, <1>2, <3>1, <3>2 DEF Confirmed, InCall, Asking
  <2>3. Alone(p)' = Alone(p) /\ (Unharmed(p)' => Unharmed(p))
    BY <1>1, <1>4, StillGood DEF Alone
  <2>4. Testing(p)' => Testing(p)
    BY <1>1, <1>2 DEF Testing
  <2>5. Faultless(p)'
    BY <1>1, <1>2, <2>3, <2>4 DEF Faultless, Asking
  <2> QED
    BY <2>1, <2>2, <2>5 DEF ProcOK
<1>8. Started(p)'
  BY <1>2 DEF Started
<1>9. IInv'
  BY <1>1, <1>4, <1>5, <1>6, <1>7, <1>8, OneProcess
<1> QED
  BY <1>1, <1>9, Configured DEF Store!vars

\* A Get opens an object.
LEMMA GetOpensStep ==
  ASSUME IInv, NEW p \in Procs, GetOpens(p)
  PROVE  IInv' /\ Store!GetSample(p)
<1> DEFINE x == tiles[req[p].key]
<1>1. /\ req[p].op = "get" /\ req[p].op \in start.perms /\ x # Absent /\ seen[p] = Unsampled
      /\ seen' = [seen EXCEPT ![p] = x]
      /\ UNCHANGED <<start, tiles, pc, req, ans, ops, faulty>>
  BY DEF GetOpens, Sent, Permitted, Missing
<1>2. req[p] # Idle
  BY <1>1, IdleFacts
<1>3. /\ InCall(p) /\ Confirmed(p) /\ Faultless(p)
      /\ pc[p] \in Asking \cup {"ready"} /\ req[p].key \in Keys
  BY <1>2, Calling
<1>4. x \in Vals
  BY <1>1, <1>3 DEF IInv, Typed
<1> Accepted' = Accepted /\ ReadOnly' = ReadOnly
  BY <1>1, Configured
<1>5. Typed' /\ seen'[p] = x /\ \A q \in Procs \ {p} : Same(q)
  BY <1>1, <1>4 DEF IInv, Typed, Same
<1>6. StoreOK'
  <2>1. Finished(p)' => Finished(p)
    BY <1>1 DEF Finished
  <2> QED
    BY <1>1, <1>5, <2>1, SameTiles
<1>7. ProcOK(p)'
  <2>1. InCall(p)' /\ Confirmed(p)'
    BY <1>1, <1>3 DEF InCall, Confirmed
  <2>2. Alone(p)' = Alone(p) /\ (Unharmed(p)' => Unharmed(p))
    BY <1>1, <1>5, StillGood DEF Alone
  <2>3. (Testing(p)' <=> Testing(p)) /\ (ProbeHolds(p)' <=> ProbeHolds(p))
    BY <1>1 DEF Testing, ProbeHolds, Store!Hit
  <2>4. Testing(p) => x = tiles[ProbeKey]
    BY <1>1, <1>2, <1>3 DEF Testing, InCall, Asking
  <2>5. Faultless(p)'
    BY <1>1, <1>3, <1>5, <2>2, <2>3, <2>4 DEF Faultless
  <2> QED
    BY <2>1, <2>5 DEF ProcOK
<1>8. Started(p)'
  BY <1>1, <1>3 DEF Started, Asking
<1>9. IInv'
  BY <1>1, <1>5, <1>6, <1>7, <1>8, OneProcess
<1> QED
  BY <1>1, <1>9, Configured DEF Store!GetSample

\* redis forgets a tile: its processes never keep a test tile.
LEMMA ExpireStep ==
  ASSUME IInv, NEW k \in Keys, Expire(k)
  PROVE  IInv' /\ Store!Expire(k)
<1>1. /\ start.kind = "redis" /\ tiles' = [tiles EXCEPT ![k] = Absent]
      /\ UNCHANGED <<start, pc, req, seen, ans, ops, faulty>>
  BY DEF Expire
<1> Accepted' = Accepted /\ ReadOnly' = ReadOnly /\ Link' = Link
  BY <1>1, Configured
<1>2. \A j \in Keys : tiles'[j] = IF j = k THEN Absent ELSE tiles[j]
  BY <1>1 DEF IInv, Typed
<1>3. Typed'
  BY <1>1 DEF IInv, Typed
<1>4. StoreOK'
  <2>1. tiles'[ProbeKey] = Absent
    BY <1>1, <1>2, KindFacts DEF IInv, StoreOK
  <2>2. \A j \in Keys : j \in Beyond => tiles'[j] = Absent
    BY <1>2 DEF IInv, StoreOK
  <2> QED
    BY <2>1, <2>2 DEF StoreOK
<1>5. ASSUME NEW p \in Procs
      PROVE  ProcOK(p)'
  <2> InCall(p) /\ Confirmed(p) /\ Faultless(p)
    BY DEF IInv, ProcOK
  <2>1. InCall(p)' /\ Confirmed(p)'
    BY <1>1 DEF InCall, Confirmed
  <2>2. Unharmed(p)' => Unharmed(p)
    BY <1>1 DEF Unharmed, Full, Alone, Started
  <2>3. ~Testing(p)'
    BY <1>1, <2>1 DEF Testing, InCall
  <2>4. ProbeHolds(p)' <=> ProbeHolds(p)
    BY <1>1 DEF ProbeHolds, Store!Hit
  <2>5. Faultless(p)'
    BY <1>1, <2>2, <2>3, <2>4 DEF Faultless
  <2> QED
    BY <2>1, <2>5 DEF ProcOK
<1>6. IInv'
  BY <1>3, <1>4, <1>5 DEF IInv
<1>7. "expires" \in Link
  BY <1>1 DEF Link
<1> QED
  BY <1>1, <1>6, <1>7 DEF Store!Expire

\* A process dies: it may leave its test tile, and is no longer alone.
LEMMA CrashStep ==
  ASSUME IInv, NEW p \in Procs, Crash(p)
  PROVE  IInv' /\ (Store!Crash(p) \/ UNCHANGED Store!vars)
<1> DEFINE a == IF req[p] = Idle THEN ans[p] ELSE None
<1>1. /\ pc' = [pc EXCEPT ![p] = "off"] /\ ops' = [ops EXCEPT ![p] = ops[p] + 1]
      /\ req' = [req EXCEPT ![p] = Idle] /\ seen' = [seen EXCEPT ![p] = Unsampled]
      /\ ans' = [ans EXCEPT ![p] = a] /\ UNCHANGED <<start, tiles, faulty>>
  BY DEF Crash, Goto, End
<1>2. a \in Store!Answers
  BY AnswerFacts DEF IInv, Typed, None
<1> HIDE DEF a
<1>3. Typed' /\ \A q \in Procs \ {p} : Same(q)
  BY <1>1, <1>2 DEF IInv, Typed, Same, Pcs
<1>4. /\ pc'[p] = "off" /\ ops'[p] > 0 /\ req'[p] = Idle /\ seen'[p] = Unsampled
  BY <1>1 DEF IInv, Typed
<1>5. StoreOK'
  <2>1. ~Finished(p)'
    BY <1>4 DEF Finished
  <2> QED
    BY <1>1, <1>3, <2>1, SameTiles
<1>6. ProcOK(p)'
  BY <1>4 DEF ProcOK, InCall, Confirmed, Faultless, Testing, Asking
<1>7. Started(p)'
  BY <1>4 DEF Started
<1>8. IInv'
  BY <1>1, <1>3, <1>5, <1>6, <1>7, OneProcess
<1>9. CASE req[p] = Idle
  <2>1. seen[p] = Unsampled
    BY <1>9, IdleFacts DEF IInv, ProcOK, InCall
  <2>2. req' = req /\ seen' = seen /\ ans' = ans
    BY <1>1, <1>9, <2>1 DEF IInv, Typed, a
  <2> QED
    BY <1>1, <1>8, <2>2, Configured DEF Store!vars
<1>10. CASE req[p] # Idle
  BY <1>1, <1>8, <1>10, Configured DEF Store!Crash, Store!Return, Idle, None, a
<1> QED
  BY <1>9, <1>10

-----------------------------------------------------------------------------
\* Every step keeps the invariant and is one of the store, or none.
LEMMA Step ==
  ASSUME IInv, [Next]_vars
  PROVE  IInv' /\ [Store!Next]_(Store!vars)
<1>1. CASE UNCHANGED vars
  <2>1. Accepted' = Accepted /\ ReadOnly' = ReadOnly /\ Link' = Link
    BY <1>1, Configured DEF vars
  <2>2. UNCHANGED Store!vars
    BY <1>1, <2>1 DEF vars, Store!vars
  <2>3. Typed' /\ StoreOK'
    BY <1>1, <2>1 DEF vars, IInv, Typed, StoreOK, Finished
  <2>4. ASSUME NEW p \in Procs
        PROVE  ProcOK(p)'
    <3>1. InCall(p)' /\ Confirmed(p)'
      BY <1>1, <2>1 DEF vars, IInv, ProcOK, InCall, Confirmed
    <3>2. /\ Alone(p)' <=> Alone(p)
          /\ Unharmed(p)' <=> Unharmed(p)
          /\ Testing(p)' <=> Testing(p)
          /\ ProbeHolds(p)' <=> ProbeHolds(p)
      BY <1>1, <2>1 DEF vars, Unharmed, Full, Alone, Started, Testing, ProbeHolds, Store!Hit
    <3>3. Faultless(p)'
      BY <1>1, <3>2 DEF vars, IInv, ProcOK, Faultless
    <3> QED
      BY <3>1, <3>3 DEF ProcOK
  <2> QED
    BY <2>2, <2>3, <2>4 DEF IInv
<1>2. ASSUME NEW p \in Procs, New(p) \/ Probe(p) \/ Probed(p) \/ GetOpens(p) \/ Crash(p)
      PROVE  IInv' /\ (Store!Next \/ UNCHANGED Store!vars)
  BY <1>2, NewStep, ProbeStep, ProbedStep, GetOpensStep, CrashStep DEF Store!Next
<1>3. ASSUME NEW p \in Procs, NEW r \in Store!Requests, r.key # ProbeKey, Call(p, r)
      PROVE  IInv' /\ Store!Next
  BY <1>3, CallStep DEF Store!Next
<1>4. ASSUME NEW p \in Procs,
             \/ LocalAnswer(p) \/ PurgeRefused(p) \/ Done(p) \/ AnswerLost(p)
             \/ GetReads(p) \/ GetMisses(p) \/ Denied(p) \/ RequestLost(p)
      PROVE  IInv' /\ Store!Next
  BY <1>4, LocalAnswerStep, PurgeRefusedStep, AppliedStep, GetReadsStep, GetMissesStep,
     FailureStep DEF Store!Next
<1>5. ASSUME NEW k \in Keys, Expire(k)
      PROVE  IInv' /\ Store!Next
  BY <1>5, ExpireStep DEF Store!Next
<1> QED
  BY <1>1, <1>2, <1>3, <1>4, <1>5 DEF Next

LEMMA Invariant == Spec => []IInv
<1>1. IInv /\ [Next]_vars => IInv'
  BY Step
<1> QED
  BY <1>1, InitInvariant, PTL DEF Spec

-----------------------------------------------------------------------------
\* What New confirms with its test tile is true of the account, whatever is lost
\* and whoever probes with the same key.
THEOREM ProbeSoundHolds == Spec => []ProbeSound
<1>1. IInv => ProbeSound
  <2> SUFFICES ASSUME IInv, NEW p \in Procs, pc[p] = "ready", start.kind # "redis"
               PROVE  IF ReadOnly THEN "get" \in start.perms
                      ELSE /\ {"set", "purge"} \subseteq start.perms
                           /\ start.kind # "gcs" => "get" \in start.perms
    BY DEF ProbeSound
  <2>1. Confirmed(p) /\ (ReadOnly => start.kind = "azblob")
    BY KindFacts DEF IInv, ProcOK
  <2> QED
    BY <2>1 DEF Confirmed
<1> QED
  BY <1>1, Invariant, PTL

\* A good configuration with every permission is refused only after a fault or,
\* by gcs and azblob, when another process was started; and when every process
\* is ready none has left its test tile.
THEOREM StartsCleanHolds == Spec => []StartsClean
<1>1. ASSUME IInv
      PROVE  StartsClean
  <2>1. ASSUME NEW p \in Procs, pc[p] = "refused", Accepted,
               start.perms = {"set", "get", "purge"}, ~faulty
        PROVE  /\ start.kind \in {"gcs", "azblob"}
               /\ \E q \in Procs \ {p} : pc[q] # "off" \/ ops[q] > 0
    <3>1. ~Unharmed(p)
      BY <1>1, <2>1 DEF IInv, ProcOK, Faultless
    <3> QED
      BY <2>1, <3>1 DEF Unharmed, Full, Alone, Started
  <2>2. (\A p \in Procs : pc[p] = "ready") => tiles[ProbeKey] = Absent
    BY <1>1 DEF IInv, StoreOK, Finished
  <2> QED
    BY <2>1, <2>2 DEF StartsClean
<1> QED
  BY <1>1, Invariant, PTL

\* The four caches keep the contract of TileStore, as weak as Link makes it: a
\* Set takes effect when the store does it, a Get when it opens the object.
THEOREM StoreImplemented == Spec => ImplementsStore
<1>1. RemoteInit => Store!Init
  BY DEF RemoteInit, Store!Init, Link, Idle, None
<1>2. IInv /\ [Next]_vars => [Store!Next]_(Store!vars)
  BY Step
<1> QED
  BY <1>1, <1>2, Invariant, PTL DEF Spec, ImplementsStore, Store!Spec
===============================================================================
