------------------------------ MODULE SeedPurge ------------------------------
(***************************************************************************)
(* The `tegola cache seed` and `tegola cache purge` commands               *)
(* (cmd/tegola/cmd/cache): a generator goroutine publishes tiles on an     *)
(* unbuffered channel, doWork pairs every tile with every map and hands    *)
(* the pairs to a pool of workers over a second unbuffered channel, the    *)
(* workers seed or purge the tile cache.  A signal cancels the context; an *)
(* error of a worker or of the generator stops the run.                    *)
(*                                                                         *)
(* A send on an unbuffered channel and its receive are one step.  A        *)
(* cache operation is one step here; FileCache takes it apart.             *)
(***************************************************************************)
EXTENDS Naturals, Sequences

CONSTANTS
  Tiles,        \* the slippy tiles
  Maps,         \* the maps of the atlas
  ParamMaps,    \* the maps with custom query parameters (Map.Params)
  Cacheable,    \* the tiles whose zoom is at most the cache's max_zoom
  TileList,     \* what the generator has to publish, in order
  MapList,      \* seedPurgeMaps, in order
  Workers,      \* the workers doWork starts (--concurrency)
  Source,       \* which generator: "bounds", "tile-list" or "tile-name"
  Command,      \* what the command was called as: "seed" or "purge"
  Overwrite     \* the --overwrite flag

\* seedPurgeCmdValidatePersistent refuses an empty list of maps, so the early
\* return of doWork for one is not reached.
ASSUME SeedPurgeAssumption ==
  /\ ParamMaps \subseteq Maps
  /\ Cacheable \subseteq Tiles
  /\ TileList \in Seq(Tiles)
  /\ MapList \in Seq(Maps)
  /\ Len(MapList) > 0
  /\ Source \in {"bounds", "tile-list", "tile-name"}
  /\ Command \in {"seed", "purge"}
  /\ Overwrite \in BOOLEAN

\* The errors doWork tells apart.  "wrapped" is a cancellation that went through
\* an error type without Unwrap or through %v: errors.Is no longer sees it.
Errors == {"nil", "canceled", "wrapped", "failed"}

NTiles == Len(TileList)
NMaps  == Len(MapList)
Items  == (1..NTiles) \X (1..NMaps)
NoItem == <<0, 0>>
Keys   == Maps \X Tiles

\* cache.Key of a map tile
Key(it) == <<MapList[it[2]], TileList[it[1]]>>

VARIABLES
  ctxCancelled, \* ctx.Err() # nil
  genPc,        \* the generator goroutine: "run", "closing" (returning), "closed"
  sent,         \* tiles received from the generator so far
  genErr,       \* TileChannel.err
  dispPc,       \* where doWork is
  mi,           \* the map doWork is at, for the tile it received last
  cleanup,      \* doWork's cleanup flag
  mapTileErr,   \* the error the workers share
  workerPc,     \* where each worker is
  item,         \* the map tile each worker received last
  werr,         \* the error worker() returned, not yet stored in mapTileErr
  store,        \* the tile cache: how often each key was written, 0 if absent
  shouldExit,   \* what the 60 second watchdog looks at
  watchdog,     \* "off", "armed", "expired" or "killed" (os.Exit(1))
  result,       \* what doWork returned
  late          \* history: map tiles handed over after an error or a cancel

genVars    == <<genPc, genErr>>
dispVars   == <<dispPc, mi, cleanup, result>>
workerVars == <<workerPc, item, werr>>
wdVars     == <<shouldExit, watchdog>>
vars == <<ctxCancelled, genVars, sent, dispVars, mapTileErr, workerVars,
          store, wdVars, late>>

Init ==
  /\ ctxCancelled = FALSE
  /\ genPc = "run" /\ sent = 0 /\ genErr = "nil"
  /\ dispPc = "recv" /\ mi = 1 /\ cleanup = FALSE /\ result = "nil"
  /\ mapTileErr = "nil"
  /\ workerPc = [w \in Workers |-> "idle"]
  /\ item = [w \in Workers |-> NoItem]
  /\ werr = [w \in Workers |-> "nil"]
  /\ store \in [Keys -> {0, 1}]
  /\ shouldExit = TRUE /\ watchdog = "off"
  /\ late = 0

-----------------------------------------------------------------------------
(* The context: a signal reaches gdcmd, whose Cancelled channel cancels ctx. *)

Cancel ==
  /\ ~ctxCancelled
  /\ dispPc # "exited"
  /\ ctxCancelled' = TRUE
  /\ UNCHANGED <<genVars, sent, dispVars, mapTileErr, workerVars, store, wdVars, late>>

-----------------------------------------------------------------------------
(* The generator goroutine.  Its sends are the steps DispReceive and          *)
(* DispDrain.                                                                 *)

\* mutant: the channel is only closed on a cancellation
Bug_GenReturn ==
  /\ genPc = "run"
  /\ ctxCancelled
  /\ genPc' = "closing"
  /\ UNCHANGED <<ctxCancelled, genErr, sent, dispVars, mapTileErr, workerVars,
                 store, wdVars, late>>

\* everything was published, or the select saw ctx.Done()
GenReturn ==
  /\ genPc = "run"
  /\ sent = NTiles \/ ctxCancelled
  /\ genPc' = "closing"
  /\ UNCHANGED <<ctxCancelled, genErr, sent, dispVars, mapTileErr, workerVars,
                 store, wdVars, late>>

\* mutant: returns without setError
Bug_GenFail ==
  /\ genPc = "run"
  /\ Source # "tile-name"
  /\ sent < NTiles
  /\ genPc' = "closing"
  /\ UNCHANGED <<ctxCancelled, genErr, sent, dispVars, mapTileErr, workerVars,
                 store, wdVars, late>>

\* a bad zoom, bounds or line: setError, then the deferred Close
GenFail ==
  /\ genPc = "run"
  /\ Source # "tile-name"
  /\ sent < NTiles
  /\ genErr' = "failed"
  /\ genPc' = "closing"
  /\ UNCHANGED <<ctxCancelled, sent, dispVars, mapTileErr, workerVars, store,
                 wdVars, late>>

\* scanner.Scan() is false after a read error or a line that is too long;
\* nobody asks scanner.Err()
GenScanStops ==
  /\ genPc = "run"
  /\ Source = "tile-list"
  /\ sent < NTiles
  /\ genPc' = "closing"
  /\ UNCHANGED <<ctxCancelled, genErr, sent, dispVars, mapTileErr, workerVars,
                 store, wdVars, late>>

\* TileChannel.Close
GenClose ==
  /\ genPc = "closing"
  /\ genPc' = "closed"
  /\ UNCHANGED <<ctxCancelled, genErr, sent, dispVars, mapTileErr, workerVars,
                 store, wdVars, late>>

GenNext == GenReturn \/ GenFail \/ GenScanStops \/ GenClose

-----------------------------------------------------------------------------
(* doWork.                                                                    *)

DispGoto(pc) ==
  /\ dispPc' = pc
  /\ UNCHANGED <<ctxCancelled, genVars, sent, mapTileErr, workerVars, store, late>>

\* the next tile of `for tile := range tileChannel.Channel()`
DispReceive ==
  /\ dispPc = "recv"
  /\ genPc = "run"
  /\ sent < NTiles
  /\ sent' = sent + 1
  /\ mi' = 1
  /\ dispPc' = "ctxCheck"
  /\ UNCHANGED <<ctxCancelled, genVars, cleanup, result, mapTileErr, workerVars,
                 store, wdVars, late>>

\* the tile channel is closed: the loop ends
DispEnd ==
  /\ dispPc = "recv"
  /\ genPc = "closed"
  /\ DispGoto("close")
  /\ UNCHANGED <<mi, cleanup, result, wdVars>>

\* if ctx.Err() != nil { cleanup = true; break }: leaves the maps loop only
DispCheckCtx ==
  /\ dispPc = "ctxCheck"
  /\ IF ctxCancelled THEN cleanup' = TRUE /\ DispGoto("recv")
                     ELSE cleanup' = cleanup /\ DispGoto("errCheck")
  /\ UNCHANGED <<mi, result, wdVars>>

\* mutant: does not look at mapTileErr
Bug_DispCheckErr ==
  /\ dispPc = "errCheck"
  /\ DispGoto("send")
  /\ UNCHANGED <<mi, cleanup, result, wdVars>>

\* the same for an error of a worker
DispCheckErr ==
  /\ dispPc = "errCheck"
  /\ IF mapTileErr # "nil" THEN cleanup' = TRUE /\ DispGoto("recv")
                           ELSE cleanup' = cleanup /\ DispGoto("send")
  /\ UNCHANGED <<mi, result, wdVars>>

\* mutant: one map too many
Bug_DispSend(w) ==
  /\ dispPc = "send"
  /\ workerPc[w] \in {"idle", "drain"}
  /\ IF workerPc[w] = "idle"
       THEN /\ workerPc' = [workerPc EXCEPT ![w] = "check"]
            /\ item' = [item EXCEPT ![w] = <<sent, mi>>]
       ELSE UNCHANGED <<workerPc, item>>
  /\ mi' = mi + 1
  /\ dispPc' = IF mi > NMaps THEN "recv" ELSE "ctxCheck"
  /\ late' = IF ctxCancelled \/ mapTileErr # "nil" THEN late + 1 ELSE late
  /\ UNCHANGED <<ctxCancelled, genVars, sent, cleanup, result, mapTileErr, werr,
                 store, wdVars>>

\* case tiler <- mapTile: a ranging worker takes it, one that cleans up drops it
DispSend(w) ==
  /\ dispPc = "send"
  /\ workerPc[w] \in {"idle", "drain"}
  /\ IF workerPc[w] = "idle"
       THEN /\ workerPc' = [workerPc EXCEPT ![w] = "check"]
            /\ item' = [item EXCEPT ![w] = <<sent, mi>>]
       ELSE UNCHANGED <<workerPc, item>>
  /\ mi' = mi + 1
  /\ dispPc' = IF mi = NMaps THEN "recv" ELSE "ctxCheck"
  /\ late' = IF ctxCancelled \/ mapTileErr # "nil" THEN late + 1 ELSE late
  /\ UNCHANGED <<ctxCancelled, genVars, sent, cleanup, result, mapTileErr, werr,
                 store, wdVars>>

\* case <-ctx.Done(): break TileChannelLoop
DispCancelled ==
  /\ dispPc = "send"
  /\ ctxCancelled
  /\ cleanup' = TRUE
  /\ DispGoto("close")
  /\ UNCHANGED <<mi, result, wdVars>>

\* mutant: the tile channel is not drained
Bug_DispClose ==
  /\ dispPc = "close"
  /\ DispGoto("wait")
  /\ UNCHANGED <<mi, cleanup, result, shouldExit>>
  /\ watchdog' = "armed"

\* close(tiler)
DispClose ==
  /\ dispPc = "close"
  /\ DispGoto(IF cleanup THEN "drain" ELSE "wait")
  /\ UNCHANGED <<mi, cleanup, result, shouldExit>>
  /\ watchdog' = IF cleanup THEN watchdog ELSE "armed"

\* soak up what the generator still sends
DispDrain ==
  /\ dispPc = "drain"
  /\ genPc = "run"
  /\ sent < NTiles
  /\ sent' = sent + 1
  /\ UNCHANGED <<ctxCancelled, genVars, dispVars, mapTileErr, workerVars, store,
                 wdVars, late>>

\* the tile channel is closed; the watchdog goroutine starts
DispDrained ==
  /\ dispPc = "drain"
  /\ genPc = "closed"
  /\ DispGoto("wait")
  /\ watchdog' = "armed"
  /\ UNCHANGED <<mi, cleanup, result, shouldExit>>

\* wg.Wait() returned
DispWait ==
  /\ dispPc = "wait"
  /\ \A w \in Workers : workerPc[w] = "done"
  /\ DispGoto("result")
  /\ shouldExit' = FALSE
  /\ UNCHANGED <<mi, cleanup, result, watchdog>>

\* mutant: forgets tileChannel.Err()
Bug_WorkResult == IF mapTileErr = "canceled" THEN "nil" ELSE mapTileErr

\* a generator error first, then the workers'; a cancellation is no error
WorkResult ==
  LET err == IF genErr # "nil" THEN genErr ELSE mapTileErr
  IN  IF err = "canceled" THEN "nil" ELSE err

DispResult ==
  /\ dispPc = "result"
  /\ result' = WorkResult
  /\ DispGoto("complete")
  /\ UNCHANGED <<mi, cleanup, wdVars>>

\* the deferred gdcmd Complete runs the clean up functions, then main returns
DispExit ==
  /\ dispPc = "complete"
  /\ watchdog # "killed"
  /\ DispGoto("exited")
  /\ UNCHANGED <<mi, cleanup, result, wdVars>>

DispNext ==
  \/ DispReceive \/ DispEnd \/ DispCheckCtx \/ DispCheckErr
  \/ \E w \in Workers : DispSend(w)
  \/ DispCancelled \/ DispClose \/ DispDrain \/ DispDrained
  \/ DispWait \/ DispResult \/ DispExit

\* 60 seconds after it was armed.  The read of shouldExit is not synchronised
\* with doWork's write, so it may still see TRUE.
WatchdogFires ==
  /\ watchdog = "armed"
  /\ dispPc # "exited"
  /\ \E seen \in {shouldExit, TRUE} :
        watchdog' = IF ~seen THEN "killed" ELSE "expired"
  /\ UNCHANGED <<ctxCancelled, genVars, sent, dispVars, mapTileErr, workerVars,
                 store, shouldExit, late>>

-----------------------------------------------------------------------------
(* The workers.                                                               *)

WorkerGoto(w, pc) == workerPc' = [workerPc EXCEPT ![w] = pc]

WorkerUnchanged ==
  UNCHANGED <<ctxCancelled, genVars, sent, dispVars, item, wdVars, late>>

\* worker() returned nil: back to `range tiler`
Succeed(w) == WorkerGoto(w, "idle") /\ UNCHANGED werr

\* worker() returned an error
Fail(w, e) == WorkerGoto(w, "report") /\ werr' = [werr EXCEPT ![w] = e]

\* the errors a step that was not cancelled, or was, can return
FailureOf(cancellation) == IF ctxCancelled THEN {"failed", cancellation} ELSE {"failed"}

TilerClosed == dispPc \in {"drain", "wait", "result", "complete", "exited"}

\* a map tile was received: give up if another worker failed
WorkerStart(w) ==
  /\ workerPc[w] = "check"
  /\ WorkerGoto(w, IF mapTileErr # "nil" THEN "drain"
                   ELSE IF Command = "purge" THEN "purge"
                   ELSE IF Overwrite THEN "encode" ELSE "get")
  /\ UNCHANGED <<mapTileErr, werr, store>>
  /\ WorkerUnchanged

\* mutant: a failed Get is taken for a hit
Bug_SeedGet(w) ==
  /\ workerPc[w] = "get"
  /\ \/ Succeed(w)
     \/ store[Key(item[w])] = 0 /\ WorkerGoto(w, "encode") /\ UNCHANGED werr
  /\ UNCHANGED <<mapTileErr, store>>
  /\ WorkerUnchanged

\* mutant: a hit is seeded again
Bug_SeedGetHit(w) ==
  /\ workerPc[w] = "get"
  /\ \/ WorkerGoto(w, "encode") /\ UNCHANGED werr
     \/ \E e \in FailureOf("wrapped") : Fail(w, e)
  /\ UNCHANGED <<mapTileErr, store>>
  /\ WorkerUnchanged

\* seedWorker without --overwrite: a hit skips the tile.  The error of a failed
\* Get is formatted with %v.
SeedGet(w) ==
  /\ workerPc[w] = "get"
  /\ \/ store[Key(item[w])] > 0 /\ Succeed(w)
     \/ store[Key(item[w])] = 0 /\ WorkerGoto(w, "encode") /\ UNCHANGED werr
     \/ \E e \in FailureOf("wrapped") : Fail(w, e)
  /\ UNCHANGED <<mapTileErr, store>>
  /\ WorkerUnchanged

\* Atlas.SeedMapTile up to the Set: a map with parameters is left alone
SeedEncode(w) ==
  /\ workerPc[w] = "encode"
  /\ IF Key(item[w])[1] \in ParamMaps
       THEN Succeed(w)
       ELSE \/ ~ctxCancelled /\ WorkerGoto(w, "set") /\ UNCHANGED werr
            \/ \E e \in FailureOf("canceled") : Fail(w, e)
  /\ UNCHANGED <<mapTileErr, store>>
  /\ WorkerUnchanged

\* cacher.Set: nil without a write beyond the cache's max_zoom
SeedSet(w) ==
  /\ workerPc[w] = "set"
  /\ \/ /\ Succeed(w)
        /\ store' = IF Key(item[w])[2] \in Cacheable
                      THEN [store EXCEPT ![Key(item[w])] = @ + 1] ELSE store
     \/ (\E e \in FailureOf("canceled") : Fail(w, e)) /\ UNCHANGED store
  /\ UNCHANGED mapTileErr
  /\ WorkerUnchanged

\* mutant: the error of the cache is dropped
Bug_Purge(w) ==
  /\ workerPc[w] = "purge"
  /\ Succeed(w)
  /\ \/ Key(item[w])[1] \notin ParamMaps /\ store' = [store EXCEPT ![Key(item[w])] = 0]
     \/ UNCHANGED store
  /\ UNCHANGED mapTileErr
  /\ WorkerUnchanged

\* purgeWorker: every error is wrapped in seedPurgeWorkerTileError
Purge(w) ==
  /\ workerPc[w] = "purge"
  /\ IF Key(item[w])[1] \in ParamMaps
       THEN Succeed(w) /\ UNCHANGED store
       ELSE \/ Succeed(w) /\ store' = [store EXCEPT ![Key(item[w])] = 0]
            \/ (\E e \in FailureOf("wrapped") : Fail(w, e)) /\ UNCHANGED store
  /\ UNCHANGED mapTileErr
  /\ WorkerUnchanged

\* mutant: the error is not stored
Bug_WorkerReport(w) ==
  /\ workerPc[w] = "report"
  /\ WorkerGoto(w, "drain")
  /\ UNCHANGED <<mapTileErr, werr, store>>
  /\ WorkerUnchanged

\* mutant: leaves without draining tiler
Bug_WorkerReportLeave(w) ==
  /\ workerPc[w] = "report"
  /\ mapTileErr' = werr[w]
  /\ WorkerGoto(w, "done")
  /\ UNCHANGED <<werr, store>>
  /\ WorkerUnchanged

\* the last error stored wins
WorkerReport(w) ==
  /\ workerPc[w] = "report"
  /\ mapTileErr' = werr[w]
  /\ WorkerGoto(w, "drain")
  /\ UNCHANGED <<werr, store>>
  /\ WorkerUnchanged

\* tiler is closed: wg.Done()
WorkerDone(w) ==
  /\ workerPc[w] \in {"idle", "drain"}
  /\ TilerClosed
  /\ WorkerGoto(w, "done")
  /\ UNCHANGED <<mapTileErr, werr, store>>
  /\ WorkerUnchanged

WorkerNext(w) ==
  \/ WorkerStart(w) \/ SeedGet(w) \/ SeedEncode(w) \/ SeedSet(w) \/ Purge(w)
  \/ WorkerReport(w) \/ WorkerDone(w)

-----------------------------------------------------------------------------
Next ==
  \/ Cancel
  \/ GenNext
  \/ DispNext
  \/ WatchdogFires
  \/ \E w \in Workers : WorkerNext(w)

Spec == Init /\ [][Next]_vars

\* Every goroutine that can run eventually does; a provider or cache call
\* eventually returns.  Nothing forces a signal, a failure or the timer.
Fairness ==
  /\ WF_vars(GenNext)
  /\ WF_vars(DispNext)
  /\ \A w \in Workers : WF_vars(WorkerNext(w))

FairSpec == Spec /\ Fairness

-----------------------------------------------------------------------------
(* Properties.                                                                *)

Pcs == [gen    |-> {"run", "closing", "closed"},
        disp   |-> {"recv", "ctxCheck", "errCheck", "send", "close", "drain",
                    "wait", "result", "complete", "exited"},
        worker |-> {"idle", "check", "get", "encode", "set", "purge", "report",
                    "drain", "done"}]

\* The types of the variables of doWork, its workers and its generator.
TypeOK ==
  /\ ctxCancelled \in BOOLEAN
  /\ genPc \in Pcs.gen /\ sent \in 0..NTiles /\ genErr \in Errors
  /\ dispPc \in Pcs.disp /\ mi \in 1..(NMaps + 1)
  /\ cleanup \in BOOLEAN /\ result \in Errors
  /\ mapTileErr \in Errors
  /\ workerPc \in [Workers -> Pcs.worker]
  /\ item \in [Workers -> Items \cup {NoItem}]
  /\ werr \in [Workers -> Errors]
  /\ store \in [Keys -> Nat]
  /\ shouldExit \in BOOLEAN
  /\ watchdog \in {"off", "armed", "expired", "killed"}
  /\ late \in Nat

Returned == dispPc \in {"complete", "exited"}

\* Once doWork has returned no goroutine of it is left: every worker is done and
\* the generator is not blocked in a send nobody will receive (cache.go, the
\* draining of both channels after an error).
NoGoroutineLeft ==
  Returned => /\ genPc = "closed"
              /\ \A w \in Workers : workerPc[w] = "done"

\* A nil result of a run that was not cancelled means that every published tile
\* was applied to every map: seeded tiles are in the cache, purged ones are not.
\* Maps with parameters and tiles beyond max_zoom are not stored (doWork, the
\* workers, Atlas.SeedMapTile and PurgeMapTile together).
AppliedOnSuccess ==
  Returned /\ result = "nil" /\ ~ctxCancelled =>
    \A it \in Items :
      it[1] <= sent /\ Key(it)[1] \notin ParamMaps =>
        IF Command = "purge" THEN store[Key(it)] = 0
        ELSE Key(it)[2] \in Cacheable => store[Key(it)] > 0

\* After the first worker error or the cancellation at most one more map tile is
\* handed to a worker: the one doWork had checked both for already.
StopsPromptly == late <= 1

\* An error of the generator is not lost: it is stored before the channel is
\* closed, so doWork sees it and returns it (TileChannel.setError and Close).
GenErrorReported == Returned /\ genErr # "nil" => result # "nil"

\* The error of a worker is swallowed at most in a run that was cancelled: there
\* a later context.Canceled can replace it in mapTileErr.
WorkerErrorReported ==
  Returned /\ result = "nil" /\ (\E w \in Workers : werr[w] # "nil") => ctxCancelled

\* seed without --overwrite leaves the tiles that are cached alone ("determines
\* if we should overwrite already existing files or skip them").
ExistingKept ==
  [][Command = "seed" /\ ~Overwrite =>
       \A k \in Keys : store[k] > 0 => store'[k] = store[k]]_vars

\* Every tile of the source is published unless the run fails or is cancelled
\* ("will return a channel where all the tiles in the list will be published").
AllPublished ==
  genPc = "closed" /\ genErr = "nil" /\ ~ctxCancelled => sent = NTiles

\* Whatever fails and whenever the run is cancelled, doWork returns and the
\* process ends: no send, receive or wait is blocked for ever.
Termination == <>(dispPc = "exited" \/ watchdog = "killed")

=============================================================================
