--------------------------- MODULE SeedPurge_proofs ---------------------------
(***************************************************************************)
(* Proofs about SeedPurge, for any tiles, maps, number of workers, source  *)
(* and command: its types, that doWork leaves no goroutine behind, that it *)
(* stops promptly, that no error is lost, what a nil result means, and     *)
(* what is published and left alone.                                       *)
(***************************************************************************)
EXTENDS SeedPurge, TLAPS

-----------------------------------------------------------------------------
(* The inductive invariant.                                                   *)

Stopping == ctxCancelled \/ mapTileErr # "nil"

\* the tile and the map doWork is at exist
AtItem ==
  dispPc \in {"ctxCheck", "errCheck", "send"} => sent \in 1..NTiles /\ mi \in 1..NMaps

\* doWork gets past the closing of tiler only with the generator gone
GenGone ==
  /\ dispPc = "close" /\ ~cleanup => genPc = "closed"
  /\ dispPc \in {"wait", "result", "complete", "exited"} => genPc = "closed"

\* and past the wait only with the workers gone
WorkersGone ==
  dispPc \in {"result", "complete", "exited"} => \A w \in Workers : workerPc[w] = "done"

\* what has been stored of the workers' errors
ErrorsKept ==
  /\ \A w \in Workers :
       /\ workerPc[w] = "report" => werr[w] # "nil"
       /\ workerPc[w] # "report" /\ werr[w] # "nil" => mapTileErr # "nil"
       /\ werr[w] = "canceled" => ctxCancelled
  /\ mapTileErr = "canceled" => ctxCancelled

\* at most one map tile is late, and then doWork cannot get to the send again
AtMostOneLate ==
  \/ late = 0
  \/ /\ late = 1
     /\ Stopping
     /\ dispPc # "send"
     /\ dispPc = "errCheck" => mapTileErr # "nil"

\* nothing is late as long as nothing failed
NothingLate == ~Stopping => late = 0

\* the generator sets its error before it closes, and only to a failure
GenErr == genErr \in {"nil", "failed"}

\* what the result says of the errors
ResultTells ==
  Returned /\ result = "nil" =>
    /\ genErr = "nil"
    /\ mapTileErr # "nil" => ctxCancelled

IInv ==
  /\ TypeOK
  /\ AtItem /\ GenGone /\ WorkersGone
  /\ ErrorsKept
  /\ AtMostOneLate /\ NothingLate
  /\ GenErr /\ ResultTells


-----------------------------------------------------------------------------
(* Types.                                                                     *)

\* What TypeOK says of the variables the workers change.
LEMMA WorkerTypes ==
  ASSUME TypeOK, AtItem, NEW w \in Workers, WorkerNext(w)
  PROVE  TypeOK'
<1> USE DEF TypeOK, WorkerUnchanged, WorkerGoto, Succeed, Fail, FailureOf, Errors, Pcs,
            dispVars, genVars, wdVars
<1>1. CASE WorkerStart(w)
  BY <1>1 DEF WorkerStart
<1>2. CASE SeedGet(w)
  BY <1>2 DEF SeedGet
<1>3. CASE SeedEncode(w)
  BY <1>3 DEF SeedEncode
<1>4. CASE SeedSet(w)
  BY <1>4 DEF SeedSet
<1>5. CASE Purge(w)
  BY <1>5 DEF Purge
<1>6. CASE WorkerReport(w)
  BY <1>6 DEF WorkerReport
<1>7. CASE WorkerDone(w)
  BY <1>7 DEF WorkerDone
<1>8. QED
  BY <1>1, <1>2, <1>3, <1>4, <1>5, <1>6, <1>7 DEF WorkerNext

LEMMA DispTypes ==
  ASSUME TypeOK, AtItem, DispNext
  PROVE  TypeOK'
<1> USE SeedPurgeAssumption DEF TypeOK, DispGoto, Errors, Pcs, workerVars, genVars, wdVars, NTiles, NMaps
<1>1. CASE DispReceive
  BY <1>1 DEF DispReceive
<1>2. CASE DispEnd
  BY <1>2 DEF DispEnd
<1>3. CASE DispCheckCtx
  <2>1. cleanup' \in BOOLEAN /\ dispPc' \in Pcs.disp
    BY <1>3 DEF DispCheckCtx
  <2>2. UNCHANGED <<ctxCancelled, genVars, sent, mi, result, mapTileErr, workerVars, store, wdVars, late>>
    BY <1>3 DEF DispCheckCtx
  <2> QED
    BY <2>1, <2>2
<1>4. CASE DispCheckErr
  <2>1. cleanup' \in BOOLEAN /\ dispPc' \in Pcs.disp
    BY <1>4 DEF DispCheckErr
  <2>2. UNCHANGED <<ctxCancelled, genVars, sent, mi, result, mapTileErr, workerVars, store, wdVars, late>>
    BY <1>4 DEF DispCheckErr
  <2> QED
    BY <2>1, <2>2
<1>5. ASSUME NEW w \in Workers, DispSend(w) PROVE TypeOK'
  <2>1. <<sent, mi>> \in Items
    BY <1>5 DEF DispSend, AtItem, Items
  <2>2. item' \in [Workers -> Items \cup {NoItem}]
    BY <1>5, <2>1 DEF DispSend
  <2>3. mi' \in 1..(NMaps + 1)
    BY <1>5 DEF DispSend, AtItem
  <2>4. workerPc' \in [Workers -> Pcs.worker]
    BY <1>5 DEF DispSend
  <2>5. dispPc' \in Pcs.disp /\ late' \in Nat
    BY <1>5 DEF DispSend
  <2>6. QED
    BY <1>5, <2>2, <2>3, <2>4, <2>5 DEF DispSend
<1>6. CASE DispCancelled
  BY <1>6 DEF DispCancelled
<1>7. CASE DispClose
  BY <1>7 DEF DispClose
<1>8. CASE DispDrain
  BY <1>8 DEF DispDrain, dispVars
<1>9. CASE DispDrained
  BY <1>9 DEF DispDrained
<1>10. CASE DispWait
  <2>1. dispPc' \in Pcs.disp /\ shouldExit' \in BOOLEAN
    BY <1>10 DEF DispWait
  <2>2. UNCHANGED <<ctxCancelled, genVars, sent, mi, cleanup, result, mapTileErr, workerVars, store, watchdog, late>>
    BY <1>10 DEF DispWait
  <2> QED
    BY <2>1, <2>2
<1>11. CASE DispResult
  <2>1. WorkResult \in Errors
    BY DEF WorkResult
  <2>2. result' \in Errors
    BY <1>11, <2>1 DEF DispResult
  <2>3. dispPc' \in Pcs.disp
    BY <1>11 DEF DispResult
  <2>4. UNCHANGED <<ctxCancelled, genVars, sent, mi, cleanup, mapTileErr, workerVars, store, wdVars, late>>
    BY <1>11 DEF DispResult
  <2> QED
    BY <2>2, <2>3, <2>4
<1>12. CASE DispExit
  BY <1>12 DEF DispExit
<1>13. QED
  BY <1>1, <1>2, <1>3, <1>4, <1>5, <1>6, <1>7, <1>8, <1>9, <1>10, <1>11, <1>12
     DEF DispNext

\* The types and the positions are preserved by every step.
LEMMA TypesKept ==
  ASSUME TypeOK, AtItem, [Next]_vars
  PROVE  TypeOK'
<1>1. CASE Cancel
  BY <1>1 DEF Cancel, TypeOK, genVars, dispVars, workerVars, wdVars
<1>2. CASE GenNext
  BY <1>2 DEF GenNext, GenReturn, GenFail, GenScanStops, GenClose, TypeOK, Errors, Pcs,
              dispVars, workerVars, wdVars
<1>3. CASE DispNext
  BY <1>3, DispTypes
<1>4. CASE WatchdogFires
  BY <1>4 DEF WatchdogFires, TypeOK, genVars, dispVars, workerVars
<1>5. ASSUME NEW w \in Workers, WorkerNext(w) PROVE TypeOK'
  BY <1>5, WorkerTypes
<1>6. CASE UNCHANGED vars
  BY <1>6 DEF vars, TypeOK, genVars, dispVars, workerVars, wdVars
<1>7. QED
  BY <1>1, <1>2, <1>3, <1>4, <1>5, <1>6 DEF Next

-----------------------------------------------------------------------------
(* Where the goroutines are.                                                  *)

LEMMA AtItemKept ==
  ASSUME TypeOK, AtItem, [Next]_vars
  PROVE  AtItem'
<1> USE SeedPurgeAssumption DEF AtItem, NTiles, NMaps
<1>1. CASE UNCHANGED <<dispPc, sent, mi>>
  BY <1>1
<1>2. CASE DispReceive
  BY <1>2 DEF DispReceive, TypeOK
<1>3. CASE DispCheckCtx \/ DispCheckErr
  BY <1>3 DEF DispCheckCtx, DispCheckErr, DispGoto
<1>4. ASSUME NEW w \in Workers, DispSend(w) PROVE AtItem'
  BY <1>4 DEF DispSend, TypeOK
<1>5. CASE DispEnd \/ DispCancelled \/ DispClose \/ DispDrained \/ DispWait \/ DispResult \/ DispExit
  BY <1>5 DEF DispEnd, DispCancelled, DispClose, DispDrained, DispWait, DispResult, DispExit, DispGoto
<1>6. CASE DispDrain
  BY <1>6 DEF DispDrain, dispVars
<1>7. QED
  <2>1. CASE DispNext
    BY <2>1, <1>2, <1>3, <1>4, <1>5, <1>6 DEF DispNext
  <2>2. CASE Cancel \/ GenNext \/ WatchdogFires
    BY <2>2, <1>1 DEF Cancel, GenNext, GenReturn, GenFail, GenScanStops, GenClose, WatchdogFires, dispVars
  <2>3. ASSUME NEW w \in Workers, WorkerNext(w) PROVE AtItem'
    BY <2>3, <1>1 DEF WorkerNext, WorkerStart, SeedGet, SeedEncode, SeedSet, Purge,
       WorkerReport, WorkerDone, WorkerUnchanged, dispVars
  <2>4. CASE UNCHANGED vars
    BY <2>4, <1>1 DEF vars, dispVars
  <2>5. QED
    BY <2>1, <2>2, <2>3, <2>4 DEF Next

LEMMA GenGoneKept ==
  ASSUME TypeOK, GenGone, [Next]_vars
  PROVE  GenGone'
<1> USE DEF GenGone
<1>1. CASE UNCHANGED <<dispPc, cleanup, genPc>>
  BY <1>1
<1>2. CASE GenNext
  BY <1>2 DEF GenNext, GenReturn, GenFail, GenScanStops, GenClose, dispVars
<1>3. CASE DispReceive \/ DispDrain
  BY <1>3 DEF DispReceive, DispDrain, dispVars
<1>4. CASE DispEnd \/ DispCheckCtx \/ DispCheckErr \/ DispCancelled
  BY <1>4 DEF DispEnd, DispCheckCtx, DispCheckErr, DispCancelled, DispGoto, genVars
<1>5. ASSUME NEW w \in Workers, DispSend(w) PROVE GenGone'
  BY <1>5 DEF DispSend, genVars
<1>6. CASE DispClose \/ DispDrained
  BY <1>6 DEF DispClose, DispDrained, DispGoto, genVars
<1>7. CASE DispWait \/ DispResult \/ DispExit
  BY <1>7 DEF DispWait, DispResult, DispExit, DispGoto, genVars
<1>8. CASE Cancel \/ WatchdogFires
  BY <1>8, <1>1 DEF Cancel, WatchdogFires, dispVars, genVars
<1>9. ASSUME NEW w \in Workers, WorkerNext(w) PROVE GenGone'
  BY <1>9, <1>1 DEF WorkerNext, WorkerStart, SeedGet, SeedEncode, SeedSet, Purge,
     WorkerReport, WorkerDone, WorkerUnchanged, dispVars, genVars
<1>10. CASE UNCHANGED vars
  BY <1>10, <1>1 DEF vars, dispVars, genVars
<1>11. QED
  BY <1>2, <1>3, <1>4, <1>5, <1>6, <1>7, <1>8, <1>9, <1>10 DEF Next, DispNext

LEMMA WorkersGoneKept ==
  ASSUME TypeOK, WorkersGone, [Next]_vars
  PROVE  WorkersGone'
<1> USE DEF WorkersGone
<1>1. CASE UNCHANGED <<dispPc, workerPc>>
  BY <1>1
<1>2. CASE Cancel \/ GenNext \/ WatchdogFires
  BY <1>2, <1>1 DEF Cancel, GenNext, GenReturn, GenFail, GenScanStops, GenClose,
     WatchdogFires, dispVars, workerVars
<1>3. CASE DispReceive \/ DispEnd \/ DispCheckCtx \/ DispCheckErr \/ DispCancelled
             \/ DispClose \/ DispDrain \/ DispDrained
  BY <1>3 DEF DispReceive, DispEnd, DispCheckCtx, DispCheckErr, DispCancelled,
     DispClose, DispDrain, DispDrained, DispGoto, dispVars, workerVars
<1>4. ASSUME NEW w \in Workers, DispSend(w) PROVE WorkersGone'
  BY <1>4 DEF DispSend
<1>5. CASE DispWait \/ DispResult \/ DispExit
  BY <1>5 DEF DispWait, DispResult, DispExit, DispGoto, workerVars
<1>6. ASSUME NEW w \in Workers, WorkerNext(w) PROVE WorkersGone'
  <2>1. workerPc[w] # "done" /\ dispPc' = dispPc
    BY <1>6 DEF WorkerNext, WorkerStart, SeedGet, SeedEncode, SeedSet, Purge,
       WorkerReport, WorkerDone, WorkerUnchanged, dispVars
  <2>2. QED
    BY <2>1
<1>7. CASE UNCHANGED vars
  BY <1>7, <1>1 DEF vars, dispVars, workerVars
<1>8. QED
  BY <1>2, <1>3, <1>4, <1>5, <1>6, <1>7 DEF Next, DispNext

-----------------------------------------------------------------------------
(* Errors.                                                                    *)

\* A worker step keeps the errors: werr and mapTileErr change in Fail and Report.
LEMMA ErrorsKeptByWorker ==
  ASSUME TypeOK, ErrorsKept, NEW w \in Workers, WorkerNext(w)
  PROVE  ErrorsKept'
<1> USE DEF TypeOK, ErrorsKept, WorkerGoto, Succeed, Fail, FailureOf, WorkerUnchanged
<1>1. CASE WorkerStart(w)
  BY <1>1 DEF WorkerStart
<1>2. CASE SeedGet(w)
  BY <1>2 DEF SeedGet
<1>3. CASE SeedEncode(w)
  BY <1>3 DEF SeedEncode
<1>4. CASE SeedSet(w)
  BY <1>4 DEF SeedSet
<1>5. CASE Purge(w)
  BY <1>5 DEF Purge
<1>6. CASE WorkerReport(w)
  BY <1>6 DEF WorkerReport
<1>7. CASE WorkerDone(w)
  BY <1>7 DEF WorkerDone
<1>8. QED
  BY <1>1, <1>2, <1>3, <1>4, <1>5, <1>6, <1>7 DEF WorkerNext

LEMMA ErrorsKeptKept ==
  ASSUME TypeOK, ErrorsKept, [Next]_vars
  PROVE  ErrorsKept'
<1> USE DEF ErrorsKept
<1>1. CASE UNCHANGED <<workerPc, werr, mapTileErr, ctxCancelled>>
  BY <1>1
<1>2. CASE Cancel
  BY <1>2 DEF Cancel, workerVars
<1>3. CASE GenNext \/ WatchdogFires
  BY <1>3, <1>1 DEF GenNext, GenReturn, GenFail, GenScanStops, GenClose,
     WatchdogFires, workerVars
<1>4. ASSUME NEW w \in Workers, DispSend(w) PROVE ErrorsKept'
  BY <1>4 DEF DispSend, TypeOK
<1>5. CASE DispNext /\ ~\E w \in Workers : DispSend(w)
  BY <1>5, <1>1 DEF DispNext, DispReceive, DispEnd, DispCheckCtx, DispCheckErr,
     DispCancelled, DispClose, DispDrain, DispDrained, DispWait, DispResult, DispExit,
     DispGoto, workerVars
<1>6. ASSUME NEW w \in Workers, WorkerNext(w) PROVE ErrorsKept'
  BY <1>6, ErrorsKeptByWorker
<1>7. CASE UNCHANGED vars
  BY <1>7, <1>1 DEF vars, workerVars
<1>8. QED
  BY <1>2, <1>3, <1>4, <1>5, <1>6, <1>7 DEF Next

-----------------------------------------------------------------------------
(* Stopping promptly.                                                         *)

Prompt == AtMostOneLate /\ NothingLate

\* An error that was stored is replaced only by another one.
LEMMA StoppingStays ==
  ASSUME TypeOK, ErrorsKept, [Next]_vars
  PROVE  /\ ctxCancelled => ctxCancelled'
         /\ mapTileErr # "nil" => mapTileErr' # "nil"
<1>1. CASE Cancel
  BY <1>1 DEF Cancel
<1>2. CASE GenNext \/ WatchdogFires
  BY <1>2 DEF GenNext, GenReturn, GenFail, GenScanStops, GenClose, WatchdogFires
<1>3. CASE DispNext
  BY <1>3 DEF DispNext, DispReceive, DispEnd, DispCheckCtx, DispCheckErr, DispSend,
     DispCancelled, DispClose, DispDrain, DispDrained, DispWait, DispResult, DispExit, DispGoto
<1>4. ASSUME NEW w \in Workers, WorkerNext(w)
      PROVE  /\ ctxCancelled' = ctxCancelled
             /\ mapTileErr # "nil" => mapTileErr' # "nil"
  BY <1>4 DEF WorkerNext, WorkerStart, SeedGet, SeedEncode, SeedSet, Purge, WorkerReport,
     WorkerDone, WorkerUnchanged, ErrorsKept
<1>5. CASE UNCHANGED vars
  BY <1>5 DEF vars
<1>6. QED
  BY <1>1, <1>2, <1>3, <1>4, <1>5 DEF Next

LEMMA PromptKept ==
  ASSUME TypeOK, ErrorsKept, Prompt, [Next]_vars
  PROVE  Prompt'
<1> USE DEF Prompt, AtMostOneLate, NothingLate, Stopping
<1>1. CASE UNCHANGED <<dispPc, late>>
  BY <1>1, StoppingStays
<1>2. CASE Cancel \/ GenNext \/ WatchdogFires
  BY <1>2, <1>1 DEF Cancel, GenNext, GenReturn, GenFail, GenScanStops, GenClose,
     WatchdogFires, dispVars
<1>3. CASE DispReceive \/ DispEnd \/ DispCancelled \/ DispClose \/ DispDrained
             \/ DispWait \/ DispResult \/ DispExit
  BY <1>3, StoppingStays DEF DispReceive, DispEnd, DispCancelled, DispClose, DispDrained,
     DispWait, DispResult, DispExit, DispGoto
<1>4. CASE DispDrain
  BY <1>4, <1>1 DEF DispDrain, dispVars
<1>5. CASE DispCheckCtx
  BY <1>5 DEF DispCheckCtx, DispGoto
<1>6. CASE DispCheckErr
  BY <1>6 DEF DispCheckErr, DispGoto
<1>7. ASSUME NEW w \in Workers, DispSend(w) PROVE Prompt'
  <2>1. late = 0
    BY <1>7 DEF DispSend
  <2>2. /\ ctxCancelled' = ctxCancelled /\ mapTileErr' = mapTileErr
        /\ dispPc' \in {"recv", "ctxCheck"}
        /\ late' = IF Stopping THEN late + 1 ELSE late
    BY <1>7 DEF DispSend
  <2>3. QED
    BY <2>1, <2>2
<1>8. ASSUME NEW w \in Workers, WorkerNext(w) PROVE Prompt'
  BY <1>8, <1>1 DEF WorkerNext, WorkerStart, SeedGet, SeedEncode, SeedSet, Purge,
     WorkerReport, WorkerDone, WorkerUnchanged, dispVars
<1>9. CASE UNCHANGED vars
  BY <1>9, <1>1 DEF vars, dispVars
<1>10. QED
  BY <1>2, <1>3, <1>4, <1>5, <1>6, <1>7, <1>8, <1>9 DEF Next, DispNext

-----------------------------------------------------------------------------
(* The result.                                                                *)

Told == GenErr /\ ResultTells

LEMMA ToldKept ==
  ASSUME TypeOK, GenGone, WorkersGone, ErrorsKept, Told, [Next]_vars
  PROVE  Told'
<1> USE DEF Told, GenErr, ResultTells, Returned
<1>1. CASE UNCHANGED <<dispPc, result, genErr, mapTileErr>>
  BY <1>1, StoppingStays
<1>2. CASE Cancel \/ WatchdogFires
  BY <1>2, <1>1 DEF Cancel, WatchdogFires, dispVars, genVars
<1>3. CASE GenNext
  <2>1. ~Returned
    BY <1>3 DEF GenGone, GenNext, GenReturn, GenFail, GenScanStops, GenClose
  <2>2. genErr' \in {genErr, "failed"} /\ dispPc' = dispPc
    BY <1>3 DEF GenNext, GenReturn, GenFail, GenScanStops, GenClose, dispVars
  <2>3. QED
    BY <2>1, <2>2
<1>4. CASE DispResult
  BY <1>4 DEF DispResult, WorkResult, DispGoto, ErrorsKept, genVars
<1>5. CASE DispExit
  BY <1>5 DEF DispExit, DispGoto, genVars
<1>6. CASE DispReceive \/ DispEnd \/ DispCheckCtx \/ DispCheckErr \/ DispCancelled
             \/ DispClose \/ DispDrain \/ DispDrained \/ DispWait
  BY <1>6 DEF DispReceive, DispEnd, DispCheckCtx, DispCheckErr, DispCancelled, DispClose,
     DispDrain, DispDrained, DispWait, DispGoto, dispVars, genVars
<1>7. ASSUME NEW w \in Workers, DispSend(w) PROVE Told'
  BY <1>7 DEF DispSend, genVars
<1>8. ASSUME NEW w \in Workers, WorkerNext(w) PROVE Told'
  <2>1. ~Returned
    BY <1>8 DEF WorkersGone, WorkerNext, WorkerStart, SeedGet, SeedEncode, SeedSet, Purge,
       WorkerReport, WorkerDone
  <2>2. dispPc' = dispPc /\ genErr' = genErr
    BY <1>8 DEF WorkerNext, WorkerStart, SeedGet, SeedEncode, SeedSet, Purge, WorkerReport,
       WorkerDone, WorkerUnchanged, dispVars, genVars
  <2>3. QED
    BY <2>1, <2>2
<1>9. CASE UNCHANGED vars
  BY <1>9, <1>1 DEF vars, dispVars, genVars
<1>10. QED
  BY <1>2, <1>3, <1>4, <1>5, <1>6, <1>7, <1>8, <1>9 DEF Next, DispNext

-----------------------------------------------------------------------------
(* What a nil result means.                                                   *)

\* a worker is busy with the map tile, or about to report that it failed
InHand(it) ==
  \E w \in Workers :
    item[w] = it /\ workerPc[w] \in {"check", "get", "encode", "set", "purge", "report"}

\* the command was carried out for the map tile
Applied(it) ==
  \/ Key(it)[1] \in ParamMaps
  \/ Command = "purge" /\ store[Key(it)] = 0
  \/ Command = "seed" /\ (Key(it)[2] \in Cacheable => store[Key(it)] > 0)

AtSend == dispPc \in {"ctxCheck", "errCheck", "send"}

\* doWork is past the map tile
Passed(it) == it[1] < sent \/ (it[1] = sent /\ (AtSend => it[2] < mi))

\* the steps of a worker are those of its command
Doing ==
  \A w \in Workers :
    /\ workerPc[w] = "purge" => Command = "purge"
    /\ workerPc[w] \in {"get", "encode", "set"} => Command = "seed"
    /\ workerPc[w] \in {"check", "get", "encode", "set", "purge", "report"} => item[w] \in Items

\* a worker drops what it receives only after an error was stored
DropsStop == \A w \in Workers : workerPc[w] = "drain" => mapTileErr # "nil"

\* doWork drops tiles only in a run that stops
CleanupStops ==
  /\ cleanup => Stopping
  /\ dispPc = "drain" => cleanup

\* while nothing went wrong no map tile is lost
NothingLost ==
  ~Stopping => \A it \in Items : Passed(it) => Applied(it) \/ InHand(it)

Held == Doing /\ DropsStop /\ CleanupStops /\ NothingLost

\* The key of a map tile is one of the cache's keys.
LEMMA KeyInKeys == \A it \in Items : Key(it) \in Keys
BY SeedPurgeAssumption DEF Items, Key, Keys, NTiles, NMaps

LEMMA DoingKept ==
  ASSUME TypeOK, AtItem, Doing, [Next]_vars
  PROVE  Doing'
<1> USE SeedPurgeAssumption DEF Doing
<1>1. CASE UNCHANGED <<workerPc, item>>
  BY <1>1
<1>2. CASE Cancel \/ GenNext \/ WatchdogFires
  BY <1>2, <1>1 DEF Cancel, GenNext, GenReturn, GenFail, GenScanStops, GenClose,
     WatchdogFires, workerVars
<1>3. ASSUME NEW w \in Workers, DispSend(w) PROVE Doing'
  <2>1. <<sent, mi>> \in Items
    BY <1>3 DEF DispSend, AtItem, Items
  <2>2. QED
    BY <1>3, <2>1 DEF DispSend, TypeOK
<1>4. CASE DispNext /\ ~\E w \in Workers : DispSend(w)
  BY <1>4, <1>1 DEF DispNext, DispReceive, DispEnd, DispCheckCtx, DispCheckErr,
     DispCancelled, DispClose, DispDrain, DispDrained, DispWait, DispResult, DispExit,
     DispGoto, workerVars
<1>5. ASSUME NEW w \in Workers, WorkerNext(w) PROVE Doing'
  BY <1>5 DEF TypeOK, WorkerNext, WorkerStart, SeedGet, SeedEncode, SeedSet, Purge,
     WorkerReport, WorkerDone, WorkerUnchanged, WorkerGoto, Succeed, Fail
<1>6. CASE UNCHANGED vars
  BY <1>6, <1>1 DEF vars, workerVars
<1>7. QED
  BY <1>2, <1>3, <1>4, <1>5, <1>6 DEF Next

LEMMA DropsStopKept ==
  ASSUME TypeOK, ErrorsKept, DropsStop, [Next]_vars
  PROVE  DropsStop'
<1> USE DEF DropsStop
<1>1. CASE UNCHANGED workerPc
  BY <1>1, StoppingStays
<1>2. CASE Cancel \/ GenNext \/ WatchdogFires
  BY <1>2, <1>1 DEF Cancel, GenNext, GenReturn, GenFail, GenScanStops, GenClose,
     WatchdogFires, workerVars
<1>3. ASSUME NEW w \in Workers, DispSend(w) PROVE DropsStop'
  BY <1>3 DEF DispSend, TypeOK
<1>4. CASE DispNext /\ ~\E w \in Workers : DispSend(w)
  BY <1>4, <1>1 DEF DispNext, DispReceive, DispEnd, DispCheckCtx, DispCheckErr,
     DispCancelled, DispClose, DispDrain, DispDrained, DispWait, DispResult, DispExit,
     DispGoto, workerVars
<1>5. ASSUME NEW w \in Workers, WorkerNext(w) PROVE DropsStop'
  BY <1>5 DEF TypeOK, ErrorsKept, WorkerNext, WorkerStart, SeedGet, SeedEncode, SeedSet,
     Purge, WorkerReport, WorkerDone, WorkerGoto, Succeed, Fail
<1>6. CASE UNCHANGED vars
  BY <1>6, <1>1 DEF vars, workerVars
<1>7. QED
  BY <1>2, <1>3, <1>4, <1>5, <1>6 DEF Next

LEMMA CleanupStopsKept ==
  ASSUME TypeOK, ErrorsKept, CleanupStops, [Next]_vars
  PROVE  CleanupStops'
<1> USE DEF CleanupStops
<1>1. Stopping => Stopping'
  BY StoppingStays DEF Stopping
<1>2. CASE UNCHANGED <<dispPc, cleanup>>
  BY <1>1, <1>2
<1>3. CASE Cancel \/ GenNext \/ WatchdogFires
  BY <1>3, <1>2 DEF Cancel, GenNext, GenReturn, GenFail, GenScanStops, GenClose,
     WatchdogFires, dispVars
<1>4. CASE DispCheckCtx \/ DispCheckErr \/ DispCancelled
  BY <1>1, <1>4 DEF DispCheckCtx, DispCheckErr, DispCancelled, DispGoto, Stopping
<1>5. CASE DispReceive \/ DispEnd \/ DispClose \/ DispDrained \/ DispWait \/ DispResult \/ DispExit
  BY <1>1, <1>5 DEF DispReceive, DispEnd, DispClose, DispDrained, DispWait, DispResult,
     DispExit, DispGoto
<1>6. CASE DispDrain
  BY <1>6, <1>2 DEF DispDrain, dispVars
<1>7. ASSUME NEW w \in Workers, DispSend(w) PROVE CleanupStops'
  BY <1>1, <1>7 DEF DispSend
<1>8. ASSUME NEW w \in Workers, WorkerNext(w) PROVE CleanupStops'
  BY <1>8, <1>2 DEF WorkerNext, WorkerStart, SeedGet, SeedEncode, SeedSet, Purge,
     WorkerReport, WorkerDone, WorkerUnchanged, dispVars
<1>9. CASE UNCHANGED vars
  BY <1>9, <1>2 DEF vars, dispVars
<1>10. QED
  BY <1>3, <1>4, <1>5, <1>6, <1>7, <1>8, <1>9 DEF Next, DispNext

\* A worker's step undoes nothing: seeding never empties a key, purging never
\* fills one.
LEMMA AppliedStays ==
  ASSUME TypeOK, Doing, NEW w \in Workers, WorkerNext(w), NEW it \in Items, Applied(it)
  PROVE  Applied(it)'
<1>1. Key(it)' = Key(it)
  BY DEF Key
<1>2. Key(it) \in Keys
  BY KeyInKeys
<1>3. CASE store' = store
  BY <1>1, <1>3 DEF Applied
<1>4. CASE SeedSet(w) /\ store' # store
  <2>1. item[w] \in Items /\ Command = "seed"
    BY <1>4 DEF Doing, SeedSet
  <2>2. store' = [store EXCEPT ![Key(item[w])] = @ + 1] /\ store \in [Keys -> Nat]
    BY <1>4 DEF SeedSet, TypeOK
  <2>3. Key(item[w]) \in Keys
    BY <2>1, KeyInKeys
  <2>4. store'[Key(it)] >= store[Key(it)] /\ store[Key(it)] \in Nat /\ store'[Key(it)] \in Nat
    BY <1>2, <2>2, <2>3
  <2>5. QED
    BY <1>1, <2>1, <2>4, SeedPurgeAssumption DEF Applied
<1>5. CASE Purge(w) /\ store' # store
  <2>1. Command = "purge"
    BY <1>5 DEF Doing, Purge
  <2>2. store' = [store EXCEPT ![Key(item[w])] = 0] /\ store \in [Keys -> Nat]
    BY <1>5 DEF Purge, TypeOK
  <2>3. store[Key(it)] = 0 => store'[Key(it)] = 0
    BY <1>2, <2>2
  <2>4. QED
    BY <1>1, <2>1, <2>3 DEF Applied
<1>6. QED
  BY <1>3, <1>4, <1>5 DEF WorkerNext, WorkerStart, SeedGet, SeedEncode, WorkerReport, WorkerDone

\* A worker's step lets go of its map tile only when it is applied or an error
\* was stored.
LEMMA HandledOrHeld ==
  ASSUME TypeOK, ErrorsKept, Doing, NEW w \in Workers, WorkerNext(w),
         NEW it \in Items, item[w] = it,
         workerPc[w] \in {"check", "get", "encode", "set", "purge", "report"},
         ~Stopping'
  PROVE  Applied(it)' \/ InHand(it)'
<1>1. item' = item /\ Key(it)' = Key(it) /\ Key(it) \in Keys
  BY KeyInKeys DEF Key, WorkerNext, WorkerStart, SeedGet, SeedEncode, SeedSet, Purge,
     WorkerReport, WorkerDone, WorkerUnchanged
<1>2. CASE workerPc'[w] \in {"check", "get", "encode", "set", "purge", "report"}
  BY <1>1, <1>2 DEF InHand
<1>3. CASE WorkerStart(w)
  BY <1>3, <1>2 DEF WorkerStart, WorkerGoto, TypeOK, Stopping, WorkerUnchanged
<1>4. CASE SeedGet(w) /\ Succeed(w) /\ store[Key(it)] > 0
  BY <1>1, <1>4 DEF SeedGet, Applied, Doing
<1>5. CASE SeedEncode(w) /\ Key(it)[1] \in ParamMaps
  BY <1>1, <1>5 DEF Applied
<1>6. CASE SeedSet(w) /\ Succeed(w)
  <2>1. Command = "seed"
    BY <1>6 DEF SeedSet, Doing
  <2>2. CASE Key(it)[2] \notin Cacheable
    BY <1>1, <2>1, <2>2 DEF Applied
  <2>3. CASE Key(it)[2] \in Cacheable
    <3>1. workerPc'[w] = "idle"
      BY <1>6 DEF Succeed, WorkerGoto, TypeOK
    <3>2. store' = [store EXCEPT ![Key(it)] = @ + 1]
      BY <1>6, <2>3, <3>1 DEF SeedSet, Fail, WorkerGoto, TypeOK
    <3>3. store'[Key(it)] > 0
      BY <1>1, <3>2 DEF TypeOK
    <3>4. QED
      BY <1>1, <2>1, <3>3 DEF Applied
  <2>4. QED
    BY <2>2, <2>3
<1>7. CASE Purge(w) /\ Succeed(w)
  <2>1. workerPc'[w] = "idle"
    BY <1>7 DEF Succeed, WorkerGoto, TypeOK
  <2>2. Key(it)[1] \in ParamMaps \/ store' = [store EXCEPT ![Key(it)] = 0]
    BY <1>7, <2>1 DEF Purge, Fail, WorkerGoto, TypeOK
  <2>3. Command = "purge"
    BY <1>7 DEF Purge, Doing
  <2>4. QED
    BY <1>1, <2>2, <2>3 DEF Applied, TypeOK
<1>8. CASE WorkerReport(w)
  BY <1>8 DEF WorkerReport, ErrorsKept, Stopping
<1>9. CASE WorkerDone(w)
  BY <1>9 DEF WorkerDone
<1>10. CASE SeedGet(w) /\ ~(Succeed(w) /\ store[Key(it)] > 0)
  BY <1>2, <1>10 DEF SeedGet, Fail, WorkerGoto, TypeOK
<1>11. CASE SeedEncode(w) /\ Key(it)[1] \notin ParamMaps
  BY <1>2, <1>11 DEF SeedEncode, Fail, WorkerGoto, TypeOK
<1>12. CASE SeedSet(w) /\ ~Succeed(w)
  BY <1>2, <1>12 DEF SeedSet, Fail, WorkerGoto, TypeOK
<1>13. CASE Purge(w) /\ ~Succeed(w)
  BY <1>2, <1>13 DEF Purge, Fail, WorkerGoto, TypeOK
<1>14. QED
  BY <1>3, <1>4, <1>5, <1>6, <1>7, <1>8, <1>9, <1>10, <1>11, <1>12, <1>13 DEF WorkerNext

LEMMA NothingLostKept ==
  ASSUME TypeOK, AtItem, ErrorsKept, Held, [Next]_vars
  PROVE  NothingLost'
<1> USE DEF Held
<1> SUFFICES ASSUME ~Stopping', NEW it \in Items, Passed(it)'
             PROVE  Applied(it)' \/ InHand(it)'
  BY DEF NothingLost, Items, NTiles, NMaps
<1>1. ~Stopping
  BY StoppingStays DEF Stopping
<1>2. /\ it \in Nat \X Nat /\ it[1] \in Nat /\ it[2] \in Nat /\ it[2] >= 1 /\ it[2] <= NMaps
      /\ it = <<it[1], it[2]>>
      /\ sent \in Nat /\ mi \in Nat /\ NMaps \in Nat
  BY SeedPurgeAssumption DEF Items, NTiles, NMaps, TypeOK
<1>3. Passed(it) => Applied(it) \/ InHand(it)
  BY <1>1 DEF NothingLost
<1>4. CASE UNCHANGED <<workerPc, item, store>> /\ Passed(it)
  BY <1>3, <1>4 DEF Applied, InHand, Key
<1>5. CASE Cancel \/ GenNext \/ WatchdogFires \/ UNCHANGED vars
  BY <1>4, <1>5 DEF Cancel, GenNext, GenReturn, GenFail, GenScanStops, GenClose,
     WatchdogFires, vars, dispVars, workerVars, Passed, AtSend
<1>6. CASE DispReceive
  BY <1>2, <1>4, <1>6 DEF DispReceive, workerVars, Passed, AtSend
<1>7. CASE DispCheckCtx \/ DispCheckErr
  BY <1>1, <1>4, <1>7 DEF DispCheckCtx, DispCheckErr, DispGoto, workerVars, Passed, AtSend,
     Stopping
<1>8. CASE DispCancelled \/ DispDrain
  BY <1>1, <1>8 DEF DispCancelled, DispDrain, Stopping, CleanupStops
<1>9. CASE DispEnd \/ DispClose \/ DispDrained \/ DispWait \/ DispResult \/ DispExit
  BY <1>4, <1>9 DEF DispEnd, DispClose, DispDrained, DispWait, DispResult, DispExit, DispGoto,
     workerVars, Passed, AtSend
<1>10. ASSUME NEW w \in Workers, DispSend(w) PROVE Applied(it)' \/ InHand(it)'
  <2>1. /\ workerPc[w] = "idle"
        /\ workerPc' = [workerPc EXCEPT ![w] = "check"]
        /\ item' = [item EXCEPT ![w] = <<sent, mi>>]
    BY <1>1, <1>10 DEF DispSend, DropsStop, Stopping
  <2>2. CASE it = <<sent, mi>>
    BY <2>1, <2>2 DEF InHand, TypeOK
  <2>3. CASE it # <<sent, mi>>
    <3>1. Passed(it)
      BY <1>2, <1>10, <2>3 DEF DispSend, Passed, AtSend
    <3>2. Applied(it) => Applied(it)'
      BY <1>10 DEF DispSend, Applied, Key
    <3>3. InHand(it) => InHand(it)'
      BY <2>1 DEF InHand, TypeOK
    <3>4. QED
      BY <1>3, <3>1, <3>2, <3>3
  <2>4. QED
    BY <2>2, <2>3
<1>11. ASSUME NEW w \in Workers, WorkerNext(w) PROVE Applied(it)' \/ InHand(it)'
  <2>1. /\ item' = item /\ sent' = sent /\ mi' = mi /\ dispPc' = dispPc
        /\ \A v \in Workers \ {w} : workerPc'[v] = workerPc[v]
    BY <1>11 DEF WorkerNext, WorkerStart, SeedGet, SeedEncode, SeedSet, Purge, WorkerReport,
       WorkerDone, WorkerUnchanged, dispVars, WorkerGoto, Succeed, Fail, TypeOK
  <2>2. Passed(it)
    BY <2>1 DEF Passed, AtSend
  <2>3. CASE Applied(it)
    BY <1>11, <2>3, AppliedStays
  <2>4. CASE InHand(it)
    <3>1. PICK v \in Workers :
            item[v] = it /\ workerPc[v] \in {"check", "get", "encode", "set", "purge", "report"}
      BY <2>4 DEF InHand
    <3>2. CASE v = w
      BY <1>11, <3>1, <3>2, HandledOrHeld
    <3>3. CASE v # w
      BY <2>1, <3>1, <3>3 DEF InHand
    <3>4. QED
      BY <3>2, <3>3
  <2>5. QED
    BY <1>3, <2>2, <2>3, <2>4
<1>12. QED
  BY <1>5, <1>6, <1>7, <1>8, <1>9, <1>10, <1>11 DEF Next, DispNext

LEMMA InitHeld == Init => Held
BY SeedPurgeAssumption DEF Init, Held, Doing, DropsStop, CleanupStops, NothingLost, Passed, AtSend,
   Items, NTiles, NMaps, Stopping

LEMMA StepHeld == IInv /\ Held /\ [Next]_vars => Held'
BY DoingKept, DropsStopKept, CleanupStopsKept, NothingLostKept DEF IInv, Held

-----------------------------------------------------------------------------
(* The theorems.                                                              *)

LEMMA InitIInv == Init => IInv
<1> SUFFICES ASSUME Init PROVE IInv
  OBVIOUS
<1>1. TypeOK
  <2>1. NTiles \in Nat /\ NMaps \in Nat /\ NMaps > 0
    BY SeedPurgeAssumption DEF NTiles, NMaps
  <2>2. store \in [Keys -> Nat]
    BY DEF Init
  <2>3. sent \in 0..NTiles /\ mi \in 1..(NMaps + 1)
    BY <2>1 DEF Init
  <2>4. item \in [Workers -> Items \cup {NoItem}]
    BY DEF Init
  <2>5. QED
    BY <2>2, <2>3, <2>4 DEF Init, TypeOK, Errors, Pcs
<1>2. QED
  BY <1>1 DEF Init, IInv, AtItem, GenGone, WorkersGone, ErrorsKept, AtMostOneLate,
     NothingLate, GenErr, ResultTells, Returned

LEMMA StepIInv == IInv /\ [Next]_vars => IInv'
BY TypesKept, AtItemKept, GenGoneKept, WorkersGoneKept, ErrorsKeptKept, PromptKept, ToldKept
   DEF IInv, Prompt, Told

\* The inductive invariant holds in every reachable state of doWork.
THEOREM Invariance == Spec => []IInv
BY InitIInv, StepIInv, PTL DEF Spec

\* Every variable keeps its type, for any number of tiles, maps and workers: the
\* tile and map doWork hands out always exist.
THEOREM TypeCorrect == Spec => []TypeOK
<1>1. IInv => TypeOK
  BY DEF IInv
<1>2. QED
  BY <1>1, Invariance, PTL

\* When doWork has returned, its workers are done and its generator is closed,
\* whatever failed and whenever the run was cancelled.
THEOREM NoGoroutineLeftBehind == Spec => []NoGoroutineLeft
<1>1. IInv => NoGoroutineLeft
  BY DEF IInv, GenGone, WorkersGone, NoGoroutineLeft, Returned
<1>2. QED
  BY <1>1, Invariance, PTL

\* After the first error or the cancellation doWork hands over at most one more
\* map tile, however many workers and maps there are.
THEOREM StopsPromptlyAlways == Spec => []StopsPromptly
<1>1. IInv => StopsPromptly
  BY DEF IInv, AtMostOneLate, StopsPromptly
<1>2. QED
  BY <1>1, Invariance, PTL

\* doWork never returns nil after its generator failed.
THEOREM GenErrorAlwaysReported == Spec => []GenErrorReported
<1>1. IInv => GenErrorReported
  BY DEF IInv, ResultTells, GenErrorReported
<1>2. QED
  BY <1>1, Invariance, PTL

\* doWork returns nil after a worker failed only if the run was cancelled.
THEOREM WorkerErrorAlwaysReported == Spec => []WorkerErrorReported
<1>1. IInv => WorkerErrorReported
  <2> SUFFICES ASSUME IInv, Returned, result = "nil", NEW w \in Workers, werr[w] # "nil"
               PROVE  ctxCancelled
    BY DEF WorkerErrorReported
  <2>1. workerPc[w] # "report"
    BY DEF IInv, WorkersGone, Returned
  <2>2. QED
    BY <2>1 DEF IInv, ErrorsKept, ResultTells
<1>2. QED
  BY <1>1, Invariance, PTL

\* doWork returns nil for a run that was not cancelled only if every tile it
\* received was applied to every map.
THEOREM SuccessMeansApplied == Spec => []AppliedOnSuccess
<1>1. Spec => []Held
  BY InitIInv, InitHeld, StepIInv, StepHeld, Invariance, PTL DEF Spec
<1>2. IInv /\ Held => AppliedOnSuccess
  <2> SUFFICES ASSUME IInv, Held, Returned, result = "nil", ~ctxCancelled,
                      NEW it \in Items, it[1] <= sent, Key(it)[1] \notin ParamMaps
               PROVE  IF Command = "purge" THEN store[Key(it)] = 0
                      ELSE Key(it)[2] \in Cacheable => store[Key(it)] > 0
    BY DEF AppliedOnSuccess
  <2>1. ~Stopping
    BY DEF IInv, ResultTells, Stopping
  <2>2. Passed(it)
    <3>1. it[1] \in Nat /\ sent \in Nat
      BY SeedPurgeAssumption DEF Items, NTiles, NMaps, IInv, TypeOK
    <3>2. QED
      BY <3>1 DEF Passed, AtSend, Returned
  <2>3. ~InHand(it)
    BY DEF IInv, WorkersGone, Returned, InHand
  <2>4. Applied(it)
    BY <2>1, <2>2, <2>3 DEF Held, NothingLost
  <2>5. QED
    BY <2>4, SeedPurgeAssumption DEF Applied
<1>3. QED
  BY <1>1, <1>2, Invariance, PTL

-----------------------------------------------------------------------------
(* What a generator publishes.                                                *)

\* a generator returns early only with an error or after the cancellation
Published ==
  genPc \in {"closing", "closed"} /\ genErr = "nil" /\ ~ctxCancelled => sent = NTiles

\* A generator that cannot stop early without an error publishes every tile, unless
\* it fails or is cancelled: only a scanner of a tile list can.
THEOREM AllPublishedHolds ==
  ASSUME Source # "tile-list"
  PROVE  Spec => []AllPublished
<1>1. Init => Published
  BY DEF Init, Published
<1>2. Published /\ [Next]_vars => Published'
  <2> SUFFICES ASSUME Published, [Next]_vars PROVE Published'
    OBVIOUS
  <2> USE DEF Published
  <2>1. NTiles' = NTiles
    BY DEF NTiles
  <2>2. CASE UNCHANGED <<genPc, genErr, sent, ctxCancelled>>
    BY <2>1, <2>2
  <2>3. CASE Cancel
    BY <2>3 DEF Cancel
  <2>4. CASE GenNext
    BY <2>1, <2>4 DEF GenNext, GenReturn, GenFail, GenScanStops, GenClose
  <2>5. CASE DispReceive \/ DispDrain
    BY <2>5 DEF DispReceive, DispDrain, genVars
  <2>6. CASE DispNext /\ ~(DispReceive \/ DispDrain)
    BY <2>2, <2>6 DEF DispNext, DispEnd, DispCheckCtx, DispCheckErr, DispSend, DispCancelled,
       DispClose, DispDrained, DispWait, DispResult, DispExit, DispGoto, genVars
  <2>7. CASE WatchdogFires \/ UNCHANGED vars
    BY <2>2, <2>7 DEF WatchdogFires, vars, genVars
  <2>8. ASSUME NEW w \in Workers, WorkerNext(w) PROVE Published'
    BY <2>2, <2>8 DEF WorkerNext, WorkerStart, SeedGet, SeedEncode, SeedSet, Purge,
       WorkerReport, WorkerDone, WorkerUnchanged, genVars
  <2>9. QED
    BY <2>3, <2>4, <2>5, <2>6, <2>7, <2>8 DEF Next
<1>3. Published => AllPublished
  BY DEF Published, AllPublished
<1>4. QED
  BY <1>1, <1>2, <1>3, PTL DEF Spec

-----------------------------------------------------------------------------
(* What seeding leaves alone.                                                 *)

\* no map tile is listed twice
ListedOnce == \A i, j \in Items : Key(i) = Key(j) => i = j

Busy == {"check", "get", "encode", "set", "purge"}

\* what a worker is busy with is behind doWork, and no other worker has it
InTurn ==
  /\ \A w \in Workers : workerPc[w] \in Busy => Passed(item[w])
  /\ \A v, w \in Workers :
       workerPc[v] \in Busy /\ workerPc[w] \in Busy /\ item[v] = item[w] => v = w

\* a worker that is going to write found nothing, and nobody wrote since
Missing ==
  \A w \in Workers :
    ~Overwrite /\ workerPc[w] \in {"encode", "set"} => store[Key(item[w])] = 0

\* What doWork has passed stays passed.
LEMMA PassedStays ==
  ASSUME TypeOK, [Next]_vars, NEW it \in Items, Passed(it)
  PROVE  Passed(it)'
<1>1. it[1] \in Nat /\ it[2] \in Nat /\ sent \in Nat /\ mi \in Nat
  BY SeedPurgeAssumption DEF Items, NTiles, NMaps, TypeOK
<1> USE DEF Passed, AtSend
<1>2. CASE UNCHANGED <<sent, mi, dispPc>>
  BY <1>2
<1>3. CASE Cancel \/ GenNext \/ WatchdogFires \/ UNCHANGED vars
  BY <1>2, <1>3 DEF Cancel, GenNext, GenReturn, GenFail, GenScanStops, GenClose,
     WatchdogFires, vars, dispVars
<1>4. CASE DispReceive
  BY <1>1, <1>4 DEF DispReceive
<1>5. CASE DispDrain
  BY <1>1, <1>5 DEF DispDrain, dispVars
<1>6. CASE DispCheckCtx \/ DispCheckErr \/ DispCancelled
  BY <1>6 DEF DispCheckCtx, DispCheckErr, DispCancelled, DispGoto
<1>7. CASE DispEnd \/ DispClose \/ DispDrained \/ DispWait \/ DispResult \/ DispExit
  BY <1>7 DEF DispEnd, DispClose, DispDrained, DispWait, DispResult, DispExit, DispGoto
<1>8. ASSUME NEW w \in Workers, DispSend(w) PROVE Passed(it)'
  BY <1>1, <1>8 DEF DispSend
<1>9. ASSUME NEW w \in Workers, WorkerNext(w) PROVE Passed(it)'
  BY <1>2, <1>9 DEF WorkerNext, WorkerStart, SeedGet, SeedEncode, SeedSet, Purge,
     WorkerReport, WorkerDone, WorkerUnchanged, dispVars
<1>10. QED
  BY <1>3, <1>4, <1>5, <1>6, <1>7, <1>8, <1>9 DEF Next, DispNext

LEMMA InTurnKept ==
  ASSUME TypeOK, AtItem, Doing, InTurn, [Next]_vars
  PROVE  InTurn'
<1>1. \A i \in Items : Passed(i) => Passed(i)'
  BY PassedStays
<1>2. CASE item' = item /\ \A w \in Workers : workerPc'[w] \in Busy => workerPc[w] \in Busy
  <2>1. ASSUME NEW w \in Workers, workerPc'[w] \in Busy PROVE Passed(item[w])'
    <3>1. item[w] \in Items /\ Passed(item[w]) /\ item'[w] = item[w]
      BY <1>2, <2>1 DEF InTurn, Doing, Busy
    <3>2. PICK i \in Items : i = item[w]
      BY <3>1
    <3>3. Passed(i)'
      BY <1>1, <3>1, <3>2
    <3>4. QED
      BY <3>1, <3>2, <3>3 DEF Passed, AtSend
  <2>2. QED
    BY <1>2, <2>1 DEF InTurn
<1>3. CASE Cancel \/ GenNext \/ WatchdogFires \/ UNCHANGED vars
  BY <1>2, <1>3 DEF Cancel, GenNext, GenReturn, GenFail, GenScanStops, GenClose,
     WatchdogFires, vars, workerVars
<1>4. CASE DispNext /\ ~\E w \in Workers : DispSend(w)
  BY <1>2, <1>4 DEF DispNext, DispReceive, DispEnd, DispCheckCtx, DispCheckErr,
     DispCancelled, DispClose, DispDrain, DispDrained, DispWait, DispResult, DispExit,
     DispGoto, workerVars
<1>5. ASSUME NEW w \in Workers, WorkerNext(w) PROVE InTurn'
  BY <1>2, <1>5 DEF WorkerNext, WorkerStart, SeedGet, SeedEncode, SeedSet, Purge,
     WorkerReport, WorkerDone, WorkerUnchanged, WorkerGoto, Succeed, Fail, TypeOK, Busy
<1>6. ASSUME NEW w \in Workers, DispSend(w) PROVE InTurn'
  <2>1. CASE workerPc[w] # "idle"
    BY <1>2, <1>6, <2>1 DEF DispSend
  <2>2. CASE workerPc[w] = "idle"
    <3>1. /\ workerPc' = [workerPc EXCEPT ![w] = "check"]
          /\ item' = [item EXCEPT ![w] = <<sent, mi>>]
          /\ \A v \in Workers \ {w} : workerPc'[v] = workerPc[v] /\ item'[v] = item[v]
          /\ item'[w] = <<sent, mi>>
      BY <1>6, <2>2 DEF DispSend, TypeOK
    <3>2. <<sent, mi>> \in Items /\ sent \in Nat /\ mi \in Nat
      BY <1>6, SeedPurgeAssumption DEF DispSend, AtItem, Items, NTiles, NMaps
    <3>3. PICK i \in Items : i = <<sent, mi>>
      BY <3>2
    <3>4. ~Passed(i) /\ Passed(i)'
      BY <1>6, <3>2, <3>3 DEF DispSend, Passed, AtSend
    <3>5. \A v \in Workers : workerPc[v] \in Busy => item[v] # i
      BY <3>4 DEF InTurn
    <3>6. ASSUME NEW v \in Workers, workerPc'[v] \in Busy PROVE Passed(item[v])'
      <4>1. CASE v = w
        BY <3>1, <3>3, <3>4, <4>1 DEF Passed, AtSend
      <4>2. CASE v # w
        <5>1. item[v] \in Items /\ Passed(item[v]) /\ item'[v] = item[v]
          BY <3>1, <3>6, <4>2 DEF InTurn, Doing, Busy
        <5>2. PICK j \in Items : j = item[v]
          BY <5>1
        <5>3. Passed(j)'
          BY <1>1, <5>1, <5>2
        <5>4. QED
          BY <5>1, <5>2, <5>3 DEF Passed, AtSend
      <4>3. QED
        BY <4>1, <4>2
    <3>7. QED
      BY <3>1, <3>3, <3>5, <3>6 DEF InTurn
  <2>3. QED
    BY <2>1, <2>2
<1>7. QED
  BY <1>3, <1>4, <1>5, <1>6 DEF Next

\* What a worker writes, when no map tile is listed twice.
LEMMA WriterFacts ==
  ASSUME ListedOnce, TypeOK, Doing, InTurn, Missing, Command = "seed", ~Overwrite,
         NEW w \in Workers, WorkerNext(w)
  PROVE  /\ item' = item
         /\ \A v \in Workers \ {w} : workerPc'[v] = workerPc[v]
         /\ workerPc'[w] \in {"encode", "set"} => store[Key(item[w])] = 0 /\ store' = store
         /\ \/ store' = store
            \/ /\ SeedSet(w) /\ store[Key(item[w])] = 0
               /\ \A k \in Keys : k # Key(item[w]) => store'[k] = store[k]
<1> USE DEF WorkerUnchanged, WorkerGoto, Succeed, Fail, TypeOK, Missing
<1>1. CASE WorkerStart(w)
  BY <1>1 DEF WorkerStart
<1>2. CASE SeedGet(w) \/ SeedEncode(w)
  BY <1>2 DEF SeedGet, SeedEncode
<1>3. CASE SeedSet(w)
  BY <1>3 DEF SeedSet
<1>4. CASE Purge(w)
  BY <1>4 DEF Purge, Doing
<1>5. CASE WorkerReport(w) \/ WorkerDone(w)
  BY <1>5 DEF WorkerReport, WorkerDone
<1>6. QED
  BY <1>1, <1>2, <1>3, <1>4, <1>5 DEF WorkerNext

LEMMA MissingKept ==
  ASSUME ListedOnce, TypeOK, Doing, InTurn, Missing, [Next]_vars
  PROVE  Missing'
<1>1. CASE UNCHANGED store /\ \A w \in Workers : workerPc'[w] \in {"encode", "set"} =>
             workerPc[w] \in {"encode", "set"} /\ item'[w] = item[w]
  BY <1>1 DEF Missing, Key
<1>2. CASE Cancel \/ GenNext \/ WatchdogFires \/ UNCHANGED vars
  BY <1>1, <1>2 DEF Cancel, GenNext, GenReturn, GenFail, GenScanStops, GenClose,
     WatchdogFires, vars, workerVars
<1>3. CASE DispNext
  BY <1>1, <1>3 DEF DispNext, DispReceive, DispEnd, DispCheckCtx, DispCheckErr, DispSend,
     DispCancelled, DispClose, DispDrain, DispDrained, DispWait, DispResult, DispExit,
     DispGoto, workerVars, TypeOK
<1>4. ASSUME NEW w \in Workers, WorkerNext(w) PROVE Missing'
  <2> SUFFICES ASSUME ~Overwrite, NEW v \in Workers, workerPc'[v] \in {"encode", "set"}
               PROVE  store'[Key(item'[v])] = 0
    BY DEF Missing, Key
  <2>1. Command = "seed"
    BY SeedPurgeAssumption, <1>4 DEF Doing, WorkerNext, WorkerStart, SeedGet, SeedEncode, SeedSet,
       Purge, WorkerReport, WorkerDone, WorkerGoto, Succeed, Fail, TypeOK
  <2>2. /\ item' = item
        /\ \A u \in Workers \ {w} : workerPc'[u] = workerPc[u]
        /\ workerPc'[w] \in {"encode", "set"} => store[Key(item[w])] = 0 /\ store' = store
        /\ \/ store' = store
           \/ SeedSet(w) /\ \A k \in Keys : k # Key(item[w]) => store'[k] = store[k]
    BY <1>4, <2>1, WriterFacts
  <2>3. CASE v = w
    BY <2>2, <2>3
  <2>4. CASE v # w
    <3>1. workerPc[v] \in {"encode", "set"} /\ item[v] \in Items /\ store[Key(item[v])] = 0
      BY <2>2, <2>4 DEF Missing, Doing
    <3>2. CASE store' = store
      BY <2>2, <3>1, <3>2
    <3>3. CASE SeedSet(w) /\ \A k \in Keys : k # Key(item[w]) => store'[k] = store[k]
      <4>1. item[w] \in Items /\ item[v] # item[w]
        BY <2>4, <3>1, <3>3 DEF SeedSet, Doing, InTurn, Busy
      <4>2. Key(item[v]) \in Keys /\ Key(item[v]) # Key(item[w])
        BY <3>1, <4>1, KeyInKeys DEF ListedOnce
      <4>3. QED
        BY <2>2, <3>1, <3>3, <4>2
    <3>4. QED
      BY <2>2, <3>2, <3>3
  <2>5. QED
    BY <2>3, <2>4
<1>5. QED
  BY <1>2, <1>3, <1>4 DEF Next

\* When no map tile is listed twice, seed without --overwrite never writes a tile that
\* is cached, for any number of workers: no other worker can store it between the
\* lookup and the write.
THEOREM ExistingKeptHolds ==
  ASSUME ListedOnce
  PROVE  Spec => ExistingKept
<1> DEFINE I == IInv /\ Held /\ InTurn /\ Missing
<1>1. Init => I
  <2>1. Init => InTurn /\ Missing
    BY DEF Init, InTurn, Missing, Busy
  <2>2. QED
    BY <2>1, InitIInv, InitHeld
<1>2. I /\ [Next]_vars => I'
  <2>1. IInv /\ Held => TypeOK /\ AtItem /\ Doing
    BY DEF IInv, Held
  <2>2. QED
    BY <2>1, StepIInv, StepHeld, InTurnKept, MissingKept
<1>3. I /\ [Next]_vars =>
        [Command = "seed" /\ ~Overwrite =>
           \A k \in Keys : store[k] > 0 => store'[k] = store[k]]_vars
  <2> SUFFICES ASSUME I, Next, Command = "seed", ~Overwrite, NEW k \in Keys, store[k] > 0
               PROVE  store'[k] = store[k]
    BY DEF vars
  <2>1. TypeOK /\ Doing
    BY DEF IInv, Held
  <2>2. CASE UNCHANGED store
    BY <2>2
  <2>3. CASE Cancel \/ GenNext \/ WatchdogFires
    BY <2>2, <2>3 DEF Cancel, GenNext, GenReturn, GenFail, GenScanStops, GenClose, WatchdogFires
  <2>4. CASE DispNext
    BY <2>2, <2>4 DEF DispNext, DispReceive, DispEnd, DispCheckCtx, DispCheckErr, DispSend,
       DispCancelled, DispClose, DispDrain, DispDrained, DispWait, DispResult, DispExit, DispGoto
  <2>5. ASSUME NEW w \in Workers, WorkerNext(w) PROVE store'[k] = store[k]
    <3>1. \/ store' = store
          \/ store[Key(item[w])] = 0 /\ \A j \in Keys : j # Key(item[w]) => store'[j] = store[j]
      BY <2>1, <2>5, WriterFacts
    <3>2. QED
      BY <3>1
  <2>6. QED
    BY <2>3, <2>4, <2>5 DEF Next
<1>4. QED
  BY <1>1, <1>2, <1>3, PTL DEF Spec, ExistingKept
=============================================================================
