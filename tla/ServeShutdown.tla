---------------------------- MODULE ServeShutdown ----------------------------
(***************************************************************************)
(* How `tegola serve` starts and stops: the signal context of internal/cmd *)
(* (gdcmd), the clean up functions the command registers with OnComplete,  *)
(* the HTTP server with its requests, the data providers whose connection  *)
(* pools the requests use, and the goroutine of the prometheus observer    *)
(* that pushes the metrics to a gateway.                                   *)
(***************************************************************************)
EXTENDS Naturals, Sequences, SequencesExt

CONSTANTS
  Requests,    \* the HTTP requests
  HasWatcher,  \* an app config source is configured
  MaxSignals   \* bound: termination signals sent to the process

ASSUME ServeShutdownAssumption == HasWatcher \in BOOLEAN /\ MaxSignals \in Nat

\* initConfig, before the command runs: each stage can fail and end the process.
\* The lambda's init has the same stages.
Boot == <<"config", "providers", "maps", "cache", "observer">>

\* What the serve command does before it waits for a signal, in order: "pusher"
\* is StartSubProcesses, "settings" checks the headers and the certificates,
\* "start" starts the server, the others are an OnComplete of that clean up.
Setup == Boot \o <<"provider", "observability", "pusher", "settings", "start", "shutdown">>
              \o (IF HasWatcher THEN <<"watcher">> ELSE <<>>)
Cleanups == {"provider", "observability", "shutdown", "watcher"}

VARIABLES
  handler,     \* the goroutine signalHandler
  signals,     \* signals sent so far
  ctxDone,     \* the context behind Cancelled()
  mainPc,      \* "setup", "serving", "waiting" (for the handler), "cleaning",
               \* "exited", or "died" (os.Exit(1))
  step,        \* the steps of Setup that are done
  completeFns, \* the functions registered with OnComplete
  ran,         \* history: the clean ups that have run, in order
  listener,    \* the server: "off", "starting", "up", "closing"
  request,     \* each request: "idle", "inflight", "served", "failed"
  providersUp, \* the providers' pools are open
  timedOut,    \* history: Shutdown gave up waiting for requests
  pusher,      \* the pushing goroutine: "off", "idle", "pushing" or "gone"
  tick,        \* a tick of the cadence waits in its channel
  pushDone,    \* the clean up of the observer: "no", or, with the ticker stopped
               \* and the goroutine cancelled, "pushing" and "waiting"
  gathered,    \* the requests in the metrics that a push under way carries
  gateway,     \* ... and in those the gateway has
  pushLost     \* history: a push failed, or another one was under way at the end

cmdVars == <<handler, signals, ctxDone>>
mainVars == <<mainPc, step, completeFns, ran>>
pushVars == <<pusher, tick, pushDone, gathered, gateway, pushLost>>
vars == <<cmdVars, mainVars, listener, request, providersUp, timedOut, pushVars>>

Init ==
  /\ handler = "starting" /\ signals = 0 /\ ctxDone = FALSE
  /\ mainPc = "setup" /\ step = 0 /\ completeFns = <<>> /\ ran = <<>>
  /\ listener = "off"
  /\ request = [r \in Requests |-> "idle"]
  /\ providersUp = FALSE /\ timedOut = FALSE
  /\ pusher = "off" /\ tick = FALSE /\ pushDone = "no" /\ pushLost = FALSE
  /\ gathered = [w \in {"goroutine", "cleanup"} |-> {}] /\ gateway = {}

Booted == step >= Len(Boot)
Alive == mainPc \notin {"exited", "died"}

-----------------------------------------------------------------------------
(* The signal context: New follows Boot, and a signal before it ends the      *)
(* process.                                                                   *)

\* The signal package does not wait for a receiver: a signal that comes before
\* the handler is in its select, or after it has left it, is dropped.
Signal ==
  /\ Alive
  /\ signals < MaxSignals
  /\ signals' = signals + 1
  /\ handler' = IF handler = "waiting" THEN "got" ELSE handler
  /\ mainPc' = IF Booted THEN mainPc ELSE "died"
  /\ UNCHANGED <<ctxDone, step, completeFns, ran, listener, request, providersUp, timedOut, pushVars>>

HandlerGoto(h) ==
  /\ Alive
  /\ handler' = h
  /\ UNCHANGED <<signals, mainVars, listener, request, providersUp, timedOut, pushVars>>

\* the goroutine reaches its select
HandlerStart == Booted /\ handler = "starting" /\ HandlerGoto("waiting") /\ UNCHANGED ctxDone

\* case s := <-c.c.  The select's other case, <-c.ctx.Done(), is for commands that
\* end without a signal: serve calls Complete after the handler's cancel.
HandlerCancel == handler = "got" /\ HandlerGoto("leaving") /\ ctxDone' = TRUE

\* c.wg.Done()
HandlerDone == handler = "leaving" /\ HandlerGoto("done") /\ UNCHANGED ctxDone

HandlerNext == HandlerStart \/ HandlerCancel \/ HandlerDone

-----------------------------------------------------------------------------
(* The serve command.                                                         *)

\* initConfig, OnComplete, StartSubProcesses, server.Start.  The goroutine starts
\* when the observer has a push_url.
MainSetup ==
  /\ mainPc = "setup"
  /\ step < Len(Setup)
  /\ step' = step + 1
  /\ LET s == Setup[step']
     IN  /\ listener' = IF s = "start" THEN "starting" ELSE listener
         /\ completeFns' = IF s \in Cleanups THEN Append(completeFns, s) ELSE completeFns
         /\ providersUp' = (providersUp \/ s = "providers")
         /\ pusher' \in IF s = "pusher" THEN {"off", "idle"} ELSE {pusher}
  /\ UNCHANGED <<cmdVars, mainPc, ran, request, timedOut,
                 tick, pushDone, gathered, gateway, pushLost>>

\* a stage fails: os.Exit(1) without any clean up
MainFails ==
  /\ mainPc = "setup"
  /\ step < Len(Setup)
  /\ Setup[step + 1] \in Range(Boot) \cup {"settings"}
  /\ mainPc' = "died"
  /\ UNCHANGED <<cmdVars, step, completeFns, ran, listener, request, providersUp, timedOut, pushVars>>

MainServe ==
  /\ mainPc = "setup"
  /\ step = Len(Setup)
  /\ mainPc' = "serving"
  /\ UNCHANGED <<cmdVars, step, completeFns, ran, listener, request, providersUp, timedOut, pushVars>>

\* <-gdcmd.Cancelled(), then Complete cancels
MainComplete ==
  /\ mainPc = "serving"
  /\ ctxDone
  /\ mainPc' = "waiting"
  /\ UNCHANGED <<cmdVars, step, completeFns, ran, listener, request, providersUp, timedOut, pushVars>>

\* c.wg.Wait()
MainWaited ==
  /\ mainPc = "waiting"
  /\ handler = "done"
  /\ mainPc' = "cleaning"
  /\ UNCHANGED <<cmdVars, step, completeFns, ran, listener, request, providersUp, timedOut, pushVars>>

\* mutant: in the order they were registered
Bug_Current == completeFns[Len(ran) + 1]

\* The next clean up, from the last registered to the first
Current == completeFns[Len(completeFns) - Len(ran)]

Cleaning(f) ==
  /\ mainPc = "cleaning"
  /\ Len(ran) < Len(completeFns)
  /\ Current = f

\* configWatcher.Close, and observability.Cleanup when nothing is pushed
CleanOther ==
  /\ \/ Cleaning("watcher")
     \/ Cleaning("observability") /\ pusher = "off"
  /\ ran' = Append(ran, Current)
  /\ UNCHANGED <<cmdVars, mainPc, step, completeFns, listener, request, providersUp, timedOut, pushVars>>

Ended == {r \in Requests : request[r] \in {"served", "failed"}}

\* observability.Cleanup stops the ticker, cancels the goroutine and gathers the
\* metrics for a last push, while a push of the goroutine may be under way
CleanPush ==
  /\ Cleaning("observability") /\ pusher # "off" /\ pushDone = "no"
  /\ pushDone' = "pushing"
  /\ gathered' = [gathered EXCEPT !["cleanup"] = Ended]
  /\ pushLost' = (pushLost \/ pusher = "pushing")
  /\ UNCHANGED <<cmdVars, mainVars, listener, request, providersUp, timedOut,
                 pusher, tick, gateway>>

\* the push of w arrives or fails
Push(w) ==
  \/ gateway' = gathered[w] /\ UNCHANGED pushLost
  \/ pushLost' = TRUE /\ UNCHANGED gateway

CleanPushed ==
  /\ Cleaning("observability") /\ pushDone = "pushing"
  /\ pushDone' = "waiting"
  /\ Push("cleanup")
  /\ UNCHANGED <<cmdVars, mainVars, listener, request, providersUp, timedOut,
                 pusher, tick, gathered>>

\* wg.Wait()
CleanPusherGone ==
  /\ Cleaning("observability") /\ pushDone = "waiting"
  /\ pusher = "gone"
  /\ ran' = Append(ran, "observability")
  /\ UNCHANGED <<cmdVars, mainPc, step, completeFns, listener, request, providersUp, timedOut, pushVars>>

\* srv.Shutdown closes the listener ...
CleanShutdown ==
  /\ Cleaning("shutdown")
  /\ listener # "closing"
  /\ listener' = "closing"
  /\ UNCHANGED <<cmdVars, mainVars, request, providersUp, timedOut, pushVars>>

Inflight == {r \in Requests : request[r] = "inflight"}

\* mutant: does not wait and does not tell
Bug_CleanShutdownReturns ==
  /\ Cleaning("shutdown")
  /\ listener = "closing"
  /\ ran' = Append(ran, "shutdown")
  /\ UNCHANGED <<cmdVars, mainPc, step, completeFns, listener, request, providersUp, timedOut, pushVars>>

\* mutant: waits for the requests without a deadline
Bug_CleanShutdownWaits ==
  /\ Cleaning("shutdown")
  /\ listener = "closing"
  /\ Inflight = {}
  /\ ran' = Append(ran, "shutdown")
  /\ UNCHANGED <<cmdVars, mainPc, step, completeFns, listener, request, providersUp, timedOut, pushVars>>

\* ... and waits for the requests, but no longer than 100 milliseconds
CleanShutdownReturns ==
  /\ Cleaning("shutdown")
  /\ listener = "closing"
  /\ timedOut' = (Inflight # {})
  /\ ran' = Append(ran, "shutdown")
  /\ UNCHANGED <<cmdVars, mainPc, step, completeFns, listener, request, providersUp, pushVars>>

\* provider.Cleanup closes the pools
CleanProviders ==
  /\ Cleaning("provider")
  /\ providersUp' = FALSE
  /\ ran' = Append(ran, "provider")
  /\ UNCHANGED <<cmdVars, mainPc, step, completeFns, listener, request, timedOut, pushVars>>

MainExit ==
  /\ mainPc = "cleaning"
  /\ Len(ran) = Len(completeFns)
  /\ mainPc' = "exited"
  /\ UNCHANGED <<cmdVars, step, completeFns, ran, listener, request, providersUp, timedOut, pushVars>>

MainNext ==
  \/ MainSetup \/ MainFails \/ MainServe \/ MainComplete \/ MainWaited
  \/ CleanOther \/ CleanPush \/ CleanPushed \/ CleanPusherGone \/ CleanShutdown \/ CleanShutdownReturns \/ CleanProviders
  \/ MainExit

-----------------------------------------------------------------------------
(* The server.                                                                *)

\* ListenAndServe binds the port, or fails and kills the process
Listen ==
  /\ Alive
  /\ listener = "starting"
  /\ \/ listener' = "up" /\ UNCHANGED mainPc
     \/ listener' = "off" /\ mainPc' = "died"
  /\ UNCHANGED <<cmdVars, step, completeFns, ran, request, providersUp, timedOut, pushVars>>

RequestArrives(r) ==
  /\ Alive
  /\ listener = "up"
  /\ request[r] = "idle"
  /\ request' = [request EXCEPT ![r] = "inflight"]
  /\ UNCHANGED <<cmdVars, mainVars, listener, providersUp, timedOut, pushVars>>

\* the handler queries its providers
RequestEnds(r) ==
  /\ Alive
  /\ request[r] = "inflight"
  /\ request' = [request EXCEPT ![r] = IF providersUp THEN "served" ELSE "failed"]
  /\ UNCHANGED <<cmdVars, mainVars, listener, providersUp, timedOut, pushVars>>

-----------------------------------------------------------------------------
(* The goroutine of the observer.                                             *)

\* the channel of a ticker keeps one tick
Tick ==
  /\ Alive /\ pusher # "off" /\ pushDone = "no"
  /\ ~tick /\ tick' = TRUE
  /\ UNCHANGED <<cmdVars, mainVars, listener, request, providersUp, timedOut,
                 pusher, pushDone, gathered, gateway, pushLost>>

\* case <-ticker.C, also when the context is done as well
PusherGathers ==
  /\ Alive /\ pusher = "idle" /\ tick
  /\ pusher' = "pushing" /\ tick' = FALSE
  /\ gathered' = [gathered EXCEPT !["goroutine"] = Ended]
  /\ UNCHANGED <<cmdVars, mainVars, listener, request, providersUp, timedOut,
                 pushDone, gateway, pushLost>>

PusherPushed ==
  /\ Alive /\ pusher = "pushing"
  /\ pusher' = "idle"
  /\ Push("goroutine")
  /\ UNCHANGED <<cmdVars, mainVars, listener, request, providersUp, timedOut,
                 tick, pushDone, gathered>>

\* case <-ctx.Done()
PusherLeaves ==
  /\ Alive /\ pusher = "idle" /\ pushDone # "no"
  /\ pusher' = "gone"
  /\ UNCHANGED <<cmdVars, mainVars, listener, request, providersUp, timedOut,
                 tick, pushDone, gathered, gateway, pushLost>>

PusherNext == PusherGathers \/ PusherPushed \/ PusherLeaves

Next ==
  \/ Signal
  \/ HandlerNext
  \/ MainNext
  \/ Listen
  \/ Tick
  \/ PusherNext
  \/ \E r \in Requests : RequestArrives(r) \/ RequestEnds(r)

Spec == Init /\ [][Next]_vars

\* The goroutines run, and a push ends (a gateway that never answers would hold
\* the clean up).  Shutdown needs no request to end: it has a deadline.
Fairness ==
  /\ WF_vars(HandlerNext) /\ WF_vars(MainNext) /\ WF_vars(Listen)
  /\ WF_vars(PusherNext)
FairSpec == Spec /\ Fairness

-----------------------------------------------------------------------------
(* Properties.                                                                *)

\* The types of the process's state.
TypeOK ==
  /\ handler \in {"starting", "waiting", "got", "leaving", "done"}
  /\ signals \in 0..MaxSignals /\ ctxDone \in BOOLEAN
  /\ mainPc \in {"setup", "serving", "waiting", "cleaning", "exited", "died"}
  /\ step \in 0..Len(Setup)
  /\ completeFns \in Seq(Cleanups) /\ ran \in Seq(Cleanups)
  /\ listener \in {"off", "starting", "up", "closing"}
  /\ request \in [Requests -> {"idle", "inflight", "served", "failed"}]
  /\ providersUp \in BOOLEAN /\ timedOut \in BOOLEAN
  /\ pusher \in {"off", "idle", "pushing", "gone"} /\ tick \in BOOLEAN
  /\ pushDone \in {"no", "pushing", "waiting"} /\ pushLost \in BOOLEAN
  /\ gathered \in [{"goroutine", "cleanup"} -> SUBSET Requests]
  /\ gateway \subseteq Requests

\* A process that ends regularly has run every clean up it registered, once, the
\* last registered first (OnComplete and Complete).
CleanedInReverse ==
  mainPc = "exited" => /\ step = Len(Setup)
                       /\ ran = Reverse(completeFns)

\* No request meets a closed connection pool, but for those that were in flight
\* when Shutdown's deadline passed (the order of the OnComplete calls in serve).
PoolsOutliveRequests == ~providersUp /\ Inflight # {} => timedOut

\* When the process has ended the gateway has the metrics of every request, but
\* for those that outlived the deadline, unless a push failed or the goroutine
\* was still pushing when the clean up began: its older metrics may arrive last.
LastPushComplete ==
  mainPc = "exited" /\ pusher # "off" /\ ~pushLost /\ ~timedOut => gateway = Ended

\* Once the context is cancelled the process cleans up and exits; neither the
\* handler goroutine nor a slow request holds it.
CancelledExits == ctxDone ~> ~Alive
=============================================================================
