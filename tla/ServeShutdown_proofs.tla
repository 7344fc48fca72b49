------------------------ MODULE ServeShutdown_proofs ------------------------
(* Theorems about ServeShutdown, for any set of requests, with and without an *)
(* app config source.                                                         *)
EXTENDS ServeShutdown, SequenceTheorems, TLAPS

\* the clean ups as OnComplete registers them, and how many after n steps of Setup
Nth == <<"provider", "observability", "shutdown", "watcher">>
Count(n) ==
  IF n < 6 THEN 0 ELSE IF n = 6 THEN 1 ELSE IF n < 11 THEN 2 ELSE IF n = 11 THEN 3 ELSE 4

SetupEnd == IF HasWatcher THEN 12 ELSE 11

\* the stages of a process that registered everything
Stopping == mainPc \in {"cleaning", "exited"}

\* the clean ups that have run are those registered last
Order ==
  /\ Len(completeFns) = Count(step)
  /\ \A i \in 1..Len(completeFns) : completeFns[i] = Nth[i]
  /\ Len(ran) <= Len(completeFns)
  /\ \A i \in 1..Len(ran) : ran[i] = completeFns[Len(completeFns) + 1 - i]
  /\ mainPc \in {"serving", "waiting", "cleaning", "exited"} => step = SetupEnd
  /\ mainPc \in {"setup", "serving", "waiting"} => ran = <<>>
  /\ mainPc = "exited" => Len(ran) = Len(completeFns)

\* how far the clean ups have come, by their distance to the first registered
Left == Len(completeFns) - Len(ran)

\* a request needs a server, which needs the providers
Served ==
  /\ step < 10 => listener = "off"
  /\ listener = "off" \/ listener = "starting" => Inflight = {}
  /\ ~providersUp => step < 2 \/ (Stopping /\ Left = 0)
  /\ Stopping /\ Left <= 2 => listener = "closing" /\ (Inflight # {} => timedOut)

\* the last push has the metrics of every request, and nothing older follows it
LastPush ==
  /\ pushDone # "no" => Stopping /\ Left <= 2 /\ pusher # "off"
  /\ Stopping /\ Left <= 1 /\ pusher # "off" => pushDone = "waiting"
  /\ pushDone # "no" /\ ~pushLost /\ ~timedOut =>
       /\ pusher = "pushing" => gathered["goroutine"] = Ended
       /\ pushDone = "pushing" => gathered["cleanup"] = Ended
       /\ pushDone = "waiting" => gateway = Ended

IInv == TypeOK /\ Order /\ Served /\ LastPush

-----------------------------------------------------------------------------
\* The steps of Setup, one by one.
LEMMA SetupSteps ==
  /\ Len(Setup) = SetupEnd
  /\ Setup[1] = "config" /\ Setup[2] = "providers" /\ Setup[3] = "maps"
  /\ Setup[4] = "cache" /\ Setup[5] = "observer" /\ Setup[6] = "provider"
  /\ Setup[7] = "observability" /\ Setup[8] = "pusher" /\ Setup[9] = "settings"
  /\ Setup[10] = "start" /\ Setup[11] = "shutdown"
  /\ HasWatcher => Setup[12] = "watcher"
<1>1. CASE HasWatcher
  BY <1>1 DEF Setup, Boot, SetupEnd
<1>2. CASE ~HasWatcher
  BY <1>2 DEF Setup, Boot, SetupEnd
<1> QED
  BY <1>1, <1>2

\* Len(Boot), which Booted compares with.
LEMMA BootSteps == Len(Boot) = 5
  BY DEF Boot

\* What a step of Setup is, by its number, and what it registers.
LEMMA SetupEffect ==
  ASSUME NEW n \in 0..(SetupEnd - 1)
  PROVE  /\ Setup[n + 1] = "start" <=> n = 9
         /\ Setup[n + 1] = "providers" <=> n = 1
         /\ Setup[n + 1] = "pusher" <=> n = 7
         /\ Setup[n + 1] \notin Cleanups => Count(n + 1) = Count(n)
         /\ Setup[n + 1] \in Cleanups =>
              Count(n + 1) = Count(n) + 1 /\ Setup[n + 1] = Nth[Count(n + 1)]
<1>1. n \in 0..11 /\ (n = 11 => HasWatcher)
  BY DEF SetupEnd
<1>2. CASE n \in 0..4
  BY <1>2, SetupSteps DEF Count, Nth, Cleanups
<1>3. CASE n \in 5..6
  BY <1>3, SetupSteps DEF Count, Nth, Cleanups
<1>4. CASE n \in 7..8
  BY <1>4, SetupSteps DEF Count, Nth, Cleanups
<1>7. CASE n = 9
  BY <1>7, SetupSteps DEF Count, Nth, Cleanups
<1>5. CASE n = 10
  BY <1>5, SetupSteps DEF Count, Nth, Cleanups
<1>6. CASE n = 11
  BY <1>1, <1>6, SetupSteps DEF Count, Nth, Cleanups
<1> QED
  BY <1>1, <1>2, <1>3, <1>4, <1>5, <1>6, <1>7

\* The clean up that runs next, by how many are left.
LEMMA CurrentIs ==
  ASSUME TypeOK, Order, mainPc = "cleaning", Left > 0
  PROVE  /\ Left \in 1..4
         /\ Current = "provider" <=> Left = 1
         /\ Current = "observability" <=> Left = 2
         /\ Current = "shutdown" <=> Left = 3
         /\ Current = "watcher" <=> Left = 4
<1>1. Len(completeFns) \in 0..4 /\ Len(ran) \in Nat
  BY DEF TypeOK, Order, Count
<1>2. Left \in 1..Len(completeFns) /\ Current = Nth[Left]
  BY <1>1 DEF Order, Current, Left
<1>3. Left \in 1..4
  BY <1>1 DEF Order, Left
<1>4. /\ Nth[1] = "provider" /\ Nth[2] = "observability"
      /\ Nth[3] = "shutdown" /\ Nth[4] = "watcher"
  BY DEF Nth
<1> QED
  BY <1>2, <1>3, <1>4

\* Init establishes the invariant.
LEMMA InitInvariant == Init => IInv
<1> SUFFICES ASSUME Init PROVE IInv
  OBVIOUS
<1>1. SetupEnd \in {11, 12} /\ Len(Setup) = SetupEnd
  BY SetupSteps DEF SetupEnd
<1>2. TypeOK
  <2>1. completeFns \in Seq(Cleanups) /\ ran \in Seq(Cleanups)
    BY EmptySeq DEF Init
  <2>2. gathered \in [{"goroutine", "cleanup"} -> SUBSET Requests]
    BY DEF Init
  <2>3. step \in 0..Len(Setup)
    BY <1>1 DEF Init
  <2>4. request \in [Requests -> {"idle", "inflight", "served", "failed"}]
    BY DEF Init
  <2>5. signals \in 0..MaxSignals
    BY ServeShutdownAssumption DEF Init
  <2> QED
    BY <2>1, <2>2, <2>3, <2>4, <2>5 DEF Init, TypeOK
<1>3. Order
  BY <1>1 DEF Init, Order, Count
<1>4. Served
  BY DEF Init, Served, Inflight, Stopping
<1>5. LastPush
  BY DEF Init, LastPush, Stopping
<1> QED
  BY <1>2, <1>3, <1>4, <1>5 DEF IInv

\* MainSetup in terms of the number of the step.
LEMMA MainSetupEffect ==
  ASSUME IInv, MainSetup
  PROVE  /\ step \in 0..(SetupEnd - 1) /\ step' = step + 1
         /\ listener' = IF step = 9 THEN "starting" ELSE listener
         /\ ~providersUp' => ~providersUp /\ step # 1
         /\ pusher' \in {pusher, "off", "idle"}
         /\ completeFns' \in Seq(Cleanups)
         /\ Len(completeFns') = Count(step')
         /\ \A i \in 1..Len(completeFns') : completeFns'[i] = Nth[i]
<1>1. step \in 0..(SetupEnd - 1) /\ step' = step + 1
  BY SetupSteps DEF MainSetup, IInv, TypeOK, SetupEnd
<1>2. DEFINE s == Setup[step + 1]
<1>3. /\ listener' = IF step = 9 THEN "starting" ELSE listener
      /\ ~providersUp' => ~providersUp /\ step # 1
      /\ pusher' \in {pusher, "off", "idle"}
  BY <1>1, SetupEffect DEF MainSetup
<1>4. completeFns \in Seq(Cleanups) /\ Len(completeFns) = Count(step)
  BY DEF IInv, TypeOK, Order
<1>5. CASE s \in Cleanups
  <2>1. completeFns' = Append(completeFns, s)
    BY <1>1, <1>5 DEF MainSetup
  <2>2. /\ Append(completeFns, s) \in Seq(Cleanups)
        /\ Len(Append(completeFns, s)) = Len(completeFns) + 1
        /\ \A i \in 1..Len(completeFns) : Append(completeFns, s)[i] = completeFns[i]
        /\ Append(completeFns, s)[Len(completeFns) + 1] = s
    BY <1>4, <1>5, AppendProperties
  <2>3. Count(step + 1) = Count(step) + 1 /\ s = Nth[Count(step + 1)]
    BY <1>1, <1>5, SetupEffect
  <2>4. Len(completeFns) \in Nat
    BY <1>4
  <2>5. \A i \in 1..(Len(completeFns) + 1) : Append(completeFns, s)[i] = Nth[i]
    BY <1>4, <2>2, <2>3, <2>4 DEF IInv, Order
  <2> QED
    BY <1>1, <1>3, <1>4, <2>1, <2>2, <2>3, <2>5
<1>6. CASE s \notin Cleanups
  <2>1. completeFns' = completeFns
    BY <1>1, <1>6 DEF MainSetup
  <2>2. Count(step + 1) = Count(step)
    BY <1>1, <1>6, SetupEffect
  <2> QED
    BY <1>1, <1>3, <1>4, <2>1, <2>2 DEF IInv, Order
<1> QED
  BY <1>5, <1>6

\* A clean up that has run is the one that is next in the reverse order.
LEMMA CleanEffect ==
  ASSUME IInv, mainPc = "cleaning", Len(ran) < Len(completeFns),
         ran' = Append(ran, Current)
  PROVE  /\ ran' \in Seq(Cleanups)
         /\ Len(ran') = Len(ran) + 1
         /\ \A i \in 1..Len(ran') : ran'[i] = completeFns[Len(completeFns) + 1 - i]
<1>1. /\ ran \in Seq(Cleanups) /\ Len(ran) \in Nat
      /\ completeFns \in Seq(Cleanups) /\ Len(completeFns) \in Nat
  BY DEF IInv, TypeOK
<1>2. Current \in Cleanups /\ Current = completeFns[Len(completeFns) + 1 - (Len(ran) + 1)]
  <2>1. Len(completeFns) - Len(ran) \in 1..Len(completeFns)
    BY <1>1
  <2>2. Len(completeFns) + 1 - (Len(ran) + 1) = Len(completeFns) - Len(ran)
    BY <1>1
  <2> QED
    BY <1>1, <2>1, <2>2, ElementOfSeq DEF Current
<1>3. /\ Append(ran, Current) \in Seq(Cleanups)
      /\ Len(Append(ran, Current)) = Len(ran) + 1
      /\ \A i \in 1..Len(ran) : Append(ran, Current)[i] = ran[i]
      /\ Append(ran, Current)[Len(ran) + 1] = Current
  BY <1>1, <1>2, AppendProperties
<1>4. \A i \in 1..(Len(ran) + 1) :
         Append(ran, Current)[i] = completeFns[Len(completeFns) + 1 - i]
  BY <1>1, <1>2, <1>3 DEF IInv, Order
<1> QED
  BY <1>3, <1>4

\* What a push carries, and what arrives with it.
LEMMA PushTypes ==
  ASSUME IInv, NEW w \in {"goroutine", "cleanup"}
  PROVE  /\ [gathered EXCEPT ![w] = Ended] \in [{"goroutine", "cleanup"} -> SUBSET Requests]
         /\ Push(w) => gateway' \subseteq Requests /\ pushLost' \in BOOLEAN
<1>1. Ended \subseteq Requests
  BY DEF Ended
<1>2. gathered \in [{"goroutine", "cleanup"} -> SUBSET Requests] /\ gateway \subseteq Requests
  BY DEF IInv, TypeOK
<1>3. gathered[w] \subseteq Requests /\ pushLost \in BOOLEAN
  BY <1>2 DEF IInv, TypeOK
<1> QED
  BY <1>1, <1>2, <1>3 DEF Push

\* Every action keeps the types.
LEMMA TypeStep ==
  ASSUME IInv, [Next]_vars
  PROVE  TypeOK'
<1> USE DEF TypeOK, IInv, cmdVars, mainVars, pushVars
<1>1. CASE Signal
  BY <1>1, ServeShutdownAssumption DEF Signal
<1>2. CASE HandlerStart
  BY <1>2 DEF HandlerStart, HandlerGoto
<1>3. CASE HandlerCancel
  BY <1>3 DEF HandlerCancel, HandlerGoto
<1>4. CASE HandlerDone
  BY <1>4 DEF HandlerDone, HandlerGoto
<1>5. CASE MainSetup
  <2>1. step' \in 0..Len(Setup) /\ completeFns' \in Seq(Cleanups)
    BY <1>5, MainSetupEffect, SetupSteps
  <2>2. /\ listener' \in {listener, "starting"} /\ pusher' \in {pusher, "off", "idle"}
        /\ providersUp' \in BOOLEAN
        /\ UNCHANGED <<cmdVars, mainPc, ran, request, timedOut,
                       tick, pushDone, gathered, gateway, pushLost>>
    BY <1>5, MainSetupEffect DEF MainSetup
  <2> QED
    BY <2>1, <2>2
<1>6. CASE MainFails
  BY <1>6 DEF MainFails
<1>7. CASE MainServe
  BY <1>7 DEF MainServe
<1>8. CASE MainComplete
  BY <1>8 DEF MainComplete
<1>9. CASE MainWaited
  BY <1>9 DEF MainWaited
<1>10. CASE CleanOther
  BY <1>10, CleanEffect DEF CleanOther, Cleaning
<1>11. CASE CleanPush
  BY <1>11, PushTypes DEF CleanPush
<1>12. CASE CleanPushed
  BY <1>12, PushTypes DEF CleanPushed
<1>13. CASE CleanPusherGone
  BY <1>13, CleanEffect DEF CleanPusherGone, Cleaning
<1>14. CASE CleanShutdown
  BY <1>14 DEF CleanShutdown
<1>15. CASE CleanShutdownReturns
  BY <1>15, CleanEffect DEF CleanShutdownReturns, Cleaning
<1>16. CASE CleanProviders
  <2>1. ran' \in Seq(Cleanups)
    BY <1>16, CleanEffect DEF CleanProviders, Cleaning
  <2>2. providersUp' \in BOOLEAN
    BY <1>16 DEF CleanProviders
  <2>3. UNCHANGED <<cmdVars, mainPc, step, completeFns, listener, request, timedOut, pushVars>>
    BY <1>16 DEF CleanProviders
  <2> QED
    BY <2>1, <2>2, <2>3
<1>17. CASE MainExit
  BY <1>17 DEF MainExit
<1>18. CASE Listen
  BY <1>18 DEF Listen
<1>19. CASE Tick
  BY <1>19 DEF Tick
<1>20. CASE PusherGathers
  <2>1. gathered' \in [{"goroutine", "cleanup"} -> SUBSET Requests]
    BY <1>20, PushTypes DEF PusherGathers
  <2>2. pusher' \in {"off", "idle", "pushing", "gone"} /\ tick' \in BOOLEAN
    BY <1>20 DEF PusherGathers
  <2>3. pushDone' = pushDone /\ pushLost' = pushLost /\ gateway' = gateway
    BY <1>20 DEF PusherGathers
  <2>4. UNCHANGED <<cmdVars, mainPc, step, completeFns, ran, listener, request, providersUp, timedOut>>
    BY <1>20 DEF PusherGathers
  <2> QED
    BY <2>1, <2>2, <2>3, <2>4
<1>21. CASE PusherPushed
  BY <1>21, PushTypes DEF PusherPushed
<1>22. CASE PusherLeaves
  BY <1>22 DEF PusherLeaves
<1>23. CASE \E r \in Requests : RequestArrives(r)
  BY <1>23 DEF RequestArrives
<1>24. CASE \E r \in Requests : RequestEnds(r)
  BY <1>24 DEF RequestEnds
<1>25. CASE UNCHANGED vars
  BY <1>25 DEF vars
<1> QED
  BY <1>1, <1>2, <1>3, <1>4, <1>5, <1>6, <1>7, <1>8, <1>9, <1>10, <1>11, <1>12, <1>13, <1>14, <1>15, <1>16, <1>17, <1>18, <1>19, <1>20, <1>21, <1>22, <1>23, <1>24, <1>25
     DEF Next, HandlerNext, MainNext, PusherNext

\* A clean up keeps the clean ups in order.
LEMMA CleanOrder ==
  ASSUME IInv, mainPc = "cleaning", Len(ran) < Len(completeFns),
         ran' = Append(ran, Current), UNCHANGED <<mainPc, step, completeFns>>
  PROVE  Order'
<1>1. Len(completeFns) \in Nat /\ Len(ran) \in Nat
  BY DEF IInv, TypeOK
<1>2. Len(ran') <= Len(completeFns')
  BY <1>1, CleanEffect
<1>3. \A i \in 1..Len(ran') : ran'[i] = completeFns'[Len(completeFns') + 1 - i]
  BY CleanEffect
<1>4. /\ Len(completeFns') = Count(step')
      /\ \A i \in 1..Len(completeFns') : completeFns'[i] = Nth[i]
      /\ mainPc' \in {"serving", "waiting", "cleaning", "exited"} => step' = SetupEnd
  BY DEF IInv, Order
<1> QED
  BY <1>2, <1>3, <1>4 DEF Order

\* Every action keeps the clean ups in order.
LEMMA OrderStep ==
  ASSUME IInv, [Next]_vars
  PROVE  Order'
<1> USE DEF Order, cmdVars, mainVars
<1> TypeOK /\ Order
  BY DEF IInv
<1> Len(completeFns) \in Nat /\ Len(ran) \in Nat
  BY DEF TypeOK
<1>1. CASE Signal
  BY <1>1 DEF Signal
<1>2. CASE HandlerStart
  BY <1>2 DEF HandlerStart, HandlerGoto
<1>3. CASE HandlerCancel
  BY <1>3 DEF HandlerCancel, HandlerGoto
<1>4. CASE HandlerDone
  BY <1>4 DEF HandlerDone, HandlerGoto
<1>5. CASE MainSetup
  BY <1>5, MainSetupEffect DEF MainSetup
<1>6. CASE MainFails
  BY <1>6 DEF MainFails
<1>7. CASE MainServe
  BY <1>7, SetupSteps DEF MainServe
<1>8. CASE MainComplete
  BY <1>8, SetupSteps DEF MainComplete
<1>9. CASE MainWaited
  BY <1>9 DEF MainWaited
<1>10. CASE CleanOther
  BY <1>10, CleanOrder DEF CleanOther, Cleaning
<1>11. CASE CleanPush
  BY <1>11 DEF CleanPush
<1>12. CASE CleanPushed
  BY <1>12 DEF CleanPushed
<1>13. CASE CleanPusherGone
  BY <1>13, CleanOrder DEF CleanPusherGone, Cleaning
<1>14. CASE CleanShutdown
  BY <1>14 DEF CleanShutdown
<1>15. CASE CleanShutdownReturns
  BY <1>15, CleanOrder DEF CleanShutdownReturns, Cleaning
<1>16. CASE CleanProviders
  BY <1>16, CleanOrder DEF CleanProviders, Cleaning
<1>17. CASE MainExit
  BY <1>17 DEF MainExit
<1>18. CASE Listen
  BY <1>18 DEF Listen
<1>19. CASE Tick
  BY <1>19 DEF Tick
<1>20. CASE PusherGathers
  BY <1>20 DEF PusherGathers
<1>21. CASE PusherPushed
  BY <1>21 DEF PusherPushed
<1>22. CASE PusherLeaves
  BY <1>22 DEF PusherLeaves
<1>23. CASE \E r \in Requests : RequestArrives(r)
  BY <1>23 DEF RequestArrives
<1>24. CASE \E r \in Requests : RequestEnds(r)
  BY <1>24 DEF RequestEnds
<1>25. CASE UNCHANGED vars
  BY <1>25 DEF vars
<1> QED
  BY <1>1, <1>2, <1>3, <1>4, <1>5, <1>6, <1>7, <1>8, <1>9, <1>10, <1>11, <1>12, <1>13, <1>14, <1>15, <1>16, <1>17, <1>18, <1>19, <1>20, <1>21, <1>22, <1>23, <1>24, <1>25
     DEF Next, HandlerNext, MainNext, PusherNext

\* A clean up that has run is one less.
LEMMA LeftEffect ==
  ASSUME IInv, mainPc = "cleaning", Len(ran) < Len(completeFns),
         ran' = Append(ran, Current), completeFns' = completeFns
  PROVE  Left' = Left - 1
<1>1. Len(completeFns) \in Nat /\ Len(ran) \in Nat
  BY DEF IInv, TypeOK
<1> QED
  BY <1>1, CleanEffect DEF Left

\* Every action keeps the requests within the life of the server and the pools.
LEMMA ServedStep ==
  ASSUME IInv, [Next]_vars
  PROVE  Served'
<1> USE DEF Served, Stopping, cmdVars, mainVars
<1> TypeOK /\ Order /\ Served
  BY DEF IInv
<1> /\ Len(completeFns) \in Nat /\ Len(ran) \in Nat /\ Left \in Nat
    /\ step \in Nat
  BY SetupSteps DEF TypeOK, Order, Left
<1>1. CASE Signal
  <2>1. Stopping => Booted
    BY SetupSteps, BootSteps DEF Booted, Order, SetupEnd
  <2> QED
    BY <1>1, <2>1 DEF Signal, Left, Inflight
<1>2. CASE HandlerStart
  BY <1>2 DEF HandlerStart, HandlerGoto, Left, Inflight
<1>3. CASE HandlerCancel
  BY <1>3 DEF HandlerCancel, HandlerGoto, Left, Inflight
<1>4. CASE HandlerDone
  BY <1>4 DEF HandlerDone, HandlerGoto, Left, Inflight
<1>5. CASE MainSetup
  <2>1. mainPc = "setup" /\ mainPc' = "setup" /\ Inflight' = Inflight
    BY <1>5 DEF MainSetup, Inflight
  <2>2. /\ step' = step + 1
        /\ listener' = IF step = 9 THEN "starting" ELSE listener
        /\ ~providersUp' => ~providersUp /\ step # 1
    BY <1>5, MainSetupEffect
  <2>3. step' < 10 => listener' = "off"
    BY <2>2
  <2>4. listener' = "off" \/ listener' = "starting" => Inflight' = {}
    BY <2>1, <2>2
  <2>5. ~providersUp' => step' < 2
    BY <2>1, <2>2
  <2> QED
    BY <2>1, <2>3, <2>4, <2>5
<1>6. CASE MainFails
  BY <1>6 DEF MainFails, Left, Inflight
<1>7. CASE MainServe
  BY <1>7 DEF MainServe, Left, Inflight
<1>8. CASE MainComplete
  BY <1>8 DEF MainComplete, Left, Inflight
<1>9. CASE MainWaited
  <2>1. Left' \in 3..4
    BY <1>9 DEF MainWaited, Left, Order, Count, SetupEnd
  <2> QED
    BY <1>9, <2>1 DEF MainWaited, Order, SetupEnd, Inflight
<1>10. CASE CleanOther
  <2>1. Left' = Left - 1
    BY <1>10, LeftEffect DEF CleanOther, Cleaning
  <2> QED
    BY <1>10, <2>1, CurrentIs DEF CleanOther, Cleaning, Left, Inflight
<1>11. CASE CleanPush
  BY <1>11 DEF CleanPush, Left, Inflight
<1>12. CASE CleanPushed
  BY <1>12 DEF CleanPushed, Left, Inflight
<1>13. CASE CleanPusherGone
  <2>1. Left' = Left - 1
    BY <1>13, LeftEffect DEF CleanPusherGone, Cleaning
  <2> QED
    BY <1>13, <2>1, CurrentIs DEF CleanPusherGone, Cleaning, Left, Inflight
<1>14. CASE CleanShutdown
  <2>1. Left = 3 /\ Left' = Left
    BY <1>14, CurrentIs DEF CleanShutdown, Cleaning, Left
  <2>2. listener' = "closing" /\ mainPc = "cleaning" /\ mainPc' = mainPc /\ step' = step
    BY <1>14 DEF CleanShutdown, Left, Inflight, Cleaning
  <2>3. providersUp' /\ step = SetupEnd
    BY <1>14, <2>1, <2>2 DEF CleanShutdown, Order, SetupEnd
  <2> QED
    BY <2>1, <2>2, <2>3 DEF SetupEnd
<1>15. CASE CleanShutdownReturns
  <2>1. Left = 3 /\ Left' = 2
    BY <1>15, LeftEffect, CurrentIs DEF CleanShutdownReturns, Cleaning, Left
  <2>2. listener' = "closing" /\ (Inflight' # {} => timedOut')
    BY <1>15 DEF CleanShutdownReturns, Inflight
  <2>3. step' = step /\ providersUp' /\ step = SetupEnd
    BY <1>15, <2>1 DEF CleanShutdownReturns, Cleaning, Order, SetupEnd
  <2> QED
    BY <2>1, <2>2, <2>3 DEF SetupEnd
<1>16. CASE CleanProviders
  <2>1. Left' = Left - 1
    BY <1>16, LeftEffect DEF CleanProviders, Cleaning
  <2> QED
    BY <1>16, <2>1, CurrentIs DEF CleanProviders, Cleaning, Left, Inflight
<1>17. CASE MainExit
  BY <1>17 DEF MainExit, Left, Inflight
<1>18. CASE Listen
  BY <1>18 DEF Listen, Left, Inflight
<1>19. CASE Tick
  BY <1>19 DEF Tick, Left, Inflight
<1>20. CASE PusherGathers
  BY <1>20 DEF PusherGathers, Left, Inflight
<1>21. CASE PusherPushed
  BY <1>21 DEF PusherPushed, Left, Inflight
<1>22. CASE PusherLeaves
  BY <1>22 DEF PusherLeaves, Left, Inflight
<1>23. CASE \E r \in Requests : RequestArrives(r)
  BY <1>23 DEF RequestArrives, Left, Inflight
<1>24. CASE \E r \in Requests : RequestEnds(r)
  BY <1>24 DEF RequestEnds, Left, Inflight
<1>25. CASE UNCHANGED vars
  BY <1>25 DEF vars, Left, Inflight
<1> QED
  BY <1>1, <1>2, <1>3, <1>4, <1>5, <1>6, <1>7, <1>8, <1>9, <1>10, <1>11, <1>12, <1>13, <1>14, <1>15, <1>16, <1>17, <1>18, <1>19, <1>20, <1>21, <1>22, <1>23, <1>24, <1>25
     DEF Next, HandlerNext, MainNext, PusherNext

\* Every action keeps what the last push carries.
LEMMA LastPushStep ==
  ASSUME IInv, [Next]_vars
  PROVE  LastPush'
<1> USE DEF Served, LastPush, Stopping, cmdVars, mainVars, pushVars
<1> TypeOK /\ Order /\ Served /\ LastPush
  BY DEF IInv
<1> Len(completeFns) \in Nat /\ Len(ran) \in Nat /\ Left \in Nat
  BY SetupSteps DEF TypeOK, Order, Left
<1>1. CASE Signal
  <2>1. Stopping => Booted
    BY SetupSteps, BootSteps DEF Booted, Order, SetupEnd
  <2> QED
    BY <1>1, <2>1 DEF Signal, Left, Ended
<1>2. CASE HandlerStart
  BY <1>2 DEF HandlerStart, HandlerGoto, Left, Ended
<1>3. CASE HandlerCancel
  BY <1>3 DEF HandlerCancel, HandlerGoto, Left, Ended
<1>4. CASE HandlerDone
  BY <1>4 DEF HandlerDone, HandlerGoto, Left, Ended
<1>5. CASE MainSetup
  <2>1. mainPc = "setup" /\ mainPc' = "setup" /\ pushDone = "no" /\ pushDone' = "no"
    BY <1>5 DEF MainSetup
  <2> QED
    BY <2>1
<1>6. CASE MainFails
  BY <1>6 DEF MainFails, Left, Ended
<1>7. CASE MainServe
  BY <1>7 DEF MainServe, Left, Ended
<1>8. CASE MainComplete
  BY <1>8 DEF MainComplete, Left, Ended
<1>9. CASE MainWaited
  <2>1. Left' \in 3..4
    BY <1>9 DEF MainWaited, Left, Order, Count, SetupEnd
  <2>2. pushDone = "no" /\ pushDone' = "no"
    BY <1>9 DEF MainWaited
  <2> QED
    BY <2>1, <2>2
<1>10. CASE CleanOther
  <2>1. Left' = Left - 1 /\ Left \in 1..4
    BY <1>10, LeftEffect, CurrentIs DEF CleanOther, Cleaning, Left
  <2>2. Ended' = Ended
    BY <1>10 DEF CleanOther, Ended
  <2> QED
    BY <1>10, <2>1, <2>2, CurrentIs DEF CleanOther, Cleaning
<1>11. CASE CleanPush
  <2>1. Left' = Left /\ Left = 2 /\ Ended' = Ended
    BY <1>11, CurrentIs DEF CleanPush, Cleaning, Left, Ended
  <2>2. gathered'["cleanup"] = Ended
    BY <1>11 DEF CleanPush, TypeOK
  <2>3. pushLost' \/ pusher' # "pushing"
    BY <1>11 DEF CleanPush
  <2> QED
    BY <1>11, <2>1, <2>2, <2>3 DEF CleanPush, Cleaning
<1>12. CASE CleanPushed
  <2>1. Left' = Left /\ Left = 2 /\ Ended' = Ended
    BY <1>12, CurrentIs DEF CleanPushed, Cleaning, Left, Ended
  <2>2. pushLost' \/ (gateway' = gathered["cleanup"] /\ ~pushLost)
    BY <1>12 DEF CleanPushed, Push
  <2> QED
    BY <1>12, <2>1, <2>2 DEF CleanPushed, Cleaning
<1>13. CASE CleanPusherGone
  <2>1. Left' = Left - 1 /\ Left \in 1..4
    BY <1>13, LeftEffect, CurrentIs DEF CleanPusherGone, Cleaning, Left
  <2>2. Ended' = Ended
    BY <1>13 DEF CleanPusherGone, Ended
  <2> QED
    BY <1>13, <2>1, <2>2, CurrentIs DEF CleanPusherGone, Cleaning
<1>14. CASE CleanShutdown
  BY <1>14 DEF CleanShutdown, Left, Ended
<1>15. CASE CleanShutdownReturns
  <2>1. Left' = Left - 1 /\ Left \in 1..4
    BY <1>15, LeftEffect, CurrentIs DEF CleanShutdownReturns, Cleaning, Left
  <2>2. Ended' = Ended
    BY <1>15 DEF CleanShutdownReturns, Ended
  <2> QED
    BY <1>15, <2>1, <2>2, CurrentIs DEF CleanShutdownReturns, Cleaning
<1>16. CASE CleanProviders
  <2>1. Left' = Left - 1 /\ Left \in 1..4
    BY <1>16, LeftEffect, CurrentIs DEF CleanProviders, Cleaning, Left
  <2>2. Ended' = Ended
    BY <1>16 DEF CleanProviders, Ended
  <2> QED
    BY <1>16, <2>1, <2>2, CurrentIs DEF CleanProviders, Cleaning
<1>17. CASE MainExit
  BY <1>17 DEF MainExit, Left, Ended
<1>18. CASE Listen
  BY <1>18 DEF Listen, Left, Ended
<1>19. CASE Tick
  BY <1>19 DEF Tick, Left, Ended
<1>20. CASE PusherGathers
  <2>1. Left' = Left /\ Ended' = Ended
    BY <1>20 DEF PusherGathers, Left, Ended
  <2>2. gathered'["goroutine"] = Ended /\ gathered'["cleanup"] = gathered["cleanup"]
    BY <1>20 DEF PusherGathers, TypeOK
  <2> QED
    BY <1>20, <2>1, <2>2 DEF PusherGathers
<1>21. CASE PusherPushed
  <2>1. Left' = Left /\ Ended' = Ended
    BY <1>21 DEF PusherPushed, Left, Ended
  <2>2. pushLost' \/ (gateway' = gathered["goroutine"] /\ ~pushLost)
    BY <1>21 DEF PusherPushed, Push
  <2> QED
    BY <1>21, <2>1, <2>2 DEF PusherPushed
<1>22. CASE PusherLeaves
  BY <1>22 DEF PusherLeaves, Left, Ended
<1>23. CASE \E r \in Requests : RequestArrives(r)
  <2>1. pushDone = "no"
    BY <1>23 DEF RequestArrives
  <2> QED
    BY <1>23, <2>1 DEF RequestArrives, Left
<1>24. CASE \E r \in Requests : RequestEnds(r)
  <2>1. pushDone # "no" => timedOut
    BY <1>24 DEF RequestEnds, Inflight
  <2> QED
    BY <1>24, <2>1 DEF RequestEnds, Left
<1>25. CASE UNCHANGED vars
  BY <1>25 DEF vars, Left, Ended
<1> QED
  BY <1>1, <1>2, <1>3, <1>4, <1>5, <1>6, <1>7, <1>8, <1>9, <1>10, <1>11, <1>12, <1>13, <1>14, <1>15, <1>16, <1>17, <1>18, <1>19, <1>20, <1>21, <1>22, <1>23, <1>24, <1>25
     DEF Next, HandlerNext, MainNext, PusherNext

\* The invariant is inductive.
LEMMA Invariant == Spec => []IInv
<1>1. IInv /\ [Next]_vars => IInv'
  BY TypeStep, OrderStep, ServedStep, LastPushStep DEF IInv
<1> QED
  BY <1>1, InitInvariant, PTL DEF Spec

-----------------------------------------------------------------------------
\* The types of the process's state.
THEOREM TypesHold == Spec => []TypeOK
  BY Invariant, PTL DEF IInv

\* A process that ends regularly has run every clean up that OnComplete was
\* given, the last first, whatever signals came and whatever was in flight.
THEOREM CleanedInReverseHolds == Spec => []CleanedInReverse
<1>1. ASSUME IInv, mainPc = "exited"
      PROVE  step = Len(Setup) /\ ran = Reverse(completeFns)
  <2>1. /\ ran \in Seq(Cleanups) /\ completeFns \in Seq(Cleanups)
        /\ Len(ran) = Len(completeFns) /\ Len(ran) \in Nat
    BY <1>1 DEF IInv, TypeOK, Order
  <2>2. \A i \in 1..Len(ran) : ran[i] = completeFns[Len(completeFns) + 1 - i]
    BY <1>1 DEF IInv, Order
  <2>3. \A i \in 1..Len(ran) : Len(completeFns) + 1 - i = (Len(completeFns) - i) + 1
    BY <2>1
  <2>4. ran = [i \in 1..Len(ran) |-> ran[i]]
    BY <2>1
  <2>5. ran = [i \in 1..Len(completeFns) |-> completeFns[(Len(completeFns) - i) + 1]]
    BY <2>1, <2>2, <2>3, <2>4
  <2> QED
    BY <1>1, <2>5, SetupSteps DEF IInv, Order, Reverse
<1>2. IInv => CleanedInReverse
  BY <1>1 DEF CleanedInReverse
<1> QED
  BY <1>2, Invariant, PTL

\* However many requests: none in flight meets a closed pool before Shutdown's
\* deadline has passed.
THEOREM PoolsOutliveRequestsHolds == Spec => []PoolsOutliveRequests
<1>1. IInv => PoolsOutliveRequests
  <2> SUFFICES ASSUME IInv, ~providersUp, Inflight # {}
               PROVE  timedOut
    BY DEF PoolsOutliveRequests
  <2>1. step < 2 => step < 10
    BY DEF IInv, TypeOK
  <2>2. Stopping /\ Left = 0
    BY <2>1 DEF IInv, Served
  <2> QED
    BY <2>2 DEF IInv, Served
<1> QED
  BY <1>1, Invariant, PTL

\* When the process has ended regularly the gateway has the metrics of every
\* request that was served.
THEOREM LastPushCompleteHolds == Spec => []LastPushComplete
<1>1. IInv => LastPushComplete
  <2> SUFFICES ASSUME IInv, mainPc = "exited", pusher # "off", ~pushLost, ~timedOut
               PROVE  gateway = Ended
    BY DEF LastPushComplete
  <2>1. Left = 0
    BY DEF IInv, TypeOK, Order, Left
  <2> QED
    BY <2>1 DEF IInv, LastPush, Stopping
<1> QED
  BY <1>1, Invariant, PTL
=============================================================================
