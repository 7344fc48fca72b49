--------------------------- MODULE AppConfig_proofs ---------------------------
(* Theorems about AppConfig, for any files, maps and number of edits.         *)
EXTENDS AppConfig, SequenceTheorems, TLAPS

Events == [file : Files, op : {"write", "remove", "rename"}, ver : Nat]

\* the parts of the state that name files and versions
Typed ==
  /\ disk \in [Files -> [state : {"gone", "partial", "whole"}, ver : Nat]]
  /\ events \in Seq(Events)
  /\ entries \subseteq Files
  /\ watchPc = "update" => app.file \in Files /\ app.ver \in Nat
  /\ regPc # "idle" => regApp.file \in Files /\ regApp.ver \in Nat
  /\ atlas \in [MapNames -> (Files \X Nat) \cup {NoMap}]

\* a version reaches the atlas by way of the watcher and the consumer, and no
\* stage is ahead of the one before it
Ordered ==
  /\ watchPc = "update" => app.ver <= disk[app.file].ver
  /\ regPc # "idle" => regApp.ver <= disk[regApp.file].ver
  /\ watchPc = "update" /\ regPc # "idle" /\ regApp.file = app.file => regApp.ver <= app.ver
  /\ \A m \in MapNames : atlas[m] # NoMap =>
       /\ atlas[m][2] <= disk[atlas[m][1]].ver
       /\ watchPc = "update" /\ app.file = atlas[m][1] => atlas[m][2] <= app.ver
       /\ regPc # "idle" /\ regApp.file = atlas[m][1] => atlas[m][2] <= regApp.ver

IInv == Typed /\ Ordered

-----------------------------------------------------------------------------
\* A map in the atlas is a pair of a file and a version.
LEMMA MapEntry ==
  ASSUME Typed, NEW m \in MapNames, atlas[m] # NoMap
  PROVE  atlas[m] \in Files \X Nat /\ atlas[m][1] \in Files /\ atlas[m][2] \in Nat
  BY DEF Typed

LEMMA InitInvariant == Init => IInv
<1> SUFFICES ASSUME Init PROVE IInv
  OBVIOUS
<1>1. Typed
  BY EmptySeq DEF Init, Typed
<1>2. Ordered
  BY DEF Init, Ordered
<1> QED
  BY <1>1, <1>2 DEF IInv

\* What an edit of the directory changes: the version of a file only grows.
LEMMA ChangeEffect ==
  ASSUME IInv, NEW f \in Files, NEW v \in Nat, v >= disk[f].ver,
         NEW s \in {"gone", "partial", "whole"}, NEW op \in {"write", "remove", "rename"},
         Change(f, s, v, op)
  PROVE  IInv' /\ atlas' = atlas
<1>1. /\ disk' \in [Files -> [state : {"gone", "partial", "whole"}, ver : Nat]]
      /\ \A g \in Files : disk[g].ver \in Nat /\ disk'[g].ver \in Nat /\ disk'[g].ver >= disk[g].ver
  BY DEF Change, IInv, Typed
<1>2. events' \in Seq(Events)
  <2>1. [file |-> f, op |-> op, ver |-> v] \in Events
    BY DEF Events
  <2> QED
    BY <2>1, AppendProperties DEF Change, Notify, IInv, Typed
<1>3. UNCHANGED <<watchVars, regVars>>
  BY DEF Change
<1>4. Typed'
  BY <1>1, <1>2, <1>3 DEF IInv, Typed, watchVars, regVars
<1>5. ASSUME NEW m \in MapNames, atlas[m] # NoMap
      PROVE  atlas[m][2] <= disk'[atlas[m][1]].ver
  <2>1. atlas[m][1] \in Files /\ atlas[m][2] \in Nat /\ atlas[m][2] <= disk[atlas[m][1]].ver
    BY <1>5, MapEntry DEF IInv, Ordered
  <2> QED
    BY <1>1, <2>1
<1>6. watchPc = "update" => app.ver <= disk'[app.file].ver
  BY <1>1 DEF IInv, Typed, Ordered
<1>7. regPc # "idle" => regApp.ver <= disk'[regApp.file].ver
  BY <1>1 DEF IInv, Typed, Ordered
<1>8. Ordered'
  BY <1>3, <1>5, <1>6, <1>7 DEF IInv, Ordered, watchVars, regVars
<1> QED
  BY <1>3, <1>4, <1>8 DEF IInv, regVars

\* The watcher takes the version that the file has now.
LEMMA LoadEffect ==
  ASSUME IInv, NEW f \in Files, NEW p \in {"scan", "events"}, Load(f, p),
         disk' = disk, events' \in Seq(Events), entries' \subseteq Files, UNCHANGED regVars
  PROVE  IInv' /\ atlas' = atlas
<1>1. CASE watchPc' = "update"
  <2>1. app' \in AppsIn(f)
    BY <1>1 DEF Load
  <2>2. app'.file = f /\ app'.ver = disk[f].ver
    BY <2>1 DEF AppsIn
  <2>3. disk[f].ver \in Nat
    BY DEF IInv, Typed
  <2>4. Typed'
    BY <2>2, <2>3 DEF IInv, Typed, regVars
  <2>5. Ordered'
    BY <1>1, <2>2, <2>3 DEF IInv, Ordered, regVars
  <2> QED
    BY <2>4, <2>5 DEF IInv, regVars
<1>2. CASE watchPc' # "update"
  BY <1>2 DEF IInv, Typed, Ordered, regVars
<1> QED
  BY <1>1, <1>2

\* Every step of the directory and of the watcher keeps the order, and leaves the
\* atlas alone.
LEMMA WatcherSteps ==
  ASSUME IInv,
         (\E f \in Files : EditBegin(f) \/ EditEnd(f) \/ Replace(f) \/ Delete(f)) \/ WatchNext
  PROVE  IInv' /\ atlas' = atlas
<1> /\ Typed /\ Ordered
  BY DEF IInv
<1>1. ASSUME NEW f \in Files, EditBegin(f) \/ EditEnd(f) \/ Replace(f) \/ Delete(f)
      PROVE  IInv' /\ atlas' = atlas
  <2>1. disk[f].ver \in Nat
    BY DEF Typed
  <2> QED
    BY <1>1, <2>1, ChangeEffect DEF EditBegin, EditEnd, Replace, Delete
<1>2. CASE WatchReadDir
  BY <1>2 DEF WatchReadDir, IInv, Typed, Ordered, diskVars, regVars
<1>3. CASE WatchScan
  <2>1. PICK i \in DOMAIN FileList :
          FileList[i] \in entries /\ entries' = entries \ {FileList[i]} /\ Load(FileList[i], "scan")
    BY <1>3 DEF WatchScan
  <2> QED
    BY <1>3, <2>1, LoadEffect DEF WatchScan, Typed, diskVars
<1>4. CASE WatchScanned
  BY <1>4 DEF WatchScanned, IInv, Typed, Ordered, diskVars, regVars
<1>5. CASE WatchEvent
  <2>1. Head(events) \in Events /\ Tail(events) \in Seq(Events)
    BY <1>5, HeadTailProperties DEF WatchEvent, Typed
  <2>2. CASE Load(Head(events).file, "events")
    BY <1>5, <2>1, <2>2, LoadEffect DEF WatchEvent, Events, Typed
  <2>3. CASE watchPc' # "update"
    BY <1>5, <2>1, <2>3 DEF WatchEvent, IInv, Typed, Ordered, regVars
  <2> QED
    BY <1>5, <2>2, <2>3 DEF WatchEvent
<1>6. CASE SendUpdate
  <2>1. Typed'
    BY <1>6 DEF SendUpdate, AfterSend, Typed, diskVars
  <2>2. Ordered'
    BY <1>6 DEF SendUpdate, AfterSend, Ordered, diskVars
  <2> QED
    BY <1>6, <2>1, <2>2 DEF SendUpdate, IInv
<1>7. CASE SendDeletion
  BY <1>7 DEF SendDeletion, AfterSend, IInv, Typed, Ordered, diskVars, regVars
<1>8. CASE SendPanics
  BY <1>8 DEF SendPanics, IInv, Typed, Ordered, diskVars, watchVars, regVars
<1> QED
  BY <1>1, <1>2, <1>3, <1>4, <1>5, <1>6, <1>7, <1>8 DEF WatchNext

\* What a step of the consumer and of the shutdown may do to the atlas.
NewerOnly ==
  \A m \in MapNames :
    atlas[m] # NoMap /\ atlas'[m][1] = atlas[m][1] => atlas'[m][2] >= atlas[m][2]

LEMMA SameAtlas == ASSUME IInv, atlas' = atlas PROVE NewerOnly
<1> SUFFICES ASSUME NEW m \in MapNames, atlas[m] # NoMap
             PROVE  atlas[m][2] >= atlas[m][2]
  BY DEF NewerOnly
<1>1. atlas[m][2] \in Nat
  BY MapEntry DEF IInv
<1> QED
  BY <1>1

\* A map gets the version that the consumer registers, which is no older.
LEMMA RegisterMapEffect ==
  ASSUME IInv, RegisterMap, atlas' # atlas
  PROVE  IInv' /\ NewerOnly
<1> DEFINE n == regApp.maps[next]
           entry == <<regApp.file, regApp.ver>>
<1>1. /\ regPc = "maps" /\ atlas' = [atlas EXCEPT ![n] = entry]
      /\ UNCHANGED <<diskVars, watchVars, regPc, regApp>>
  BY DEF RegisterMap, GiveUp
<1>2. /\ Typed /\ Ordered /\ regApp.file \in Files /\ regApp.ver \in Nat
      /\ regApp.ver <= disk[regApp.file].ver
  BY <1>1 DEF IInv, Typed, Ordered
<1>3. entry \in Files \X Nat /\ entry[1] = regApp.file /\ entry[2] = regApp.ver
  BY <1>2
<1>4. \A m \in MapNames : atlas'[m] = IF m = n THEN entry ELSE atlas[m]
  BY <1>1 DEF IInv, Typed
<1>5. Typed'
  BY <1>1, <1>2, <1>3 DEF Typed, diskVars, watchVars
<1>6. ASSUME NEW m \in MapNames, atlas'[m] # NoMap
      PROVE  /\ atlas'[m][2] <= disk[atlas'[m][1]].ver
             /\ watchPc = "update" /\ app.file = atlas'[m][1] => atlas'[m][2] <= app.ver
             /\ regApp.file = atlas'[m][1] => atlas'[m][2] <= regApp.ver
  <2>1. CASE m = n
    BY <1>1, <1>2, <1>3, <1>4, <2>1 DEF Ordered
  <2>2. CASE m # n
    BY <1>1, <1>2, <1>4, <1>6, <2>2 DEF Ordered
  <2> QED
    BY <2>1, <2>2
<1>7. Ordered'
  BY <1>1, <1>2, <1>6 DEF Ordered, diskVars, watchVars
<1>8. NewerOnly
  <2> SUFFICES ASSUME NEW m \in MapNames, atlas[m] # NoMap, atlas'[m][1] = atlas[m][1]
               PROVE  atlas'[m][2] >= atlas[m][2]
    BY DEF NewerOnly
  <2>1. atlas[m][2] \in Nat
    BY <1>2, MapEntry
  <2>2. CASE m = n
    BY <1>1, <1>2, <1>3, <1>4, <2>1, <2>2 DEF Ordered
  <2>3. CASE m # n
    BY <1>4, <2>1, <2>3
  <2> QED
    BY <2>2, <2>3
<1> QED
  BY <1>5, <1>7, <1>8 DEF IInv

LEMMA Step == ASSUME IInv, [Next]_vars PROVE IInv' /\ NewerOnly
<1>1. CASE (\E f \in Files : EditBegin(f) \/ EditEnd(f) \/ Replace(f) \/ Delete(f)) \/ WatchNext
  BY <1>1, WatcherSteps, SameAtlas
<1>2. CASE RegisterProviders
  <2>1. IInv' /\ atlas' = atlas
    BY <1>2 DEF RegisterProviders, GiveUp, Finish, IInv, Typed, Ordered, diskVars, watchVars
  <2> QED
    BY <2>1, SameAtlas
<1>3. CASE RegisterMap /\ atlas' # atlas
  BY <1>3, RegisterMapEffect
<1>4. CASE RegisterMap /\ atlas' = atlas
  <2>1. IInv'
    BY <1>4 DEF RegisterMap, GiveUp, Finish, IInv, Typed, Ordered, diskVars, watchVars
  <2> QED
    BY <1>4, <2>1, SameAtlas
<1>5. CASE Registered
  <2>1. IInv' /\ atlas' = atlas
    BY <1>5 DEF Registered, Finish, IInv, Typed, Ordered, diskVars, watchVars
  <2> QED
    BY <2>1, SameAtlas
<1>6. CASE Close \/ Exit \/ UNCHANGED vars
  <2>1. IInv' /\ atlas' = atlas
    BY <1>6 DEF Close, Exit, vars, IInv, Typed, Ordered, diskVars, watchVars, regVars
  <2> QED
    BY <2>1, SameAtlas
<1> QED
  BY <1>1, <1>2, <1>3, <1>4, <1>5, <1>6 DEF Next, RegNext

-----------------------------------------------------------------------------
\* However often the files are edited and however late the watcher handles the
\* events, handleConfigUpdate never puts an older version of an app file over a
\* newer one.
THEOREM NeverRollsBack == Spec => NoRollback
<1>1. Init => IInv
  BY InitInvariant
<1>2. IInv /\ [Next]_vars => IInv'
  BY Step
<1>3. IInv /\ [Next]_vars =>
        [\A m \in MapNames :
           atlas[m] # NoMap /\ atlas'[m][1] = atlas[m][1] => atlas'[m][2] >= atlas[m][2]]_vars
  BY Step DEF NewerOnly
<1> QED
  BY <1>1, <1>2, <1>3, PTL DEF Spec, NoRollback
=============================================================================
