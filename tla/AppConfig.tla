------------------------------ MODULE AppConfig ------------------------------
(***************************************************************************)
(* The app config source of `tegola serve`: the watcher goroutine of       *)
(* FileConfigSource (config/source/file.go) loads the .toml files of a     *)
(* directory and follows their changes; the goroutine initConfigSource     *)
(* starts (cmd/tegola/cmd/server.go) receives each app over an unbuffered  *)
(* channel and registers its providers and its maps with the atlas.  The   *)
(* directory is edited at any time, and a termination signal closes the    *)
(* watcher's channels (ConfigWatcher.Close).                               *)
(*                                                                         *)
(* The kernel's queue of events is taken to be unbounded, and a file keeps *)
(* its list of maps: its versions differ in the definitions.               *)
(***************************************************************************)
EXTENDS Naturals, Sequences, SequencesExt

CONSTANTS
  FileList,   \* the .toml files, in the order ReadDir lists them
  MapNames,   \* names of maps
  MapsOf,     \* MapsOf[f]: the maps an app file declares, in order
  MaxEdits    \* bound: changes of the directory

Files == Range(FileList)

ASSUME AppConfigAssumption ==
  /\ IsInjective(FileList)
  /\ MapsOf \in [Files -> Seq(MapNames)]
  /\ MaxEdits \in Nat

NoMap == <<>>
NoApp == [file |-> <<>>, ver |-> 0, maps |-> <<>>]

VARIABLES
  disk,     \* each file: "gone", "partial" (being written) or "whole", its version
  edits,    \* changes made so far
  events,   \* events fsnotify has for the watcher
  watchPc,  \* the watcher: "readdir", "scan", "events", "update", "deletion"
  entries,  \* files the initial scan still has to load
  app,      \* the app the watcher sends
  regPc,    \* the consumer: "idle", "providers", "maps"
  regApp,   \* the app the consumer registers
  next,     \* the map it registers next
  atlas,    \* the file and version each map was registered from, or NoMap
  proc,     \* "running", "closing" (the channels are closed), "panicked", "exited"
  failed    \* history: files and versions whose registration failed

diskVars  == <<disk, edits, events>>
watchVars == <<watchPc, entries, app>>
regVars   == <<regPc, regApp, next, atlas, failed>>
vars == <<diskVars, watchVars, regVars, proc>>

Init ==
  /\ disk \in [Files -> {[state |-> "gone", ver |-> 0], [state |-> "whole", ver |-> 1]}]
  /\ edits = 0 /\ events = <<>>
  /\ watchPc = "readdir" /\ entries = {} /\ app = NoApp
  /\ regPc = "idle" /\ regApp = NoApp /\ next = 1
  /\ atlas = [m \in MapNames |-> NoMap]
  /\ proc = "running" /\ failed = {}

Alive == proc \in {"running", "closing"}

-----------------------------------------------------------------------------
(* The directory.  LoadAndWatch has added it to the fsnotify watcher.         *)

\* an event; the version is history, the code only gets the name
Notify(f, op, v) == events' = Append(events, [file |-> f, op |-> op, ver |-> v])

Change(f, state, v, op) ==
  /\ Alive
  /\ disk' = [disk EXCEPT ![f] = [state |-> state, ver |-> v]]
  /\ Notify(f, op, v)
  /\ UNCHANGED <<watchVars, regVars, proc>>

NewEdit == edits < MaxEdits /\ edits' = edits + 1

\* the file is created or truncated: Create or Write
EditBegin(f) == NewEdit /\ Change(f, "partial", disk[f].ver + 1, "write")

\* the rest of the content is written: Write
EditEnd(f) ==
  /\ disk[f].state = "partial"
  /\ Change(f, "whole", disk[f].ver, "write")
  /\ UNCHANGED edits

\* a complete file is moved over it: Create
Replace(f) == NewEdit /\ Change(f, "whole", disk[f].ver + 1, "write")

\* Remove, or Rename when the file is moved away
Delete(f) ==
  /\ disk[f].state # "gone"
  /\ NewEdit
  /\ \E op \in {"remove", "rename"} : Change(f, "gone", disk[f].ver, op)

-----------------------------------------------------------------------------
(* The watcher goroutine.                                                     *)

\* the second os.ReadDir of LoadAndWatch
WatchReadDir ==
  /\ Alive
  /\ watchPc = "readdir"
  /\ entries' = {f \in Files : disk[f].state # "gone"}
  /\ watchPc' = "scan"
  /\ UNCHANGED <<diskVars, app, regVars, proc>>

\* What parseApp makes of a file: half a file can be the start of its maps
AppsIn(f) ==
  {[file |-> f, ver |-> disk[f].ver, maps |-> SubSeq(MapsOf[f], 1, n)] :
     n \in IF disk[f].state = "partial" THEN 0..Len(MapsOf[f]) ELSE {Len(MapsOf[f])}}

\* loadApp up to the send: a file that is gone again or does not parse is logged
Load(f, otherwise) ==
  \/ /\ disk[f].state # "gone"
     /\ app' \in AppsIn(f)
     /\ watchPc' = "update"
  \/ /\ disk[f].state # "whole"
     /\ app' = NoApp
     /\ watchPc' = otherwise

\* the next file of the initial scan, in the order of the directory
WatchScan ==
  /\ Alive
  /\ watchPc = "scan"
  /\ \E i \in DOMAIN FileList :
       /\ FileList[i] \in entries
       /\ \A j \in 1..(i - 1) : FileList[j] \notin entries
       /\ entries' = entries \ {FileList[i]}
       /\ Load(FileList[i], "scan")
  /\ UNCHANGED <<diskVars, regVars, proc>>

\* mutant: the directory is added to the watcher after the initial scan
Bug_WatchScanned ==
  /\ Alive
  /\ watchPc = "scan"
  /\ entries = {}
  /\ watchPc' = "events"
  /\ events' = <<>>
  /\ UNCHANGED <<disk, edits, entries, app, regVars, proc>>

WatchScanned ==
  /\ Alive
  /\ watchPc = "scan"
  /\ entries = {}
  /\ watchPc' = "events"
  /\ UNCHANGED <<diskVars, entries, app, regVars, proc>>

\* mutant: the content comes with the event, not from the file
Bug_WatchEvent ==
  /\ Alive
  /\ watchPc = "events"
  /\ events # <<>>
  /\ events' = Tail(events)
  /\ LET e == Head(events) IN
     IF e.op = "write"
       THEN /\ app' = [file |-> e.file, ver |-> e.ver, maps |-> MapsOf[e.file]]
            /\ watchPc' = "update"
       ELSE app' = NoApp /\ watchPc' = "events"
  /\ UNCHANGED <<disk, edits, entries, regVars, proc>>

\* case event := <-fsWatcher.Events: a Rename is neither a write nor a Remove
WatchEvent ==
  /\ Alive
  /\ watchPc = "events"
  /\ events # <<>>
  /\ events' = Tail(events)
  /\ LET e == Head(events) IN
     \/ e.op = "write"  /\ Load(e.file, "events")
     \/ e.op = "remove" /\ app' = [NoApp EXCEPT !.file = e.file] /\ watchPc' = "deletion"
     \/ e.op = "rename" /\ app' = NoApp /\ watchPc' = "events"
  /\ UNCHANGED <<disk, edits, entries, regVars, proc>>

AfterSend == IF entries # {} THEN "scan" ELSE "events"

\* updates <- app, received by the consumer's select
SendUpdate ==
  /\ proc = "running"
  /\ watchPc = "update"
  /\ regPc = "idle"
  /\ regApp' = app /\ regPc' = "providers" /\ next' = 1
  /\ app' = NoApp /\ watchPc' = AfterSend
  /\ UNCHANGED <<diskVars, entries, atlas, failed, proc>>

\* Deletions <- event.Name; handleConfigDeletion only logs
SendDeletion ==
  /\ proc = "running"
  /\ watchPc = "deletion"
  /\ regPc = "idle"
  /\ app' = NoApp /\ watchPc' = AfterSend
  /\ UNCHANGED <<diskVars, entries, regVars, proc>>

\* a send on a closed channel
SendPanics ==
  /\ proc = "closing"
  /\ watchPc \in {"update", "deletion"}
  /\ proc' = "panicked"
  /\ UNCHANGED <<diskVars, watchVars, regVars>>

WatchNext ==
  \/ WatchReadDir \/ WatchScan \/ WatchScanned \/ WatchEvent
  \/ SendUpdate \/ SendDeletion \/ SendPanics

-----------------------------------------------------------------------------
(* The consumer: handleConfigUpdate.                                          *)

Finish == regPc' = "idle" /\ regApp' = NoApp /\ next' = 1

\* the error is logged, nothing is undone
GiveUp ==
  /\ Finish
  /\ failed' = failed \cup {<<regApp.file, regApp.ver>>}
  /\ UNCHANGED atlas

\* register.Providers: a provider may be unknown or not reachable
RegisterProviders ==
  /\ Alive
  /\ regPc = "providers"
  /\ \/ regPc' = "maps" /\ UNCHANGED <<regApp, next, atlas, failed>>
     \/ GiveUp
  /\ UNCHANGED <<diskVars, watchVars, proc>>

\* register.Maps: the next map is checked and added, or ends it with an error
RegisterMap ==
  /\ Alive
  /\ regPc = "maps"
  /\ next <= Len(regApp.maps)
  /\ \/ /\ atlas' = [atlas EXCEPT ![regApp.maps[next]] = <<regApp.file, regApp.ver>>]
        /\ next' = next + 1
        /\ UNCHANGED <<regPc, regApp, failed>>
     \/ GiveUp
  /\ UNCHANGED <<diskVars, watchVars, proc>>

Registered ==
  /\ Alive
  /\ regPc = "maps"
  /\ next > Len(regApp.maps)
  /\ Finish
  /\ UNCHANGED <<diskVars, watchVars, atlas, failed, proc>>

RegNext == RegisterProviders \/ RegisterMap \/ Registered

-----------------------------------------------------------------------------
(* Shutdown.                                                                  *)

\* configWatcher.Close, the clean up that runs first.  The consumer receives
\* empty apps from now on, which register nothing.
Close ==
  /\ proc = "running"
  /\ proc' = "closing"
  /\ UNCHANGED <<diskVars, watchVars, regVars>>

Exit ==
  /\ proc = "closing"
  /\ proc' = "exited"
  /\ UNCHANGED <<diskVars, watchVars, regVars>>

Next ==
  \/ \E f \in Files : EditBegin(f) \/ EditEnd(f) \/ Replace(f) \/ Delete(f)
  \/ WatchNext
  \/ RegNext
  \/ Close \/ Exit

Spec == Init /\ [][Next]_vars

\* Both goroutines run, and a provider's connection attempt ends.
Fairness == WF_vars(WatchNext) /\ WF_vars(RegNext)
FairSpec == Spec /\ Fairness

-----------------------------------------------------------------------------
(* Properties.                                                                *)

Sources == Files \X (0..(MaxEdits + 1))

\* The types of the source's state.
TypeOK ==
  /\ disk \in [Files -> [state : {"gone", "partial", "whole"}, ver : 0..(MaxEdits + 1)]]
  /\ edits \in 0..MaxEdits
  /\ \A i \in DOMAIN events : events[i].file \in Files
  /\ watchPc \in {"readdir", "scan", "events", "update", "deletion"}
  /\ entries \subseteq Files
  /\ regPc \in {"idle", "providers", "maps"}
  /\ next \in 1..(Len(regApp.maps) + 1)
  /\ atlas \in [MapNames -> Sources \cup {NoMap}]
  /\ proc \in {"running", "closing", "panicked", "exited"}
  /\ failed \subseteq Sources

OwnMaps(f) == Range(MapsOf[f]) \ UNION {Range(MapsOf[g]) : g \in Files \ {f}}

\* While the server runs, what the atlas serves converges to what the directory
\* holds: no change is missed, whether it happens before, during or after the
\* initial scan, and a file that failed to load or to register does not keep a
\* later version or another file from being applied (LoadAndWatch adds the
\* directory to the watcher before it reads it).
EventuallyApplied ==
  <>[](proc = "running" =>
         \A f \in Files : disk[f].state = "whole" /\ <<f, disk[f].ver>> \notin failed =>
           \A m \in OwnMaps(f) : atlas[m] = <<f, disk[f].ver>>)

\* A map is never replaced by an older version of the file it came from, although
\* events are handled long after they happened (loadApp reads the file when the
\* event is handled).
NoRollback ==
  [][\A m \in MapNames :
       atlas[m] # NoMap /\ atlas'[m][1] = atlas[m][1] => atlas'[m][2] >= atlas[m][2]]_vars

=============================================================================
