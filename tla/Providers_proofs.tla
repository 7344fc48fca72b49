--------------------------- MODULE Providers_proofs ---------------------------
(* Theorems about the database providers, for any requests, tables, sizes of a *)
(* pool and configurations.                                                    *)
EXTENDS Providers, TLAPS

-----------------------------------------------------------------------------
(* The backend of a behaviour.                                                *)

LEMMA PgSetup == PgNext => Pg /\ setup' = setup
<1> SUFFICES ASSUME PgNext PROVE Pg /\ setup' = setup
  OBVIOUS
<1> USE DEF creation, Finish, FailCreation
<1>1. CASE PgCreate
  BY <1>1 DEF PgCreate, PgReadConfig, PgReadLayer, PgReadFields, PgSetType, PgInspect, PgCreated
<1>2. CASE PgCleanup \/ PgCloseWaits
  BY <1>2 DEF PgCleanup, PgCloseWaits
<1>3. ASSUME NEW o \in Owners, PgAcquireIdle(o) \/ PgConnect(o) PROVE Pg /\ setup' = setup
  BY <1>3 DEF PgAcquireIdle, PgConnect
<1>4. ASSUME NEW c \in Conns, PgDialFails(c) \/ PgConnection(c) PROVE Pg /\ setup' = setup
  BY <1>4 DEF PgDialFails, PgAcquireFails, PgConnection, PgLookup, PgCheck, PgRegister
<1>5. ASSUME NEW r \in Requests,
             PgTileFeatures(r) \/ PgMVTForLayers(r) \/ PgRequest(r) \/ PgCancel(r)
      PROVE  Pg /\ setup' = setup
  BY <1>5 DEF PgTileFeatures, PgMVTForLayers, PgRequest, PgQueryRefused, PgQuery, PgRow,
     PgRowsEnd, PgMVTScan, PgCancel, PgStop, Deliver, Skip, Cancel
<1>6. QED
  BY <1>1, <1>2, <1>3, <1>4, <1>5 DEF PgNext

LEMMA HanaSetup == HanaNext => Hana /\ setup' = setup
<1> SUFFICES ASSUME HanaNext PROVE Hana /\ setup' = setup
  OBVIOUS
<1> USE DEF creation, Finish, FailCreation, HanaKeepLayer, HanaRunForColumns
<1>1. CASE HanaCreate
  BY <1>1 DEF HanaCreate, HanaReadConfig, HanaReadLayer, HanaReadSrs, HanaReadSql, HanaReadNames,
     HanaReadColumns, HanaColumnsFail, HanaSetType, HanaInspect, HanaCreated
<1>2. CASE HanaCleanup
  BY <1>2 DEF HanaCleanup
<1>3. ASSUME NEW r \in Requests,
             HanaTileFeatures(r) \/ HanaMVTForLayers(r) \/ HanaRequest(r) \/ HanaCancel(r)
      PROVE  Hana /\ setup' = setup
  BY <1>3 DEF HanaTileFeatures, HanaMVTForLayers, HanaRequest, HanaQueryRefused, HanaQuery,
     HanaRow, HanaRowsEnd, HanaMVTScan, HanaCancel, HanaStop, Deliver, Skip, Cancel
<1>4. QED
  BY <1>1, <1>2, <1>3 DEF HanaNext

LEMMA GpkgSetup == GpkgNext => Gpkg /\ setup' = setup
<1> SUFFICES ASSUME GpkgNext PROVE Gpkg /\ setup' = setup
  OBVIOUS
<1> USE DEF creation, Finish, FailCreation
<1>1. CASE GpkgCreate
  BY <1>1 DEF GpkgCreate, GpkgReadConfig, GpkgReadLayer, GpkgCreated
<1>2. CASE GpkgCleanup
  BY <1>2 DEF GpkgCleanup
<1>3. ASSUME NEW r \in Requests, GpkgTileFeatures(r) \/ GpkgRequest(r) \/ GpkgCancel(r)
      PROVE  Gpkg /\ setup' = setup
  <2>1. CASE GpkgTileFeatures(r)
    BY <2>1 DEF GpkgTileFeatures
  <2>2. CASE GpkgRow(r)
    BY <2>2 DEF GpkgRow, Deliver, Skip
  <2>3. CASE GpkgRowsEnd(r) \/ GpkgCancel(r)
    BY <2>3 DEF GpkgRowsEnd, GpkgCancel, Cancel
  <2>4. QED
    BY <1>3, <2>1, <2>2, <2>3 DEF GpkgRequest
<1>4. QED
  BY <1>1, <1>2, <1>3 DEF GpkgNext

-----------------------------------------------------------------------------
(* What the connections of PostGIS know.                                      *)

ConnStates == [st : {"none", "idle", "busy", "lookup", "check", "register"},
               owner : Owners \cup {NoOwner}, hstore : BOOLEAN]

\* what AfterConnect has found out, and what a connection in it may rely on
HstoreOK ==
  /\ conn \in [Conns -> ConnStates]
  /\ hstore \in [installed : BOOLEAN, oid : BOOLEAN, hasInit : BOOLEAN,
                 err : {"nil", "norows", "failed"}]
  /\ hstore.oid => hstore.installed
  /\ hstore.err = "norows" => ~hstore.installed
  /\ hstore.hasInit => hstore.oid = hstore.installed
  /\ \A c \in Conns :
       /\ conn[c].st = "check" /\ hstore.err # "failed" => hstore.oid = hstore.installed
       /\ conn[c].st = "register" => hstore.oid = hstore.installed
       /\ conn[c].st \in {"idle", "busy"} => conn[c].hstore = hstore.installed

\* A step that only gives connections back changes nothing that is known.
LEMMA QuietStep ==
  ASSUME HstoreOK, setup' = setup, hstore' = hstore,
         conn' = conn \/ \E o : conn' = Returned(o)
  PROVE  HstoreOK'
<1>1. CASE conn' = conn
  BY <1>1 DEF HstoreOK, Conns, ConnStates
<1>2. ASSUME NEW o, conn' = Returned(o) PROVE HstoreOK'
  <2> USE DEF HstoreOK, ConnStates
  <2>1. ASSUME NEW c \in Conns
        PROVE  /\ conn'[c] \in ConnStates
               /\ conn'[c].hstore = conn[c].hstore
               /\ conn'[c].st = conn[c].st \/ (conn[c].st = "busy" /\ conn'[c].st = "idle")
    BY <1>2, <2>1 DEF Returned
  <2>2. conn' \in [Conns' -> ConnStates']
    BY <1>2, <2>1 DEF Returned, Conns
  <2>3. QED
    BY <2>1, <2>2 DEF Conns
<1>3. QED
  BY <1>1, <1>2

\* A connection is lent, opened or dropped.
LEMMA ConnChanged ==
  ASSUME HstoreOK, setup' = setup, hstore' = hstore, NEW c \in Conns, NEW v \in ConnStates,
         conn' = [conn EXCEPT ![c] = v],
         v.st # "check",
         v.st = "register" => hstore.oid = hstore.installed,
         v.st \in {"idle", "busy"} => v.hstore = hstore.installed
  PROVE  HstoreOK'
BY DEF HstoreOK, Conns, ConnStates

LEMMA AcquireStep ==
  ASSUME HstoreOK, NEW o \in Owners, PgAcquireIdle(o) \/ PgConnect(o)
  PROVE  HstoreOK'
<1>1. setup' = setup /\ hstore' = hstore
  BY DEF PgAcquireIdle, PgConnect, creation
<1>2. CASE PgAcquireIdle(o)
  <2> DEFINE c == AnyOf(Having("idle"))
  <2>1. c \in Conns /\ conn[c].st = "idle"
    BY <1>2 DEF PgAcquireIdle, AnyOf, Having
  <2>2. conn' = [conn EXCEPT ![c] = [conn[c] EXCEPT !.st = "busy", !.owner = o]]
    BY <1>2, <2>1 DEF PgAcquireIdle, HstoreOK
  <2>3. /\ conn[c] \in ConnStates
        /\ [conn[c] EXCEPT !.st = "busy", !.owner = o] \in ConnStates
        /\ [conn[c] EXCEPT !.st = "busy", !.owner = o].st = "busy"
        /\ [conn[c] EXCEPT !.st = "busy", !.owner = o].hstore = hstore.installed
    BY <2>1 DEF HstoreOK, ConnStates
  <2>4. QED
    BY <1>1, <2>1, <2>2, <2>3, ConnChanged
<1>3. CASE PgConnect(o)
  <2> DEFINE c == AnyOf(Having("none"))
             v == [st |-> IF hstore.hasInit THEN "register" ELSE "lookup",
                   owner |-> o, hstore |-> FALSE]
  <2>1. c \in Conns
    BY <1>3 DEF PgConnect, AnyOf, Having
  <2>2. conn' = [conn EXCEPT ![c] = v]
    BY <1>3 DEF PgConnect
  <2>3. v \in ConnStates /\ v.st \in {"register", "lookup"}
    BY DEF ConnStates
  <2>4. v.st = "register" => hstore.oid = hstore.installed
    BY DEF HstoreOK
  <2>5. QED
    BY <1>1, <2>1, <2>2, <2>3, <2>4, ConnChanged
<1>4. QED
  BY <1>2, <1>3

LEMMA SetUpStep ==
  ASSUME HstoreOK, NEW c \in Conns, PgDialFails(c) \/ PgConnection(c)
  PROVE  HstoreOK'
<1>1. setup' = setup /\ Conns' = Conns
  BY DEF PgDialFails, PgAcquireFails, PgConnection, PgLookup, PgCheck, PgRegister, creation, Conns
<1>2. Unborn \in ConnStates /\ Unborn.st = "none"
  BY DEF Unborn, ConnStates
<1>3. CASE conn' = [conn EXCEPT ![c] = Unborn] /\ hstore' = hstore
  BY <1>1, <1>2, <1>3, ConnChanged
<1>4. CASE PgDialFails(c)
  BY <1>3, <1>4 DEF PgDialFails, PgAcquireFails
<1>5. CASE PgLookup(c)
  <2>1. conn[c].st = "lookup" /\ conn' = [conn EXCEPT ![c] = [conn[c] EXCEPT !.st = "check"]]
    BY <1>5 DEF PgLookup
  <2>2. /\ conn' \in [Conns -> ConnStates] /\ conn'[c].st = "check"
        /\ \A d \in Conns : d # c => conn'[d] = conn[d]
    BY <2>1 DEF HstoreOK, ConnStates
  <2>3. /\ hstore' \in [installed : BOOLEAN, oid : BOOLEAN, hasInit : BOOLEAN,
                       err : {"nil", "norows", "failed"}]
        /\ hstore'.installed = hstore.installed /\ hstore'.hasInit = hstore.hasInit
        /\ \/ hstore'.err = "failed" /\ hstore'.oid = hstore.oid
           \/ hstore.installed /\ hstore'.err = "nil" /\ hstore'.oid
           \/ ~hstore.installed /\ hstore'.err = "norows" /\ hstore'.oid = hstore.oid
    BY <1>5 DEF PgLookup, HstoreOK
  <2>4. /\ hstore'.oid => hstore'.installed
        /\ hstore'.err = "norows" => ~hstore'.installed
        /\ hstore'.err # "failed" => hstore'.oid = hstore'.installed
        /\ hstore.oid = hstore.installed => hstore'.oid = hstore'.installed
    BY <2>3 DEF HstoreOK
  <2>5. ASSUME NEW d \in Conns
        PROVE  /\ conn'[d].st = "check" /\ hstore'.err # "failed" => hstore'.oid = hstore'.installed
               /\ conn'[d].st = "register" => hstore'.oid = hstore'.installed
               /\ conn'[d].st \in {"idle", "busy"} => conn'[d].hstore = hstore'.installed
    BY <2>2, <2>3, <2>4 DEF HstoreOK
  <2>6. QED
    BY <1>1, <2>2, <2>3, <2>4, <2>5 DEF HstoreOK
<1>6. CASE PgCheck(c)
  <2>1. CASE hstore.err = "failed"
    BY <1>3, <1>6, <2>1 DEF PgCheck, PgAcquireFails
  <2>2. CASE hstore.err # "failed"
    <3>1. hstore.oid = hstore.installed
      BY <1>6, <2>2 DEF PgCheck, HstoreOK
    <3>2. /\ hstore' = [hstore EXCEPT !.hasInit = TRUE]
          /\ conn' = [conn EXCEPT ![c] = [conn[c] EXCEPT !.st = "register"]]
      BY <1>6, <2>2 DEF PgCheck, HstoreOK
    <3>3. conn' \in [Conns -> ConnStates] /\ \A d \in Conns : d # c => conn'[d] = conn[d]
      BY <3>2 DEF HstoreOK, ConnStates
    <3>4. conn'[c].st = "register"
      BY <3>2 DEF HstoreOK, ConnStates
    <3>5. hstore' \in [installed : BOOLEAN, oid : BOOLEAN, hasInit : BOOLEAN,
                       err : {"nil", "norows", "failed"}]
          /\ hstore'.oid = hstore.oid /\ hstore'.installed = hstore.installed
          /\ hstore'.err = hstore.err
      BY <3>2 DEF HstoreOK
    <3>6. ASSUME NEW d \in Conns
          PROVE  /\ conn'[d].st = "check" /\ hstore'.err # "failed" => hstore'.oid = hstore'.installed
                 /\ conn'[d].st = "register" => hstore'.oid = hstore'.installed
                 /\ conn'[d].st \in {"idle", "busy"} => conn'[d].hstore = hstore'.installed
      BY <3>1, <3>3, <3>4, <3>5 DEF HstoreOK
    <3>7. QED
      BY <1>1, <3>1, <3>3, <3>5, <3>6 DEF HstoreOK, ConnStates
  <2>3. QED
    BY <2>1, <2>2
<1>7. CASE PgRegister(c)
  <2>1. conn[c].st = "register" /\ conn[c] \in ConnStates /\ hstore' = hstore
    BY <1>7 DEF PgRegister, HstoreOK
  <2>2. PICK s \in {"idle", "busy"} :
          conn' = [conn EXCEPT ![c] = [conn[c] EXCEPT !.hstore = hstore.oid, !.st = s]]
    BY <1>7 DEF PgRegister
  <2>3. /\ conn' \in [Conns -> ConnStates] /\ conn'[c].st = s /\ conn'[c].hstore = hstore.oid
        /\ \A d \in Conns : d # c => conn'[d] = conn[d]
    BY <2>1, <2>2 DEF HstoreOK, ConnStates
  <2>4. hstore.oid = hstore.installed
    BY <2>1 DEF HstoreOK
  <2>5. QED
    BY <1>1, <2>1, <2>3, <2>4 DEF HstoreOK
<1>8. QED
  BY <1>4, <1>5, <1>6, <1>7 DEF PgConnection

LEMMA CloseStep ==
  ASSUME HstoreOK, PgCloseWaits
  PROVE  HstoreOK'
<1>1. setup' = setup /\ hstore' = hstore /\ Conns' = Conns
  BY DEF PgCloseWaits, creation, Conns
<1>2. Unborn \in ConnStates /\ Unborn.st = "none"
  BY DEF Unborn, ConnStates
<1>3. conn' = [c \in Conns |-> IF conn[c].st = "idle" THEN Unborn ELSE conn[c]]
  BY DEF PgCloseWaits
<1>4. QED
  BY <1>1, <1>2, <1>3 DEF HstoreOK, ConnStates

\* What creates the provider or reads a tile only gives its connections back.
LEMMA OtherSteps ==
  ASSUME \/ PgCreate \/ PgCleanup
         \/ \E r \in Requests : \/ PgTileFeatures(r) \/ PgMVTForLayers(r)
                                \/ PgRequest(r) \/ PgCancel(r)
  PROVE  hstore' = hstore /\ (conn' = conn \/ \E o : conn' = Returned(o))
<1> USE DEF Finish, FailCreation
<1>1. CASE PgCreate
  BY <1>1 DEF PgCreate, PgReadConfig, PgReadLayer, PgReadFields, PgSetType, PgInspect, PgCreated
<1>2. CASE PgCleanup
  BY <1>2 DEF PgCleanup
<1>3. ASSUME NEW r \in Requests, PgTileFeatures(r) \/ PgMVTForLayers(r)
      PROVE  hstore' = hstore /\ (conn' = conn \/ \E o : conn' = Returned(o))
  BY <1>3 DEF PgTileFeatures, PgMVTForLayers
<1>4. ASSUME NEW r \in Requests, PgRequest(r) \/ PgCancel(r)
      PROVE  hstore' = hstore /\ (conn' = conn \/ \E o : conn' = Returned(o))
  BY <1>4 DEF PgRequest, PgQueryRefused, PgQuery, PgRow, PgRowsEnd, PgMVTScan, PgCancel, PgStop,
     Deliver, Skip, Cancel
<1>5. QED
  BY <1>1, <1>2, <1>3, <1>4

LEMMA HstoreStep == (Pg => HstoreOK) /\ [Next]_vars => (Pg => HstoreOK)'
<1> SUFFICES ASSUME Pg => HstoreOK, [Next]_vars, Pg' PROVE HstoreOK'
  OBVIOUS
<1>1. CASE PgNext
  <2>1. Pg /\ setup' = setup /\ HstoreOK
    BY <1>1, PgSetup
  <2>2. CASE \/ PgCreate \/ PgCleanup
             \/ \E r \in Requests : \/ PgTileFeatures(r) \/ PgMVTForLayers(r)
                                    \/ PgRequest(r) \/ PgCancel(r)
    BY <2>1, <2>2, OtherSteps, QuietStep
  <2>3. QED
    BY <1>1, <2>1, <2>2, AcquireStep, SetUpStep, CloseStep DEF PgNext
<1>2. CASE HanaNext \/ GpkgNext
  BY <1>2, HanaSetup, GpkgSetup DEF Pg, Hana, Gpkg
<1>3. CASE UNCHANGED vars
  <2>1. UNCHANGED <<setup, conn, hstore>>
    BY <1>3 DEF vars, shared
  <2>2. QED
    BY <2>1, QuietStep DEF Pg
<1>4. QED
  BY <1>1, <1>2, <1>3 DEF Next

\* Every connection of the pool that can be used decodes hstore when the database has it,
\* for any size of the pool and whichever lookups fail at the same time: the variables
\* AfterConnect shares are only trusted after a lookup has succeeded.
THEOREM HstoreEverywhereHolds == Spec => []HstoreEverywhere
<1>1. Init => (Pg => HstoreOK)
  <2> SUFFICES ASSUME Init PROVE HstoreOK
    OBVIOUS
  <2>1. PICK installed \in BOOLEAN :
          hstore = [installed |-> installed, oid |-> FALSE, hasInit |-> FALSE, err |-> "nil"]
    BY DEF Init, PgInit
  <2>2. conn = [c \in Conns |-> Unborn] /\ Unborn \in ConnStates /\ Unborn.st = "none"
    BY DEF Init, SqlInit, Unborn, ConnStates
  <2>3. \A c \in Conns : conn[c].st = "none"
    BY <2>2
  <2>4. QED
    BY <2>1, <2>2, <2>3 DEF HstoreOK
<1>2. (Pg => HstoreOK) => HstoreEverywhere
  BY DEF HstoreOK, HstoreEverywhere
<1>3. QED
  BY <1>1, <1>2, HstoreStep, PTL DEF Spec

-----------------------------------------------------------------------------
(* What the creation of a PostGIS or HANA provider has built.                 *)

Configured == setup.config.layers
Building == {"fields", "type", "inspect", "srs", "sql", "names", "columns"}

\* the layers that are built are those of the configuration before li
CreationOK ==
  /\ pc = "config" => layers = <<>>
  /\ pc \in Building =>
       li \in 1..Len(Configured) /\ "name" \in DOMAIN draft /\ draft.name = Configured[li].name
  /\ pc = "layers" => li \in 1..Len(Configured) + 1
  /\ pc = "ready" => li = Len(Configured) + 1
  /\ pc \in Building \cup {"layers", "ready"} /\ layers = <<>> => li = 1
  /\ layers # <<>> => Len(Configured) >= 1
  /\ DOMAIN layers \subseteq DOMAIN Table

LEMMA ConfiguredFacts ==
  ASSUME setup \in Setups
  PROVE  /\ Len(Configured) \in Nat
         /\ DOMAIN Configured = 1..Len(Configured)
         /\ \A i \in 1..Len(Configured) : Configured[i].name \in DOMAIN Table
<1>1. /\ Configured \in Seq(Range(Configured))
      /\ \A i \in DOMAIN Configured : Configured[i].name \in DOMAIN Table
  BY SqlProviderAssumption DEF Configured
<1>2. QED
  BY <1>1

\* A step that keeps a layer under its name.
LEMMA LayerKept ==
  ASSUME setup \in Setups, setup' = setup, CreationOK, pc \in Building, NEW l, KeepLayer(l),
         l.name = draft.name
  PROVE  CreationOK'
<1>1. li \in 1..Len(Configured) /\ l.name \in DOMAIN Table /\ Len(Configured) \in Nat
  BY ConfiguredFacts DEF CreationOK
<1>2. DOMAIN layers' = DOMAIN layers \cup {l.name}
  BY DEF KeepLayer
<1>3. layers' # <<>>
  BY <1>2
<1>4. Configured' = Configured
  BY DEF Configured
<1>5. QED
  BY <1>1, <1>2, <1>3, <1>4 DEF CreationOK, KeepLayer, Building

\* A step of the creation that keeps no layer.
LEMMA CreationKept ==
  ASSUME setup \in Setups, setup' = setup, layers' = layers, CreationOK,
         \/ pc' = "failed"
         \/ pc = "config" /\ pc' = "layers" /\ li' = 1
         \/ pc = "layers" /\ pc' \in Building /\ li <= Len(Configured) /\ li' = li
            /\ "name" \in DOMAIN draft' /\ draft'.name = Configured[li].name
         \/ pc \in Building /\ pc' \in Building /\ li' = li
            /\ "name" \in DOMAIN draft' /\ draft'.name = draft.name
         \/ pc = "layers" /\ pc' = "ready" /\ li > Len(Configured) /\ li' = li
         \/ pc' = pc /\ li' = li /\ draft' = draft
  PROVE  CreationOK'
<1>1. Len(Configured) \in Nat /\ Configured' = Configured
  BY ConfiguredFacts DEF Configured
<1>2. QED
  BY <1>1 DEF CreationOK, Building

LEMMA PgCreationStep ==
  ASSUME setup \in Setups, CreationOK, PgCreate
  PROVE  CreationOK'
<1>1. setup' = setup
  BY PgSetup DEF PgNext
<1> USE <1>1
<1>2. CASE PgReadConfig
  BY <1>2, CreationKept DEF PgReadConfig, FailCreation
<1>3. CASE PgReadLayer
  <2>1. CASE FailCreation
    BY <2>1, CreationKept DEF FailCreation
  <2>2. CASE ~FailCreation
    <3>1. /\ pc = "layers" /\ li <= Len(Configured) /\ li' = li /\ layers' = layers
          /\ pc' \in {"fields", "type"}
          /\ \E x : draft' = [PgNewLayer(CurrentLayer) EXCEPT !.sql = x]
      BY <1>3, <2>2 DEF PgReadLayer, Configured
    <3>2. "name" \in DOMAIN draft' /\ draft'.name = Configured[li].name
      BY <3>1 DEF PgNewLayer, CurrentLayer, Configured
    <3>3. QED
      BY <3>1, <3>2, CreationKept DEF Building
  <2>3. QED
    BY <2>1, <2>2
<1>4. CASE PgReadFields
  <2>1. CASE FailCreation
    BY <2>1, CreationKept DEF FailCreation
  <2>2. CASE ~FailCreation
    <3>1. /\ pc = "fields" /\ pc' = "type" /\ li' = li /\ layers' = layers
          /\ \E x : draft' = [draft EXCEPT !.sql = x]
      BY <1>4, <2>2 DEF PgReadFields
    <3>2. "name" \in DOMAIN draft
      BY <3>1 DEF CreationOK, Building
    <3>3. "name" \in DOMAIN draft' /\ draft'.name = draft.name
      BY <3>1, <3>2
    <3>4. QED
      BY <3>1, <3>3, CreationKept DEF Building
  <2>3. QED
    BY <2>1, <2>2
<1>5. CASE PgSetType
  <2> DEFINE l == [draft EXCEPT !.geomType = CurrentLayer.geomType]
  <2>1. pc = "type" /\ "name" \in DOMAIN draft
    BY <1>5 DEF PgSetType, CreationOK, Building
  <2>2. l.name = draft.name
    BY <2>1
  <2>3. \/ FailCreation
        \/ pc' = "inspect" /\ li' = li /\ draft' = draft /\ layers' = layers
        \/ KeepLayer(l)
    BY <1>5 DEF PgSetType
  <2> HIDE DEF l
  <2>4. CASE FailCreation
    BY <2>4, CreationKept DEF FailCreation
  <2>5. CASE pc' = "inspect" /\ li' = li /\ draft' = draft /\ layers' = layers
    BY <2>1, <2>5, CreationKept DEF Building
  <2>6. CASE KeepLayer(l)
    BY <2>1, <2>2, <2>6, LayerKept DEF Building
  <2>7. QED
    BY <2>3, <2>4, <2>5, <2>6
<1>6. CASE PgInspect
  <2>1. pc = "inspect" /\ "name" \in DOMAIN draft
    BY <1>6 DEF PgInspect, CreationOK, Building
  <2>2. CASE FailCreation
    BY <2>2, CreationKept DEF FailCreation
  <2>3. CASE KeepLayer(draft)
    BY <2>1, <2>3, LayerKept DEF Building
  <2>4. CASE KeepLayer([draft EXCEPT !.geomType = "polygon"])
    <3> DEFINE l == [draft EXCEPT !.geomType = "polygon"]
    <3>1. l.name = draft.name
      BY <2>1
    <3> HIDE DEF l
    <3>2. KeepLayer(l)
      BY <2>4 DEF l
    <3>3. QED
      BY <2>1, <3>1, <3>2, LayerKept DEF Building
  <2>5. QED
    BY <1>6, <2>2, <2>3, <2>4 DEF PgInspect
<1>7. CASE PgCreated
  BY <1>7, CreationKept DEF PgCreated, Configured
<1>8. QED
  BY <1>2, <1>3, <1>4, <1>5, <1>6, <1>7 DEF PgCreate

LEMMA HanaKeepStep ==
  ASSUME setup \in Setups, setup' = setup, CreationOK, pc \in Building, NEW l, HanaKeepLayer(l),
         "name" \in DOMAIN l, l.name = draft.name
  PROVE  CreationOK'
<1>1. CASE FailCreation
  BY <1>1, CreationKept DEF FailCreation
<1>2. CASE ~FailCreation
  <2> DEFINE k == IF setup.mvt THEN [l EXCEPT !.sql = HanaMVTSQL(l)] ELSE l
  <2>1. k.name = draft.name
    OBVIOUS
  <2>2. KeepLayer(k)
    BY <1>2 DEF HanaKeepLayer
  <2> HIDE DEF k
  <2>3. QED
    BY <2>1, <2>2, LayerKept
<1>3. QED
  BY <1>1, <1>2

LEMMA HanaCreationStep ==
  ASSUME setup \in Setups, CreationOK, HanaCreate
  PROVE  CreationOK'
<1>1. setup' = setup
  BY HanaSetup DEF HanaNext
<1> USE <1>1
<1>2. CASE FailCreation
  BY <1>2, CreationKept DEF FailCreation
<1>3. pc \in Building => "name" \in DOMAIN draft
  BY DEF CreationOK
<1>4. CASE HanaReadConfig
  BY <1>2, <1>4, CreationKept DEF HanaReadConfig
<1>5. CASE HanaReadLayer /\ ~FailCreation
  <2>1. /\ pc = "layers" /\ li <= Len(Configured) /\ li' = li /\ layers' = layers
        /\ pc' = "srs" /\ draft' = HanaNewLayer(CurrentLayer)
    BY <1>5 DEF HanaReadLayer, Configured
  <2>2. "name" \in DOMAIN draft' /\ draft'.name = Configured[li].name
    BY <2>1 DEF HanaNewLayer, CurrentLayer, Configured
  <2>3. QED
    BY <2>1, <2>2, CreationKept DEF Building
<1>6. CASE \/ HanaReadSrs /\ ~FailCreation
           \/ HanaReadSql /\ ~FailCreation
  <2>1. /\ pc \in {"srs", "sql"} /\ pc' \in {"sql", "names", "columns"}
        /\ li' = li /\ layers' = layers
        /\ \/ \E x : draft' = [draft EXCEPT !.srid = x]
           \/ \E x : draft' = [draft EXCEPT !.sql = x]
    BY <1>6 DEF HanaReadSrs, HanaReadSql
  <2>2. "name" \in DOMAIN draft' /\ draft'.name = draft.name
    BY <1>3, <2>1 DEF Building
  <2>3. QED
    BY <2>1, <2>2, CreationKept DEF Building
<1>7. CASE HanaReadNames \/ HanaReadColumns
  <2>1. /\ pc \in {"names", "columns"} /\ li' = li /\ layers' = layers
        /\ \/ pc' = "failed"
           \/ /\ pc' \in {"columns", "type"}
              /\ \/ \E x : draft' = [draft EXCEPT !.fields = x]
                 \/ \E x : draft' = [draft EXCEPT !.sql = x]
    BY <1>7 DEF HanaReadNames, HanaReadColumns, HanaRunForColumns
  <2>2. pc' # "failed" => "name" \in DOMAIN draft' /\ draft'.name = draft.name
    BY <1>3, <2>1 DEF Building
  <2>3. QED
    BY <2>1, <2>2, CreationKept DEF Building
<1>8. CASE HanaColumnsFail
  BY <1>2, <1>8, CreationKept DEF HanaColumnsFail, HanaRunForColumns
<1>9. CASE HanaSetType /\ ~FailCreation
  <2>1. pc = "type" /\ "name" \in DOMAIN draft
    BY <1>3, <1>9 DEF HanaSetType, Building
  <2>2. CASE pc' = "inspect" /\ UNCHANGED <<li, draft, layers>>
    BY <2>1, <2>2, CreationKept DEF Building
  <2>3. CASE HanaKeepLayer([draft EXCEPT !.geomType = CurrentLayer.geomType])
    <3> DEFINE l == [draft EXCEPT !.geomType = CurrentLayer.geomType]
    <3>1. "name" \in DOMAIN l /\ l.name = draft.name
      BY <2>1
    <3> HIDE DEF l
    <3>2. HanaKeepLayer(l)
      BY <2>3 DEF l
    <3>3. QED
      BY <2>1, <3>1, <3>2, HanaKeepStep DEF Building
  <2>4. QED
    BY <1>9, <2>2, <2>3 DEF HanaSetType
<1>10. CASE HanaInspect /\ ~FailCreation
  <2> DEFINE l == IF Table[draft.name] = <<>> THEN draft
                  ELSE [draft EXCEPT !.geomType = "polygon"]
  <2>1. pc = "inspect" /\ "name" \in DOMAIN draft
    BY <1>3, <1>10 DEF HanaInspect, Building
  <2>2. "name" \in DOMAIN l /\ l.name = draft.name
    BY <2>1
  <2>3. HanaKeepLayer(l)
    BY <1>10 DEF HanaInspect
  <2> HIDE DEF l
  <2>4. QED
    BY <2>1, <2>2, <2>3, HanaKeepStep DEF Building
<1>11. CASE HanaCreated
  BY <1>11, CreationKept DEF HanaCreated, Configured
<1>12. QED
  BY <1>2, <1>4, <1>5, <1>6, <1>7, <1>8, <1>9, <1>10, <1>11 DEF HanaCreate

-----------------------------------------------------------------------------
(* What the requests have read.                                               *)

RequestStates ==
  [pc : {"idle", "query", "rows", "scan", "done"}, layer : DOMAIN Table \cup {""},
   i : Nat, row : Nat, got : Seq(Nat), res : {"none", "ok", "err"}]

\* what a tile without an error has to hold
Whole(q) ==
  InOrder(q.got, IF setup.mvt THEN DOMAIN Configured ELSE GoodRows(q.layer))

\* the good rows among those that were read
ReadGood(q) == {k \in 1..q.row : Table[q.layer][k] = "good"}

RequestOK(q) ==
  /\ q \in RequestStates
  /\ q.pc # "done" => q.res = "none"
  /\ q.pc = "idle" => q.row = 0 /\ q.got = <<>> /\ q.i = 1
  /\ q.pc = "query" /\ ~setup.mvt => q.layer \in DOMAIN Table /\ q.row = 0 /\ q.got = <<>>
  /\ q.pc = "rows" =>
       /\ ~setup.mvt /\ q.layer \in DOMAIN Table
       /\ q.row <= Len(Table[q.layer])
       /\ InOrder(q.got, ReadGood(q))
  /\ q.pc \in {"query", "scan"} /\ setup.mvt /\ Hana =>
       q.i \in 1..Len(Configured) /\ InOrder(q.got, 1..q.i - 1)
  /\ q.pc = "scan" => setup.mvt
  /\ q.res = "ok" => Whole(q)

ReadOK ==
  /\ req \in [Requests -> RequestStates]
  /\ \A r \in Requests : RequestOK(req[r])

\* The empty sequence holds nothing.
LEMMA NothingRead == InOrder(<<>>, {})
BY DEF InOrder, Range

\* A sequence grows by a member that is greater than all it has.
LEMMA OneMore ==
  ASSUME NEW s \in Seq(Nat), NEW n \in Nat, NEW S \in SUBSET (1..n), InOrder(s, S)
  PROVE  InOrder(Append(s, n + 1), S \cup {n + 1})
<1> DEFINE t == Append(s, n + 1)
<1>1. /\ DOMAIN t = 1..Len(s) + 1 /\ DOMAIN s = 1..Len(s) /\ Len(s) \in Nat
      /\ t[Len(s) + 1] = n + 1 /\ \A i \in 1..Len(s) : t[i] = s[i]
  OBVIOUS
<1> HIDE DEF t
<1>2. \A i \in 1..Len(s) : s[i] \in S
  BY <1>1 DEF InOrder, Range
<1>3. \A i \in 1..Len(s) : s[i] \in Nat /\ s[i] < n + 1
  BY <1>2
<1>4. Range(t) = S \cup {n + 1}
  <2>1. ASSUME NEW x \in S PROVE \E i \in DOMAIN t : t[i] = x
    BY <1>1 DEF InOrder, Range
  <2>2. S \subseteq Range(t)
    BY <2>1 DEF Range
  <2>3. n + 1 \in Range(t)
    <3>1. Len(s) + 1 \in DOMAIN t
      BY <1>1
    <3>2. QED
      BY <1>1, <3>1 DEF Range
  <2>4. ASSUME NEW j \in DOMAIN t PROVE t[j] \in S \cup {n + 1}
    BY <1>1, <1>2
  <2>5. Range(t) \subseteq S \cup {n + 1}
    BY <2>4 DEF Range
  <2>6. QED
    BY <2>2, <2>3, <2>5
<1>5. \A i, j \in DOMAIN t : i < j => t[i] < t[j]
  BY <1>1, <1>3 DEF InOrder
<1>6. QED
  BY <1>4, <1>5 DEF InOrder, t

\* An answer that is an error is always in order.
LEMMA RefusedOK ==
  ASSUME NEW q \in RequestStates
  PROVE  RequestOK([q EXCEPT !.pc = "done", !.res = "err"])
BY DEF RequestOK, RequestStates

\* What is in order stays so.
LEMMA StillOK == setup' = setup => \A q : RequestOK(q) => RequestOK(q)'
<1> SUFFICES ASSUME setup' = setup, NEW q, RequestOK(q)
             PROVE  RequestOK(q)'
  OBVIOUS
<1>1. Configured' = Configured /\ (Hana' <=> Hana)
  BY DEF Configured, Hana
<1>2. Whole(q)' <=> Whole(q)
  BY <1>1 DEF Whole, GoodRows
<1>3. ReadGood(q)' = ReadGood(q) /\ RequestStates' = RequestStates
  BY DEF ReadGood, RequestStates
<1>4. QED
  BY <1>1, <1>2, <1>3 DEF RequestOK

LEMMA NothingAsked ==
  ASSUME ReadOK, setup' = setup, req' = req
  PROVE  ReadOK'
<1>1. \A r \in Requests : RequestOK(req[r])'
  BY StillOK DEF ReadOK
<1>2. QED
  BY <1>1 DEF ReadOK, RequestStates

\* A request whose state changes to one that is in order.
LEMMA RequestChanged ==
  ASSUME ReadOK, setup' = setup, NEW r \in Requests, NEW v, RequestOK(v),
         req' = [req EXCEPT ![r] = v]
  PROVE  ReadOK'
<1>1. v \in RequestStates
  BY DEF RequestOK
<1>2. /\ req' \in [Requests -> RequestStates] /\ req'[r] = v
      /\ \A p \in Requests : p # r => req'[p] = req[p]
  BY <1>1 DEF ReadOK
<1>3. \A p \in Requests : RequestOK(req'[p])
  BY <1>2 DEF ReadOK
<1>4. QED
  BY <1>2, <1>3, StillOK DEF ReadOK, RequestStates

LEMMA ErrorAnswered ==
  ASSUME ReadOK, setup' = setup, NEW r \in Requests,
         req' = [req EXCEPT ![r].pc = "done", ![r].res = "err"]
  PROVE  ReadOK'
<1> DEFINE v == [req[r] EXCEPT !.pc = "done", !.res = "err"]
<1>1. req[r] \in RequestStates
  BY DEF ReadOK
<1>2. RequestOK(v)
  BY <1>1, RefusedOK
<1>3. req' = [req EXCEPT ![r] = v]
  BY DEF ReadOK
<1> HIDE DEF v
<1>4. QED
  BY <1>2, <1>3, RequestChanged

LEMMA TileAnswered ==
  ASSUME ReadOK, setup' = setup, NEW r \in Requests, Finish(r, "ok"), Whole(req[r])
  PROVE  ReadOK'
<1> DEFINE v == [req[r] EXCEPT !.pc = "done", !.res = "ok"]
<1>1. req[r] \in RequestStates
  BY DEF ReadOK
<1>2. v \in RequestStates /\ v.pc = "done" /\ v.res = "ok" /\ v.got = req[r].got
      /\ v.layer = req[r].layer
  BY <1>1 DEF RequestStates
<1>3. RequestOK(v)
  BY <1>2 DEF RequestOK, Whole
<1>4. req' = [req EXCEPT ![r] = v]
  BY DEF Finish, ReadOK
<1> HIDE DEF v
<1>5. QED
  BY <1>3, <1>4, RequestChanged

\* A request for the features of a layer that exists.
LEMMA LayerAsked ==
  ASSUME ReadOK, setup' = setup, ~setup.mvt, NEW r \in Requests, req[r].pc = "idle",
         NEW n \in DOMAIN Table,
         req' = [req EXCEPT ![r].pc = "query", ![r].layer = n]
  PROVE  ReadOK'
<1> DEFINE v == [req[r] EXCEPT !.pc = "query", !.layer = n]
<1>1. RequestOK(req[r]) /\ req[r] \in RequestStates
  BY DEF ReadOK
<1>2. /\ v \in RequestStates /\ v.pc = "query" /\ v.layer = n
      /\ v.row = req[r].row /\ v.got = req[r].got /\ v.res = req[r].res
  BY <1>1 DEF RequestStates
<1>3. RequestOK(v)
  BY <1>1, <1>2 DEF RequestOK
<1>4. req' = [req EXCEPT ![r] = v]
  BY DEF ReadOK
<1> HIDE DEF v
<1>5. QED
  BY <1>3, <1>4, RequestChanged

\* The query of a layer is answered with rows.
LEMMA RowsCome ==
  ASSUME ReadOK, setup' = setup, ~setup.mvt, NEW r \in Requests, req[r].pc = "query",
         req' = [req EXCEPT ![r].pc = "rows"]
  PROVE  ReadOK'
<1> DEFINE v == [req[r] EXCEPT !.pc = "rows"]
<1>1. RequestOK(req[r]) /\ req[r] \in RequestStates
  BY DEF ReadOK
<1>2. /\ v \in RequestStates /\ v.pc = "rows" /\ v.layer = req[r].layer
      /\ v.row = req[r].row /\ v.got = req[r].got /\ v.res = req[r].res
  BY <1>1 DEF RequestStates
<1>3. /\ v.layer \in DOMAIN Table /\ v.row = 0 /\ v.got = <<>> /\ v.res = "none"
  BY <1>1, <1>2 DEF RequestOK
<1>4. Len(Table[v.layer]) \in Nat
  BY <1>3, SqlProviderAssumption
<1>5. ReadGood(v) = {}
  BY <1>3 DEF ReadGood
<1> HIDE DEF v
<1>6. RequestOK(v)
  BY <1>2, <1>3, <1>4, <1>5, NothingRead DEF RequestOK
<1>7. req' = [req EXCEPT ![r] = v]
  BY DEF ReadOK, v
<1>8. QED
  BY <1>6, <1>7, RequestChanged

\* What a request knows when the next row comes.
LEMMA AtRow ==
  ASSUME ReadOK, NEW r \in Requests, req[r].pc = "rows"
  PROVE  /\ req[r] \in RequestStates /\ ~setup.mvt /\ req[r].res = "none"
         /\ req[r].layer \in DOMAIN Table /\ Len(Rows(r)) \in Nat /\ DOMAIN Rows(r) = 1..Len(Rows(r))
         /\ req[r].row \in 0..Len(Rows(r))
         /\ req[r].got \in Seq(Nat)
         /\ InOrder(req[r].got, ReadGood(req[r]))
<1>1. RequestOK(req[r]) /\ req[r] \in RequestStates
  BY DEF ReadOK
<1>2. req[r].layer \in DOMAIN Table /\ req[r].row \in Nat /\ req[r].got \in Seq(Nat)
  BY <1>1 DEF RequestOK, RequestStates
<1>3. Rows(r) \in Seq(RowKinds)
  BY <1>2, SqlProviderAssumption DEF Rows
<1>4. QED
  BY <1>1, <1>2, <1>3 DEF RequestOK, Rows

LEMMA RowDelivered ==
  ASSUME ReadOK, setup' = setup, NEW r \in Requests, MoreRows(r), RowKind(r) = "good", Deliver(r)
  PROVE  ReadOK'
<1> DEFINE n == req[r].row
           v == [req[r] EXCEPT !.row = n + 1, !.got = Append(req[r].got, n + 1)]
<1>1. /\ req[r] \in RequestStates /\ ~setup.mvt /\ req[r].res = "none" /\ req[r].pc = "rows"
      /\ req[r].layer \in DOMAIN Table /\ Len(Rows(r)) \in Nat
      /\ n \in Nat /\ n < Len(Rows(r)) /\ req[r].got \in Seq(Nat)
      /\ InOrder(req[r].got, ReadGood(req[r]))
  BY AtRow DEF MoreRows
<1>2. Append(req[r].got, n + 1) \in Seq(Nat) /\ n + 1 \in Nat
  BY <1>1
<1>3. /\ v \in RequestStates /\ v.pc = "rows" /\ v.layer = req[r].layer /\ v.res = "none"
      /\ v.row = n + 1 /\ v.got = Append(req[r].got, n + 1)
  BY <1>1, <1>2 DEF RequestStates
<1>4. req' = [req EXCEPT ![r] = v]
  BY DEF Deliver, ReadOK
<1> HIDE DEF v
<1>5. ReadGood(v) = ReadGood(req[r]) \cup {n + 1}
  <2>1. Table[v.layer][n + 1] = "good"
    BY <1>1, <1>3 DEF RowKind, Rows
  <2>2. 1..(n + 1) = (1..n) \cup {n + 1}
    BY <1>1
  <2>3. QED
    BY <1>1, <1>3, <2>1, <2>2 DEF ReadGood
<1>6. ReadGood(req[r]) \in SUBSET (1..n)
  BY DEF ReadGood
<1>7. InOrder(v.got, ReadGood(v))
  BY <1>1, <1>3, <1>5, <1>6, OneMore
<1>8. v.row <= Len(Table[v.layer])
  BY <1>1, <1>3 DEF Rows
<1>9. RequestOK(v)
  BY <1>1, <1>3, <1>7, <1>8 DEF RequestOK
<1>10. QED
  BY <1>4, <1>9, RequestChanged

LEMMA RowSkipped ==
  ASSUME ReadOK, setup' = setup, NEW r \in Requests, MoreRows(r), RowKind(r) # "good", Skip(r)
  PROVE  ReadOK'
<1> DEFINE n == req[r].row
           v == [req[r] EXCEPT !.row = n + 1]
<1>1. /\ req[r] \in RequestStates /\ ~setup.mvt /\ req[r].res = "none" /\ req[r].pc = "rows"
      /\ req[r].layer \in DOMAIN Table /\ Len(Rows(r)) \in Nat
      /\ n \in Nat /\ n < Len(Rows(r))
      /\ InOrder(req[r].got, ReadGood(req[r]))
  BY AtRow DEF MoreRows
<1>2. n + 1 \in Nat
  BY <1>1
<1>3. /\ v \in RequestStates /\ v.pc = "rows" /\ v.layer = req[r].layer /\ v.res = "none"
      /\ v.row = n + 1 /\ v.got = req[r].got
  BY <1>1, <1>2 DEF RequestStates
<1>4. req' = [req EXCEPT ![r] = v]
  BY DEF Skip, ReadOK
<1> HIDE DEF v
<1>5. ReadGood(v) = ReadGood(req[r])
  <2>1. Table[v.layer][n + 1] # "good"
    BY <1>1, <1>3 DEF RowKind, Rows
  <2>2. 1..(n + 1) = (1..n) \cup {n + 1}
    BY <1>1
  <2>3. QED
    BY <1>1, <1>3, <2>1, <2>2 DEF ReadGood
<1>6. v.row <= Len(Table[v.layer])
  BY <1>1, <1>3 DEF Rows
<1>7. RequestOK(v)
  BY <1>1, <1>3, <1>5, <1>6 DEF RequestOK
<1>8. QED
  BY <1>4, <1>7, RequestChanged

\* A request that has read every row has what the tile needs.
LEMMA RowsRead ==
  ASSUME ReadOK, NEW r \in Requests, req[r].pc = "rows", ~MoreRows(r)
  PROVE  Whole(req[r])
<1>1. /\ ~setup.mvt /\ Len(Rows(r)) \in Nat /\ DOMAIN Rows(r) = 1..Len(Rows(r))
      /\ req[r].row = Len(Rows(r)) /\ InOrder(req[r].got, ReadGood(req[r]))
  BY AtRow DEF MoreRows
<1>2. ReadGood(req[r]) = GoodRows(req[r].layer)
  BY <1>1 DEF ReadGood, GoodRows, Rows
<1>3. QED
  BY <1>1, <1>2 DEF Whole

\* The request of an mvt tile goes on to its next statement, or to its answer.
LEMMA TileGoesOn ==
  ASSUME ReadOK, setup' = setup, setup.mvt, NEW r \in Requests,
         req[r].res = "none", NEW place \in {"query", "scan"},
         Hana => req[r].i \in 1..Len(Configured) /\ InOrder(req[r].got, 1..req[r].i - 1),
         req' = [req EXCEPT ![r].pc = place]
  PROVE  ReadOK'
<1> DEFINE v == [req[r] EXCEPT !.pc = place]
<1>1. req[r] \in RequestStates
  BY DEF ReadOK
<1>2. /\ v \in RequestStates /\ v.pc = place /\ v.res = "none" /\ v.i = req[r].i
      /\ v.got = req[r].got
  BY <1>1 DEF RequestStates
<1>3. req' = [req EXCEPT ![r] = v]
  BY DEF ReadOK
<1> HIDE DEF v
<1>4. RequestOK(v)
  BY <1>2 DEF RequestOK
<1>5. QED
  BY <1>3, <1>4, RequestChanged

LEMMA PgRequestStep ==
  ASSUME setup \in Setups, CreationOK, ReadOK, Pg, setup' = setup, NEW r \in Requests,
         PgTileFeatures(r) \/ PgMVTForLayers(r) \/ PgRequest(r) \/ PgCancel(r)
  PROVE  ReadOK'
<1>1. RequestOK(req[r]) /\ req[r] \in RequestStates /\ ~Hana
  BY DEF ReadOK, Pg, Hana
<1>2. Finish(r, "err") => ReadOK'
  BY ErrorAnswered DEF Finish
<1>3. req' = req => ReadOK'
  BY NothingAsked
<1>4. CASE PgTileFeatures(r)
  <2>1. CASE Finish(r, "err")
    BY <1>2, <2>1
  <2>2. CASE ~Finish(r, "err")
    <3>1. PICK name : /\ PgLayer(name) # {}
                      /\ req' = [req EXCEPT ![r].pc = "query",
                                            ![r].layer = CHOOSE n \in PgLayer(name) : TRUE]
      BY <1>4, <2>2 DEF PgTileFeatures
    <3> DEFINE n == CHOOSE n \in PgLayer(name) : TRUE
    <3>2. n \in PgLayer(name)
      BY <3>1
    <3>3. req' = [req EXCEPT ![r].pc = "query", ![r].layer = n]
      BY <3>1
    <3> HIDE DEF n
    <3>4. n \in DOMAIN Table
      BY <3>2 DEF PgLayer, CreationOK
    <3>5. QED
      BY <1>4, <3>3, <3>4, LayerAsked DEF PgTileFeatures
  <2>3. QED
    BY <2>1, <2>2
<1>5. CASE PgMVTForLayers(r)
  <2>1. CASE ~Finish(r, "err")
    <3>1. setup.mvt /\ req[r].pc = "idle" /\ req' = [req EXCEPT ![r].pc = "query"]
      BY <1>5, <2>1 DEF PgMVTForLayers
    <3>2. req[r].res = "none"
      BY <1>1, <3>1 DEF RequestOK
    <3>3. QED
      BY <1>1, <3>1, <3>2, TileGoesOn
  <2>2. QED
    BY <1>2, <2>1
<1>6. CASE PgQueryRefused(r)
  BY <1>2, <1>6 DEF PgQueryRefused, PgStop
<1>7. CASE PgQuery(r)
  <2>1. CASE ~PgStop(r)
    <3>1. /\ req[r].pc = "query" /\ req[r].res = "none"
          /\ req' = [req EXCEPT ![r].pc = IF setup.mvt THEN "scan" ELSE "rows"]
      BY <1>1, <1>7, <2>1 DEF PgQuery, RequestOK
    <3>2. CASE setup.mvt
      BY <1>1, <3>1, <3>2, TileGoesOn
    <3>3. CASE ~setup.mvt
      BY <3>1, <3>3, RowsCome
    <3>4. QED
      BY <3>2, <3>3
  <2>2. QED
    BY <1>2, <2>1 DEF PgStop
<1>8. CASE PgRow(r)
  BY <1>2, <1>8, RowDelivered, RowSkipped DEF PgRow, PgStop
<1>9. CASE PgRowsEnd(r)
  BY <1>2, <1>9, RowsRead, TileAnswered DEF PgRowsEnd
<1>10. CASE PgMVTScan(r)
  <2>1. CASE ~PgStop(r)
    <3> DEFINE got == [i \in DOMAIN Configured |-> i]
               v == [req[r] EXCEPT !.pc = "done", !.res = "ok", !.got = got]
    <3>1. setup.mvt /\ req' = [req EXCEPT ![r] = v]
      BY <1>1, <1>10, <2>1 DEF PgMVTScan, RequestOK, ReadOK, Configured
    <3>2. DOMAIN Configured = 1..Len(Configured) /\ Len(Configured) \in Nat
      BY ConfiguredFacts
    <3>3. got \in Seq(Nat) /\ InOrder(got, DOMAIN Configured)
      BY <3>2 DEF InOrder, Range
    <3>4. /\ v \in RequestStates /\ v.pc = "done" /\ v.res = "ok" /\ v.got = got
      BY <1>1, <3>3 DEF RequestStates
    <3> HIDE DEF v, got
    <3>5. RequestOK(v)
      BY <3>1, <3>3, <3>4 DEF RequestOK, Whole
    <3>6. QED
      BY <3>1, <3>5, RequestChanged
  <2>2. QED
    BY <1>2, <2>1 DEF PgStop
<1>11. CASE PgCancel(r)
  BY <1>3, <1>11 DEF PgCancel, Cancel
<1>12. QED
  BY <1>4, <1>5, <1>6, <1>7, <1>8, <1>9, <1>10, <1>11 DEF PgRequest

\* HANA reads the next statement of an mvt tile.
LEMMA HanaScanStep ==
  ASSUME setup \in Setups, ReadOK, Hana, setup' = setup, NEW r \in Requests, HanaMVTScan(r),
         ~HanaStop(r)
  PROVE  ReadOK'
<1> DEFINE i == req[r].i
           last == i = Len(Configured)
           v == [req[r] EXCEPT !.got = Append(req[r].got, i), !.i = i + 1,
                               !.pc = IF last THEN "done" ELSE "query",
                               !.res = IF last THEN "ok" ELSE "none"]
<1>1. /\ req[r] \in RequestStates /\ RequestOK(req[r]) /\ req[r].pc = "scan" /\ setup.mvt
      /\ i \in 1..Len(Configured) /\ InOrder(req[r].got, 1..i - 1)
  BY DEF ReadOK, HanaMVTScan, RequestOK
<1>2. /\ Len(Configured) \in Nat /\ DOMAIN Configured = 1..Len(Configured)
      /\ i \in Nat /\ i - 1 \in Nat /\ i + 1 \in Nat /\ req[r].got \in Seq(Nat)
  <2>1. Len(Configured) \in Nat /\ DOMAIN Configured = 1..Len(Configured)
    BY ConfiguredFacts
  <2>2. i \in Nat /\ i >= 1
    BY <1>1, <2>1
  <2>3. req[r].got \in Seq(Nat)
    BY <1>1 DEF RequestStates
  <2>4. QED
    BY <2>1, <2>2, <2>3
<1>3. Append(req[r].got, i) \in Seq(Nat)
  BY <1>2
<1>4. req' = [req EXCEPT ![r] = v]
  BY <1>1 DEF HanaMVTScan, ReadOK, Configured
<1>5. /\ v \in RequestStates /\ v.pc = (IF last THEN "done" ELSE "query")
      /\ v.res = (IF last THEN "ok" ELSE "none")
      /\ v.i = i + 1 /\ v.got = Append(req[r].got, i)
  BY <1>1, <1>2, <1>3 DEF RequestStates
<1> HIDE DEF v
<1>6. InOrder(v.got, 1..i)
  <2>1. i = (i - 1) + 1 /\ 1..i = (1..i - 1) \cup {i}
    BY <1>2
  <2>2. InOrder(Append(req[r].got, (i - 1) + 1), (1..i - 1) \cup {(i - 1) + 1})
    BY <1>1, <1>2, OneMore
  <2>3. QED
    BY <1>5, <2>1, <2>2
<1>7. RequestOK(v)
  <2>1. CASE last
    BY <1>1, <1>2, <1>5, <1>6, <2>1 DEF RequestOK, Whole
  <2>2. CASE ~last
    <3>1. v.i \in 1..Len(Configured) /\ v.i - 1 = i
      BY <1>1, <1>2, <1>5, <2>2
    <3>2. QED
      BY <1>1, <1>5, <1>6, <2>2, <3>1 DEF RequestOK
  <2>3. QED
    BY <2>1, <2>2
<1>8. QED
  BY <1>4, <1>7, RequestChanged

LEMMA HanaRequestStep ==
  ASSUME setup \in Setups, CreationOK, ReadOK, Hana, setup' = setup, NEW r \in Requests,
         HanaTileFeatures(r) \/ HanaMVTForLayers(r) \/ HanaRequest(r) \/ HanaCancel(r)
  PROVE  ReadOK'
<1>1. RequestOK(req[r]) /\ req[r] \in RequestStates
  BY DEF ReadOK
<1>2. Finish(r, "err") => ReadOK'
  BY ErrorAnswered DEF Finish
<1>3. CASE HanaTileFeatures(r)
  <2>1. CASE ~Finish(r, "err")
    <3>1. PICK name : /\ HanaLayer(name) # {}
                      /\ req' = [req EXCEPT ![r].pc = "query",
                                            ![r].layer = CHOOSE n \in HanaLayer(name) : TRUE]
      BY <1>3, <2>1 DEF HanaTileFeatures
    <3> DEFINE n == CHOOSE n \in HanaLayer(name) : TRUE
    <3>2. n \in HanaLayer(name)
      BY <3>1
    <3>3. req' = [req EXCEPT ![r].pc = "query", ![r].layer = n]
      BY <3>1
    <3> HIDE DEF n
    <3>4. n \in DOMAIN Table
      BY <3>2 DEF HanaLayer, CreationOK
    <3>5. QED
      BY <1>3, <3>3, <3>4, LayerAsked DEF HanaTileFeatures
  <2>2. QED
    BY <1>2, <2>1
<1>4. CASE HanaMVTForLayers(r)
  <2>1. /\ setup.mvt /\ req[r].pc = "idle" /\ req[r].res = "none" /\ req[r].got = <<>>
        /\ req[r].i = 1 /\ pc = "ready"
    BY <1>1, <1>4 DEF HanaMVTForLayers, RequestOK
  <2>2. Len(Configured) \in Nat /\ DOMAIN Configured = 1..Len(Configured)
    BY ConfiguredFacts
  <2>3. CASE layers = <<>> /\ Finish(r, "ok")
    <3>1. DOMAIN Configured = {}
      BY <2>1, <2>2, <2>3 DEF CreationOK
    <3>2. Whole(req[r])
      BY <2>1, <3>1, NothingRead DEF Whole
    <3>3. QED
      BY <2>3, <3>2, TileAnswered
  <2>4. CASE layers # <<>> /\ req' = [req EXCEPT ![r].pc = "query"]
    <3>1. Len(Configured) >= 1
      BY <2>4 DEF CreationOK
    <3>2. req[r].i \in 1..Len(Configured) /\ 1..req[r].i - 1 = {}
      BY <2>1, <2>2, <3>1
    <3>3. QED
      BY <2>1, <2>4, <3>2, NothingRead, TileGoesOn
  <2>5. QED
    BY <1>2, <1>4, <2>3, <2>4 DEF HanaMVTForLayers
<1>5. CASE HanaQueryRefused(r)
  BY <1>2, <1>5 DEF HanaQueryRefused, HanaStop
<1>6. CASE HanaQuery(r)
  <2>1. CASE ~HanaStop(r)
    <3>1. /\ req[r].pc = "query" /\ req[r].res = "none"
          /\ req' = [req EXCEPT ![r].pc = IF setup.mvt THEN "scan" ELSE "rows"]
      BY <1>1, <1>6, <2>1 DEF HanaQuery, RequestOK
    <3>2. CASE setup.mvt
      <4>1. req[r].i \in 1..Len(Configured) /\ InOrder(req[r].got, 1..req[r].i - 1)
        BY <1>1, <3>1, <3>2 DEF RequestOK
      <4>2. QED
        BY <3>1, <3>2, <4>1, TileGoesOn
    <3>3. CASE ~setup.mvt
      BY <3>1, <3>3, RowsCome
    <3>4. QED
      BY <3>2, <3>3
  <2>2. QED
    BY <1>2, <2>1 DEF HanaStop
<1>7. CASE HanaRow(r)
  BY <1>2, <1>7, RowDelivered, RowSkipped DEF HanaRow, HanaStop
<1>8. CASE HanaRowsEnd(r)
  BY <1>2, <1>8, RowsRead, TileAnswered DEF HanaRowsEnd
<1>9. CASE HanaMVTScan(r)
  BY <1>2, <1>9, HanaScanStep DEF HanaStop
<1>10. CASE HanaCancel(r)
  BY <1>10, NothingAsked DEF HanaCancel, Cancel
<1>11. QED
  BY <1>3, <1>4, <1>5, <1>6, <1>7, <1>8, <1>9, <1>10 DEF HanaRequest

-----------------------------------------------------------------------------
(* The steps of a provider together.                                          *)

TilesInv == setup \in Setups /\ (~Gpkg => CreationOK /\ ReadOK)

\* A step of a request does not change what was created.
LEMMA CreationStays ==
  ASSUME setup \in Setups, CreationOK, setup' = setup, UNCHANGED <<pc, li, draft, layers>>
  PROVE  CreationOK'
BY CreationKept

LEMMA PgStep ==
  ASSUME setup \in Setups, CreationOK, ReadOK, PgNext
  PROVE  CreationOK' /\ ReadOK'
<1>1. Pg /\ setup' = setup
  BY PgSetup
<1>2. CASE PgCreate
  <2>1. req' = req
    BY <1>2 DEF PgCreate, PgReadConfig, PgReadLayer, PgReadFields, PgSetType, PgInspect, PgCreated,
       FailCreation
  <2>2. QED
    BY <1>1, <1>2, <2>1, PgCreationStep, NothingAsked
<1>3. CASE PgCleanup \/ PgCloseWaits
  BY <1>1, <1>3, CreationStays, NothingAsked DEF PgCleanup, PgCloseWaits, creation
<1>4. ASSUME NEW o \in Owners, PgAcquireIdle(o) \/ PgConnect(o) PROVE CreationOK' /\ ReadOK'
  BY <1>1, <1>4, CreationStays, NothingAsked DEF PgAcquireIdle, PgConnect, creation
<1>5. ASSUME NEW c \in Conns, PgDialFails(c) \/ PgConnection(c) PROVE CreationOK' /\ ReadOK'
  <2>1. CASE PgAcquireFails(c)
    <3>1. layers' = layers /\ (pc' = "failed" \/ UNCHANGED <<pc, li, draft>>)
      BY <2>1 DEF PgAcquireFails
    <3>2. CreationOK'
      BY <1>1, <3>1, CreationKept
    <3>3. \/ req' = req
          \/ \E r \in Requests : req' = [req EXCEPT ![r].pc = "done", ![r].res = "err"]
      BY <2>1 DEF PgAcquireFails
    <3>4. QED
      BY <1>1, <3>2, <3>3, NothingAsked, ErrorAnswered
  <2>2. CASE ~PgAcquireFails(c)
    <3>1. UNCHANGED <<pc, li, draft, layers, req>>
      BY <1>5, <2>2 DEF PgDialFails, PgConnection, PgLookup, PgCheck, PgRegister, creation
    <3>2. QED
      BY <1>1, <3>1, CreationStays, NothingAsked
  <2>3. QED
    BY <2>1, <2>2
<1>6. ASSUME NEW r \in Requests,
             PgTileFeatures(r) \/ PgMVTForLayers(r) \/ PgRequest(r) \/ PgCancel(r)
      PROVE  CreationOK' /\ ReadOK'
  <2>1. UNCHANGED <<pc, li, draft, layers>>
    BY <1>6 DEF PgTileFeatures, PgMVTForLayers, PgRequest, PgQueryRefused, PgQuery, PgRow,
       PgRowsEnd, PgMVTScan, PgCancel, PgStop, Deliver, Skip, Cancel, Finish, creation
  <2>2. QED
    BY <1>1, <1>6, <2>1, CreationStays, PgRequestStep
<1>7. QED
  BY <1>2, <1>3, <1>4, <1>5, <1>6 DEF PgNext

LEMMA HanaStep ==
  ASSUME setup \in Setups, CreationOK, ReadOK, HanaNext
  PROVE  CreationOK' /\ ReadOK'
<1>1. Hana /\ setup' = setup
  BY HanaSetup
<1>2. CASE HanaCreate
  <2>1. req' = req
    BY <1>2 DEF HanaCreate, HanaReadConfig, HanaReadLayer, HanaReadSrs, HanaReadSql, HanaReadNames,
       HanaReadColumns, HanaColumnsFail, HanaSetType, HanaInspect, HanaCreated, HanaKeepLayer,
       HanaRunForColumns, FailCreation
  <2>2. QED
    BY <1>1, <1>2, <2>1, HanaCreationStep, NothingAsked
<1>3. CASE HanaCleanup
  BY <1>1, <1>3, CreationStays, NothingAsked DEF HanaCleanup, creation
<1>4. ASSUME NEW r \in Requests,
             HanaTileFeatures(r) \/ HanaMVTForLayers(r) \/ HanaRequest(r) \/ HanaCancel(r)
      PROVE  CreationOK' /\ ReadOK'
  <2>1. UNCHANGED <<pc, li, draft, layers>>
    BY <1>4 DEF HanaTileFeatures, HanaMVTForLayers, HanaRequest, HanaQueryRefused, HanaQuery,
       HanaRow, HanaRowsEnd, HanaMVTScan, HanaCancel, HanaStop, Deliver, Skip, Cancel, Finish,
       creation
  <2>2. QED
    BY <1>1, <1>4, <2>1, CreationStays, HanaRequestStep
<1>5. QED
  BY <1>2, <1>3, <1>4 DEF HanaNext

LEMMA TilesStep == TilesInv /\ [Next]_vars => TilesInv'
<1> SUFFICES ASSUME TilesInv, [Next]_vars PROVE TilesInv'
  OBVIOUS
<1> USE DEF TilesInv
<1>1. CASE PgNext
  BY <1>1, PgSetup, PgStep DEF Pg, Gpkg
<1>2. CASE HanaNext
  BY <1>2, HanaSetup, HanaStep DEF Hana, Gpkg
<1>3. CASE GpkgNext
  BY <1>3, GpkgSetup DEF Gpkg
<1>4. CASE UNCHANGED vars
  <2>1. UNCHANGED <<setup, pc, li, draft, layers, req>>
    BY <1>4 DEF vars, shared
  <2>2. QED
    BY <2>1, CreationStays, NothingAsked DEF Gpkg
<1>5. QED
  BY <1>1, <1>2, <1>3, <1>4 DEF Next

LEMMA TilesInit == Init => TilesInv
<1> SUFFICES ASSUME Init PROVE TilesInv
  OBVIOUS
<1>1. setup \in Setups /\ pc = "config" /\ layers = <<>>
  BY DEF Init, SqlInit
<1>2. CreationOK
  BY <1>1 DEF CreationOK, Building
<1>3. NewRequest \in RequestStates /\ RequestOK(NewRequest)
  BY DEF NewRequest, RequestStates, RequestOK
<1>4. req = [r \in Requests |-> NewRequest]
  BY DEF Init, SqlInit
<1>5. ReadOK
  BY <1>3, <1>4 DEF ReadOK
<1>6. QED
  BY <1>1, <1>2, <1>5 DEF TilesInv

\* A tile that PostGIS or HANA answers without an error has every feature of its layer, or
\* every layer of an mvt provider, once each and in order: for tables of any length, any
\* number of requests and layers, and wherever rows are cut off or a context is done.
THEOREM FeaturesWholeHolds == Spec => []FeaturesWhole
<1>1. TilesInv => FeaturesWhole
  BY DEF TilesInv, ReadOK, RequestOK, Whole, FeaturesWhole, Configured
<1>2. QED
  BY <1>1, TilesInit, TilesStep, PTL DEF Spec
=============================================================================
