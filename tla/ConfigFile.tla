------------------------------ MODULE ConfigFile ------------------------------
(***************************************************************************)
(* The configuration file (config/config.go) and the registration of what  *)
(* it declares (provider/provider.go, cmd/internal/register).  A part that *)
(* is not set is None; an invalid part of a record is a value the checks   *)
(* refuse.                                                                 *)
(***************************************************************************)
EXTENDS Integers, Sequences, SequencesExt, FiniteSets

CONSTANTS None, MaxZ, DefaultTileBuffer,
          StdDrivers, MvtDrivers,   \* the provider types that have registered
          ReservedTokens,           \* the tokens of config.go
          TokenLike,                \* the names ParameterTokenRegexp matches
          Upper,                    \* strings.ToUpper, a function on the token names
          Decodable,                \* the pairs of a type and a text that it decodes
          LayersOf                  \* the layers of a provider, by its name

ParamTypes == {"int", "float", "string", "bool"}
BlacklistHeaders == {"content-encoding", "content-length", "content-type"}

\* QueryParameter.Normalize and ConfigureTileBuffers, as Parse applies them
NormalizeParam(p) == [p EXCEPT !.token = Upper[@], !.sql = IF @ = None THEN "?" ELSE @]
TileBuffer(c, m) ==
  IF m.buffer # None THEN m.buffer ELSE IF c.buffer # None THEN c.buffer ELSE DefaultTileBuffer
ParseMap(c, m) ==
  [m EXCEPT !.params = [i \in DOMAIN m.params |-> NormalizeParam(m.params[i])],
            !.buffer = TileBuffer(c, m)]
Parse(c) == [c EXCEPT !.maps = [k \in DOMAIN c.maps |-> ParseMap(c, c.maps[k])]]

-----------------------------------------------------------------------------
(* Validate.                                                                   *)

\* provider.Drivers of one type
Drivers == StdDrivers \cup MvtDrivers

ProviderAccepted(ps, i) ==
  /\ ps[i].name # None /\ ps[i].type # None
  /\ \A j \in 1..(i - 1) : ps[j].name # ps[i].name
  /\ ps[i].type \in Drivers

Names(ps) == {ps[i].name : i \in DOMAIN ps}
IsMvt(ps, name) == \E i \in DOMAIN ps : ps[i].name = name /\ ps[i].type \in MvtDrivers

TokensOf(m) == {m.params[i].token : i \in DOMAIN m.params}

\* the tokens of the maps before are reserved too
ReservedAt(c, k) == ReservedTokens \cup UNION {TokensOf(c.maps[j]) : j \in 1..(k - 1)}

ParamAccepted(c, k, i) ==
  LET ps == c.maps[k].params  p == ps[i]
  IN  /\ p.type \in ParamTypes
      /\ p.defaultSQL = None \/ p.defaultValue = None
      /\ p.defaultValue # None => <<p.type, p.defaultValue>> \in Decodable
      /\ p.token \notin ReservedAt(c, k)
      /\ p.token \in TokenLike
      /\ \A j \in 1..(i - 1) : ps[j].name # p.name /\ ps[j].token # p.token

\* a layer's provider_layer is the sequence of its parts
GetName(l) == IF l.name # None THEN l.name ELSE l.path[2]

\* the default zooms of a layer
Defaulted(l) ==
  [l EXCEPT !.min = IF @ = None THEN 0 ELSE @,
            !.max = IF @ = None THEN MaxZ ELSE IF @ = 0 THEN 1 ELSE @]

(* No layer of a map may be drawn by another provider once one of them, or   *)
(* one before, is an mvt provider.                                             *)
SameProvider(c, m, i) ==
  (\E j \in 1..i : IsMvt(c.providers, m.layers[j].path[1])) =>
     m.layers[i].path[1] = m.layers[1].path[1]

\* the layers that come before layer i of map k, in maps of that name
Before(c, k, i) ==
  {q \in UNION {{j} \X DOMAIN c.maps[j].layers : j \in 1..k} :
     c.maps[q[1]].name = c.maps[k].name /\ (q[1] < k \/ q[2] < i)}

\* mutant: the zooms are compared before the defaults are in place
Bug_ZoomsOverlap(a, b) ==
  a.min # None /\ a.max # None /\ b.min # None /\ b.max # None
    /\ a.min <= b.max /\ b.min <= a.max

ZoomsOverlap(a, b) ==
  LET d == Defaulted(a)  e == Defaulted(b) IN d.min <= e.max /\ e.min <= d.max

\* a layer may not overlap the first layer of its name; later ones are not looked at
NoCollision(c, k, i) ==
  LET l    == c.maps[k].layers[i]
      same == {q \in Before(c, k, i) : GetName(c.maps[q[1]].layers[q[2]]) = GetName(l)}
      IsFirst(q) == \A r \in same : q[1] < r[1] \/ (q[1] = r[1] /\ q[2] <= r[2])
  IN  \A q \in same : IsFirst(q) => ~ZoomsOverlap(c.maps[q[1]].layers[q[2]], l)

LayerAccepted(c, k, i) ==
  LET m == c.maps[k]
  IN  /\ Len(m.layers[i].path) = 2
      /\ m.layers[i].path[1] \in Names(c.providers)
      /\ SameProvider(c, m, i)
      /\ NoCollision(c, k, i)

Validate(c) ==
  /\ \A i \in DOMAIN c.providers : ProviderAccepted(c.providers, i)
  /\ \A k \in DOMAIN c.maps :
       /\ \A i \in DOMAIN c.maps[k].params : ParamAccepted(c, k, i)
       /\ \A i \in DOMAIN c.maps[k].layers :
            /\ \A j \in 1..(i - 1) : Len(c.maps[k].layers[j].path) = 2
            /\ LayerAccepted(c, k, i)
  /\ c.headers \cap BlacklistHeaders = {}
  /\ c.prefix # None => c.prefix = "/"

-----------------------------------------------------------------------------
(* What the registration makes of it.  A provider's union is the kind of its *)
(* driver.                                                                    *)
For(type) == IF type \in StdDrivers THEN "std" ELSE "mvt"

\* register.Providers, empty when one is refused
Registered(ps) ==
  IF \E i \in DOMAIN ps : ~ProviderAccepted(ps, i) THEN <<>>
  ELSE [n \in Names(ps) |-> For(ps[CHOOSE i \in DOMAIN ps : ps[i].name = n].type)]

\* Validate leaves the default zooms in the configuration
Validated(m) == [m EXCEPT !.layers = [i \in DOMAIN m.layers |-> Defaulted(m.layers[i])]]

\* atlasLayerFromConfigLayer: zooms that are still unset are 0
AtlasLayer(l) ==
  [name |-> GetName(l), provider |-> l.path[1],
   min |-> IF l.min = None THEN 0 ELSE l.min, max |-> IF l.max = None THEN 0 ELSE l.max]

\* selectProvider refuses: an unknown provider, another one than the map's mvt
\* provider, an mvt provider behind other layers
Refused(acc, provs, name) ==
  IF acc.mvt # None THEN acc.mvt # name
  ELSE name \notin DOMAIN provs \/ (provs[name] = "mvt" /\ acc.layers # <<>>)

RegisterLayer(provs, acc, l) ==
  IF ~acc.ok THEN acc
  ELSE IF Len(l.path) # 2 \/ Refused(acc, provs, l.path[1]) \/ l.path[2] \notin LayersOf[l.path[1]]
  THEN [acc EXCEPT !.ok = FALSE]
  ELSE [acc EXCEPT !.layers = Append(@, AtlasLayer(l)),
                   !.mvt = IF provs[l.path[1]] = "mvt" THEN l.path[1] ELSE @]

\* register.Maps of one map
RegisterMap(provs, m) ==
  FoldLeft(LAMBDA acc, l : RegisterLayer(provs, acc, l),
           [ok |-> TRUE, mvt |-> None, layers |-> <<>>], m.layers)

-----------------------------------------------------------------------------
(* An accepted configuration is one the registration takes: it agrees with   *)
(* Validate on the providers of every map, so that only a layer a provider   *)
(* does not have is refused, and an mvt provider draws its map alone.        *)
AcceptedRegisters(c) ==
  LET p == Parse(c)  provs == Registered(p.providers)
  IN  Validate(p) => \A k \in DOMAIN p.maps :
        LET m == Validated(p.maps[k])  r == RegisterMap(provs, m)
        IN  /\ r.ok <=> \A i \in DOMAIN m.layers : m.layers[i].path[2] \in LayersOf[m.layers[i].path[1]]
            /\ r.mvt # None => \A i \in DOMAIN r.layers : r.layers[i].provider = r.mvt

\* the layers ls of map k are drawn apart from the first one of their name
DrawnApart(p, k, ls) ==
  LET NewName == \A j \in 1..(k - 1) : p.maps[j].name # p.maps[k].name
      First(i) == \A j \in 1..(i - 1) : ls[j].name # ls[i].name
      Drawn(i, z) == ls[i].min <= z /\ z <= ls[i].max
  IN  \A i, j \in DOMAIN ls : \A z \in 0..MaxZ :
        /\ (NewName /\ i # j /\ First(i) /\ ls[i].name = ls[j].name) => ~(Drawn(i, z) /\ Drawn(j, z))
        /\ ls[i].max >= 1

(* No tile of an accepted map has the first layer of a name twice, and no    *)
(* layer is left at zoom 0 alone.  Only the layers of the first map of a name *)
(* are compared with each other: those of a further map of that name, which   *)
(* replaces it when it is registered, are compared with the layers of the     *)
(* first one.                                                                  *)
LayersApart(c) ==
  LET p == Parse(c)  provs == Registered(p.providers)
  IN  Validate(p) => \A k \in DOMAIN p.maps :
        DrawnApart(p, k, RegisterMap(provs, Validated(p.maps[k])).layers)

(* A token means one thing in all the maps of an accepted configuration,     *)
(* whatever its case in the file: one parameter of one map, and none of the  *)
(* tokens tegola fills in.                                                    *)
TokensApart(c) ==
  Validate(Parse(c)) =>
    LET At == UNION {{k} \X DOMAIN c.maps[k].params : k \in DOMAIN c.maps}
        T(q) == Upper[c.maps[q[1]].params[q[2]].token]
    IN  \A q \in At : T(q) \notin ReservedTokens /\ \A r \in At : q # r => T(q) # T(r)

ConfigSound(c) == AcceptedRegisters(c) /\ LayersApart(c) /\ TokensApart(c)
=============================================================================
