------------------------------ MODULE CacheFlags ------------------------------
(***************************************************************************)
(* What the cache commands work on (cmd/tegola/cmd/cache): the zooms of    *)
(* --min-zoom and --max-zoom, the bounds, and the lines of a tile list in  *)
(* the format of --format.                                                 *)
(***************************************************************************)
EXTENDS Integers, Sequences, SequencesExt, FiniteSets

CONSTANTS MaxZ,        \* tegola.MaxZ
          NoFlag       \* a flag that is not on the command line

Digits == {"0", "1", "2", "3", "4", "5", "6", "7", "8", "9"}

\* strings.Index, from 0, or -1
IndexOf(s, c) == IF c \in {s[i] : i \in DOMAIN s}
                 THEN SelectInSeq(s, LAMBDA d : d = c) - 1 ELSE -1

DefaultFormat == [sep |-> "/", x |-> 1, y |-> 2, z |-> 0]

\* mutant: the indices are not checked
Bug_NewFormat(f) ==
  IF f = <<>> THEN {DefaultFormat}
  ELSE IF Len(f) # 4 \/ f[1] \in Digits \cup {"z", "x", "y"} THEN {}
  ELSE LET zxy == SubSeq(f, 2, 4)
       IN  {[sep |-> f[1], x |-> IndexOf(zxy, "x"), y |-> IndexOf(zxy, "y"),
             z |-> IndexOf(zxy, "z")]}

(* NewFormat of the characters of a format: the set of the format, empty     *)
(* when it is refused.                                                        *)
NewFormat(f) ==
  IF f = <<>> THEN {DefaultFormat}
  ELSE IF Len(f) # 4 \/ f[1] \in Digits \cup {"z", "x", "y"} THEN {}
  ELSE LET zxy == SubSeq(f, 2, 4)
           x == IndexOf(zxy, "x")  y == IndexOf(zxy, "y")  z == IndexOf(zxy, "z")
       IN  IF x + y + z # 3 THEN {} ELSE {[sep |-> f[1], x |-> x, y |-> y, z |-> z]}

\* Format.Parse of the parts between the separators: the set of the tile
Parse(f, parts) ==
  IF Len(parts) # 3 THEN {}
  ELSE LET z == parts[f.z + 1]  x == parts[f.x + 1]  y == parts[f.y + 1]
       IN  IF z \in 0..MaxZ /\ x \in 0..(2^z - 1) /\ y \in 0..(2^z - 1)
           THEN {[z |-> z, x |-> x, y |-> y]} ELSE {}

(* The line of a tile in the order that --format spells, as a user writes it. *)
Line(f, t) ==
  LET chars == IF f = <<>> THEN <<"/", "z", "x", "y">> ELSE f
  IN  [i \in 1..3 |-> CASE chars[i + 1] = "z" -> t.z [] chars[i + 1] = "x" -> t.x
                        [] chars[i + 1] = "y" -> t.y]

(* Any format that names the three coordinates behind a usable delimiter is  *)
(* accepted and reads back the tiles that are written in it; any other       *)
(* format is refused.                                                         *)
LinesRead(f, t) ==
  IF f = <<>> \/ ( /\ Len(f) = 4 /\ f[1] \notin Digits \cup {"z", "x", "y"}
                   /\ {f[2], f[3], f[4]} = {"z", "x", "y"} )
  THEN \E fmt \in NewFormat(f) : Parse(fmt, Line(f, t)) = {t}
  ELSE NewFormat(f) = {}

-----------------------------------------------------------------------------
(* The zooms.  The three commands bind the same two variables; each binding  *)
(* sets them to its own default, so the last one decides (seed_purge.go,     *)
(* tile_list.go and tile_name.go are initialised in this order).             *)
Commands == <<"seed", "tile-list", "tile-name">>
FlagDefault == [c \in {"seed", "tile-list", "tile-name"} |->
                  [min |-> 0, max |-> IF c = "seed" THEN MaxZ ELSE 0]]
BoundZooms == FoldLeft(LAMBDA v, c : FlagDefault[c], [min |-> 0, max |-> 0], Commands)

Flagged(flags) ==
  [min |-> IF flags.min = NoFlag THEN BoundZooms.min ELSE flags.min,
   max |-> IF flags.max = NoFlag THEN BoundZooms.max ELSE flags.max]

\* IsMinMaxZoomExplicit: neither flag was given
Explicit(flags) == flags.min = NoFlag /\ flags.max = NoFlag

\* mutant: the last zoom is left out
Bug_SliceFromRange(min, max) == [i \in 1..(max - min) |-> min + i - 1]

\* sliceFromRange of a range that minMaxZoomValidate accepts
SliceFromRange(min, max) == [i \in 1..(max - min + 1) |-> min + i - 1]

\* the zooms of a command, a set of at most one sequence
Zooms(cmd, flags) ==
  LET v == Flagged(flags)
  IN  IF cmd # "seed" /\ Explicit(flags) THEN {<<>>}
      ELSE IF v.max < v.min THEN {} ELSE {SliceFromRange(v.min, v.max)}

(* RangeFamilyAt: the tiles at a zoom that contain a tile or lie within it    *)
Family(t, zoom) ==
  IF zoom <= t.z
  THEN {[z |-> zoom, x |-> t.x \div 2^(t.z - zoom), y |-> t.y \div 2^(t.z - zoom)]}
  ELSE LET n == 2^(zoom - t.z)
       IN  {[z |-> zoom, x |-> t.x * n + i, y |-> t.y * n + j] : i, j \in 0..(n - 1)}

\* the tiles a tile-name or tile-list command sends for a tile
TilesFor(t, flags, zooms) ==
  IF Explicit(flags) \/ zooms = <<>> THEN {t}
  ELSE UNION {Family(t, zooms[i]) : i \in DOMAIN zooms}

\* two tiles share a part of the world
Overlap(t, u) ==
  LET z == IF t.z < u.z THEN t.z ELSE u.z
      At(v) == <<v.x \div 2^(v.z - z), v.y \div 2^(v.z - z)>>
  IN  At(t) = At(u)

(* A tile list without zooms means its tiles and nothing else.  With zooms it *)
(* means every tile at those zooms that overlaps it, both ends included: a    *)
(* purge leaves none of them.                                                  *)
FamilyCovered(t, flags) ==
  \A zs \in Zooms("tile-name", flags) :
    IF Explicit(flags) THEN TilesFor(t, flags, zs) = {t}
    ELSE LET v == Flagged(flags)
         IN  TilesFor(t, flags, zs) =
               UNION {{u \in [z : {z}, x : 0..(2^z - 1), y : 0..(2^z - 1)] : Overlap(t, u)} :
                        z \in v.min..v.max}
=============================================================================
