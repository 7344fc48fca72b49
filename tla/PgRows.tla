-------------------------------- MODULE PgRows --------------------------------
(***************************************************************************)
(* How the PostGIS provider reads a row of a layer (provider/postgis/      *)
(* util.go): the geometry, the feature id and the tags.                    *)
(*                                                                         *)
(* A column is a record of its name, the class of its OID and its value; a *)
(* value is its Go type and what it holds.                                 *)
(***************************************************************************)
EXTENDS Integers, Sequences, SequencesExt

CONSTANT IdSpace   \* feature ids wrap here: 2^64 in the program, a positive number

Nil == [go |-> "nil", v |-> 0]

SignedInts   == {"int8", "int32", "int64"}
UnsignedInts == {"uint8", "uint16", "uint32", "uint64"}

(* gId: the integers that fit are converted like Go does, a string is parsed.*)
(* There is no case for int16, which is what a smallint column yields.       *)
GId(val) ==
  IF val.go \in SignedInts \cup UnsignedInts \cup {"float64"} THEN {val.v % IdSpace}
  ELSE IF val.go = "string" /\ val.v \in 0..IdSpace - 1 THEN {val.v}
  ELSE {}

(* transformVal, by the class of the OID: values as they are, numbers in     *)
(* int64 or float64, times as text; the empty set is its error.              *)
TransformVal(class, val) ==
  CASE class = "plain"  -> {val}
    [] class = "number" -> IF val.go \in SignedInts \cup {"int16", "uint8", "uint16", "uint32"}
                             THEN {[val EXCEPT !.go = "int64"]}
                           ELSE IF val.go \in {"uint64"} THEN {val}
                           ELSE IF val.go \in {"float32", "float64"} THEN {[val EXCEPT !.go = "float64"]}
                           ELSE {}
    [] class = "time"   -> {[val EXCEPT !.go = "string"]}
    [] OTHER            -> IF val.go \in {"string", "stringer"}
                           THEN {[val EXCEPT !.go = "string"]} ELSE {}

\* f, and g where f has nothing
Over(f, g) == [k \in DOMAIN f \cup DOMAIN g |-> IF k \in DOMAIN f THEN f[k] ELSE g[k]]

\* mutant: an hstore key replaces the tag of a column
Bug_AddHstore(tags, pairs) == Over(pairs, tags)

\* the keys of an hstore value do not replace tags that are there already
AddHstore(tags, pairs)  == Over(tags, pairs)
SetTag(tags, name, val) == Over([k \in {name} |-> val], tags)

Start == [gid |-> 0, geom |-> "none", tags |-> <<>>, idParsed |-> FALSE, err |-> FALSE]

\* a column that is a tag
TagColumn(acc, c) ==
  CASE c.val.go = "hstore"  -> [acc EXCEPT !.tags = AddHstore(@, c.val.v)]
    [] c.val.go = "numeric" -> [acc EXCEPT !.tags = SetTag(@, c.name, [c.val EXCEPT !.go = "float64"])]
    [] OTHER -> LET new == TransformVal(c.class, c.val)
                IN  IF new = {} THEN [acc EXCEPT !.err = TRUE]
                    ELSE [acc EXCEPT !.tags = SetTag(@, c.name, CHOOSE v \in new : TRUE)]

(* decipherFields, one column: nulls are skipped, the first column with the  *)
(* name of the id is the id, a further one is a tag.                         *)
DecipherField(geomField, idField, acc, c) ==
  IF acc.err \/ c.val = Nil THEN acc
  ELSE IF c.name = geomField
  THEN IF c.val.go = "bytes" THEN [acc EXCEPT !.geom = c.val.v] ELSE [acc EXCEPT !.err = TRUE]
  ELSE IF c.name = idField /\ ~acc.idParsed
  THEN LET gid == GId(c.val)
       IN  IF gid = {} THEN [acc EXCEPT !.err = TRUE]
           ELSE [acc EXCEPT !.gid = CHOOSE g \in gid : TRUE, !.idParsed = TRUE]
  ELSE TagColumn(acc, c)

DecipherFields(geomField, idField, cols) ==
  FoldLeft(LAMBDA acc, c : DecipherField(geomField, idField, acc, c), Start, cols)

-----------------------------------------------------------------------------
IsTag(geomField, idField, cols, i) ==
  /\ cols[i].val # Nil
  /\ cols[i].name # geomField
  /\ cols[i].name = idField =>
       \E j \in 1..i - 1 : cols[j].name = idField /\ cols[j].val # Nil

(* A row that is read without an error has its geometry and its id from the  *)
(* columns of these names, and a tag of a column is never hidden by a key of *)
(* an hstore column, whatever the order of the columns (decipherFields).     *)
RowRead(geomField, idField, cols) ==
  LET row == DecipherFields(geomField, idField, cols)
      Tag(i) == IsTag(geomField, idField, cols, i)
      Plain(i) == Tag(i) /\ cols[i].val.go # "hstore"
      PlainNames == {cols[i].name : i \in {j \in DOMAIN cols : Plain(j)}}
      KeysOf(i) == IF Tag(i) /\ ~Plain(i) THEN DOMAIN cols[i].val.v ELSE {}
  IN  ~row.err =>
        /\ DOMAIN row.tags = PlainNames \cup UNION {KeysOf(i) : i \in DOMAIN cols}
        /\ \A i \in DOMAIN cols :
             (Plain(i) /\ \A j \in DOMAIN cols : Plain(j) /\ cols[j].name = cols[i].name => j <= i)
               => row.tags[cols[i].name].v = cols[i].val.v
        /\ row.idParsed <=> \E i \in DOMAIN cols : cols[i].name = idField /\ cols[i].val # Nil
=============================================================================
