------------------------------- MODULE HanaRows -------------------------------
(***************************************************************************)
(* How the HANA provider describes the columns of a layer and reads its    *)
(* rows (provider/hana/util.go).  A null is a value without the flag valid;*)
(* a column is a record of its name and its database type.                 *)
(***************************************************************************)
EXTENDS Integers, Sequences, SequencesExt

CONSTANT IdSpace   \* feature ids wrap here: 2^64 in the program

(* The database types a model uses, by what a scan makes of them; any other  *)
(* type name is DtUnknown.                                                   *)
IntTypes     == {"TINYINT", "SMALLINT", "INTEGER", "BIGINT"}
NumberTypes  == {"BOOLEAN", "DECIMAL", "SMALLDECIMAL", "REAL", "DOUBLE"}
TimeTypes    == {"DATE", "TIME", "TIMESTAMP", "SECONDDATE"}
TextTypes    == {"CHAR", "VARCHAR", "NCHAR", "NVARCHAR", "SHORTTEXT", "ALPHANUM"}
BytesTypes   == {"BINARY", "VARBINARY"}
LobTypes     == {"BLOB", "CLOB", "NCLOB", "TEXT"}
SpatialTypes == {"STGEOMETRY", "STPOINT"}

(* getFieldDescriptions: the first column with the name of the geometry and  *)
(* the first with that of the id are marked; when the types are checked, a   *)
(* geometry is spatial or a BLOB and an id an integer.                       *)
IsGeometryType(type) == type \in SpatialTypes \cup {"BLOB"}

DescribeColumn(geomField, idField, check, acc, c) ==
  LET isGeom == /\ ~acc.geomFound
                /\ c.name = geomField
                /\ check => IsGeometryType(c.type)
      isId   == /\ acc.geomFound \/ c.name # geomField
                /\ ~acc.idFound
                /\ c.name = idField
                /\ check => c.type \in IntTypes
  IN  [list      |-> Append(acc.list, [name |-> c.name, type |-> c.type,
                                       isGeometry |-> isGeom, isFeatureId |-> isId]),
       geomFound |-> acc.geomFound \/ isGeom,
       idFound   |-> acc.idFound \/ isId]

\* the set of the description, empty when the geometry is not found
FieldDescriptions(geomField, idField, columns, check) ==
  LET all == FoldLeft(LAMBDA acc, c : DescribeColumn(geomField, idField, check, acc, c),
                      [list |-> <<>>, geomFound |-> FALSE, idFound |-> FALSE], columns)
  IN  IF ~all.geomFound /\ geomField # "" THEN {} ELSE {all.list}

\* convertToUInt64 of the text of an id
ParseId(v) == IF v \in 0..IdSpace - 1 THEN {v} ELSE {}

Start == [gid |-> 0, geom |-> "none", tags |-> <<>>, idParsed |-> FALSE, err |-> FALSE]

SetTag(tags, name, v) ==
  [k \in {name} \cup DOMAIN tags |-> IF k = name THEN v ELSE tags[k]]
Tag(acc, d, val) == [acc EXCEPT !.tags = SetTag(@, d.name, val.v)]

\* mutant: a null geometry column ends the row
Bug_ReadSpatial(acc, d, val) ==
  IF d.isGeometry THEN [acc EXCEPT !.geom = "none", !.tags = SetTag(@, d.name, val.v)] ELSE Tag(acc, d, val)

\* a spatial column or, with some data, a large object
ReadSpatial(acc, d, val) ==
  IF d.isGeometry THEN [acc EXCEPT !.geom = val.v] ELSE Tag(acc, d, val)

(* readRowValues, one column.  Only text is ever parsed as an id, and with   *)
(* checked types only an integer column is marked as one.                    *)
ReadValue(acc, d, val) ==
  IF acc.err THEN acc
  ELSE IF d.type \notin IntTypes \cup NumberTypes \cup TimeTypes \cup TextTypes
                         \cup BytesTypes \cup LobTypes \cup SpatialTypes
  THEN [acc EXCEPT !.err = TRUE]
  ELSE IF ~val.valid THEN acc
  ELSE IF d.type \in SpatialTypes \/ (d.type \in LobTypes /\ val.v # "")
  THEN ReadSpatial(acc, d, val)
  ELSE IF d.type \in LobTypes THEN acc
  ELSE IF d.type \in TextTypes /\ d.isFeatureId /\ ~acc.idParsed
  THEN IF ParseId(val.v) = {} THEN [acc EXCEPT !.err = TRUE]
       ELSE [acc EXCEPT !.gid = val.v, !.idParsed = TRUE]
  ELSE Tag(acc, d, val)

ReadRowValues(descs, vals) ==
  FoldLeft(LAMBDA acc, i : ReadValue(acc, descs[i], vals[i]), Start,
           [i \in DOMAIN descs |-> i])

-----------------------------------------------------------------------------
(* A row read with the description of its columns has the geometry of the    *)
(* first geometry column, and every other column that is not null is a tag:  *)
(* nothing a layer selects is lost (getFieldDescriptions, readRowValues).    *)
HanaRowRead(geomField, idField, columns, vals) ==
  \A descs \in FieldDescriptions(geomField, idField, columns, TRUE) :
    LET row == ReadRowValues(descs, vals)
        g   == CHOOSE i \in DOMAIN columns :
                 /\ columns[i].name = geomField /\ IsGeometryType(columns[i].type)
                 /\ \A j \in 1..i - 1 : columns[j].name # geomField \/ ~IsGeometryType(columns[j].type)
        shown == {i \in DOMAIN columns \ {g} :
                    vals[i].valid /\ ~(columns[i].type \in LobTypes /\ vals[i].v = "")}
    IN  ~row.err =>
          /\ row.geom = IF vals[g].valid /\ vals[g].v # "" THEN vals[g].v ELSE "none"
          /\ DOMAIN row.tags = {columns[i].name : i \in shown}
=============================================================================
