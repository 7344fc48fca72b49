------------------------------- MODULE GpkgRows -------------------------------
(***************************************************************************)
(* The formats the GeoPackage provider reads (provider/gpkg): the header of*)
(* a geometry, the column definitions of a table, and the rows of a layer. *)
(***************************************************************************)
EXTENDS Integers, Sequences, SequencesExt, FiniteSets, TLC

\* a string of bits of a byte, by its lowest and the number of bits
BitsOf(byte, low, n) == (byte \div 2^low) % 2^n

(* The flags of a header: byte order, envelope type, empty, extended.  Types *)
(* from 5 on are invalid.                                                    *)
LittleEndian(flags) == BitsOf(flags, 0, 1) = 1
InvalidEnvelope == 5
Envelope(flags) ==
  LET et == BitsOf(flags, 1, 3) IN IF et >= InvalidEnvelope THEN InvalidEnvelope ELSE et
EmptyGeometry(flags) == BitsOf(flags, 4, 1) = 1
StandardGeometry(flags) == BitsOf(flags, 5, 1) = 0

\* the numbers an envelope holds, of 8 bytes each
NumberOfElements(et) == CASE et = 0 -> 0 [] et = 1 -> 4 [] et \in {2, 3} -> 6 [] et = 4 -> 8

\* mutant: the check of the length forgets the first eight bytes
Bug_BinaryHeader(len, magic, flags) ==
  LET et == Envelope(flags)
  IN  IF len < 8 \/ et = InvalidEnvelope THEN {}
      ELSE IF et # 0 /\ len < 8 * NumberOfElements(et) THEN {}
      ELSE IF et # 0 /\ ~magic THEN {}
      ELSE {8 + 8 * NumberOfElements(et)}

(* NewBinaryHeader of len bytes: the set of the header's size, empty when it *)
(* is refused.  The magic number is not looked at without an envelope.       *)
BinaryHeader(len, magic, flags) ==
  LET et == Envelope(flags)
  IN  IF len < 8 \/ et = InvalidEnvelope THEN {}
      ELSE IF et # 0 /\ len - 8 < 8 * NumberOfElements(et) THEN {}
      ELSE IF et # 0 /\ ~magic THEN {}
      ELSE {8 + 8 * NumberOfElements(et)}

(* A header that is accepted lies within its bytes, so that decodeGeometry   *)
(* never slices beyond them.                                                 *)
HeaderFits(len, magic, flags) ==
  \A size \in BinaryHeader(len, magic, flags) : size <= len

-----------------------------------------------------------------------------
(* extractColDefsFromSQL: the definitions between the outer parentheses,     *)
(* split at the commas that are not inside further ones.  A statement is a   *)
(* sequence of "(", ")", "," and words.                                      *)
ColDefStep(acc, t) ==
  IF acc.done THEN acc
  ELSE IF t = ")" /\ acc.p = 1
  THEN [acc EXCEPT !.defs = Append(@, acc.col), !.col = <<>>, !.done = TRUE]
  ELSE IF t = "," /\ acc.p = 1
  THEN [acc EXCEPT !.defs = Append(@, acc.col), !.col = <<>>]
  ELSE [acc EXCEPT !.col = IF t = "(" /\ acc.p = 0 THEN <<>> ELSE Append(@, t),
                   !.p = CASE t = "(" -> @ + 1 [] t = ")" -> @ - 1 [] OTHER -> @]

ColDefs(sql) ==
  FoldLeft(ColDefStep, [defs |-> <<>>, col |-> <<>>, p |-> 0, done |-> FALSE], sql).defs

NoKey == ""

\* extractColsAndPKFromSQL: definitions that begin with a name, and the last of
\* them that says PRIMARY KEY
ColsAndPK(sql, names) ==
  LET defs == ColDefs(sql)
      cols == {i \in DOMAIN defs : defs[i] # <<>> /\ defs[i][1] \in names}
      keys == {i \in cols : \E j \in DOMAIN defs[i] : defs[i][j] = "primary key"}
  IN  [cols |-> {defs[i][1] : i \in cols},
       pk   |-> IF keys = {} THEN NoKey ELSE defs[Max(keys)][1]]

\* what a table of a model looks like in sqlite_master
TableSql(cols) ==
  <<"create table", "(">>
    \o FlattenSeq([i \in DOMAIN cols |->
         <<cols[i].name>> \o cols[i].type \o (IF cols[i].pk THEN <<"primary key">> ELSE <<>>)
           \o (IF i < Len(cols) THEN <<",">> ELSE <<>>)])
    \o <<")">>

(* The columns and the primary key of any table are read from its statement, *)
(* whatever the types in parentheses hold (featureTableMetaData).            *)
ColumnsFound(cols) ==
  LET names == {cols[i].name : i \in DOMAIN cols}
      keys  == {i \in DOMAIN cols : cols[i].pk}
  IN  Cardinality(keys) <= 1 =>
        ColsAndPK(TableSql(cols), names) =
          [cols |-> names, pk |-> IF keys = {} THEN NoKey ELSE cols[CHOOSE i \in keys : TRUE].name]

\* AutoConfig: a layer for a table, with its other columns as fields
AutoLayer(table, d) ==
  [name |-> table, tablename |-> table, id |-> d.pk, fields |-> d.cols \ {d.pk, d.geom}]
=============================================================================
