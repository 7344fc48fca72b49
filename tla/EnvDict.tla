------------------------------- MODULE EnvDict -------------------------------
(***************************************************************************)
(* The values of the configuration: the dictionaries the providers, caches *)
(* and observers read their options from (dict/dict.go, internal/env), and *)
(* the environment variables in them.                                      *)
(*                                                                         *)
(* A text is a sequence of words; a word that is a variable of Vars is     *)
(* replaced.  A value has its Go type and its content; a missing key is    *)
(* Absent.                                                                 *)
(***************************************************************************)
EXTENDS Integers, Sequences, SequencesExt, FiniteSets

CONSTANTS Vars,        \* the words that are variables: ${NAME}
          Env,         \* the environment: a function from some of Vars to texts
          MaxRounds    \* bound: the rounds of replaceEnvVar that are looked at

Absent == [type |-> "absent"]
Nil    == [type |-> "nil"]
Val(type, content) == [type |-> type, v |-> content]

Ok(v)  == [ok |-> TRUE, v |-> v]
Err(e) == [ok |-> FALSE, err |-> e]

-----------------------------------------------------------------------------
Replace(text, w, by) == FlattenSeq([i \in DOMAIN text |-> IF text[i] = w THEN by ELSE <<text[i]>>])
HasVar(text)   == \E i \in DOMAIN text : text[i] \in Vars
FirstVar(text) == text[CHOOSE i \in DOMAIN text :
                         text[i] \in Vars /\ \A j \in 1..(i - 1) : text[j] \notin Vars]

\* mutant: only the text of the file is looked at, not what replaces a variable
Bug_ReplaceRound(r) ==
  IF ~r.ok \/ ~HasVar(r.v) THEN r
  ELSE IF FirstVar(r.v) \notin DOMAIN Env THEN Err("env")
  ELSE Ok(Replace(r.v, FirstVar(r.v), SelectSeq(Env[FirstVar(r.v)], LAMBDA w : w \notin Vars)))

\* one round of replaceEnvVar: all occurrences of the first variable
ReplaceRound(r) ==
  IF ~r.ok \/ ~HasVar(r.v) THEN r
  ELSE IF FirstVar(r.v) \notin DOMAIN Env THEN Err("env")
  ELSE Ok(Replace(r.v, FirstVar(r.v), Env[FirstVar(r.v)]))

\* replaceEnvVar; a variable that leads to itself is never done with
ReplaceEnvVar(text) ==
  LET rounds[n \in 0..MaxRounds] == IF n = 0 THEN Ok(text) ELSE ReplaceRound(rounds[n - 1])
      last == rounds[MaxRounds]
  IN  IF last.ok /\ HasVar(last.v) THEN Err("never ends") ELSE last

\* the variables a text leads to, and what the text means with all of them filled in
Within(text) == {text[i] : i \in DOMAIN text} \cap Vars
Reached(text) ==
  LET grow[n \in 0..Cardinality(Vars)] ==
        IF n = 0 THEN Within(text)
        ELSE grow[n - 1] \cup UNION {Within(Env[w]) : w \in grow[n - 1] \cap DOMAIN Env}
  IN  grow[Cardinality(Vars)]
Circular(text) == \E w \in Reached(text) \cap DOMAIN Env : w \in Reached(Env[w])

Meaning(text) ==
  LET deep[n \in 0..Cardinality(Vars)] ==
        [w \in DOMAIN Env |-> IF n = 0 THEN Env[w] ELSE
           FlattenSeq([i \in DOMAIN Env[w] |->
             IF Env[w][i] \in DOMAIN Env THEN deep[n - 1][Env[w][i]] ELSE <<Env[w][i]>>])]
  IN  FlattenSeq([i \in DOMAIN text |->
        IF text[i] \in DOMAIN Env THEN deep[Cardinality(Vars)][text[i]] ELSE <<text[i]>>])

(* The variables of a text are all replaced, in whatever order they come: an *)
(* error names a missing one, and the result is the meaning of the text.     *)
Replaced(text) ==
  LET r == ReplaceEnvVar(text)
  IN  ~Circular(text) =>
        IF Reached(text) \subseteq DOMAIN Env THEN r = Ok(Meaning(text)) ELSE r = Err("env")

-----------------------------------------------------------------------------
(* The conversions of strconv, for the words of a model: the pairs of a word  *)
(* and its meaning.                                                            *)
Bools == {<<"true", TRUE>>, <<"1", TRUE>>}
Ints  == {<<"1", 1>>, <<"-1", -1>>}
Uints == {<<"1", 1>>}

FromWord(pairs, text) ==
  LET c == {p \in pairs : text = <<p[1]>>}
  IN  IF c = {} THEN Err("parse") ELSE Ok((CHOOSE p \in c : TRUE)[2])

AsString(text) == Ok(text)
AsBool(text)   == FromWord(Bools, text)
AsInt(text)    == FromWord(Ints, text)
AsUint(text)   == FromWord(Uints, text)
AsFloat(text)  == FromWord(Ints, text)

\* a string has its variables replaced; some other Go types are read as they are
Typed(val, types, To(_)) ==
  IF val.type = "string"
  THEN LET t == ReplaceEnvVar(val.v) IN IF t.ok THEN To(t.v) ELSE t
  ELSE IF val.type \in types THEN Ok(val.v) ELSE Err("type")

ParseString(val) == Typed(val, {}, AsString)
ParseBool(val)   == Typed(val, {"bool"}, AsBool)
ParseInt(val)    == Typed(val, {"int", "int64"}, AsInt)
ParseUint(val) ==
  IF val.type \in {"int", "int64"} /\ val.v < 0 THEN Err("type")
  ELSE Typed(val, {"uint", "uint64", "int", "int64"}, AsUint)
ParseFloat(val)  == Typed(val, {"float64", "float32"}, AsFloat)

\* the parts of a text between its commas, without spaces around them
SplitStep(acc, w) == IF w = "," THEN Append(acc, <<>>) ELSE [acc EXCEPT ![Len(acc)] = Append(@, w)]
Split(text) == FoldLeft(SplitStep, << <<>> >>, text)
Trim(part)  == SelectSeq(part, LAMBDA w : w # " ")

\* all of the results, or the first error
Collect(rs) ==
  IF \A i \in DOMAIN rs : rs[i].ok THEN Ok([i \in DOMAIN rs |-> rs[i].v])
  ELSE rs[SelectInSeq(rs, LAMBDA r : ~r.ok)]

Parts(text, To(_)) ==
  LET t == ReplaceEnvVar(text)
  IN  IF ~t.ok THEN t
      ELSE LET parts == Split(t.v) IN Collect([i \in DOMAIN parts |-> To(Trim(parts[i]))])

ParseStringSlice(text) == Parts(text, AsString)
ParseBoolSlice(text)   == Parts(text, AsBool)
ParseIntSlice(text)    == Parts(text, AsInt)
ParseUintSlice(text)   == Parts(text, AsUint)
ParseFloatSlice(text)  == Parts(text, AsFloat)

-----------------------------------------------------------------------------
(* The getters of env.Dict.  The default is a set of at most one value.      *)

\* a missing variable is told from any other error
KeyError(r) == IF r.ok \/ r.err \in {"env", "never ends"} THEN r ELSE Err("key type")

\* mutant: a value that cannot be read counts as missing
Bug_Required(val, def, read) ==
  IF val.type \in {"absent", "nil"} \/ ~read.ok
  THEN IF def # {} THEN Ok(CHOOSE d \in def : TRUE) ELSE Err("key required")
  ELSE KeyError(read)

\* a missing value is its default, or an error; read is what the value is read as
Required(val, def, read) ==
  IF val.type \in {"absent", "nil"}
  THEN IF def # {} THEN Ok(CHOOSE d \in def : TRUE) ELSE Err("key required")
  ELSE KeyError(read)

GetString(val, def) == Required(val, def, ParseString(val))
GetBool(val, def)   == Required(val, def, ParseBool(val))
GetInt(val, def)    == Required(val, def, ParseInt(val))
GetUint(val, def)   == Required(val, def, ParseUint(val))
GetFloat(val, def)  == Required(val, def, ParseFloat(val))

\* a text is split, a list is read one by one with zero for a nil, and a value
\* of any other type is no error: it is ignored
Slice(val, type, OfText(_), OfValue(_), zero) ==
  CASE val.type = "string" -> KeyError(OfText(val.v))
    [] val.type = type     -> Ok(val.v)
    [] val.type = "list"   ->
         KeyError(Collect([i \in DOMAIN val.v |->
           IF val.v[i] = Nil THEN Ok(zero) ELSE OfValue(val.v[i])]))
    [] OTHER -> Ok(<<>>)

GetStringSlice(val) == Slice(val, "[]string", ParseStringSlice, ParseString, <<>>)
GetBoolSlice(val)   == Slice(val, "[]bool", ParseBoolSlice, ParseBool, FALSE)
GetIntSlice(val)    == Slice(val, "[]int", ParseIntSlice, ParseInt, 0)
GetUintSlice(val)   == Slice(val, "[]uint", ParseUintSlice, ParseUint, 0)
GetFloatSlice(val)  == Slice(val, "[]float64", ParseFloatSlice, ParseFloat, 0)

\* a missing table is an empty one
GetMap(val) ==
  CASE val = Absent -> Ok(<<>>) [] val.type = "Dict" -> Ok(val.v) [] OTHER -> Err("key type")
GetMapSlice(val) ==
  CASE val = Absent -> Ok(<<>>) [] val.type = "tables" -> Ok(val.v) [] OTHER -> Err("key type")

-----------------------------------------------------------------------------
(* The getters of dict.Dict take exactly the type asked for; the zero value   *)
(* is a set, empty when a missing key is an error.                            *)
Exactly(val, type, def, zero) ==
  IF val # Absent THEN IF val.type = type THEN Ok(val.v) ELSE Err("key type")
  ELSE IF def \cup zero = {} THEN Err("key required")
  ELSE Ok(CHOOSE d \in (IF def # {} THEN def ELSE zero) : TRUE)

PlainString(val, def) == Exactly(val, "string", def, {})
PlainBool(val, def)   == Exactly(val, "bool", def, {FALSE})
PlainInt(val, def)    == Exactly(val, "int", def, {})
PlainUint(val, def)   == Exactly(val, "uint", def, {0})
PlainFloat(val, def)  == Exactly(val, "float64", def, {})

ExactlySlice(val, type) ==
  CASE val = Absent -> Ok(<<>>) [] val.type = type -> Ok(val.v) [] OTHER -> Err("key type")

PlainStringSlice(val) == ExactlySlice(val, "[]string")
PlainBoolSlice(val)   == ExactlySlice(val, "[]bool")
PlainIntSlice(val)    == ExactlySlice(val, "[]int")
PlainUintSlice(val)   == ExactlySlice(val, "[]uint")
PlainFloatSlice(val)  == ExactlySlice(val, "[]float64")

\* the getters by the kind of value they give
ParseValue(kind, val) ==
  CASE kind = "string" -> ParseString(val) [] kind = "bool" -> ParseBool(val)
    [] kind = "int" -> ParseInt(val) [] kind = "uint" -> ParseUint(val)
    [] kind = "float" -> ParseFloat(val)
Get(kind, val, def) ==
  CASE kind = "string" -> GetString(val, def) [] kind = "bool" -> GetBool(val, def)
    [] kind = "int" -> GetInt(val, def) [] kind = "uint" -> GetUint(val, def)
    [] kind = "float" -> GetFloat(val, def)
GetSlice(kind, val) ==
  CASE kind = "string" -> GetStringSlice(val) [] kind = "bool" -> GetBoolSlice(val)
    [] kind = "int" -> GetIntSlice(val) [] kind = "uint" -> GetUintSlice(val)
    [] kind = "float" -> GetFloatSlice(val)
PlainGet(kind, val, def) ==
  CASE kind = "string" -> PlainString(val, def) [] kind = "bool" -> PlainBool(val, def)
    [] kind = "int" -> PlainInt(val, def) [] kind = "uint" -> PlainUint(val, def)
    [] kind = "float" -> PlainFloat(val, def)
PlainGetSlice(kind, val) ==
  CASE kind = "string" -> PlainStringSlice(val) [] kind = "bool" -> PlainBoolSlice(val)
    [] kind = "int" -> PlainIntSlice(val) [] kind = "uint" -> PlainUintSlice(val)
    [] kind = "float" -> PlainFloatSlice(val)

-----------------------------------------------------------------------------
(* ParseDict: the strings of a table and of the tables in it are replaced,   *)
(* anything else stays, the tables of an array too.  A table is a function   *)
(* from its keys.                                                             *)
ParseEntry(val) ==
  IF val.type = "string"
  THEN LET t == ReplaceEnvVar(val.v) IN IF t.ok THEN Ok(Val("string", t.v)) ELSE t
  ELSE Ok(val)
ParseTable(table) ==
  LET read == [k \in DOMAIN table |-> ParseEntry(table[k])]
  IN  IF \A k \in DOMAIN table : read[k].ok THEN Ok([k \in DOMAIN table |-> read[k].v])
      ELSE read[CHOOSE k \in DOMAIN table : ~read[k].ok]
ParseNested(val) ==
  IF val.type # "map" THEN ParseEntry(val)
  ELSE LET t == ParseTable(val.v) IN IF t.ok THEN Ok(Val("Dict", t.v)) ELSE t

(* An option that is there is never taken for one that is not: its getter    *)
(* gives its value or an error.                                               *)
NeverDefaulted(kind, val, def) ==
  LET r == Get(kind, val, def)
  IN  val.type \notin {"absent", "nil"} =>
        /\ r.ok => r = ParseValue(kind, val)
        /\ Get(kind, val, {}) = r

(* A table within the options is found by Map once the file is parsed.        *)
TableFound(val) ==
  LET e == ParseNested(val) IN (val.type = "map" /\ e.ok) => GetMap(e.v).ok

(* A value that was read through its table (the options of a cache) is the   *)
(* one that is read from it directly (the layers of a provider): replacing   *)
(* the variables twice changes nothing.                                       *)
ReadOnce(kind, val, def) ==
  LET e == ParseNested(val)
  IN  /\ e.ok => Get(kind, e.v, def) = Get(kind, val, def)
      /\ e.ok => GetSlice(kind, e.v) = GetSlice(kind, val)
      /\ ~e.ok => ~Get(kind, val, def).ok

(* A test that hands a provider a dict.Dict instead of an env.Dict sees the  *)
(* same options, as long as the dict.Dict takes them.                        *)
DictsAgree(kind, val, def) ==
  /\ (PlainGet(kind, val, def).ok /\ val.type # "string" /\ (val # Absent \/ def # {})) =>
        Get(kind, val, def) = PlainGet(kind, val, def)
  /\ PlainGetSlice(kind, val).ok => GetSlice(kind, val) = PlainGetSlice(kind, val)
  /\ (kind = "string" /\ val.type = "string" /\ ~HasVar(val.v)) =>
        Get(kind, val, def) = PlainGet(kind, val, def)

OptionsSound(kind, val, def) ==
  /\ NeverDefaulted(kind, val, def)
  /\ TableFound(val)
  /\ ReadOnce(kind, val, def)
  /\ DictsAgree(kind, val, def)
=============================================================================
