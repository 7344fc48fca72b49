------------------------------- MODULE SqlText -------------------------------
(***************************************************************************)
(* How the SQL providers turn the statement of a layer into the one the    *)
(* database prepares: the tokens tegola knows (!BBOX!, !ZOOM!, ...) are    *)
(* filled in, the parameters of a map (provider/query_parameter*.go) become*)
(* positional arguments, and an mvt provider joins the statements of the   *)
(* layers of a tile into one.                                              *)
(*                                                                         *)
(* A statement is a sequence of words: text, tokens, the question marks of *)
(* a parameter's SQL, the values filled in for a token and the positional  *)
(* arguments $1, $2, ...                                                   *)
(***************************************************************************)
EXTENDS Integers, Sequences, SequencesExt, TLC

Text(t)  == <<"text", t>>
Token(n) == <<"token", n>>
Filled(n)== <<"filled", n>>
Arg(k)   == <<"arg", k>>
Mark     == <<"text", "?">>

IsToken(w) == w[1] = "token"

\* the names of tokens that are not in upper case, and what ToUpper makes of them
LowerNames == [bbox |-> "BBOX", zoom |-> "ZOOM", p |-> "P", q |-> "Q"]
UpperName(n) == IF n \in DOMAIN LowerNames THEN LowerNames[n] ELSE n

\* the tokens tegola fills in itself: those of config.go that a model needs
Builtin == {"BBOX", "ZOOM", "ID_FIELD"}

ReplaceWord(sql, w, by) ==
  FlattenSeq([i \in DOMAIN sql |-> IF sql[i] = w THEN by ELSE <<sql[i]>>])

UppercaseTokens(sql) ==
  [i \in DOMAIN sql |-> IF IsToken(sql[i]) THEN Token(UpperName(sql[i][2])) ELSE sql[i]]

(* replaceTokens: the built-in tokens get the values of the tile and the     *)
(* layer, any other token stays.                                             *)
ReplaceTokens(sql) ==
  LET upper == UppercaseTokens(sql)
  IN  [i \in DOMAIN upper |->
         IF IsToken(upper[i]) /\ upper[i][2] \in Builtin THEN Filled(upper[i][2])
         ELSE upper[i]]

-----------------------------------------------------------------------------
(* The parameters of a map.                                                   *)

\* ParamTypeDecoders, for the raw values of a model
Decodes(type, raw) ==
  \/ type = "string"
  \/ type = "int" /\ raw \in {"1", "2"}

\* Parse upper-cases a token and lets a missing sql be the bare value
Normalize(p) ==
  [p EXCEPT !.token = UpperName(@), !.sql = IF @ = <<>> THEN <<Mark>> ELSE @]

NoValue == "none"
Value(p, sql, value) == [token |-> p.token, sql |-> sql, value |-> value]

\* ToValue and ToDefaultValue: the set of the value, empty when there is an error
ToValue(p, raw) ==
  IF Decodes(p.type, raw) THEN {Value(p, p.sql, raw)} ELSE {}

ToDefaultValue(p) ==
  IF p.defaultValue # "" THEN ToValue(p, p.defaultValue)
  ELSE IF p.defaultSQL # <<>> THEN {Value(p, p.defaultSQL, NoValue)}
  ELSE {}

\* the values a set of normalized parameters gives its tokens
ByToken(values) ==
  [t \in {v.token : v \in values} |-> CHOOSE v \in values : v.token = t]

(* extractQueryParamValues: the defaults of every map that draws the layer;  *)
(* of two maps with the same token the later one counts.                     *)
DefaultsOf(maps, layer) ==
  FoldLeft(LAMBDA result, m :
             IF layer \in m.layers
             THEN FoldLeft(LAMBDA r, p : ByToken(ToDefaultValue(p)) @@ r, result, m.params)
             ELSE result,
           <<>>, maps)

\* what a token is replaced by, from its first occurrence on
Cached(cache, token, final) ==
  [t \in DOMAIN cache \cup {token} |-> IF t = token THEN final ELSE cache[t]]

\* mutant: the number of an argument is taken before it is appended
Bug_ReplaceParam(params, acc, token) ==
  IF token \in DOMAIN acc.cache
  THEN [acc EXCEPT !.sql = ReplaceWord(@, Token(token), acc.cache[token])]
  ELSE IF token \notin DOMAIN params THEN acc
  ELSE LET p     == params[token]
           args  == Append(acc.args, p.value)
           final == ReplaceWord(p.sql, Mark, <<Arg(Len(acc.args))>>)
       IN  [sql   |-> ReplaceWord(acc.sql, Token(token), final),
            args  |-> args,
            cache |-> Cached(acc.cache, token, final)]

(* ReplaceParams: the tokens in the order of the statement, each replaced    *)
(* everywhere when its first occurrence is met.  All the question marks of a *)
(* parameter stand for one argument.                                         *)
ReplaceParam(params, acc, token) ==
  IF token \in DOMAIN acc.cache
  THEN [acc EXCEPT !.sql = ReplaceWord(@, Token(token), acc.cache[token])]
  ELSE IF token \notin DOMAIN params THEN acc
  ELSE LET p     == params[token]
           args  == IF \E i \in DOMAIN p.sql : p.sql[i] = Mark
                    THEN Append(acc.args, p.value) ELSE acc.args
           final == ReplaceWord(p.sql, Mark, <<Arg(Len(args))>>)
       IN  [sql   |-> ReplaceWord(acc.sql, Token(token), final),
            args  |-> args,
            cache |-> Cached(acc.cache, token, final)]

ReplaceParams(params, sql, args) ==
  LET result == FoldLeft(LAMBDA acc, w : IF IsToken(w) THEN ReplaceParam(params, acc, w[2]) ELSE acc,
                         [sql |-> sql, args |-> args, cache |-> <<>>], sql)
  IN  [sql |-> result.sql, args |-> result.args]

(* The one statement of an mvt tile (MVTForLayers of PostGIS): every layer   *)
(* adds its arguments to those of the layers before it.                      *)
MVTStatement(params, sqls) ==
  FoldLeft(LAMBDA acc, sql :
             LET one == ReplaceParams(params, ReplaceTokens(sql), acc.args)
             IN  [sql |-> acc.sql \o one.sql, args |-> one.args],
           [sql |-> <<>>, args |-> <<>>], sqls)

-----------------------------------------------------------------------------
\* what the database computes with: the arguments in their places
Bind(st) ==
  [i \in DOMAIN st.sql |->
     IF st.sql[i][1] # "arg" THEN st.sql[i]
     ELSE IF st.sql[i][2] \in DOMAIN st.args THEN <<"value", st.args[st.sql[i][2]]>>
     ELSE <<"unbound", st.sql[i][2]>>]

\* the statement with every parameter's value written where its token stood
Intended(params, sql) ==
  FlattenSeq([i \in DOMAIN sql |->
    IF IsToken(sql[i]) /\ sql[i][2] \in DOMAIN params
    THEN ReplaceWord(params[sql[i][2]].sql, Mark, <<<<"value", params[sql[i][2]].value>>>>)
    ELSE <<sql[i]>>])

(* Whatever parameters a map has and however often the layers of a tile use  *)
(* them, the joined statement of MVTForLayers computes with the value of     *)
(* each parameter exactly where the layer named it (ReplaceParams, which     *)
(* numbers the arguments over all layers).                                   *)
StatementBound(params, sqls) ==
  Bind(MVTStatement(params, sqls)) =
    FlattenSeq([i \in DOMAIN sqls |-> Intended(params, ReplaceTokens(sqls[i]))])
=============================================================================
