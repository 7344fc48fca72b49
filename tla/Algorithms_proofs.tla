-------------------------- MODULE Algorithms_proofs --------------------------
(***************************************************************************)
(* The pure algorithms for every input: what the runs compare with a       *)
(* reference definition over small inputs.  Induction is over the least    *)
(* counterexample (NatMin); a fold is reasoned about by the sequence of its *)
(* partial results (Folded).                                               *)
(***************************************************************************)
EXTENDS Algorithms, SequencesExt, FiniteSets, TLAPS, WellFoundedInduction,
        NaturalsInduction, FiniteSetTheorems, SequenceTheorems

-----------------------------------------------------------------------------
(* Induction and folds.                                                       *)

(* A set of numbers that is not empty has a least element: the form of        *)
(* induction of the proofs below.                                             *)
LEMMA NatMin ==
  ASSUME NEW T, T \subseteq Nat, T # {}
  PROVE  \E n \in T : \A m \in T : n <= m
<1> DEFINE R == OpToRel(<, Nat)
<1>1. IsWellFoundedOn(R, Nat)
  BY NatLessThanWellFounded
<1>2. \A x, y \in Nat : x < y => <<x, y>> \in R
  BY DEF OpToRel
<1> HIDE DEF R
<1>3. PICK x \in T : \A y \in T : ~(<<y, x>> \in R)
  BY <1>1, WFMin
<1>4. \A y \in T : ~(y < x)
  BY <1>2, <1>3
<1> QED
  BY <1>3, <1>4

(* A condition that holds at first and that each step up to n preserves       *)
(* holds of all of 0..n.                                                      *)
LEMMA Steps ==
  ASSUME NEW n \in Nat, NEW Good, 0 \in Good,
         \A i \in 1..n : i - 1 \in Good => i \in Good
  PROVE  \A i \in 0..n : i \in Good
<1> SUFFICES ASSUME (0..n) \ Good # {} PROVE FALSE
  OBVIOUS
<1>1. (0..n) \ Good \subseteq Nat
  OBVIOUS
<1>2. PICK m \in (0..n) \ Good : \A k \in (0..n) \ Good : m <= k
  BY <1>1, NatMin
<1>3. m \in 1..n /\ m - 1 \in 0..n /\ ~(m <= m - 1)
  BY <1>2
<1>4. m - 1 \in Good
  BY <1>2, <1>3
<1> QED
  BY <1>2, <1>3, <1>4

(* The largest of some numbers up to n, which the folds of the library take   *)
(* next.                                                                      *)
LEMMA MaxIn ==
  ASSUME NEW n \in Nat, NEW T, T \subseteq 1..n, T # {}
  PROVE  Max(T) \in T /\ \A t \in T : t <= Max(T)
<1> DEFINE U == {m \in Nat : \A t \in T : t <= m}
<1>1. U \subseteq Nat /\ n \in U
  OBVIOUS
<1>2. PICK m \in U : \A k \in U : m <= k
  <2> HIDE DEF U
  <2> QED BY <1>1, NatMin
<1>3. m \in T
  <2>1. SUFFICES ASSUME m \notin T PROVE FALSE
    OBVIOUS
  <2>2. m \in Nat /\ \A t \in T : t <= m
    BY <1>2
  <2>3. PICK t \in T : TRUE
    OBVIOUS
  <2>4. t \in Nat /\ 1 <= t /\ t <= m
    BY <2>2
  <2>5. m - 1 \in Nat /\ \A u \in T : u <= m - 1
    BY <2>1, <2>2, <2>4
  <2>6. m <= m - 1
    BY <1>2, <2>5
  <2> QED BY <2>2, <2>6
<1>4. \E x \in T : \A y \in T : x >= y
  BY <1>2, <1>3
<1> QED
  BY <1>4 DEF Max

(* v is what op makes of base and the elements of s, one after the other: r   *)
(* holds the partial results.                                                 *)
Folded(op(_, _), base, s, v) ==
  \E r : /\ r[0] = base
         /\ \A n \in 1..Len(s) : r[n] = op(r[n - 1], s[n])
         /\ v = r[Len(s)]

(* What FoldLeft of the community modules computes.                           *)
LEMMA FoldLeftFolds ==
  ASSUME NEW op(_, _), NEW base, NEW S, NEW s \in Seq(S)
  PROVE  Folded(op, base, s, FoldLeft(op, base, s))
<1> DEFINE D == 1..Len(s)
           W == SUBSET D
           R == StrictSubsetOrdering(D)
           Def(g, T) == IF T = {} THEN base ELSE op(g[T \ {Max(T)}], s[Max(T)])
           f == CHOOSE g : g = [T \in W |-> Def(g, T)]
<1>1. Len(s) \in Nat /\ DOMAIN s = D
  OBVIOUS
<1>2. FoldLeft(op, base, s) = f[D]
  BY <1>1 DEF FoldLeft, MapThenFoldSet
<1>3. OpDefinesFcn(f, W, Def)
  BY DEF OpDefinesFcn
<1>4. IsWellFoundedOn(R, W)
  <2>1. IsFiniteSet(D)
    BY <1>1, FS_Interval
  <2> QED
    BY <2>1, FS_StrictSubsetOrderingWellFounded, FS_FiniteSubsetsOfFinite
<1>5. WFDefOn(R, W, Def)
  <2> SUFFICES ASSUME NEW g, NEW h, NEW T \in W, \A U \in SetLessThan(T, R, W) : g[U] = h[U]
               PROVE  Def(g, T) = Def(h, T)
    BY DEF WFDefOn
  <2>1. CASE T = {}
    BY <2>1
  <2>2. CASE T # {}
    <3>1. Max(T) \in T
      BY <1>1, <2>2, MaxIn
    <3>2. T \ {Max(T)} \in SetLessThan(T, R, W)
      BY <3>1 DEF SetLessThan, StrictSubsetOrdering
    <3> QED
      BY <2>2, <3>2
  <2> QED BY <2>1, <2>2
<1> HIDE DEF f
<1>6. WFInductiveDefines(f, W, Def)
  <2> HIDE DEF Def, R, W
  <2> QED BY <1>3, <1>4, <1>5, WFInductiveDef
<1>7. f = [T \in W |-> Def(f, T)]
  BY <1>6 DEF WFInductiveDefines
<1> DEFINE r == [n \in 0..Len(s) |-> f[1..n]]
<1>8. r[0] = base
  <2>1. 1..0 = {} /\ {} \in W
    OBVIOUS
  <2> QED BY <1>1, <1>7, <2>1
<1>9. ASSUME NEW n \in 1..Len(s) PROVE r[n] = op(r[n - 1], s[n])
  <2>1. n \in Nat /\ n \in 1..n /\ 1..n \subseteq D
    BY <1>1
  <2>2. Max(1..n) = n
    <3>1. Max(1..n) \in 1..n /\ n <= Max(1..n)
      BY <2>1, MaxIn
    <3> QED BY <2>1, <3>1
  <2>3. (1..n) \ {n} = 1..(n - 1)
    BY <2>1
  <2>4. f[1..n] = op(f[1..(n - 1)], s[n])
    BY <1>7, <2>1, <2>2, <2>3
  <2> QED BY <1>1, <2>4
<1>10. FoldLeft(op, base, s) = r[Len(s)]
  BY <1>1, <1>2
<1> HIDE DEF r
<1> QED
  BY <1>8, <1>9, <1>10 DEF Folded

-----------------------------------------------------------------------------
(* Concatenations with sequences that are written out.                       *)
LEMMA Prepend ==
  ASSUME NEW S, NEW a \in S, NEW s \in Seq(S), NEW t \in Seq(S),
         Len(t) = Len(s) + 1, t[1] = a, \A i \in 1..Len(s) : t[i + 1] = s[i]
  PROVE  <<a>> \o s = t
<1> DEFINE one == <<a>>
<1>1. one \in Seq(S) /\ Len(one) = 1 /\ one[1] = a
  OBVIOUS
<1> HIDE DEF one
<1>2. /\ one \o s \in Seq(S) /\ Len(one \o s) = Len(one) + Len(s)
      /\ \A i \in 1..(Len(one) + Len(s)) :
           (one \o s)[i] = IF i <= Len(one) THEN one[i] ELSE s[i - Len(one)]
  BY <1>1, ConcatProperties
<1>3. ASSUME NEW i \in 1..(Len(s) + 1) PROVE (one \o s)[i] = t[i]
  <2>1. (one \o s)[i] = IF i <= 1 THEN one[i] ELSE s[i - 1]
    BY <1>1, <1>2
  <2>2. CASE i = 1
    BY <1>1, <2>1, <2>2
  <2>3. CASE i # 1
    <3>1. i - 1 \in 1..Len(s) /\ (i - 1) + 1 = i /\ ~(i <= 1)
      BY <2>3
    <3> QED
      BY <2>1, <3>1
  <2> QED
    BY <2>2, <2>3
<1>4. one \o s = t
  BY <1>1, <1>2, <1>3, SeqEqual
<1> QED
  BY <1>4 DEF one

LEMMA ConsOne ==
  ASSUME NEW a, NEW b
  PROVE  <<a>> \o <<b>> = <<a, b>>
<1> DEFINE s == <<b>>  t == <<a, b>>  S == {a, b}
<1>1. s \in Seq(S) /\ Len(s) = 1 /\ s[1] = b
  OBVIOUS
<1>2. /\ t \in Seq(S) /\ Len(t) = 2 /\ t[1] = a /\ a \in S
      /\ t[1 + 1] = b
  OBVIOUS
<1> HIDE DEF s, t, S
<1>3. \A i \in 1..Len(s) : i = 1
  BY <1>1
<1>4. \A i \in 1..Len(s) : t[i + 1] = s[i]
  BY <1>1, <1>2, <1>3
<1>5. s \in Seq(S) /\ t \in Seq(S) /\ a \in S /\ t[1] = a /\ Len(t) = Len(s) + 1
  BY <1>1, <1>2
<1>6. <<a>> \o s = t
  BY <1>4, <1>5, Prepend
<1> QED
  BY <1>6 DEF s, t

LEMMA ConsThree ==
  ASSUME NEW a, NEW b, NEW c, NEW d
  PROVE  <<a>> \o <<b, c, d>> = <<a, b, c, d>>
<1> DEFINE s == <<b, c, d>>  t == <<a, b, c, d>>  S == {a, b, c, d}
<1>1. s \in Seq(S) /\ Len(s) = 3 /\ s[1] = b /\ s[2] = c /\ s[3] = d
  OBVIOUS
<1>2. /\ t \in Seq(S) /\ Len(t) = 4 /\ t[1] = a /\ a \in S
      /\ t[1 + 1] = b /\ t[2 + 1] = c /\ t[3 + 1] = d
  OBVIOUS
<1> HIDE DEF s, t, S
<1>3. \A i \in 1..Len(s) : i = 1 \/ i = 2 \/ i = 3
  BY <1>1
<1>4. \A i \in 1..Len(s) : t[i + 1] = s[i]
  BY <1>1, <1>2, <1>3
<1>5. s \in Seq(S) /\ t \in Seq(S) /\ a \in S /\ t[1] = a /\ Len(t) = Len(s) + 1
  BY <1>1, <1>2
<1>6. <<a>> \o s = t
  BY <1>4, <1>5, Prepend
<1> QED
  BY <1>6 DEF s, t

LEMMA ConsFour ==
  ASSUME NEW a, NEW b, NEW c, NEW d, NEW e
  PROVE  <<a>> \o <<b, c, d, e>> = <<a, b, c, d, e>>
<1> DEFINE s == <<b, c, d, e>>  t == <<a, b, c, d, e>>  S == {a, b, c, d, e}
<1>1. s \in Seq(S) /\ Len(s) = 4 /\ s[1] = b /\ s[2] = c /\ s[3] = d /\ s[4] = e
  OBVIOUS
<1>2. /\ t \in Seq(S) /\ Len(t) = 5 /\ t[1] = a /\ a \in S
      /\ t[1 + 1] = b /\ t[2 + 1] = c /\ t[3 + 1] = d /\ t[4 + 1] = e
  OBVIOUS
<1> HIDE DEF s, t, S
<1>3. \A i \in 1..Len(s) : i = 1 \/ i = 2 \/ i = 3 \/ i = 4
  BY <1>1
<1>4. \A i \in 1..Len(s) : t[i + 1] = s[i]
  BY <1>1, <1>2, <1>3
<1>5. s \in Seq(S) /\ t \in Seq(S) /\ a \in S /\ t[1] = a /\ Len(t) = Len(s) + 1
  BY <1>1, <1>2
<1>6. <<a>> \o s = t
  BY <1>4, <1>5, Prepend
<1> QED
  BY <1>6 DEF s, t

LEMMA ConsFive ==
  ASSUME NEW a, NEW b, NEW c, NEW d, NEW e, NEW f
  PROVE  <<a>> \o <<b, c, d, e, f>> = <<a, b, c, d, e, f>>
<1> DEFINE s == <<b, c, d, e, f>>  t == <<a, b, c, d, e, f>>  S == {a, b, c, d, e, f}
<1>1. s \in Seq(S) /\ Len(s) = 5 /\ s[1] = b /\ s[2] = c /\ s[3] = d /\ s[4] = e /\ s[5] = f
  OBVIOUS
<1>2. /\ t \in Seq(S) /\ Len(t) = 6 /\ t[1] = a /\ a \in S
      /\ t[1 + 1] = b /\ t[2 + 1] = c /\ t[3 + 1] = d /\ t[4 + 1] = e /\ t[5 + 1] = f
  OBVIOUS
<1> HIDE DEF s, t, S
<1>3. \A i \in 1..Len(s) : i = 1 \/ i = 2 \/ i = 3 \/ i = 4 \/ i = 5
  BY <1>1
<1>4. \A i \in 1..Len(s) : t[i + 1] = s[i]
  BY <1>1, <1>2, <1>3
<1>5. s \in Seq(S) /\ t \in Seq(S) /\ a \in S /\ t[1] = a /\ Len(t) = Len(s) + 1
  BY <1>1, <1>2
<1>6. <<a>> \o s = t
  BY <1>4, <1>5, Prepend
<1> QED
  BY <1>6 DEF s, t

-----------------------------------------------------------------------------
(* The configuration file.                                                    *)
\* what Parse leaves of a configuration
ParsedFrom(p, c) ==
  /\ p.providers = c.providers
  /\ DOMAIN p.maps = DOMAIN c.maps
  /\ \A k \in DOMAIN c.maps :
       /\ p.maps[k].name = c.maps[k].name
       /\ p.maps[k].layers = c.maps[k].layers
       /\ DOMAIN p.maps[k].params = DOMAIN c.maps[k].params
       /\ \A i \in DOMAIN c.maps[k].params :
            p.maps[k].params[i].token = Upper[c.maps[k].params[i].token]

LEMMA ParsedConfig ==
  ASSUME NEW Text, NEW c \in Configs(Text)
  PROVE  ParsedFrom(Cfg!Parse(c), c)
<1> DEFINE p == Cfg!Parse(c)
<1>1. c.maps \in Seq(Maps(Text))
  BY DEF Configs
<1>2. p.providers = c.providers /\ p.maps = [k \in DOMAIN c.maps |-> Cfg!ParseMap(c, c.maps[k])]
  BY DEF Cfg!Parse, Configs
<1> HIDE DEF p
<1>3. ASSUME NEW k \in DOMAIN c.maps
      PROVE  /\ p.maps[k].name = c.maps[k].name
             /\ p.maps[k].layers = c.maps[k].layers
             /\ DOMAIN p.maps[k].params = DOMAIN c.maps[k].params
             /\ \A i \in DOMAIN c.maps[k].params :
                  p.maps[k].params[i].token = Upper[c.maps[k].params[i].token]
  <2> DEFINE m == c.maps[k]  n == p.maps[k]
  <2>1. m \in Maps(Text)
    BY <1>1
  <2>2. n = Cfg!ParseMap(c, m)
    BY <1>2
  <2> HIDE DEF m, n
  <2>3. /\ n.name = m.name /\ n.layers = m.layers
        /\ n.params = [i \in DOMAIN m.params |-> Cfg!NormalizeParam(m.params[i])]
    BY <2>1, <2>2 DEF Cfg!ParseMap, Maps
  <2>4. ASSUME NEW i \in DOMAIN m.params
        PROVE  n.params[i].token = Upper[m.params[i].token]
    <3>1. m.params[i] \in Params(Text)
      BY <2>1 DEF Maps
    <3>2. n.params[i] = Cfg!NormalizeParam(m.params[i])
      BY <2>3
    <3> QED
      BY <3>1, <3>2 DEF Cfg!NormalizeParam, Params
  <2> QED
    BY <2>3, <2>4 DEF m, n
<1>4. ParsedFrom(p, c)
  BY <1>2, <1>3 DEF ParsedFrom
<1> QED
  BY <1>4 DEF p

(* The tokens of an accepted configuration are apart: what Parse normalises   *)
(* cannot collide after it was checked (ValidateAndRegisterParams).           *)
THEOREM TokensAreApart ==
  ASSUME NEW Text, NEW c \in Configs(Text)
  PROVE  Cfg!TokensApart(c)
<1> DEFINE p == Cfg!Parse(c)
           At == UNION {{k} \X DOMAIN c.maps[k].params : k \in DOMAIN c.maps}
           T(q) == Upper[c.maps[q[1]].params[q[2]].token]
<1>1. SUFFICES ASSUME Cfg!Validate(p)
               PROVE  \A q \in At : T(q) \notin ReservedTokens /\ \A r \in At : q # r => T(q) # T(r)
  BY DEF Cfg!TokensApart
<1>2. \A k \in DOMAIN p.maps : \A i \in DOMAIN p.maps[k].params : Cfg!ParamAccepted(p, k, i)
  BY <1>1 DEF Cfg!Validate
<1>3. ParsedFrom(p, c)
  BY ParsedConfig
<1>4. c.maps \in Seq(Maps(Text))
  BY DEF Configs
<1> HIDE DEF p
<1>5. ASSUME NEW k \in DOMAIN c.maps PROVE c.maps[k].params \in Seq(Params(Text))
  <2>1. c.maps[k] \in Maps(Text)
    BY <1>4
  <2> QED
    BY <2>1 DEF Maps
<1>6. ASSUME NEW q \in At
      PROVE  /\ q = <<q[1], q[2]>> /\ q[1] \in DOMAIN c.maps /\ q[2] \in DOMAIN c.maps[q[1]].params
             /\ q[1] \in Nat \ {0} /\ q[2] \in Nat \ {0}
             /\ T(q) = p.maps[q[1]].params[q[2]].token
             /\ Cfg!ParamAccepted(p, q[1], q[2])
  <2>1. q = <<q[1], q[2]>> /\ q[1] \in DOMAIN c.maps /\ q[2] \in DOMAIN c.maps[q[1]].params
    OBVIOUS
  <2>2. q[1] \in Nat \ {0} /\ q[2] \in Nat \ {0}
    BY <2>1, <1>4, <1>5
  <2> QED
    BY <2>1, <2>2, <1>2, <1>3 DEF ParsedFrom
<1> HIDE DEF At
<1>7. ASSUME NEW q \in At PROVE T(q) \notin Cfg!ReservedAt(p, q[1])
  <2>1. Cfg!ParamAccepted(p, q[1], q[2]) /\ T(q) = p.maps[q[1]].params[q[2]].token
    BY <1>6
  <2> HIDE DEF T
  <2> QED
    BY <2>1 DEF Cfg!ParamAccepted
<1>8. ASSUME NEW q \in At, NEW r \in At, q[1] < r[1] PROVE T(q) # T(r)
  <2> HIDE DEF T
  <2>1. /\ q[1] \in 1..(r[1] - 1) /\ q[2] \in DOMAIN p.maps[q[1]].params
        /\ T(q) = p.maps[q[1]].params[q[2]].token
    <3>1. /\ q[1] \in DOMAIN c.maps /\ q[2] \in DOMAIN c.maps[q[1]].params
          /\ q[1] \in Nat \ {0} /\ T(q) = p.maps[q[1]].params[q[2]].token
      BY <1>6
    <3>2. r[1] \in Nat
      BY <1>6
    <3>3. q[1] \in 1..(r[1] - 1)
      BY <1>8, <3>1, <3>2
    <3> QED
      BY <1>3, <3>1, <3>3 DEF ParsedFrom
  <2>2. T(r) \notin Cfg!ReservedAt(p, r[1])
    BY <1>7
  <2>3. T(q) \in Cfg!TokensOf(p.maps[q[1]])
    BY <2>1 DEF Cfg!TokensOf
  <2>4. T(q) \in Cfg!ReservedAt(p, r[1])
    BY <2>1, <2>3 DEF Cfg!ReservedAt
  <2> QED
    BY <2>2, <2>4
<1>9. ASSUME NEW q \in At, NEW r \in At, q[1] = r[1], q[2] < r[2] PROVE T(q) # T(r)
  <2> HIDE DEF T
  <2>1. /\ q[2] \in Nat \ {0} /\ T(q) = p.maps[q[1]].params[q[2]].token
    BY <1>6
  <2>2. /\ Cfg!ParamAccepted(p, r[1], r[2]) /\ r[2] \in Nat
        /\ T(r) = p.maps[r[1]].params[r[2]].token
    BY <1>6
  <2>3. q[2] \in 1..(r[2] - 1)
    BY <1>9, <2>1, <2>2
  <2>4. p.maps[r[1]].params[q[2]].token # p.maps[r[1]].params[r[2]].token
    BY <2>2, <2>3 DEF Cfg!ParamAccepted
  <2> QED
    BY <1>9, <2>1, <2>2, <2>4
<1>10. ASSUME NEW q \in At PROVE T(q) \notin ReservedTokens
  BY <1>7 DEF Cfg!ReservedAt
<1>11. ASSUME NEW q \in At, NEW r \in At, q # r PROVE T(q) # T(r)
  <2> HIDE DEF T
  <2>1. q = <<q[1], q[2]>> /\ q[1] \in Nat /\ q[2] \in Nat
    BY <1>6
  <2>2. r = <<r[1], r[2]>> /\ r[1] \in Nat /\ r[2] \in Nat
    BY <1>6
  <2>3. q[1] < r[1] \/ r[1] < q[1] \/ (q[1] = r[1] /\ (q[2] < r[2] \/ r[2] < q[2]))
    BY <1>11, <2>1, <2>2
  <2> QED
    BY <2>3, <1>8, <1>9
<1> QED
  BY <1>10, <1>11

\* the kind of a provider is the one its driver registered as
LEMMA RegisteredKinds ==
  ASSUME OneKind, NEW Text, NEW ps \in Seq([name : Text, type : Text]),
         \A i \in DOMAIN ps : Cfg!ProviderAccepted(ps, i)
  PROVE  /\ DOMAIN Cfg!Registered(ps) = Cfg!Names(ps)
         /\ \A n \in Cfg!Names(ps) :
              n # None /\ (Cfg!Registered(ps)[n] = "mvt" <=> Cfg!IsMvt(ps, n))
<1>1. Cfg!Registered(ps) =
        [n \in Cfg!Names(ps) |-> Cfg!For(ps[CHOOSE i \in DOMAIN ps : ps[i].name = n].type)]
  BY DEF Cfg!Registered
<1>2. ASSUME NEW n \in Cfg!Names(ps)
      PROVE  n # None /\ (Cfg!Registered(ps)[n] = "mvt" <=> Cfg!IsMvt(ps, n))
  <2> DEFINE i == CHOOSE j \in DOMAIN ps : ps[j].name = n
  <2>1. i \in DOMAIN ps /\ ps[i].name = n
    BY DEF Cfg!Names
  <2>2. Cfg!Registered(ps)[n] = Cfg!For(ps[i].type)
    BY <1>1
  <2> HIDE DEF i
  <2>3. i \in Nat /\ \A j \in DOMAIN ps : j \in Nat /\ 1 <= j /\ 1 <= i
    BY <2>1
  <2>4. ASSUME NEW j \in DOMAIN ps, ps[j].name = n PROVE j = i
    <3>1. j < i => j \in 1..(i - 1)
      BY <2>3
    <3>2. i < j => i \in 1..(j - 1)
      BY <2>3
    <3>3. ~(j < i)
      BY <2>1, <2>4, <3>1 DEF Cfg!ProviderAccepted
    <3>4. ~(i < j)
      BY <2>1, <2>4, <3>2 DEF Cfg!ProviderAccepted
    <3> QED
      BY <2>3, <3>3, <3>4
  <2>5. Cfg!IsMvt(ps, n) <=> ps[i].type \in MvtDrivers
    BY <2>1, <2>4 DEF Cfg!IsMvt
  <2>6. ps[i].type \in StdDrivers \cup MvtDrivers /\ n # None
    BY <2>1 DEF Cfg!ProviderAccepted, Cfg!Drivers
  <2> QED
    BY <2>2, <2>5, <2>6 DEF Cfg!For, OneKind
<1> QED
  BY <1>1, <1>2

\* the layers s of a map as Validate accepts them, with the providers provs
Accepted(provs, s) ==
  \A i \in 1..Len(s) :
    /\ Len(s[i].path) = 2
    /\ s[i].path[1] \in DOMAIN provs /\ s[i].path[1] # None
    /\ (\E j \in 1..i : provs[s[j].path[1]] = "mvt") => s[i].path[1] = s[1].path[1]

Has(l) == l.path[2] \in LayersOf[l.path[1]]

MvtOf(provs, s, k) == IF k > 0 /\ provs[s[1].path[1]] = "mvt" THEN s[1].path[1] ELSE None
AtlasLayers(s, k)  == [i \in 1..k |-> Cfg!AtlasLayer(s[i])]

\* of the first n layers, k are registered: all, or those before the first one
\* that its provider does not have
Partial(provs, s, acc, n, k) ==
  /\ acc = [ok |-> acc.ok, mvt |-> MvtOf(provs, s, k), layers |-> AtlasLayers(s, k)]
  /\ acc.ok \in BOOLEAN /\ (acc.ok <=> k = n)
  /\ \A i \in 1..k : Has(s[i])
  /\ k < n => ~Has(s[k + 1])

LEMMA LayerStep ==
  ASSUME NEW provs, NEW S, NEW s \in Seq(S), Accepted(provs, s), NEW acc,
         NEW n \in 1..Len(s), NEW k \in 0..(n - 1), Partial(provs, s, acc, n - 1, k)
  PROVE  \E h \in 0..n : Partial(provs, s, Cfg!RegisterLayer(provs, acc, s[n]), n, h)
<1> DEFINE l == s[n]  new == Cfg!RegisterLayer(provs, acc, s[n])
<1>1. n \in Nat /\ k \in Nat /\ Len(s) \in Nat
  OBVIOUS
<1>2. CASE ~acc.ok
  <2>1. new = acc
    BY <1>2 DEF Cfg!RegisterLayer
  <2>2. k < n - 1
    BY <1>1, <1>2 DEF Partial
  <2>3. Partial(provs, s, acc, n, k)
    BY <1>1, <1>2, <2>2 DEF Partial
  <2> QED
    BY <1>1, <2>1, <2>3
<1>3. CASE acc.ok
  <2>1. k = n - 1 /\ n \in 1..n /\ 1 \in 1..n
    BY <1>1, <1>3 DEF Partial
  <2>2. /\ acc = [ok |-> acc.ok, mvt |-> MvtOf(provs, s, k), layers |-> AtlasLayers(s, k)]
        /\ acc.mvt = MvtOf(provs, s, k) /\ acc.layers = AtlasLayers(s, k)
    BY DEF Partial
  <2>3. /\ Len(l.path) = 2 /\ l.path[1] \in DOMAIN provs /\ l.path[1] # None
        /\ (\E j \in 1..n : provs[s[j].path[1]] = "mvt") => l.path[1] = s[1].path[1]
    BY DEF Accepted
  <2>4. n = 1 => acc.layers = <<>>
    BY <2>1, <2>2 DEF AtlasLayers
  <2>5. ~Cfg!Refused(acc, provs, l.path[1])
    <3>1. CASE acc.mvt # None
      <4>1. provs[s[1].path[1]] = "mvt" /\ acc.mvt = s[1].path[1]
        BY <2>2, <3>1 DEF MvtOf
      <4>2. l.path[1] = s[1].path[1]
        BY <2>1, <2>3, <4>1
      <4> QED
        BY <3>1, <4>1, <4>2 DEF Cfg!Refused
    <3>2. CASE acc.mvt = None
      <4>1. SUFFICES ASSUME provs[l.path[1]] = "mvt" PROVE acc.layers = <<>>
        BY <2>3, <3>2 DEF Cfg!Refused
      <4>2. l.path[1] = s[1].path[1]
        BY <2>1, <2>3, <4>1
      <4>3. ~(k > 0)
        BY <2>2, <2>3, <3>2, <4>1, <4>2 DEF MvtOf
      <4> QED
        BY <1>1, <2>1, <2>4, <4>3
    <3> QED
      BY <3>1, <3>2
  <2>6. CASE ~Has(l)
    <3>1. new = [acc EXCEPT !.ok = FALSE]
      BY <1>3, <2>6 DEF Cfg!RegisterLayer, Has
    <3>2. new = [ok |-> FALSE, mvt |-> MvtOf(provs, s, k), layers |-> AtlasLayers(s, k)]
      BY <2>2, <3>1
    <3>3. k + 1 = n /\ k # n /\ k < n
      BY <1>1, <2>1
    <3> HIDE DEF new
    <3>4. Partial(provs, s, new, n, k)
      BY <2>6, <3>2, <3>3 DEF Partial
    <3> QED
      BY <1>1, <3>3, <3>4 DEF new
  <2>7. CASE Has(l)
    <3>1. new = [acc EXCEPT !.layers = Append(@, Cfg!AtlasLayer(l)),
                            !.mvt = IF provs[l.path[1]] = "mvt" THEN l.path[1] ELSE @]
      BY <1>3, <2>3, <2>5, <2>7 DEF Cfg!RegisterLayer, Has
    <3>2. new = [ok |-> acc.ok, mvt |-> IF provs[l.path[1]] = "mvt" THEN l.path[1] ELSE acc.mvt,
                 layers |-> Append(acc.layers, Cfg!AtlasLayer(l))]
      BY <2>2, <3>1
    <3>3. Append(acc.layers, Cfg!AtlasLayer(l)) = AtlasLayers(s, n)
      <4> DEFINE A(i) == Cfg!AtlasLayer(s[i])
      <4> HIDE DEF A
      <4>1. acc.layers = [i \in 1..k |-> A(i)] /\ AtlasLayers(s, n) = [i \in 1..n |-> A(i)]
        BY <2>2 DEF AtlasLayers, A
      <4>2. Append([i \in 1..k |-> A(i)], A(n)) = [i \in 1..n |-> A(i)]
        BY <1>1, <2>1
      <4> QED
        BY <4>1, <4>2 DEF A
    <3>4. (IF provs[l.path[1]] = "mvt" THEN l.path[1] ELSE acc.mvt) = MvtOf(provs, s, n)
      <4>1. CASE provs[l.path[1]] = "mvt"
        <5>1. l.path[1] = s[1].path[1]
          BY <2>1, <2>3, <4>1
        <5> QED
          BY <1>1, <4>1, <5>1 DEF MvtOf
      <4>2. CASE provs[l.path[1]] # "mvt"
        <5>1. CASE n = 1
          BY <2>1, <2>2, <4>2, <5>1 DEF MvtOf
        <5>2. CASE n # 1
          <6>1. k > 0 /\ n > 0
            BY <1>1, <2>1, <5>2
          <6> QED
            BY <2>2, <4>2, <6>1 DEF MvtOf
        <5> QED
          BY <5>1, <5>2
      <4> QED
        BY <4>1, <4>2
    <3>5. new = [ok |-> acc.ok, mvt |-> MvtOf(provs, s, n), layers |-> AtlasLayers(s, n)]
      BY <3>2, <3>3, <3>4
    <3>6. \A i \in 1..n : Has(s[i])
      <4>1. \A i \in 1..k : Has(s[i])
        BY DEF Partial
      <4>2. \A i \in 1..n : i \in 1..k \/ i = n
        BY <1>1, <2>1
      <4> QED
        BY <2>7, <4>1, <4>2
    <3> HIDE DEF new
    <3>7. Partial(provs, s, new, n, n)
      BY <1>1, <1>3, <3>5, <3>6 DEF Partial
    <3> QED
      BY <1>1, <3>7 DEF new
  <2> QED
    BY <2>6, <2>7
<1>4. acc.ok \in BOOLEAN
  BY DEF Partial
<1> QED
  BY <1>2, <1>3, <1>4

(* What the registration makes of the layers of an accepted map.              *)
LEMMA MapRegisters ==
  ASSUME NEW provs, NEW S, NEW m, m.layers \in Seq(S), Accepted(provs, m.layers)
  PROVE  \E k \in 0..Len(m.layers) :
           Partial(provs, m.layers, Cfg!RegisterMap(provs, m), Len(m.layers), k)
<1> DEFINE Op(acc, l) == Cfg!RegisterLayer(provs, acc, l)
           base == [ok |-> TRUE, mvt |-> None, layers |-> <<>>]
           s == m.layers
<1>1. Cfg!RegisterMap(provs, m) = FoldLeft(Op, base, s)
  BY DEF Cfg!RegisterMap, Cfg!FoldLeft, FoldLeft, Cfg!MapThenFoldSet, MapThenFoldSet, Cfg!Max, Max
<1>2. Folded(Op, base, s, FoldLeft(Op, base, s))
  <2> HIDE DEF Op, base, s
  <2> QED BY FoldLeftFolds DEF s
<1>3. PICK r : /\ r[0] = base
               /\ \A n \in 1..Len(s) : r[n] = Op(r[n - 1], s[n])
               /\ FoldLeft(Op, base, s) = r[Len(s)]
  BY <1>2 DEF Folded
<1> DEFINE Good == {n \in 0..Len(s) : \E k \in 0..n : Partial(provs, s, r[n], n, k)}
<1>4. Len(s) \in Nat
  OBVIOUS
<1>5. 0 \in Good
  <2>1. MvtOf(provs, s, 0) = None /\ AtlasLayers(s, 0) = <<>>
    BY DEF MvtOf, AtlasLayers
  <2>2. r[0] = [ok |-> TRUE, mvt |-> None, layers |-> <<>>]
    BY <1>3
  <2> HIDE DEF s
  <2>3. Partial(provs, s, [ok |-> TRUE, mvt |-> None, layers |-> <<>>], 0, 0)
    <3> DEFINE acc == [ok |-> TRUE, mvt |-> None, layers |-> <<>>]
    <3>1. acc = [ok |-> acc.ok, mvt |-> MvtOf(provs, s, 0), layers |-> AtlasLayers(s, 0)]
      BY <2>1
    <3>2. acc.ok = TRUE
      OBVIOUS
    <3> HIDE DEF acc
    <3>3. (\A i \in 1..0 : Has(s[i])) /\ ~(0 < 0)
      OBVIOUS
    <3>4. acc.ok \in BOOLEAN /\ (acc.ok <=> 0 = 0)
      BY <3>2
    <3>5. Partial(provs, s, acc, 0, 0)
      BY <3>1, <3>3, <3>4, Zenon DEF Partial
    <3> QED
      BY <3>5 DEF acc
  <2> QED
    BY <1>4, <2>2, <2>3
<1>6. ASSUME NEW n \in 1..Len(s), n - 1 \in Good PROVE n \in Good
  <2>1. PICK k \in 0..(n - 1) : Partial(provs, s, r[n - 1], n - 1, k)
    BY <1>6
  <2>2. r[n] = Cfg!RegisterLayer(provs, r[n - 1], s[n])
    BY <1>3
  <2>3. \E h \in 0..n : Partial(provs, s, r[n], n, h)
    BY <2>1, <2>2, LayerStep
  <2> QED
    BY <1>4, <2>3
<1>7. Len(s) \in Good
  <2> HIDE DEF Good
  <2>1. \A n \in 0..Len(s) : n \in Good
    BY <1>4, <1>5, <1>6, Steps
  <2> QED BY <1>4, <2>1
<1> QED
  BY <1>1, <1>3, <1>7

Provs(c)    == Cfg!Registered(Cfg!Parse(c).providers)
MapOf(c, k) == Cfg!Validated(Cfg!Parse(c).maps[k])
RegOf(c, k) == Cfg!RegisterMap(Provs(c), MapOf(c, k))

ZoomedLayers(Text) == [name : Text, path : Seq(Text), min : Nat, max : Nat \ {0}]

\* the default zooms are zooms, and the other parts of a layer stay
LEMMA DefaultZooms ==
  ASSUME Zooms, NEW Text, NEW l \in Layers(Text)
  PROVE  /\ Cfg!Defaulted(l) \in ZoomedLayers(Text)
         /\ Cfg!Defaulted(l).path = l.path /\ Cfg!Defaulted(l).name = l.name
<1> DEFINE min == IF l.min = None THEN 0 ELSE l.min
           max == IF l.max = None THEN MaxZ ELSE IF l.max = 0 THEN 1 ELSE l.max
<1>1. /\ l = [name |-> l.name, path |-> l.path, min |-> l.min, max |-> l.max]
      /\ l.name \in Text /\ l.path \in Seq(Text) /\ l.min \in Zoom /\ l.max \in Zoom
  BY DEF Layers
<1>2. Cfg!Defaulted(l) = [l EXCEPT !.min = min, !.max = max]
  BY DEF Cfg!Defaulted
<1>3. min \in Nat /\ max \in Nat \ {0}
  BY <1>1 DEF Zoom, Zooms
<1> HIDE DEF min, max
<1>4. Cfg!Defaulted(l) = [name |-> l.name, path |-> l.path, min |-> min, max |-> max]
  BY <1>1, <1>2
<1> QED
  BY <1>1, <1>3, <1>4 DEF ZoomedLayers

\* the layers of an accepted map, before they are registered
LEMMA AcceptedMap ==
  ASSUME OneKind, Zooms, NEW Text, NEW c \in Configs(Text), Cfg!Validate(Cfg!Parse(c)),
         NEW k \in DOMAIN Cfg!Parse(c).maps
  PROVE  /\ c.maps[k].layers \in Seq(Layers(Text))
         /\ Cfg!Parse(c).maps[k].layers = c.maps[k].layers
         /\ MapOf(c, k).layers \in Seq(ZoomedLayers(Text))
         /\ Len(MapOf(c, k).layers) = Len(c.maps[k].layers)
         /\ \A i \in 1..Len(c.maps[k].layers) :
              /\ MapOf(c, k).layers[i] = Cfg!Defaulted(c.maps[k].layers[i])
              /\ Cfg!LayerAccepted(Cfg!Parse(c), k, i)
         /\ Accepted(Provs(c), MapOf(c, k).layers)
<1> DEFINE p == Cfg!Parse(c)  ls == c.maps[k].layers  s == MapOf(c, k).layers
<1>1. ParsedFrom(p, c)
  BY ParsedConfig
<1>2. /\ \A i \in DOMAIN p.providers : Cfg!ProviderAccepted(p.providers, i)
      /\ \A i \in DOMAIN p.maps[k].layers : Cfg!LayerAccepted(p, k, i)
  BY DEF Cfg!Validate
<1>3. MapOf(c, k) = [p.maps[k] EXCEPT !.layers = [i \in DOMAIN p.maps[k].layers |->
                                                     Cfg!Defaulted(p.maps[k].layers[i])]]
  BY DEF MapOf, Cfg!Validated
<1>4. c.maps \in Seq(Maps(Text)) /\ c.providers \in Seq([name : Text, type : Text])
  BY DEF Configs
<1>5. "layers" \in DOMAIN p.maps[k]
  <2>1. k \in DOMAIN c.maps /\ p.maps = [h \in DOMAIN c.maps |-> Cfg!ParseMap(c, c.maps[h])]
    BY <1>1 DEF ParsedFrom, Cfg!Parse, Configs
  <2>2. c.maps[k] \in Maps(Text)
    BY <1>4, <2>1
  <2> QED
    BY <2>1, <2>2 DEF Cfg!ParseMap, Maps
<1> HIDE DEF p
<1>6. k \in DOMAIN c.maps /\ p.maps[k].layers = ls /\ p.providers = c.providers
  BY <1>1 DEF ParsedFrom, p
<1>7. ls \in Seq(Layers(Text))
  <2>1. c.maps[k] \in Maps(Text)
    BY <1>4, <1>6
  <2> QED
    BY <2>1 DEF Maps
<1>8. s = [i \in DOMAIN ls |-> Cfg!Defaulted(ls[i])]
  BY <1>3, <1>5, <1>6
<1> HIDE DEF s, ls
<1>9. /\ Len(ls) \in Nat /\ DOMAIN ls = 1..Len(ls)
      /\ \A i \in 1..Len(ls) : ls[i] \in Layers(Text)
  BY <1>7
<1>10. \A i \in 1..Len(ls) : s[i] \in ZoomedLayers(Text) /\ s[i].path = ls[i].path
  BY <1>8, <1>9, DefaultZooms
<1>11. s \in Seq(ZoomedLayers(Text)) /\ Len(s) = Len(ls)
  <2> DEFINE D(i) == Cfg!Defaulted(ls[i])
  <2>1. \A i \in 1..Len(ls) : D(i) \in ZoomedLayers(Text)
    BY <1>8, <1>9, <1>10
  <2>2. s = [i \in 1..Len(ls) |-> D(i)]
    BY <1>8, <1>9
  <2> HIDE DEF D
  <2> QED
    BY <1>9, <2>1, <2>2
<1>12. Accepted(Provs(c), s)
  <2>1. \A n \in Cfg!Names(c.providers) :
          n # None /\ (Provs(c)[n] = "mvt" <=> Cfg!IsMvt(c.providers, n))
    BY <1>2, <1>4, <1>6, RegisteredKinds DEF Provs, p
  <2>2. DOMAIN Provs(c) = Cfg!Names(c.providers)
    BY <1>2, <1>4, <1>6, RegisteredKinds DEF Provs, p
  <2>3. ASSUME NEW i \in 1..Len(ls)
        PROVE  Len(ls[i].path) = 2 /\ ls[i].path[1] \in Cfg!Names(c.providers)
    BY <1>2, <1>6, <1>9 DEF Cfg!LayerAccepted
  <2>4. ASSUME NEW i \in 1..Len(ls), NEW j \in 1..i, Provs(c)[s[j].path[1]] = "mvt"
        PROVE  s[i].path[1] = s[1].path[1]
    <3>1. j \in 1..Len(ls) /\ 1 \in 1..Len(ls)
      BY <1>9
    <3>2. Cfg!IsMvt(c.providers, ls[j].path[1])
      BY <1>10, <2>1, <2>3, <2>4, <3>1
    <3>3. Cfg!SameProvider(p, p.maps[k], i)
      BY <1>2, <1>6, <1>9 DEF Cfg!LayerAccepted
    <3>4. ls[i].path[1] = ls[1].path[1]
      BY <1>6, <3>2, <3>3 DEF Cfg!SameProvider
    <3> QED
      BY <1>10, <3>1, <3>4
  <2>5. ASSUME NEW i \in 1..Len(ls)
        PROVE  Len(s[i].path) = 2 /\ s[i].path[1] \in DOMAIN Provs(c) /\ s[i].path[1] # None
    BY <1>10, <2>1, <2>2, <2>3
  <2> QED
    BY <1>11, <2>4, <2>5 DEF Accepted
<1>13. \A i \in 1..Len(ls) : s[i] = Cfg!Defaulted(ls[i]) /\ Cfg!LayerAccepted(p, k, i)
  BY <1>2, <1>6, <1>8, <1>9
<1> QED
  BY <1>6, <1>7, <1>11, <1>12, <1>13 DEF s, ls, p

(* The registration takes what Validate accepts: they agree on the providers  *)
(* of every map, and an mvt provider draws its map alone (register.Maps,       *)
(* selectProvider).                                                            *)
THEOREM AcceptedIsRegistered ==
  ASSUME OneKind, Zooms, NEW Text, NEW c \in Configs(Text)
  PROVE  Cfg!AcceptedRegisters(c)
<1> SUFFICES ASSUME Cfg!Validate(Cfg!Parse(c)), NEW k \in DOMAIN Cfg!Parse(c).maps
             PROVE  /\ RegOf(c, k).ok <=> \A i \in DOMAIN MapOf(c, k).layers : Has(MapOf(c, k).layers[i])
                    /\ RegOf(c, k).mvt # None =>
                         \A i \in DOMAIN RegOf(c, k).layers : RegOf(c, k).layers[i].provider = RegOf(c, k).mvt
  BY DEF Cfg!AcceptedRegisters, RegOf, MapOf, Provs, Has
<1> DEFINE s == MapOf(c, k).layers  r == RegOf(c, k)
<1>1. s \in Seq(ZoomedLayers(Text)) /\ Accepted(Provs(c), s)
  BY AcceptedMap
<1>2. PICK n \in 0..Len(s) : Partial(Provs(c), s, r, Len(s), n)
  BY <1>1, MapRegisters DEF RegOf
<1> HIDE DEF s, r
<1>3. Len(s) \in Nat /\ DOMAIN s = 1..Len(s) /\ n \in Nat /\ n <= Len(s)
  BY <1>1
<1>4. r.ok <=> \A i \in DOMAIN s : Has(s[i])
  <2>1. CASE n = Len(s)
    BY <1>2, <1>3, <2>1 DEF Partial
  <2>2. CASE n # Len(s)
    <3>1. n < Len(s) /\ n + 1 \in 1..Len(s)
      <4>1. Len(s) \in Nat /\ n \in Nat /\ n <= Len(s)
        BY <1>3
      <4>2. n < Len(s) /\ n + 1 <= Len(s) /\ 1 <= n + 1
        BY <2>2, <4>1
      <4> QED
        BY <4>1, <4>2
    <3>2. ~Has(s[n + 1]) /\ ~r.ok
      BY <1>2, <2>2, <3>1 DEF Partial
    <3> QED
      BY <1>3, <3>1, <3>2
  <2> QED
    BY <2>1, <2>2
<1>5. ASSUME r.mvt # None, NEW i \in DOMAIN r.layers PROVE r.layers[i].provider = r.mvt
  <2>1. r.mvt = MvtOf(Provs(c), s, n) /\ r.layers = AtlasLayers(s, n)
    BY <1>2 DEF Partial
  <2>2. Provs(c)[s[1].path[1]] = "mvt" /\ r.mvt = s[1].path[1]
    BY <1>5, <2>1 DEF MvtOf
  <2>3. i \in 1..n /\ i \in 1..Len(s) /\ 1 \in 1..i
    BY <1>3, <1>5, <2>1 DEF AtlasLayers
  <2>4. s[i].path[1] = s[1].path[1]
    BY <1>1, <2>2, <2>3 DEF Accepted
  <2>5. r.layers[i].provider = s[i].path[1]
    BY <2>1, <2>3 DEF AtlasLayers, Cfg!AtlasLayer
  <2> QED
    BY <2>2, <2>4, <2>5
<1> QED
  BY <1>4, <1>5 DEF s, r

\* the first layer of a name and a later one of that name are not drawn together
LEMMA FirstIsApart ==
  ASSUME NEW p, NEW k \in Nat \ {0}, NEW i \in DOMAIN p.maps[k].layers, NEW j \in Nat, i \in Nat, i < j,
         \A h \in 1..(k - 1) : p.maps[h].name # p.maps[k].name,
         \A h \in DOMAIN p.maps[k].layers : h \in Nat \ {0},
         \A h \in 1..(i - 1) :
           Cfg!GetName(p.maps[k].layers[h]) # Cfg!GetName(p.maps[k].layers[i]),
         Cfg!GetName(p.maps[k].layers[i]) = Cfg!GetName(p.maps[k].layers[j]),
         Cfg!NoCollision(p, k, j)
  PROVE  ~Cfg!ZoomsOverlap(p.maps[k].layers[i], p.maps[k].layers[j])
<1> DEFINE L(q) == p.maps[q[1]].layers[q[2]]
           same == {q \in Cfg!Before(p, k, j) : Cfg!GetName(L(q)) = Cfg!GetName(p.maps[k].layers[j])}
           IsFirst(q) == \A r \in same : q[1] < r[1] \/ (q[1] = r[1] /\ q[2] <= r[2])
           q == <<k, i>>
<1>1. \A o \in same : IsFirst(o) => ~Cfg!ZoomsOverlap(L(o), p.maps[k].layers[j])
  BY DEF Cfg!NoCollision
<1>2. q[1] = k /\ q[2] = i /\ L(q) = p.maps[k].layers[i]
  OBVIOUS
<1>3. k \in 1..k
  OBVIOUS
<1>4. q \in Cfg!Before(p, k, j)
  <2>1. q \in {k} \X DOMAIN p.maps[k].layers
    OBVIOUS
  <2>2. q \in UNION {{h} \X DOMAIN p.maps[h].layers : h \in 1..k}
    BY <1>3, <2>1
  <2> QED
    BY <1>2, <2>2 DEF Cfg!Before
<1>5. q \in same
  BY <1>2, <1>4
<1>6. ASSUME NEW r \in same PROVE r[1] = k /\ i <= r[2]
  <2>1. PICK h \in 1..k : r \in {h} \X DOMAIN p.maps[h].layers
    BY DEF Cfg!Before
  <2>2. /\ p.maps[r[1]].name = p.maps[k].name /\ (r[1] < k \/ r[2] < j)
        /\ Cfg!GetName(L(r)) = Cfg!GetName(p.maps[k].layers[j])
    BY DEF Cfg!Before
  <2>3. r[1] = h /\ r[2] \in DOMAIN p.maps[h].layers
    BY <2>1
  <2>4. h = k
    <3>1. h \in Nat /\ (h < k => h \in 1..(k - 1)) /\ (h < k \/ h = k)
      OBVIOUS
    <3>2. p.maps[h].name = p.maps[k].name
      BY <2>2, <2>3
    <3> QED
      BY <3>1, <3>2
  <2>5. r[2] \in Nat \ {0} /\ L(r) = p.maps[k].layers[r[2]]
    <3>1. r[1] = k /\ r[2] \in DOMAIN p.maps[k].layers
      BY <2>3, <2>4
    <3> QED
      BY <3>1
  <2>6. r[2] < i => r[2] \in 1..(i - 1)
    <3>1. \A a \in Nat \ {0}, b \in Nat : a < b => a \in 1..(b - 1)
      OBVIOUS
    <3>2. r[2] \in Nat \ {0} /\ i \in Nat
      BY <2>5
    <3> HIDE DEF same, L, q
    <3> QED
      BY <3>1, <3>2
  <2>7. ~(r[2] < i)
    BY <2>2, <2>5, <2>6
  <2> QED
    BY <2>3, <2>4, <2>5, <2>7
<1> HIDE DEF same, L, q
<1>7. IsFirst(q)
  BY <1>2, <1>6
<1> QED
  BY <1>1, <1>2, <1>5, <1>7

(* The layers of an accepted map are apart: the first layer of a name is at   *)
(* no zoom with a later one, whatever zooms the file leaves out (Validate,     *)
(* atlasLayerFromConfigLayer).                                                 *)
THEOREM LayersAreApart ==
  ASSUME OneKind, Zooms, NEW Text, NEW c \in Configs(Text)
  PROVE  Cfg!LayersApart(c)
<1> DEFINE p == Cfg!Parse(c)
<1> SUFFICES ASSUME Cfg!Validate(p), NEW k \in DOMAIN p.maps
             PROVE  Cfg!DrawnApart(p, k, RegOf(c, k).layers)
  BY DEF Cfg!LayersApart, RegOf, MapOf, Provs
<1> DEFINE s == MapOf(c, k).layers  r == RegOf(c, k)  ls == c.maps[k].layers
<1>1. /\ ls \in Seq(Layers(Text)) /\ p.maps[k].layers = ls
      /\ s \in Seq(ZoomedLayers(Text)) /\ Len(s) = Len(ls) /\ Accepted(Provs(c), s)
      /\ \A h \in 1..Len(ls) : s[h] = Cfg!Defaulted(ls[h]) /\ Cfg!LayerAccepted(p, k, h)
  BY AcceptedMap
<1>2. k \in Nat \ {0}
  <2>1. DOMAIN p.maps = DOMAIN c.maps
    BY ParsedConfig DEF ParsedFrom
  <2>2. c.maps \in Seq(Maps(Text))
    BY DEF Configs
  <2> QED
    BY <2>1, <2>2
<1>3. PICK n \in 0..Len(s) : Partial(Provs(c), s, r, Len(s), n)
  BY <1>1, MapRegisters DEF RegOf
<1> HIDE DEF p, s, r, ls
<1>4. /\ Len(ls) \in Nat /\ Len(s) = Len(ls) /\ DOMAIN ls = 1..Len(ls) /\ n \in Nat /\ n <= Len(ls)
  BY <1>1
<1>5. r.layers = AtlasLayers(s, n)
  BY <1>3 DEF Partial
<1>6. DOMAIN r.layers = 1..n
  BY <1>5 DEF AtlasLayers
<1>7. ASSUME NEW h \in 1..n
      PROVE  /\ h \in 1..Len(ls) /\ h \in Nat \ {0}
             /\ s[h].min \in Nat /\ s[h].max \in Nat \ {0}
             /\ r.layers[h].min = s[h].min /\ r.layers[h].max = s[h].max
             /\ r.layers[h].name = Cfg!GetName(ls[h])
  <2>1. h \in 1..Len(ls) /\ h \in Nat \ {0}
    BY <1>4
  <2>2. s[h] \in ZoomedLayers(Text) /\ ls[h] \in Layers(Text) /\ s[h] = Cfg!Defaulted(ls[h])
    BY <1>1, <1>4, <2>1
  <2>3. s[h].min \in Nat /\ s[h].max \in Nat \ {0}
    BY <2>2 DEF ZoomedLayers
  <2>4. r.layers[h] = Cfg!AtlasLayer(s[h])
    BY <1>5 DEF AtlasLayers
  <2>5. s[h].min # None /\ s[h].max # None
    BY <2>3 DEF Zooms
  <2>6. Cfg!GetName(s[h]) = Cfg!GetName(ls[h])
    <3>1. s[h].path = ls[h].path /\ s[h].name = ls[h].name
      BY <2>2, DefaultZooms
    <3> QED
      BY <3>1 DEF Cfg!GetName
  <2>7. Cfg!AtlasLayer(s[h]) = [name |-> Cfg!GetName(s[h]), provider |-> s[h].path[1],
                                min |-> s[h].min, max |-> s[h].max]
    BY <2>5 DEF Cfg!AtlasLayer
  <2>8. /\ r.layers[h].min = s[h].min /\ r.layers[h].max = s[h].max
        /\ r.layers[h].name = Cfg!GetName(s[h])
    BY <2>4, <2>7
  <2> QED
    BY <2>1, <2>3, <2>6, <2>8
<1>8. \A i \in 1..n : r.layers[i].max >= 1
  BY <1>7
<1>9. ASSUME NEW i \in 1..n, NEW j \in 1..n, NEW z \in 0..MaxZ,
             \A h \in 1..(k - 1) : p.maps[h].name # p.maps[k].name, i # j,
             \A h \in 1..(i - 1) : r.layers[h].name # r.layers[i].name,
             r.layers[i].name = r.layers[j].name,
             r.layers[i].min <= z, z <= r.layers[i].max, r.layers[j].min <= z, z <= r.layers[j].max
      PROVE  FALSE
  <2>1. i \in Nat \ {0} /\ j \in Nat \ {0} /\ i \in 1..Len(ls) /\ j \in 1..Len(ls)
    BY <1>7
  <2>2. i < j
    <3>1. j < i => j \in 1..(i - 1)
      BY <2>1
    <3>2. ~(j < i)
      BY <1>9, <3>1
    <3> QED
      BY <1>9, <2>1, <3>2
  <2>3. \A h \in 1..(i - 1) : Cfg!GetName(ls[h]) # Cfg!GetName(ls[i])
    <3>1. \A h \in 1..(i - 1) : h \in 1..n
      BY <2>1
    <3> QED
      BY <1>7, <1>9, <3>1
  <2>4. Cfg!GetName(ls[i]) = Cfg!GetName(ls[j])
    BY <1>7, <1>9
  <2>5. Cfg!NoCollision(p, k, j)
    BY <1>1, <2>1 DEF Cfg!LayerAccepted
  <2>6. \A h \in DOMAIN ls : h \in Nat \ {0}
    BY <1>4
  <2>7. ~Cfg!ZoomsOverlap(ls[i], ls[j])
    BY <1>1, <1>2, <1>4, <1>9, <2>1, <2>2, <2>3, <2>4, <2>5, <2>6, FirstIsApart
  <2>8. ~(s[i].min <= s[j].max /\ s[j].min <= s[i].max)
    BY <1>1, <2>1, <2>7 DEF Cfg!ZoomsOverlap
  <2>9. /\ s[i].min \in Nat /\ s[i].max \in Nat /\ s[j].min \in Nat /\ s[j].max \in Nat
        /\ s[i].min <= z /\ z <= s[i].max /\ s[j].min <= z /\ z <= s[j].max
    BY <1>7, <1>9
  <2>10. z \in Int
    BY DEF Zooms
  <2> QED
    BY <2>8, <2>9, <2>10
<1> QED
  <2>1. Cfg!DrawnApart(p, k, r.layers)
    BY <1>6, <1>8, <1>9 DEF Cfg!DrawnApart
  <2> QED BY <2>1 DEF p, r

(* Every configuration that Validate accepts is sound, whatever its maps,     *)
(* layers, parameters and providers are.                                       *)
THEOREM ConfigIsSound ==
  ASSUME OneKind, Zooms, NEW Text, NEW c \in Configs(Text)
  PROVE  Cfg!ConfigSound(c)
BY AcceptedIsRegistered, LayersAreApart, TokensAreApart DEF Cfg!ConfigSound

-----------------------------------------------------------------------------
(* The values of the configuration and their environment variables.           *)
\* the result of reading something: a value or an error
IsResult(r) == r = Dict!Ok(r.v) \/ r = Dict!Err(r.err)

\* the rounds of replaceEnvVar, one after the other
LEMMA Rounds ==
  ASSUME MaxRounds \in Nat, NEW text
  PROVE  \E r : /\ r[0] = Dict!Ok(text)
                /\ \A n \in 1..MaxRounds : r[n] = Dict!ReplaceRound(r[n - 1])
                /\ Dict!ReplaceEnvVar(text) =
                     IF r[MaxRounds].ok /\ Dict!HasVar(r[MaxRounds].v)
                     THEN Dict!Err("never ends") ELSE r[MaxRounds]
<1> DEFINE Round(v, n) == Dict!ReplaceRound(v)
           c == Dict!Ok(text)
           r == CHOOSE g : g = [n \in 0..MaxRounds |-> IF n = 0 THEN c ELSE Round(g[n - 1], n)]
<1>1. Dict!ReplaceEnvVar(text) =
        IF r[MaxRounds].ok /\ Dict!HasVar(r[MaxRounds].v)
        THEN Dict!Err("never ends") ELSE r[MaxRounds]
  BY DEF Dict!ReplaceEnvVar
<1>2. FiniteNatInductiveDefHypothesis(r, c, Round, 0, MaxRounds)
  BY DEF FiniteNatInductiveDefHypothesis
<1>3. FiniteNatInductiveDefConclusion(r, c, Round, 0, MaxRounds)
  <2> HIDE DEF r, c, Round
  <2> QED BY <1>2, FiniteNatInductiveDef
<1> HIDE DEF r
<1>4. r = [n \in 0..MaxRounds |-> IF n = 0 THEN c ELSE Round(r[n - 1], n)]
  BY <1>3 DEF FiniteNatInductiveDefConclusion
<1>5. r[0] = c
  BY <1>4
<1>6. ASSUME NEW n \in 1..MaxRounds PROVE r[n] = Round(r[n - 1], n)
  BY <1>4
<1> QED
  BY <1>1, <1>5, <1>6

LEMMA Results ==
  ASSUME NEW x
  PROVE  /\ Dict!Ok(x).ok = TRUE /\ Dict!Ok(x).v = x /\ IsResult(Dict!Ok(x))
         /\ Dict!Err(x).ok = FALSE /\ Dict!Err(x).err = x /\ IsResult(Dict!Err(x))
BY DEF IsResult, Dict!Ok, Dict!Err

LEMMA ResultOk ==
  ASSUME NEW r, IsResult(r)
  PROVE  r.ok \in BOOLEAN /\ (r.ok => r = Dict!Ok(r.v)) /\ (~r.ok => r = Dict!Err(r.err))
<1>1. CASE r = Dict!Ok(r.v)
  <2>1. r.ok = TRUE
    BY <1>1, Results
  <2> QED BY <1>1, <2>1
<1>2. CASE r = Dict!Err(r.err)
  <2>1. r.ok = FALSE
    BY <1>2, Results
  <2> QED BY <1>2, <2>1
<1> QED
  BY <1>1, <1>2 DEF IsResult

LEMMA RoundResult ==
  ASSUME NEW r, IsResult(r)
  PROVE  IsResult(Dict!ReplaceRound(r))
BY DEF IsResult, Dict!ReplaceRound, Dict!Ok, Dict!Err

\* replaceEnvVar gives an error, or a text without variables
LEMMA ReplacedAll ==
  ASSUME MaxRounds \in Nat, NEW text
  PROVE  LET t == Dict!ReplaceEnvVar(text)
         IN  IsResult(t) /\ t.ok \in BOOLEAN /\ (t.ok => t = Dict!Ok(t.v) /\ ~Dict!HasVar(t.v))
<1>1. PICK r : /\ r[0] = Dict!Ok(text)
               /\ \A n \in 1..MaxRounds : r[n] = Dict!ReplaceRound(r[n - 1])
               /\ Dict!ReplaceEnvVar(text) =
                    IF r[MaxRounds].ok /\ Dict!HasVar(r[MaxRounds].v)
                    THEN Dict!Err("never ends") ELSE r[MaxRounds]
  BY Rounds
<1> DEFINE Good == {n \in 0..MaxRounds : IsResult(r[n])}
<1>2. 0 \in Good
  <2>1. 0 \in 0..MaxRounds
    OBVIOUS
  <2>2. IsResult(r[0])
    BY <1>1, Results
  <2> QED BY <2>1, <2>2
<1>3. ASSUME NEW n \in 1..MaxRounds, n - 1 \in Good PROVE n \in Good
  <2>1. IsResult(r[n - 1])
    BY <1>3
  <2>2. IsResult(r[n])
    BY <1>1, <2>1, RoundResult
  <2> QED BY <2>2
<1>4. MaxRounds \in Good
  <2> HIDE DEF Good
  <2>1. \A n \in 0..MaxRounds : n \in Good
    BY <1>2, <1>3, Steps
  <2> QED BY <2>1
<1> DEFINE last == r[MaxRounds]
<1>5. IsResult(last)
  BY <1>4
<1>6. Dict!ReplaceEnvVar(text) = IF last.ok /\ Dict!HasVar(last.v) THEN Dict!Err("never ends") ELSE last
  BY <1>1
<1> HIDE DEF last
<1>7. last.ok \in BOOLEAN /\ (last.ok => last = Dict!Ok(last.v))
  BY <1>5, ResultOk
<1>8. CASE last.ok /\ Dict!HasVar(last.v)
  <2>1. Dict!ReplaceEnvVar(text) = Dict!Err("never ends")
    BY <1>6, <1>8
  <2> QED BY <2>1, Results
<1>9. CASE ~(last.ok /\ Dict!HasVar(last.v))
  BY <1>5, <1>6, <1>7, <1>9
<1> QED
  BY <1>8, <1>9

\* a text without variables stays as it is
LEMMA NothingToReplace ==
  ASSUME MaxRounds \in Nat, NEW text, ~Dict!HasVar(text)
  PROVE  Dict!ReplaceEnvVar(text) = Dict!Ok(text)
<1>1. PICK r : /\ r[0] = Dict!Ok(text)
               /\ \A n \in 1..MaxRounds : r[n] = Dict!ReplaceRound(r[n - 1])
               /\ Dict!ReplaceEnvVar(text) =
                    IF r[MaxRounds].ok /\ Dict!HasVar(r[MaxRounds].v)
                    THEN Dict!Err("never ends") ELSE r[MaxRounds]
  BY Rounds
<1> DEFINE Good == {n \in 0..MaxRounds : r[n] = Dict!Ok(text)}
<1>2. 0 \in Good
  <2>1. 0 \in 0..MaxRounds
    OBVIOUS
  <2> QED BY <1>1, <2>1
<1>3. Dict!ReplaceRound(Dict!Ok(text)) = Dict!Ok(text)
  BY DEF Dict!ReplaceRound, Dict!Ok
<1>4. ASSUME NEW n \in 1..MaxRounds, n - 1 \in Good PROVE n \in Good
  <2>1. n \in 0..MaxRounds
    OBVIOUS
  <2>2. r[n - 1] = Dict!Ok(text) /\ r[n] = Dict!ReplaceRound(r[n - 1])
    BY <1>1, <1>4
  <2> QED BY <1>3, <2>1, <2>2
<1>5. MaxRounds \in Good
  <2> HIDE DEF Good
  <2>1. \A n \in 0..MaxRounds : n \in Good
    BY <1>2, <1>4, Steps
  <2> QED BY <2>1
<1>6. r[MaxRounds] = Dict!Ok(text) /\ r[MaxRounds].v = text
  BY <1>5 DEF Dict!Ok
<1> QED
  BY <1>1, <1>6

(* Replacing the variables of a text twice is replacing them once: a table    *)
(* that was read by env.Dict can be read again (replaceEnvVar).               *)
THEOREM ReplacedOnce ==
  ASSUME MaxRounds \in Nat, NEW text, Dict!ReplaceEnvVar(text).ok
  PROVE  /\ ~Dict!HasVar(Dict!ReplaceEnvVar(text).v)
         /\ Dict!ReplaceEnvVar(Dict!ReplaceEnvVar(text).v) = Dict!ReplaceEnvVar(text)
BY ReplacedAll, NothingToReplace

LEMMA Getters ==
  ASSUME NEW kind \in Kinds, NEW val, NEW def
  PROVE  Dict!Get(kind, val, def) = Dict!Required(val, def, Dict!ParseValue(kind, val))
BY DEF Kinds, Dict!Get, Dict!ParseValue, Dict!GetString, Dict!GetBool, Dict!GetInt,
       Dict!GetUint, Dict!GetFloat

LEMMA KeyErrors ==
  ASSUME NEW r
  PROVE  /\ Dict!KeyError(r).ok => Dict!KeyError(r) = r
         /\ r.ok => Dict!KeyError(r) = r
         /\ ~r.ok => ~Dict!KeyError(r).ok
BY DEF Dict!KeyError, Dict!Err

(* An option that is there is never replaced by its default (Required).       *)
LEMMA NeverDefaulted ==
  ASSUME NEW kind \in Kinds, NEW val, NEW def
  PROVE  Dict!NeverDefaulted(kind, val, def)
<1> SUFFICES ASSUME val.type \notin {"absent", "nil"}
             PROVE  /\ Dict!Get(kind, val, def).ok => Dict!Get(kind, val, def) = Dict!ParseValue(kind, val)
                    /\ Dict!Get(kind, val, {}) = Dict!Get(kind, val, def)
  BY DEF Dict!NeverDefaulted
<1>1. \A d : Dict!Required(val, d, Dict!ParseValue(kind, val)) = Dict!KeyError(Dict!ParseValue(kind, val))
  BY DEF Dict!Required
<1>2. \A d : Dict!Get(kind, val, d) = Dict!KeyError(Dict!ParseValue(kind, val))
  BY <1>1, Getters
<1> QED
  BY <1>2, KeyErrors

LEMMA TableFound ==
  ASSUME NEW val
  PROVE  Dict!TableFound(val)
<1> SUFFICES ASSUME val.type = "map", Dict!ParseNested(val).ok
             PROVE  Dict!GetMap(Dict!ParseNested(val).v).ok
  BY DEF Dict!TableFound
<1> DEFINE t == Dict!ParseTable(val.v)
<1>1. Dict!ParseNested(val) = IF t.ok THEN Dict!Ok(Dict!Val("Dict", t.v)) ELSE t
  BY DEF Dict!ParseNested
<1> HIDE DEF t
<1>2. Dict!ParseNested(val).v = Dict!Val("Dict", t.v)
  BY <1>1, Results
<1>3. Dict!Val("Dict", t.v).type = "Dict" /\ Dict!Absent.type = "absent"
  BY DEF Dict!Val, Dict!Absent
<1>4. Dict!GetMap(Dict!Val("Dict", t.v)) = Dict!Ok(Dict!Val("Dict", t.v).v)
  BY <1>3 DEF Dict!GetMap
<1> QED
  BY <1>2, <1>4, Results

\* what a string is read as depends on what its variables are replaced by
LEMMA StringsRead ==
  ASSUME NEW kind \in Kinds, NEW val, NEW other, val.type = "string", other.type = "string",
         Dict!ReplaceEnvVar(val.v) = Dict!ReplaceEnvVar(other.v)
  PROVE  /\ Dict!ParseValue(kind, val) = Dict!ParseValue(kind, other)
         /\ Dict!GetSlice(kind, val) = Dict!GetSlice(kind, other)
<1>1. Dict!ParseValue(kind, val) = Dict!ParseValue(kind, other)
  BY DEF Kinds, Dict!ParseValue, Dict!ParseString, Dict!ParseBool, Dict!ParseInt, Dict!ParseUint,
         Dict!ParseFloat, Dict!Typed
<1>2. /\ Dict!ParseStringSlice(val.v) = Dict!ParseStringSlice(other.v)
      /\ Dict!ParseBoolSlice(val.v) = Dict!ParseBoolSlice(other.v)
      /\ Dict!ParseIntSlice(val.v) = Dict!ParseIntSlice(other.v)
      /\ Dict!ParseUintSlice(val.v) = Dict!ParseUintSlice(other.v)
      /\ Dict!ParseFloatSlice(val.v) = Dict!ParseFloatSlice(other.v)
  BY DEF Dict!ParseStringSlice, Dict!ParseBoolSlice, Dict!ParseIntSlice, Dict!ParseUintSlice,
         Dict!ParseFloatSlice, Dict!Parts
<1>3. Dict!GetSlice(kind, val) = Dict!GetSlice(kind, other)
  BY <1>2 DEF Kinds, Dict!GetSlice, Dict!GetStringSlice, Dict!GetBoolSlice, Dict!GetIntSlice,
              Dict!GetUintSlice, Dict!GetFloatSlice, Dict!Slice
<1> QED
  BY <1>1, <1>3

\* a table is neither a string nor a number nor a list
LEMMA TablesRead ==
  ASSUME NEW kind \in Kinds, NEW val, val.type \in {"map", "Dict"}
  PROVE  /\ Dict!ParseValue(kind, val) = Dict!Err("type")
         /\ Dict!GetSlice(kind, val) = Dict!Ok(<<>>)
<1>1. Dict!ParseValue(kind, val) = Dict!Err("type")
  BY DEF Kinds, Dict!ParseValue, Dict!ParseString, Dict!ParseBool, Dict!ParseInt, Dict!ParseUint,
         Dict!ParseFloat, Dict!Typed
<1>2. Dict!GetSlice(kind, val) = Dict!Ok(<<>>)
  BY DEF Kinds, Dict!GetSlice, Dict!GetStringSlice, Dict!GetBoolSlice, Dict!GetIntSlice,
         Dict!GetUintSlice, Dict!GetFloatSlice, Dict!Slice
<1> QED
  BY <1>1, <1>2

(* A value that was read through its table is the one that is read from it    *)
(* directly (ParseDict, env.Dict).                                             *)
LEMMA ReadOnce ==
  ASSUME MaxRounds \in Nat, NEW kind \in Kinds, NEW val, NEW def
  PROVE  Dict!ReadOnce(kind, val, def)
<1> DEFINE e == Dict!ParseNested(val)
<1> SUFFICES /\ e.ok => Dict!Get(kind, e.v, def) = Dict!Get(kind, val, def)
             /\ e.ok => Dict!GetSlice(kind, e.v) = Dict!GetSlice(kind, val)
             /\ ~e.ok => ~Dict!Get(kind, val, def).ok
  BY DEF Dict!ReadOnce
<1>1. CASE val.type = "string"
  <2> DEFINE t == Dict!ReplaceEnvVar(val.v)
  <2>1. e = IF t.ok THEN Dict!Ok(Dict!Val("string", t.v)) ELSE t
    BY <1>1 DEF Dict!ParseNested, Dict!ParseEntry
  <2> HIDE DEF e
  <2>2. CASE t.ok
    <3>1. e.ok /\ e.v = Dict!Val("string", t.v)
      BY <2>1, <2>2, Results
    <3>2. e.v.type = "string" /\ e.v.v = t.v
      BY <3>1 DEF Dict!Val
    <3>3. Dict!ReplaceEnvVar(e.v.v) = Dict!ReplaceEnvVar(val.v)
      BY <2>2, <3>2, ReplacedOnce
    <3>4. /\ Dict!ParseValue(kind, e.v) = Dict!ParseValue(kind, val)
          /\ Dict!GetSlice(kind, e.v) = Dict!GetSlice(kind, val)
      BY <1>1, <3>2, <3>3, StringsRead
    <3>5. Dict!Get(kind, e.v, def) = Dict!Get(kind, val, def)
      BY <1>1, <3>2, <3>4, Getters DEF Dict!Required
    <3> QED
      BY <3>1, <3>4, <3>5
  <2>3. CASE ~t.ok
    <3>1. e = t /\ ~e.ok
      BY <2>1, <2>3
    <3>2. Dict!ParseValue(kind, val) = t
      BY <1>1, <2>3 DEF Kinds, Dict!ParseValue, Dict!ParseString, Dict!ParseBool, Dict!ParseInt,
                        Dict!ParseUint, Dict!ParseFloat, Dict!Typed
    <3> HIDE DEF t
    <3>3. Dict!Get(kind, val, def) = Dict!KeyError(t)
      BY <1>1, <3>2, Getters DEF Dict!Required
    <3> QED
      BY <2>3, <3>1, <3>3, KeyErrors
  <2> QED
    BY <2>2, <2>3
<1>2. CASE val.type = "map"
  <2> DEFINE t == Dict!ParseTable(val.v)
  <2>1. e = IF t.ok THEN Dict!Ok(Dict!Val("Dict", t.v)) ELSE t
    BY <1>2 DEF Dict!ParseNested
  <2>2. /\ Dict!ParseValue(kind, val) = Dict!Err("type")
        /\ Dict!GetSlice(kind, val) = Dict!Ok(<<>>)
    BY <1>2, TablesRead
  <2> HIDE DEF e, t
  <2>3. Dict!Get(kind, val, def) = Dict!KeyError(Dict!Err("type"))
    BY <1>2, <2>2, Getters DEF Dict!Required
  <2>4. ~Dict!Get(kind, val, def).ok
    BY <2>3, Results, KeyErrors
  <2>5. ASSUME e.ok
        PROVE  /\ Dict!Get(kind, e.v, def) = Dict!Get(kind, val, def)
               /\ Dict!GetSlice(kind, e.v) = Dict!GetSlice(kind, val)
    <3>1. e.v = Dict!Val("Dict", t.v)
      BY <2>1, <2>5, Results
    <3>2. e.v.type = "Dict"
      BY <3>1 DEF Dict!Val
    <3>3. /\ Dict!ParseValue(kind, e.v) = Dict!Err("type")
          /\ Dict!GetSlice(kind, e.v) = Dict!Ok(<<>>)
      BY <3>2, TablesRead
    <3>4. Dict!Get(kind, e.v, def) = Dict!KeyError(Dict!Err("type"))
      BY <3>2, <3>3, Getters DEF Dict!Required
    <3> QED
      BY <2>2, <2>3, <3>3, <3>4
  <2> QED
    BY <2>4, <2>5
<1>3. CASE val.type \notin {"string", "map"}
  <2>1. e = Dict!Ok(val)
    BY <1>3 DEF Dict!ParseNested, Dict!ParseEntry
  <2>2. e.ok /\ e.v = val
    BY <2>1, Results
  <2> QED
    BY <2>2
<1> QED
  BY <1>1, <1>2, <1>3

(* A dict.Dict gives the options an env.Dict gives, where it takes them       *)
(* (dict.Dict, env.Dict).                                                      *)
LEMMA DictsAgree ==
  ASSUME MaxRounds \in Nat, NEW kind \in Kinds, NEW val, NEW def
  PROVE  Dict!DictsAgree(kind, val, def)
<1>1. Dict!Absent.type = "absent"
  BY DEF Dict!Absent
<1>2. ASSUME Dict!PlainGet(kind, val, def).ok, val.type # "string", val # Dict!Absent \/ def # {}
      PROVE  Dict!Get(kind, val, def) = Dict!PlainGet(kind, val, def)
  <2>1. CASE val = Dict!Absent
    <3>1. Dict!Get(kind, val, def) = Dict!Ok(CHOOSE d \in def : TRUE)
      BY <1>1, <1>2, <2>1, Getters DEF Dict!Required
    <3>2. Dict!PlainGet(kind, val, def) = Dict!Ok(CHOOSE d \in def : TRUE)
      BY <1>2, <2>1 DEF Kinds, Dict!PlainGet, Dict!PlainString, Dict!PlainBool, Dict!PlainInt,
                        Dict!PlainUint, Dict!PlainFloat, Dict!Exactly
    <3> QED
      BY <3>1, <3>2
  <2>2. CASE val # Dict!Absent
    <3> DEFINE type == CASE kind = "bool" -> "bool" [] kind = "int" -> "int"
                         [] kind = "uint" -> "uint" [] kind = "float" -> "float64"
    <3>1. ~Dict!Err("key type").ok
      BY Results
    <3>2. kind # "string" /\ val.type = type /\ Dict!PlainGet(kind, val, def) = Dict!Ok(val.v)
      BY <1>2, <2>2, <3>1 DEF Kinds, Dict!PlainGet, Dict!PlainString, Dict!PlainBool, Dict!PlainInt,
                              Dict!PlainUint, Dict!PlainFloat, Dict!Exactly
    <3>3. Dict!ParseValue(kind, val) = Dict!Ok(val.v)
      BY <3>2 DEF Kinds, Dict!ParseValue, Dict!ParseBool, Dict!ParseInt, Dict!ParseUint,
                  Dict!ParseFloat, Dict!Typed
    <3>4. val.type \notin {"absent", "nil"}
      BY <3>2 DEF Kinds
    <3>5. Dict!Get(kind, val, def) = Dict!KeyError(Dict!Ok(val.v))
      BY <3>3, <3>4, Getters DEF Dict!Required
    <3> QED
      BY <3>2, <3>5, Results, KeyErrors
  <2> QED
    BY <2>1, <2>2
<1>3. ASSUME Dict!PlainGetSlice(kind, val).ok
      PROVE  Dict!GetSlice(kind, val) = Dict!PlainGetSlice(kind, val)
  <2>1. CASE val = Dict!Absent
    <3> DEFINE Types == {"[]string", "[]bool", "[]int", "[]uint", "[]float64"}
    <3>1. \A type \in Types : Dict!ExactlySlice(val, type) = Dict!Ok(<<>>)
      BY <1>1, <2>1 DEF Dict!ExactlySlice
    <3>2. \E type \in Types : Dict!PlainGetSlice(kind, val) = Dict!ExactlySlice(val, type)
      BY DEF Kinds, Dict!PlainGetSlice, Dict!PlainStringSlice, Dict!PlainBoolSlice,
             Dict!PlainIntSlice, Dict!PlainUintSlice, Dict!PlainFloatSlice
    <3>3. Dict!PlainGetSlice(kind, val) = Dict!Ok(<<>>)
      BY <3>1, <3>2
    <3>4. Dict!GetSlice(kind, val) = Dict!Ok(<<>>)
      BY <1>1, <2>1 DEF Kinds, Dict!GetSlice, Dict!GetStringSlice, Dict!GetBoolSlice,
                        Dict!GetIntSlice, Dict!GetUintSlice, Dict!GetFloatSlice, Dict!Slice
    <3> QED
      BY <3>3, <3>4
  <2>2. CASE val # Dict!Absent
    <3> DEFINE type == CASE kind = "string" -> "[]string" [] kind = "bool" -> "[]bool"
                         [] kind = "int" -> "[]int" [] kind = "uint" -> "[]uint"
                         [] kind = "float" -> "[]float64"
    <3>1. ~Dict!Err("key type").ok
      BY Results
    <3>2. Dict!PlainGetSlice(kind, val) = Dict!ExactlySlice(val, type)
      BY DEF Kinds, Dict!PlainGetSlice, Dict!PlainStringSlice, Dict!PlainBoolSlice,
             Dict!PlainIntSlice, Dict!PlainUintSlice, Dict!PlainFloatSlice
    <3>3. val.type = type /\ Dict!PlainGetSlice(kind, val) = Dict!Ok(val.v)
      <4> HIDE DEF type
      <4> QED
        BY <1>3, <2>2, <3>1, <3>2 DEF Dict!ExactlySlice
    <3>4. Dict!GetSlice(kind, val) = Dict!Ok(val.v)
      BY <3>3 DEF Kinds, Dict!GetSlice, Dict!GetStringSlice, Dict!GetBoolSlice,
                  Dict!GetIntSlice, Dict!GetUintSlice, Dict!GetFloatSlice, Dict!Slice
    <3> QED
      BY <3>3, <3>4
  <2> QED
    BY <2>1, <2>2
<1>4. ASSUME kind = "string", val.type = "string", ~Dict!HasVar(val.v)
      PROVE  Dict!Get(kind, val, def) = Dict!PlainGet(kind, val, def)
  <2>1. Dict!ReplaceEnvVar(val.v) = Dict!Ok(val.v)
    BY <1>4, NothingToReplace
  <2>2. Dict!Ok(val.v).ok = TRUE /\ Dict!Ok(val.v).v = val.v
    BY Results
  <2>3. Dict!ParseValue(kind, val) = Dict!Ok(val.v)
    BY <1>4, <2>1, <2>2 DEF Dict!ParseValue, Dict!ParseString, Dict!Typed, Dict!AsString
  <2>4. Dict!Get(kind, val, def) = Dict!KeyError(Dict!Ok(val.v))
    BY <1>4, <2>3, Getters DEF Dict!Required
  <2>5. Dict!PlainGet(kind, val, def) = Dict!Ok(val.v)
    BY <1>1, <1>4 DEF Dict!PlainGet, Dict!PlainString, Dict!Exactly
  <2> QED
    BY <2>2, <2>4, <2>5, KeyErrors
<1> QED
  BY <1>2, <1>3, <1>4 DEF Dict!DictsAgree

(* Every option is read soundly, whatever its value, its default and the      *)
(* environment are.                                                            *)
THEOREM OptionsAreSound ==
  ASSUME MaxRounds \in Nat, NEW kind \in Kinds, NEW val, NEW def
  PROVE  Dict!OptionsSound(kind, val, def)
BY NeverDefaulted, TableFound, ReadOnce, DictsAgree DEF Dict!OptionsSound

-----------------------------------------------------------------------------
(* The names of tiles.                                                        *)
(* What the tile handler draws for a URL is what the cache middleware looks   *)
(* up and stores (parseURI, cache.ParseKey).                                   *)
THEOREM SameTileNamed ==
  ASSUME NEW S, NEW prefix \in Seq(S), NEW path \in Seq(S)
  PROVE  Tiles!SameTile(prefix, path)
<1> DEFINE p == SubSeq(path, Len(prefix) + 2, Len(path))
<1> SUFFICES ASSUME Tiles!Routed(prefix, path)
             PROVE  Tiles!ParseKey(Tiles!TrimPrefix(prefix, path)) = Tiles!ParseURI(prefix, path)
  BY DEF Tiles!SameTile
<1>1. Tiles!TrimPrefix(prefix, path) = p
  BY DEF Tiles!TrimPrefix, Tiles!Routed
<1>2. Len(p) \in {4, 5}
  <2>1. Len(path) - Len(prefix) \in {5, 6} /\ Len(path) \in Nat /\ Len(prefix) \in Nat
    BY DEF Tiles!Routed
  <2>2. \A i \in (Len(prefix) + 2)..Len(path) : path[i] \in S
    BY <2>1
  <2>3. Len(p) = IF Len(prefix) + 2 <= Len(path) THEN Len(path) - (Len(prefix) + 2) + 1 ELSE 0
    BY <2>1, <2>2, SubSeqProperties
  <2> QED
    BY <2>1, <2>3
<1> HIDE DEF p
<1>3. Tiles!ParseURI(prefix, path) =
        IF Len(p) = 4 THEN Tiles!ZXY(p[1], Tiles!Nameless, p[2], p[3], p[4])
        ELSE Tiles!ZXY(p[1], p[2], p[3], p[4], p[5])
  BY DEF Tiles!ParseURI, p
<1>4. CASE Len(p) = 4
  BY <1>1, <1>3, <1>4 DEF Tiles!ParseKey
<1>5. CASE Len(p) = 5
  BY <1>1, <1>3, <1>5 DEF Tiles!ParseKey
<1> QED
  BY <1>2, <1>4, <1>5

\* what a number is as a segment
LEMMA Numbers ==
  ASSUME NEW n
  PROVE  Tiles!Number(n).num = n /\ Tiles!Number(n).exts = <<>> /\ Tiles!Plain(Tiles!Number(n))
BY DEF Tiles!Number, Tiles!Plain

\* the path of a key of a map
LEMMA KeyPath ==
  ASSUME NEW k, k.map # Tiles!Nameless
  PROVE  Tiles!KeyString(k) =
           IF k.layer = Tiles!Nameless
           THEN <<k.map, Tiles!Number(k.z), Tiles!Number(k.x), Tiles!Number(k.y)>>
           ELSE <<k.map, k.layer, Tiles!Number(k.z), Tiles!Number(k.x), Tiles!Number(k.y)>>
<1> DEFINE m == k.map  l == k.layer
           z == Tiles!Number(k.z)  x == Tiles!Number(k.x)  y == Tiles!Number(k.y)
           S == {m, l, z, x, y}
<1>1. <<m>> \in Seq(S) /\ <<l>> \in Seq(S) /\ <<z, x, y>> \in Seq(S)
  OBVIOUS
<1> HIDE DEF z, x, y
<1>2. CASE l = Tiles!Nameless
  <2>1. Tiles!KeyString(k) = <<m>> \o <<>> \o <<z, x, y>>
    BY <1>2 DEF Tiles!KeyString, Tiles!Filled, z, x, y
  <2>2. <<m>> \o <<>> = <<m>>
    BY <1>1, ConcatEmptySeq
  <2>3. <<m>> \o <<z, x, y>> = <<m, z, x, y>>
    BY ConsThree
  <2> QED
    BY <1>2, <2>1, <2>2, <2>3 DEF z, x, y
<1>3. CASE l # Tiles!Nameless
  <2>1. Tiles!KeyString(k) = <<m>> \o <<l>> \o <<z, x, y>>
    BY <1>3 DEF Tiles!KeyString, Tiles!Filled, z, x, y
  <2>2. (<<m>> \o <<l>>) \o <<z, x, y>> = <<m>> \o (<<l>> \o <<z, x, y>>)
    BY <1>1, ConcatAssociative
  <2>3. <<l>> \o <<z, x, y>> = <<l, z, x, y>> /\ <<m>> \o <<l, z, x, y>> = <<m, l, z, x, y>>
    BY ConsThree, ConsFour
  <2> QED
    BY <1>3, <2>1, <2>2, <2>3 DEF z, x, y
<1> QED
  BY <1>2, <1>3

LEMMA KeyParts ==
  ASSUME MaxZ \in Nat, NEW Segment, NEW k \in Keys(Segment)
  PROVE  /\ k = [ok |-> TRUE, map |-> k.map, layer |-> k.layer, z |-> k.z, x |-> k.x, y |-> k.y]
         /\ k.map # Tiles!Nameless /\ k.z \in Nat /\ k.z <= MaxZ /\ k.x \in Nat /\ k.y \in Nat
         /\ k.x <= Tiles!LastXY(k.z) /\ k.y <= Tiles!LastXY(k.z)
<1>1. /\ k \in [ok : {TRUE}, map : Segment, layer : Segment, z : 0..MaxZ, x : Nat, y : Nat]
      /\ k.map # Tiles!Nameless /\ k.x <= Tiles!LastXY(k.z) /\ k.y <= Tiles!LastXY(k.z)
  BY DEF Keys
<1>2. k = [ok |-> TRUE, map |-> k.map, layer |-> k.layer, z |-> k.z, x |-> k.x, y |-> k.y]
  BY <1>1
<1>3. k.z \in 0..MaxZ /\ k.x \in Nat /\ k.y \in Nat
  BY <1>1
<1> QED
  BY <1>1, <1>2, <1>3

(* A key is parsed from its own path: a purge after a restart finds the tile  *)
(* that was stored (Key.String, ParseKey).                                     *)
THEOREM KeyIsKept ==
  ASSUME MaxZ \in Nat, NEW Segment, NEW k \in Keys(Segment)
  PROVE  Tiles!KeyKept(k)
<1> DEFINE path == Tiles!KeyString(k)
           z == Tiles!Number(k.z)  x == Tiles!Number(k.x)  y == Tiles!Number(k.y)
<1>1. /\ k = [ok |-> TRUE, map |-> k.map, layer |-> k.layer, z |-> k.z, x |-> k.x, y |-> k.y]
      /\ k.map # Tiles!Nameless /\ k.z \in Nat /\ k.z <= MaxZ /\ k.x \in Nat /\ k.y \in Nat
      /\ k.x <= Tiles!LastXY(k.z) /\ k.y <= Tiles!LastXY(k.z)
  BY KeyParts
<1>2. Tiles!ZXY(k.map, k.layer, z, x, y) = k
  <2>1. z.num = k.z /\ x.num = k.x /\ y.num = k.y /\ Tiles!Plain(z) /\ Tiles!Plain(x)
    BY Numbers
  <2> HIDE DEF z, x, y
  <2>2. k.z # Tiles!NaN /\ k.x # Tiles!NaN /\ k.y # Tiles!NaN
    BY <1>1 DEF Tiles!NaN
  <2>3. /\ Tiles!Parsed(z, MaxZ) /\ Tiles!Parsed(x, Tiles!LastXY(z.num))
        /\ Tiles!ParsedY(y, Tiles!LastXY(z.num))
    BY <1>1, <2>1, <2>2 DEF Tiles!Parsed, Tiles!ParsedY
  <2>4. Tiles!ZXY(k.map, k.layer, z, x, y) = Tiles!Named(k.map, k.layer, k.z, k.x, k.y)
    BY <2>1, <2>3 DEF Tiles!ZXY
  <2> QED
    BY <1>1, <2>4 DEF Tiles!Named
<1>3. CASE k.layer = Tiles!Nameless
  <2>1. path = <<k.map, z, x, y>>
    BY <1>1, <1>3, KeyPath
  <2> HIDE DEF path, z, x, y
  <2>2. Len(path) = 4 /\ path[1] = k.map /\ path[2] = z /\ path[3] = x /\ path[4] = y
    BY <2>1
  <2>3. Tiles!ParseKey(path) = Tiles!ZXY(k.map, k.layer, z, x, y)
    BY <1>3, <2>2 DEF Tiles!ParseKey
  <2> QED
    BY <1>2, <2>3 DEF Tiles!KeyKept, path
<1>4. CASE k.layer # Tiles!Nameless
  <2>1. path = <<k.map, k.layer, z, x, y>>
    BY <1>1, <1>4, KeyPath
  <2> HIDE DEF path, z, x, y
  <2>2. Len(path) = 5 /\ path[1] = k.map /\ path[2] = k.layer /\ path[3] = z /\ path[4] = x /\ path[5] = y
    BY <2>1
  <2>3. Tiles!ParseKey(path) = Tiles!ZXY(k.map, k.layer, z, x, y)
    BY <2>2 DEF Tiles!ParseKey
  <2> QED
    BY <1>2, <2>3 DEF Tiles!KeyKept, path
<1> QED
  BY <1>3, <1>4

(* No key's path leads through another's, as the file cache needs it, unless  *)
(* a layer is called like a number (Key.String, filecache).                    *)
THEOREM KeysAreApart ==
  ASSUME MaxZ \in Nat, NEW Segment, NEW k \in Keys(Segment), NEW l \in Keys(Segment)
  PROVE  Tiles!KeysApart(k, l)
<1> DEFINE s == Tiles!KeyString(k)  t == Tiles!KeyString(l)
<1> SUFFICES ASSUME k # l, k.layer.num = Tiles!NaN, l.layer.num = Tiles!NaN, Tiles!IsPrefix(s, t)
             PROVE  FALSE
  BY DEF Tiles!KeysApart
<1>1. /\ k = [ok |-> TRUE, map |-> k.map, layer |-> k.layer, z |-> k.z, x |-> k.x, y |-> k.y]
      /\ k.map # Tiles!Nameless /\ k.z \in Nat /\ k.x \in Nat /\ k.y \in Nat
  BY KeyParts
<1>2. /\ l = [ok |-> TRUE, map |-> l.map, layer |-> l.layer, z |-> l.z, x |-> l.x, y |-> l.y]
      /\ l.map # Tiles!Nameless /\ l.z \in Nat /\ l.x \in Nat /\ l.y \in Nat
  BY KeyParts
<1>3. s = IF k.layer = Tiles!Nameless
          THEN <<k.map, Tiles!Number(k.z), Tiles!Number(k.x), Tiles!Number(k.y)>>
          ELSE <<k.map, k.layer, Tiles!Number(k.z), Tiles!Number(k.x), Tiles!Number(k.y)>>
  BY <1>1, KeyPath
<1>4. t = IF l.layer = Tiles!Nameless
          THEN <<l.map, Tiles!Number(l.z), Tiles!Number(l.x), Tiles!Number(l.y)>>
          ELSE <<l.map, l.layer, Tiles!Number(l.z), Tiles!Number(l.x), Tiles!Number(l.y)>>
  BY <1>2, KeyPath
<1>5. Len(s) <= Len(t) /\ SubSeq(s, 1, Len(s)) = SubSeq(t, 1, Len(s))
  BY DEF Tiles!IsPrefix
<1> DEFINE All == {s[i] : i \in 1..5} \cup {t[i] : i \in 1..5}
<1>6. Len(s) \in {4, 5} /\ Len(t) \in {4, 5}
  BY <1>3, <1>4
<1> HIDE DEF s, t
<1>7. \A i \in 1..Len(s) : s[i] = t[i]
  <2>1. Len(s) \in 1..5 /\ Len(t) \in 1..5
    BY <1>6
  <2>2. \A i \in 1..5 : s[i] \in All /\ t[i] \in All
    OBVIOUS
  <2> HIDE DEF All
  <2>3. \A i \in 1..Len(s) : i \in 1..5
    <3>1. \A n \in {4, 5} : \A i \in 1..n : i \in 1..5
      OBVIOUS
    <3> QED
      BY <1>6, <3>1
  <2>4. \A i \in 1..Len(s) : SubSeq(s, 1, Len(s))[i] = s[i]
    BY <2>1, <2>2, <2>3, SubSeqProperties
  <2>5. \A i \in 1..Len(s) : SubSeq(t, 1, Len(s))[i] = t[i]
    BY <2>1, <2>2, <2>3, SubSeqProperties
  <2> QED
    BY <1>5, <2>4, <2>5
<1>8. \A a, b : Tiles!Number(a) = Tiles!Number(b) => a = b
  BY Numbers
<1>9. CASE k.layer = Tiles!Nameless /\ l.layer = Tiles!Nameless
  <2>1. /\ Len(s) = 4 /\ s[1] = k.map /\ s[2] = Tiles!Number(k.z)
        /\ s[3] = Tiles!Number(k.x) /\ s[4] = Tiles!Number(k.y)
    BY <1>3, <1>9
  <2>2. /\ t[1] = l.map /\ t[2] = Tiles!Number(l.z)
        /\ t[3] = Tiles!Number(l.x) /\ t[4] = Tiles!Number(l.y)
    BY <1>4, <1>9
  <2>3. s[1] = t[1] /\ s[2] = t[2] /\ s[3] = t[3] /\ s[4] = t[4]
    BY <1>7, <2>1
  <2>4. /\ k.map = l.map /\ Tiles!Number(k.z) = Tiles!Number(l.z)
        /\ Tiles!Number(k.x) = Tiles!Number(l.x) /\ Tiles!Number(k.y) = Tiles!Number(l.y)
    BY <2>1, <2>2, <2>3
  <2>5. k.z = l.z /\ k.x = l.x /\ k.y = l.y
    BY <1>8, <2>4
  <2> QED
    BY <1>1, <1>2, <1>9, <2>4, <2>5
<1>10. CASE k.layer = Tiles!Nameless /\ l.layer # Tiles!Nameless
  <2>1. Len(s) = 4 /\ s[2] = Tiles!Number(k.z)
    BY <1>3, <1>10
  <2>2. t[2] = l.layer
    BY <1>4, <1>10
  <2>3. l.layer = Tiles!Number(k.z)
    BY <1>7, <2>1, <2>2
  <2>4. l.layer.num = k.z
    BY <2>3, Numbers
  <2> QED
    BY <1>1, <2>4 DEF Tiles!NaN
<1>11. CASE k.layer # Tiles!Nameless /\ l.layer = Tiles!Nameless
  <2>1. Len(s) = 5 /\ Len(t) = 4
    BY <1>3, <1>4, <1>11
  <2> QED
    BY <1>5, <2>1
<1>12. CASE k.layer # Tiles!Nameless /\ l.layer # Tiles!Nameless
  <2>1. /\ Len(s) = 5 /\ s[1] = k.map /\ s[2] = k.layer /\ s[3] = Tiles!Number(k.z)
        /\ s[4] = Tiles!Number(k.x) /\ s[5] = Tiles!Number(k.y)
    BY <1>3, <1>12
  <2>2. /\ t[1] = l.map /\ t[2] = l.layer /\ t[3] = Tiles!Number(l.z)
        /\ t[4] = Tiles!Number(l.x) /\ t[5] = Tiles!Number(l.y)
    BY <1>4, <1>12
  <2>3. s[1] = t[1] /\ s[2] = t[2] /\ s[3] = t[3] /\ s[4] = t[4] /\ s[5] = t[5]
    BY <1>7, <2>1
  <2>4. /\ k.map = l.map /\ k.layer = l.layer /\ Tiles!Number(k.z) = Tiles!Number(l.z)
        /\ Tiles!Number(k.x) = Tiles!Number(l.x) /\ Tiles!Number(k.y) = Tiles!Number(l.y)
    BY <2>1, <2>2, <2>3
  <2>5. k.z = l.z /\ k.x = l.x /\ k.y = l.y
    BY <1>8, <2>4
  <2> QED
    BY <1>1, <1>2, <2>4, <2>5
<1> QED
  BY <1>9, <1>10, <1>11, <1>12

LEMMA PrefixOf ==
  ASSUME NEW S, NEW s \in Seq(S), NEW t \in Seq(S), Len(s) <= Len(t),
         \A i \in 1..Len(s) : s[i] = t[i]
  PROVE  Tiles!IsPrefix(s, t)
<1>1. Len(s) \in Nat /\ Len(t) \in Nat /\ \A i \in 1..Len(s) : s[i] \in S /\ t[i] \in S
  OBVIOUS
<1>2. /\ SubSeq(s, 1, Len(s)) \in Seq(S) /\ SubSeq(t, 1, Len(s)) \in Seq(S)
      /\ Len(SubSeq(s, 1, Len(s))) = Len(s) /\ Len(SubSeq(t, 1, Len(s))) = Len(s)
      /\ \A i \in 1..Len(s) : SubSeq(s, 1, Len(s))[i] = s[i] /\ SubSeq(t, 1, Len(s))[i] = t[i]
  <2>1. \A v, n : n \in Nat /\ (\A i \in 1..n : v[i] \in S) =>
          /\ SubSeq(v, 1, n) \in Seq(S) /\ Len(SubSeq(v, 1, n)) = n
          /\ \A i \in 1..n : SubSeq(v, 1, n)[i] = v[i]
    <3> SUFFICES ASSUME NEW v, NEW n \in Nat, \A i \in 1..n : v[i] \in S
                 PROVE  /\ SubSeq(v, 1, n) \in Seq(S) /\ Len(SubSeq(v, 1, n)) = n
                        /\ \A i \in 1..n : SubSeq(v, 1, n)[i] = v[i]
      OBVIOUS
    <3>1. /\ SubSeq(v, 1, n) \in Seq(S)
          /\ Len(SubSeq(v, 1, n)) = IF 1 <= n THEN n - 1 + 1 ELSE 0
          /\ \A i \in 1..(n - 1 + 1) : SubSeq(v, 1, n)[i] = v[1 + i - 1]
      <4>1. n \in Int /\ 1 \in Int
        OBVIOUS
      <4> QED
        BY <4>1, SubSeqProperties
    <3> QED
      BY <3>1
  <2> QED
    BY <1>1, <2>1
<1>3. SubSeq(s, 1, Len(s)) = SubSeq(t, 1, Len(s))
  BY <1>2, SeqEqual
<1> QED
  BY <1>3 DEF Tiles!IsPrefix

ZMark == Tiles!Word("{z}")
XMark == Tiles!Word("{x}")
YMark == Tiles!WithExt(Tiles!Word("{y}"), "pbf")
Mark  == Tiles!Word("maps")

\* the segments of a template, in place
Template(t, prefix, map, layer) ==
  LET n == Len(prefix)  k == IF layer = Tiles!Nameless THEN 0 ELSE 1
  IN  /\ Len(t) = n + k + 5
      /\ \A i \in 1..n : t[i] = prefix[i]
      /\ t[n + 1] = Mark /\ t[n + 2] = map
      /\ k = 1 => t[n + 3] = layer
      /\ t[n + k + 3] = ZMark /\ t[n + k + 4] = XMark /\ t[n + k + 5] = YMark

Marked(Segment) == Segment \cup {Mark, ZMark, XMark, YMark}

LEMMA TemplateParts ==
  ASSUME NEW Segment, NEW prefix \in Seq(Segment), NEW map \in Segment, NEW layer \in Segment
  PROVE  /\ Tiles!TemplatePath(prefix, map, layer) \in Seq(Marked(Segment))
         /\ Template(Tiles!TemplatePath(prefix, map, layer), prefix, map, layer)
<1> DEFINE S == Marked(Segment)  M == Mark  Z == ZMark  X == XMark  Y == YMark
           t == Tiles!TemplatePath(prefix, map, layer)
           tail == IF layer = Tiles!Nameless THEN <<M, map, Z, X, Y>> ELSE <<M, map, layer, Z, X, Y>>
<1>1. /\ prefix \in Seq(S) /\ map \in S /\ layer \in S
      /\ M \in S /\ Z \in S /\ X \in S /\ Y \in S
  BY DEF Marked
<1>2. t = prefix \o <<M, map>> \o Tiles!Filled(layer) \o <<Z, X, Y>>
  BY DEF Tiles!TemplatePath, Mark, ZMark, XMark, YMark
<1>3. Tiles!Filled(layer) = IF layer = Tiles!Nameless THEN <<>> ELSE <<layer>>
  BY DEF Tiles!Filled
<1> HIDE DEF t, S, M, Z, X, Y
<1>4. /\ <<M>> \in Seq(S) /\ <<map>> \in Seq(S) /\ <<layer>> \in Seq(S) /\ <<>> \in Seq(S)
      /\ <<M, map>> \in Seq(S) /\ <<Z, X, Y>> \in Seq(S) /\ <<map, Z, X, Y>> \in Seq(S)
      /\ <<layer, Z, X, Y>> \in Seq(S) /\ <<map, layer, Z, X, Y>> \in Seq(S)
      /\ <<M, map, Z, X, Y>> \in Seq(S) /\ <<M, map, layer, Z, X, Y>> \in Seq(S)
  BY <1>1
<1>5. <<M>> \o <<map>> = <<M, map>>
  BY ConsOne
<1>6. t = prefix \o tail
  <2>1. CASE layer = Tiles!Nameless
    <3>1. t = (prefix \o <<M, map>> \o <<>>) \o <<Z, X, Y>>
      BY <1>2, <1>3, <2>1
    <3>2. prefix \o <<M, map>> \in Seq(S)
      BY <1>1, <1>4, ConcatProperties
    <3>3. prefix \o <<M, map>> \o <<>> = prefix \o <<M, map>>
      BY <3>2, ConcatEmptySeq
    <3>4. t = prefix \o (<<M, map>> \o <<Z, X, Y>>)
      BY <1>1, <1>4, <3>1, <3>3, ConcatAssociative
    <3>5. (<<M>> \o <<map>>) \o <<Z, X, Y>> = <<M>> \o (<<map>> \o <<Z, X, Y>>)
      BY <1>4, ConcatAssociative
    <3>6. <<map>> \o <<Z, X, Y>> = <<map, Z, X, Y>> /\ <<M>> \o <<map, Z, X, Y>> = <<M, map, Z, X, Y>>
      BY ConsThree, ConsFour
    <3> QED
      BY <1>5, <2>1, <3>4, <3>5, <3>6
  <2>2. CASE layer # Tiles!Nameless
    <3>1. t = (prefix \o <<M, map>> \o <<layer>>) \o <<Z, X, Y>>
      BY <1>2, <1>3, <2>2
    <3>2. prefix \o <<M, map>> \in Seq(S)
      BY <1>1, <1>4, ConcatProperties
    <3>3. t = (prefix \o <<M, map>>) \o (<<layer>> \o <<Z, X, Y>>)
      BY <1>4, <3>1, <3>2, ConcatAssociative
    <3>4. <<layer>> \o <<Z, X, Y>> = <<layer, Z, X, Y>>
      BY ConsThree
    <3>5. t = prefix \o (<<M, map>> \o <<layer, Z, X, Y>>)
      BY <1>1, <1>4, <3>3, <3>4, ConcatAssociative
    <3>6. (<<M>> \o <<map>>) \o <<layer, Z, X, Y>> = <<M>> \o (<<map>> \o <<layer, Z, X, Y>>)
      BY <1>4, ConcatAssociative
    <3>7. /\ <<map>> \o <<layer, Z, X, Y>> = <<map, layer, Z, X, Y>>
          /\ <<M>> \o <<map, layer, Z, X, Y>> = <<M, map, layer, Z, X, Y>>
      BY ConsFour, ConsFive
    <3> QED
      BY <1>5, <2>2, <3>5, <3>6, <3>7
  <2> QED
    BY <2>1, <2>2
<1> DEFINE n == Len(prefix)  k == IF layer = Tiles!Nameless THEN 0 ELSE 1
<1>7. /\ tail \in Seq(S) /\ Len(tail) = k + 5
      /\ tail[1] = M /\ tail[2] = map /\ (k = 1 => tail[3] = layer)
      /\ tail[k + 3] = Z /\ tail[k + 4] = X /\ tail[k + 5] = Y
  <2>1. CASE layer = Tiles!Nameless
    BY <1>4, <2>1
  <2>2. CASE layer # Tiles!Nameless
    BY <1>4, <2>2
  <2> QED
    BY <2>1, <2>2
<1>8. n \in Nat /\ k \in {0, 1}
  BY <1>1
<1> HIDE DEF tail, n, k
<1>9. /\ t \in Seq(S) /\ Len(t) = n + Len(tail)
      /\ \A i \in 1..(n + Len(tail)) : t[i] = IF i <= n THEN prefix[i] ELSE tail[i - n]
  BY <1>1, <1>6, <1>7, ConcatProperties DEF n
<1>10. \A i \in 1..n : t[i] = prefix[i]
  BY <1>7, <1>8, <1>9
<1>11. ASSUME NEW j \in 1..(k + 5) PROVE t[n + j] = tail[j]
  <2>1. n + j \in 1..(n + Len(tail)) /\ ~(n + j <= n) /\ (n + j) - n = j
    BY <1>7, <1>8
  <2> QED
    BY <1>9, <2>1
<1>12. /\ t[n + 1] = M /\ t[n + 2] = map /\ (k = 1 => t[n + 3] = layer)
       /\ t[n + (k + 3)] = Z /\ t[n + (k + 4)] = X /\ t[n + (k + 5)] = Y
  <2>1. /\ 1 \in 1..(k + 5) /\ 2 \in 1..(k + 5) /\ 3 \in 1..(k + 5)
        /\ k + 3 \in 1..(k + 5) /\ k + 4 \in 1..(k + 5) /\ k + 5 \in 1..(k + 5)
    BY <1>8
  <2> QED
    BY <1>7, <1>11, <2>1
<1>13. /\ n + (k + 3) = n + k + 3 /\ n + (k + 4) = n + k + 4 /\ n + (k + 5) = n + k + 5
  BY <1>8
<1>14. Template(t, prefix, map, layer)
  <2>1. Len(t) = n + k + 5
    BY <1>7, <1>9, <1>13
  <2> QED
    BY <1>10, <1>12, <1>13, <2>1 DEF Template, n, k, M, Z, X, Y
<1> QED
  BY <1>9, <1>14 DEF t, S

LEMMA Marks ==
  /\ ZMark # XMark /\ ZMark # YMark /\ XMark # YMark
  /\ Mark # ZMark /\ Mark # XMark /\ Mark # YMark
<1>1. /\ ZMark.name = "{z}" /\ XMark.name = "{x}" /\ YMark.name = "{y}" /\ Mark.name = "maps"
  BY DEF ZMark, XMark, YMark, Mark, Tiles!Word, Tiles!WithExt
<1> QED
  BY <1>1

(* The names of a server that do not look like a placeholder.                 *)
NotPlaceholders(Segment) == \A s \in Segment : s \notin {ZMark, XMark, YMark}

(* The URL a client makes from an advertised template is routed to the tile   *)
(* of that map and layer (TileURLTemplate.String, parseURI).                   *)
THEOREM TemplateIsServed ==
  ASSUME MaxZ \in Nat, NEW Segment, NotPlaceholders(Segment),
         NEW prefix \in Seq(Segment), NEW map \in Segment, NEW layer \in Segment,
         NEW z \in 0..MaxZ, NEW x \in Nat, NEW y \in Nat,
         x <= Tiles!LastXY(z), y <= Tiles!LastXY(z)
  PROVE  Tiles!TemplateServed(prefix, map, layer, z, x, y)
<1> DEFINE t == Tiles!TemplatePath(prefix, map, layer)
           url == Tiles!FillIn(t, z, x, y)
           n == Len(prefix)  k == IF layer = Tiles!Nameless THEN 0 ELSE 1
           Zs == Tiles!Number(z)  Xs == Tiles!Number(x)
           Ys == Tiles!WithExt(Tiles!Number(y), "pbf")
           S == Marked(Segment) \cup {Zs, Xs, Ys}
<1>1. t \in Seq(Marked(Segment)) /\ Template(t, prefix, map, layer)
  BY TemplateParts
<1>2. url = [i \in DOMAIN t |-> CASE t[i] = ZMark -> Zs [] t[i] = XMark -> Xs
                                  [] t[i] = YMark -> Ys [] OTHER -> t[i]]
  BY DEF Tiles!FillIn, ZMark, XMark, YMark
<1>3. /\ Tiles!ParsedY(Ys, Tiles!LastXY(z)) /\ Ys.num = y
      /\ Tiles!Parsed(Zs, MaxZ) /\ Zs.num = z /\ Tiles!Parsed(Xs, Tiles!LastXY(z)) /\ Xs.num = x
  <2>1. Zs.num = z /\ Xs.num = x /\ Tiles!Plain(Zs) /\ Tiles!Plain(Xs)
    BY Numbers
  <2>2. Ys.num = y
    BY DEF Tiles!Number, Tiles!WithExt
  <2> HIDE DEF Zs, Xs, Ys
  <2> QED
    BY <2>1, <2>2 DEF Tiles!Parsed, Tiles!ParsedY, Tiles!NaN
<1>4. n \in Nat /\ k \in {0, 1}
  OBVIOUS
<1>5. /\ Len(t) = n + k + 5 /\ \A i \in 1..n : t[i] = prefix[i]
      /\ t[n + 1] = Mark /\ t[n + 2] = map /\ (k = 1 => t[n + 3] = layer)
      /\ t[n + k + 3] = ZMark /\ t[n + k + 4] = XMark /\ t[n + k + 5] = YMark
  BY <1>1 DEF Template
<1>6. \A i \in 1..n : prefix[i] \in Segment
  OBVIOUS
<1> HIDE DEF t, url, Zs, Xs, Ys
<1>7. url \in Seq(S) /\ Len(url) = n + k + 5
  <2>1. DOMAIN t = 1..Len(t) /\ \A i \in DOMAIN t : t[i] \in Marked(Segment)
    BY <1>1
  <2>2. \A i \in DOMAIN t : url[i] \in S
    BY <1>2, <2>1
  <2>3. url = [i \in 1..Len(t) |-> url[i]]
    BY <1>2, <2>1
  <2>4. Len(t) \in Nat
    BY <1>1
  <2> DEFINE m == Len(t)
  <2> HIDE DEF S, n, k, m
  <2>5. m \in Nat /\ url \in [1..m -> S]
    BY <2>1, <2>2, <2>3, <2>4 DEF m
  <2>6. url \in Seq(S) /\ Len(url) = m
    BY <2>5
  <2> QED
    BY <1>5, <2>6 DEF m
<1>8. \A i \in DOMAIN t : /\ t[i] \notin {ZMark, XMark, YMark} => url[i] = t[i]
                          /\ t[i] = ZMark => url[i] = Zs
                          /\ t[i] = XMark => url[i] = Xs
                          /\ t[i] = YMark => url[i] = Ys
  BY <1>2, Marks
<1>9. DOMAIN t = 1..(n + k + 5)
  BY <1>1, <1>5
<1> HIDE DEF n, k, S
<1>10. /\ \A i \in 1..n : url[i] = prefix[i]
       /\ url[n + 1] = Mark /\ url[n + 2] = map /\ (k = 1 => url[n + 3] = layer)
       /\ url[n + k + 3] = Zs /\ url[n + k + 4] = Xs /\ url[n + k + 5] = Ys
  <2>1. \A i \in 1..n : i \in 1..(n + k + 5)
    BY <1>4
  <2>2. /\ {n + 1, n + 2, n + k + 3, n + k + 4, n + k + 5} \subseteq 1..(n + k + 5)
        /\ n + 3 \in 1..(n + k + 5)
    BY <1>4
  <2>3. \A s \in Segment \cup {Mark} : s \notin {ZMark, XMark, YMark}
    BY Marks DEF NotPlaceholders
  <2>4. \A i \in 1..n : url[i] = prefix[i]
    BY <1>5, <1>6, <1>8, <1>9, <2>1, <2>3
  <2>5. url[n + 1] = Mark /\ url[n + 2] = map /\ (k = 1 => url[n + 3] = layer)
    BY <1>5, <1>8, <1>9, <2>2, <2>3
  <2>6. url[n + k + 3] = Zs /\ url[n + k + 4] = Xs /\ url[n + k + 5] = Ys
    BY <1>5, <1>8, <1>9, <2>2
  <2> QED
    BY <2>4, <2>5, <2>6
<1>11. Tiles!Routed(prefix, url)
  <2> DEFINE w == prefix \o <<Mark>>
  <2>1. prefix \in Seq(S) /\ <<Mark>> \in Seq(S) /\ Len(<<Mark>>) = 1 /\ <<Mark>>[1] = Mark
    BY DEF S, Marked
  <2>2. /\ w \in Seq(S) /\ Len(w) = n + 1
        /\ \A i \in 1..(n + 1) : w[i] = IF i <= n THEN prefix[i] ELSE <<Mark>>[i - n]
    BY <2>1, ConcatProperties DEF n
  <2> HIDE DEF w
  <2>3. \A i \in 1..(n + 1) : w[i] = url[i]
    <3> SUFFICES ASSUME NEW i \in 1..(n + 1) PROVE w[i] = url[i]
      OBVIOUS
    <3>1. CASE i <= n
      <4>1. i \in 1..n
        BY <1>4, <3>1
      <4>2. w[i] = prefix[i]
        BY <2>2, <3>1
      <4> QED
        BY <1>10, <4>1, <4>2
    <3>2. CASE ~(i <= n)
      <4>1. i = n + 1 /\ i - n = 1
        BY <1>4, <3>2
      <4> QED
        BY <1>10, <2>1, <2>2, <3>2, <4>1
    <3> QED
      BY <3>1, <3>2
  <2>4. Len(w) <= Len(url) /\ Len(url) - n \in {5, 6}
    BY <1>4, <1>7, <2>2
  <2>5. Tiles!IsPrefix(w, url)
    BY <1>7, <2>2, <2>3, <2>4, PrefixOf
  <2> QED
    BY <2>4, <2>5 DEF Tiles!Routed, w, Mark, n
<1> DEFINE p == SubSeq(url, n + 2, Len(url))
<1>12. Len(p) = k + 4 /\ \A i \in 1..(k + 4) : p[i] = url[n + 1 + i]
  <2>1. n + 2 \in Int /\ Len(url) \in Int /\ n + 2 <= Len(url) /\ Len(url) - (n + 2) + 1 = k + 4
    BY <1>4, <1>7
  <2>2. \A i \in (n + 2)..Len(url) : url[i] \in S
    BY <1>4, <1>7
  <2>3. Len(p) = k + 4 /\ \A i \in 1..(k + 4) : p[i] = url[n + 2 + i - 1]
    BY <2>1, <2>2, SubSeqProperties
  <2>4. \A i \in 1..(k + 4) : n + 2 + i - 1 = n + 1 + i
    BY <1>4
  <2> QED
    BY <2>3, <2>4
<1> HIDE DEF p
<1>13. Tiles!ParseURI(prefix, url) =
         IF Len(p) = 4 THEN Tiles!ZXY(p[1], Tiles!Nameless, p[2], p[3], p[4])
         ELSE Tiles!ZXY(p[1], p[2], p[3], p[4], p[5])
  BY DEF Tiles!ParseURI, p, n
<1>14. Tiles!ZXY(map, layer, Zs, Xs, Ys) = Tiles!Named(map, layer, z, x, y)
  BY <1>3 DEF Tiles!ZXY
<1>15. CASE k = 0
  <2>1. layer = Tiles!Nameless
    BY <1>15 DEF k
  <2>2. Len(p) = 4 /\ 1 \in 1..(k + 4) /\ 2 \in 1..(k + 4) /\ 3 \in 1..(k + 4) /\ 4 \in 1..(k + 4)
    BY <1>12, <1>15
  <2>3. /\ n + 1 + 1 = n + 2 /\ n + 1 + 2 = n + k + 3 /\ n + 1 + 3 = n + k + 4
        /\ n + 1 + 4 = n + k + 5
    BY <1>4, <1>15
  <2>4. p[1] = map /\ p[2] = Zs /\ p[3] = Xs /\ p[4] = Ys
    BY <1>10, <1>12, <2>2, <2>3
  <2>5. Tiles!ParseURI(prefix, url) = Tiles!Named(map, layer, z, x, y)
    BY <1>13, <1>14, <2>1, <2>2, <2>4
  <2> QED
    BY <1>11, <2>5 DEF Tiles!TemplateServed, url, t
<1>16. CASE k = 1
  <2>1. /\ Len(p) = 5 /\ Len(p) # 4 /\ 1 \in 1..(k + 4) /\ 2 \in 1..(k + 4) /\ 3 \in 1..(k + 4)
        /\ 4 \in 1..(k + 4) /\ 5 \in 1..(k + 4)
    BY <1>12, <1>16
  <2>2. /\ n + 1 + 1 = n + 2 /\ n + 1 + 2 = n + 3 /\ n + 1 + 3 = n + k + 3
        /\ n + 1 + 4 = n + k + 4 /\ n + 1 + 5 = n + k + 5
    BY <1>4, <1>16
  <2>3. p[1] = map /\ p[2] = layer /\ p[3] = Zs /\ p[4] = Xs /\ p[5] = Ys
    BY <1>10, <1>12, <1>16, <2>1, <2>2
  <2>4. Tiles!ParseURI(prefix, url) = Tiles!Named(map, layer, z, x, y)
    BY <1>13, <1>14, <2>1, <2>3
  <2> QED
    BY <1>11, <2>4 DEF Tiles!TemplateServed, url, t
<1> QED
  BY <1>4, <1>15, <1>16

(* An advertised template is read back as it was written, whatever the prefix *)
(* of the server is (TileURLTemplate.UnmarshalJSON).                           *)
THEOREM TemplateIsKept ==
  ASSUME NEW Segment, NotPlaceholders(Segment),
         NEW prefix \in Seq(Segment), NEW map \in Segment, NEW layer \in Segment
  PROVE  Tiles!TemplateKept(prefix, map, layer)
<1> SUFFICES ASSUME layer # map, map # Mark, layer # Mark
             PROVE  Tiles!Unmarshal(Tiles!TemplatePath(prefix, map, layer)) =
                      [ok |-> TRUE, prefix |-> prefix, map |-> map, layer |-> layer]
  BY DEF Tiles!TemplateKept, Mark
<1> DEFINE t == Tiles!TemplatePath(prefix, map, layer)
           n == Len(prefix)  k == IF layer = Tiles!Nameless THEN 0 ELSE 1
           z == CHOOSE i \in DOMAIN t : t[i] = ZMark /\ \A j \in 1..(i - 1) : t[j] # ZMark
           maps == {i \in 1..z : t[i] = Mark}
           last == CHOOSE i \in maps : \A j \in maps : j <= i
<1>1. t \in Seq(Marked(Segment)) /\ Template(t, prefix, map, layer)
  BY TemplateParts
<1>2. Tiles!Unmarshal(t) =
        IF \A i \in DOMAIN t : t[i] # ZMark THEN Tiles!Rejected
        ELSE IF maps = {}
        THEN [ok |-> TRUE, prefix |-> <<>>, map |-> Tiles!Nameless, layer |-> t[z - 1]]
        ELSE [ok |-> TRUE, prefix |-> SubSeq(t, 1, last - 1), map |-> t[last + 1],
              layer |-> IF t[z - 1] # t[last + 1] THEN t[z - 1] ELSE Tiles!Nameless]
  BY DEF Tiles!Unmarshal, ZMark, Mark
<1>3. n \in Nat /\ k \in {0, 1} /\ \A i \in 1..n : prefix[i] \in Segment
  OBVIOUS
<1>4. /\ Len(t) = n + k + 5 /\ \A i \in 1..n : t[i] = prefix[i]
      /\ t[n + 1] = Mark /\ t[n + 2] = map /\ (k = 1 => t[n + 3] = layer)
      /\ t[n + k + 3] = ZMark
  BY <1>1 DEF Template
<1>5. DOMAIN t = 1..(n + k + 5)
  BY <1>1, <1>4
<1>6. prefix \in Seq(Segment)
  OBVIOUS
<1> HIDE DEF t, n, maps, last
<1>7. (k = 0 => layer = Tiles!Nameless) /\ (k = 1 => layer # Tiles!Nameless)
  OBVIOUS
<1> HIDE DEF k
<1>8. \A i \in 1..(n + k + 2) : t[i] # ZMark
  <2>1. \A s \in Segment \cup {Mark} : s # ZMark
    BY Marks DEF NotPlaceholders
  <2>2. \A i \in 1..n : t[i] # ZMark
    BY <1>3, <1>4, <2>1
  <2>3. t[n + 1] # ZMark /\ t[n + 2] # ZMark /\ (k = 1 => t[n + 3] # ZMark)
    BY <1>4, <2>1
  <2>4. \A i \in 1..(n + k + 2) : i \in 1..n \/ i = n + 1 \/ i = n + 2 \/ (k = 1 /\ i = n + 3)
    BY <1>3
  <2> QED
    BY <2>2, <2>3, <2>4
<1>9. z = n + k + 3
  <2>1. n + k + 3 \in DOMAIN t /\ \A j \in 1..((n + k + 3) - 1) : t[j] # ZMark
    <3>1. n + k + 3 \in 1..(n + k + 5) /\ (n + k + 3) - 1 = n + k + 2
      BY <1>3
    <3> QED
      BY <1>5, <1>8, <3>1
  <2>2. ASSUME NEW i \in DOMAIN t, t[i] = ZMark, \A j \in 1..(i - 1) : t[j] # ZMark
        PROVE  i = n + k + 3
    <3>1. i \in 1..(n + k + 5)
      BY <1>5
    <3>2. CASE i < n + k + 3
      <4>1. i \in 1..(n + k + 2)
        BY <1>3, <3>1, <3>2
      <4> QED
        BY <1>8, <2>2, <4>1
    <3>3. CASE i > n + k + 3
      <4>1. n + k + 3 \in 1..(i - 1)
        BY <1>3, <3>1, <3>3
      <4> QED
        BY <1>4, <2>2, <4>1
    <3> QED
      BY <1>3, <3>1, <3>2, <3>3
  <2>3. z \in DOMAIN t /\ t[z] = ZMark /\ \A j \in 1..(z - 1) : t[j] # ZMark
    BY <1>4, <2>1
  <2> QED
    BY <2>2, <2>3
<1> HIDE DEF z
<1>10. n + 1 \in maps /\ \A i \in maps : i \in Nat /\ i <= n + 1
  <2>1. n + 1 \in maps
    <3>1. n + 1 \in 1..z
      BY <1>3, <1>9
    <3> QED
      BY <1>4, <3>1 DEF maps
  <2>2. ASSUME NEW i \in maps PROVE i \in Nat /\ i <= n + 1
    <3>1. i \in 1..(n + k + 3) /\ t[i] = Mark
      BY <1>9 DEF maps
    <3>2. i # n + 2 /\ i # n + k + 3 /\ ~(k = 1 /\ i = n + 3)
      BY <1>4, <3>1, Marks
    <3> QED
      BY <1>3, <3>1, <3>2
  <2> QED
    BY <2>1, <2>2
<1>11. last = n + 1
  <2>1. last \in maps /\ \A j \in maps : j <= last
    BY <1>10 DEF last
  <2> QED
    BY <1>3, <1>10, <2>1
<1>12. Tiles!Unmarshal(t) =
         [ok |-> TRUE, prefix |-> SubSeq(t, 1, last - 1), map |-> t[last + 1],
          layer |-> IF t[z - 1] # t[last + 1] THEN t[z - 1] ELSE Tiles!Nameless]
  <2>1. n + k + 3 \in DOMAIN t
    BY <1>3, <1>5
  <2>2. maps # {} /\ ~(\A i \in DOMAIN t : t[i] # ZMark)
    BY <1>4, <1>10, <2>1
  <2> QED
    BY <1>2, <2>2
<1>13. SubSeq(t, 1, last - 1) = prefix
  <2>1. last - 1 = n
    BY <1>3, <1>11
  <2>2. \A i \in 1..n : t[i] \in Segment
    BY <1>3, <1>4
  <2>3. 1 \in Int /\ n \in Int /\ (IF 1 <= n THEN n - 1 + 1 ELSE 0) = n
        /\ n - 1 + 1 = n /\ \A i \in 1..n : 1 + i - 1 = i
    BY <1>3
  <2>4. SubSeq(t, 1, n) \in Seq(Segment) /\ Len(SubSeq(t, 1, n)) = n
        /\ \A i \in 1..n : SubSeq(t, 1, n)[i] = t[i]
    BY <2>2, <2>3, SubSeqProperties
  <2>5. SubSeq(t, 1, n) = prefix
    BY <1>4, <1>6, <2>4, SeqEqual DEF n
  <2> QED
    BY <2>1, <2>5
<1>14. t[last + 1] = map
  <2>1. last + 1 = n + 2
    BY <1>3, <1>11
  <2> QED
    BY <1>4, <2>1
<1>15. (IF t[z - 1] # t[last + 1] THEN t[z - 1] ELSE Tiles!Nameless) = layer
  <2>1. CASE k = 0
    <3>1. z - 1 = n + 2
      BY <1>3, <1>9, <2>1
    <3> QED
      BY <1>4, <1>7, <1>14, <2>1, <3>1
  <2>2. CASE k = 1
    <3>1. z - 1 = n + 3
      BY <1>3, <1>9, <2>2
    <3> QED
      BY <1>4, <1>14, <2>2, <3>1
  <2> QED
    BY <1>3, <2>1, <2>2
<1> QED
  BY <1>12, <1>13, <1>14, <1>15 DEF t

-----------------------------------------------------------------------------
(* What the server says of its maps, and what it draws.                       *)

LEMMA Appended ==
  ASSUME NEW S, NEW s \in Seq(S), NEW e \in S
  PROVE  /\ Append(s, e) \in Seq(S) /\ Len(Append(s, e)) = Len(s) + 1
         /\ \A i \in 1..Len(s) : Append(s, e)[i] = s[i]
         /\ Append(s, e)[Len(s) + 1] = e
         /\ Tiles!Entries(Append(s, e)) = Tiles!Entries(s) \cup {e}
<1> DEFINE t == Append(s, e)  n == Len(s)
<1>1. /\ t \in Seq(S) /\ Len(t) = n + 1 /\ \A i \in 1..n : t[i] = s[i]
      /\ t[n + 1] = e
  BY AppendProperties
<1>2. n \in Nat /\ DOMAIN s = 1..n /\ DOMAIN t = 1..(n + 1)
  BY <1>1
<1> HIDE DEF t, n
<1>3. 1..(n + 1) = (1..n) \cup {n + 1}
  BY <1>2
<1>4. Tiles!Entries(t) = Tiles!Entries(s) \cup {e}
  BY <1>1, <1>2, <1>3 DEF Tiles!Entries
<1> QED
  BY <1>1, <1>4 DEF t, n

\* the first n elements are the first n - 1 and the n-th
LEMMA UpTo ==
  ASSUME NEW S, NEW s \in Seq(S), NEW n \in 1..Len(s)
  PROVE  /\ s[n] \in S /\ n - 1 \in Nat /\ n \in Nat
         /\ {s[i] : i \in 1..n} = {s[i] : i \in 1..(n - 1)} \cup {s[n]}
<1>1. n \in Nat /\ n - 1 \in Nat /\ 1..n = (1..(n - 1)) \cup {n}
  OBVIOUS
<1>2. s[n] \in S
  OBVIOUS
<1> QED
  BY <1>1, <1>2

LEMMA NoEntries == \A S : <<>> \in Seq(S) /\ Len(<<>>) = 0 /\ Tiles!Entries(<<>>) = {}
<1>1. \A S : <<>> \in Seq(S)
  OBVIOUS
<1>2. DOMAIN <<>> = {}
  OBVIOUS
<1> QED
  BY <1>1, <1>2 DEF Tiles!Entries

(* The filters keep exactly the layers that are wanted.                       *)
LEMMA KeptLayers ==
  ASSUME NEW S, NEW s \in Seq(S), NEW wanted
  PROVE  /\ Tiles!Kept(s, wanted) \in Seq(S)
         /\ Tiles!Entries(Tiles!Kept(s, wanted)) = Tiles!Entries(s) \cap wanted
<1> DEFINE Op(kept, l) == IF l \in wanted THEN Append(kept, l) ELSE kept
           base == <<>>
<1>1. Tiles!Kept(s, wanted) = FoldLeft(Op, base, s)
  BY DEF Tiles!Kept, Tiles!FoldLeft, FoldLeft, Tiles!MapThenFoldSet, MapThenFoldSet, Tiles!Max, Max
<1>2. Folded(Op, base, s, FoldLeft(Op, base, s))
  <2> HIDE DEF Op, base
  <2> QED BY FoldLeftFolds
<1>3. PICK r : /\ r[0] = base
               /\ \A n \in 1..Len(s) : r[n] = Op(r[n - 1], s[n])
               /\ FoldLeft(Op, base, s) = r[Len(s)]
  BY <1>2 DEF Folded
<1> DEFINE G(n) == r[n] \in Seq(S) /\ Tiles!Entries(r[n]) = {s[i] : i \in 1..n} \cap wanted
           Good == {n \in 0..Len(s) : G(n)}
<1>4. Len(s) \in Nat /\ DOMAIN s = 1..Len(s)
  OBVIOUS
<1>5. 0 \in Good
  <2>1. r[0] \in Seq(S) /\ Tiles!Entries(r[0]) = {}
    BY <1>3, NoEntries
  <2>2. {s[i] : i \in 1..0} = {}
    OBVIOUS
  <2> QED
    BY <1>4, <2>1, <2>2
<1>6. ASSUME NEW n \in 1..Len(s), n - 1 \in Good PROVE n \in Good
  <2>1. G(n - 1)
    BY <1>6
  <2>2. r[n] = Op(r[n - 1], s[n])
    BY <1>3
  <2>3. s[n] \in S /\ {s[i] : i \in 1..n} = {s[i] : i \in 1..(n - 1)} \cup {s[n]}
    BY UpTo
  <2>4. CASE s[n] \in wanted
    <3>1. r[n] = Append(r[n - 1], s[n])
      BY <2>2, <2>4
    <3>2. r[n] \in Seq(S) /\ Tiles!Entries(r[n]) = Tiles!Entries(r[n - 1]) \cup {s[n]}
      BY <2>1, <2>3, <3>1, Appended
    <3>3. G(n)
      BY <2>1, <2>3, <2>4, <3>2
    <3> QED
      BY <1>4, <3>3
  <2>5. CASE s[n] \notin wanted
    <3>1. r[n] = r[n - 1]
      BY <2>2, <2>5
    <3>2. G(n)
      BY <2>1, <2>3, <2>5, <3>1
    <3> QED
      BY <1>4, <3>2
  <2> QED
    BY <2>4, <2>5
<1>7. Len(s) \in Good
  <2> HIDE DEF Good
  <2>1. \A n \in 0..Len(s) : n \in Good
    BY <1>4, <1>5, <1>6, Steps
  <2> QED BY <1>4, <2>1
<1>8. Tiles!Entries(s) = {s[i] : i \in 1..Len(s)}
  BY <1>4 DEF Tiles!Entries
<1>9. G(Len(s))
  BY <1>7
<1> HIDE DEF Op, base, Good
<1> QED
  BY <1>1, <1>3, <1>8, <1>9

LEMMA EmptyOrNot ==
  ASSUME NEW S, NEW s \in Seq(S)
  PROVE  s = <<>> <=> Tiles!Entries(s) = {}
<1>1. Tiles!Entries(<<>>) = {}
  BY NoEntries
<1>2. ASSUME Tiles!Entries(s) = {} PROVE s = <<>>
  <2>1. DOMAIN s = {} /\ DOMAIN s = 1..Len(s) /\ Len(s) \in Nat
    BY <1>2 DEF Tiles!Entries
  <2>2. Len(s) = 0
    BY <2>1
  <2> QED
    BY <2>2, EmptySeq
<1> QED
  BY <1>1, <1>2

\* the layers of a server, with zooms that are numbers
Zoomed(L) == \A l \in L : l.min \in Nat /\ l.max \in Nat

\* the entries of a listing of such layers
Listings(L) ==
  [name : {Tiles!MVTName(l) : l \in L}, min : Nat, max : Nat, geom : {l.geom : l \in L}]

Wider(e, l) == [e EXCEPT !.min = Tiles!Lower(@, l.min), !.max = Tiles!Higher(@, l.max)]
Line(l)     == [name |-> Tiles!MVTName(l), min |-> l.min, max |-> l.max, geom |-> l.geom]

LEMMA Widened ==
  ASSUME NEW L, Zoomed(L), NEW e \in Listings(L), NEW l \in L
  PROVE  /\ e.min \in Nat /\ e.max \in Nat
         /\ Wider(e, l) \in Listings(L) /\ Wider(e, l).name = e.name
         /\ Wider(e, l).min = Tiles!Lower(e.min, l.min)
         /\ Wider(e, l).max = Tiles!Higher(e.max, l.max)
<1>1. l.min \in Nat /\ l.max \in Nat
  BY DEF Zoomed
<1> DEFINE N == {Tiles!MVTName(k) : k \in L}  G == {k.geom : k \in L}
<1>2. e \in [name : N, min : Nat, max : Nat, geom : G]
  BY DEF Listings
<1> HIDE DEF N, G
<1>3. e.min \in Nat /\ e.max \in Nat
  BY <1>2
<1>4. Tiles!Lower(e.min, l.min) \in Nat /\ Tiles!Higher(e.max, l.max) \in Nat
  BY <1>1, <1>3 DEF Tiles!Lower, Tiles!Higher
<1>5. ASSUME NEW lo \in Nat, NEW hi \in Nat
      PROVE  LET w == [e EXCEPT !.min = lo, !.max = hi]
             IN  /\ w \in [name : N, min : Nat, max : Nat, geom : G]
                 /\ w.name = e.name /\ w.min = lo /\ w.max = hi
  BY <1>2
<1>6. Wider(e, l) = [e EXCEPT !.min = Tiles!Lower(e.min, l.min), !.max = Tiles!Higher(e.max, l.max)]
  BY <1>2 DEF Wider
<1> QED
  BY <1>3, <1>4, <1>5, <1>6 DEF Listings, N, G

LEMMA Lined ==
  ASSUME NEW L, Zoomed(L), NEW l \in L
  PROVE  /\ Line(l) \in Listings(L) /\ Line(l).name = Tiles!MVTName(l)
         /\ Line(l).min = l.min /\ Line(l).max = l.max
BY DEF Line, Listings, Zoomed

\* a further layer widens the entries of its name, or has an entry of its own
LEMMA AddedLayer ==
  ASSUME NEW L, Zoomed(L), NEW list \in Seq(Listings(L)), NEW l \in L
  PROVE  LET added == Tiles!AddLayer(list, l)
         IN  /\ added \in Seq(Listings(L)) /\ added # <<>>
             /\ Tiles!Entries(added) =
                  IF \E e \in Tiles!Entries(list) : e.name = Tiles!MVTName(l)
                  THEN {IF e.name = Tiles!MVTName(l) THEN Wider(e, l) ELSE e : e \in Tiles!Entries(list)}
                  ELSE Tiles!Entries(list) \cup {Line(l)}
<1> DEFINE added == Tiles!AddLayer(list, l)
           N == Tiles!MVTName(l)
           known == \E e \in Tiles!Entries(list) : e.name = N
           New(e) == IF e.name = N THEN Wider(e, l) ELSE e
<1>1. added = IF known THEN [i \in DOMAIN list |-> New(list[i])] ELSE Append(list, Line(l))
  BY DEF Tiles!AddLayer, Tiles!Entries, Wider, Line
<1>2. Len(list) \in Nat /\ DOMAIN list = 1..Len(list) /\ \A i \in DOMAIN list : list[i] \in Listings(L)
  OBVIOUS
<1> HIDE DEF added, N
<1>3. CASE known
  <2>1. added = [i \in DOMAIN list |-> New(list[i])]
    BY <1>1, <1>3
  <2>2. \A i \in DOMAIN list : New(list[i]) \in Listings(L)
    BY <1>2, Widened
  <2> HIDE DEF New
  <2>3. added \in [1..Len(list) -> Listings(L)]
    BY <1>2, <2>1, <2>2
  <2>4. added \in Seq(Listings(L))
    BY <1>2, <2>3
  <2>5. Tiles!Entries(added) = {New(e) : e \in Tiles!Entries(list)}
    BY <2>1 DEF Tiles!Entries
  <2>6. Tiles!Entries(added) # {}
    BY <1>3, <2>5
  <2>7. added # <<>>
    BY <2>4, <2>6, EmptyOrNot
  <2> QED
    BY <1>3, <2>4, <2>5, <2>7 DEF added, N, New
<1>4. CASE ~known
  <2>1. added = Append(list, Line(l)) /\ Line(l) \in Listings(L)
    BY <1>1, <1>4, Lined
  <2>2. added \in Seq(Listings(L)) /\ Tiles!Entries(added) = Tiles!Entries(list) \cup {Line(l)}
    BY <2>1, Appended
  <2>3. Tiles!Entries(added) # {}
    BY <2>2
  <2>4. added # <<>>
    BY <2>2, <2>3, EmptyOrNot
  <2> QED
    BY <1>4, <2>2, <2>4 DEF added, N
<1> QED
  BY <1>3, <1>4

\* a listing of the first n layers: the entry of a name begins with their lowest
\* and ends with their highest zoom
Listed(L, s, n, list) ==
  /\ list \in Seq(Listings(L))
  /\ \A e \in Tiles!Entries(list) :
       /\ \E i \in 1..n : Tiles!MVTName(s[i]) = e.name /\ s[i].min = e.min
       /\ \E i \in 1..n : Tiles!MVTName(s[i]) = e.name /\ s[i].max = e.max
       /\ \A i \in 1..n : Tiles!MVTName(s[i]) = e.name => e.min <= s[i].min /\ s[i].max <= e.max
  /\ \A i \in 1..n : \E e \in Tiles!Entries(list) : e.name = Tiles!MVTName(s[i])

LEMMA ListedFurther ==
  ASSUME NEW L, Zoomed(L), NEW s \in Seq(L), NEW n \in 1..Len(s), NEW list,
         Listed(L, s, n - 1, list)
  PROVE  Listed(L, s, n, Tiles!AddLayer(list, s[n])) /\ Tiles!AddLayer(list, s[n]) # <<>>
<1> DEFINE l == s[n]  added == Tiles!AddLayer(list, l)  N == Tiles!MVTName(l)
<1>1. /\ list \in Seq(Listings(L))
      /\ \A e \in Tiles!Entries(list) :
           /\ \E i \in 1..(n - 1) : Tiles!MVTName(s[i]) = e.name /\ s[i].min = e.min
           /\ \E i \in 1..(n - 1) : Tiles!MVTName(s[i]) = e.name /\ s[i].max = e.max
           /\ \A i \in 1..(n - 1) : Tiles!MVTName(s[i]) = e.name => e.min <= s[i].min /\ s[i].max <= e.max
      /\ \A i \in 1..(n - 1) : \E e \in Tiles!Entries(list) : e.name = Tiles!MVTName(s[i])
  BY DEF Listed
<1>2. /\ l \in L /\ n \in 1..n /\ 1..n = 1..(n - 1) \cup {n}
      /\ \A i \in 1..n : s[i].min \in Nat /\ s[i].max \in Nat
  <2>1. \A i \in 1..n : s[i] \in L
    OBVIOUS
  <2> QED
    BY <2>1 DEF Zoomed
<1>3. /\ added \in Seq(Listings(L)) /\ added # <<>>
      /\ Tiles!Entries(added) =
           IF \E e \in Tiles!Entries(list) : e.name = N
           THEN {IF e.name = N THEN Wider(e, l) ELSE e : e \in Tiles!Entries(list)}
           ELSE Tiles!Entries(list) \cup {Line(l)}
  <2>1. l \in L /\ list \in Seq(Listings(L))
    BY <1>1, <1>2
  <2> HIDE DEF l
  <2> QED
    BY <2>1, AddedLayer
<1>4. \A e \in Tiles!Entries(list) : e \in Listings(L)
  BY <1>1 DEF Tiles!Entries
<1>5. l.min \in Nat /\ l.max \in Nat
  BY <1>2
<1> HIDE DEF added
<1>6. ASSUME NEW e \in Tiles!Entries(list), e.name # N
      PROVE  /\ \E i \in 1..n : Tiles!MVTName(s[i]) = e.name /\ s[i].min = e.min
             /\ \E i \in 1..n : Tiles!MVTName(s[i]) = e.name /\ s[i].max = e.max
             /\ \A i \in 1..n : Tiles!MVTName(s[i]) = e.name => e.min <= s[i].min /\ s[i].max <= e.max
  BY <1>1, <1>2, <1>6
<1>7. ASSUME NEW e \in Tiles!Entries(list), e.name = N
      PROVE  LET w == Wider(e, l)
             IN  /\ \E i \in 1..n : Tiles!MVTName(s[i]) = w.name /\ s[i].min = w.min
                 /\ \E i \in 1..n : Tiles!MVTName(s[i]) = w.name /\ s[i].max = w.max
                 /\ \A i \in 1..n : Tiles!MVTName(s[i]) = w.name => w.min <= s[i].min /\ s[i].max <= w.max
  <2> DEFINE w == Wider(e, l)
  <2>1. /\ e.min \in Nat /\ e.max \in Nat /\ w.name = N
        /\ w.min = Tiles!Lower(e.min, l.min) /\ w.max = Tiles!Higher(e.max, l.max)
    BY <1>2, <1>4, <1>7, Widened
  <2>2. /\ w.min \in {e.min, l.min} /\ w.min <= e.min /\ w.min <= l.min /\ w.min \in Nat
        /\ w.max \in {e.max, l.max} /\ e.max <= w.max /\ l.max <= w.max /\ w.max \in Nat
    BY <1>5, <2>1 DEF Tiles!Lower, Tiles!Higher
  <2> HIDE DEF w
  <2>3. \E i \in 1..n : Tiles!MVTName(s[i]) = w.name /\ s[i].min = w.min
    <3>1. PICK i \in 1..(n - 1) : Tiles!MVTName(s[i]) = N /\ s[i].min = e.min
      BY <1>1, <1>7
    <3>2. i \in 1..n /\ Tiles!MVTName(s[n]) = N /\ s[n].min = l.min
      BY <1>2
    <3> QED
      BY <1>2, <2>1, <2>2, <3>1, <3>2
  <2>4. \E i \in 1..n : Tiles!MVTName(s[i]) = w.name /\ s[i].max = w.max
    <3>1. PICK i \in 1..(n - 1) : Tiles!MVTName(s[i]) = N /\ s[i].max = e.max
      BY <1>1, <1>7
    <3>2. i \in 1..n /\ Tiles!MVTName(s[n]) = N /\ s[n].max = l.max
      BY <1>2
    <3> QED
      BY <1>2, <2>1, <2>2, <3>1, <3>2
  <2>5. ASSUME NEW i \in 1..n, Tiles!MVTName(s[i]) = w.name
        PROVE  w.min <= s[i].min /\ s[i].max <= w.max
    <3>1. CASE i = n
      BY <2>2, <3>1
    <3>2. CASE i # n
      <4>1. i \in 1..(n - 1) /\ s[i].min \in Nat /\ s[i].max \in Nat
        BY <1>2, <3>2
      <4>2. e.min <= s[i].min /\ s[i].max <= e.max
        BY <1>1, <1>7, <2>1, <2>5, <4>1
      <4> QED
        BY <2>1, <2>2, <4>1, <4>2
    <3> QED
      BY <3>1, <3>2
  <2> QED
    BY <2>3, <2>4, <2>5 DEF w
<1>8. CASE \E e \in Tiles!Entries(list) : e.name = N
  <2>1. Tiles!Entries(added) = {IF e.name = N THEN Wider(e, l) ELSE e : e \in Tiles!Entries(list)}
    BY <1>3, <1>8
  <2>2. ASSUME NEW f \in Tiles!Entries(added)
        PROVE  /\ \E i \in 1..n : Tiles!MVTName(s[i]) = f.name /\ s[i].min = f.min
               /\ \E i \in 1..n : Tiles!MVTName(s[i]) = f.name /\ s[i].max = f.max
               /\ \A i \in 1..n : Tiles!MVTName(s[i]) = f.name => f.min <= s[i].min /\ s[i].max <= f.max
    <3>1. PICK e \in Tiles!Entries(list) : f = IF e.name = N THEN Wider(e, l) ELSE e
      BY <2>1
    <3>2. CASE e.name = N
      <4>1. f = Wider(e, l)
        BY <3>1, <3>2
      <4> HIDE DEF l, N
      <4> QED
        BY <1>7, <3>2, <4>1
    <3>3. CASE e.name # N
      BY <1>6, <3>1, <3>3
    <3> QED
      BY <3>2, <3>3
  <2>3. ASSUME NEW i \in 1..n PROVE \E f \in Tiles!Entries(added) : f.name = Tiles!MVTName(s[i])
    <3>1. PICK e \in Tiles!Entries(list) : e.name = Tiles!MVTName(s[i])
      BY <1>1, <1>2, <1>8
    <3>2. CASE e.name = N
      <4>1. Wider(e, l).name = e.name
        BY <1>2, <1>4, Widened
      <4>2. Wider(e, l) \in Tiles!Entries(added)
        BY <2>1, <3>2
      <4> QED
        BY <3>1, <4>1, <4>2
    <3>3. CASE e.name # N
      BY <2>1, <3>1, <3>3
    <3> QED
      BY <3>2, <3>3
  <2> QED
    BY <1>3, <2>2, <2>3 DEF Listed, added
<1>9. CASE ~ \E e \in Tiles!Entries(list) : e.name = N
  <2>1. Tiles!Entries(added) = Tiles!Entries(list) \cup {Line(l)}
    BY <1>3, <1>9
  <2>2. Line(l).name = N /\ Line(l).min = l.min /\ Line(l).max = l.max
    BY <1>2, Lined
  <2>3. \A i \in 1..n : Tiles!MVTName(s[i]) = N => i = n
    BY <1>1, <1>2, <1>9
  <2>4. l.min <= l.min /\ l.max <= l.max
    BY <1>5
  <2>5. ASSUME NEW f \in Tiles!Entries(added)
        PROVE  /\ \E i \in 1..n : Tiles!MVTName(s[i]) = f.name /\ s[i].min = f.min
               /\ \E i \in 1..n : Tiles!MVTName(s[i]) = f.name /\ s[i].max = f.max
               /\ \A i \in 1..n : Tiles!MVTName(s[i]) = f.name => f.min <= s[i].min /\ s[i].max <= f.max
    <3>1. CASE f = Line(l)
      BY <1>2, <2>2, <2>3, <2>4, <3>1
    <3>2. CASE f \in Tiles!Entries(list)
      BY <1>6, <1>9, <3>2
    <3> QED
      BY <2>1, <3>1, <3>2
  <2>6. ASSUME NEW i \in 1..n PROVE \E f \in Tiles!Entries(added) : f.name = Tiles!MVTName(s[i])
    BY <1>1, <1>2, <2>1, <2>2
  <2> QED
    BY <1>3, <2>5, <2>6 DEF Listed, added
<1> QED
  BY <1>8, <1>9

LEMMA NothingListed == \A L, s : Listed(L, s, 0, <<>>)
<1> SUFFICES ASSUME NEW L, NEW s PROVE Listed(L, s, 0, <<>>)
  OBVIOUS
<1>1. <<>> \in Seq(Listings(L)) /\ Tiles!Entries(<<>>) = {} /\ 1..0 = {}
  BY NoEntries
<1> QED
  BY <1>1 DEF Listed

(* The listing of the capabilities.                                           *)
LEMMA LayersListed ==
  ASSUME NEW L, Zoomed(L), NEW m, NEW debug, Tiles!Shown(m, debug) \in Seq(L)
  PROVE  Listed(L, Tiles!Shown(m, debug), Len(Tiles!Shown(m, debug)), Tiles!MapLayers(m, debug))
<1> DEFINE s == Tiles!Shown(m, debug)
           Op(list, l) == Tiles!AddLayer(list, l)
           base == <<>>
<1>1. Tiles!MapLayers(m, debug) = FoldLeft(Op, base, s)
  BY DEF Tiles!MapLayers, Tiles!FoldLeft, FoldLeft, Tiles!MapThenFoldSet, MapThenFoldSet, Tiles!Max, Max
<1> HIDE DEF s
<1>2. Folded(Op, base, s, FoldLeft(Op, base, s))
  <2> HIDE DEF Op, base
  <2> QED BY FoldLeftFolds DEF s
<1>3. PICK r : /\ r[0] = base
               /\ \A n \in 1..Len(s) : r[n] = Op(r[n - 1], s[n])
               /\ FoldLeft(Op, base, s) = r[Len(s)]
  BY <1>2 DEF Folded
<1> DEFINE Good == {n \in 0..Len(s) : Listed(L, s, n, r[n])}
<1>4. s \in Seq(L) /\ Len(s) \in Nat
  BY DEF s
<1>5. 0 \in Good
  <2>1. r[0] = <<>>
    BY <1>3
  <2>2. Listed(L, s, 0, r[0])
    BY <2>1, NothingListed
  <2> QED
    BY <1>4, <2>2
<1>6. ASSUME NEW n \in 1..Len(s), n - 1 \in Good PROVE n \in Good
  <2>1. Listed(L, s, n - 1, r[n - 1]) /\ r[n] = Tiles!AddLayer(r[n - 1], s[n])
    BY <1>3, <1>6
  <2>2. Listed(L, s, n, r[n])
    BY <1>4, <2>1, ListedFurther
  <2> QED
    BY <1>4, <2>2
<1>7. Len(s) \in Good
  <2> HIDE DEF Good
  <2>1. \A n \in 0..Len(s) : n \in Good
    BY <1>4, <1>5, <1>6, Steps
  <2> QED BY <1>4, <2>1
<1> HIDE DEF Op, base
<1> QED
  BY <1>1, <1>3, <1>7 DEF s

(* The TileJSON of a map has the same listing, and its zooms hold all of it.  *)
LEMMA TileJSONListed ==
  ASSUME NEW L, Zoomed(L), NEW m, NEW debug, Tiles!Shown(m, debug) \in Seq(L)
  PROVE  LET json == Tiles!TileJSON(m, debug)
         IN  /\ json.layers = Tiles!MapLayers(m, debug)
             /\ json.layers # <<>> => \A e \in Tiles!Entries(json.layers) : json.min <= e.min /\ e.max <= json.max
<1> DEFINE s == Tiles!Shown(m, debug)
           Op(list, l) == Tiles!AddLayer(list, l)
           base == <<>>
           Step(acc, l) == Tiles!TileJSONStep(acc, l)
           start == [layers |-> <<>>, min |-> 0, max |-> 0]
           json == Tiles!TileJSON(m, debug)
<1>1. Tiles!MapLayers(m, debug) = FoldLeft(Op, base, s)
  BY DEF Tiles!MapLayers, Tiles!FoldLeft, FoldLeft, Tiles!MapThenFoldSet, MapThenFoldSet, Tiles!Max, Max
<1>2. json = FoldLeft(Step, start, s)
  BY DEF Tiles!TileJSON, Tiles!FoldLeft, FoldLeft, Tiles!MapThenFoldSet, MapThenFoldSet, Tiles!Max, Max
<1> HIDE DEF s, json
<1>3. Folded(Op, base, s, FoldLeft(Op, base, s))
  <2> HIDE DEF Op, base
  <2> QED BY FoldLeftFolds DEF s
<1>4. Folded(Step, start, s, FoldLeft(Step, start, s))
  <2> HIDE DEF Step, start
  <2> QED BY FoldLeftFolds DEF s
<1>5. PICK r : /\ r[0] = base
               /\ \A n \in 1..Len(s) : r[n] = Op(r[n - 1], s[n])
               /\ FoldLeft(Op, base, s) = r[Len(s)]
  BY <1>3 DEF Folded
<1>6. PICK q : /\ q[0] = start
               /\ \A n \in 1..Len(s) : q[n] = Step(q[n - 1], s[n])
               /\ FoldLeft(Step, start, s) = q[Len(s)]
  BY <1>4 DEF Folded
<1>7. s \in Seq(L) /\ Len(s) \in Nat
  BY DEF s
<1> DEFINE G(n) == /\ Listed(L, s, n, r[n]) /\ q[n].layers = r[n]
                   /\ q[n].min \in Nat /\ q[n].max \in Nat
                   /\ \A i \in 1..n : q[n].min <= s[i].min /\ s[i].max <= q[n].max
           Good == {n \in 0..Len(s) : G(n)}
<1>8. 0 \in Good
  <2>1. q[0].layers = <<>> /\ q[0].min = 0 /\ q[0].max = 0 /\ r[0] = <<>>
    <3>1. r[0] = <<>>
      BY <1>5
    <3>2. q[0] = start
      BY <1>6
    <3> QED
      BY <3>1, <3>2
  <2>2. Listed(L, s, 0, r[0])
    BY <2>1, NothingListed
  <2>3. G(0)
    BY <2>1, <2>2
  <2> QED
    BY <1>7, <2>3
<1>9. ASSUME NEW n \in 1..Len(s), n - 1 \in Good PROVE n \in Good
  <2> DEFINE l == s[n]  a == q[n - 1]  first == a.layers = <<>>
  <2>1. G(n - 1)
    BY <1>9
  <2>2. /\ r[n] = Tiles!AddLayer(r[n - 1], l)
        /\ q[n] = [layers |-> Tiles!AddLayer(a.layers, l),
                   min |-> IF first THEN l.min ELSE Tiles!Lower(a.min, l.min),
                   max |-> IF first THEN l.max ELSE Tiles!Higher(a.max, l.max)]
    BY <1>5, <1>6 DEF Tiles!TileJSONStep
  <2>3. Listed(L, s, n, r[n])
    BY <1>7, <2>1, <2>2, ListedFurther
  <2>4. l.min \in Nat /\ l.max \in Nat
    <3>1. l \in L
      BY <1>7
    <3> QED
      BY <3>1 DEF Zoomed
  <2>5. a.layers = r[n - 1] /\ a.min \in Nat /\ a.max \in Nat
    BY <2>1
  <2>6. first => n = 1
    <3>1. ASSUME first, n # 1 PROVE FALSE
      <4>1. 1 \in 1..(n - 1)
        BY <1>7, <3>1
      <4>2. \E e \in Tiles!Entries(r[n - 1]) : e.name = Tiles!MVTName(s[1])
        BY <2>1, <4>1 DEF Listed
      <4> QED
        BY <2>5, <3>1, <4>2, NoEntries
    <3> QED
      BY <3>1
  <2>7. /\ q[n].layers = Tiles!AddLayer(a.layers, l)
        /\ q[n].min = IF first THEN l.min ELSE Tiles!Lower(a.min, l.min)
        /\ q[n].max = IF first THEN l.max ELSE Tiles!Higher(a.max, l.max)
    BY <2>2
  <2>8. q[n].layers = r[n]
    BY <2>2, <2>5, <2>7
  <2> HIDE DEF a, l, first
  <2>9. /\ q[n].min \in Nat /\ q[n].max \in Nat /\ q[n].min <= l.min /\ l.max <= q[n].max
        /\ ~first => q[n].min <= a.min /\ a.max <= q[n].max
    BY <2>4, <2>5, <2>7 DEF Tiles!Lower, Tiles!Higher
  <2>10. ASSUME NEW i \in 1..n PROVE q[n].min <= s[i].min /\ s[i].max <= q[n].max
    <3>1. CASE i = n
      BY <2>9, <3>1 DEF l
    <3>2. CASE i # n
      <4>1. i \in 1..(n - 1) /\ n # 1
        BY <1>7, <3>2
      <4>2. a.min <= s[i].min /\ s[i].max <= a.max
        BY <2>1, <4>1 DEF a
      <4>3. s[i].min \in Nat /\ s[i].max \in Nat
        <5>1. s[i] \in L
          BY <1>7
        <5> QED
          BY <5>1 DEF Zoomed
      <4>4. q[n].min <= a.min /\ a.max <= q[n].max
        BY <2>6, <2>9, <4>1
      <4> QED
        BY <2>5, <2>9, <4>2, <4>3, <4>4
    <3> QED
      BY <3>1, <3>2
  <2>11. G(n)
    BY <2>3, <2>8, <2>9, <2>10
  <2> QED
    BY <1>7, <2>11
<1>10. G(Len(s))
  <2>1. Len(s) \in Good
    <3> HIDE DEF Good
    <3>1. \A n \in 0..Len(s) : n \in Good
      BY <1>7, <1>8, <1>9, Steps
    <3> QED BY <1>7, <3>1
  <2> QED
    BY <2>1
<1> DEFINE n == Len(s)
<1>11. json = q[n] /\ Tiles!MapLayers(m, debug) = r[n]
  <2> HIDE DEF Op, Step, base, start
  <2> QED
    BY <1>1, <1>2, <1>5, <1>6
<1>12. ASSUME NEW e \in Tiles!Entries(r[n]) PROVE q[n].min <= e.min /\ e.max <= q[n].max
  <2>1. Listed(L, s, n, r[n])
    BY <1>10
  <2>2. PICK i \in 1..n : s[i].min = e.min
    BY <2>1 DEF Listed
  <2>3. PICK j \in 1..n : s[j].max = e.max
    BY <2>1 DEF Listed
  <2> QED
    BY <1>10, <2>2, <2>3
<1> HIDE DEF Good, n
<1> QED
  BY <1>10, <1>11, <1>12 DEF json, n

(* The style of a map has one layer of a name.                                *)
LEMMA StyleListed ==
  ASSUME NEW L, NEW m, NEW debug, Tiles!Shown(m, debug) \in Seq(L)
  PROVE  LET s == Tiles!Shown(m, debug)  style == Tiles!Style(m, debug)
         IN  /\ \A i, j \in DOMAIN style : style[i].name = style[j].name => i = j
             /\ \A i \in DOMAIN style : \E k \in 1..Len(s) : style[i].name = Tiles!MVTName(s[k])
<1> DEFINE s == Tiles!Shown(m, debug)
           Op(styles, l) == Tiles!StyleStep(styles, l)
           base == <<>>
           S == {[name |-> Tiles!MVTName(l), geom |-> l.geom] : l \in L}
<1>1. Tiles!Style(m, debug) = FoldLeft(Op, base, s)
  BY DEF Tiles!Style, Tiles!FoldLeft, FoldLeft, Tiles!MapThenFoldSet, MapThenFoldSet, Tiles!Max, Max
<1> HIDE DEF s
<1>2. Folded(Op, base, s, FoldLeft(Op, base, s))
  <2> HIDE DEF Op, base
  <2> QED BY FoldLeftFolds DEF s
<1>3. PICK r : /\ r[0] = base
               /\ \A n \in 1..Len(s) : r[n] = Op(r[n - 1], s[n])
               /\ FoldLeft(Op, base, s) = r[Len(s)]
  BY <1>2 DEF Folded
<1>4. s \in Seq(L) /\ Len(s) \in Nat
  BY DEF s
<1> DEFINE G(n, t) == /\ t \in Seq(S)
                      /\ \A i, j \in DOMAIN t : t[i].name = t[j].name => i = j
                      /\ \A i \in DOMAIN t : \E k \in 1..n : t[i].name = Tiles!MVTName(s[k])
           Good == {n \in 0..Len(s) : G(n, r[n])}
<1>5. 0 \in Good
  <2>1. r[0] = <<>>
    BY <1>3
  <2>2. <<>> \in Seq(S) /\ DOMAIN <<>> = {}
    OBVIOUS
  <2>3. G(0, r[0])
    BY <2>1, <2>2
  <2> QED
    BY <1>4, <2>3
<1>6. ASSUME NEW n \in 1..Len(s), n - 1 \in Good PROVE n \in Good
  <2> DEFINE t == r[n - 1]  l == s[n]  new == [name |-> Tiles!MVTName(l), geom |-> l.geom]
  <2>1. G(n - 1, t)
    BY <1>6
  <2>2. r[n] = IF l.geom = "unknown" \/ \E i \in DOMAIN t : t[i].name = Tiles!MVTName(l) THEN t
               ELSE Append(t, new)
    BY <1>3 DEF Tiles!StyleStep
  <2>3. n \in 1..n /\ \A k \in 1..(n - 1) : k \in 1..n
    BY <1>4
  <2>4. CASE r[n] = t
    <3>1. G(n, r[n])
      BY <2>1, <2>3, <2>4
    <3> QED
      BY <1>4, <3>1
  <2>5. CASE r[n] = Append(t, new) /\ ~ \E i \in DOMAIN t : t[i].name = Tiles!MVTName(l)
    <3>1. new \in S /\ new.name = Tiles!MVTName(l)
      BY <1>4
    <3> DEFINE u == Append(t, new)  k == Len(t)
    <3>2. k \in Nat /\ DOMAIN t = 1..k /\ t \in Seq(S)
      BY <2>1
    <3> HIDE DEF t, new, S
    <3>3. /\ u \in Seq(S) /\ Len(u) = k + 1 /\ \A i \in 1..k : u[i] = t[i]
          /\ u[k + 1] = new
      BY <3>1, <3>2, Appended
    <3>4. DOMAIN u = 1..(k + 1) /\ 1..(k + 1) = 1..k \cup {k + 1}
      BY <3>2, <3>3
    <3> HIDE DEF u, k
    <3>5. \A i \in 1..k : u[i].name # u[k + 1].name
      BY <2>5, <3>1, <3>2, <3>3
    <3>6. \A i, j \in DOMAIN u : u[i].name = u[j].name => i = j
      <4>1. \A i, j \in 1..k : u[i].name = u[j].name => i = j
        BY <2>1, <3>2, <3>3
      <4> QED
        BY <3>4, <3>5, <4>1
    <3>7. \A i \in DOMAIN u : \E h \in 1..n : u[i].name = Tiles!MVTName(s[h])
      <4>1. \A i \in 1..k : \E h \in 1..n : u[i].name = Tiles!MVTName(s[h])
        BY <2>1, <2>3, <3>2, <3>3
      <4>2. u[k + 1].name = Tiles!MVTName(s[n])
        BY <3>1, <3>3
      <4> QED
        BY <2>3, <3>4, <4>1, <4>2
    <3>8. G(n, u)
      BY <3>3, <3>6, <3>7
    <3>9. r[n] = u
      BY <2>5 DEF u
    <3>10. G(n, r[n])
      BY <3>8, <3>9
    <3> QED
      BY <1>4, <3>10
  <2> QED
    BY <2>2, <2>4, <2>5
<1>7. Len(s) \in Good
  <2> HIDE DEF Good
  <2>1. \A n \in 0..Len(s) : n \in Good
    BY <1>4, <1>5, <1>6, Steps
  <2> QED BY <1>4, <2>1
<1>8. G(Len(s), r[Len(s)])
  BY <1>7
<1>9. Tiles!Style(m, debug) = r[Len(s)]
  <2> HIDE DEF Op, base
  <2> QED
    BY <1>1, <1>3
<1> HIDE DEF Good, S
<1> QED
  BY <1>8, <1>9 DEF s

\* the layers and the maps of a server, and the layers it may show
Listable(Segment)  == LayersIn(Segment) \cup Tiles!Entries(Tiles!DebugLayers)
Debugs(m, debug) == IF debug /\ ~m.mvt THEN Tiles!Entries(Tiles!DebugLayers) ELSE {}

LEMMA DebugLayersAre ==
  ASSUME MaxZ \in Nat
  PROVE  /\ Tiles!DebugLayers \in Seq(Tiles!Entries(Tiles!DebugLayers))
         /\ \A l \in Tiles!Entries(Tiles!DebugLayers) :
              l.min = 0 /\ l.max = MaxZ /\ Tiles!MVTName(l) \in Tiles!DebugNames
<1> DEFINE one == [name |-> Tiles!Word("debug-tile-outline"), plname |-> Tiles!Word("debug-tile-outline"),
                   geom |-> "line", min |-> 0, max |-> MaxZ]
           two == [name |-> Tiles!Word("debug-tile-center"), plname |-> Tiles!Word("debug-tile-center"),
                   geom |-> "point", min |-> 0, max |-> MaxZ]
<1>1. Tiles!DebugLayers = <<one, two>>
  BY DEF Tiles!DebugLayers
<1>2. /\ one.min = 0 /\ one.max = MaxZ /\ Tiles!MVTName(one) \in Tiles!DebugNames
      /\ two.min = 0 /\ two.max = MaxZ /\ Tiles!MVTName(two) \in Tiles!DebugNames
  BY DEF Tiles!MVTName, Tiles!DebugNames
<1> HIDE DEF one, two
<1>3. <<one, two>> \in Seq({one, two}) /\ Tiles!Entries(<<one, two>>) = {one, two}
  <2>1. DOMAIN <<one, two>> = {1, 2} /\ <<one, two>>[1] = one /\ <<one, two>>[2] = two
    OBVIOUS
  <2>2. Tiles!Entries(<<one, two>>) = {one, two}
    BY <2>1 DEF Tiles!Entries
  <2> QED
    BY <2>2
<1> QED
  BY <1>1, <1>2, <1>3

LEMMA Joined ==
  ASSUME NEW S, NEW s \in Seq(S), NEW t \in Seq(S)
  PROVE  s \o t \in Seq(S) /\ Tiles!Entries(s \o t) = Tiles!Entries(s) \cup Tiles!Entries(t)
<1> DEFINE u == s \o t  a == Len(s)  b == Len(t)
<1>1. /\ u \in Seq(S) /\ Len(u) = a + b
      /\ \A i \in 1..(a + b) : u[i] = IF i <= a THEN s[i] ELSE t[i - a]
  BY ConcatProperties
<1>2. a \in Nat /\ b \in Nat /\ DOMAIN s = 1..a /\ DOMAIN t = 1..b /\ DOMAIN u = 1..(a + b)
  BY <1>1
<1> HIDE DEF u, a, b
<1>3. ASSUME NEW i \in 1..(a + b) PROVE u[i] \in Tiles!Entries(s) \cup Tiles!Entries(t)
  <2>1. CASE i <= a
    <3>1. i \in DOMAIN s /\ u[i] = s[i]
      BY <1>1, <1>2, <2>1
    <3> QED
      BY <3>1 DEF Tiles!Entries
  <2>2. CASE ~(i <= a)
    <3>1. i - a \in DOMAIN t /\ u[i] = t[i - a]
      BY <1>1, <1>2, <2>2
    <3> QED
      BY <3>1 DEF Tiles!Entries
  <2> QED
    BY <2>1, <2>2
<1>4. ASSUME NEW i \in 1..a PROVE s[i] \in Tiles!Entries(u)
  <2>1. i \in DOMAIN u /\ u[i] = s[i]
    BY <1>1, <1>2
  <2> QED
    BY <2>1 DEF Tiles!Entries
<1>5. ASSUME NEW i \in 1..b PROVE t[i] \in Tiles!Entries(u)
  <2>1. a + i \in DOMAIN u /\ ~(a + i <= a) /\ (a + i) - a = i /\ a + i \in 1..(a + b)
    BY <1>2
  <2>2. u[a + i] = t[i]
    BY <1>1, <2>1
  <2> QED
    BY <2>1, <2>2 DEF Tiles!Entries
<1>6. Tiles!Entries(u) = Tiles!Entries(s) \cup Tiles!Entries(t)
  <2>1. Tiles!Entries(u) \subseteq Tiles!Entries(s) \cup Tiles!Entries(t)
    <3> SUFFICES ASSUME NEW e \in Tiles!Entries(u) PROVE e \in Tiles!Entries(s) \cup Tiles!Entries(t)
      OBVIOUS
    <3>1. PICK i \in DOMAIN u : e = u[i]
      BY DEF Tiles!Entries
    <3> QED
      BY <1>2, <1>3, <3>1
  <2>2. Tiles!Entries(s) \subseteq Tiles!Entries(u) /\ Tiles!Entries(t) \subseteq Tiles!Entries(u)
    <3>1. \A e \in Tiles!Entries(s) : \E i \in 1..a : e = s[i]
      BY <1>2 DEF Tiles!Entries
    <3>2. \A e \in Tiles!Entries(t) : \E i \in 1..b : e = t[i]
      BY <1>2 DEF Tiles!Entries
    <3> QED
      BY <1>4, <1>5, <3>1, <3>2
  <2> QED
    BY <2>1, <2>2
<1> QED
  BY <1>1, <1>6 DEF u

\* what a map of these layers shows
LEMMA ShownLayers ==
  ASSUME MaxZ \in Nat, NEW Segment, NEW m \in MapsIn(Segment), NEW debug
  PROVE  /\ Zoomed(Listable(Segment))
         /\ Tiles!Shown(m, debug) \in Seq(Listable(Segment))
         /\ Tiles!Entries(Tiles!Shown(m, debug)) = Tiles!Entries(m.layers) \cup Debugs(m, debug)
<1> DEFINE S == Listable(Segment)  extra == Tiles!DebugLayers
<1>1. Zoomed(S)
  <2>1. \A l \in LayersIn(Segment) : l.min \in Nat /\ l.max \in Nat
    BY DEF LayersIn
  <2>2. \A l \in Tiles!Entries(extra) : l.min \in Nat /\ l.max \in Nat
    BY DebugLayersAre
  <2> QED
    BY <2>1, <2>2 DEF Zoomed, Listable
<1>2. m.layers \in Seq(S) /\ extra \in Seq(S)
  <2>0. m.layers \in Seq(LayersIn(Segment))
    BY DEF MapsIn
  <2>1. LayersIn(Segment) \subseteq S /\ Tiles!Entries(extra) \subseteq S
    BY DEF Listable
  <2>2. extra \in Seq(Tiles!Entries(extra))
    BY DebugLayersAre
  <2> HIDE DEF S, extra
  <2>3. \A A, B : A \subseteq B => Seq(A) \subseteq Seq(B)
    OBVIOUS
  <2> QED
    BY <2>0, <2>1, <2>2, <2>3
<1>3. CASE debug /\ ~m.mvt
  <2>1. Tiles!Shown(m, debug) = m.layers \o extra
    <3>1. \A f : [m EXCEPT !.layers = f].layers = f
      BY DEF MapsIn
    <3>2. Tiles!AddDebugLayers(m) = [m EXCEPT !.layers = m.layers \o extra]
      BY <1>3 DEF Tiles!AddDebugLayers
    <3> QED
      BY <1>3, <3>1, <3>2 DEF Tiles!Shown
  <2>2. Debugs(m, debug) = Tiles!Entries(extra)
    BY <1>3 DEF Debugs
  <2> HIDE DEF S, extra
  <2>3. /\ m.layers \o extra \in Seq(S)
        /\ Tiles!Entries(m.layers \o extra) = Tiles!Entries(m.layers) \cup Tiles!Entries(extra)
    BY <1>2, Joined
  <2> QED
    BY <1>1, <2>1, <2>2, <2>3 DEF S
<1>4. CASE ~(debug /\ ~m.mvt)
  <2>1. Tiles!Shown(m, debug) = m.layers /\ Debugs(m, debug) = {}
    BY <1>4 DEF Tiles!Shown, Tiles!AddDebugLayers, Debugs
  <2> QED
    BY <1>1, <1>2, <2>1
<1> QED
  BY <1>3, <1>4

ByName(l, n) ==
  \/ l.name # Tiles!Nameless /\ l.name = n
  \/ l.plname # Tiles!Nameless /\ (l.plname = n \/ <<l.plname, n>> \in PartOf)
Wanted(m, layer, z) ==
  {l \in Tiles!Entries(m.layers) :
     l.min <= z /\ l.max >= z /\ (layer = Tiles!Nameless \/ ByName(l, layer))}

LEMMA Names == \A s : Tiles!NamesOf(s) = {Tiles!MVTName(e) : e \in Tiles!Entries(s)}
BY DEF Tiles!NamesOf, Tiles!Entries

(* The tile handler draws the wanted layers and, when there is one, the debug *)
(* layers.                                                                     *)
LEMMA DrawnLayers ==
  ASSUME MaxZ \in Nat, NEW Segment, NEW m \in MapsIn(Segment), NEW debug, NEW layer, NEW z
  PROVE  Tiles!NamesOf(Tiles!Drawn(m, layer, z, debug)) =
           IF Wanted(m, layer, z) = {} THEN {}
           ELSE {Tiles!MVTName(l) : l \in Wanted(m, layer, z) \cup Debugs(m, debug)}
<1> DEFINE S == LayersIn(Segment)  s == m.layers
           zoomed == Tiles!FilterLayersByZoom(s, z)
           filtered == IF layer = Tiles!Nameless THEN zoomed ELSE Tiles!FilterLayersByName(zoomed, layer)
           k == [m EXCEPT !.layers = filtered]
<1>1. s \in Seq(S)
  BY DEF MapsIn
<1>2. zoomed \in Seq(S) /\ Tiles!Entries(zoomed) = {l \in Tiles!Entries(s) : l.min <= z /\ l.max >= z}
  <2> DEFINE wanted == {l \in Tiles!Entries(s) : l.min <= z /\ l.max >= z}
  <2>1. zoomed = Tiles!Kept(s, wanted)
    BY DEF Tiles!FilterLayersByZoom
  <2>2. Tiles!Entries(s) \cap wanted = wanted
    OBVIOUS
  <2> HIDE DEF wanted, s, zoomed, S
  <2>3. zoomed \in Seq(S) /\ Tiles!Entries(zoomed) = wanted
    BY <1>1, <2>1, <2>2, KeptLayers
  <2> QED
    BY <2>3 DEF wanted
<1>3. filtered \in Seq(S) /\ Tiles!Entries(filtered) = Wanted(m, layer, z)
  <2>1. CASE layer = Tiles!Nameless
    <3>1. filtered = zoomed
      BY <2>1
    <3>2. Wanted(m, layer, z) = {l \in Tiles!Entries(s) : l.min <= z /\ l.max >= z}
      BY <2>1 DEF Wanted
    <3> QED
      BY <1>2, <3>1, <3>2
  <2>2. CASE layer # Tiles!Nameless
    <3> DEFINE wanted == {l \in Tiles!Entries(zoomed) : ByName(l, layer)}
    <3>1. filtered = Tiles!Kept(zoomed, wanted)
      BY <2>2 DEF Tiles!FilterLayersByName, ByName
    <3>2. Tiles!Entries(zoomed) \cap wanted = wanted
      OBVIOUS
    <3>3. wanted = Wanted(m, layer, z)
      BY <1>2, <2>2 DEF Wanted
    <3> HIDE DEF wanted, zoomed, S, filtered
    <3>4. filtered \in Seq(S) /\ Tiles!Entries(filtered) = wanted
      BY <1>2, <3>1, <3>2, KeptLayers
    <3> QED
      BY <3>3, <3>4
  <2> QED
    BY <2>1, <2>2
<1>4. Tiles!Drawn(m, layer, z, debug) = IF filtered = <<>> THEN <<>> ELSE Tiles!Shown(k, debug)
  BY DEF Tiles!Drawn
<1> HIDE DEF filtered, zoomed, s, S
<1>5. k \in MapsIn(Segment) /\ k.layers = filtered /\ k.mvt = m.mvt
  BY <1>3 DEF MapsIn, S
<1>6. filtered = <<>> <=> Wanted(m, layer, z) = {}
  BY <1>3, EmptyOrNot
<1>7. CASE Wanted(m, layer, z) = {}
  <2>1. Tiles!Drawn(m, layer, z, debug) = <<>>
    BY <1>4, <1>6, <1>7
  <2> QED
    BY <1>7, <2>1, Names, NoEntries
<1>8. CASE Wanted(m, layer, z) # {}
  <2>1. Tiles!Drawn(m, layer, z, debug) = Tiles!Shown(k, debug)
    BY <1>4, <1>6, <1>8
  <2>2. Debugs(k, debug) = Debugs(m, debug)
    BY <1>5 DEF Debugs
  <2> HIDE DEF k
  <2>3. Tiles!Entries(Tiles!Shown(k, debug)) = Wanted(m, layer, z) \cup Debugs(m, debug)
    BY <1>3, <1>5, <2>2, ShownLayers
  <2> QED
    BY <1>8, <2>1, <2>3, Names
<1> QED
  BY <1>7, <1>8

(* What is advertised is what is drawn, at every zoom: the listings of the    *)
(* capabilities and of the TileJSON next to the layers of a tile.              *)
THEOREM ZoomsAreAdvertised ==
  ASSUME MaxZ \in Nat, NEW Segment, NEW m \in MapsIn(Segment), NEW debug \in BOOLEAN
  PROVE  Tiles!ZoomsAdvertised(m, debug)
<1> DEFINE list == Tiles!MapLayers(m, debug)
           At(z) == Tiles!NamesOf(Tiles!Drawn(m, Tiles!Nameless, z, debug))
           json == Tiles!TileJSON(m, debug)
           s == Tiles!Shown(m, debug)  L == Listable(Segment)
<1> SUFFICES ASSUME \A i \in DOMAIN m.layers : m.layers[i].min <= m.layers[i].max
    PROVE  /\ \A z \in 0..MaxZ : \A n \in At(z) :
                \E e \in Tiles!Entries(list) : e.name = n /\ e.min <= z /\ z <= e.max
           /\ \A e \in Tiles!Entries(list) : e.name \notin Tiles!DebugNames =>
                e.name \in At(e.min) /\ e.name \in At(e.max)
           /\ json.layers = list
           /\ list # <<>> => \A e \in Tiles!Entries(list) : json.min <= e.min /\ e.max <= json.max
  BY DEF Tiles!ZoomsAdvertised
<1>1. /\ Zoomed(L) /\ s \in Seq(L)
      /\ Tiles!Entries(s) = Tiles!Entries(m.layers) \cup Debugs(m, debug)
  BY ShownLayers
<1>2. Listed(L, s, Len(s), list)
  BY <1>1, LayersListed
<1>3. json.layers = list /\ (list # <<>> => \A e \in Tiles!Entries(list) : json.min <= e.min /\ e.max <= json.max)
  <2> HIDE DEF L
  <2> QED
    BY <1>1, TileJSONListed
<1>4. \A z : At(z) = IF Wanted(m, Tiles!Nameless, z) = {} THEN {}
                     ELSE {Tiles!MVTName(l) : l \in Wanted(m, Tiles!Nameless, z) \cup Debugs(m, debug)}
  BY DrawnLayers
<1>5. /\ \A l \in Tiles!Entries(s) : l.min \in Nat /\ l.max \in Nat
      /\ \A l \in Tiles!Entries(m.layers) : l.min <= l.max
      /\ \A l \in Debugs(m, debug) : l.min = 0 /\ l.max = MaxZ /\ Tiles!MVTName(l) \in Tiles!DebugNames
  <2>1. \A l \in Tiles!Entries(s) : l \in L
    BY <1>1 DEF Tiles!Entries
  <2>2. \A l \in Debugs(m, debug) : l \in Tiles!Entries(Tiles!DebugLayers)
    BY DEF Debugs
  <2>3. \A l \in Tiles!Entries(m.layers) : l.min <= l.max
    BY DEF Tiles!Entries
  <2> QED
    BY <1>1, <2>1, <2>2, <2>3, DebugLayersAre DEF Zoomed
<1>6. Tiles!Entries(s) = {s[i] : i \in 1..Len(s)} /\ Len(s) \in Nat
  BY <1>1 DEF Tiles!Entries
<1> HIDE DEF list, At, json, s, L
<1>7. ASSUME NEW z \in 0..MaxZ, NEW n \in At(z)
      PROVE  \E e \in Tiles!Entries(list) : e.name = n /\ e.min <= z /\ z <= e.max
  <2>1. PICK l \in Wanted(m, Tiles!Nameless, z) \cup Debugs(m, debug) : n = Tiles!MVTName(l)
    BY <1>4
  <2>2. l \in Tiles!Entries(s) /\ l.min <= z /\ z <= l.max
    <3>1. CASE l \in Wanted(m, Tiles!Nameless, z)
      <4>1. l \in Tiles!Entries(m.layers) /\ l.min <= z /\ l.max >= z
        BY <3>1 DEF Wanted
      <4>2. l \in Tiles!Entries(s) /\ l.min \in Nat /\ l.max \in Nat
        BY <1>1, <1>5, <4>1
      <4> QED
        BY <4>1, <4>2
    <3>2. CASE l \in Debugs(m, debug)
      <4>1. l \in Tiles!Entries(s) /\ l.min = 0 /\ l.max = MaxZ
        BY <1>1, <1>5, <3>2
      <4> QED
        BY <4>1
    <3> QED
      BY <2>1, <3>1, <3>2
  <2>3. PICK i \in 1..Len(s) : l = s[i]
    BY <1>6, <2>2
  <2>4. PICK e \in Tiles!Entries(list) : e.name = Tiles!MVTName(s[i])
    BY <1>2 DEF Listed
  <2>5. e.min <= s[i].min /\ s[i].max <= e.max
    BY <1>2, <2>4 DEF Listed
  <2>6. e.min \in Nat /\ e.max \in Nat
    <3>1. PICK a \in 1..Len(s) : s[a].min = e.min
      BY <1>2 DEF Listed
    <3>2. PICK b \in 1..Len(s) : s[b].max = e.max
      BY <1>2 DEF Listed
    <3>3. s[a] \in Tiles!Entries(s) /\ s[b] \in Tiles!Entries(s)
      BY <1>6
    <3> QED
      BY <1>5, <3>1, <3>2, <3>3
  <2>7. s[i].min \in Nat /\ s[i].max \in Nat /\ z \in Nat
    BY <1>5, <2>2, <2>3
  <2>8. e.min <= z /\ z <= e.max
    BY <2>2, <2>3, <2>5, <2>6, <2>7
  <2> QED
    BY <2>1, <2>3, <2>4, <2>8
<1>8. ASSUME NEW l \in Tiles!Entries(m.layers), NEW z, z = l.min \/ z = l.max
      PROVE  Tiles!MVTName(l) \in At(z)
  <2>1. l.min \in Nat /\ l.max \in Nat /\ l.min <= l.max
    BY <1>1, <1>5
  <2>2. l.min <= z /\ l.max >= z
    BY <1>8, <2>1
  <2>3. l \in Wanted(m, Tiles!Nameless, z)
    BY <2>2 DEF Wanted
  <2> QED
    BY <1>4, <2>3
<1>9. ASSUME NEW e \in Tiles!Entries(list), e.name \notin Tiles!DebugNames
      PROVE  e.name \in At(e.min) /\ e.name \in At(e.max)
  <2>1. PICK a \in 1..Len(s) : Tiles!MVTName(s[a]) = e.name /\ s[a].min = e.min
    BY <1>2 DEF Listed
  <2>2. PICK b \in 1..Len(s) : Tiles!MVTName(s[b]) = e.name /\ s[b].max = e.max
    BY <1>2 DEF Listed
  <2>3. s[a] \in Tiles!Entries(m.layers) /\ s[b] \in Tiles!Entries(m.layers)
    <3>1. s[a] \in Tiles!Entries(s) /\ s[b] \in Tiles!Entries(s)
      BY <1>6
    <3>2. s[a] \notin Debugs(m, debug) /\ s[b] \notin Debugs(m, debug)
      BY <1>5, <1>9, <2>1, <2>2
    <3> QED
      BY <1>1, <3>1, <3>2
  <2> QED
    BY <1>8, <2>1, <2>2, <2>3
<1> QED
  BY <1>3, <1>7, <1>9

(* A style names a layer once, and only layers the TileJSON has.              *)
THEOREM StylesAreNamed ==
  ASSUME MaxZ \in Nat, NEW Segment, NEW m \in MapsIn(Segment), NEW debug \in BOOLEAN
  PROVE  Tiles!StylesNamed(m, debug)
<1> DEFINE s == Tiles!Shown(m, debug)  style == Tiles!Style(m, debug)
           list == Tiles!MapLayers(m, debug)  L == Listable(Segment)
<1>1. Zoomed(L) /\ s \in Seq(L)
  BY ShownLayers
<1>2. Listed(L, s, Len(s), list)
  BY <1>1, LayersListed
<1>3. /\ \A i, j \in DOMAIN style : style[i].name = style[j].name => i = j
      /\ \A i \in DOMAIN style : \E k \in 1..Len(s) : style[i].name = Tiles!MVTName(s[k])
  <2> HIDE DEF L
  <2> QED
    BY <1>1, StyleListed
<1>4. \A k \in 1..Len(s) : \E e \in Tiles!Entries(list) : e.name = Tiles!MVTName(s[k])
  BY <1>2 DEF Listed
<1> HIDE DEF s, style, list
<1>5. \A i \in DOMAIN style : style[i].name \in {e.name : e \in Tiles!Entries(list)}
  BY <1>3, <1>4
<1> QED
  BY <1>3, <1>5 DEF Tiles!StylesNamed, style, list

\* what the provers do not know of powers
Powers == \A z \in 0..MaxZ : 2^z \in Nat \ {0}

(* The URL of a layer in the capabilities is answered with that layer, at     *)
(* each zoom where the tile of the map has it.                                 *)
THEOREM LayersAreServed ==
  ASSUME MaxZ \in Nat, Powers, NEW Segment, NotPlaceholders(Segment),
         NEW prefix \in Seq(Segment), NEW m \in MapsIn(Segment), NEW debug \in BOOLEAN
  PROVE  Tiles!LayerServed(prefix, m, debug)
<1> SUFFICES ASSUME NEW e \in Tiles!Entries(Tiles!MapLayers(m, debug)), NEW z \in 0..MaxZ,
                    e.name \in Tiles!NamesOf(Tiles!Drawn(m, Tiles!Nameless, z, debug)) \ Tiles!DebugNames
      PROVE  LET url == Tiles!FillIn(Tiles!TemplatePath(prefix, m.name, e.name), z, 0, 0)
                 req == Tiles!ParseURI(prefix, url)
             IN  /\ Tiles!Routed(prefix, url) /\ req.ok /\ req.map = m.name
                 /\ e.name \in Tiles!NamesOf(Tiles!Drawn(m, req.layer, req.z, debug))
  BY DEF Tiles!LayerServed
<1> DEFINE n == e.name
           url == Tiles!FillIn(Tiles!TemplatePath(prefix, m.name, n), z, 0, 0)
           req == Tiles!ParseURI(prefix, url)
           all == Wanted(m, Tiles!Nameless, z)
<1>1. PICK l \in all : n = Tiles!MVTName(l)
  <2>1. all # {} /\ n \in {Tiles!MVTName(k) : k \in all \cup Debugs(m, debug)}
    BY DrawnLayers
  <2>2. \A k \in Debugs(m, debug) : Tiles!MVTName(k) \in Tiles!DebugNames
    BY DebugLayersAre DEF Debugs
  <2> HIDE DEF all
  <2> QED
    BY <2>1, <2>2
<1>2. /\ l \in Tiles!Entries(m.layers) /\ l.min <= z /\ l.max >= z
      /\ l.name \in Segment /\ l.plname \in Segment /\ m.name \in Segment
  <2>1. l \in Tiles!Entries(m.layers) /\ l.min <= z /\ l.max >= z
    BY DEF Wanted
  <2>2. m.layers \in Seq(LayersIn(Segment)) /\ m.name \in Segment
    BY DEF MapsIn
  <2>3. l \in LayersIn(Segment)
    BY <2>1, <2>2 DEF Tiles!Entries
  <2> QED
    BY <2>1, <2>2, <2>3 DEF LayersIn
<1>3. n \in Segment
  BY <1>1, <1>2 DEF Tiles!MVTName
<1>4. Tiles!Routed(prefix, url) /\ req = Tiles!Named(m.name, n, z, 0, 0)
  <2>1. 0 <= Tiles!LastXY(z)
    <3>1. 2^z \in Nat \ {0}
      BY DEF Powers
    <3> QED
      BY <3>1 DEF Tiles!LastXY
  <2> HIDE DEF n
  <2>2. Tiles!TemplateServed(prefix, m.name, n, z, 0, 0)
    BY <1>2, <1>3, <2>1, TemplateIsServed
  <2> QED
    BY <2>2 DEF Tiles!TemplateServed
<1>5. req.ok /\ req.map = m.name /\ req.layer = n /\ req.z = z
  BY <1>4 DEF Tiles!Named
<1>6. l \in Wanted(m, n, z)
  <2>1. n = Tiles!Nameless \/ ByName(l, n)
    <3>1. CASE l.name # Tiles!Nameless
      <4>1. n = l.name
        BY <1>1, <3>1 DEF Tiles!MVTName
      <4> QED
        BY <3>1, <4>1 DEF ByName
    <3>2. CASE l.name = Tiles!Nameless
      <4>1. n = l.plname
        BY <1>1, <3>2 DEF Tiles!MVTName
      <4> QED
        BY <4>1 DEF ByName
    <3> QED
      BY <3>1, <3>2
  <2> HIDE DEF n
  <2> QED
    BY <1>2, <2>1 DEF Wanted
<1>7. n \in Tiles!NamesOf(Tiles!Drawn(m, n, z, debug))
  <2> HIDE DEF n
  <2>1. Wanted(m, n, z) # {} /\ n \in {Tiles!MVTName(k) : k \in Wanted(m, n, z) \cup Debugs(m, debug)}
    BY <1>1, <1>6
  <2>2. Tiles!NamesOf(Tiles!Drawn(m, n, z, debug)) =
          {Tiles!MVTName(k) : k \in Wanted(m, n, z) \cup Debugs(m, debug)}
    BY <2>1, DrawnLayers
  <2> QED
    BY <2>1, <2>2
<1> HIDE DEF n, req, url
<1> QED
  BY <1>4, <1>5, <1>7 DEF n, req, url

(* The capabilities advertise the layers and zooms the tile handler draws,    *)
(* for every map and every name of its layers.                                 *)
THEOREM CapabilitiesAreSound ==
  ASSUME MaxZ \in Nat, Powers, NEW Segment, NotPlaceholders(Segment),
         NEW prefix \in Seq(Segment), NEW m \in MapsIn(Segment), NEW debug \in BOOLEAN
  PROVE  Tiles!Advertised(prefix, m, debug)
BY ZoomsAreAdvertised, LayersAreServed, StylesAreNamed DEF Tiles!Advertised

-----------------------------------------------------------------------------
(* The rows of the SQL providers.                                             *)
RowFields == {"gid", "geom", "tags", "idParsed", "err"}

\* columns with values of some type
Columns(C) == \A c \in C : "go" \in DOMAIN c.val /\ "v" \in DOMAIN c.val

\* the tags after one is set
LEMMA TagDomain ==
  \A tags, name, val : DOMAIN Pg!SetTag(tags, name, val) = {name} \cup DOMAIN tags
BY DEF Pg!SetTag, Pg!Over

LEMMA TagValue ==
  \A tags, name, val : Pg!SetTag(tags, name, val)[name] = val
BY DEF Pg!SetTag, Pg!Over

LEMMA OtherTags ==
  \A tags, name, val : \A k \in DOMAIN tags : k # name => Pg!SetTag(tags, name, val)[k] = tags[k]
BY DEF Pg!SetTag, Pg!Over

\* a value that is converted still holds what it held
LEMMA Transformed ==
  ASSUME NEW class, NEW val, "go" \in DOMAIN val, "v" \in DOMAIN val,
         NEW w \in Pg!TransformVal(class, val)
  PROVE  w.v = val.v
<1>1. \A type : [val EXCEPT !.go = type].v = val.v
  OBVIOUS
<1>2. w = val \/ \E type : w = [val EXCEPT !.go = type]
  BY Zenon DEF Pg!TransformVal
<1> QED
  BY <1>1, <1>2

\* the fields of a row that an assignment leaves alone
LEMMA RowSet ==
  ASSUME NEW a, DOMAIN a = RowFields, NEW x, NEW y
  PROVE  /\ LET b == [a EXCEPT !.err = x] IN DOMAIN b = RowFields /\ b.err = x
         /\ LET b == [a EXCEPT !.tags = x]
            IN  DOMAIN b = RowFields /\ b.tags = x /\ b.err = a.err /\ b.idParsed = a.idParsed
         /\ LET b == [a EXCEPT !.geom = x]
            IN  /\ DOMAIN b = RowFields /\ b.tags = a.tags /\ b.err = a.err
                /\ b.idParsed = a.idParsed /\ b.geom = x
         /\ LET b == [a EXCEPT !.gid = x, !.idParsed = y]
            IN  /\ DOMAIN b = RowFields /\ b.tags = a.tags /\ b.err = a.err
                /\ b.idParsed = y /\ b.geom = a.geom
<1>1. "err" \in DOMAIN a /\ "tags" \in DOMAIN a /\ "geom" \in DOMAIN a /\ "gid" \in DOMAIN a /\ "idParsed" \in DOMAIN a
  BY DEF RowFields
<1>2. LET b == [a EXCEPT !.err = x] IN DOMAIN b = RowFields /\ b.err = x
  BY <1>1
<1>3. LET b == [a EXCEPT !.tags = x]
      IN  DOMAIN b = RowFields /\ b.tags = x /\ b.err = a.err /\ b.idParsed = a.idParsed
  BY <1>1
<1>4. LET b == [a EXCEPT !.geom = x]
      IN  DOMAIN b = RowFields /\ b.tags = a.tags /\ b.err = a.err /\ b.idParsed = a.idParsed /\ b.geom = x
  BY <1>1
<1>5. LET b == [a EXCEPT !.gid = x, !.idParsed = y]
      IN  DOMAIN b = RowFields /\ b.tags = a.tags /\ b.err = a.err /\ b.idParsed = y /\ b.geom = a.geom
  BY <1>1
<1> QED
  BY <1>2, <1>3, <1>4, <1>5

IdColumn(id, cols, i)  == cols[i].name = id /\ cols[i].val # Pg!Nil
PlainTag(g, id, cols, i) == Pg!IsTag(g, id, cols, i) /\ cols[i].val.go # "hstore"
KeysOf(g, id, cols, i) ==
  IF Pg!IsTag(g, id, cols, i) /\ ~PlainTag(g, id, cols, i) THEN DOMAIN cols[i].val.v ELSE {}

\* the names of the tags of the first n columns, and the last column of a name
TagNames(g, id, cols, n) ==
  {cols[i].name : i \in {j \in 1..n : PlainTag(g, id, cols, j)}} \cup UNION {KeysOf(g, id, cols, i) : i \in 1..n}
LastTag(g, id, cols, n, i) ==
  /\ PlainTag(g, id, cols, i)
  /\ \A j \in 1..n : PlainTag(g, id, cols, j) /\ cols[j].name = cols[i].name => j <= i

\* what is read of the first n columns
ReadUpTo(g, id, cols, n, a) ==
  /\ DOMAIN a = RowFields
  /\ ~a.err =>
       /\ a.idParsed <=> \E i \in 1..n : IdColumn(id, cols, i)
       /\ DOMAIN a.tags = TagNames(g, id, cols, n)
       /\ \A i \in 1..n : LastTag(g, id, cols, n, i) => a.tags[cols[i].name].v = cols[i].val.v

LEMMA NamesUpTo ==
  ASSUME NEW g, NEW id, NEW cols, NEW n \in Nat, n # 0
  PROVE  /\ TagNames(g, id, cols, n) =
              TagNames(g, id, cols, n - 1) \cup KeysOf(g, id, cols, n)
                \cup (IF PlainTag(g, id, cols, n) THEN {cols[n].name} ELSE {})
         /\ \A i \in 1..(n - 1) : LastTag(g, id, cols, n, i) => LastTag(g, id, cols, n - 1, i)
<1>1. n \in 1..n /\ 1..n = 1..(n - 1) \cup {n}
  OBVIOUS
<1>2. \A i \in 1..(n - 1) : LastTag(g, id, cols, n, i) => LastTag(g, id, cols, n - 1, i)
  BY <1>1 DEF LastTag
<1> DEFINE P(m) == {cols[i].name : i \in {j \in 1..m : PlainTag(g, id, cols, j)}}
           K(m) == UNION {KeysOf(g, id, cols, i) : i \in 1..m}
<1>3. P(n) = P(n - 1) \cup (IF PlainTag(g, id, cols, n) THEN {cols[n].name} ELSE {})
  BY <1>1
<1>4. K(n) = K(n - 1) \cup KeysOf(g, id, cols, n)
  BY <1>1
<1>5. TagNames(g, id, cols, n) = P(n) \cup K(n) /\ TagNames(g, id, cols, n - 1) = P(n - 1) \cup K(n - 1)
  BY DEF TagNames
<1> HIDE DEF P, K
<1> QED
  BY <1>2, <1>3, <1>4, <1>5

\* a column that is no tag leaves the tags alone
LEMMA NoTag ==
  ASSUME NEW g, NEW id, NEW cols, NEW n \in Nat, n # 0, NEW a, NEW b,
         ReadUpTo(g, id, cols, n - 1, a), ~a.err,
         DOMAIN b = RowFields, b.tags = a.tags, ~Pg!IsTag(g, id, cols, n),
         b.idParsed <=> \E i \in 1..n : IdColumn(id, cols, i)
  PROVE  ReadUpTo(g, id, cols, n, b)
<1>1. ~PlainTag(g, id, cols, n) /\ KeysOf(g, id, cols, n) = {}
  BY DEF PlainTag, KeysOf
<1>2. TagNames(g, id, cols, n) = TagNames(g, id, cols, n - 1)
  BY <1>1, NamesUpTo
<1>3. ASSUME NEW i \in 1..n, LastTag(g, id, cols, n, i) PROVE b.tags[cols[i].name].v = cols[i].val.v
  <2>1. i # n
    BY <1>1, <1>3 DEF LastTag
  <2>2. i \in 1..(n - 1)
    BY <2>1
  <2> QED
    BY <1>3, <2>2, NamesUpTo DEF ReadUpTo
<1> QED
  BY <1>2, <1>3 DEF ReadUpTo

\* what a column that is a tag adds
LEMMA TagRead ==
  ASSUME NEW g, NEW id, NEW C, Columns(C), NEW cols \in Seq(C), NEW n \in 1..Len(cols), NEW a,
         ReadUpTo(g, id, cols, n - 1, a), ~a.err, Pg!IsTag(g, id, cols, n),
         cols[n].name = id => a.idParsed
  PROVE  ReadUpTo(g, id, cols, n, Pg!TagColumn(a, cols[n]))
<1> DEFINE c == cols[n]  b == Pg!TagColumn(a, c)
<1>1. /\ DOMAIN a = RowFields
      /\ a.idParsed <=> \E i \in 1..(n - 1) : IdColumn(id, cols, i)
      /\ DOMAIN a.tags = TagNames(g, id, cols, n - 1)
      /\ \A i \in 1..(n - 1) : LastTag(g, id, cols, n - 1, i) => a.tags[cols[i].name].v = cols[i].val.v
  BY DEF ReadUpTo
<1>2. n \in Nat /\ n # 0 /\ n \in 1..n /\ 1..n = 1..(n - 1) \cup {n}
  OBVIOUS
<1>3. a.idParsed <=> \E i \in 1..n : IdColumn(id, cols, i)
  BY <1>1, <1>2 DEF IdColumn
<1>4. "go" \in DOMAIN c.val /\ "v" \in DOMAIN c.val
  BY DEF Columns
<1>5. \A x : LET t == [a EXCEPT !.tags = x]
             IN  DOMAIN t = RowFields /\ t.tags = x /\ t.err = a.err /\ t.idParsed = a.idParsed
  BY <1>1, RowSet
<1>6. CASE c.val.go = "hstore"
  <2>1. b = [a EXCEPT !.tags = Pg!Over(a.tags, c.val.v)]
    BY <1>6 DEF Pg!TagColumn, Pg!AddHstore
  <2>2. DOMAIN b = RowFields /\ b.tags = Pg!Over(a.tags, c.val.v) /\ b.idParsed = a.idParsed
    BY <1>5, <2>1
  <2>3. ~PlainTag(g, id, cols, n) /\ KeysOf(g, id, cols, n) = DOMAIN c.val.v
    BY <1>6 DEF PlainTag, KeysOf
  <2> HIDE DEF b, c
  <2>4. /\ DOMAIN b.tags = DOMAIN a.tags \cup DOMAIN c.val.v
        /\ \A k \in DOMAIN a.tags : b.tags[k] = a.tags[k]
    BY <2>2 DEF Pg!Over
  <2>5. DOMAIN b.tags = TagNames(g, id, cols, n)
    BY <1>1, <1>2, <2>3, <2>4, NamesUpTo
  <2>6. ASSUME NEW i \in 1..n, LastTag(g, id, cols, n, i) PROVE b.tags[cols[i].name].v = cols[i].val.v
    <3>1. i # n /\ PlainTag(g, id, cols, i)
      BY <2>3, <2>6 DEF LastTag
    <3>2. i \in 1..(n - 1)
      BY <1>2, <3>1
    <3>3. a.tags[cols[i].name].v = cols[i].val.v
      BY <1>1, <1>2, <2>6, <3>2, NamesUpTo
    <3>4. cols[i].name \in DOMAIN a.tags
      BY <1>1, <3>1, <3>2 DEF TagNames
    <3> QED
      BY <2>4, <3>3, <3>4
  <2> QED
    BY <1>3, <2>2, <2>5, <2>6 DEF ReadUpTo, b, c
<1>7. CASE c.val.go # "hstore"
  <2>1. PlainTag(g, id, cols, n) /\ KeysOf(g, id, cols, n) = {}
    BY <1>7 DEF PlainTag, KeysOf
  <2>2. \/ b = [a EXCEPT !.err = TRUE]
        \/ \E w : w.v = c.val.v /\ b = [a EXCEPT !.tags = Pg!SetTag(a.tags, c.name, w)]
    <3>1. CASE c.val.go = "numeric"
      <4>1. b = [a EXCEPT !.tags = Pg!SetTag(a.tags, c.name, [c.val EXCEPT !.go = "float64"])]
        BY <1>7, <3>1 DEF Pg!TagColumn
      <4>2. [c.val EXCEPT !.go = "float64"].v = c.val.v
        BY <1>4
      <4> HIDE DEF b
      <4> QED
        BY <4>1, <4>2
    <3>2. CASE c.val.go # "numeric"
      <4> DEFINE new == Pg!TransformVal(c.class, c.val)  w == CHOOSE v \in new : TRUE
      <4>1. b = IF new = {} THEN [a EXCEPT !.err = TRUE]
                ELSE [a EXCEPT !.tags = Pg!SetTag(a.tags, c.name, w)]
        BY <1>7, <3>2 DEF Pg!TagColumn
      <4>2. new # {} => w.v = c.val.v
        <5>1. new # {} => w \in new
          OBVIOUS
        <5> HIDE DEF w, c
        <5> QED
          BY <1>4, <5>1, Transformed
      <4> HIDE DEF b, new, w
      <4> QED
        BY <4>1, <4>2
    <3> QED
      BY <3>1, <3>2
  <2>3. CASE b = [a EXCEPT !.err = TRUE]
    <3>1. DOMAIN b = RowFields /\ b.err = TRUE
      BY <1>1, <2>3, RowSet
    <3> HIDE DEF b
    <3> QED
      BY <3>1 DEF ReadUpTo, b
  <2>4. ASSUME NEW w, w.v = c.val.v, b = [a EXCEPT !.tags = Pg!SetTag(a.tags, c.name, w)]
        PROVE  ReadUpTo(g, id, cols, n, b)
    <3> HIDE DEF b
    <3>1. DOMAIN b = RowFields /\ b.tags = Pg!SetTag(a.tags, c.name, w) /\ b.idParsed = a.idParsed
      BY <1>5, <2>4
    <3>2. /\ DOMAIN b.tags = {c.name} \cup DOMAIN a.tags /\ b.tags[c.name] = w
          /\ \A k \in DOMAIN a.tags : k # c.name => b.tags[k] = a.tags[k]
      <4> DEFINE t == Pg!SetTag(a.tags, c.name, w)
      <4>1. /\ DOMAIN t = {c.name} \cup DOMAIN a.tags /\ t[c.name] = w
            /\ \A k \in DOMAIN a.tags : k # c.name => t[k] = a.tags[k]
        <5>1. DOMAIN t = {c.name} \cup DOMAIN a.tags
          BY TagDomain
        <5>2. t[c.name] = w
          BY TagValue
        <5>3. \A k \in DOMAIN a.tags : k # c.name => t[k] = a.tags[k]
          BY OtherTags
        <5> QED
          BY <5>1, <5>2, <5>3
      <4> HIDE DEF t
      <4> QED
        BY <3>1, <4>1 DEF t
    <3>3. DOMAIN b.tags = TagNames(g, id, cols, n)
      BY <1>1, <1>2, <2>1, <3>2, NamesUpTo
    <3>4. ASSUME NEW i \in 1..n, LastTag(g, id, cols, n, i) PROVE b.tags[cols[i].name].v = cols[i].val.v
      <4>1. CASE i = n
        BY <2>4, <3>2, <4>1
      <4>2. CASE i # n
        <5>1. i \in 1..(n - 1) /\ ~(n <= i)
          BY <1>2, <4>2
        <5>2. PlainTag(g, id, cols, i) /\ cols[i].name # c.name
          BY <1>2, <2>1, <3>4, <5>1 DEF LastTag
        <5>3. a.tags[cols[i].name].v = cols[i].val.v
          BY <1>1, <1>2, <3>4, <5>1, NamesUpTo
        <5>4. cols[i].name \in DOMAIN a.tags
          BY <1>1, <5>1, <5>2 DEF TagNames
        <5> QED
          BY <3>2, <5>2, <5>3, <5>4
      <4> QED
        BY <4>1, <4>2
    <3> QED
      BY <1>3, <3>1, <3>3, <3>4 DEF ReadUpTo
  <2> QED
    BY <2>2, <2>3, <2>4
<1> QED
  BY <1>6, <1>7

LEMMA ColumnRead ==
  ASSUME NEW g, NEW id, g # id, NEW C, Columns(C), NEW cols \in Seq(C), NEW n \in 1..Len(cols), NEW a,
         ReadUpTo(g, id, cols, n - 1, a)
  PROVE  ReadUpTo(g, id, cols, n, Pg!DecipherField(g, id, a, cols[n]))
<1> DEFINE c == cols[n]  b == Pg!DecipherField(g, id, a, c)
<1>1. n \in Nat /\ n # 0 /\ n \in 1..n /\ 1..n = 1..(n - 1) \cup {n}
  OBVIOUS
<1>2. DOMAIN a = RowFields
  BY DEF ReadUpTo
<1>3. CASE a.err
  <2>1. b = a
    BY <1>3 DEF Pg!DecipherField
  <2> HIDE DEF b
  <2> QED
    BY <1>2, <1>3, <2>1 DEF ReadUpTo, b
<1>4. CASE ~a.err /\ c.val = Pg!Nil
  <2>1. b = a
    BY <1>4 DEF Pg!DecipherField
  <2>2. ~Pg!IsTag(g, id, cols, n) /\ ~IdColumn(id, cols, n)
    BY <1>4 DEF Pg!IsTag, IdColumn
  <2>3. a.idParsed <=> \E i \in 1..n : IdColumn(id, cols, i)
    BY <1>1, <1>4, <2>2 DEF ReadUpTo
  <2> HIDE DEF b
  <2> QED
    BY <1>1, <1>2, <1>4, <2>1, <2>2, <2>3, NoTag DEF b
<1>5. ASSUME b = [a EXCEPT !.err = TRUE] PROVE ReadUpTo(g, id, cols, n, b)
  <2>1. DOMAIN b = RowFields /\ b.err = TRUE
    BY <1>2, <1>5, RowSet
  <2> HIDE DEF b
  <2> QED
    BY <2>1 DEF ReadUpTo
<1>6. CASE ~a.err /\ c.val # Pg!Nil /\ c.name = g
  <2>1. b = [a EXCEPT !.geom = c.val.v] \/ b = [a EXCEPT !.err = TRUE]
    BY <1>6 DEF Pg!DecipherField
  <2>2. CASE b = [a EXCEPT !.geom = c.val.v]
    <3>1. DOMAIN b = RowFields /\ b.tags = a.tags /\ b.idParsed = a.idParsed
      BY <1>2, <2>2, RowSet
    <3>2. ~Pg!IsTag(g, id, cols, n) /\ ~IdColumn(id, cols, n)
      BY <1>6 DEF Pg!IsTag, IdColumn
    <3>3. a.idParsed <=> \E i \in 1..n : IdColumn(id, cols, i)
      BY <1>1, <1>6, <3>2 DEF ReadUpTo
    <3> HIDE DEF b
    <3>4. b.idParsed <=> \E i \in 1..n : IdColumn(id, cols, i)
      BY <3>1, <3>3
    <3> QED
      BY <1>1, <1>6, <3>1, <3>2, <3>4, NoTag DEF b
  <2> QED
    BY <1>5, <2>1, <2>2
<1>7. CASE ~a.err /\ c.val # Pg!Nil /\ c.name # g /\ c.name = id /\ ~a.idParsed
  <2>1. b = [a EXCEPT !.err = TRUE] \/ \E x : b = [a EXCEPT !.gid = x, !.idParsed = TRUE]
    <3>1. b = IF Pg!GId(c.val) = {} THEN [a EXCEPT !.err = TRUE]
              ELSE [a EXCEPT !.gid = CHOOSE x \in Pg!GId(c.val) : TRUE, !.idParsed = TRUE]
      BY <1>7 DEF Pg!DecipherField
    <3> HIDE DEF b
    <3> QED
      BY <3>1
  <2>2. ASSUME NEW x, b = [a EXCEPT !.gid = x, !.idParsed = TRUE]
        PROVE  ReadUpTo(g, id, cols, n, b)
    <3>1. DOMAIN b = RowFields /\ b.tags = a.tags /\ b.idParsed = TRUE
      BY <1>2, <2>2, RowSet
    <3>2. ~ \E i \in 1..(n - 1) : IdColumn(id, cols, i)
      BY <1>7 DEF ReadUpTo
    <3>3. ~Pg!IsTag(g, id, cols, n)
      BY <1>7, <3>2 DEF Pg!IsTag, IdColumn
    <3>4. IdColumn(id, cols, n)
      BY <1>7 DEF IdColumn
    <3> HIDE DEF b
    <3>5. b.idParsed <=> \E i \in 1..n : IdColumn(id, cols, i)
      BY <1>1, <3>1, <3>4
    <3> QED
      BY <1>1, <1>7, <3>1, <3>3, <3>5, NoTag DEF b
  <2> QED
    BY <1>5, <2>1, <2>2
<1>8. CASE ~a.err /\ c.val # Pg!Nil /\ c.name # g /\ (c.name = id => a.idParsed)
  <2>1. b = Pg!TagColumn(a, c)
    BY <1>8 DEF Pg!DecipherField
  <2>2. Pg!IsTag(g, id, cols, n)
    <3>1. a.idParsed <=> \E i \in 1..(n - 1) : IdColumn(id, cols, i)
      BY <1>8 DEF ReadUpTo
    <3> QED
      BY <1>8, <3>1 DEF Pg!IsTag, IdColumn
  <2>3. ReadUpTo(g, id, cols, n, Pg!TagColumn(a, c))
    BY <1>8, <2>2, TagRead
  <2> QED
    BY <2>1, <2>3
<1> QED
  BY <1>3, <1>4, <1>6, <1>7, <1>8

(* A row that is read without an error has its id from the column of that     *)
(* name, and every other column that is not null is a tag that no key of an   *)
(* hstore column hides, whatever the columns are (decipherFields).             *)
THEOREM RowIsRead ==
  ASSUME NEW g, NEW id, g # id, NEW C, Columns(C), NEW cols \in Seq(C)
  PROVE  Pg!RowRead(g, id, cols)
<1> DEFINE Op(acc, c) == Pg!DecipherField(g, id, acc, c)
           base == Pg!Start
           row == Pg!DecipherFields(g, id, cols)
           n == Len(cols)
<1>1. row = FoldLeft(Op, base, cols)
  BY DEF Pg!DecipherFields, Pg!FoldLeft, FoldLeft, Pg!MapThenFoldSet, MapThenFoldSet, Pg!Max, Max
<1>2. Folded(Op, base, cols, FoldLeft(Op, base, cols))
  <2> HIDE DEF Op, base
  <2> QED BY FoldLeftFolds
<1>3. PICK r : /\ r[0] = base
               /\ \A k \in 1..Len(cols) : r[k] = Op(r[k - 1], cols[k])
               /\ FoldLeft(Op, base, cols) = r[Len(cols)]
  BY <1>2 DEF Folded
<1> HIDE DEF row
<1> DEFINE Good == {k \in 0..n : ReadUpTo(g, id, cols, k, r[k])}
<1>4. n \in Nat /\ DOMAIN cols = 1..n
  OBVIOUS
<1>5. 0 \in Good
  <2>1. /\ DOMAIN base = RowFields /\ base.idParsed = FALSE /\ base.tags = <<>>
    BY DEF Pg!Start, RowFields
  <2>2. r[0] = base /\ 1..0 = {} /\ DOMAIN <<>> = {}
    <3> HIDE DEF base, Op
    <3>1. r[0] = base
      BY <1>3
    <3> QED
      BY <3>1
  <2> HIDE DEF base
  <2>3. TagNames(g, id, cols, 0) = {}
    BY <2>2 DEF TagNames
  <2>4. ReadUpTo(g, id, cols, 0, r[0])
    BY <2>1, <2>2, <2>3 DEF ReadUpTo
  <2> QED
    BY <1>4, <2>4
<1>6. ASSUME NEW k \in 1..n, k - 1 \in Good PROVE k \in Good
  <2>1. ReadUpTo(g, id, cols, k - 1, r[k - 1])
    BY <1>6
  <2>2. r[k] = Pg!DecipherField(g, id, r[k - 1], cols[k])
    BY <1>3
  <2>3. ReadUpTo(g, id, cols, k, r[k])
    BY <2>1, <2>2, ColumnRead
  <2> QED
    BY <1>4, <2>3
<1>7. ReadUpTo(g, id, cols, n, row)
  <2>1. n \in Good
    <3> HIDE DEF Good
    <3>1. \A k \in 0..n : k \in Good
      BY <1>4, <1>5, <1>6, Steps
    <3> QED BY <1>4, <3>1
  <2>2. row = r[n]
    <3> HIDE DEF Op, base, Good
    <3> QED
      BY <1>1, <1>3
  <2> QED
    BY <2>1, <2>2
<1> HIDE DEF Good, Op, base, n
<1> DEFINE Tag(i) == Pg!IsTag(g, id, cols, i)
           Plain(i) == Tag(i) /\ cols[i].val.go # "hstore"
           PlainNames == {cols[i].name : i \in {j \in DOMAIN cols : Plain(j)}}
           Keys0(i) == IF Tag(i) /\ ~Plain(i) THEN DOMAIN cols[i].val.v ELSE {}
<1> SUFFICES ASSUME ~row.err
    PROVE  /\ DOMAIN row.tags = PlainNames \cup UNION {Keys0(i) : i \in DOMAIN cols}
           /\ \A i \in DOMAIN cols :
                (Plain(i) /\ \A j \in DOMAIN cols : Plain(j) /\ cols[j].name = cols[i].name => j <= i)
                  => row.tags[cols[i].name].v = cols[i].val.v
           /\ row.idParsed <=> \E i \in DOMAIN cols : cols[i].name = id /\ cols[i].val # Pg!Nil
  BY DEF Pg!RowRead, row
<1>8. /\ row.idParsed <=> \E i \in 1..n : IdColumn(id, cols, i)
      /\ DOMAIN row.tags = TagNames(g, id, cols, n)
      /\ \A i \in 1..n : LastTag(g, id, cols, n, i) => row.tags[cols[i].name].v = cols[i].val.v
  BY <1>7 DEF ReadUpTo
<1>9. \A i : (Plain(i) <=> PlainTag(g, id, cols, i)) /\ Keys0(i) = KeysOf(g, id, cols, i)
  BY DEF PlainTag, KeysOf
<1> HIDE DEF Tag, Plain, Keys0
<1>10. DOMAIN row.tags = PlainNames \cup UNION {Keys0(i) : i \in DOMAIN cols}
  <2>1. PlainNames = {cols[i].name : i \in {j \in 1..n : PlainTag(g, id, cols, j)}}
    BY <1>4, <1>9
  <2>2. {Keys0(i) : i \in DOMAIN cols} = {KeysOf(g, id, cols, i) : i \in 1..n}
    BY <1>4, <1>9
  <2> HIDE DEF PlainNames
  <2> QED
    BY <1>8, <2>1, <2>2 DEF TagNames
<1>11. ASSUME NEW i \in DOMAIN cols, Plain(i),
              \A j \in DOMAIN cols : Plain(j) /\ cols[j].name = cols[i].name => j <= i
       PROVE  row.tags[cols[i].name].v = cols[i].val.v
  <2>1. LastTag(g, id, cols, n, i)
    BY <1>4, <1>9, <1>11 DEF LastTag
  <2> QED
    BY <1>4, <1>8, <2>1
<1>12. row.idParsed <=> \E i \in DOMAIN cols : cols[i].name = id /\ cols[i].val # Pg!Nil
  BY <1>4, <1>8 DEF IdColumn
<1> QED
  BY <1>10, <1>11, <1>12


\* the first column that can be the geometry of a layer
Geo(g, columns, i)      == columns[i].name = g /\ Hana!IsGeometryType(columns[i].type)
FirstGeo(g, columns, i) == Geo(g, columns, i) /\ \A j \in 1..(i - 1) : ~Geo(g, columns, j)

Descriptions(C) ==
  [name : {c.name : c \in C}, type : {c.type : c \in C}, isGeometry : BOOLEAN, isFeatureId : BOOLEAN]

\* a description tells the geometry, and takes integers only for an id
Describes(g, c, d, isFirst) ==
  d.name = c.name /\ d.type = c.type /\ d.isGeometry = isFirst /\ (d.isFeatureId => c.type \in Hana!IntTypes)

Described(C, g, columns, n, acc) ==
  /\ acc.list \in Seq(Descriptions(C)) /\ Len(acc.list) = n
  /\ acc.geomFound \in BOOLEAN /\ acc.idFound \in BOOLEAN
  /\ acc.geomFound <=> \E i \in 1..n : Geo(g, columns, i)
  /\ \A i \in 1..n : Describes(g, columns[i], acc.list[i], FirstGeo(g, columns, i))

LEMMA ColumnDescribed ==
  ASSUME NEW g, NEW id, NEW C, NEW columns \in Seq(C), NEW n \in 1..Len(columns), NEW acc,
         Described(C, g, columns, n - 1, acc)
  PROVE  Described(C, g, columns, n, Hana!DescribeColumn(g, id, TRUE, acc, columns[n]))
<1> DEFINE c == columns[n]
           isGeom == ~acc.geomFound /\ c.name = g /\ (TRUE => Hana!IsGeometryType(c.type))
           isId == /\ acc.geomFound \/ c.name # g
                   /\ ~acc.idFound /\ c.name = id /\ (TRUE => c.type \in Hana!IntTypes)
           d == [name |-> c.name, type |-> c.type, isGeometry |-> isGeom, isFeatureId |-> isId]
           b == Hana!DescribeColumn(g, id, TRUE, acc, c)
           s == acc.list
<1>1. /\ s \in Seq(Descriptions(C)) /\ Len(s) = n - 1
      /\ acc.geomFound \in BOOLEAN /\ acc.idFound \in BOOLEAN
      /\ acc.geomFound <=> \E i \in 1..(n - 1) : Geo(g, columns, i)
      /\ \A i \in 1..(n - 1) : Describes(g, columns[i], s[i], FirstGeo(g, columns, i))
  BY DEF Described
<1>2. n \in Nat /\ n \in 1..n /\ 1..n = 1..(n - 1) \cup {n} /\ c \in C /\ (n - 1) + 1 = n
  OBVIOUS
<1>3. b.list = Append(s, d) /\ b.geomFound = (acc.geomFound \/ isGeom) /\ b.idFound = (acc.idFound \/ isId)
  BY DEF Hana!DescribeColumn
<1>4. isGeom <=> FirstGeo(g, columns, n)
  BY <1>1 DEF FirstGeo, Geo
<1>5. isId => c.type \in Hana!IntTypes
  OBVIOUS
<1>6. isGeom \in BOOLEAN /\ isId \in BOOLEAN
  OBVIOUS
<1> HIDE DEF isGeom, isId, b
<1>7. d \in Descriptions(C) /\ Describes(g, c, d, FirstGeo(g, columns, n))
  <2>1. d.name = c.name /\ d.type = c.type /\ d.isGeometry = isGeom /\ d.isFeatureId = isId
    OBVIOUS
  <2>2. d \in Descriptions(C)
    BY <1>2, <1>6 DEF Descriptions
  <2>3. FirstGeo(g, columns, n) \in BOOLEAN /\ isGeom = FirstGeo(g, columns, n)
    BY <1>4, <1>6 DEF FirstGeo, Geo
  <2> HIDE DEF d, c
  <2> QED
    BY <1>5, <2>1, <2>2, <2>3 DEF Describes, c
<1> HIDE DEF d
<1>8. /\ b.list \in Seq(Descriptions(C)) /\ Len(b.list) = n
      /\ \A i \in 1..(n - 1) : b.list[i] = s[i]
      /\ b.list[n] = d
  <2> HIDE DEF s
  <2> QED
    BY <1>1, <1>2, <1>3, <1>7, Appended
<1>9. \A i \in 1..n : Describes(g, columns[i], b.list[i], FirstGeo(g, columns, i))
  BY <1>1, <1>2, <1>7, <1>8
<1>10. b.geomFound <=> \E i \in 1..n : Geo(g, columns, i)
  <2>1. isGeom \/ acc.geomFound <=> \E i \in 1..n : Geo(g, columns, i)
    <3>1. isGeom => Geo(g, columns, n)
      BY <1>4 DEF FirstGeo
    <3>2. Geo(g, columns, n) /\ ~acc.geomFound => isGeom
      BY <1>1, <1>4 DEF FirstGeo
    <3> QED
      BY <1>1, <1>2, <3>1, <3>2
  <2> QED
    BY <1>3, <2>1
<1>11. b.geomFound \in BOOLEAN /\ b.idFound \in BOOLEAN
  BY <1>3
<1> QED
  BY <1>8, <1>9, <1>10, <1>11 DEF Described, b

\* the description of a layer whose types are checked
DescriptionsOf(g, id, columns) == Hana!FieldDescriptions(g, id, columns, TRUE)

Named(g) == g # ""

(* The description of the columns of a layer (getFieldDescriptions).          *)
LEMMA ColumnsDescribed ==
  ASSUME NEW g, Named(g), NEW id, NEW C, NEW columns \in Seq(C),
         NEW descs \in DescriptionsOf(g, id, columns)
  PROVE  /\ descs \in Seq(Descriptions(C)) /\ Len(descs) = Len(columns)
         /\ \E i \in 1..Len(columns) : Geo(g, columns, i)
         /\ \A i \in 1..Len(columns) : Describes(g, columns[i], descs[i], FirstGeo(g, columns, i))
<1> DEFINE Op(acc, c) == Hana!DescribeColumn(g, id, TRUE, acc, c)
           base == [list |-> <<>>, geomFound |-> FALSE, idFound |-> FALSE]
           all == FoldLeft(Op, base, columns)
           n == Len(columns)
<1>1. descs \in IF ~all.geomFound /\ g # "" THEN {} ELSE {all.list}
  BY DEF DescriptionsOf, Hana!FieldDescriptions, Hana!FoldLeft, FoldLeft, Hana!MapThenFoldSet, MapThenFoldSet, Hana!Max, Max
<1>2. Folded(Op, base, columns, all)
  <2> HIDE DEF Op, base
  <2> QED BY FoldLeftFolds
<1>3. PICK r : /\ r[0] = base
               /\ \A k \in 1..Len(columns) : r[k] = Op(r[k - 1], columns[k])
               /\ all = r[Len(columns)]
  BY <1>2 DEF Folded
<1> HIDE DEF all
<1> DEFINE Good == {k \in 0..n : Described(C, g, columns, k, r[k])}
<1>4. n \in Nat
  OBVIOUS
<1>5. 0 \in Good
  <2>1. base.list = <<>> /\ base.geomFound = FALSE /\ base.idFound = FALSE
    OBVIOUS
  <2>2. r[0] = base
    <3> HIDE DEF base, Op
    <3> QED
      BY <1>3
  <2> HIDE DEF base, Op, Good
  <2>3. <<>> \in Seq(Descriptions(C)) /\ Len(<<>>) = 0 /\ 1..0 = {}
    <3> DEFINE D == Descriptions(C)
    <3> HIDE DEF D
    <3>1. <<>> \in Seq(D) /\ Len(<<>>) = 0 /\ 1..0 = {}
      OBVIOUS
    <3> QED
      BY <3>1 DEF D
  <2>4. Described(C, g, columns, 0, r[0])
    BY <2>1, <2>2, <2>3 DEF Described
  <2> QED
    BY <1>4, <2>4 DEF Good
<1>6. ASSUME NEW k \in 1..n, k - 1 \in Good PROVE k \in Good
  <2>1. Described(C, g, columns, k - 1, r[k - 1])
    BY <1>6
  <2>2. r[k] = Hana!DescribeColumn(g, id, TRUE, r[k - 1], columns[k])
    BY <1>3
  <2>3. Described(C, g, columns, k, r[k])
    BY <2>1, <2>2, ColumnDescribed
  <2> QED
    BY <1>4, <2>3
<1>7. Described(C, g, columns, n, all)
  <2>1. n \in Good
    <3> HIDE DEF Good
    <3>1. \A k \in 0..n : k \in Good
      BY <1>4, <1>5, <1>6, Steps
    <3> QED BY <1>4, <3>1
  <2>2. all = r[n]
    <3> HIDE DEF Op, base, Good
    <3> QED
      BY <1>3
  <2> QED
    BY <2>1, <2>2
<1> HIDE DEF Op, base, Good
<1>8. all.geomFound /\ descs = all.list
  BY <1>1 DEF Named
<1> HIDE DEF n
<1> QED
  BY <1>7, <1>8 DEF Described, n

\* a value that a row shows: neither null nor a large object without data
Shows(c, val) == val.valid /\ ~(c.type \in Hana!LobTypes /\ val.v = "")

GeomOf(val) == IF val.valid /\ val.v # "" THEN val.v ELSE "none"

LEMMA HanaTagDomain ==
  \A tags, name, v : DOMAIN Hana!SetTag(tags, name, v) = {name} \cup DOMAIN tags
BY DEF Hana!SetTag

\* a column that holds the geometry shows it, when there is one
LEMMA GeomShown ==
  ASSUME NEW c, NEW val, Hana!IsGeometryType(c.type), Spatial(c, val)
  PROVE  IF Shows(c, val) THEN GeomOf(val) = val.v ELSE GeomOf(val) = "none"
BY Zenon DEF Hana!IsGeometryType, Hana!SpatialTypes, Hana!LobTypes, Spatial, Shows, GeomOf

(* What readRowValues does with a column that is not an id of text.           *)
LEMMA ValueRead ==
  ASSUME NEW a, DOMAIN a = RowFields, NEW d, NEW val,
         d.isGeometry => Hana!IsGeometryType(d.type),
         ~(d.type \in Hana!TextTypes /\ d.isFeatureId)
  PROVE  LET b == Hana!ReadValue(a, d, val)
         IN  \/ b = a /\ (a.err \/ ~Shows(d, val))
             \/ b = [a EXCEPT !.err = TRUE]
             \/ b = [a EXCEPT !.geom = val.v] /\ d.isGeometry /\ Shows(d, val)
             \/ b = [a EXCEPT !.tags = Hana!SetTag(a.tags, d.name, val.v)] /\ ~d.isGeometry /\ Shows(d, val)
<1> DEFINE b == Hana!ReadValue(a, d, val)
           filled == val.v # ""
           Known == Hana!IntTypes \cup Hana!NumberTypes \cup Hana!TimeTypes \cup Hana!TextTypes
                      \cup Hana!BytesTypes \cup Hana!LobTypes \cup Hana!SpatialTypes
           lob == d.type \in Hana!LobTypes
           spatial == d.type \in Hana!SpatialTypes
           idText == d.type \in Hana!TextTypes /\ d.isFeatureId
           parsed == IF Hana!ParseId(val.v) = {} THEN [a EXCEPT !.err = TRUE]
                     ELSE [a EXCEPT !.gid = val.v, !.idParsed = TRUE]
           tagged == Hana!Tag(a, d, val)
<1>1. b = IF a.err THEN a
          ELSE IF d.type \notin Known THEN [a EXCEPT !.err = TRUE]
          ELSE IF ~val.valid THEN a
          ELSE IF spatial \/ (lob /\ filled) THEN Hana!ReadSpatial(a, d, val)
          ELSE IF lob THEN a
          ELSE IF idText /\ ~a.idParsed THEN parsed
          ELSE tagged
  BY Zenon DEF Hana!ReadValue
<1>2. tagged = [a EXCEPT !.tags = Hana!SetTag(a.tags, d.name, val.v)]
  BY DEF Hana!Tag
<1>3. Hana!ReadSpatial(a, d, val) = IF d.isGeometry THEN [a EXCEPT !.geom = val.v] ELSE tagged
  BY Zenon DEF Hana!ReadSpatial
<1>4. Shows(d, val) = (val.valid /\ ~(lob /\ ~filled))
  BY Zenon DEF Shows
<1>5. d.isGeometry => spatial \/ lob
  BY Zenon DEF Hana!IsGeometryType, Hana!LobTypes
<1>6. ~(spatial /\ lob)
  BY Zenon DEF Hana!SpatialTypes, Hana!LobTypes
<1>7. ~idText
  OBVIOUS
<1> HIDE DEF b, filled, Known, lob, spatial, idText, parsed, tagged
<1>8. \/ b = a /\ (a.err \/ ~Shows(d, val))
      \/ b = [a EXCEPT !.err = TRUE]
      \/ b = [a EXCEPT !.geom = val.v] /\ d.isGeometry /\ Shows(d, val)
      \/ b = tagged /\ ~d.isGeometry /\ Shows(d, val)
  BY Zenon, <1>1, <1>3, <1>4, <1>5, <1>6, <1>7
<1> QED
  BY Zenon, <1>2, <1>8 DEF b

\* the columns among the first n that are tags, and their names
ShownTag(g, columns, vals, i) == ~FirstGeo(g, columns, i) /\ Shows(columns[i], vals[i])
ShownNames(g, columns, vals, n) ==
  {columns[i].name : i \in {j \in 1..n : ShownTag(g, columns, vals, j)}}

\* what is read of the first n columns
ShownUpTo(g, columns, vals, n, a) ==
  /\ DOMAIN a = RowFields
  /\ ~a.err =>
       /\ DOMAIN a.tags = ShownNames(g, columns, vals, n)
       /\ \A i \in 1..n : FirstGeo(g, columns, i) => a.geom = GeomOf(vals[i])
       /\ (\A i \in 1..n : ~FirstGeo(g, columns, i)) => a.geom = "none"

\* there is one first column that can be the geometry
LEMMA OneFirstGeo ==
  ASSUME NEW g, NEW columns, NEW i \in Nat, NEW j \in Nat, i > 0, j > 0,
         FirstGeo(g, columns, i), FirstGeo(g, columns, j)
  PROVE  i = j
BY DEF FirstGeo

LEMMA ShownFurther ==
  ASSUME NEW g, NEW columns, NEW vals, NEW n \in Nat, n > 0
  PROVE  ShownNames(g, columns, vals, n)
           = IF ShownTag(g, columns, vals, n)
             THEN {columns[n].name} \cup ShownNames(g, columns, vals, n - 1)
             ELSE ShownNames(g, columns, vals, n - 1)
<1>1. 1..n = 1..(n - 1) \cup {n} /\ n \notin 1..(n - 1)
  OBVIOUS
<1> DEFINE T == {j \in 1..n : ShownTag(g, columns, vals, j)}
           U == {j \in 1..(n - 1) : ShownTag(g, columns, vals, j)}
<1>2. T = IF ShownTag(g, columns, vals, n) THEN U \cup {n} ELSE U
  BY <1>1
<1>3. ShownNames(g, columns, vals, n) = {columns[i].name : i \in T}
      /\ ShownNames(g, columns, vals, n - 1) = {columns[i].name : i \in U}
  BY DEF ShownNames
<1> HIDE DEF T, U
<1> QED
  BY <1>2, <1>3

(* What readRowValues has read after one more column.                         *)
LEMMA ShownRead ==
  ASSUME NEW g, NEW C, NEW columns \in Seq(C), NEW vals, NEW n \in 1..Len(columns),
         NEW d, Describes(g, columns[n], d, FirstGeo(g, columns, n)),
         Spatial(columns[n], vals[n]), NEW a, ShownUpTo(g, columns, vals, n - 1, a)
  PROVE  ShownUpTo(g, columns, vals, n, Hana!ReadValue(a, d, vals[n]))
<1> DEFINE c == columns[n]
           val == vals[n]
           b == Hana!ReadValue(a, d, val)
           first == FirstGeo(g, columns, n)
<1>1. DOMAIN a = RowFields
  BY DEF ShownUpTo
<1>2. d.name = c.name /\ d.type = c.type /\ d.isGeometry = first /\ (d.isFeatureId => c.type \in Hana!IntTypes)
  BY DEF Describes
<1>3. first => Hana!IsGeometryType(c.type)
  BY DEF FirstGeo, Geo
<1>4. ~(d.type \in Hana!TextTypes /\ d.isFeatureId)
  BY Zenon, <1>2 DEF Hana!TextTypes, Hana!IntTypes
<1>5. Shows(d, val) = Shows(c, val)
  BY Zenon, <1>2 DEF Shows
<1>6. d.isGeometry => Hana!IsGeometryType(d.type)
  BY Zenon, <1>2, <1>3
<1>7. \/ b = a /\ (a.err \/ ~Shows(c, val))
      \/ b = [a EXCEPT !.err = TRUE]
      \/ b = [a EXCEPT !.geom = val.v] /\ first /\ Shows(c, val)
      \/ b = [a EXCEPT !.tags = Hana!SetTag(a.tags, c.name, val.v)] /\ ~first /\ Shows(c, val)
  <2> HIDE DEF b, c, val, first
  <2>1. \/ b = a /\ (a.err \/ ~Shows(d, val))
        \/ b = [a EXCEPT !.err = TRUE]
        \/ b = [a EXCEPT !.geom = val.v] /\ d.isGeometry /\ Shows(d, val)
        \/ b = [a EXCEPT !.tags = Hana!SetTag(a.tags, d.name, val.v)] /\ ~d.isGeometry /\ Shows(d, val)
    BY <1>1, <1>4, <1>6, ValueRead DEF b
  <2> QED
    BY Zenon, <2>1, <1>2, <1>5
<1>8. n \in Nat /\ n > 0 /\ 1..n = 1..(n - 1) \cup {n}
  OBVIOUS
<1>9. ShownTag(g, columns, vals, n) <=> ~first /\ Shows(c, val)
  BY Zenon DEF ShownTag
<1>10. first => \A i \in 1..(n - 1) : ~FirstGeo(g, columns, i)
  BY <1>8, OneFirstGeo
<1>11. first => IF Shows(c, val) THEN GeomOf(val) = val.v ELSE GeomOf(val) = "none"
  BY <1>3, GeomShown
<1> DEFINE NamesTo(k) == ShownNames(g, columns, vals, k)
<1>12. NamesTo(n) = IF ShownTag(g, columns, vals, n) THEN {c.name} \cup NamesTo(n - 1) ELSE NamesTo(n - 1)
  BY <1>8, ShownFurther
<1>13. ~a.err =>
         /\ DOMAIN a.tags = NamesTo(n - 1)
         /\ \A i \in 1..(n - 1) : FirstGeo(g, columns, i) => a.geom = GeomOf(vals[i])
         /\ (\A i \in 1..(n - 1) : ~FirstGeo(g, columns, i)) => a.geom = "none"
  BY DEF ShownUpTo
<1> DEFINE Geometry(x, k) ==
             /\ \A i \in 1..k : FirstGeo(g, columns, i) => x.geom = GeomOf(vals[i])
             /\ (\A i \in 1..k : ~FirstGeo(g, columns, i)) => x.geom = "none"
<1>14. ASSUME NEW x, x.geom = a.geom, ~a.err, ~first \/ ~Shows(c, val) PROVE Geometry(x, n)
  <2> HIDE DEF b, NamesTo
  <2>1. CASE ~first
    BY <1>8, <1>13, <1>14, <2>1
  <2>2. CASE first
    <3>1. a.geom = "none" /\ GeomOf(val) = "none"
      BY <1>10, <1>11, <1>13, <1>14, <2>2
    <3> QED
      BY <1>8, <1>10, <1>14, <2>2, <3>1
  <2> QED BY <2>1, <2>2
<1>15. SUFFICES /\ DOMAIN b = RowFields
                /\ ~b.err => DOMAIN b.tags = NamesTo(n) /\ Geometry(b, n)
  BY Zenon DEF ShownUpTo
<1>16. CASE b = a /\ (a.err \/ ~Shows(c, val))
  <2> HIDE DEF b, c, val, first, NamesTo, Geometry
  <2> QED
    BY Zenon, <1>1, <1>9, <1>12, <1>13, <1>14, <1>16
<1>17. CASE b = [a EXCEPT !.err = TRUE]
  <2> HIDE DEF b, c, val, first, NamesTo, Geometry
  <2>1. DOMAIN b = RowFields /\ b.err = TRUE
    BY <1>1, <1>17, RowSet
  <2> QED
    BY Zenon, <2>1
<1>18. CASE b = [a EXCEPT !.geom = val.v] /\ first /\ Shows(c, val)
  <2> HIDE DEF b, NamesTo
  <2>1. DOMAIN b = RowFields /\ b.tags = a.tags /\ b.err = a.err /\ b.geom = val.v
    <3> HIDE DEF c, val, first, Geometry
    <3> QED BY <1>1, <1>18, RowSet
  <2>2. ASSUME ~b.err PROVE Geometry(b, n)
    BY <1>8, <1>10, <1>11, <1>18, <2>1
  <2> HIDE DEF c, val, first, Geometry
  <2>3. ASSUME ~b.err PROVE DOMAIN b.tags = NamesTo(n)
    BY Zenon, <1>9, <1>12, <1>13, <1>18, <2>1, <2>3
  <2> QED
    BY Zenon, <2>1, <2>2, <2>3
<1>19. CASE b = [a EXCEPT !.tags = Hana!SetTag(a.tags, c.name, val.v)] /\ ~first /\ Shows(c, val)
  <2> DEFINE t == Hana!SetTag(a.tags, c.name, val.v)
  <2> HIDE DEF b, c, val, first, NamesTo, Geometry, t
  <2>0. b = [a EXCEPT !.tags = t]
    BY Zenon, <1>19 DEF t
  <2>1. DOMAIN b = RowFields /\ b.tags = t /\ b.err = a.err
    BY <1>1, <2>0, RowSet
  <2>2. b.geom = a.geom
    BY <1>1, <2>0 DEF RowFields
  <2>3. DOMAIN t = {c.name} \cup DOMAIN a.tags
    BY Zenon, HanaTagDomain DEF t
  <2> QED
    BY Zenon, <1>9, <1>12, <1>13, <1>14, <1>19, <2>1, <2>2, <2>3
<1> QED
  <2> HIDE DEF b, c, val, first, NamesTo, Geometry
  <2> QED
    BY Zenon, <1>7, <1>16, <1>17, <1>18, <1>19

(* A row that is read with the description of its columns has the geometry of *)
(* the first column that can be one, and every other column that is not null  *)
(* is a tag, whatever the columns are (getFieldDescriptions, readRowValues).   *)
THEOREM HanaRowIsRead ==
  ASSUME NEW g, Named(g), NEW id, NEW C, NEW columns \in Seq(C), NEW vals,
         \A i \in 1..Len(columns) : Spatial(columns[i], vals[i])
  PROVE  Hana!HanaRowRead(g, id, columns, vals)
<1> DEFINE IsFirst(i) == /\ columns[i].name = g /\ Hana!IsGeometryType(columns[i].type)
                         /\ \A j \in 1..i - 1 : columns[j].name # g \/ ~Hana!IsGeometryType(columns[j].type)
           first == CHOOSE i \in DOMAIN columns : IsFirst(i)
           shown == {i \in DOMAIN columns \ {first} :
                       vals[i].valid /\ ~(columns[i].type \in Hana!LobTypes /\ vals[i].v = "")}
           n == Len(columns)
<1>1. n \in Nat /\ DOMAIN columns = 1..n
  OBVIOUS
<1>2. SUFFICES ASSUME NEW descs \in DescriptionsOf(g, id, columns),
                      ~Hana!ReadRowValues(descs, vals).err
               PROVE  LET row == Hana!ReadRowValues(descs, vals)
                      IN  /\ row.geom = GeomOf(vals[first])
                          /\ DOMAIN row.tags = {columns[i].name : i \in shown}
  BY Zenon DEF Hana!HanaRowRead, DescriptionsOf, GeomOf
<1>3. /\ descs \in Seq(Descriptions(C)) /\ Len(descs) = n
      /\ \E i \in 1..n : Geo(g, columns, i)
      /\ \A i \in 1..n : Describes(g, columns[i], descs[i], FirstGeo(g, columns, i))
  BY ColumnsDescribed
<1>4. \A i : IsFirst(i) <=> FirstGeo(g, columns, i)
  BY Zenon DEF FirstGeo, Geo
<1>5. first \in 1..n /\ FirstGeo(g, columns, first)
  <2> HIDE DEF IsFirst
  <2>1. \E i \in 1..n : FirstGeo(g, columns, i)
    <3> DEFINE T == {i \in 1..n : Geo(g, columns, i)}
    <3>1. T \subseteq Nat /\ T # {}
      BY <1>3
    <3> HIDE DEF T
    <3>2. PICK k \in T : \A m \in T : k <= m
      BY <3>1, NatMin
    <3>3. k \in 1..n /\ Geo(g, columns, k)
      BY DEF T
    <3>4. \A j \in 1..(k - 1) : j \in 1..n /\ ~(k <= j)
      BY <1>1, <3>3
    <3>5. \A j \in 1..(k - 1) : ~Geo(g, columns, j)
      BY <3>2, <3>4 DEF T
    <3> QED
      BY <3>3, <3>5 DEF FirstGeo
  <2>2. \E i \in DOMAIN columns : IsFirst(i)
    BY Zenon, <1>1, <1>4, <2>1
  <2> QED
    BY Zenon, <1>1, <1>4, <2>2
<1> HIDE DEF IsFirst, first
<1> DEFINE idx == [i \in DOMAIN descs |-> i]
           Op(acc, i) == Hana!ReadValue(acc, descs[i], vals[i])
           base == Hana!Start
           row == Hana!ReadRowValues(descs, vals)
<1>6. idx \in Seq(1..n) /\ Len(idx) = n /\ \A k \in 1..n : idx[k] = k
  <2>1. DOMAIN descs = 1..n
    BY <1>3
  <2> QED
    BY <1>1, <2>1
<1>7. row = FoldLeft(Op, base, idx)
  BY DEF Hana!ReadRowValues, Hana!FoldLeft, FoldLeft, Hana!MapThenFoldSet, MapThenFoldSet, Hana!Max, Max
<1>8. Folded(Op, base, idx, FoldLeft(Op, base, idx))
  <2> HIDE DEF Op, base, idx
  <2> QED BY <1>6, FoldLeftFolds
<1> HIDE DEF idx
<1>9. PICK r : /\ r[0] = base
               /\ \A k \in 1..n : r[k] = Op(r[k - 1], idx[k])
               /\ FoldLeft(Op, base, idx) = r[n]
  <2> HIDE DEF Op, base
  <2> QED BY <1>6, <1>8 DEF Folded
<1> HIDE DEF row
<1> DEFINE Good == {k \in 0..n : ShownUpTo(g, columns, vals, k, r[k])}
<1>10. 0 \in Good
  <2>1. DOMAIN base = RowFields /\ base.geom = "none" /\ base.tags = <<>>
    BY DEF Hana!Start, RowFields
  <2>2. r[0] = base
    <3> HIDE DEF base, Op
    <3> QED BY <1>9
  <2> HIDE DEF base, Op
  <2>3. 1..0 = {} /\ DOMAIN <<>> = {}
    OBVIOUS
  <2>4. ShownNames(g, columns, vals, 0) = {}
    BY <2>3 DEF ShownNames
  <2>5. ShownUpTo(g, columns, vals, 0, r[0])
    BY <2>1, <2>2, <2>3, <2>4 DEF ShownUpTo
  <2> QED
    BY <1>1, <2>5
<1>11. ASSUME NEW k \in 1..n, k - 1 \in Good PROVE k \in Good
  <2>1. ShownUpTo(g, columns, vals, k - 1, r[k - 1])
    BY <1>11
  <2>2. r[k] = Hana!ReadValue(r[k - 1], descs[k], vals[k])
    BY <1>6, <1>9
  <2>3. Describes(g, columns[k], descs[k], FirstGeo(g, columns, k)) /\ Spatial(columns[k], vals[k])
    BY <1>3
  <2> HIDE DEF Op, base, Good
  <2>4. ShownUpTo(g, columns, vals, k, Hana!ReadValue(r[k - 1], descs[k], vals[k]))
    BY <2>1, <2>3, ShownRead
  <2> QED
    BY <1>1, <2>2, <2>4 DEF Good
<1>12. ShownUpTo(g, columns, vals, n, row)
  <2>1. n \in Good
    <3> HIDE DEF Good
    <3>1. \A k \in 0..n : k \in Good
      BY <1>1, <1>10, <1>11, Steps
    <3> QED BY <1>1, <3>1
  <2>2. row = r[n]
    <3> HIDE DEF Op, base, Good
    <3> QED BY <1>7, <1>9
  <2> QED
    BY <2>1, <2>2
<1> HIDE DEF Good, Op, base
<1>13. ~row.err
  BY <1>2 DEF row
<1>14. row.geom = GeomOf(vals[first])
  BY <1>5, <1>12, <1>13 DEF ShownUpTo
<1>15. DOMAIN row.tags = {columns[i].name : i \in shown}
  <2>1. \A i \in 1..n : FirstGeo(g, columns, i) <=> i = first
    <3>1. first \in Nat /\ first > 0 /\ \A i \in 1..n : i \in Nat /\ i > 0
      BY <1>1, <1>5
    <3> QED
      BY <1>5, <3>1, OneFirstGeo
  <2>2. shown = {i \in DOMAIN columns \ {first} : Shows(columns[i], vals[i])}
    BY Zenon DEF Shows
  <2> HIDE DEF shown
  <2>3. shown = {j \in 1..n : ShownTag(g, columns, vals, j)}
    BY <1>1, <2>1, <2>2 DEF ShownTag
  <2> QED
    BY <1>12, <1>13, <2>3 DEF ShownUpTo, ShownNames
<1> QED
  BY Zenon, <1>14, <1>15 DEF row

-----------------------------------------------------------------------------
(* The headers of a GeoPackage, and the formats of a tile list.               *)
(* A header that is accepted lies within its bytes (NewBinaryHeader,          *)
(* decodeGeometry).  The provers know nothing of powers: that those of two    *)
(* in the masks are positive is a hypothesis.                                  *)
THEOREM HeaderIsWithin ==
  ASSUME NEW len \in Nat, NEW flags \in Nat, NEW magic, 2^1 \in Nat \ {0}, 2^3 \in Nat \ {0}
  PROVE  Gpkg!HeaderFits(len, magic, flags)
<1> DEFINE et == Gpkg!Envelope(flags)
           N == Gpkg!NumberOfElements(et)
<1>1. et \in 0..5
  <2> DEFINE bits == Gpkg!BitsOf(flags, 1, 3)
  <2>1. bits \in Nat
    <3> DEFINE p == 2^1
               q == 2^3
    <3>1. p \in Nat \ {0} /\ q \in Nat \ {0}
      OBVIOUS
    <3>2. bits = (flags \div p) % q
      BY DEF Gpkg!BitsOf
    <3> HIDE DEF p, q, bits
    <3>3. flags \div p \in Nat
      BY <3>1
    <3> QED
      BY <3>1, <3>2, <3>3
  <2>2. et = IF bits >= 5 THEN 5 ELSE bits
    BY DEF Gpkg!Envelope, Gpkg!InvalidEnvelope
  <2> HIDE DEF bits
  <2> QED
    BY <2>1, <2>2
<1> HIDE DEF et
<1>2. et # 5 => N \in {0, 4, 6, 8}
  BY <1>1 DEF Gpkg!NumberOfElements
<1>3. et = 0 => N = 0
  BY DEF Gpkg!NumberOfElements
<1> HIDE DEF N
<1>4. ASSUME NEW size \in Gpkg!BinaryHeader(len, magic, flags)
      PROVE  size <= len
  <2>1. /\ ~(len < 8) /\ et # 5
        /\ ~(et # 0 /\ len - 8 < 8 * N)
        /\ size = 8 + 8 * N
    BY <1>4 DEF Gpkg!BinaryHeader, Gpkg!InvalidEnvelope, et, N
  <2> QED
    BY <1>2, <1>3, <2>1
<1> QED
  BY <1>4 DEF Gpkg!HeaderFits

\* where a character of a format of three is
LEMMA IndexFound ==
  ASSUME NEW S, NEW s \in Seq(S), Len(s) = 3, NEW c
  PROVE  \/ Flags!IndexOf(s, c) \in 0..2 /\ s[Flags!IndexOf(s, c) + 1] = c
         \/ Flags!IndexOf(s, c) = -1 /\ \A k \in 1..3 : s[k] # c
<1> DEFINE I == {i \in 1..Len(s) : s[i] = c}
           m == CHOOSE i \in I : \A j \in I : i <= j
<1>1. DOMAIN s = 1..3 /\ Len(s) = 3
  OBVIOUS
<1>2. Flags!IndexOf(s, c) = IF c \in {s[i] : i \in DOMAIN s} THEN (IF I # {} THEN m ELSE 0) - 1 ELSE -1
  BY DEF Flags!IndexOf, Flags!SelectInSeq, Flags!Min
<1>3. c \in {s[i] : i \in DOMAIN s} <=> I # {}
  BY <1>1
<1>4. I \subseteq Nat
  BY <1>1
<1>5. I # {} => m \in I
  <2> HIDE DEF I
  <2>1. I # {} => \E i \in I : \A j \in I : i <= j
    BY <1>4, NatMin
  <2> QED
    BY <2>1
<1> HIDE DEF m
<1>6. CASE I # {}
  <2>1. m \in 1..3 /\ s[m] = c
    BY <1>1, <1>5, <1>6
  <2>2. Flags!IndexOf(s, c) = m - 1
    BY <1>2, <1>3, <1>6
  <2> QED
    BY <2>1, <2>2
<1>7. CASE I = {}
  BY <1>1, <1>2, <1>3, <1>7
<1> QED
  BY <1>6, <1>7

\* the order in which a format names the coordinates
Spelled(f) == IF f = <<>> THEN <<"/", "z", "x", "y">> ELSE f

LEMMA LineSpelled ==
  ASSUME NEW f, NEW t, NEW i \in 1..3
  PROVE  /\ Len(Flags!Line(f, t)) = 3
         /\ Spelled(f)[i + 1] = "z" => Flags!Line(f, t)[i] = t.z
         /\ Spelled(f)[i + 1] = "x" => Flags!Line(f, t)[i] = t.x
         /\ Spelled(f)[i + 1] = "y" => Flags!Line(f, t)[i] = t.y
<1> DEFINE chars == Spelled(f)
           At(k) == CASE chars[k + 1] = "z" -> t.z [] chars[k + 1] = "x" -> t.x
                      [] chars[k + 1] = "y" -> t.y
<1>1. Flags!Line(f, t) = [k \in 1..3 |-> At(k)]
  BY DEF Flags!Line, Spelled
<1> HIDE DEF chars
<1>2. /\ chars[i + 1] = "z" => At(i) = t.z
      /\ chars[i + 1] = "x" => At(i) = t.x
      /\ chars[i + 1] = "y" => At(i) = t.y
  OBVIOUS
<1> HIDE DEF At
<1>3. Len(Flags!Line(f, t)) = 3 /\ Flags!Line(f, t)[i] = At(i)
  BY <1>1
<1> QED
  BY <1>2, <1>3 DEF chars

LEMMA LineParsed ==
  ASSUME NEW t, IsTile(t), NEW p, Len(p) = 3, NEW f,
         p[f.z + 1] = t.z, p[f.x + 1] = t.x, p[f.y + 1] = t.y
  PROVE  Flags!Parse(f, p) = {t}
<1>1. t = [z |-> t.z, x |-> t.x, y |-> t.y]
  BY DEF IsTile
<1>2. t.z \in 0..MaxZ /\ t.x \in 0..(2^t.z - 1) /\ t.y \in 0..(2^t.z - 1)
  BY DEF IsTile
<1> QED
  BY <1>1, <1>2 DEF Flags!Parse

LEMMA LastThree ==
  ASSUME NEW S, NEW f \in Seq(S), Len(f) = 4
  PROVE  /\ SubSeq(f, 2, 4) \in Seq(S) /\ Len(SubSeq(f, 2, 4)) = 3
         /\ SubSeq(f, 2, 4)[1] = f[2] /\ SubSeq(f, 2, 4)[2] = f[3] /\ SubSeq(f, 2, 4)[3] = f[4]
<1> DEFINE m == 2
           n == 4
<1>1. \A i \in m..n : f[i] \in S
  <2>1. \A i \in 1..Len(f) : f[i] \in S
    BY ElementOfSeq
  <2>2. \A i \in m..n : i \in 1..Len(f)
    OBVIOUS
  <2> HIDE DEF m, n
  <2> QED
    BY <2>1, <2>2
<1>2. m \in Int /\ n \in Int /\ m <= n /\ n - m + 1 = 3
  OBVIOUS
<1>3. /\ SubSeq(f, m, n) \in Seq(S) /\ Len(SubSeq(f, m, n)) = n - m + 1
      /\ \A i \in 1..(n - m + 1) : SubSeq(f, m, n)[i] = f[m + i - 1]
  <2> HIDE DEF m, n
  <2>1. Len(SubSeq(f, m, n)) = IF m <= n THEN n - m + 1 ELSE 0
    BY <1>1, <1>2, SubSeqProperties
  <2>2. \A i \in 1..(n - m + 1) : SubSeq(f, m, n)[i] = f[m + i - 1]
    BY <1>1, <1>2, SubSeqProperties
  <2>3. SubSeq(f, m, n) \in Seq(S)
    BY Zenon, <1>1, <1>2, SubSeqProperties
  <2> QED
    BY Zenon, <1>2, <2>1, <2>2, <2>3
<1>4. 1 \in 1..(n - m + 1) /\ 2 \in 1..(n - m + 1) /\ 3 \in 1..(n - m + 1)
  OBVIOUS
<1>5. m + 1 - 1 = 2 /\ m + 2 - 1 = 3 /\ m + 3 - 1 = 4
  OBVIOUS
<1> DEFINE sub == SubSeq(f, m, n)
<1> HIDE DEF sub, m, n
<1>6. sub[1] = f[2] /\ sub[2] = f[3] /\ sub[3] = f[4]
  BY Zenon, <1>3, <1>4, <1>5 DEF sub
<1>7. sub \in Seq(S) /\ Len(sub) = 3
  BY Zenon, <1>2, <1>3 DEF sub
<1> QED
  BY Zenon, <1>6, <1>7 DEF sub, m, n

(* Any format that names the three coordinates behind a usable delimiter is   *)
(* accepted and reads back every tile written in it, and any other is refused:*)
(* that the indices must add up to three is enough (NewFormat, Format.Parse).  *)
THEOREM LinesAreRead ==
  ASSUME NEW S, NEW f \in Seq(S), NEW t, IsTile(t)
  PROVE  Flags!LinesRead(f, t)
<1> DEFINE p == Flags!Line(f, t)
           Bad == Flags!Digits \cup {"z", "x", "y"}
           zxy == SubSeq(f, 2, 4)
           Named3 == {f[2], f[3], f[4]} = {"z", "x", "y"}
           x == Flags!IndexOf(zxy, "x")
           y == Flags!IndexOf(zxy, "y")
           z == Flags!IndexOf(zxy, "z")
<1> HIDE DEF p, Bad, zxy, Named3, x, y, z
<1>1. Flags!NewFormat(f) = IF f = <<>> THEN {Flags!DefaultFormat}
                           ELSE IF Len(f) # 4 \/ f[1] \in Bad THEN {}
                           ELSE IF x + y + z # 3 THEN {}
                           ELSE {[sep |-> f[1], x |-> x, y |-> y, z |-> z]}
  BY DEF Flags!NewFormat, Bad, zxy, x, y, z
<1>2. Flags!LinesRead(f, t)
        <=> IF f = <<>> \/ (Len(f) = 4 /\ f[1] \notin Bad /\ Named3)
            THEN \E fmt \in Flags!NewFormat(f) : Flags!Parse(fmt, p) = {t}
            ELSE Flags!NewFormat(f) = {}
  BY Zenon DEF Flags!LinesRead, Bad, Named3, p
<1>3. CASE f = <<>>
  <2> DEFINE d == Flags!DefaultFormat
  <2>1. d.z = 0 /\ d.x = 1 /\ d.y = 2
    BY DEF Flags!DefaultFormat
  <2>2. Spelled(f) = <<"/", "z", "x", "y">>
    BY <1>3 DEF Spelled
  <2>3. Spelled(f)[1 + 1] = "z" /\ Spelled(f)[2 + 1] = "x" /\ Spelled(f)[3 + 1] = "y"
    BY <2>2
  <2>4. Len(p) = 3 /\ p[1] = t.z /\ p[2] = t.x /\ p[3] = t.y
    <3>1. Len(p) = 3 /\ (Spelled(f)[1 + 1] = "z" => p[1] = t.z)
      BY LineSpelled DEF p
    <3>2. Spelled(f)[2 + 1] = "x" => p[2] = t.x
      BY LineSpelled DEF p
    <3>3. Spelled(f)[3 + 1] = "y" => p[3] = t.y
      BY LineSpelled DEF p
    <3> QED
      BY Zenon, <2>3, <3>1, <3>2, <3>3
  <2> HIDE DEF d
  <2>5. p[d.z + 1] = t.z /\ p[d.x + 1] = t.x /\ p[d.y + 1] = t.y
    BY <2>1, <2>4
  <2>6. Flags!Parse(d, p) = {t}
    BY <2>4, <2>5, LineParsed
  <2> QED
    BY <1>1, <1>2, <1>3, <2>6 DEF d
<1>4. CASE f # <<>> /\ (Len(f) # 4 \/ f[1] \in Bad)
  BY <1>1, <1>2, <1>4
<1>5. CASE f # <<>> /\ Len(f) = 4 /\ f[1] \notin Bad
  <2>1. zxy \in Seq(S) /\ Len(zxy) = 3 /\ zxy[1] = f[2] /\ zxy[2] = f[3] /\ zxy[3] = f[4]
    BY <1>5, LastThree DEF zxy
  <2> DEFINE Found(i, c) == \/ i \in 0..2 /\ zxy[i + 1] = c
                            \/ i = -1 /\ \A k \in 1..3 : zxy[k] # c
  <2>2. Found(x, "x") /\ Found(y, "y") /\ Found(z, "z")
    BY <2>1, IndexFound DEF x, y, z
  <2>3. Named3 <=> {zxy[1], zxy[2], zxy[3]} = {"z", "x", "y"}
    BY Zenon, <2>1 DEF Named3
  <2>4. x + y + z = 3 <=> Named3
    <3>1. ASSUME Named3 PROVE x + y + z = 3
      <4>1. /\ zxy[1] = "x" \/ zxy[2] = "x" \/ zxy[3] = "x"
            /\ zxy[1] = "y" \/ zxy[2] = "y" \/ zxy[3] = "y"
            /\ zxy[1] = "z" \/ zxy[2] = "z" \/ zxy[3] = "z"
        BY <2>3, <3>1
      <4>2. x \in 0..2 /\ y \in 0..2 /\ z \in 0..2
        BY <2>2, <4>1
      <4>3. zxy[x + 1] = "x" /\ zxy[y + 1] = "y" /\ zxy[z + 1] = "z"
        BY <2>2, <4>2
      <4>4. x # y /\ y # z /\ x # z
        BY <4>3
      <4> QED
        BY <4>2, <4>4
    <3>2. ASSUME x + y + z = 3 PROVE Named3
      <4>1. (x \in 0..2 \/ x = -1) /\ (y \in 0..2 \/ y = -1) /\ (z \in 0..2 \/ z = -1)
        BY <2>2
      <4>2. (x >= 0 /\ y >= 0 => x # y) /\ (y >= 0 /\ z >= 0 => y # z) /\ (x >= 0 /\ z >= 0 => x # z)
        <5>1. (x >= 0 => zxy[x + 1] = "x") /\ (y >= 0 => zxy[y + 1] = "y") /\ (z >= 0 => zxy[z + 1] = "z")
          BY <2>2
        <5> QED
          BY <5>1
      <4>3. x \in 0..2 /\ y \in 0..2 /\ z \in 0..2
        BY <3>2, <4>1, <4>2
      <4>4. zxy[x + 1] = "x" /\ zxy[y + 1] = "y" /\ zxy[z + 1] = "z"
        BY <2>2, <4>3
      <4>5. {x, y, z} = {0, 1, 2}
        BY <3>2, <4>2, <4>3
      <4>6. {zxy[1], zxy[2], zxy[3]} = {zxy[x + 1], zxy[y + 1], zxy[z + 1]}
        BY <3>2, <4>2, <4>3
      <4> QED
        BY <2>3, <4>4, <4>6
    <3> QED
      BY <3>1, <3>2
  <2>5. CASE ~Named3
    BY <1>1, <1>2, <1>5, <2>4, <2>5
  <2>6. CASE Named3
    <3> DEFINE d == [sep |-> f[1], x |-> x, y |-> y, z |-> z]
    <3>1. d.x = x /\ d.y = y /\ d.z = z
      OBVIOUS
    <3>2. x + y + z = 3
      BY <2>4, <2>6
    <3>3. /\ zxy[1] = "x" \/ zxy[2] = "x" \/ zxy[3] = "x"
          /\ zxy[1] = "y" \/ zxy[2] = "y" \/ zxy[3] = "y"
          /\ zxy[1] = "z" \/ zxy[2] = "z" \/ zxy[3] = "z"
      BY <2>3, <2>6
    <3>4. x \in 0..2 /\ y \in 0..2 /\ z \in 0..2
      BY <2>2, <3>3
    <3>5. zxy[x + 1] = "x" /\ zxy[y + 1] = "y" /\ zxy[z + 1] = "z"
      BY <2>2, <3>4
    <3>6. Spelled(f) = f
      BY <1>5 DEF Spelled
    <3>7. x + 1 \in 1..3 /\ y + 1 \in 1..3 /\ z + 1 \in 1..3
      BY <3>4
    <3>8. Spelled(f)[(x + 1) + 1] = "x" /\ Spelled(f)[(y + 1) + 1] = "y" /\ Spelled(f)[(z + 1) + 1] = "z"
      <4>1. \A i \in 0..2 : zxy[i + 1] = f[(i + 1) + 1]
        BY <2>1
      <4> QED
        BY Zenon, <3>4, <3>5, <3>6, <4>1
    <3>9. Len(p) = 3 /\ p[x + 1] = t.x /\ p[y + 1] = t.y /\ p[z + 1] = t.z
      <4>1. Len(p) = 3 /\ p[x + 1] = t.x
        BY Zenon, <3>7, <3>8, LineSpelled DEF p
      <4>2. p[y + 1] = t.y
        BY Zenon, <3>7, <3>8, LineSpelled DEF p
      <4>3. p[z + 1] = t.z
        BY Zenon, <3>7, <3>8, LineSpelled DEF p
      <4> QED
        BY <4>1, <4>2, <4>3
    <3> HIDE DEF d
    <3>10. Flags!Parse(d, p) = {t}
      BY <3>1, <3>9, LineParsed
    <3>11. Flags!NewFormat(f) = {d}
      BY <1>1, <1>5, <3>2 DEF d
    <3> QED
      BY <1>2, <1>5, <2>6, <3>10, <3>11
  <2> QED
    BY <2>5, <2>6
<1> QED
  BY <1>3, <1>4, <1>5

-----------------------------------------------------------------------------
(* The zooms of a tile's flags.                                               *)

\* division with a remainder
LEMMA Quotient ==
  ASSUME NEW a \in Nat, NEW n \in Nat \ {0}
  PROVE  a \div n \in Nat /\ \E i \in 0..(n - 1) : a = (a \div n) * n + i
<1>1. a \div n \in Nat /\ a % n \in 0..(n - 1)
  OBVIOUS
<1>2. a = ((a \div n) * n) + (a % n)
  OBVIOUS
<1> QED
  BY <1>1, <1>2

LEMMA QuotientIs ==
  \A n \in Nat \ {0}, q \in Nat : \A i \in 0..(n - 1) :
    /\ q * n + i \in Nat /\ (q * n + i) \div n = q
    /\ \A m \in Nat \ {0} : q * n + i < m * n <=> q < m
<1> SUFFICES ASSUME NEW n \in Nat \ {0}, NEW q \in Nat, NEW i \in 0..(n - 1)
             PROVE  /\ q * n + i \in Nat /\ (q * n + i) \div n = q
                    /\ \A m \in Nat \ {0} : q * n + i < m * n <=> q < m
  OBVIOUS
<1>1. q * n + i \in Nat
  OBVIOUS
<1>2. (q * n + i) \div n = q
  OBVIOUS
<1>3. ASSUME NEW m \in Nat \ {0} PROVE q * n + i < m * n <=> q < m
  OBVIOUS
<1> QED
  BY <1>1, <1>2, <1>3

\* the tiles of a zoom
TilesAt(z) == [z : {z}, x : 0..(2^z - 1), y : 0..(2^z - 1)]

Covering(t, z) == {u \in TilesAt(z) : Flags!Overlap(t, u)}

\* a tile of a zoom that does not reach the tile's contains it
LEMMA FamilyAbove ==
  ASSUME MaxZ \in Nat, PowersUpTo(MaxZ), NEW k \in 0..MaxZ, NEW t \in TilesAt(k), NEW z \in 0..k
  PROVE  Flags!Family(t, z) = Covering(t, z)
<1> DEFINE n == 2^(k - z)
           m == 2^z
           qx == t.x \div n
           qy == t.y \div n
           f == [z |-> z, x |-> qx, y |-> qy]
<1>1. n \in Nat \ {0} /\ m \in Nat \ {0} /\ 2^k = m * n /\ 2^(z - z) = 1
  <2>1. k - z \in 0..MaxZ /\ z \in 0..MaxZ /\ z - z = 0
    OBVIOUS
  <2> QED
    BY <2>1 DEF PowersUpTo
<1>2. t.z = k /\ t.x \in 0..(2^k - 1) /\ t.y \in 0..(2^k - 1)
  BY DEF TilesAt
<1>3. Flags!Family(t, z) = {f}
  BY <1>2 DEF Flags!Family
<1>4. ASSUME NEW u \in TilesAt(z)
      PROVE  /\ u.z = z /\ u.x \in 0..(m - 1) /\ u.y \in 0..(m - 1)
             /\ Flags!Overlap(t, u) <=> u = f
  <2>1. u.z = z /\ u.x \in 0..(m - 1) /\ u.y \in 0..(m - 1)
    BY DEF TilesAt
  <2>2. u.x \div 1 = u.x /\ u.y \div 1 = u.y
    <3>1. m \in Nat
      BY <1>1
    <3> HIDE DEF m
    <3> QED BY <2>1, <3>1
  <2>3. (IF t.z < u.z THEN t.z ELSE u.z) = z
    BY <1>2, <2>1
  <2>4. Flags!Overlap(t, u) <=> <<qx, qy>> = <<u.x, u.y>>
    <3> DEFINE low == IF t.z < u.z THEN t.z ELSE u.z
    <3>1. Flags!Overlap(t, u) <=>
            <<t.x \div 2^(t.z - low), t.y \div 2^(t.z - low)>> =
            <<u.x \div 2^(u.z - low), u.y \div 2^(u.z - low)>>
      BY Zenon DEF Flags!Overlap
    <3>2. low = z
      BY <2>3
    <3> HIDE DEF low
    <3>3. Flags!Overlap(t, u) <=> <<qx, qy>> = <<u.x \div 1, u.y \div 1>>
      BY Zenon, <1>1, <1>2, <2>1, <3>1, <3>2
    <3> QED
      BY Zenon, <2>2, <3>3
  <2> HIDE DEF qx, qy, m
  <2> QED
    BY <2>1, <2>4 DEF TilesAt
<1>5. f \in TilesAt(z)
  <2>1. ASSUME NEW a \in 0..(2^k - 1) PROVE a \div n \in 0..(m - 1)
    <3> DEFINE p == 2^k
    <3>1. p = m * n /\ a \in 0..(p - 1)
      BY <1>1
    <3> HIDE DEF n, m, p
    <3>2. a \in Nat /\ a < m * n
      BY <1>1, <3>1
    <3>3. a \div n \in Nat /\ \E i \in 0..(n - 1) : a = (a \div n) * n + i
      BY <1>1, <3>2, Quotient
    <3>4. a \div n < m
      BY <1>1, <3>2, <3>3, QuotientIs
    <3> QED
      BY <1>1, <3>3, <3>4
  <2>2. qx \in 0..(m - 1) /\ qy \in 0..(m - 1)
    BY <1>2, <2>1
  <2> HIDE DEF qx, qy
  <2> QED
    BY <2>2 DEF TilesAt
<1> HIDE DEF f
<1>6. ASSUME NEW u PROVE u \in Covering(t, z) <=> u = f
  BY <1>4, <1>5 DEF Covering
<1> QED
  BY <1>3, <1>6

\* a tile of a further zoom lies within it
LEMMA FamilyBelow ==
  ASSUME MaxZ \in Nat, PowersUpTo(MaxZ), NEW k \in 0..MaxZ, NEW t \in TilesAt(k),
         NEW z \in 0..MaxZ, k < z
  PROVE  Flags!Family(t, z) = Covering(t, z)
<1> DEFINE n == 2^(z - k)
           m == 2^k
<1>1. n \in Nat \ {0} /\ m \in Nat \ {0} /\ 2^z = m * n /\ 2^(k - k) = 1
  <2>1. z - k \in 0..MaxZ /\ k \in 0..z /\ k - k = 0
    OBVIOUS
  <2> QED
    BY <2>1 DEF PowersUpTo
<1>2. t.z = k /\ t.x \in 0..(m - 1) /\ t.y \in 0..(m - 1)
  BY DEF TilesAt
<1>3. \A u : u \in Flags!Family(t, z) <=>
              \E i, j \in 0..(n - 1) : u = [z |-> z, x |-> t.x * n + i, y |-> t.y * n + j]
  <2>1. ~(z <= t.z) /\ n = 2^(z - t.z)
    BY <1>2
  <2> HIDE DEF n
  <2> QED
    BY <2>1 DEF Flags!Family
<1>4. TilesAt(z) = [z : {z}, x : 0..(m * n - 1), y : 0..(m * n - 1)]
  BY <1>1 DEF TilesAt
<1>5. ASSUME NEW u \in TilesAt(z)
      PROVE  Flags!Overlap(t, u) <=> u.x \div n = t.x /\ u.y \div n = t.y
  <2> DEFINE low == IF t.z < u.z THEN t.z ELSE u.z
  <2>1. Flags!Overlap(t, u) <=>
          <<t.x \div 2^(t.z - low), t.y \div 2^(t.z - low)>> =
          <<u.x \div 2^(u.z - low), u.y \div 2^(u.z - low)>>
    BY Zenon DEF Flags!Overlap
  <2>2. u.z = z
    BY DEF TilesAt
  <2>3. low = k
    BY <1>2, <2>2
  <2>4. t.x \div 1 = t.x /\ t.y \div 1 = t.y
    <3>1. m \in Nat
      BY <1>1
    <3> HIDE DEF m
    <3> QED BY <1>2, <3>1
  <2> HIDE DEF low
  <2>5. Flags!Overlap(t, u) <=> <<t.x \div 1, t.y \div 1>> = <<u.x \div n, u.y \div n>>
    BY Zenon, <1>1, <1>2, <2>1, <2>2, <2>3
  <2>6. Flags!Overlap(t, u) <=> <<t.x, t.y>> = <<u.x \div n, u.y \div n>>
    BY Zenon, <2>4, <2>5
  <2> HIDE DEF n
  <2> QED
    BY <2>6
<1> HIDE DEF n, m
<1>6. ASSUME NEW u \in Covering(t, z)
      PROVE  \E i, j \in 0..(n - 1) : u = [z |-> z, x |-> t.x * n + i, y |-> t.y * n + j]
  <2>1. u \in TilesAt(z) /\ u.x \div n = t.x /\ u.y \div n = t.y
    BY <1>5, <1>6 DEF Covering
  <2>2. u = [z |-> z, x |-> u.x, y |-> u.y] /\ u.x \in Nat /\ u.y \in Nat
    <3> DEFINE p == m * n
    <3>1. p \in Nat
      BY <1>1
    <3>2. u \in [z : {z}, x : 0..(p - 1), y : 0..(p - 1)]
      BY Zenon, <1>4, <2>1
    <3> HIDE DEF p
    <3> QED BY <3>1, <3>2
  <2>3. \E i \in 0..(n - 1) : u.x = (u.x \div n) * n + i
    BY <1>1, <2>2, Quotient
  <2>4. \E j \in 0..(n - 1) : u.y = (u.y \div n) * n + j
    BY <1>1, <2>2, Quotient
  <2> QED
    BY Zenon, <2>1, <2>2, <2>3, <2>4
<1>7. ASSUME NEW i \in 0..(n - 1), NEW j \in 0..(n - 1)
      PROVE  [z |-> z, x |-> t.x * n + i, y |-> t.y * n + j] \in Covering(t, z)
  <2> DEFINE a == t.x * n + i
             b == t.y * n + j
             u == [z |-> z, x |-> a, y |-> b]
  <2>1. t.x \in Nat /\ t.x < m /\ t.y \in Nat /\ t.y < m
    BY <1>1, <1>2
  <2>2. a \in Nat /\ a \div n = t.x /\ a < m * n
    BY <1>1, <2>1, QuotientIs
  <2>3. b \in Nat /\ b \div n = t.y /\ b < m * n
    BY <1>1, <2>1, QuotientIs
  <2> HIDE DEF a, b
  <2>4. a \in 0..(m * n - 1) /\ b \in 0..(m * n - 1)
    <3> DEFINE p == m * n
    <3>1. p \in Nat /\ a < p /\ b < p
      BY <1>1, <2>2, <2>3
    <3> HIDE DEF p
    <3> QED BY <2>2, <2>3, <3>1 DEF p
  <2>5. u \in TilesAt(z) /\ u.x = a /\ u.y = b
    BY <1>4, <2>4
  <2> HIDE DEF u
  <2>6. u \in Covering(t, z)
    BY <1>5, <2>2, <2>3, <2>5 DEF Covering
  <2> QED
    BY <2>6 DEF u, a, b
<1>8. \A u : u \in Covering(t, z) => u \in Flags!Family(t, z)
  BY <1>3, <1>6
<1>9. \A u : u \in Flags!Family(t, z) => u \in Covering(t, z)
  <2> SUFFICES ASSUME NEW u, u \in Flags!Family(t, z) PROVE u \in Covering(t, z)
    OBVIOUS
  <2>1. PICK i \in 0..(n - 1), j \in 0..(n - 1) : u = [z |-> z, x |-> t.x * n + i, y |-> t.y * n + j]
    BY <1>3
  <2>2. [z |-> z, x |-> t.x * n + i, y |-> t.y * n + j] \in Covering(t, z)
    BY <1>7
  <2> QED
    BY Zenon, <2>1, <2>2
<1> QED
  BY <1>8, <1>9

(* A tile list without zooms means its tiles and nothing else, and with zooms *)
(* every tile at those zooms that overlaps one of its own.                     *)
THEOREM FamilyIsCovered ==
  ASSUME MaxZ \in Nat, PowersUpTo(MaxZ), NEW k \in 0..MaxZ, NEW t \in TilesAt(k),
         NEW flags \in [min : 0..MaxZ \cup {NoFlag}, max : 0..MaxZ \cup {NoFlag}]
  PROVE  Flags!FamilyCovered(t, flags)
<1> DEFINE v == Flags!Flagged(flags)
           D == Flags!FlagDefault
<1>1. Flags!BoundZooms = [min |-> 0, max |-> 0]
  <2> DEFINE S == {"seed", "tile-list", "tile-name"}
             Op(w, c) == D[c]
             base == [min |-> 0, max |-> 0]
             C == Flags!Commands
  <2>1. C \in Seq(S) /\ Len(C) = 3 /\ C[3] = "tile-name"
    BY DEF Flags!Commands
  <2>2. Flags!BoundZooms = FoldLeft(Op, base, C)
    BY DEF Flags!BoundZooms, Flags!FoldLeft, FoldLeft, Flags!MapThenFoldSet, MapThenFoldSet,
           Flags!Max, Max
  <2>3. D["tile-name"] = [min |-> 0, max |-> 0]
    BY DEF Flags!FlagDefault
  <2> HIDE DEF Op, C, D, base, S
  <2>4. Folded(Op, base, C, FoldLeft(Op, base, C))
    BY <2>1, FoldLeftFolds
  <2> DEFINE value == FoldLeft(Op, base, C)
  <2> HIDE DEF value
  <2>5. \E r : /\ \A n \in 1..Len(C) : r[n] = Op(r[n - 1], C[n])
               /\ value = r[Len(C)]
    BY Zenon, <2>4 DEF Folded, value
  <2>6. value = D[C[3]]
    <3>1. 3 \in 1..3
      OBVIOUS
    <3> QED
      BY Zenon, <2>1, <2>5, <3>1 DEF Op
  <2> QED
    BY Zenon, <2>1, <2>2, <2>3, <2>6 DEF value
<1>2. v.min \in 0..MaxZ /\ v.max \in 0..MaxZ
  BY <1>1 DEF Flags!Flagged
<1> HIDE DEF v
<1>3. SUFFICES ASSUME NEW zs \in Flags!Zooms("tile-name", flags)
               PROVE  IF Flags!Explicit(flags) THEN Flags!TilesFor(t, flags, zs) = {t}
                      ELSE Flags!TilesFor(t, flags, zs) = UNION {Covering(t, z) : z \in v.min..v.max}
  BY DEF Flags!FamilyCovered, Covering, TilesAt, v
<1>4. CASE Flags!Explicit(flags)
  BY <1>4 DEF Flags!TilesFor
<1>5. CASE ~Flags!Explicit(flags)
  <2>1. ~(v.max < v.min) /\ zs = Flags!SliceFromRange(v.min, v.max)
    BY <1>3, <1>5 DEF Flags!Zooms, v
  <2>2. /\ zs # <<>> /\ DOMAIN zs = 1..(v.max - v.min + 1)
        /\ \A i \in DOMAIN zs : zs[i] = v.min + i - 1
    BY <1>2, <2>1 DEF Flags!SliceFromRange
  <2>3. Flags!TilesFor(t, flags, zs) = UNION {Flags!Family(t, zs[i]) : i \in DOMAIN zs}
    BY <1>5, <2>2 DEF Flags!TilesFor
  <2>4. \A z \in 0..MaxZ : Flags!Family(t, z) = Covering(t, z)
    BY FamilyAbove, FamilyBelow
  <2>5. \A i \in DOMAIN zs : zs[i] \in v.min..v.max /\ zs[i] \in 0..MaxZ
    BY <1>2, <2>1, <2>2
  <2>6. \A z \in v.min..v.max : \E i \in DOMAIN zs : zs[i] = z
    <3> SUFFICES ASSUME NEW z \in v.min..v.max
                 PROVE  z - v.min + 1 \in DOMAIN zs /\ zs[z - v.min + 1] = z
      OBVIOUS
    <3>1. z - v.min + 1 \in 1..(v.max - v.min + 1) /\ v.min + (z - v.min + 1) - 1 = z
      BY <1>2
    <3> QED
      BY <2>2, <3>1
  <2>7. \A u : u \in UNION {Flags!Family(t, zs[i]) : i \in DOMAIN zs}
                <=> u \in UNION {Covering(t, z) : z \in v.min..v.max}
    BY <2>4, <2>5, <2>6
  <2> QED
    BY <1>5, <2>3, <2>7
<1> QED
  BY <1>4, <1>5

-----------------------------------------------------------------------------
(* Texts of words, each replaced by others, and the statements of a tile.     *)
(* What holds of the empty sequence and of a sequence with an element more    *)
(* holds of all.                                                              *)
LEMMA ByAppending ==
  ASSUME NEW S, NEW Good, <<>> \in Good,
         \A s \in Seq(S) : \A x \in S : s \in Good => Append(s, x) \in Good
  PROVE  \A s \in Seq(S) : s \in Good
<1> SUFFICES ASSUME NEW s \in Seq(S) PROVE s \in Good
  OBVIOUS
<1> DEFINE n == Len(s)
           p(i) == SubSeq(s, 1, i)
           G == {i \in 0..n : p(i) \in Good}
<1>1. n \in Nat /\ p(0) = <<>> /\ p(n) = s
  OBVIOUS
<1>2. \A i \in 1..n : p(i - 1) \in Seq(S) /\ s[i] \in S /\ p(i) = Append(p(i - 1), s[i])
  OBVIOUS
<1> HIDE DEF n, p
<1>3. 0 \in G
  BY <1>1
<1>4. ASSUME NEW i \in 1..n, i - 1 \in G PROVE i \in G
  <2>1. p(i - 1) \in Good
    BY <1>4
  <2>2. p(i) \in Good
    BY <1>2, <2>1
  <2> QED
    BY <1>1, <2>2
<1> HIDE DEF G
<1>5. \A i \in 0..n : i \in G
  BY <1>1, <1>3, <1>4, Steps
<1> QED
  BY <1>1, <1>5 DEF G

(* The parts of a sequence of sequences, one after the other.                 *)
LEMMA Flattened ==
  ASSUME NEW S, NEW ss \in Seq(Seq(S)), ss # <<>>
  PROVE  \E f : /\ FlattenSeq(ss) = f[Len(ss)] /\ f[1] = ss[1]
                /\ \A i \in 2..Len(ss) : f[i] = f[i - 1] \o ss[i]
<1> DEFINE n == Len(ss)
           c == ss[1]
           Def(v, i) == v \o ss[i]
           f == CHOOSE g : g = [i \in 1..n |-> IF i = 1 THEN c ELSE Def(g[i - 1], i)]
<1>1. n \in Nat /\ n # 0 /\ n >= 1
  OBVIOUS
<1>2. FlattenSeq(ss) = f[n]
  <2> DEFINE h == CHOOSE g : g = [i \in 1..n |-> IF i = 1 THEN ss[i] ELSE g[i - 1] \o ss[i]]
  <2>1. FlattenSeq(ss) = h[n]
    BY <1>1 DEF FlattenSeq
  <2>2. ASSUME NEW g
        PROVE  [i \in 1..n |-> IF i = 1 THEN ss[i] ELSE g[i - 1] \o ss[i]] =
               [i \in 1..n |-> IF i = 1 THEN c ELSE Def(g[i - 1], i)]
    OBVIOUS
  <2>3. h = f
    BY <2>2
  <2> QED
    BY <2>1, <2>3
<1>3. FiniteNatInductiveDefHypothesis(f, c, Def, 1, n)
  BY DEF FiniteNatInductiveDefHypothesis
<1> HIDE DEF f, Def, c, n
<1>4. FiniteNatInductiveDefConclusion(f, c, Def, 1, n)
  BY <1>1, <1>3, FiniteNatInductiveDef
<1>5. f = [i \in 1..n |-> IF i = 1 THEN c ELSE Def(f[i - 1], i)]
  BY <1>4 DEF FiniteNatInductiveDefConclusion
<1>6. f[1] = c
  BY <1>1, <1>5
<1>7. \A i \in 2..n : f[i] = Def(f[i - 1], i)
  BY <1>1, <1>5
<1> QED
  BY <1>2, <1>6, <1>7 DEF Def, c, n

LEMMA FlattenNone == FlattenSeq(<<>>) = <<>>
BY DEF FlattenSeq

LEMMA FlattenOne ==
  ASSUME NEW S, NEW ss \in Seq(Seq(S)), Len(ss) = 1
  PROVE  FlattenSeq(ss) = ss[1]
<1>1. ss # <<>>
  OBVIOUS
<1> QED
  BY <1>1, Flattened

LEMMA FlattenAppend ==
  ASSUME NEW S, NEW ss \in Seq(Seq(S)), NEW y \in Seq(S)
  PROVE  FlattenSeq(Append(ss, y)) = FlattenSeq(ss) \o y
<1> DEFINE tt == Append(ss, y)
           n == Len(ss)
<1>1. /\ tt \in Seq(Seq(S)) /\ tt # <<>> /\ Len(tt) = n + 1 /\ n \in Nat /\ tt[n + 1] = y
      /\ \A i \in 1..n : tt[i] = ss[i]
  <2>1. n \in Nat
    OBVIOUS
  <2> QED
    BY <2>1, AppendProperties
<1> HIDE DEF tt
<1>2. CASE n = 0
  <2>1. FlattenSeq(tt) = y
    BY <1>1, <1>2, FlattenOne
  <2>2. ss = <<>>
    BY <1>2
  <2> QED
    BY <2>1, <2>2, FlattenNone DEF tt
<1>3. CASE n # 0
  <2>1. PICK f : /\ FlattenSeq(ss) = f[n] /\ f[1] = ss[1]
                 /\ \A i \in 2..n : f[i] = f[i - 1] \o ss[i]
    <3>1. ss # <<>>
      BY <1>3
    <3> QED
      BY Zenon, <3>1, Flattened
  <2>2. PICK g : /\ FlattenSeq(tt) = g[n + 1] /\ g[1] = tt[1]
                 /\ \A i \in 2..(n + 1) : g[i] = g[i - 1] \o tt[i]
    <3>1. \E g : /\ FlattenSeq(tt) = g[Len(tt)] /\ g[1] = tt[1]
                 /\ \A i \in 2..Len(tt) : g[i] = g[i - 1] \o tt[i]
      BY Zenon, <1>1, Flattened
    <3> QED
      BY Zenon, <1>1, <3>1
  <2> DEFINE G == {0} \cup {i \in 1..n : g[i] = f[i]}
  <2>3. ASSUME NEW i \in 1..n, i - 1 \in G PROVE i \in G
    <3>1. CASE i = 1
      BY <1>1, <2>1, <2>2, <3>1
    <3>2. CASE i # 1
      <4>1. i \in 2..n /\ i \in 2..(n + 1) /\ i - 1 # 0
        BY <1>1, <3>2
      <4>2. g[i - 1] = f[i - 1]
        BY <2>3, <4>1
      <4> QED
        BY <1>1, <2>1, <2>2, <4>1, <4>2
    <3> QED
      BY <3>1, <3>2
  <2> HIDE DEF G
  <2>4. \A i \in 0..n : i \in G
    <3>1. 0 \in G
      BY DEF G
    <3> HIDE DEF n
    <3> QED BY <1>1, <2>3, <3>1, Steps
  <2>5. g[n] = f[n]
    BY <1>1, <1>3, <2>4 DEF G
  <2>6. g[n + 1] = g[n] \o y
    <3>1. n + 1 \in 2..(n + 1) /\ (n + 1) - 1 = n
      BY <1>1, <1>3
    <3> QED BY <1>1, <2>2, <3>1
  <2> QED
    BY <2>1, <2>2, <2>5, <2>6 DEF tt
<1> QED
  BY <1>2, <1>3

-----------------------------------------------------------------------------
(* The words of a text, each replaced by what h makes of it.                  *)
Spread(h, s) == FlattenSeq([i \in DOMAIN s |-> h[s[i]]])

LEMMA SpreadNone == \A h : Spread(h, <<>>) = <<>>
<1> SUFFICES ASSUME NEW h PROVE Spread(h, <<>>) = <<>>
  OBVIOUS
<1> DEFINE e == <<>>
           f == [i \in DOMAIN e |-> h[e[i]]]
<1>1. f = <<>>
  OBVIOUS
<1> HIDE DEF f
<1> QED
  BY <1>1, FlattenNone DEF Spread, f

LEMMA SpreadAppend ==
  ASSUME NEW W, NEW V, NEW h \in [W -> Seq(V)], NEW s \in Seq(W), NEW x \in W
  PROVE  Spread(h, Append(s, x)) = Spread(h, s) \o h[x]
<1> DEFINE t == Append(s, x)
           f == [i \in DOMAIN s |-> h[s[i]]]
           g == [i \in DOMAIN t |-> h[t[i]]]
<1>1. /\ Len(t) = Len(s) + 1 /\ t[Len(s) + 1] = x /\ DOMAIN t = 1..(Len(s) + 1) /\ DOMAIN s = 1..Len(s)
      /\ \A i \in 1..Len(s) : t[i] = s[i] /\ s[i] \in W /\ Len(s) \in Nat
  OBVIOUS
<1> HIDE DEF t
<1>2. f \in Seq(Seq(V)) /\ Len(f) = Len(s) /\ \A i \in 1..Len(s) : f[i] = h[s[i]]
  BY <1>1
<1>3. DOMAIN g = 1..(Len(s) + 1) /\ g[Len(s) + 1] = h[x] /\ \A i \in 1..Len(s) : g[i] = h[s[i]]
  BY <1>1
<1>4. h[x] \in Seq(V)
  OBVIOUS
<1> HIDE DEF f, g
<1>5. g = Append(f, h[x])
  <2> DEFINE a == Append(f, h[x])
  <2>1. /\ a \in Seq(Seq(V)) /\ Len(a) = Len(s) + 1 /\ a[Len(s) + 1] = h[x]
        /\ \A i \in 1..Len(s) : a[i] = f[i]
    BY <1>2, <1>4, AppendProperties
  <2> HIDE DEF a
  <2>2. g \in Seq(Seq(V)) /\ Len(g) = Len(s) + 1
    <3>1. \A i \in 1..(Len(s) + 1) : g[i] \in Seq(V)
      <4> SUFFICES ASSUME NEW i \in 1..(Len(s) + 1) PROVE g[i] \in Seq(V)
        OBVIOUS
      <4>1. i = Len(s) + 1 \/ i \in 1..Len(s)
        OBVIOUS
      <4> QED
        BY <1>1, <1>3, <1>4, <4>1
    <3>2. g = [i \in 1..(Len(s) + 1) |-> g[i]]
      BY Zenon, <1>3 DEF g
    <3> QED
      BY <3>1, <3>2
  <2>3. ASSUME NEW i \in 1..(Len(s) + 1) PROVE g[i] = a[i]
    <3>1. i = Len(s) + 1 \/ i \in 1..Len(s)
      OBVIOUS
    <3> QED
      BY <1>2, <1>3, <2>1, <3>1
  <2>4. g = a
    BY <2>1, <2>2, <2>3, SeqEqual
  <2> QED BY <2>4 DEF a
<1>6. FlattenSeq(g) = FlattenSeq(f) \o h[x]
  BY <1>2, <1>4, <1>5, FlattenAppend
<1> QED
  BY <1>6 DEF Spread, f, g, t

LEMMA SpreadIsText ==
  \A W, V, h, s : h \in [W -> Seq(V)] /\ s \in Seq(W) => Spread(h, s) \in Seq(V)
<1> SUFFICES ASSUME NEW W, NEW V, NEW h \in [W -> Seq(V)], NEW s \in Seq(W)
             PROVE  Spread(h, s) \in Seq(V)
  OBVIOUS
<1> DEFINE Good == {u \in Seq(W) : Spread(h, u) \in Seq(V)}
<1>1. <<>> \in Good
  <2>1. <<>> \in Seq(V) /\ <<>> \in Seq(W)
    OBVIOUS
  <2> QED
    BY Zenon, <2>1, SpreadNone
<1>2. ASSUME NEW u \in Seq(W), NEW x \in W, u \in Good PROVE Append(u, x) \in Good
  <2>1. Spread(h, u) \in Seq(V) /\ h[x] \in Seq(V) /\ Append(u, x) \in Seq(W)
    BY <1>2
  <2>2. Spread(h, Append(u, x)) = Spread(h, u) \o h[x]
    BY Zenon, SpreadAppend
  <2>3. Spread(h, u) \o h[x] \in Seq(V)
    BY <2>1, ConcatProperties
  <2> QED
    BY Zenon, <2>1, <2>2, <2>3
<1> HIDE DEF Good
<1>3. s \in Good
  BY <1>1, <1>2, ByAppending
<1> QED
  BY <1>3 DEF Good

LEMMA AppendedLast ==
  \A W : \A s, u \in Seq(W) : \A x \in W :
    /\ s \o u \in Seq(W) /\ Append(u, x) \in Seq(W)
    /\ s \o Append(u, x) = Append(s \o u, x)
<1> SUFFICES ASSUME NEW W, NEW s \in Seq(W), NEW u \in Seq(W), NEW x \in W
             PROVE  /\ s \o u \in Seq(W) /\ Append(u, x) \in Seq(W)
                    /\ s \o Append(u, x) = Append(s \o u, x)
  OBVIOUS
<1> DEFINE one == <<x>>
<1>1. one \in Seq(W) /\ s \o u \in Seq(W) /\ Append(u, x) \in Seq(W)
  OBVIOUS
<1>2. Append(u, x) = u \o one /\ Append(s \o u, x) = (s \o u) \o one
  BY <1>1, AppendIsConcat
<1> HIDE DEF one
<1>3. (s \o u) \o one = s \o (u \o one)
  BY SMT, <1>1, ConcatAssociative
<1> QED
  BY Zenon, <1>1, <1>2, <1>3

LEMMA SpreadConcat ==
  \A W, V, h, s, t : h \in [W -> Seq(V)] /\ s \in Seq(W) /\ t \in Seq(W) =>
    Spread(h, s \o t) = Spread(h, s) \o Spread(h, t)
<1> SUFFICES ASSUME NEW W, NEW V, NEW h \in [W -> Seq(V)], NEW s \in Seq(W), NEW t \in Seq(W)
             PROVE  Spread(h, s \o t) = Spread(h, s) \o Spread(h, t)
  OBVIOUS
<1> DEFINE Good == {u \in Seq(W) : Spread(h, s \o u) = Spread(h, s) \o Spread(h, u)}
<1>1. <<>> \in Good
  <2>1. s \o <<>> = s /\ <<>> \in Seq(W)
    OBVIOUS
  <2>2. Spread(h, s) \in Seq(V)
    BY Zenon, SpreadIsText
  <2>3. Spread(h, s) \o <<>> = Spread(h, s)
    BY <2>2, ConcatEmptySeq
  <2> QED
    BY Zenon, <2>1, <2>3, SpreadNone
<1>2. ASSUME NEW u \in Seq(W), NEW x \in W, u \in Good PROVE Append(u, x) \in Good
  <2>1. s \o Append(u, x) = Append(s \o u, x) /\ s \o u \in Seq(W) /\ Append(u, x) \in Seq(W)
    <3> HIDE DEF Good
    <3> QED BY AppendedLast
  <2>2. Spread(h, Append(s \o u, x)) = Spread(h, s \o u) \o h[x]
    BY <2>1, SpreadAppend
  <2>3. Spread(h, Append(u, x)) = Spread(h, u) \o h[x]
    BY Zenon, SpreadAppend
  <2>4. Spread(h, s) \in Seq(V) /\ Spread(h, u) \in Seq(V)
    BY Zenon, SpreadIsText
  <2>5. h[x] \in Seq(V)
    OBVIOUS
  <2>6. (Spread(h, s) \o Spread(h, u)) \o h[x] = Spread(h, s) \o (Spread(h, u) \o h[x])
    <3> DEFINE a == Spread(h, s)
               b == Spread(h, u)
               c == h[x]
    <3>1. a \in Seq(V) /\ b \in Seq(V) /\ c \in Seq(V)
      BY Zenon, <2>4, <2>5
    <3> HIDE DEF a, b, c, Good
    <3>2. (a \o b) \o c = a \o (b \o c)
      BY SMTT(30), <3>1, ConcatAssociative
    <3> QED
      BY Zenon, <3>2 DEF a, b, c
  <2> QED
    BY Zenon, <1>2, <2>1, <2>2, <2>3, <2>6
<1> HIDE DEF Good
<1>3. t \in Good
  BY <1>1, <1>2, ByAppending
<1> QED
  BY <1>3 DEF Good

\* what the words of a text become decides what it becomes
LEMMA SpreadSame ==
  ASSUME NEW g, NEW h, NEW s, \A i \in DOMAIN s : g[s[i]] = h[s[i]]
  PROVE  Spread(g, s) = Spread(h, s)
<1>1. [i \in DOMAIN s |-> g[s[i]]] = [i \in DOMAIN s |-> h[s[i]]]
  OBVIOUS
<1> QED
  BY <1>1 DEF Spread

\* what becomes of a word in two steps
Through(W, g, h) == [w \in W |-> Spread(g, h[w])]

LEMMA SpreadTwice ==
  \A W, V, U, h, g, s : h \in [W -> Seq(V)] /\ g \in [V -> Seq(U)] /\ s \in Seq(W) =>
    Spread(g, Spread(h, s)) = Spread(Through(W, g, h), s)
<1> TAKE W, V, U, h, g, s
<1> HAVE h \in [W -> Seq(V)] /\ g \in [V -> Seq(U)] /\ s \in Seq(W)
<1> DEFINE k == Through(W, g, h)
           Good == {u \in Seq(W) : Spread(g, Spread(h, u)) = Spread(k, u)}
<1>1. k \in [W -> Seq(U)] /\ \A w \in W : k[w] = Spread(g, h[w])
  <2>1. \A w \in W : h[w] \in Seq(V)
    OBVIOUS
  <2>2. \A w \in W : Spread(g, h[w]) \in Seq(U)
    BY Zenon, <2>1, SpreadIsText
  <2> QED
    BY <2>2 DEF Through
<1> HIDE DEF k
<1>2. <<>> \in Good
  <2>1. <<>> \in Seq(W)
    OBVIOUS
  <2>2. Spread(h, <<>>) = <<>> /\ Spread(g, <<>>) = <<>> /\ Spread(k, <<>>) = <<>>
    BY Zenon, SpreadNone
  <2>3. Spread(g, Spread(h, <<>>)) = Spread(k, <<>>)
    BY ONLY Zenon, <2>2
  <2> QED
    BY Zenon, <2>1, <2>3
<1>3. ASSUME NEW u \in Seq(W), NEW x \in W, u \in Good PROVE Append(u, x) \in Good
  <2>1. Spread(h, Append(u, x)) = Spread(h, u) \o h[x]
    BY Zenon, SpreadAppend
  <2>2. Spread(h, u) \in Seq(V)
    BY Zenon, SpreadIsText
  <2>3. h[x] \in Seq(V) /\ Append(u, x) \in Seq(W)
    OBVIOUS
  <2>4. Spread(g, Spread(h, u) \o h[x]) = Spread(g, Spread(h, u)) \o Spread(g, h[x])
    <3> DEFINE a == Spread(h, u)
               b == h[x]
    <3>1. a \in Seq(V) /\ b \in Seq(V)
      BY Zenon, <2>2, <2>3
    <3> HIDE DEF a, b, Good
    <3>2. Spread(g, a \o b) = Spread(g, a) \o Spread(g, b)
      BY <3>1, SpreadConcat
    <3> QED
      BY Zenon, <3>2 DEF a, b
  <2>5. Spread(k, Append(u, x)) = Spread(k, u) \o k[x]
    BY Zenon, <1>1, SpreadAppend
  <2> QED
    BY Zenon, <1>1, <1>3, <2>1, <2>3, <2>4, <2>5
<1> HIDE DEF Good
<1>4. s \in Good
  BY <1>2, <1>3, ByAppending
<1> QED
  BY <1>4 DEF Good, k

LEMMA SpreadEach ==
  ASSUME NEW W, NEW s \in Seq(W), NEW h, \A w \in W : h[w] = <<w>>
  PROVE  Spread(h, s) = s
<1> DEFINE k == [w \in W |-> <<w>>]
           Good == {u \in Seq(W) : Spread(k, u) = u}
<1>1. k \in [W -> Seq(W)] /\ \A w \in W : k[w] = <<w>>
  OBVIOUS
<1> HIDE DEF k
<1>2. <<>> \in Good
  <2>1. <<>> \in Seq(W)
    OBVIOUS
  <2> QED
    BY Zenon, <2>1, SpreadNone
<1>3. ASSUME NEW u \in Seq(W), NEW x \in W, u \in Good PROVE Append(u, x) \in Good
  <2>1. Spread(k, Append(u, x)) = Spread(k, u) \o k[x]
    <3> HIDE DEF Good
    <3>1. k \in [W -> Seq(W)]
      BY <1>1
    <3> QED
      BY <3>1, SpreadAppend
  <2>2. Append(u, x) = u \o <<x>> /\ Append(u, x) \in Seq(W)
    BY AppendIsConcat
  <2> QED
    BY <1>1, <1>3, <2>1, <2>2
<1> HIDE DEF Good
<1>4. s \in Good
  BY <1>2, <1>3, ByAppending
<1>5. \A i \in DOMAIN s : h[s[i]] = k[s[i]]
  <2>1. \A i \in DOMAIN s : s[i] \in W
    OBVIOUS
  <2>2. \A w \in W : h[w] = k[w]
    BY <1>1
  <2> QED
    BY Zenon, <2>1, <2>2
<1>6. Spread(h, s) = Spread(k, s)
  BY <1>5, SpreadSame
<1> QED
  BY <1>4, <1>6 DEF Good

LEMMA SpreadOne ==
  \A W, V, h, x : h \in [W -> Seq(V)] /\ x \in W => Spread(h, <<x>>) = h[x]
<1> TAKE W, V, h, x
<1> HAVE h \in [W -> Seq(V)] /\ x \in W
<1>1. <<x>> = Append(<<>>, x) /\ <<>> \in Seq(W) /\ h[x] \in Seq(V)
  OBVIOUS
<1>2. Spread(h, Append(<<>>, x)) = Spread(h, <<>>) \o h[x]
  BY <1>1, SpreadAppend
<1>3. Spread(h, <<>>) = <<>>
  BY SpreadNone
<1>4. <<>> \o h[x] = h[x]
  BY <1>1, ConcatEmptySeq
<1> QED
  BY Zenon, <1>1, <1>2, <1>3, <1>4

\* the words of a text, each replaced by one
Worded(W, V, f, k, s) ==
  f \in [W -> V] /\ s \in Seq(W) /\ k = [w \in W |-> <<f[w]>>]

LEMMA SpreadWords ==
  \A W, V, f, k, s : Worded(W, V, f, k, s) => Spread(k, s) = [i \in DOMAIN s |-> f[s[i]]]
<1> TAKE W, V, f, k, s
<1> HAVE Worded(W, V, f, k, s)
<1>0. f \in [W -> V] /\ s \in Seq(W) /\ k = [w \in W |-> <<f[w]>>]
  BY DEF Worded
<1> DEFINE Of(u) == [i \in DOMAIN u |-> f[u[i]]]
           Good == {u \in Seq(W) : Spread(k, u) = Of(u)}
<1>1. k \in [W -> Seq(V)] /\ \A w \in W : k[w] = <<f[w]>>
  BY <1>0
<1>2. \A u \in Seq(W) : Of(u) \in Seq(V) /\ Len(Of(u)) = Len(u) /\ \A i \in 1..Len(u) : Of(u)[i] = f[u[i]]
  BY <1>0
<1>3. Of(<<>>) = <<>>
  OBVIOUS
<1> HIDE DEF Of
<1>4. <<>> \in Good
  <2>1. <<>> \in Seq(W)
    OBVIOUS
  <2>2. Spread(k, <<>>) = <<>>
    BY Zenon, SpreadNone
  <2> QED
    BY <1>3, <2>1, <2>2
<1>5. ASSUME NEW u \in Seq(W), NEW x \in W, u \in Good PROVE Append(u, x) \in Good
  <2>1. Append(u, x) \in Seq(W)
    OBVIOUS
  <2>2. Spread(k, Append(u, x)) = Spread(k, u) \o k[x]
    BY <1>1, SpreadAppend
  <2>3. Spread(k, u) \o k[x] = Append(Of(u), f[x])
    <3>1. Spread(k, u) = Of(u) /\ k[x] = <<f[x]>> /\ Of(u) \in Seq(V) /\ f[x] \in V
      BY <1>0, <1>1, <1>2, <1>5
    <3> QED
      BY <3>1, AppendIsConcat
  <2>4. Append(Of(u), f[x]) = Of(Append(u, x))
    <3> DEFINE a == Append(Of(u), f[x])
               b == Append(u, x)
    <3>1. /\ b \in Seq(W) /\ Len(b) = Len(u) + 1 /\ b[Len(u) + 1] = x
          /\ \A i \in 1..Len(u) : b[i] = u[i]
      BY AppendProperties
    <3>2. /\ a \in Seq(V) /\ Len(a) = Len(u) + 1 /\ a[Len(u) + 1] = f[x]
          /\ \A i \in 1..Len(u) : a[i] = Of(u)[i]
      <4>1. Of(u) \in Seq(V) /\ Len(Of(u)) = Len(u) /\ f[x] \in V
        BY <1>0, <1>2
      <4> QED
        BY <4>1, AppendProperties
    <3> HIDE DEF a, b
    <3>3. /\ Of(b) \in Seq(V) /\ Len(Of(b)) = Len(u) + 1
          /\ \A i \in 1..(Len(u) + 1) : Of(b)[i] = f[b[i]]
      BY <1>2, <3>1
    <3>4. ASSUME NEW i \in 1..(Len(u) + 1) PROVE a[i] = Of(b)[i]
      <4>1. i = Len(u) + 1 \/ i \in 1..Len(u)
        OBVIOUS
      <4>2. Of(b)[i] = f[b[i]]
        BY <3>3
      <4>3. CASE i = Len(u) + 1
        BY Zenon, <3>1, <3>2, <4>2, <4>3
      <4>4. CASE i \in 1..Len(u)
        <5>1. a[i] = Of(u)[i] /\ b[i] = u[i] /\ Of(u)[i] = f[u[i]]
          BY <1>2, <3>1, <3>2, <4>4
        <5> QED
          BY Zenon, <4>2, <5>1
      <4> QED
        BY <4>1, <4>3, <4>4
    <3>5. a = Of(b)
      BY <3>2, <3>3, <3>4, SeqEqual
    <3> QED
      BY <3>5 DEF a, b
  <2> QED
    BY <2>1, <2>2, <2>3, <2>4
<1> HIDE DEF Good
<1>6. s \in Good
  BY <1>0, <1>4, <1>5, ByAppending
<1> QED
  BY <1>6 DEF Good, Of

(* Words over names, arguments and values X: those of a layer, of a parameter *)
(* that became an argument, and of the statement that is made of them.        *)
LayerWords(X) == {"text", "token", "filled"} \X X
FinalWords(X) == {"text", "arg"} \X X
AllWords(X)   == {"text", "token", "filled", "arg", "value", "unbound"} \X X

\* all the occurrences of a word
Put(W, w, by) == [x \in W |-> IF x = w THEN by ELSE <<x>>]

LEMMA SqlFlatten == \A s : Sql!FlattenSeq(s) = FlattenSeq(s)
BY DEF Sql!FlattenSeq, FlattenSeq

LEMMA Replacing ==
  \A W, s, w, by : s \in Seq(W) => Sql!ReplaceWord(s, w, by) = Spread(Put(W, w, by), s)
<1> TAKE W, s, w, by
<1> HAVE s \in Seq(W)
<1>1. \A i \in DOMAIN s : s[i] \in W
  OBVIOUS
<1>2. [i \in DOMAIN s |-> IF s[i] = w THEN by ELSE <<s[i]>>] =
      [i \in DOMAIN s |-> Put(W, w, by)[s[i]]]
  BY <1>1 DEF Put
<1> QED
  BY Zenon, <1>2, SqlFlatten DEF Sql!ReplaceWord, Spread

\* a statement whose tokens are replaced as far as the cache goes
Sub(X, cache) ==
  [w \in LayerWords(X) |->
     IF w[1] = "token" /\ w[2] \in DOMAIN cache THEN cache[w[2]] ELSE <<w>>]

LEMMA SubIs ==
  ASSUME NEW X, NEW D, NEW cache \in [D -> Seq(FinalWords(X))]
  PROVE  Sub(X, cache) \in [LayerWords(X) -> Seq(AllWords(X))]
<1>1. \A s : s \in Seq(FinalWords(X)) => s \in Seq(AllWords(X))
  BY DEF FinalWords, AllWords
<1>2. ASSUME NEW w \in LayerWords(X) PROVE Sub(X, cache)[w] \in Seq(AllWords(X))
  <2>1. CASE w[1] = "token" /\ w[2] \in DOMAIN cache
    BY <1>1, <2>1 DEF Sub
  <2>2. CASE ~(w[1] = "token" /\ w[2] \in DOMAIN cache)
    <3>1. w \in AllWords(X)
      BY DEF AllWords, LayerWords
    <3>2. Sub(X, cache)[w] = <<w>>
      BY Zenon, <2>2 DEF Sub
    <3> QED
      BY <3>1, <3>2
  <2> QED
    BY <2>1, <2>2
<1> QED
  BY <1>2 DEF Sub

LEMMA PutIs ==
  \A W, V, w, by : W \subseteq V /\ by \in Seq(V) =>
    /\ Put(W, w, by) \in [W -> Seq(V)]
    /\ \A x \in W : Put(W, w, by)[x] = IF x = w THEN by ELSE <<x>>
<1> TAKE W, V, w, by
<1> HAVE W \subseteq V /\ by \in Seq(V)
<1>1. \A x \in W : Put(W, w, by)[x] = IF x = w THEN by ELSE <<x>>
  BY DEF Put
<1>2. \A x \in W : <<x>> \in Seq(V)
  OBVIOUS
<1>3. \A x \in W : Put(W, w, by)[x] \in Seq(V)
  BY <1>1, <1>2
<1> QED
  BY <1>1, <1>3 DEF Put

LEMMA SubStep ==
  ASSUME NEW X, NEW D \in SUBSET X, NEW cache \in [D -> Seq(FinalWords(X))],
         NEW t \in X, NEW final \in Seq(FinalWords(X)), t \in D => cache[t] = final,
         NEW u \in Seq(LayerWords(X))
  PROVE  Sql!ReplaceWord(Spread(Sub(X, cache), u), Sql!Token(t), final) =
           Spread(Sub(X, Sql!Cached(cache, t, final)), u)
<1> DEFINE W == LayerWords(X)
           V == AllWords(X)
           h == Sub(X, cache)
           g == Put(V, Sql!Token(t), final)
           k == Sub(X, Sql!Cached(cache, t, final))
<1>1. h \in [W -> Seq(V)]
  BY SubIs
<1>2. final \in Seq(V) /\ \A s \in Seq(FinalWords(X)) : s \in Seq(V)
  BY DEF FinalWords, AllWords
<1>3. g \in [V -> Seq(V)] /\ \A x \in V : g[x] = IF x = Sql!Token(t) THEN final ELSE <<x>>
  BY <1>2, PutIs
<1>4. Spread(h, u) \in Seq(V)
  BY <1>1, SpreadIsText
<1>5. Sql!ReplaceWord(Spread(h, u), Sql!Token(t), final) = Spread(g, Spread(h, u))
  BY <1>4, Replacing
<1>6. Spread(g, Spread(h, u)) = Spread(Through(W, g, h), u)
  <2>1. u \in Seq(W)
    OBVIOUS
  <2>2. g \in [V -> Seq(V)]
    BY <1>3
  <2> HIDE DEF g, h, W, V
  <2> QED BY <1>1, <2>1, <2>2, SpreadTwice
<1>7. ASSUME NEW w \in W PROVE Spread(g, h[w]) = k[w]
  <2> DEFINE c == Sql!Cached(cache, t, final)
  <2>1. DOMAIN c = D \cup {t} /\ \A x \in D \cup {t} : c[x] = IF x = t THEN final ELSE cache[x]
    BY DEF Sql!Cached
  <2>2. k[w] = IF w[1] = "token" /\ w[2] \in D \cup {t} THEN c[w[2]] ELSE <<w>>
    BY <2>1 DEF Sub
  <2>3. h[w] = IF w[1] = "token" /\ w[2] \in D THEN cache[w[2]] ELSE <<w>>
    BY DEF Sub
  <2>4. w \in V /\ w[1] \in {"text", "token", "filled"} /\ (w = Sql!Token(t) <=> w[1] = "token" /\ w[2] = t)
    BY DEF LayerWords, AllWords, Sql!Token
  <2>5. CASE w[1] = "token" /\ w[2] \in D
    <3>1. h[w] = cache[w[2]] /\ k[w] = cache[w[2]] /\ cache[w[2]] \in Seq(FinalWords(X))
      BY <2>1, <2>2, <2>3, <2>5
    <3>2. \A x \in FinalWords(X) : g[x] = <<x>>
      <4>1. \A x \in FinalWords(X) : x \in V /\ x # Sql!Token(t)
        BY DEF FinalWords, AllWords, Sql!Token
      <4> QED
        BY <1>3, <4>1
    <3>3. Spread(g, cache[w[2]]) = cache[w[2]]
      <4> HIDE DEF g, h, k, c, W, V
      <4> QED BY Zenon, <3>1, <3>2, SpreadEach
    <3> QED
      BY <3>1, <3>3
  <2>6. CASE ~(w[1] = "token" /\ w[2] \in D)
    <3>1. h[w] = <<w>>
      BY Zenon, <2>3, <2>6
    <3>2. Spread(g, <<w>>) = g[w]
      <4> HIDE DEF g, h, k, c, W, V
      <4> QED BY <1>3, <2>4, SpreadOne
    <3>3. g[w] = IF w[1] = "token" /\ w[2] = t THEN final ELSE <<w>>
      BY <1>3, <2>4
    <3>4. k[w] = IF w[1] = "token" /\ w[2] = t THEN final ELSE <<w>>
      BY <2>1, <2>2, <2>6
    <3> QED
      BY Zenon, <3>1, <3>2, <3>3, <3>4
  <2> QED
    BY <2>5, <2>6
<1>8. \A i \in DOMAIN u : Through(W, g, h)[u[i]] = k[u[i]]
  <2> HIDE DEF g, h, k
  <2>1. \A i \in DOMAIN u : u[i] \in W
    OBVIOUS
  <2> HIDE DEF W
  <2> QED
    BY <1>7, <2>1 DEF Through
<1>9. Spread(Through(W, g, h), u) = Spread(k, u)
  BY Zenon, <1>8, SpreadSame
<1> HIDE DEF g, h, k, W, V
<1>10. Sql!ReplaceWord(Spread(h, u), Sql!Token(t), final) = Spread(k, u)
  BY Zenon, <1>5, <1>6, <1>9
<1> QED
  BY <1>10 DEF h, k

\* arguments to which more were added
Extends(more, args) ==
  Len(args) <= Len(more) /\ \A i \in 1..Len(args) : more[i] = args[i]

\* what a word of a statement means with some arguments
Meant(X, args) ==
  [w \in AllWords(X) |->
     IF w[1] # "arg" THEN w
     ELSE IF w[2] \in DOMAIN args THEN <<"value", args[w[2]]>> ELSE <<"unbound", w[2]>>]

HasMark(p) == \E i \in DOMAIN p.sql : p.sql[i] = Sql!Mark

\* what a parameter became with its value as the argument number k
BoundTo(p, final, args) ==
  \E k \in Nat : /\ final = Sql!ReplaceWord(p.sql, Sql!Mark, <<Sql!Arg(k)>>)
                 /\ HasMark(p) => k \in 1..Len(args) /\ args[k] = p.value

\* the tokens of parameters among the first n words
Seen(params, u, n) == {t \in DOMAIN params : \E i \in 1..n : u[i] = Sql!Token(t)}

\* the statement after n of its words were looked at
Replacements(X, params, u, args, n, acc) ==
  /\ acc = [sql |-> acc.sql, args |-> acc.args, cache |-> acc.cache]
  /\ acc.args \in Seq(X) /\ Extends(acc.args, args)
  /\ acc.cache \in [Seen(params, u, n) -> Seq(FinalWords(X))]
  /\ \A t \in Seen(params, u, n) : BoundTo(params[t], acc.cache[t], acc.args)
  /\ acc.sql = Spread(Sub(X, acc.cache), u)

LEMMA FinalIsText ==
  \A X, p, k : Nat \subseteq X /\ p.sql \in Seq(ParamWords(X)) /\ k \in Nat =>
    Sql!ReplaceWord(p.sql, Sql!Mark, <<Sql!Arg(k)>>) \in Seq(FinalWords(X))
<1> TAKE X, p, k
<1> HAVE Nat \subseteq X /\ p.sql \in Seq(ParamWords(X)) /\ k \in Nat
<1> DEFINE W == ParamWords(X)
           V == FinalWords(X)
           by == <<Sql!Arg(k)>>
           s == p.sql
<1>1. W \subseteq V /\ by \in Seq(V) /\ s \in Seq(W)
  BY DEF ParamWords, FinalWords, Sql!Arg
<1> HIDE DEF W, V, by, s
<1>2. Put(W, Sql!Mark, by) \in [W -> Seq(V)]
  BY <1>1, PutIs
<1>3. Spread(Put(W, Sql!Mark, by), s) \in Seq(V)
  BY <1>1, <1>2, SpreadIsText
<1>4. Sql!ReplaceWord(s, Sql!Mark, by) = Spread(Put(W, Sql!Mark, by), s)
  BY <1>1, Replacing
<1> QED
  BY <1>3, <1>4 DEF V, by, s

LEMMA BoundFurther ==
  ASSUME NEW X, NEW args \in Seq(X), NEW v \in X, NEW p, NEW final, BoundTo(p, final, args)
  PROVE  BoundTo(p, final, Append(args, v))
<1>1. PICK k \in Nat : /\ final = Sql!ReplaceWord(p.sql, Sql!Mark, <<Sql!Arg(k)>>)
                       /\ HasMark(p) => k \in 1..Len(args) /\ args[k] = p.value
  BY DEF BoundTo
<1>2. Len(Append(args, v)) = Len(args) + 1 /\ \A i \in 1..Len(args) : Append(args, v)[i] = args[i]
  BY AppendProperties
<1>3. k \in 1..Len(args) => k \in 1..(Len(args) + 1)
  OBVIOUS
<1> QED
  BY <1>1, <1>2, <1>3 DEF BoundTo

\* one word more
LEMMA ReplacedFurther ==
  ASSUME NEW X, Nat \subseteq X, NEW params, ParamsIn(X, params), NEW u \in Seq(LayerWords(X)),
         NEW args \in Seq(X), NEW n \in 1..Len(u), NEW acc,
         Replacements(X, params, u, args, n - 1, acc)
  PROVE  Replacements(X, params, u, args, n,
           IF Sql!IsToken(u[n]) THEN Sql!ReplaceParam(params, acc, u[n][2]) ELSE acc)
<1> DEFINE w == u[n]
           t == w[2]
           S == Seen(params, u, n - 1)
           T == Seen(params, u, n)
           next == IF Sql!IsToken(w) THEN Sql!ReplaceParam(params, acc, t) ELSE acc
<1> SUFFICES Replacements(X, params, u, args, n, next)
  OBVIOUS
<1>1. w \in LayerWords(X) /\ t \in X /\ (Sql!IsToken(w) <=> w = Sql!Token(t))
  BY DEF LayerWords, Sql!IsToken, Sql!Token
<1>2. \A x : Sql!Token(x) = w => Sql!IsToken(w) /\ x = t
  BY DEF Sql!IsToken, Sql!Token
<1>3. \A x : x \in T <=> x \in S \/ (x \in DOMAIN params /\ Sql!IsToken(w) /\ x = t)
  <2>1. \A i : i \in 1..n <=> i \in 1..(n - 1) \/ i = n
    OBVIOUS
  <2> HIDE DEF t
  <2> QED
    BY <1>1, <1>2, <2>1 DEF Seen
<1>4. S \in SUBSET X
  BY DEF Seen, ParamsIn
<1> HIDE DEF w, t, S, T
<1>5. /\ acc = [sql |-> acc.sql, args |-> acc.args, cache |-> acc.cache]
      /\ acc.args \in Seq(X) /\ Extends(acc.args, args)
      /\ acc.cache \in [S -> Seq(FinalWords(X))] /\ DOMAIN acc.cache = S
      /\ acc.sql = Spread(Sub(X, acc.cache), u)
  BY DEF Replacements, S
<1>6. \A x \in S : BoundTo(params[x], acc.cache[x], acc.args)
  BY DEF Replacements, S
<1>7. CASE ~Sql!IsToken(w) \/ t \notin DOMAIN params
  <2>1. T = S
    BY <1>3, <1>7
  <2>2. next = acc
    <3>1. t \in DOMAIN params \/ t \notin S
      BY DEF S, Seen
    <3> QED
      BY <1>5, <1>7, <3>1 DEF Sql!ReplaceParam
  <2> HIDE DEF next
  <2> QED
    BY <1>5, <1>6, <2>1, <2>2 DEF Replacements, T
<1>8. CASE Sql!IsToken(w) /\ t \in DOMAIN params /\ t \in S
  <2> DEFINE c == acc.cache
  <2>1. T = S
    BY <1>3, <1>8
  <2>2. next = [acc EXCEPT !.sql = Sql!ReplaceWord(acc.sql, Sql!Token(t), c[t])]
    BY <1>5, <1>8 DEF Sql!ReplaceParam
  <2> HIDE DEF next
  <2>3. /\ next.sql = Sql!ReplaceWord(acc.sql, Sql!Token(t), c[t])
        /\ next.args = acc.args /\ next.cache = c
        /\ next = [sql |-> next.sql, args |-> next.args, cache |-> next.cache]
    BY <1>5, <2>2
  <2>4. Sql!Cached(c, t, c[t]) = c
    BY <1>5, <1>8 DEF Sql!Cached
  <2>5. c \in [S -> Seq(FinalWords(X))] /\ c[t] \in Seq(FinalWords(X))
    BY <1>5, <1>8
  <2> HIDE DEF c
  <2>6. Sql!ReplaceWord(Spread(Sub(X, c), u), Sql!Token(t), c[t]) =
          Spread(Sub(X, Sql!Cached(c, t, c[t])), u)
    BY <1>1, <1>4, <2>5, SubStep
  <2>7. next.sql = Spread(Sub(X, next.cache), u)
    BY <1>5, <2>3, <2>4, <2>6 DEF c
  <2> QED
    BY <1>5, <1>6, <2>1, <2>3, <2>7 DEF Replacements, T, c
<1>9. CASE Sql!IsToken(w) /\ t \in DOMAIN params /\ t \notin S
  <2> DEFINE p == params[t]
             more == IF HasMark(p) THEN Append(acc.args, p.value) ELSE acc.args
             final == Sql!ReplaceWord(p.sql, Sql!Mark, <<Sql!Arg(Len(more))>>)
             c == Sql!Cached(acc.cache, t, final)
  <2>1. T = S \cup {t}
    BY <1>3, <1>9
  <2>2. next = [sql |-> Sql!ReplaceWord(acc.sql, Sql!Token(t), final), args |-> more, cache |-> c]
    BY <1>5, <1>9 DEF Sql!ReplaceParam, HasMark
  <2>3. p.sql \in Seq(ParamWords(X)) /\ p.value \in X
    BY <1>9 DEF ParamsIn
  <2>4. /\ more \in Seq(X) /\ Extends(more, args) /\ Len(more) \in Nat
        /\ HasMark(p) => Len(more) \in 1..Len(more) /\ more[Len(more)] = p.value
    <3> DEFINE a == acc.args
               b == Append(a, p.value)
    <3>1. a \in Seq(X) /\ Extends(a, args) /\ Len(a) \in Nat
      BY <1>5
    <3>2. /\ b \in Seq(X) /\ Len(b) = Len(a) + 1 /\ b[Len(a) + 1] = p.value
          /\ \A i \in 1..Len(a) : b[i] = a[i]
      BY <2>3, <3>1, AppendProperties
    <3> HIDE DEF a, b, p
    <3>3. Extends(b, args) /\ Len(b) \in 1..Len(b)
      BY <3>1, <3>2 DEF Extends
    <3> QED
      BY <3>1, <3>2, <3>3 DEF a, b
  <2>5. \A x \in S : BoundTo(params[x], acc.cache[x], more)
    BY <1>5, <1>6, <2>3, BoundFurther
  <2> HIDE DEF more
  <2>6. final \in Seq(FinalWords(X))
    <3> HIDE DEF p
    <3> QED BY <2>3, <2>4, FinalIsText
  <2>7. BoundTo(p, final, more)
    BY <2>4 DEF BoundTo
  <2> HIDE DEF final
  <2>8. /\ c \in [S \cup {t} -> Seq(FinalWords(X))] /\ c[t] = final
        /\ \A x \in S : c[x] = acc.cache[x]
    BY <1>5, <1>9, <2>6 DEF Sql!Cached
  <2> DEFINE old == acc.cache
  <2>9. Sql!ReplaceWord(Spread(Sub(X, old), u), Sql!Token(t), final) = Spread(Sub(X, c), u)
    <3>1. old \in [S -> Seq(FinalWords(X))] /\ c = Sql!Cached(old, t, final)
      BY <1>5
    <3> HIDE DEF old, c, p
    <3> QED BY <1>1, <1>4, <1>9, <2>6, <3>1, SubStep
  <2> HIDE DEF c, p, next
  <2>10. /\ next.sql = Spread(Sub(X, next.cache), u) /\ next.args = more /\ next.cache = c
         /\ next = [sql |-> next.sql, args |-> next.args, cache |-> next.cache]
    BY <1>5, <2>2, <2>9
  <2>11. \A x \in T : BoundTo(params[x], c[x], more)
    BY <2>1, <2>5, <2>7, <2>8 DEF p
  <2> QED
    BY <2>1, <2>4, <2>8, <2>10, <2>11 DEF Replacements, T
<1> QED
  BY <1>7, <1>8, <1>9

LEMMA Replaced ==
  ASSUME NEW X, Nat \subseteq X, NEW params, ParamsIn(X, params), NEW u \in Seq(LayerWords(X)),
         NEW args \in Seq(X)
  PROVE  \E acc : /\ Replacements(X, params, u, args, Len(u), acc)
                  /\ Sql!ReplaceParams(params, u, args) = [sql |-> acc.sql, args |-> acc.args]
<1> DEFINE Op(acc, w) == IF Sql!IsToken(w) THEN Sql!ReplaceParam(params, acc, w[2]) ELSE acc
           base == [sql |-> u, args |-> args, cache |-> <<>>]
           value == FoldLeft(Op, base, u)
<1>1. Sql!ReplaceParams(params, u, args) = [sql |-> value.sql, args |-> value.args]
  BY DEF Sql!ReplaceParams, Sql!FoldLeft, FoldLeft, Sql!MapThenFoldSet, MapThenFoldSet,
         Sql!Max, Max
<1>2. Replacements(X, params, u, args, 0, base)
  <2>1. Seen(params, u, 0) = {}
    BY DEF Seen
  <2>2. base.cache \in [{} -> Seq(FinalWords(X))] /\ DOMAIN base.cache = {}
    OBVIOUS
  <2>3. Sub(X, base.cache) = [w \in LayerWords(X) |-> <<w>>]
    BY <2>2 DEF Sub
  <2>4. Spread([w \in LayerWords(X) |-> <<w>>], u) = u
    <3> DEFINE h == [w \in LayerWords(X) |-> <<w>>]
    <3>1. \A w \in LayerWords(X) : h[w] = <<w>>
      OBVIOUS
    <3> HIDE DEF h
    <3> QED BY <3>1, SpreadEach
  <2>5. base.sql = u /\ base.args = args /\ base = [sql |-> base.sql, args |-> base.args, cache |-> base.cache]
    OBVIOUS
  <2>6. Extends(args, args)
    BY DEF Extends
  <2> HIDE DEF base
  <2> QED
    BY <2>1, <2>2, <2>3, <2>4, <2>5, <2>6 DEF Replacements
<1> HIDE DEF Op, base
<1>3. Folded(Op, base, u, value)
  <2> HIDE DEF value
  <2> QED BY FoldLeftFolds DEF value
<1> HIDE DEF value
<1>4. PICK r : /\ r[0] = base
               /\ \A n \in 1..Len(u) : r[n] = Op(r[n - 1], u[n])
               /\ value = r[Len(u)]
  BY Zenon, <1>3 DEF Folded
<1> DEFINE Good == {n \in Nat : Replacements(X, params, u, args, n, r[n])}
<1>5. 0 \in Good
  BY <1>2, <1>4
<1>6. ASSUME NEW n \in 1..Len(u), n - 1 \in Good PROVE n \in Good
  <2>1. Replacements(X, params, u, args, n - 1, r[n - 1])
    BY <1>6
  <2> DEFINE acc == r[n - 1]
  <2> HIDE DEF acc
  <2>2. Replacements(X, params, u, args, n, Op(acc, u[n]))
    BY <2>1, ReplacedFurther DEF Op, acc
  <2> QED
    BY <1>4, <2>2 DEF acc
<1> HIDE DEF Good
<1>7. \A n \in 0..Len(u) : n \in Good
  <2>1. Len(u) \in Nat
    OBVIOUS
  <2> QED
    BY <1>5, <1>6, <2>1, Steps
<1>8. Replacements(X, params, u, args, Len(u), value)
  <2>1. Len(u) \in 0..Len(u)
    OBVIOUS
  <2> QED
    BY <1>4, <1>7, <2>1 DEF Good
<1> QED
  BY Zenon, <1>1, <1>8

\* a word of its meaning alone
Alone(X, args) == [w \in AllWords(X) |-> <<Meant(X, args)[w]>>]

LEMMA MeantWords ==
  ASSUME NEW X, NEW args \in Seq(X)
  PROVE  /\ Meant(X, args) \in [AllWords(X) -> AllWords(X)]
         /\ Alone(X, args) \in [AllWords(X) -> Seq(AllWords(X))]
         /\ \A w \in AllWords(X) : w[1] # "arg" => Alone(X, args)[w] = <<w>>
         /\ \A k \in 1..Len(args) : k \in X =>
              Alone(X, args)[Sql!Arg(k)] = << <<"value", args[k]>> >>
<1> DEFINE M == Meant(X, args)
<1>1. ASSUME NEW w \in AllWords(X) PROVE M[w] \in AllWords(X)
  <2>1. M[w] = IF w[1] # "arg" THEN w
               ELSE IF w[2] \in DOMAIN args THEN <<"value", args[w[2]]>> ELSE <<"unbound", w[2]>>
    BY DEF Meant
  <2>2. w[2] \in X
    BY DEF AllWords
  <2>3. CASE w[1] # "arg"
    BY <2>1, <2>3
  <2>4. CASE w[1] = "arg" /\ w[2] \in DOMAIN args
    <3>1. args[w[2]] \in X
      BY <2>4
    <3> QED BY <2>1, <2>4, <3>1 DEF AllWords
  <2>5. CASE w[1] = "arg" /\ w[2] \notin DOMAIN args
    BY <2>1, <2>2, <2>5 DEF AllWords
  <2> QED
    BY <2>3, <2>4, <2>5
<1>2. M \in [AllWords(X) -> AllWords(X)]
  BY <1>1 DEF Meant
<1>3. \A w \in AllWords(X) : w[1] # "arg" => M[w] = w
  BY DEF Meant
<1>4. \A k \in 1..Len(args) : k \in X => Sql!Arg(k) \in AllWords(X) /\ M[Sql!Arg(k)] = <<"value", args[k]>>
  BY DEF Meant, AllWords, Sql!Arg
<1> HIDE DEF M
<1>5. Alone(X, args) = [w \in AllWords(X) |-> <<M[w]>>]
  BY DEF Alone, M
<1>6. \A w \in AllWords(X) : <<M[w]>> \in Seq(AllWords(X)) /\ Alone(X, args)[w] = <<M[w]>>
  <2>1. \A w \in AllWords(X) : <<M[w]>> \in Seq(AllWords(X))
    BY <1>2
  <2> QED
    BY <1>5, <2>1
<1>7. Alone(X, args) \in [AllWords(X) -> Seq(AllWords(X))]
  BY <1>5, <1>6
<1>8. \A w \in AllWords(X) : w[1] # "arg" => Alone(X, args)[w] = <<w>>
  BY <1>3, <1>6
<1>9. \A k \in 1..Len(args) : k \in X => Alone(X, args)[Sql!Arg(k)] = << <<"value", args[k]>> >>
  BY <1>4, <1>6
<1> QED
  BY <1>2, <1>7, <1>8, <1>9 DEF M

\* every word of s becomes in two steps what k makes of it
Becomes(W, V, U, h, g, k, s) ==
  /\ h \in [W -> Seq(V)] /\ g \in [V -> Seq(U)] /\ s \in Seq(W)
  /\ \A i \in DOMAIN s : Spread(g, h[s[i]]) = k[s[i]]

LEMMA SpreadInto ==
  \A W, V, U, h, g, k, s :
    Becomes(W, V, U, h, g, k, s) => Spread(g, Spread(h, s)) = Spread(k, s)
<1> TAKE W, V, U, h, g, k, s
<1> HAVE Becomes(W, V, U, h, g, k, s)
<1> USE DEF Becomes
<1>1. Spread(g, Spread(h, s)) = Spread(Through(W, g, h), s)
  BY SpreadTwice
<1>2. \A i \in DOMAIN s : s[i] \in W
  OBVIOUS
<1>3. \A i \in DOMAIN s : Through(W, g, h)[s[i]] = k[s[i]]
  BY <1>2 DEF Through
<1>4. Spread(Through(W, g, h), s) = Spread(k, s)
  <2> DEFINE f == Through(W, g, h)
  <2>1. \A i \in DOMAIN s : f[s[i]] = k[s[i]]
    BY <1>3
  <2> HIDE DEF f
  <2>2. Spread(f, s) = Spread(k, s)
    BY ONLY <2>1, SpreadSame
  <2> QED
    BY <2>2 DEF f
<1> QED
  BY <1>1, <1>4

\* a parameter where its value stood
Means(p) == Sql!ReplaceWord(p.sql, Sql!Mark, << <<"value", p.value>> >>)

LEMMA ParamMeans ==
  ASSUME NEW X, Nat \subseteq X, NEW p, p.sql \in Seq(ParamWords(X)), p.value \in X,
         NEW k \in Nat, NEW args \in Seq(X), HasMark(p) => k \in 1..Len(args) /\ args[k] = p.value
  PROVE  Spread(Alone(X, args), Sql!ReplaceWord(p.sql, Sql!Mark, <<Sql!Arg(k)>>)) = Means(p)
<1> DEFINE V == AllWords(X)
           P == ParamWords(X)
           g == Alone(X, args)
           s == p.sql
           by == <<Sql!Arg(k)>>
           v == << <<"value", p.value>> >>
           a == Put(P, Sql!Mark, by)
           b == Put(P, Sql!Mark, v)
<1>1. /\ g \in [V -> Seq(V)]
      /\ \A w \in V : w[1] # "arg" => g[w] = <<w>>
      /\ \A j \in 1..Len(args) : g[Sql!Arg(j)] = << <<"value", args[j]>> >>
  BY MeantWords
<1>2. /\ P \subseteq V /\ by \in Seq(V) /\ s \in Seq(P) /\ Sql!Arg(k) \in V /\ v \in Seq(V)
      /\ \A w \in P : w[1] # "arg"
  BY DEF ParamWords, AllWords, Sql!Arg
<1>3. Sql!ReplaceWord(s, Sql!Mark, by) = Spread(a, s) /\ Means(p) = Spread(b, s)
  BY <1>2, Replacing DEF Means
<1>4. HasMark(p) => g[Sql!Arg(k)] = v
  BY <1>1
<1>5. \A i \in DOMAIN s : s[i] \in P /\ (s[i] = Sql!Mark => HasMark(p))
  BY <1>2 DEF HasMark
<1> HIDE DEF P, s, by, v, V, g
<1>6. a \in [P -> Seq(V)] /\ \A x \in P : a[x] = IF x = Sql!Mark THEN by ELSE <<x>>
  BY <1>2, PutIs
<1>7. b \in [P -> Seq(V)] /\ \A x \in P : b[x] = IF x = Sql!Mark THEN v ELSE <<x>>
  BY <1>2, PutIs
<1> HIDE DEF a, b
<1>8. ASSUME NEW i \in DOMAIN s PROVE Spread(g, a[s[i]]) = b[s[i]]
  <2> DEFINE x == s[i]
  <2>1. x \in P /\ x \in V /\ (x = Sql!Mark => HasMark(p)) /\ x[1] # "arg"
    BY <1>2, <1>5
  <2> HIDE DEF x
  <2>2. g \in [V -> Seq(V)] /\ g[x] = <<x>>
    BY <1>1, <2>1
  <2>3. Spread(g, <<x>>) = <<x>>
    BY <2>1, <2>2, SpreadOne
  <2>4. Spread(g, by) = g[Sql!Arg(k)]
    BY <1>2, <2>2, SpreadOne DEF by
  <2> QED
    BY <1>4, <1>6, <1>7, <2>1, <2>3, <2>4 DEF x
<1>9. Spread(g, Spread(a, s)) = Spread(b, s)
  <2>1. a \in [P -> Seq(V)] /\ g \in [V -> Seq(V)] /\ s \in Seq(P)
    BY <1>1, <1>2, <1>6
  <2> QED
    <3>1. Becomes(P, V, V, a, g, b, s)
      BY <1>8, <2>1 DEF Becomes
    <3> QED
      BY <3>1, SpreadInto
<1> QED
  BY Zenon, <1>3, <1>9 DEF g, s, by

\* what one layer names is what its statement computes with
Computed(X, params, u, args, acc, more) ==
  /\ Nat \subseteq X /\ ParamsIn(X, params)
  /\ u \in Seq(LayerWords(X)) /\ args \in Seq(X)
  /\ Replacements(X, params, u, args, Len(u), acc)
  /\ more \in Seq(X) /\ Extends(more, acc.args)

LEMMA LayerMeans ==
  \A X, params, u, args, acc, more : Computed(X, params, u, args, acc, more) =>
    /\ acc.sql \in Seq(AllWords(X))
    /\ Spread(Alone(X, more), acc.sql) = Sql!Intended(params, u)
<1> TAKE X, params, u, args, acc, more
<1> HAVE Computed(X, params, u, args, acc, more)
<1> USE DEF Computed
<1> DEFINE W == LayerWords(X)
           V == AllWords(X)
           T == Seen(params, u, Len(u))
           h == Sub(X, acc.cache)
           g == Alone(X, more)
           I(w) == IF Sql!IsToken(w) /\ w[2] \in DOMAIN params THEN Means(params[w[2]]) ELSE <<w>>
<1>1. /\ acc.cache \in [T -> Seq(FinalWords(X))] /\ DOMAIN acc.cache = T
      /\ acc.sql = Spread(h, u) /\ acc.args \in Seq(X)
      /\ \A t \in T : BoundTo(params[t], acc.cache[t], acc.args)
  BY DEF Replacements
<1>2. h \in [W -> Seq(V)]
  BY <1>1, SubIs
<1>3. /\ g \in [V -> Seq(V)]
      /\ \A w \in V : w[1] # "arg" => g[w] = <<w>>
      /\ \A k \in 1..Len(more) : g[Sql!Arg(k)] = << <<"value", more[k]>> >>
  BY MeantWords
<1>4. u \in Seq(W)
  OBVIOUS
<1> HIDE DEF h, g, W, V, T
<1>5. acc.sql \in Seq(V) /\ Spread(g, acc.sql) = Spread(Through(W, g, h), u)
  <2>1. Spread(h, u) \in Seq(V)
    BY <1>2, <1>4, SpreadIsText
  <2>2. Spread(g, Spread(h, u)) = Spread(Through(W, g, h), u)
    <3>1. g \in [V -> Seq(V)]
      BY <1>3
    <3> QED BY <1>2, <1>4, <3>1, SpreadTwice
  <2> QED
    BY <1>1, <2>1, <2>2
<1>6. ASSUME NEW t \in T PROVE Spread(g, acc.cache[t]) = Means(params[t])
  <2> DEFINE p == params[t]
  <2>1. p.sql \in Seq(ParamWords(X)) /\ p.value \in X
    BY DEF T, Seen, ParamsIn
  <2>2. PICK k \in Nat : /\ acc.cache[t] = Sql!ReplaceWord(p.sql, Sql!Mark, <<Sql!Arg(k)>>)
                         /\ HasMark(p) => k \in 1..Len(acc.args) /\ acc.args[k] = p.value
    BY <1>1 DEF BoundTo
  <2>3. HasMark(p) => k \in 1..Len(more) /\ more[k] = p.value
    <3> SUFFICES ASSUME HasMark(p) PROVE k \in 1..Len(more) /\ more[k] = p.value
      OBVIOUS
    <3>1. k \in 1..Len(acc.args) /\ acc.args[k] = p.value
      BY <2>2
    <3> HIDE DEF p
    <3> QED
      BY <1>1, <3>1 DEF Extends
  <2> HIDE DEF p
  <2>4. Spread(g, Sql!ReplaceWord(p.sql, Sql!Mark, <<Sql!Arg(k)>>)) = Means(p)
    BY <2>1, <2>3, ParamMeans DEF g
  <2> QED
    BY Zenon, <2>2, <2>4 DEF p
<1>7. ASSUME NEW i \in DOMAIN u PROVE Through(W, g, h)[u[i]] = I(u[i])
  <2> DEFINE w == u[i]
  <2>1. w \in W /\ w \in V /\ w[1] # "arg" /\ i \in 1..Len(u)
    BY <1>4 DEF W, V, LayerWords, AllWords
  <2>2. Through(W, g, h)[w] = Spread(g, h[w])
    BY <2>1 DEF Through
  <2>3. h[w] = IF w[1] = "token" /\ w[2] \in T THEN acc.cache[w[2]] ELSE <<w>>
    BY <1>1, <2>1 DEF h, Sub, W
  <2>4. w[1] = "token" => w = Sql!Token(w[2])
    BY <2>1 DEF W, LayerWords, Sql!Token
  <2>5. w[1] = "token" => (w[2] \in T <=> w[2] \in DOMAIN params)
    BY <2>1, <2>4 DEF T, Seen
  <2> HIDE DEF w
  <2>6. CASE w[1] = "token" /\ w[2] \in T
    BY <1>6, <2>2, <2>3, <2>5, <2>6 DEF Sql!IsToken, w
  <2>7. CASE ~(w[1] = "token" /\ w[2] \in T)
    <3>1. Spread(g, <<w>>) = <<w>>
      <4>1. g \in [V -> Seq(V)] /\ g[w] = <<w>>
        BY <1>3, <2>1
      <4>2. Spread(g, <<w>>) = g[w]
        BY <2>1, <4>1, SpreadOne
      <4> QED
        BY <4>1, <4>2
    <3> QED
      BY <2>2, <2>3, <2>5, <2>7, <3>1 DEF Sql!IsToken, w
  <2> QED
    BY <2>6, <2>7
<1>8. Spread(Through(W, g, h), u) = Sql!Intended(params, u)
  <2>1. [i \in DOMAIN u |-> Through(W, g, h)[u[i]]] = [i \in DOMAIN u |-> I(u[i])]
    BY <1>7
  <2> QED
    BY Zenon, <2>1, SqlFlatten DEF Spread, Sql!Intended, Means
<1> QED
  BY <1>5, <1>8 DEF g, V

LEMMA TokensFilled ==
  ASSUME NEW X, {"BBOX", "ZOOM", "P", "Q"} \subseteq X, NEW sql \in SqlsIn(X)
  PROVE  Sql!ReplaceTokens(sql) \in Seq(LayerWords(X))
<1> DEFINE upper == Sql!UppercaseTokens(sql)
<1>1. ASSUME NEW n \in X PROVE Sql!UpperName(n) \in X
  <2>1. DOMAIN Sql!LowerNames = {"bbox", "zoom", "p", "q"}
    BY DEF Sql!LowerNames
  <2>2. \A x \in {"bbox", "zoom", "p", "q"} : Sql!LowerNames[x] \in {"BBOX", "ZOOM", "P", "Q"}
    BY DEF Sql!LowerNames
  <2> QED
    BY <2>1, <2>2 DEF Sql!UpperName
<1>2. ASSUME NEW w \in {"text", "token"} \X X
      PROVE  (IF Sql!IsToken(w) THEN Sql!Token(Sql!UpperName(w[2])) ELSE w) \in {"text", "token"} \X X
  <2>1. w[2] \in X
    OBVIOUS
  <2>2. Sql!UpperName(w[2]) \in X
    BY <1>1, <2>1
  <2> QED
    BY <2>2 DEF Sql!Token
<1>3. DOMAIN upper = 1..Len(sql) /\ Len(sql) \in Nat /\ \A i \in 1..Len(sql) : upper[i] \in {"text", "token"} \X X
  <2>1. /\ Len(sql) \in Nat /\ DOMAIN sql = 1..Len(sql)
        /\ \A i \in 1..Len(sql) : sql[i] \in {"text", "token"} \X X
    BY DEF SqlsIn
  <2> QED
    BY <1>2, <2>1 DEF Sql!UppercaseTokens
<1> HIDE DEF upper
<1>4. ASSUME NEW i \in 1..Len(sql)
      PROVE  (IF Sql!IsToken(upper[i]) /\ upper[i][2] \in Sql!Builtin THEN Sql!Filled(upper[i][2])
              ELSE upper[i]) \in LayerWords(X)
  <2>1. upper[i][2] \in X /\ upper[i] \in LayerWords(X)
    BY <1>3 DEF LayerWords
  <2> QED
    BY <2>1 DEF Sql!Filled, LayerWords
<1>5. Sql!ReplaceTokens(sql) =
        [i \in 1..Len(sql) |-> IF Sql!IsToken(upper[i]) /\ upper[i][2] \in Sql!Builtin
                                THEN Sql!Filled(upper[i][2]) ELSE upper[i]]
  BY <1>3 DEF Sql!ReplaceTokens, upper
<1> QED
  BY <1>3, <1>4, <1>5

\* the layers up to n computed with any arguments that begin with theirs
Joins(X, params, sqls, n, acc) ==
  /\ acc.sql \in Seq(AllWords(X)) /\ acc.args \in Seq(X)
  /\ \A more \in Seq(X) : Extends(more, acc.args) =>
       Spread(Alone(X, more), acc.sql) =
         FlattenSeq([i \in 1..n |-> Sql!Intended(params, Sql!ReplaceTokens(sqls[i]))])

LEMMA IntendedIsText ==
  ASSUME NEW X, Nat \subseteq X, NEW params, ParamsIn(X, params), NEW u \in Seq(LayerWords(X))
  PROVE  Sql!Intended(params, u) \in Seq(AllWords(X))
<1>1. <<>> \in Seq(X)
  OBVIOUS
<1>2. PICK acc : Replacements(X, params, u, <<>>, Len(u), acc)
  BY <1>1, Replaced
<1>3. acc.args \in Seq(X) /\ Extends(acc.args, acc.args)
  BY <1>2 DEF Replacements, Extends
<1>4. acc.sql \in Seq(AllWords(X)) /\ Spread(Alone(X, acc.args), acc.sql) = Sql!Intended(params, u)
  <2>1. Computed(X, params, u, <<>>, acc, acc.args)
    BY <1>1, <1>2, <1>3 DEF Computed
  <2> QED
    BY <2>1, LayerMeans
<1>5. Alone(X, acc.args) \in [AllWords(X) -> Seq(AllWords(X))]
  BY <1>3, MeantWords
<1> QED
  BY <1>4, <1>5, SpreadIsText

LEMMA JoinedFurther ==
  ASSUME NEW X, Nat \subseteq X, {"BBOX", "ZOOM", "P", "Q"} \subseteq X,
         NEW params, ParamsIn(X, params), NEW sqls \in Seq(SqlsIn(X)),
         NEW n \in 1..Len(sqls), NEW acc, Joins(X, params, sqls, n - 1, acc),
         NEW one, one = Sql!ReplaceParams(params, Sql!ReplaceTokens(sqls[n]), acc.args)
  PROVE  Joins(X, params, sqls, n, [sql |-> acc.sql \o one.sql, args |-> one.args])
<1> DEFINE u == Sql!ReplaceTokens(sqls[n])
           V == AllWords(X)
           Part(i) == Sql!Intended(params, Sql!ReplaceTokens(sqls[i]))
           ss == [i \in 1..(n - 1) |-> Part(i)]
           tt == [i \in 1..n |-> Part(i)]
           next == [sql |-> acc.sql \o one.sql, args |-> one.args]
<1>1. \A i \in 1..Len(sqls) : Part(i) \in Seq(V)
  <2> SUFFICES ASSUME NEW i \in 1..Len(sqls) PROVE Part(i) \in Seq(V)
    OBVIOUS
  <2>1. sqls[i] \in SqlsIn(X)
    OBVIOUS
  <2>2. Sql!ReplaceTokens(sqls[i]) \in Seq(LayerWords(X))
    BY <2>1, TokensFilled
  <2> QED
    BY <2>2, IntendedIsText
<1>2. u \in Seq(LayerWords(X))
  <2>1. sqls[n] \in SqlsIn(X)
    OBVIOUS
  <2> QED
    BY <2>1, TokensFilled
<1>3. acc.sql \in Seq(V) /\ acc.args \in Seq(X)
  BY DEF Joins
<1>4. PICK a : /\ Replacements(X, params, u, acc.args, Len(u), a)
               /\ one = [sql |-> a.sql, args |-> a.args]
  <2> HIDE DEF u
  <2>1. \E a : /\ Replacements(X, params, u, acc.args, Len(u), a)
               /\ Sql!ReplaceParams(params, u, acc.args) = [sql |-> a.sql, args |-> a.args]
    BY <1>2, <1>3, Replaced
  <2> QED
    BY <2>1 DEF u
<1>5. a.args \in Seq(X) /\ Extends(a.args, acc.args) /\ Extends(a.args, a.args)
  BY <1>4 DEF Replacements, Extends
<1>6. tt = Append(ss, Part(n)) /\ ss \in Seq(Seq(V)) /\ Part(n) \in Seq(V)
  <2> HIDE DEF Part
  <2>1. n - 1 \in Nat /\ \A i \in 1..(n - 1) : Part(i) \in Seq(V)
    BY <1>1
  <2>2. ss \in Seq(Seq(V)) /\ Len(ss) = n - 1
    BY <2>1
  <2>3. Part(n) \in Seq(V)
    BY <1>1
  <2>4. tt \in Seq(Seq(V)) /\ Len(tt) = n
    BY <1>1
  <2> DEFINE b == Append(ss, Part(n))
  <2>5. /\ b \in Seq(Seq(V)) /\ Len(b) = Len(ss) + 1 /\ b[Len(ss) + 1] = Part(n)
        /\ \A i \in 1..Len(ss) : b[i] = ss[i]
    BY <2>2, <2>3, AppendProperties
  <2> HIDE DEF b
  <2>6. ASSUME NEW i \in 1..n PROVE tt[i] = b[i]
    <3>1. CASE i = n
      <4>1. Len(ss) + 1 = n
        BY <2>2
      <4>2. tt[n] = Part(n)
        OBVIOUS
      <4> HIDE DEF tt, ss
      <4> QED
        BY <2>5, <3>1, <4>1, <4>2
    <3>2. CASE i \in 1..(n - 1)
      <4>1. tt[i] = Part(i) /\ ss[i] = Part(i)
        BY <3>2
      <4>2. i \in 1..Len(ss)
        BY <2>2, <3>2
      <4> HIDE DEF tt, ss
      <4> QED
        BY <2>5, <4>1, <4>2
    <3> QED
      BY <3>1, <3>2
  <2>7. tt = b
    BY <2>2, <2>4, <2>5, <2>6, SeqEqual
  <2> QED
    BY <2>2, <2>3, <2>7 DEF b
<1>7. FlattenSeq(tt) = FlattenSeq(ss) \o Part(n)
  <2> DEFINE y == Part(n)
  <2> HIDE DEF ss, tt, y, V
  <2>1. FlattenSeq(Append(ss, y)) = FlattenSeq(ss) \o y
    BY <1>6, FlattenAppend DEF y
  <2> QED
    BY <1>6, <2>1 DEF y
<1>8. one.sql \in Seq(V)
  <2> HIDE DEF u
  <2>1. Computed(X, params, u, acc.args, a, a.args)
    BY <1>2, <1>3, <1>4, <1>5 DEF Computed
  <2>2. a.sql \in Seq(AllWords(X))
    BY <2>1, LayerMeans
  <2> QED
    BY <1>4, <2>2
<1> HIDE DEF ss, tt, V
<1>9. ASSUME NEW more \in Seq(X), Extends(more, one.args)
      PROVE  Spread(Alone(X, more), acc.sql \o one.sql) = FlattenSeq(tt)
  <2> DEFINE g == Alone(X, more)
             one1 == acc.sql
             one2 == one.sql
  <2>1. Extends(more, a.args) /\ Extends(more, acc.args)
    <3>1. Extends(more, a.args)
      BY <1>4, <1>9
    <3> QED
      BY <1>3, <1>5, <3>1 DEF Extends
  <2>2. g \in [V -> Seq(V)]
    BY MeantWords DEF V
  <2>0. one1 \in Seq(V) /\ one2 \in Seq(V)
    BY <1>3, <1>8
  <2> HIDE DEF g, one1, one2
  <2>3. Spread(g, one1 \o one2) = Spread(g, one1) \o Spread(g, one2)
    BY <2>0, <2>2, SpreadConcat
  <2>4. Spread(g, one1) = FlattenSeq(ss)
    BY <2>1 DEF Joins, g, one1, ss
  <2>5. Spread(g, one2) = Part(n)
    <3> HIDE DEF u
    <3>0. Computed(X, params, u, acc.args, a, more)
      BY <1>2, <1>3, <1>4, <2>1 DEF Computed
    <3>1. Spread(Alone(X, more), a.sql) = Sql!Intended(params, u)
      BY <3>0, LayerMeans
    <3> QED
      BY <1>4, <3>1 DEF g, one2, u
  <2> QED
    BY <1>7, <2>3, <2>4, <2>5 DEF g, one1, one2
<1>10. acc.sql \o one.sql \in Seq(V)
  BY <1>3, <1>8, ConcatProperties
<1>11. one.args \in Seq(X)
  BY <1>4, <1>5
<1> QED
  BY <1>9, <1>10, <1>11 DEF Joins, tt, V

(* Whatever parameters a map has and however often the layers of a tile use   *)
(* them, the joined statement computes with the value of each parameter       *)
(* exactly where a layer named it (ReplaceParams, MVTForLayers).              *)
THEOREM StatementIsBound ==
  ASSUME NEW X, Nat \subseteq X, {"BBOX", "ZOOM", "P", "Q"} \subseteq X,
         NEW params, ParamsIn(X, params), NEW sqls \in Seq(SqlsIn(X))
  PROVE  Sql!StatementBound(params, sqls)
<1> DEFINE Op(acc, sql) ==
             LET one == Sql!ReplaceParams(params, Sql!ReplaceTokens(sql), acc.args)
             IN  [sql |-> acc.sql \o one.sql, args |-> one.args]
           base == [sql |-> <<>>, args |-> <<>>]
           value == FoldLeft(Op, base, sqls)
           Part(i) == Sql!Intended(params, Sql!ReplaceTokens(sqls[i]))
<1>1. Sql!MVTStatement(params, sqls) = value
  BY DEF Sql!MVTStatement, Sql!FoldLeft, FoldLeft, Sql!MapThenFoldSet, MapThenFoldSet,
         Sql!Max, Max
<1>2. Joins(X, params, sqls, 0, base)
  <2>1. [i \in 1..0 |-> Part(i)] = <<>>
    OBVIOUS
  <2>2. FlattenSeq([i \in 1..0 |-> Part(i)]) = <<>>
    BY Zenon, <2>1, FlattenNone
  <2>3. \A h : Spread(h, <<>>) = <<>>
    BY SpreadNone
  <2>4. base.sql = <<>> /\ base.args = <<>> /\ <<>> \in Seq(AllWords(X)) /\ <<>> \in Seq(X)
    OBVIOUS
  <2> HIDE DEF base
  <2> QED
    BY <2>2, <2>3, <2>4 DEF Joins
<1> HIDE DEF Op, base
<1>3. Folded(Op, base, sqls, value)
  <2> HIDE DEF value
  <2> QED BY FoldLeftFolds DEF value
<1> HIDE DEF value
<1>4. PICK r : /\ r[0] = base
               /\ \A n \in 1..Len(sqls) : r[n] = Op(r[n - 1], sqls[n])
               /\ value = r[Len(sqls)]
  BY Zenon, <1>3 DEF Folded
<1> DEFINE Good == {n \in Nat : Joins(X, params, sqls, n, r[n])}
<1>5. 0 \in Good
  BY <1>2, <1>4
<1>6. ASSUME NEW n \in 1..Len(sqls), n - 1 \in Good PROVE n \in Good
  <2> DEFINE acc == r[n - 1]
             one == Sql!ReplaceParams(params, Sql!ReplaceTokens(sqls[n]), acc.args)
  <2>1. Joins(X, params, sqls, n - 1, acc)
    BY <1>6
  <2>2. r[n] = [sql |-> acc.sql \o one.sql, args |-> one.args]
    BY <1>4 DEF Op
  <2> HIDE DEF acc
  <2>3. Joins(X, params, sqls, n, [sql |-> acc.sql \o one.sql, args |-> one.args])
    BY <2>1, JoinedFurther
  <2> QED
    BY <2>2, <2>3
<1> HIDE DEF Good
<1>7. Len(sqls) \in Good
  <2>1. Len(sqls) \in Nat /\ Len(sqls) \in 0..Len(sqls)
    OBVIOUS
  <2>2. \A n \in 0..Len(sqls) : n \in Good
    BY <1>5, <1>6, <2>1, Steps
  <2> QED
    BY <2>1, <2>2
<1>8. Joins(X, params, sqls, Len(sqls), value)
  BY <1>4, <1>7 DEF Good
<1>9. value.sql \in Seq(AllWords(X)) /\ value.args \in Seq(X) /\ Extends(value.args, value.args)
  BY <1>8 DEF Joins, Extends
<1>10. Spread(Alone(X, value.args), value.sql) = FlattenSeq([i \in 1..Len(sqls) |-> Part(i)])
  BY <1>8, <1>9 DEF Joins
<1>11. Sql!Bind(value) = Spread(Alone(X, value.args), value.sql)
  <2> DEFINE V == AllWords(X)
             M == Meant(X, value.args)
             s == value.sql
  <2>1. M \in [V -> V] /\ s \in Seq(V)
    BY <1>9, MeantWords
  <2>2. \A i \in DOMAIN s : s[i] \in V
    BY <2>1
  <2>3. Sql!Bind(value) = [i \in DOMAIN s |-> M[s[i]]]
    <3> HIDE DEF V
    <3>1. ASSUME NEW w \in V
          PROVE  M[w] = IF w[1] # "arg" THEN w
                        ELSE IF w[2] \in DOMAIN value.args THEN <<"value", value.args[w[2]]>>
                             ELSE <<"unbound", w[2]>>
      BY DEF V, Meant
    <3> HIDE DEF M
    <3> QED
      BY <2>2, <3>1 DEF Sql!Bind
  <2>4. Spread([w \in V |-> <<M[w]>>], s) = [i \in DOMAIN s |-> M[s[i]]]
    <3> DEFINE k == [w \in V |-> <<M[w]>>]
    <3>1. Worded(V, V, M, k, s)
      BY <2>1 DEF Worded
    <3> HIDE DEF V, M, s, k
    <3>2. Spread(k, s) = [i \in DOMAIN s |-> M[s[i]]]
      BY <3>1, SpreadWords
    <3> QED
      BY <3>2 DEF k
  <2> QED
    BY Zenon, <2>3, <2>4 DEF Alone
<1>12. [i \in 1..Len(sqls) |-> Part(i)] = [i \in DOMAIN sqls |-> Part(i)]
  <2>1. DOMAIN sqls = 1..Len(sqls)
    OBVIOUS
  <2> QED
    BY <2>1
<1> QED
  BY Zenon, <1>1, <1>10, <1>11, <1>12, SqlFlatten DEF Sql!StatementBound

-----------------------------------------------------------------------------
(* What a text means with its variables.                                      *)

(* A meaning of words: a variable that is set means what its value means, a   *)
(* word that is no variable means itself.                                     *)
IsMeaning(W, mean) ==
  /\ mean \in [W -> Seq(W)]
  /\ \A w \in W : /\ w \in DOMAIN Env => Env[w] \in Seq(W) /\ mean[w] = Spread(mean, Env[w])
                  /\ w \notin Vars => mean[w] = <<w>>

LEMMA DictReplacing ==
  \A W, s, w, by : s \in Seq(W) => Dict!Replace(s, w, by) = Spread(Put(W, w, by), s)
<1> TAKE W, s, w, by
<1> HAVE s \in Seq(W)
<1>1. \A i \in DOMAIN s : s[i] \in W
  OBVIOUS
<1>2. [i \in DOMAIN s |-> IF s[i] = w THEN by ELSE <<s[i]>>] =
      [i \in DOMAIN s |-> Put(W, w, by)[s[i]]]
  BY <1>1 DEF Put
<1>3. \A t : Dict!FlattenSeq(t) = FlattenSeq(t)
  BY DEF Dict!FlattenSeq, FlattenSeq
<1> QED
  BY Zenon, <1>2, <1>3 DEF Dict!Replace, Spread

\* a text that has come as far as v with its meaning
StillMeans(W, mean, text, v) == v \in Seq(W) /\ Spread(mean, v) = Spread(mean, text)

LEMMA RoundMeans ==
  ASSUME NEW W, NEW mean, IsMeaning(W, mean), NEW text, NEW r, StillMeans(W, mean, text, r.v), r.ok,
         Dict!ReplaceRound(r).ok
  PROVE  StillMeans(W, mean, text, Dict!ReplaceRound(r).v)
<1> DEFINE v == r.v
           w == Dict!FirstVar(v)
           by == Env[w]
           h == Put(W, w, by)
<1>1. CASE ~Dict!HasVar(v)
  BY <1>1 DEF Dict!ReplaceRound
<1>2. CASE Dict!HasVar(v)
  <2>1. w \in W
    <3> DEFINE I == {i \in DOMAIN v : v[i] \in Vars}
    <3>1. v \in Seq(W) /\ I \subseteq Nat /\ I # {}
      BY <1>2 DEF StillMeans, Dict!HasVar
    <3>2. PICK i \in I : \A j \in I : i <= j
      <4> HIDE DEF I
      <4> QED BY <3>1, NatMin
    <3>3. i \in DOMAIN v /\ v[i] \in Vars /\ \A j \in 1..(i - 1) : v[j] \notin Vars
      <4>1. \A j \in 1..(i - 1) : j \in DOMAIN v /\ ~(i <= j)
        BY <3>1, <3>2
      <4> QED
        BY <3>2, <4>1
    <3>4. \E k \in DOMAIN v : w = v[k]
      BY <3>3 DEF Dict!FirstVar
    <3> QED
      BY <3>1, <3>4
  <2> HIDE DEF w
  <2>2. w \in DOMAIN Env /\ Dict!ReplaceRound(r) = Dict!Ok(Dict!Replace(v, w, by))
    BY <1>2 DEF Dict!ReplaceRound, Dict!Err, w
  <2>3. /\ v \in Seq(W) /\ by \in Seq(W) /\ mean \in [W -> Seq(W)] /\ mean[w] = Spread(mean, by)
    BY <2>1, <2>2 DEF StillMeans, IsMeaning
  <2>4. Spread(mean, v) = Spread(mean, text)
    BY DEF StillMeans
  <2> HIDE DEF v, by
  <2>5. h \in [W -> Seq(W)] /\ \A x \in W : h[x] = IF x = w THEN by ELSE <<x>>
    BY <2>3, PutIs
  <2>6. Dict!Replace(v, w, by) = Spread(h, v)
    BY <2>3, DictReplacing
  <2> HIDE DEF h
  <2>7. ASSUME NEW i \in DOMAIN v PROVE Spread(mean, h[v[i]]) = mean[v[i]]
    <3> DEFINE x == v[i]
    <3>1. x \in W
      BY <2>3
    <3> HIDE DEF x
    <3>2. Spread(mean, <<x>>) = mean[x]
      BY <2>3, <3>1, SpreadOne
    <3>3. Spread(mean, h[x]) = mean[x]
      BY <2>3, <2>5, <3>1, <3>2
    <3> QED
      BY <3>3 DEF x
  <2>8. Spread(mean, Spread(h, v)) = Spread(mean, v)
    <3>1. Becomes(W, W, W, h, mean, mean, v)
      BY <2>3, <2>5, <2>7 DEF Becomes
    <3> QED
      BY <3>1, SpreadInto
  <2>9. Spread(h, v) \in Seq(W)
    BY <2>3, <2>5, SpreadIsText
  <2>10. Dict!ReplaceRound(r).v = Spread(h, v)
    BY <2>2, <2>6 DEF Dict!Ok
  <2> QED
    BY <2>4, <2>8, <2>9, <2>10 DEF StillMeans
<1> QED
  BY <1>1, <1>2

(* In whatever order the variables of a text are replaced, and however many   *)
(* rounds it takes: a text that settles is what it means (replaceEnvVar).      *)
THEOREM TextMeans ==
  ASSUME MaxRounds \in Nat, NEW W, NEW mean, IsMeaning(W, mean), NEW text \in Seq(W),
         Dict!ReplaceEnvVar(text).ok
  PROVE  Dict!ReplaceEnvVar(text).v = Spread(mean, text)
<1>1. PICK r : /\ r[0] = Dict!Ok(text)
               /\ \A n \in 1..MaxRounds : r[n] = Dict!ReplaceRound(r[n - 1])
               /\ Dict!ReplaceEnvVar(text) =
                    IF r[MaxRounds].ok /\ Dict!HasVar(r[MaxRounds].v)
                    THEN Dict!Err("never ends") ELSE r[MaxRounds]
  BY Rounds
<1> DEFINE Good == {n \in 0..MaxRounds : r[n].ok => StillMeans(W, mean, text, r[n].v)}
<1>2. 0 \in Good
  <2>1. r[0].v = text
    BY <1>1, Results
  <2>2. 0 \in 0..MaxRounds
    OBVIOUS
  <2> QED
    BY <2>1, <2>2 DEF StillMeans
<1>3. ASSUME NEW n \in 1..MaxRounds, n - 1 \in Good PROVE n \in Good
  <2> DEFINE q == r[n - 1]
  <2>1. n \in 0..MaxRounds /\ r[n] = Dict!ReplaceRound(q) /\ (q.ok => StillMeans(W, mean, text, q.v))
    <3>1. n \in 0..MaxRounds
      OBVIOUS
    <3>2. r[n] = Dict!ReplaceRound(q)
      BY <1>1
    <3>3. q.ok => StillMeans(W, mean, text, q.v)
      BY <1>3
    <3> QED
      BY <3>1, <3>2, <3>3
  <2> HIDE DEF q
  <2>2. Dict!ReplaceRound(q).ok => q.ok
    BY DEF Dict!ReplaceRound
  <2>3. Dict!ReplaceRound(q).ok => StillMeans(W, mean, text, Dict!ReplaceRound(q).v)
    BY <2>1, <2>2, RoundMeans
  <2> QED
    BY <2>1, <2>3
<1>4. MaxRounds \in Good
  <2> HIDE DEF Good
  <2>1. \A n \in 0..MaxRounds : n \in Good
    BY <1>2, <1>3, Steps
  <2> QED BY <2>1
<1> DEFINE v == r[MaxRounds].v
<1>5. Dict!ReplaceEnvVar(text) = r[MaxRounds] /\ r[MaxRounds].ok /\ ~Dict!HasVar(v)
  BY <1>1, Results
<1>6. v \in Seq(W) /\ Spread(mean, v) = Spread(mean, text)
  BY <1>4, <1>5 DEF StillMeans
<1> HIDE DEF v
<1>7. Spread(mean, v) = v
  <2> DEFINE f == [w \in W |-> w]
             k == [w \in W |-> <<f[w]>>]
  <2>1. \A i \in DOMAIN v : v[i] \in W /\ mean[v[i]] = <<v[i]>>
    BY <1>5, <1>6 DEF IsMeaning, Dict!HasVar
  <2>2. f \in [W -> W] /\ \A i \in DOMAIN v : k[v[i]] = mean[v[i]] /\ f[v[i]] = v[i]
    BY <2>1
  <2>3. Worded(W, W, f, k, v)
    BY <1>6, <2>2 DEF Worded
  <2> HIDE DEF k, f
  <2>4. Spread(k, v) = [i \in DOMAIN v |-> f[v[i]]]
    BY <2>3, SpreadWords
  <2>5. Spread(mean, v) = Spread(k, v)
    BY <2>2, SpreadSame
  <2>6. [i \in DOMAIN v |-> f[v[i]]] = v
    BY <1>6, <2>2
  <2> QED
    BY Zenon, <2>4, <2>5, <2>6
<1> QED
  BY <1>5, <1>6, <1>7 DEF v

-----------------------------------------------------------------------------
(* The statement of a table of a GeoPackage.                                  *)

\* reading the signs and words of s takes the reader from a to b
Leads(a, s, b) ==
  \E r : /\ r[0] = a
         /\ \A n \in 1..Len(s) : r[n] = Gpkg!ColDefStep(r[n - 1], s[n])
         /\ b = r[Len(s)]

LEMMA LeadsSplit ==
  ASSUME NEW S, NEW s \in Seq(S), NEW t \in Seq(S), NEW a, NEW b, Leads(a, s \o t, b)
  PROVE  \E m : Leads(a, s, m) /\ Leads(m, t, b)
<1> DEFINE u == s \o t
           k == Len(s)
           l == Len(t)
<1>1. /\ k \in Nat /\ l \in Nat /\ Len(u) = k + l
      /\ \A i \in 1..k : u[i] = s[i]
      /\ \A i \in 1..l : u[k + i] = t[i]
  <2>1. \A i \in 1..l : k + i \in (k + 1)..(k + l) /\ (k + i) - k = i
    OBVIOUS
  <2> QED
    BY <2>1, ConcatProperties
<1> HIDE DEF u
<1>2. PICK r : /\ r[0] = a
               /\ \A n \in 1..Len(u) : r[n] = Gpkg!ColDefStep(r[n - 1], u[n])
               /\ b = r[Len(u)]
  BY DEF Leads, u
<1>3. Leads(a, s, r[k])
  <2>1. \A n \in 1..k : r[n] = Gpkg!ColDefStep(r[n - 1], s[n])
    <3> SUFFICES ASSUME NEW n \in 1..k PROVE r[n] = Gpkg!ColDefStep(r[n - 1], s[n])
      OBVIOUS
    <3>1. n \in 1..Len(u) /\ u[n] = s[n]
      BY <1>1
    <3> QED
      BY <1>2, <3>1
  <2> QED
    BY <1>2, <2>1 DEF Leads
<1>4. Leads(r[k], t, b)
  <2> DEFINE q == [n \in 0..l |-> r[k + n]]
  <2>1. q[0] = r[k] /\ q[l] = b
    BY <1>1, <1>2
  <2>2. ASSUME NEW n \in 1..l PROVE q[n] = Gpkg!ColDefStep(q[n - 1], t[n])
    <3>1. k + n \in 1..Len(u) /\ u[k + n] = t[n] /\ (k + n) - 1 = k + (n - 1) /\ n - 1 \in 0..l /\ n \in 0..l
      BY <1>1
    <3>2. r[k + n] = Gpkg!ColDefStep(r[(k + n) - 1], u[k + n])
      BY <1>2, <3>1
    <3> QED
      BY <3>1, <3>2
  <2> HIDE DEF q
  <2> QED
    BY <2>1, <2>2 DEF Leads
<1> QED
  BY <1>3, <1>4

LEMMA LeadsOne ==
  ASSUME NEW a, NEW x, NEW b, Leads(a, <<x>>, b)
  PROVE  b = Gpkg!ColDefStep(a, x)
<1> DEFINE s == <<x>>
<1>1. Len(s) = 1 /\ s[1] = x
  OBVIOUS
<1> HIDE DEF s
<1>2. PICK r : /\ r[0] = a
               /\ \A n \in 1..Len(s) : r[n] = Gpkg!ColDefStep(r[n - 1], s[n])
               /\ b = r[Len(s)]
  BY DEF Leads, s
<1>3. 1 \in 1..Len(s) /\ 1 - 1 = 0
  BY <1>1
<1>4. r[1] = Gpkg!ColDefStep(r[0], s[1])
  BY <1>2, <1>3
<1> QED
  BY <1>1, <1>2, <1>4

LEMMA LeadsNone == ASSUME NEW a, NEW b, Leads(a, <<>>, b) PROVE b = a
<1> DEFINE s == <<>>
<1>1. Len(s) = 0
  OBVIOUS
<1> HIDE DEF s
<1>2. PICK r : /\ r[0] = a /\ b = r[Len(s)]
  BY DEF Leads, s
<1> QED
  BY <1>1, <1>2

\* the reader within the statement: definitions, the one it is in, and how deep
Reader(defs, col, p) == [defs |-> defs, col |-> col, p |-> p, done |-> FALSE]

Open == "("
Shut == ")"
Comma == ","

\* how deep the reader is after a word
Deep(p, w) == CASE w = Open -> p + 1 [] w = Shut -> p - 1 [] OTHER -> p

\* a word within the definition is taken as it is
Inner(p, w) == p \in Nat \ {0} /\ (w = Shut => p # 1) /\ (w = Comma => p # 1)

LEMMA WordTaken ==
  ASSUME NEW defs, NEW col, NEW w, NEW p, Inner(p, w)
  PROVE  Gpkg!ColDefStep(Reader(defs, col, p), w) = Reader(defs, Append(col, w), Deep(p, w))
BY DEF Gpkg!ColDefStep, Reader, Deep, Inner, Open, Shut, Comma

LEMMA TypeRead ==
  ASSUME NEW S, NEW type \in Seq(S), Nested(type), NEW defs, NEW col \in Seq(S), NEW b,
         Leads(Reader(defs, col, 1), type, b)
  PROVE  b = Reader(defs, col \o type, 1)
<1> DEFINE n == Len(type)
           Turn(v, k) == CASE type[k] = "(" -> v + 1 [] type[k] = ")" -> v - 1 [] OTHER -> v
           depth == CHOOSE g : g = [k \in 0..n |-> IF k = 0 THEN 0 ELSE Turn(g[k - 1], k)]
<1>0. n \in Nat
  OBVIOUS
<1>1. depth[n] = 0 /\ \A k \in 1..n : depth[k] \in Nat /\ (type[k] = "," => depth[k] > 0)
  BY DEF Nested
<1>2. FiniteNatInductiveDefHypothesis(depth, 0, Turn, 0, n)
  BY DEF FiniteNatInductiveDefHypothesis
<1>3. FiniteNatInductiveDefConclusion(depth, 0, Turn, 0, n)
  <2> HIDE DEF depth, Turn, n
  <2> QED BY <1>0, <1>2, FiniteNatInductiveDef
<1> HIDE DEF depth
<1>4. depth = [k \in 0..n |-> IF k = 0 THEN 0 ELSE Turn(depth[k - 1], k)]
  BY <1>3 DEF FiniteNatInductiveDefConclusion
<1>5. depth[0] = 0 /\ \A k \in 1..n : depth[k] = Turn(depth[k - 1], k)
  BY <1>0, <1>4
<1>6. \A k \in 0..n : depth[k] \in Nat
  <2>1. \A k \in 0..n : k = 0 \/ k \in 1..n
    BY <1>0
  <2>2. depth[0] \in Nat
    BY <1>5
  <2>3. \A k \in 1..n : depth[k] \in Nat
    BY Zenon, <1>1
  <2> QED
    BY Zenon, <2>1, <2>2, <2>3
<1>7. PICK r : /\ r[0] = Reader(defs, col, 1)
               /\ \A k \in 1..n : r[k] = Gpkg!ColDefStep(r[k - 1], type[k])
               /\ b = r[n]
  BY DEF Leads
<1> DEFINE At(k) == col \o SubSeq(type, 1, k)
           Good == {k \in 0..n : r[k] = Reader(defs, At(k), 1 + depth[k])}
<1>8. 0 \in Good
  <2>1. SubSeq(type, 1, 0) = <<>> /\ col \o <<>> = col /\ 1 + depth[0] = 1
    BY <1>5
  <2>2. At(0) = col
    BY <2>1
  <2> HIDE DEF At
  <2>3. r[0] = Reader(defs, At(0), 1 + depth[0]) /\ 0 \in 0..n
    BY <1>0, <1>7, <2>1, <2>2
  <2> QED
    BY <2>3
<1>9. ASSUME NEW k \in 1..n, k - 1 \in Good PROVE k \in Good
  <2> DEFINE p == 1 + depth[k - 1]
             w == type[k]
  <2>0. k - 1 \in 0..n /\ k \in 0..n
    BY <1>0
  <2>1. p \in Nat \ {0} /\ depth[k] = Turn(depth[k - 1], k) /\ depth[k] \in Nat /\ depth[k - 1] \in Nat
    <3> HIDE DEF Turn
    <3>1. depth[k - 1] \in Nat
      BY Zenon, <1>6, <2>0
    <3>2. depth[k] \in Nat /\ depth[k] = Turn(depth[k - 1], k)
      BY Zenon, <1>5, <1>6, <2>0
    <3> QED
      BY <3>1, <3>2
  <2>2. Inner(p, w)
    <3>1. ASSUME w = Shut PROVE p # 1
      <4>1. Turn(depth[k - 1], k) = depth[k - 1] - 1
        <5>1. type[k] = ")" /\ type[k] # "("
          BY <3>1 DEF Shut
        <5> QED
          BY <5>1
      <4> HIDE DEF Turn
      <4>2. depth[k] = depth[k - 1] - 1
        BY Zenon, <2>1, <4>1
      <4> QED
        BY <2>1, <4>2
    <3>2. ASSUME w = Comma PROVE p # 1
      <4>1. Turn(depth[k - 1], k) = depth[k - 1]
        <5>1. type[k] # "(" /\ type[k] # ")"
          BY <3>2 DEF Comma
        <5> QED
          BY <5>1
      <4>2. depth[k] > 0
        <5>1. type[k] = ","
          BY <3>2 DEF Comma
        <5> QED
          BY Zenon, <1>1, <5>1
      <4> HIDE DEF Turn
      <4>3. depth[k] = depth[k - 1]
        BY Zenon, <2>1, <4>1
      <4> QED
        BY <2>1, <4>2, <4>3
    <3> QED
      BY <2>1, <3>1, <3>2 DEF Inner
  <2>3. 1 + depth[k] = Deep(p, w)
    BY <1>6, <2>1 DEF Deep, Open, Shut
  <2>4. At(k) = Append(At(k - 1), w)
    <3>1. SubSeq(type, 1, k) = Append(SubSeq(type, 1, k - 1), w)
      OBVIOUS
    <3> DEFINE c == SubSeq(type, 1, k - 1)
    <3>2. c \in Seq(S) /\ w \in S
      BY SubSeqProperties
    <3> HIDE DEF c, w
    <3>3. col \o Append(c, w) = Append(col \o c, w)
      BY <3>2
    <3> QED
      BY <3>1, <3>3 DEF c
  <2>5. r[k] = Gpkg!ColDefStep(Reader(defs, At(k - 1), p), w)
    BY <1>7, <1>9
  <2> HIDE DEF p, w, At
  <2>6. r[k] = Reader(defs, Append(At(k - 1), w), Deep(p, w))
    <3> DEFINE c == At(k - 1)
    <3> HIDE DEF c
    <3>1. Gpkg!ColDefStep(Reader(defs, c, p), w) = Reader(defs, Append(c, w), Deep(p, w))
      BY <2>2, WordTaken
    <3> QED
      BY Zenon, <2>5, <3>1 DEF c
  <2>7. r[k] = Reader(defs, At(k), 1 + depth[k])
    BY Zenon, <2>3, <2>4, <2>6
  <2> QED
    BY <2>0, <2>7
<1>10. n \in Good
  <2> HIDE DEF Good
  <2>1. \A k \in 0..n : k \in Good
    BY <1>0, <1>8, <1>9, Steps
  <2> QED BY <1>0, <2>1
<1>11. SubSeq(type, 1, n) = type /\ 1 + depth[n] = 1
  <2>1. SubSeq(type, 1, n) = type
    BY <1>0
  <2>2. 1 + 0 = 1
    OBVIOUS
  <2> QED
    BY Zenon, <1>1, <2>1, <2>2
<1> QED
  BY <1>7, <1>10, <1>11

\* the words that make a column the key
KeyWords == "primary key"

\* the definition of a column, and with the comma that follows all but the last
ColumnWords(c) == <<c.name>> \o c.type \o (IF c.pk THEN <<KeyWords>> ELSE <<>>)
ColumnPart(cols, i) == ColumnWords(cols[i]) \o (IF i < Len(cols) THEN <<Comma>> ELSE <<>>)

LEMMA ColumnParts ==
  ASSUME NEW S, NEW c \in ColumnsOf(S)
  PROVE  /\ c.name \in S \cup Signs /\ c.name \notin Signs
         /\ c.type \in Seq(S \cup Signs)
         /\ \A j \in 1..Len(c.type) : c.type[j] # KeyWords
         /\ c.pk \in BOOLEAN
         /\ KeyWords \in S \cup Signs
<1> DEFINE T == S \ {KeyWords}
           V == S \cup Signs
<1>1. c.name \in S \ Signs /\ c.type \in Seq(T) /\ c.pk \in BOOLEAN
  BY DEF ColumnsOf, KeyWords
<1>2. T \subseteq V
  OBVIOUS
<1>3. KeyWords \in V
  BY DEF Signs, KeyWords
<1>4. c.name \in V /\ c.name \notin Signs
  BY <1>1
<1>5. \A j \in 1..Len(c.type) : c.type[j] # KeyWords
  BY <1>1
<1> HIDE DEF V, T
<1>6. c.type \in Seq(V)
  BY <1>1, <1>2
<1> QED
  BY <1>1, <1>3, <1>4, <1>5, <1>6 DEF V

LEMMA ColumnIsWords ==
  ASSUME NEW S, NEW c \in ColumnsOf(S)
  PROVE  ColumnWords(c) \in Seq(S \cup Signs)
<1> DEFINE V == S \cup Signs
           k == IF c.pk THEN <<KeyWords>> ELSE <<>>
<1>1. c.name \in V /\ c.type \in Seq(V) /\ KeyWords \in V
  BY Zenon, ColumnParts
<1> HIDE DEF V
<1>2. <<c.name>> \in Seq(V) /\ <<KeyWords>> \in Seq(V) /\ <<>> \in Seq(V)
  BY <1>1
<1>3. k \in Seq(V)
  BY <1>2
<1> HIDE DEF k
<1>4. <<c.name>> \o c.type \in Seq(V)
  BY <1>1, <1>2
<1>5. (<<c.name>> \o c.type) \o k \in Seq(V)
  BY <1>3, <1>4
<1> QED
  BY Zenon, <1>5 DEF ColumnWords, k, V

\* a column is read as far as it goes
LEMMA ColumnWordsRead ==
  ASSUME NEW S, NEW c \in ColumnsOf(S), Nested(c.type), NEW defs, NEW b,
         Leads(Reader(defs, <<>>, 1), ColumnWords(c), b)
  PROVE  b = Reader(defs, ColumnWords(c), 1)
<1> DEFINE V == S \cup Signs
           k == IF c.pk THEN <<KeyWords>> ELSE <<>>
           nm == <<c.name>>
           t == c.type
           e == <<>>
<1>1. c.name \in V /\ t \in Seq(V) /\ KeyWords \in V /\ c.name \notin Signs
  BY Zenon, ColumnParts
<1>2. nm \in Seq(V) /\ k \in Seq(V) /\ nm \o t \in Seq(V) /\ e \in Seq(V)
  <2> HIDE DEF V
  <2>1. <<c.name>> \in Seq(V) /\ <<KeyWords>> \in Seq(V) /\ <<>> \in Seq(V)
    BY <1>1
  <2>2. k \in Seq(V)
    BY <2>1
  <2> QED
    BY <1>1, <2>1, <2>2
<1>3. Append(e, c.name) = nm /\ c.name # Open /\ c.name # Shut /\ c.name # Comma
  <2>1. Append(e, c.name) = nm
    OBVIOUS
  <2>2. Open \in Signs /\ Shut \in Signs /\ Comma \in Signs
    BY DEF Signs, Open, Shut, Comma
  <2> QED
    BY Zenon, <1>1, <2>1, <2>2
<1>4. ColumnWords(c) = (nm \o t) \o k /\ Nested(t)
  BY DEF ColumnWords
<1> HIDE DEF V, nm, t, e, k
<1>6. PICK m : Leads(Reader(defs, e, 1), nm \o t, m) /\ Leads(m, k, b)
  <2>1. Leads(Reader(defs, e, 1), (nm \o t) \o k, b)
    BY <1>4 DEF e
  <2> QED
    BY <1>2, <2>1, LeadsSplit
<1>7. PICK l : Leads(Reader(defs, e, 1), nm, l) /\ Leads(l, t, m)
  BY <1>1, <1>2, <1>6, LeadsSplit
<1>8. l = Reader(defs, nm, 1)
  <2>1. l = Gpkg!ColDefStep(Reader(defs, e, 1), c.name)
    BY <1>7, LeadsOne DEF nm
  <2>2. Inner(1, c.name)
    BY <1>3 DEF Inner
  <2>3. Gpkg!ColDefStep(Reader(defs, e, 1), c.name) = Reader(defs, Append(e, c.name), Deep(1, c.name))
    BY <2>2, WordTaken
  <2>4. Deep(1, c.name) = 1
    BY <1>3 DEF Deep
  <2> QED
    BY <1>3, <2>1, <2>3, <2>4
<1>9. m = Reader(defs, nm \o t, 1)
  BY <1>1, <1>2, <1>4, <1>7, <1>8, TypeRead
<1>10. b = Reader(defs, (nm \o t) \o k, 1)
  <2> DEFINE c0 == nm \o t
  <2>0. c0 \in Seq(V) /\ m = Reader(defs, c0, 1)
    BY <1>2, <1>9
  <2> HIDE DEF c0
  <2>1. CASE c.pk
    <3>1. k = <<KeyWords>>
      BY <2>1 DEF k
    <3>2. b = Gpkg!ColDefStep(m, KeyWords)
      BY <1>6, <3>1, LeadsOne
    <3>3. KeyWords # Open /\ KeyWords # Shut /\ KeyWords # Comma
      BY DEF KeyWords, Open, Shut, Comma
    <3>4. Inner(1, KeyWords)
      BY <3>3 DEF Inner
    <3>5. Gpkg!ColDefStep(Reader(defs, c0, 1), KeyWords) = Reader(defs, Append(c0, KeyWords), Deep(1, KeyWords))
      BY <3>4, WordTaken
    <3>6. Deep(1, KeyWords) = 1
      BY <3>3 DEF Deep
    <3>7. Append(c0, KeyWords) = c0 \o k
      BY <1>1, <2>0, <3>1
    <3> QED
      BY <2>0, <3>2, <3>5, <3>6, <3>7 DEF c0
  <2>2. CASE ~c.pk
    <3>1. k = <<>>
      BY <2>2 DEF k
    <3>2. b = m
      BY <1>6, <3>1, LeadsNone
    <3>3. c0 \o k = c0
      BY <2>0, <3>1
    <3> QED
      BY <2>0, <3>2, <3>3 DEF c0
  <2> QED
    BY <2>1, <2>2
<1> QED
  BY <1>4, <1>10

\* a comma ends a definition, and the last parenthesis the statement
LEMMA DefinitionEnds ==
  ASSUME NEW defs, NEW col
  PROVE  /\ Gpkg!ColDefStep(Reader(defs, col, 1), Comma) = Reader(Append(defs, col), <<>>, 1)
         /\ Gpkg!ColDefStep(Reader(defs, col, 1), Shut).defs = Append(defs, col)
BY DEF Gpkg!ColDefStep, Reader, Shut, Comma

Defs(cols, i) == [j \in 1..i |-> ColumnWords(cols[j])]

\* where the first i columns take the reader
Reached(cols, i) ==
  IF i = 0 \/ i < Len(cols) THEN Reader(Defs(cols, i), <<>>, 1)
  ELSE Reader(Defs(cols, i - 1), ColumnWords(cols[i]), 1)

LEMMA DefsFurther ==
  ASSUME NEW S, NEW cols \in Seq(ColumnsOf(S)), NEW i \in 1..Len(cols)
  PROVE  Append(Defs(cols, i - 1), ColumnWords(cols[i])) = Defs(cols, i)
<1> DEFINE V == Seq(S \cup Signs)
           A == Defs(cols, i - 1)
           w(j) == ColumnWords(cols[j])
<1>1. \A j \in 1..i : w(j) \in V
  <2> SUFFICES ASSUME NEW j \in 1..i PROVE w(j) \in V
    OBVIOUS
  <2>1. cols[j] \in ColumnsOf(S)
    OBVIOUS
  <2> QED
    BY <2>1, ColumnIsWords
<1>2. Defs(cols, i - 1) = [j \in 1..(i - 1) |-> w(j)] /\ Defs(cols, i) = [j \in 1..i |-> w(j)]
  BY DEF Defs
<1>3. i \in Nat /\ i - 1 \in Nat /\ i >= 1
  OBVIOUS
<1> HIDE DEF V, w
<1>4. /\ [j \in 1..i |-> w(j)] \in Seq(V) /\ Len([j \in 1..i |-> w(j)]) = i
      /\ [j \in 1..(i - 1) |-> w(j)] \in Seq(V) /\ Len([j \in 1..(i - 1) |-> w(j)]) = i - 1
  BY <1>1, <1>3
<1> DEFINE B == [j \in 1..i |-> w(j)]
           C == [j \in 1..(i - 1) |-> w(j)]
<1>5. \A j \in 1..i : B[j] = w(j)
  OBVIOUS
<1>6. \A j \in 1..(i - 1) : C[j] = w(j)
  OBVIOUS
<1> HIDE DEF B, C
<1>7. Append(C, w(i)) = B
  <2>1. w(i) \in V /\ C \in Seq(V) /\ B \in Seq(V) /\ Len(B) = i /\ Len(C) = i - 1
    BY <1>1, <1>3, <1>4 DEF B, C
  <2>2. Len(Append(C, w(i))) = i /\ Append(C, w(i)) \in Seq(V)
    BY <1>3, <2>1
  <2>3. \A j \in 1..i : Append(C, w(i))[j] = B[j]
    BY <1>3, <1>5, <1>6, <2>1
  <2> QED
    BY <2>1, <2>2, <2>3, SeqEqual
<1> QED
  BY <1>2, <1>7 DEF B, C, w

LEMMA PartIsWords ==
  ASSUME NEW S, NEW cols \in Seq(ColumnsOf(S)), NEW i \in 1..Len(cols)
  PROVE  ColumnPart(cols, i) \in Seq(S \cup Signs)
<1> DEFINE V == S \cup Signs
           w == ColumnWords(cols[i])
<1>1. cols[i] \in ColumnsOf(S)
  OBVIOUS
<1>2. w \in Seq(V) /\ Comma \in V
  BY <1>1, ColumnIsWords DEF Signs, Comma
<1> HIDE DEF V, w
<1>3. <<Comma>> \in Seq(V) /\ <<>> \in Seq(V)
  BY <1>2
<1>4. w \o <<Comma>> \in Seq(V) /\ w \o <<>> \in Seq(V)
  BY <1>2, <1>3
<1> QED
  BY <1>4 DEF ColumnPart, V, w

\* a part is read into the definitions, and a comma after it too
LEMMA PartRead ==
  ASSUME NEW S, NEW cols \in Seq(ColumnsOf(S)), NEW i \in 1..Len(cols), Nested(cols[i].type),
         NEW b, Leads(Reached(cols, i - 1), ColumnPart(cols, i), b)
  PROVE  b = Reached(cols, i)
<1> DEFINE V == S \cup Signs
           w == ColumnWords(cols[i])
           D == Defs(cols, i - 1)
           n == Len(cols)
<1>1. cols[i] \in ColumnsOf(S)
  OBVIOUS
<1>2. w \in Seq(V) /\ Comma \in V
  BY <1>1, ColumnIsWords DEF Signs, Comma
<1>3. Reached(cols, i - 1) = Reader(D, <<>>, 1)
  BY DEF Reached
<1>4. Append(D, w) = Defs(cols, i)
  BY DefsFurther
<1>5. CASE i < n
  <2>1. ColumnPart(cols, i) = w \o <<Comma>>
    BY <1>5 DEF ColumnPart
  <2>2. Reached(cols, i) = Reader(Defs(cols, i), <<>>, 1)
    BY <1>5 DEF Reached
  <2> HIDE DEF V, D
  <2>3. Leads(Reader(D, <<>>, 1), w \o <<Comma>>, b)
    BY <1>3, <2>1
  <2>4. \E m : Leads(Reader(D, <<>>, 1), w, m) /\ Leads(m, <<Comma>>, b)
    <3> HIDE DEF w
    <3>1. <<Comma>> \in Seq(V)
      BY <1>2
    <3> QED
      BY <1>2, <2>3, <3>1, LeadsSplit
  <2>5. PICK m : Leads(Reader(D, <<>>, 1), w, m) /\ Leads(m, <<Comma>>, b)
    BY <2>4
  <2>6. m = Reader(D, w, 1)
    BY <1>1, <2>5, ColumnWordsRead
  <2> HIDE DEF w
  <2>7. b = Gpkg!ColDefStep(m, Comma)
    BY <2>5, LeadsOne
  <2> QED
    BY <1>4, <2>2, <2>6, <2>7, DefinitionEnds
<1>6. CASE ~(i < n)
  <2>1. ColumnPart(cols, i) = w
    <3>1. ColumnPart(cols, i) = w \o <<>>
      BY <1>6 DEF ColumnPart
    <3> HIDE DEF w
    <3> QED BY <1>2, <3>1
  <2>2. Reached(cols, i) = Reader(D, w, 1)
    BY <1>6 DEF Reached
  <2> QED
    BY <1>1, <1>3, <2>1, <2>2, ColumnWordsRead
<1> QED
  BY <1>5, <1>6

LEMMA FlattenIsText ==
  \A V : \A ss \in Seq(Seq(V)) : FlattenSeq(ss) \in Seq(V)
<1> SUFFICES ASSUME NEW V, NEW ss \in Seq(Seq(V)) PROVE FlattenSeq(ss) \in Seq(V)
  OBVIOUS
<1> DEFINE W == Seq(V)
           Good == {u \in Seq(W) : FlattenSeq(u) \in W}
<1>1. <<>> \in Good
  <2>1. <<>> \in Seq(W) /\ <<>> \in W
    OBVIOUS
  <2> QED
    BY Zenon, <2>1, FlattenNone
<1>2. ASSUME NEW u \in Seq(W), NEW x \in W, u \in Good PROVE Append(u, x) \in Good
  <2>1. FlattenSeq(Append(u, x)) = FlattenSeq(u) \o x
    BY Zenon, FlattenAppend
  <2>2. FlattenSeq(u) \o x \in W
    BY <1>2
  <2>3. Append(u, x) \in Seq(W)
    <3> HIDE DEF W
    <3> QED BY <1>2
  <2> QED
    BY <2>1, <2>2, <2>3
<1> HIDE DEF Good, W
<1>3. \A u \in Seq(W) : u \in Good
  BY <1>1, <1>2, ByAppending
<1> QED
  BY <1>3 DEF Good, W

LEMMA PartsRead ==
  ASSUME NEW S, NEW cols \in Seq(ColumnsOf(S)), \A j \in DOMAIN cols : Nested(cols[j].type), NEW b,
         Leads(Reader(<<>>, <<>>, 1), FlattenSeq([i \in DOMAIN cols |-> ColumnPart(cols, i)]), b)
  PROVE  b = Reached(cols, Len(cols))
<1> DEFINE V == S \cup Signs
           n == Len(cols)
           parts == [i \in DOMAIN cols |-> ColumnPart(cols, i)]
           P(i) == SubSeq(parts, 1, i)
           Good == {i \in 0..n : \A c : Leads(Reached(cols, 0), FlattenSeq(P(i)), c) => c = Reached(cols, i)}
<1>1. n \in Nat /\ DOMAIN cols = 1..n
  OBVIOUS
<1>2. Reached(cols, 0) = Reader(<<>>, <<>>, 1)
  <2>1. Defs(cols, 0) = <<>>
    BY DEF Defs
  <2> QED
    BY <2>1 DEF Reached
<1>3. \A i \in 1..n : parts[i] \in Seq(V) /\ parts[i] = ColumnPart(cols, i)
  BY PartIsWords
<1>4. parts \in Seq(Seq(V)) /\ Len(parts) = n
  <2> DEFINE W == Seq(V)
             f(i) == ColumnPart(cols, i)
  <2>1. \A i \in 1..n : f(i) \in W
    BY <1>3
  <2>2. parts = [i \in 1..n |-> f(i)]
    BY <1>1
  <2> HIDE DEF W, f, parts
  <2>3. parts \in Seq(W) /\ Len(parts) = n
    BY <1>1, <2>1, <2>2
  <2> QED
    BY <2>3 DEF W
<1> HIDE DEF V, parts
<1>5. P(0) = <<>> /\ P(n) = parts
  BY <1>1, <1>4
<1>6. \A i \in 1..n : /\ P(i - 1) \in Seq(Seq(V)) /\ P(i) = Append(P(i - 1), parts[i])
  <2> DEFINE W == Seq(V)
  <2> HIDE DEF W
  <2>1. parts \in Seq(W)
    BY <1>4 DEF W
  <2>2. \A i \in 1..n : /\ P(i - 1) \in Seq(W) /\ P(i) = Append(P(i - 1), parts[i])
    BY <1>1, <1>4, <2>1
  <2> QED
    BY <2>2 DEF W
<1> HIDE DEF P
<1>7. 0 \in Good
  <2>1. ASSUME NEW c, Leads(Reached(cols, 0), FlattenSeq(P(0)), c) PROVE c = Reached(cols, 0)
    <3>1. FlattenSeq(P(0)) = <<>>
      BY <1>5, FlattenNone
    <3> QED
      BY <2>1, <3>1, LeadsNone
  <2> QED
    BY <1>1, <2>1
<1>8. ASSUME NEW i \in 1..n, i - 1 \in Good PROVE i \in Good
  <2>1. ASSUME NEW c, Leads(Reached(cols, 0), FlattenSeq(P(i)), c) PROVE c = Reached(cols, i)
    <3> DEFINE F == FlattenSeq(P(i - 1))
               y == ColumnPart(cols, i)
    <3>1. y \in Seq(V) /\ P(i - 1) \in Seq(Seq(V)) /\ P(i) = Append(P(i - 1), y)
      BY <1>3, <1>6
    <3> HIDE DEF y
    <3>2. FlattenSeq(P(i)) = F \o y
      BY <3>1, FlattenAppend
    <3>3. F \in Seq(V)
      BY <3>1, FlattenIsText
    <3>4. \A m : Leads(Reached(cols, 0), F, m) => m = Reached(cols, i - 1)
      BY <1>8
    <3> HIDE DEF F
    <3>5. PICK m : Leads(Reached(cols, 0), F, m) /\ Leads(m, y, c)
      BY <2>1, <3>1, <3>2, <3>3, LeadsSplit
    <3>6. m = Reached(cols, i - 1)
      BY <3>4, <3>5
    <3>7. Nested(cols[i].type)
      BY <1>1
    <3> QED
      BY <3>5, <3>6, <3>7, PartRead DEF y
  <2> QED
    BY <1>1, <2>1
<1>9. n \in Good
  <2> HIDE DEF Good, n
  <2>1. \A i \in 0..n : i \in Good
    BY <1>1, <1>7, <1>8, Steps
  <2> QED BY <1>1, <2>1
<1> QED
  BY <1>2, <1>5, <1>9 DEF parts

\* what a definition says of its column
LEMMA ColumnSays ==
  ASSUME NEW S, NEW c \in ColumnsOf(S)
  PROVE  /\ ColumnWords(c) # <<>> /\ ColumnWords(c)[1] = c.name
         /\ (\E j \in DOMAIN ColumnWords(c) : ColumnWords(c)[j] = KeyWords) <=> c.pk
<1> DEFINE V == S \cup Signs
           t == c.type
           k == IF c.pk THEN <<KeyWords>> ELSE <<>>
           nm == <<c.name>>
           u == nm \o t
           w == u \o k
           T == Len(t)
<1>1. /\ c.name \in V /\ t \in Seq(V) /\ KeyWords \in V /\ c.name # KeyWords
      /\ \A j \in 1..T : t[j] # KeyWords
  <2>1. KeyWords \in Signs
    BY DEF Signs, KeyWords
  <2>2. /\ c.name \in V /\ t \in Seq(V) /\ KeyWords \in V /\ c.name \notin Signs
        /\ \A j \in 1..Len(t) : t[j] # KeyWords
    BY Zenon, ColumnParts
  <2>3. c.name # KeyWords
    <3> HIDE DEF V
    <3> QED BY Zenon, <2>1, <2>2
  <2> QED
    BY Zenon, <2>2, <2>3
<1>2. w = ColumnWords(c) /\ c.pk \in BOOLEAN
  <2>1. w = ColumnWords(c)
    BY DEF ColumnWords
  <2> QED
    BY Zenon, <2>1, ColumnParts
<1> HIDE DEF V
<1>3. /\ T \in Nat /\ u \in Seq(V) /\ Len(u) = T + 1 /\ u[1] = c.name
      /\ \A j \in 1..(T + 1) : u[j] # KeyWords
  <2> HIDE DEF t
  <2>1. T \in Nat /\ nm \in Seq(V) /\ Len(nm) = 1 /\ nm[1] = c.name
    BY <1>1
  <2>2. u \in Seq(V) /\ Len(u) = T + 1 /\ u[1] = c.name
    BY <1>1, <2>1
  <2>3. \A j \in 2..(T + 1) : u[j] = t[j - 1] /\ j - 1 \in 1..T
    BY <1>1, <2>1
  <2> QED
    BY <1>1, <2>1, <2>2, <2>3
<1> HIDE DEF u, T
<1>4. CASE c.pk
  <2>1. k = <<KeyWords>>
    BY <1>4
  <2> HIDE DEF k
  <2>2. /\ w # <<>> /\ DOMAIN w = 1..(T + 2) /\ w[T + 2] = KeyWords /\ w[1] = u[1]
    BY <1>1, <1>3, <2>1
  <2>3. T + 2 \in DOMAIN w
    BY <1>3, <2>2
  <2> QED
    BY Zenon, <1>2, <1>3, <1>4, <2>2, <2>3
<1>5. CASE ~c.pk
  <2>1. k = <<>>
    BY <1>5
  <2> HIDE DEF k
  <2>2. w = u
    BY <1>3, <2>1
  <2>3. w # <<>> /\ DOMAIN w = 1..(T + 1)
    BY <1>3, <2>2
  <2> QED
    BY Zenon, <1>2, <1>3, <1>5, <2>2, <2>3
<1> QED
  BY <1>2, <1>4, <1>5

Create == "create table"

\* the parenthesis after the name of the table starts the definitions
LEMMA StatementEntered ==
  \A defs, col : Gpkg!ColDefStep(Reader(defs, col, 0), Open) = Reader(defs, <<>>, 1)
<1> SUFFICES ASSUME NEW defs, NEW col
             PROVE  Gpkg!ColDefStep(Reader(defs, col, 0), Open) = Reader(defs, <<>>, 1)
  OBVIOUS
<1> DEFINE e == <<>>
           a == Reader(defs, col, 0)
           b == Gpkg!ColDefStep(a, Open)
<1>1. a = [defs |-> defs, col |-> col, p |-> 0, done |-> FALSE]
  BY DEF Reader
<1>2. b = [a EXCEPT !.col = e, !.p = 1]
  <2>1. a.done = FALSE /\ a.p = 0 /\ 0 + 1 = 1
    BY <1>1
  <2> HIDE DEF a
  <2> QED
    BY <2>1 DEF Gpkg!ColDefStep, Open
<1> HIDE DEF a, b, e
<1>3. b = [defs |-> defs, col |-> e, p |-> 1, done |-> FALSE]
  BY <1>1, <1>2
<1> QED
  BY <1>3 DEF Reader, a, b, e

\* the definitions that are found in the statement of a table
LEMMA TableDefs ==
  ASSUME NEW S, NEW cols \in Seq(ColumnsOf(S)), \A j \in DOMAIN cols : Nested(cols[j].type)
  PROVE  Gpkg!ColDefs(Gpkg!TableSql(cols)) =
           IF Len(cols) = 0 THEN << <<>> >> ELSE Defs(cols, Len(cols))
<1> DEFINE V == S \cup Signs
           n == Len(cols)
           parts == [i \in DOMAIN cols |-> ColumnPart(cols, i)]
           F == FlattenSeq(parts)
           head == <<Create, Open>>
           sql == head \o F \o <<Shut>>
           base == Reader(<<>>, <<>>, 0)
           Op(x, y) == Gpkg!ColDefStep(x, y)
<1>1. Gpkg!TableSql(cols) = sql
  <2> DEFINE g == [i \in DOMAIN cols |->
                     <<cols[i].name>> \o cols[i].type \o (IF cols[i].pk THEN <<"primary key">> ELSE <<>>)
                       \o (IF i < Len(cols) THEN <<",">> ELSE <<>>)]
  <2>1. g = parts
    BY DEF ColumnPart, ColumnWords, KeyWords, Comma
  <2>2. Gpkg!TableSql(cols) = <<"create table", "(">> \o FlattenSeq(g) \o <<")">>
    BY DEF Gpkg!TableSql, Gpkg!FlattenSeq, FlattenSeq
  <2> HIDE DEF g, parts
  <2> QED
    BY <2>1, <2>2 DEF Shut, Open, Create
<1>2. F \in Seq(V) /\ head \in Seq(V) /\ Shut \in V /\ Open \in V /\ Create \in V
  <2> DEFINE W == Seq(V)
             f(i) == ColumnPart(cols, i)
  <2>1. \A i \in 1..n : f(i) \in W
    BY PartIsWords
  <2>2. n \in Nat /\ parts = [i \in 1..n |-> f(i)]
    OBVIOUS
  <2>3. parts \in Seq(W)
    <3> HIDE DEF W, f, parts, n
    <3> QED
      BY <2>1, <2>2
  <2>4. F \in Seq(V)
    <3> HIDE DEF V, parts
    <3> QED BY <2>3, FlattenIsText
  <2>5. Create \in V /\ Open \in V /\ Shut \in V
    BY DEF Signs, Shut, Open, Create
  <2>6. head \in Seq(V)
    <3> HIDE DEF V
    <3> QED BY <2>5
  <2> QED
    BY <2>4, <2>5, <2>6
<1>3. Gpkg!ColDefs(sql) = FoldLeft(Op, base, sql).defs
  BY DEF Gpkg!ColDefs, Reader, Gpkg!FoldLeft, FoldLeft, Gpkg!MapThenFoldSet, MapThenFoldSet, Gpkg!Max, Max
<1> HIDE DEF V, F
<1>4. sql \in Seq(V) /\ head \o F \in Seq(V) /\ <<Shut>> \in Seq(V)
  BY <1>2
<1>5. PICK b : Leads(base, sql, b) /\ b = FoldLeft(Op, base, sql)
  <2> HIDE DEF sql, base
  <2>1. Folded(Op, base, sql, FoldLeft(Op, base, sql))
    BY <1>4, FoldLeftFolds
  <2> QED
    BY <2>1 DEF Folded, Leads
<1>6. PICK m : Leads(base, head \o F, m) /\ Leads(m, <<Shut>>, b)
  <2> HIDE DEF head, base
  <2> QED BY <1>2, <1>4, <1>5, LeadsSplit
<1>7. PICK l : Leads(base, head, l) /\ Leads(l, F, m)
  <2> HIDE DEF head, base
  <2> QED BY <1>2, <1>6, LeadsSplit
<1>8. l = Reader(<<>>, <<>>, 1)
  <2> DEFINE h == <<Create>>
             o == <<Open>>
  <2>1. head = h \o o /\ h \in Seq(V) /\ o \in Seq(V)
    BY <1>2
  <2> HIDE DEF head, base
  <2>2. PICK q : Leads(base, h, q) /\ Leads(q, o, l)
    <3> HIDE DEF h, o
    <3> QED BY <1>7, <2>1, LeadsSplit
  <2>3. q = Gpkg!ColDefStep(base, Create) /\ l = Gpkg!ColDefStep(q, Open)
    BY <2>2, LeadsOne
  <2>4. q = Reader(<<>>, Append(<<>>, Create), 0)
    BY <2>3 DEF Gpkg!ColDefStep, Reader, base, Create
  <2> DEFINE c == Append(<<>>, Create)
  <2> HIDE DEF c
  <2>5. Gpkg!ColDefStep(Reader(<<>>, c, 0), Open) = Reader(<<>>, <<>>, 1)
    BY StatementEntered
  <2> QED
    BY Zenon, <2>3, <2>4, <2>5 DEF c
<1>9. m = Reached(cols, n)
  BY <1>7, <1>8, PartsRead DEF F
<1>10. b = Gpkg!ColDefStep(m, Shut)
  BY <1>6, LeadsOne
<1>11. CASE n = 0
  <2>1. Defs(cols, 0) = <<>>
    BY DEF Defs
  <2>2. m = Reader(<<>>, <<>>, 1)
    BY <1>9, <1>11, <2>1 DEF Reached
  <2>3. b.defs = Append(<<>>, <<>>)
    BY <1>10, <2>2, DefinitionEnds
  <2>4. Append(<<>>, <<>>) = << <<>> >>
    OBVIOUS
  <2> HIDE DEF sql, n, Op, base
  <2> QED
    BY Zenon, <1>1, <1>3, <1>5, <1>11, <2>3, <2>4 DEF n
<1>12. CASE n # 0
  <2>1. n \in 1..n /\ ~(n < n)
    BY <1>12
  <2>2. m = Reader(Defs(cols, n - 1), ColumnWords(cols[n]), 1)
    BY <1>9, <1>12, <2>1 DEF Reached
  <2>3. b.defs = Append(Defs(cols, n - 1), ColumnWords(cols[n]))
    BY <1>10, <2>2, DefinitionEnds
  <2>4. b.defs = Defs(cols, n)
    BY <2>1, <2>3, DefsFurther
  <2> QED
    BY <1>1, <1>3, <1>5, <1>12, <2>4
<1> QED
  BY <1>11, <1>12

\* at most one element
LEMMA OneAtMost ==
  ASSUME NEW n \in Nat, NEW T, T \subseteq 1..n, Cardinality(T) <= 1
  PROVE  \A x, y \in T : x = y
<1> SUFFICES ASSUME NEW x \in T, NEW y \in T, x # y PROVE FALSE
  OBVIOUS
<1>1. IsFiniteSet(T)
  <2>1. IsFiniteSet(1..n) /\ T \in SUBSET (1..n)
    BY FS_Interval
  <2> QED
    BY <2>1, FS_Subset
<1>2. IsFiniteSet(T \ {x}) /\ Cardinality(T \ {x}) = Cardinality(T) - 1
  BY <1>1, FS_RemoveElement
<1>3. y \in T \ {x}
  OBVIOUS
<1>4. Cardinality((T \ {x}) \ {y}) = Cardinality(T \ {x}) - 1 /\ IsFiniteSet((T \ {x}) \ {y})
  BY <1>2, <1>3, FS_RemoveElement
<1>5. Cardinality((T \ {x}) \ {y}) \in Nat /\ Cardinality(T) \in Nat
  BY <1>1, <1>4, FS_CardinalityType
<1> QED
  BY <1>2, <1>4, <1>5

(* The columns of any table and its primary key are read back from the        *)
(* statement that made it (ColumnsFound of GpkgRows, provider/gpkg).           *)
THEOREM ColumnsAreFound ==
  ASSUME NEW S, NEW cols \in Seq(ColumnsOf(S)), \A j \in DOMAIN cols : Nested(cols[j].type)
  PROVE  Gpkg!ColumnsFound(cols)
<1> DEFINE n == Len(cols)
           names == {cols[i].name : i \in DOMAIN cols}
           keys == {i \in DOMAIN cols : cols[i].pk}
           defs == Gpkg!ColDefs(Gpkg!TableSql(cols))
           found == {i \in DOMAIN defs : defs[i] # <<>> /\ defs[i][1] \in names}
           marked == {i \in found : \E j \in DOMAIN defs[i] : defs[i][j] = "primary key"}
<1>1. SUFFICES ASSUME Cardinality(keys) <= 1
               PROVE  /\ {defs[i][1] : i \in found} = names
                      /\ (IF marked = {} THEN Gpkg!NoKey ELSE defs[Max(marked)][1]) =
                           (IF keys = {} THEN Gpkg!NoKey ELSE cols[CHOOSE i \in keys : TRUE].name)
  <2> DEFINE sql == Gpkg!TableSql(cols)
  <2>1. Gpkg!ColsAndPK(sql, names) =
          [cols |-> {defs[i][1] : i \in found},
           pk   |-> IF marked = {} THEN Gpkg!NoKey ELSE defs[Max(marked)][1]]
    BY DEF Gpkg!ColsAndPK, Gpkg!Max, Max
  <2> DEFINE r == [cols |-> names,
                   pk   |-> IF keys = {} THEN Gpkg!NoKey ELSE cols[CHOOSE i \in keys : TRUE].name]
  <2>2. ASSUME Cardinality(keys) <= 1 => Gpkg!ColsAndPK(sql, names) = r
        PROVE  Gpkg!ColumnsFound(cols)
    BY Zenon, <2>2 DEF Gpkg!ColumnsFound, Gpkg!Cardinality, Cardinality
  <2>3. ASSUME Cardinality(keys) <= 1 PROVE Gpkg!ColsAndPK(sql, names) = r
    <3>1. /\ {defs[i][1] : i \in found} = names
          /\ (IF marked = {} THEN Gpkg!NoKey ELSE defs[Max(marked)][1]) =
               (IF keys = {} THEN Gpkg!NoKey ELSE cols[CHOOSE i \in keys : TRUE].name)
      BY <1>1, <2>3
    <3> HIDE DEF sql, names, keys, marked, found
    <3> QED
      BY Zenon, <2>1, <3>1
  <2> QED
    BY <2>2, <2>3
<1>2. n \in Nat /\ DOMAIN cols = 1..n
  OBVIOUS
<1>3. defs = IF n = 0 THEN << <<>> >> ELSE Defs(cols, n)
  BY TableDefs
<1>4. CASE n = 0
  <2>1. names = {} /\ keys = {}
    BY <1>2, <1>4
  <2> HIDE DEF defs, names, keys
  <2>2. found = {}
    BY <2>1
  <2>3. marked = {} /\ {defs[i][1] : i \in found} = {}
    BY <2>2
  <2> QED
    BY <2>1, <2>3
<1>5. CASE n # 0
  <2>1. \A i \in 1..n : /\ ColumnWords(cols[i]) # <<>> /\ ColumnWords(cols[i])[1] = cols[i].name
                        /\ (\E j \in DOMAIN ColumnWords(cols[i]) : ColumnWords(cols[i])[j] = KeyWords) <=> cols[i].pk
    <3> SUFFICES ASSUME NEW i \in 1..n
                 PROVE  /\ ColumnWords(cols[i]) # <<>> /\ ColumnWords(cols[i])[1] = cols[i].name
                        /\ (\E j \in DOMAIN ColumnWords(cols[i]) : ColumnWords(cols[i])[j] = KeyWords) <=> cols[i].pk
      OBVIOUS
    <3>1. cols[i] \in ColumnsOf(S)
      OBVIOUS
    <3> QED
      BY <3>1, ColumnSays
  <2>2. DOMAIN defs = 1..n /\ \A i \in 1..n : defs[i] = ColumnWords(cols[i])
    BY <1>3, <1>5 DEF Defs
  <2>3. names = {cols[i].name : i \in 1..n} /\ keys = {i \in 1..n : cols[i].pk}
    BY <1>2
  <2> HIDE DEF defs, names, keys
  <2>4. found = 1..n
    BY <2>1, <2>2, <2>3
  <2>5. {defs[i][1] : i \in found} = names
    <3> HIDE DEF found
    <3>1. \A i \in 1..n : defs[i][1] = cols[i].name
      BY Zenon, <2>1, <2>2
    <3>2. {defs[i][1] : i \in 1..n} = {cols[i].name : i \in 1..n}
      BY <3>1
    <3> QED
      BY Zenon, <2>3, <2>4, <3>2
  <2>6. marked = keys
    <3>1. marked = {i \in found : \E j \in DOMAIN defs[i] : defs[i][j] = KeyWords}
      BY DEF KeyWords
    <3>2. \A i \in 1..n : (\E j \in DOMAIN defs[i] : defs[i][j] = KeyWords) <=> cols[i].pk
      BY <2>1, <2>2
    <3> HIDE DEF found, marked
    <3> QED
      BY <2>3, <2>4, <3>1, <3>2
  <2> HIDE DEF marked, found
  <2>7. CASE keys = {}
    BY <2>5, <2>6, <2>7
  <2>8. CASE keys # {}
    <3>1. keys \subseteq 1..n
      BY <2>3
    <3>2. Max(keys) \in keys
      BY <1>2, <2>8, <3>1, MaxIn
    <3>3. (CHOOSE i \in keys : TRUE) \in keys
      BY <2>8
    <3>4. (CHOOSE i \in keys : TRUE) = Max(keys)
      BY <1>1, <1>2, <3>1, <3>2, <3>3, OneAtMost
    <3>5. defs[Max(keys)][1] = cols[Max(keys)].name
      BY <2>1, <2>2, <3>1, <3>2
    <3> QED
      BY <2>5, <2>6, <2>8, <3>4, <3>5
  <2> QED
    BY <2>7, <2>8
<1> QED
  BY <1>4, <1>5

-----------------------------------------------------------------------------
(* The specification.                                                         *)

\* the inductive invariant: what is taken is an input of its algorithm
Inv == /\ taken \in BOOLEAN /\ algorithm \in Offered
       /\ taken => input \in Inputs(algorithm)

LEMMA InvHolds == Spec => []Inv
<1>1. Init => Inv
  BY DEF Init, Inv
<1>2. Inv /\ [Next]_vars => Inv'
  <2> SUFFICES ASSUME Inv, [Next]_vars PROVE Inv'
    OBVIOUS
  <2>1. CASE Next
    <3>1. algorithm' = algorithm /\ taken' = TRUE /\ input' \in Inputs(algorithm)
      BY <2>1 DEF Next
    <3>2. input' \in Inputs(algorithm')
      BY Zenon, <3>1
    <3> QED
      BY <3>1, <3>2 DEF Inv
  <2>2. CASE UNCHANGED vars
    BY <2>2 DEF Inv, vars
  <2> QED
    BY <2>1, <2>2 DEF Next
<1> QED
  BY <1>1, <1>2, PTL DEF Spec

LEMMA InputTaken ==
  ASSUME Inv, taken PROVE IsInput(algorithm, input)
BY InputsAssumption DEF Inv

\* a sequence is one over its elements
LEMMA OverElements ==
  ASSUME NEW s, IsSequence(s)
  PROVE  s \in Seq({s[i] : i \in DOMAIN s}) /\ DOMAIN s = 1..Len(s)
<1> DEFINE n == Len(s)
<1>1. n \in Nat /\ s = [i \in 1..n |-> s[i]]
  BY DEF IsSequence
<1> HIDE DEF n
<1>2. DOMAIN s = 1..n
  BY <1>1
<1>3. s \in [1..n -> {s[i] : i \in DOMAIN s}]
  BY <1>1, <1>2
<1>4. s \in Seq({s[i] : i \in DOMAIN s})
  BY <1>1, <1>3
<1> QED
  BY <1>2, <1>4 DEF n

(* What config.Validate accepts is registered, its layers and its tokens are  *)
(* apart, for every configuration that is read.                                *)
THEOREM ConfigAlwaysSound == Spec => []ConfigSound
<1>1. Inv => ConfigSound
  <2> SUFFICES ASSUME Inv, taken, algorithm = "config" PROVE Cfg!ConfigSound(input)
    BY DEF ConfigSound
  <2>1. input \in Configs(Texts)
    BY InputTaken DEF IsInput
  <2> QED
    BY <2>1, ZoomAssumption, DriversAssumption, ConfigIsSound
<1> QED
  BY <1>1, InvHolds, PTL

(* Every option is read soundly, for every value, default and environment.    *)
THEOREM OptionsAlwaysSound == Spec => []OptionsSound
<1>1. Inv => OptionsSound
  <2> SUFFICES ASSUME Inv, taken, algorithm = "option"
               PROVE  Dict!OptionsSound(input.kind, input.val, input.def)
    BY DEF OptionsSound
  <2>1. input.kind \in Kinds
    BY InputTaken DEF IsInput
  <2> QED
    BY <2>1, RoundsAssumption, OptionsAreSound
<1> QED
  BY <1>1, InvHolds, PTL

LEMMA SegmentsNamed == NotPlaceholders(Segments)
BY SegmentsAssumption DEF NotPlaceholders, Placeholders, ZMark, XMark, YMark

(* What is advertised is drawn and served, for every map of the server.       *)
THEOREM AlwaysAdvertised == Spec => []Advertised
<1>1. Inv => Advertised
  <2> SUFFICES ASSUME Inv, taken, algorithm = "map"
               PROVE  Tiles!Advertised(input.prefix, input.map, input.debug)
    BY DEF Advertised
  <2>1. /\ input.prefix \in Seq(Segments) /\ input.map \in MapsIn(Segments)
        /\ input.debug \in BOOLEAN
    BY InputTaken DEF IsInput
  <2>2. MaxZ \in Nat /\ Powers
    BY ZoomAssumption, PowersAssumption DEF Zooms, PowersUpTo, Powers
  <2> QED
    BY <2>1, <2>2, SegmentsNamed, CapabilitiesAreSound
<1> QED
  BY <1>1, InvHolds, PTL

(* A tile has one name wherever it is named, for every path, key, template,   *)
(* line of a tile list and zooms of a command.                                 *)
THEOREM NamesAlwaysAgree == Spec => []NamesAgree
<1>1. Inv => NamesAgree
  <2> SUFFICES ASSUME Inv, taken PROVE NamesAgree
    BY DEF NamesAgree
  <2>1. IsInput(algorithm, input)
    BY InputTaken
  <2>2. MaxZ \in Nat /\ PowersUpTo(MaxZ)
    BY ZoomAssumption, PowersAssumption DEF Zooms
  <2>3. CASE algorithm = "path"
    <3>1. input.prefix \in Seq(Segments) /\ input.path \in Seq(Segments)
      BY <2>1, <2>3 DEF IsInput
    <3>2. Tiles!SameTile(input.prefix, input.path)
      BY <3>1, SameTileNamed
    <3> QED
      BY <2>3, <3>2 DEF NamesAgree
  <2>4. CASE algorithm = "keys"
    <3>1. input[1] \in Keys(Segments) /\ input[2] \in Keys(Segments)
      BY <2>1, <2>4 DEF IsInput
    <3>2. Tiles!KeyKept(input[1]) /\ Tiles!KeysApart(input[1], input[2])
      BY <2>2, <3>1, KeyIsKept, KeysAreApart
    <3> QED
      BY <2>4, <3>2 DEF NamesAgree
  <2>5. CASE algorithm = "template"
    <3>1. /\ input.prefix \in Seq(Segments) /\ input.map \in Segments
          /\ input.layer \in Segments /\ IsTile(input.tile)
      BY <2>1, <2>5 DEF IsInput
    <3> DEFINE z == input.tile.z  x == input.tile.x  y == input.tile.y
    <3>2. /\ z \in 0..MaxZ /\ x \in Nat /\ y \in Nat
          /\ x <= Tiles!LastXY(z) /\ y <= Tiles!LastXY(z)
      BY <2>2, <3>1 DEF IsTile, PowersUpTo, Tiles!LastXY
    <3> HIDE DEF z, x, y
    <3>3. Tiles!TemplateKept(input.prefix, input.map, input.layer)
      BY <3>1, SegmentsNamed, TemplateIsKept
    <3>4. Tiles!TemplateServed(input.prefix, input.map, input.layer, z, x, y)
      BY <2>2, <3>1, <3>2, SegmentsNamed, TemplateIsServed
    <3> QED
      BY <2>5, <3>3, <3>4 DEF NamesAgree, z, x, y
  <2>6. CASE algorithm = "format"
    <3>1. IsSequence(input.format) /\ IsTile(input.tile)
      BY <2>1, <2>6 DEF IsInput
    <3>2. Flags!LinesRead(input.format, input.tile)
      BY <3>1, OverElements, LinesAreRead
    <3> QED
      BY <2>6, <3>2 DEF NamesAgree
  <2>7. CASE algorithm = "flags"
    <3>1. IsTile(input.tile) /\ input.flags \in [min : FlagZooms, max : FlagZooms]
      BY <2>1, <2>7 DEF IsInput
    <3>2. input.tile.z \in 0..MaxZ /\ input.tile \in TilesAt(input.tile.z)
      BY <3>1 DEF IsTile, TilesAt
    <3>3. input.flags \in [min : 0..MaxZ \cup {NoFlag}, max : 0..MaxZ \cup {NoFlag}]
      BY <3>1 DEF FlagZooms
    <3>4. Flags!FamilyCovered(input.tile, input.flags)
      BY <2>2, <3>2, <3>3, FamilyIsCovered
    <3> QED
      BY <2>7, <3>4 DEF NamesAgree
  <2>8. CASE algorithm \notin {"path", "keys", "template", "format", "flags"}
    BY <2>8 DEF NamesAgree
  <2> QED
    BY <2>3, <2>4, <2>5, <2>6, <2>7, <2>8
<1> QED
  BY <1>1, InvHolds, PTL

(* The parameters of a statement, the columns of a row and the bytes of a     *)
(* header are where they belong, for every layer, row and header.             *)
THEOREM StatementsAndRowsRead == Spec => []StatementsAndRows
<1>1. Inv => StatementsAndRows
  <2> SUFFICES ASSUME Inv, taken PROVE StatementsAndRows
    BY DEF StatementsAndRows
  <2>1. IsInput(algorithm, input)
    BY InputTaken
  <2>2. CASE algorithm = "statement"
    <3>1. ParamsIn(Words, input.params) /\ input.sqls \in Seq(SqlsIn(Words))
      BY <2>1, <2>2 DEF IsInput
    <3>2. Nat \subseteq Words /\ {"BBOX", "ZOOM", "P", "Q"} \subseteq Words
      <4>1. Nat \subseteq Words
        BY DEF Words
      <4> QED
        BY <4>1, StringsAssumption DEF Words
    <3>3. Sql!StatementBound(input.params, input.sqls)
      BY <3>1, <3>2, StatementIsBound
    <3> QED
      BY <2>2, <3>3 DEF StatementsAndRows
  <2>3. CASE algorithm = "postgis row"
    <3> DEFINE C == {input[i] : i \in DOMAIN input}
    <3>1. IsSequence(input) /\ \A j \in DOMAIN input : Typed(input[j])
      BY <2>1, <2>3 DEF IsInput
    <3>2. Columns(C) /\ input \in Seq(C)
      BY <3>1, OverElements DEF Columns, Typed
    <3>3. Pg!RowRead("geom", "id", input)
      <4> HIDE DEF C
      <4> QED BY <3>2, RowIsRead
    <3> QED
      BY <2>3, <3>3 DEF StatementsAndRows
  <2>4. CASE algorithm = "hana row"
    <3> DEFINE C == {input.columns[i] : i \in DOMAIN input.columns}
    <3>1. /\ IsSequence(input.columns)
          /\ \A j \in DOMAIN input.columns : Spatial(input.columns[j], input.vals[j])
      BY <2>1, <2>4 DEF IsInput
    <3>2. /\ input.columns \in Seq(C)
          /\ \A i \in 1..Len(input.columns) : Spatial(input.columns[i], input.vals[i])
      BY <3>1, OverElements
    <3>3. Named("geom")
      BY Zenon DEF Named
    <3>4. Hana!HanaRowRead("geom", "id", input.columns, input.vals)
      <4> HIDE DEF C
      <4> QED BY <3>2, <3>3, HanaRowIsRead
    <3> QED
      BY <2>4, <3>4 DEF StatementsAndRows
  <2>5. CASE algorithm = "gpkg header"
    <3>1. input.len \in Nat /\ input.flags \in Nat
      BY <2>1, <2>5 DEF IsInput
    <3>2. 2^1 \in Nat \ {0} /\ 2^3 \in Nat \ {0}
      BY PowersAssumption DEF PowersUpTo
    <3>3. Gpkg!HeaderFits(input.len, input.magic, input.flags)
      BY <3>1, <3>2, HeaderIsWithin
    <3> QED
      BY <2>5, <3>3 DEF StatementsAndRows
  <2>6. CASE algorithm = "gpkg table"
    <3>1. input \in Seq(ColumnsOf(STRING)) /\ \A j \in DOMAIN input : Nested(input[j].type)
      BY <2>1, <2>6 DEF IsInput, TablesOf
    <3>2. Gpkg!ColumnsFound(input)
      BY <3>1, ColumnsAreFound
    <3> QED
      BY <2>6, <3>2 DEF StatementsAndRows
  <2>7. CASE algorithm \notin {"statement", "postgis row", "hana row", "gpkg header", "gpkg table"}
    BY <2>7 DEF StatementsAndRows
  <2> QED
    BY <2>2, <2>3, <2>4, <2>5, <2>6, <2>7
<1> QED
  BY <1>1, InvHolds, PTL
=============================================================================
