---------------------------- MODULE ParamsProofs ----------------------------
(***************************************************************************)
(* Proofs about Params: the types and the order of levels (TypesCorrect),  *)
(* the environment of commands (EnvironmentMatches), and what is put back  *)
(* after a command that had an assignment in front (PrefixesUndone).       *)
(*                                                                         *)
(* The operators of Params map a state of the table, the record S0 of the  *)
(* variables, to the next.  Each of them has a lemma that it keeps Sound:  *)
(* the structs of a name are a chain of falling levels, none deeper than   *)
(* the scope.  From the lemma on, its users cite it and leave the operator *)
(* unexpanded.  The invariant IInv adds that what is kept for the end of a *)
(* command still fits in at the level outside it.  For the environment a   *)
(* second lemma of each operator says, where there are no references, that *)
(* it changes one name only (Only) and leaves the visible struct of it in  *)
(* the environment as its flags say (Fine); EInv adds that no struct kept  *)
(* for the end of a command claims to be there.  PInv adds that a name     *)
(* that was not there when such a command began has no struct of a scope   *)
(* around the command but those of all functions, so that what the command *)
(* leaves of it goes with the visible one.                                 *)
(***************************************************************************)
EXTENDS Params, FiniteSetTheorems, SequenceTheorems, WellFoundedInduction, TLAPS

-----------------------------------------------------------------------------
(* The state of the table.                                                 *)

Str == Strings \cup {""}
Cell == [level : 0..MaxLevel, str : Str, set : BOOLEAN, declared : BOOLEAN,
         ref : BOOLEAN, exported : BOOLEAN, env : BOOLEAN, base : 0..MaxLevel]
Entry == [n : Names, level : 0..MaxLevel]
State == [tab : [Names -> Seq(Cell)], environ : [Names -> Str \cup {None}],
          refs : [1..MaxLevel -> Seq(Entry)], dead : SUBSET (1..MaxLevel),
          lv : 0..MaxLevel, err : BOOLEAN]

\* A parameter that is unset has no value, and a reference that of a name.
CellOK(n, s) ==
    /\ ~s.set => s.str = ""
    /\ s.ref => n \in Refs /\ s.str \in Names \cup {""}

\* The structs t of the name n, of levels up to l, the innermost first.
Chain(n, t, l) ==
    \A i \in 1..Len(t) :
        /\ t[i] \in Cell /\ CellOK(n, t[i])
        /\ t[i].level <= l
        /\ i > 1 => t[i].level < t[i - 1].level

Sound(S, l) == S \in State /\ \A n \in Names : Chain(n, S.tab[n], l)

There(S, p) == p \in Names \X (Nat \ {0}) /\ p[2] <= Len(S.tab[p[1]])

\* A step from S to T within a scope.
Step(S, T, l) == Sound(T, l) /\ T.lv = S.lv

Struct8(level, str, set, declared, ref, exported, env, base) ==
    [level |-> level, str |-> str, set |-> set, declared |-> declared,
     ref |-> ref, exported |-> exported, env |-> env, base |-> base]

LEMMA Struct8Has ==
    ASSUME NEW a, NEW b, NEW c, NEW d, NEW e, NEW f, NEW g, NEW h
    PROVE  /\ Struct8(a, b, c, d, e, f, g, h).level = a
           /\ Struct8(a, b, c, d, e, f, g, h).str = b
           /\ Struct8(a, b, c, d, e, f, g, h).set = c
           /\ Struct8(a, b, c, d, e, f, g, h).declared = d
           /\ Struct8(a, b, c, d, e, f, g, h).ref = e
           /\ Struct8(a, b, c, d, e, f, g, h).exported = f
           /\ Struct8(a, b, c, d, e, f, g, h).env = g
           /\ Struct8(a, b, c, d, e, f, g, h).base = h
BY DEF Struct8

LEMMA Struct8In ==
    ASSUME NEW a \in 0..MaxLevel, NEW b \in Str, NEW c \in BOOLEAN, NEW d \in BOOLEAN,
           NEW e \in BOOLEAN, NEW f \in BOOLEAN, NEW g \in BOOLEAN, NEW h \in 0..MaxLevel
    PROVE  Struct8(a, b, c, d, e, f, g, h) \in Cell
BY Zenon DEF Struct8, Cell

Typed8(a, b, c, d, e, f, g, h) ==
    /\ a \in 0..MaxLevel /\ b \in Str /\ c \in BOOLEAN /\ d \in BOOLEAN
    /\ e \in BOOLEAN /\ f \in BOOLEAN /\ g \in BOOLEAN /\ h \in 0..MaxLevel

LEMMA Struct8Typed ==
    ASSUME NEW a, NEW b, NEW c, NEW d, NEW e, NEW f, NEW g, NEW h, Typed8(a, b, c, d, e, f, g, h)
    PROVE  Struct8(a, b, c, d, e, f, g, h) \in Cell
BY Struct8In DEF Typed8

\* A field that changes.
WithLevel(s, x) == [s EXCEPT !.level = x]
WithStr(s, x) == [s EXCEPT !.str = x]
WithSet(s, x) == [s EXCEPT !.set = x]
WithDeclared(s, x) == [s EXCEPT !.declared = x]
WithRef(s, x) == [s EXCEPT !.ref = x]
WithExported(s, x) == [s EXCEPT !.exported = x]
WithEnv(s, x) == [s EXCEPT !.env = x]
WithBase(s, x) == [s EXCEPT !.base = x]

LEMMA Struct8Changed ==
    ASSUME NEW a, NEW b, NEW c, NEW d, NEW e, NEW f, NEW g, NEW h, NEW x
    PROVE  /\ WithLevel(Struct8(a, b, c, d, e, f, g, h), x) = Struct8(x, b, c, d, e, f, g, h)
           /\ WithStr(Struct8(a, b, c, d, e, f, g, h), x) = Struct8(a, x, c, d, e, f, g, h)
           /\ WithSet(Struct8(a, b, c, d, e, f, g, h), x) = Struct8(a, b, x, d, e, f, g, h)
           /\ WithDeclared(Struct8(a, b, c, d, e, f, g, h), x) = Struct8(a, b, c, x, e, f, g, h)
           /\ WithRef(Struct8(a, b, c, d, e, f, g, h), x) = Struct8(a, b, c, d, x, f, g, h)
           /\ WithExported(Struct8(a, b, c, d, e, f, g, h), x) = Struct8(a, b, c, d, e, x, g, h)
           /\ WithEnv(Struct8(a, b, c, d, e, f, g, h), x) = Struct8(a, b, c, d, e, f, x, h)
           /\ WithBase(Struct8(a, b, c, d, e, f, g, h), x) = Struct8(a, b, c, d, e, f, g, x)
BY DEF Struct8, WithLevel, WithStr, WithSet, WithDeclared, WithRef, WithExported, WithEnv, WithBase

LEMMA CellIs ==
    ASSUME NEW c \in Cell
    PROVE  /\ c = Struct8(c.level, c.str, c.set, c.declared, c.ref, c.exported, c.env, c.base)
           /\ c.level \in 0..MaxLevel /\ c.str \in Str /\ c.set \in BOOLEAN /\ c.declared \in BOOLEAN
           /\ c.ref \in BOOLEAN /\ c.exported \in BOOLEAN /\ c.env \in BOOLEAN /\ c.base \in 0..MaxLevel
BY DEF Struct8, Cell

LEMMA CellChanged ==
    ASSUME NEW c \in Cell, NEW x
    PROVE  /\ WithLevel(c, x) = Struct8(x, c.str, c.set, c.declared, c.ref, c.exported, c.env, c.base)
           /\ WithStr(c, x) = Struct8(c.level, x, c.set, c.declared, c.ref, c.exported, c.env, c.base)
           /\ WithSet(c, x) = Struct8(c.level, c.str, x, c.declared, c.ref, c.exported, c.env, c.base)
           /\ WithDeclared(c, x) = Struct8(c.level, c.str, c.set, x, c.ref, c.exported, c.env, c.base)
           /\ WithRef(c, x) = Struct8(c.level, c.str, c.set, c.declared, x, c.exported, c.env, c.base)
           /\ WithExported(c, x) = Struct8(c.level, c.str, c.set, c.declared, c.ref, x, c.env, c.base)
           /\ WithEnv(c, x) = Struct8(c.level, c.str, c.set, c.declared, c.ref, c.exported, x, c.base)
           /\ WithBase(c, x) = Struct8(c.level, c.str, c.set, c.declared, c.ref, c.exported, c.env, x)
BY CellIs, Struct8Changed

-----------------------------------------------------------------------------
(* Structs that change.                                                    *)

LEMMA StateFacts ==
    ASSUME NEW S \in State, NEW n \in Names
    PROVE  /\ S.tab \in [Names -> Seq(Cell)] /\ S.tab[n] \in Seq(Cell)
           /\ Len(S.tab[n]) \in Nat
           /\ \A i \in 1..Len(S.tab[n]) : S.tab[n][i] \in Cell
           /\ S.environ \in [Names -> Str \cup {None}]
           /\ S.refs \in [1..MaxLevel -> Seq(Entry)] /\ S.dead \in SUBSET (1..MaxLevel)
           /\ S.lv \in 0..MaxLevel /\ S.err \in BOOLEAN
<1>1. S.tab \in [Names -> Seq(Cell)] /\ S.environ \in [Names -> Str \cup {None}]
      /\ S.refs \in [1..MaxLevel -> Seq(Entry)] /\ S.dead \in SUBSET (1..MaxLevel)
      /\ S.lv \in 0..MaxLevel /\ S.err \in BOOLEAN
  BY DEF State
<1> HIDE DEF State
<1>2. S.tab[n] \in Seq(Cell)
  BY <1>1
<1> QED
  BY <1>1, <1>2

\* A state is what it is made of.
Made(t, e, r, d, l, x) == [tab |-> t, environ |-> e, refs |-> r, dead |-> d, lv |-> l, err |-> x]

LEMMA MadeHas ==
    ASSUME NEW t, NEW e, NEW r, NEW d, NEW l, NEW x
    PROVE  LET T == Made(t, e, r, d, l, x)
           IN  T.tab = t /\ T.environ = e /\ T.refs = r /\ T.dead = d /\ T.lv = l /\ T.err = x
BY DEF Made

LEMMA MadeIs ==
    ASSUME NEW t \in [Names -> Seq(Cell)], NEW e \in [Names -> Str \cup {None}],
           NEW r \in [1..MaxLevel -> Seq(Entry)], NEW d \in SUBSET (1..MaxLevel),
           NEW l \in 0..MaxLevel, NEW x \in BOOLEAN
    PROVE  Made(t, e, r, d, l, x) \in State
BY Zenon DEF Made, State

LEMMA Changed ==
    ASSUME NEW S \in State, NEW u
    PROVE  /\ [S EXCEPT !.tab = u] = Made(u, S.environ, S.refs, S.dead, S.lv, S.err)
           /\ [S EXCEPT !.environ = u] = Made(S.tab, u, S.refs, S.dead, S.lv, S.err)
           /\ [S EXCEPT !.refs = u] = Made(S.tab, S.environ, u, S.dead, S.lv, S.err)
           /\ [S EXCEPT !.err = u] = Made(S.tab, S.environ, S.refs, S.dead, S.lv, u)
           /\ [S EXCEPT !.lv = u] = Made(S.tab, S.environ, S.refs, S.dead, u, S.err)
<1>1. [S EXCEPT !.tab = u] = Made(u, S.environ, S.refs, S.dead, S.lv, S.err)
  BY DEF State, Made
<1>2. [S EXCEPT !.environ = u] = Made(S.tab, u, S.refs, S.dead, S.lv, S.err)
  BY DEF State, Made
<1>3. [S EXCEPT !.refs = u] = Made(S.tab, S.environ, u, S.dead, S.lv, S.err)
  BY DEF State, Made
<1>4. [S EXCEPT !.err = u] = Made(S.tab, S.environ, S.refs, S.dead, S.lv, u)
  BY DEF State, Made
<1>5. [S EXCEPT !.lv = u] = Made(S.tab, S.environ, S.refs, S.dead, u, S.err)
  BY DEF State, Made
<1> QED
  BY <1>1, <1>2, <1>3, <1>4, <1>5

LEMMA ChangedRefs ==
    ASSUME NEW S \in State, NEW u, NEW v
    PROVE  [S EXCEPT !.tab = u, !.refs = v] = Made(u, S.environ, v, S.dead, S.lv, S.err)
<1> DEFINE A == [S EXCEPT !.tab = u]
<1>1. A = Made(u, S.environ, S.refs, S.dead, S.lv, S.err)
  BY Changed
<1>2. [S EXCEPT !.tab = u, !.refs = v] = [A EXCEPT !.refs = v]
  OBVIOUS
<1> HIDE DEF A
<1>3. [A EXCEPT !.refs = v] = Made(u, S.environ, v, S.dead, S.lv, S.err)
  BY <1>1 DEF Made
<1> QED
  BY <1>2, <1>3

LEMMA ChangedDead ==
    ASSUME NEW S \in State, NEW u, NEW v
    PROVE  [S EXCEPT !.refs = u, !.dead = v] = Made(S.tab, S.environ, u, v, S.lv, S.err)
<1> DEFINE A == [S EXCEPT !.refs = u]
<1>1. A = Made(S.tab, S.environ, u, S.dead, S.lv, S.err)
  BY Changed
<1>2. [S EXCEPT !.refs = u, !.dead = v] = [A EXCEPT !.dead = v]
  OBVIOUS
<1> HIDE DEF A
<1>3. [A EXCEPT !.dead = v] = Made(S.tab, S.environ, u, v, S.lv, S.err)
  BY <1>1 DEF Made
<1> QED
  BY <1>2, <1>3

LEMMA ChangedAll ==
    ASSUME NEW S \in State, NEW u, NEW v, NEW w
    PROVE  [S EXCEPT !.tab = u, !.refs = v, !.dead = w] = Made(u, S.environ, v, w, S.lv, S.err)
<1> DEFINE A == [S EXCEPT !.tab = u, !.refs = v]
<1>1. A = Made(u, S.environ, v, S.dead, S.lv, S.err)
  BY ChangedRefs, Zenon
<1>2. [S EXCEPT !.tab = u, !.refs = v, !.dead = w] = [A EXCEPT !.dead = w]
  OBVIOUS
<1> HIDE DEF A
<1>3. [A EXCEPT !.dead = w] = Made(u, S.environ, v, w, S.lv, S.err)
  BY <1>1 DEF Made
<1> QED
  BY <1>2, <1>3

LEMMA ThereIs ==
    ASSUME NEW S \in State, NEW p, There(S, p)
    PROVE  /\ p = <<p[1], p[2]>> /\ p[1] \in Names /\ p[2] \in Nat \ {0}
           /\ p[2] \in 1..Len(S.tab[p[1]])
           /\ At(S, p) = S.tab[p[1]][p[2]] /\ At(S, p) \in Cell
<1>1. p = <<p[1], p[2]>> /\ p[1] \in Names /\ p[2] \in Nat \ {0}
  BY DEF There
<1>2. Len(S.tab[p[1]]) \in Nat
  BY <1>1, StateFacts
<1>3. p[2] \in 1..Len(S.tab[p[1]])
  BY <1>1, <1>2 DEF There
<1> QED
  BY <1>1, <1>3, StateFacts DEF At

\* A struct is given other contents.
LEMMA PutIs ==
    ASSUME NEW S \in State, NEW n \in Names, NEW i, NEW s,
           i \in 1..Len(S.tab[n]) => s \in Cell
    PROVE  LET T == Put(S, <<n, i>>, s)
           IN  /\ T \in State
               /\ T.environ = S.environ /\ T.refs = S.refs /\ T.dead = S.dead
               /\ T.lv = S.lv /\ T.err = S.err
               /\ \A m \in Names \ {n} : T.tab[m] = S.tab[m]
               /\ Len(T.tab[n]) = Len(S.tab[n])
               /\ \A k \in 1..Len(S.tab[n]) : T.tab[n][k] = IF k = i THEN s ELSE S.tab[n][k]
<1> DEFINE t == [S.tab[n] EXCEPT ![i] = s]
           u == [S.tab EXCEPT ![n] = t]
           T == Made(u, S.environ, S.refs, S.dead, S.lv, S.err)
<1>0. /\ S.tab \in [Names -> Seq(Cell)] /\ S.tab[n] \in Seq(Cell)
      /\ S.environ \in [Names -> Str \cup {None}]
      /\ S.refs \in [1..MaxLevel -> Seq(Entry)] /\ S.dead \in SUBSET (1..MaxLevel)
      /\ S.lv \in 0..MaxLevel /\ S.err \in BOOLEAN
  BY StateFacts
<1>1. Put(S, <<n, i>>, s) = [S EXCEPT !.tab = u]
  BY <1>0 DEF Put, State
<1>2. /\ t \in Seq(Cell) /\ Len(t) = Len(S.tab[n])
      /\ \A k \in 1..Len(S.tab[n]) : t[k] = IF k = i THEN s ELSE S.tab[n][k]
  <2>1. CASE i \in 1..Len(S.tab[n])
    BY <1>0, <2>1
  <2>2. CASE i \notin 1..Len(S.tab[n])
    <3>1. t = S.tab[n]
      BY <1>0, <2>2
    <3> QED
      BY <1>0, <2>2, <3>1
  <2> QED
    BY <2>1, <2>2
<1> HIDE DEF t
<1>4. u \in [Names -> Seq(Cell)] /\ u[n] = t /\ \A m \in Names \ {n} : u[m] = S.tab[m]
  BY <1>0, <1>2
<1> HIDE DEF u
<1>3. Put(S, <<n, i>>, s) = T
  BY <1>1, Changed
<1>5. T \in State
  BY <1>0, <1>4, MadeIs
<1>6. T.tab = u /\ T.environ = S.environ /\ T.refs = S.refs
      /\ T.dead = S.dead /\ T.lv = S.lv /\ T.err = S.err
  BY MadeHas
<1> HIDE DEF T
<1> QED
  BY <1>2, <1>3, <1>4, <1>5, <1>6

LEMMA PutAt ==
    ASSUME NEW S \in State, NEW n \in Names, NEW i \in 1..Len(S.tab[n]), NEW s \in Cell
    PROVE  /\ Len(Put(S, <<n, i>>, s).tab[n]) = Len(S.tab[n])
           /\ At(Put(S, <<n, i>>, s), <<n, i>>) = s
<1> DEFINE P == Put(S, <<n, i>>, s)
<1>1. /\ Len(P.tab[n]) = Len(S.tab[n])
      /\ \A k \in 1..Len(S.tab[n]) : P.tab[n][k] = IF k = i THEN s ELSE S.tab[n][k]
  BY PutIs
<1>2. P.tab[n][i] = s
  BY <1>1
<1> QED
  BY <1>1, <1>2 DEF At

LEMMA PutSound ==
    ASSUME NEW l, NEW S, Sound(S, l), NEW n \in Names, NEW i, NEW s,
           i \in 1..Len(S.tab[n]) => /\ s \in Cell /\ CellOK(n, s)
                                     /\ s.level = S.tab[n][i].level
    PROVE  Step(S, Put(S, <<n, i>>, s), l)
<1> DEFINE T == Put(S, <<n, i>>, s)
<1>1. /\ T \in State /\ T.lv = S.lv
      /\ \A m \in Names \ {n} : T.tab[m] = S.tab[m]
      /\ Len(T.tab[n]) = Len(S.tab[n])
      /\ \A k \in 1..Len(S.tab[n]) : T.tab[n][k] = IF k = i THEN s ELSE S.tab[n][k]
  BY PutIs DEF Sound
<1> HIDE DEF T
<1>2. Chain(n, S.tab[n], l) /\ Len(S.tab[n]) \in Nat
  BY StateFacts DEF Sound
<1>3. ASSUME NEW k \in 1..Len(T.tab[n])
      PROVE  /\ T.tab[n][k] \in Cell /\ CellOK(n, T.tab[n][k])
             /\ T.tab[n][k].level = S.tab[n][k].level
  BY <1>1, <1>2, <1>3 DEF Chain
<1>4. \A k \in 1..Len(S.tab[n]) : k > 1 => k - 1 \in 1..Len(S.tab[n])
  BY <1>2
<1>5. Chain(n, T.tab[n], l)
  BY <1>1, <1>2, <1>3, <1>4 DEF Chain
<1> QED
  BY <1>1, <1>5 DEF Sound, Step, T

\* What is not the table changes; the structs stay.
LEMMA OtherSound ==
    ASSUME NEW l, NEW S, Sound(S, l), NEW e \in [Names -> Str \cup {None}],
           NEW r \in [1..MaxLevel -> Seq(Entry)], NEW d \in SUBSET (1..MaxLevel), NEW x \in BOOLEAN
    PROVE  Step(S, Made(S.tab, e, r, d, S.lv, x), l)
<1> DEFINE T == Made(S.tab, e, r, d, S.lv, x)
<1>1. S.tab \in [Names -> Seq(Cell)] /\ S.lv \in 0..MaxLevel /\ \A n \in Names : Chain(n, S.tab[n], l)
  BY DEF Sound, State
<1>2. T \in State
  BY <1>1, MadeIs
<1>3. T.tab = S.tab /\ T.lv = S.lv /\ T.environ = e
  BY MadeHas
<1> HIDE DEF T
<1> QED
  BY <1>1, <1>2, <1>3 DEF Sound, Step, T

LEMMA zerrSound ==
    ASSUME NEW l, NEW S, Sound(S, l)
    PROVE  Step(S, zerr(S), l) /\ zerr(S).tab = S.tab /\ zerr(S).environ = S.environ
<1>1. S \in State
  BY DEF Sound
<1>2. zerr(S) = Made(S.tab, S.environ, S.refs, S.dead, S.lv, TRUE)
  BY <1>1, Changed DEF zerr
<1>3. S.environ \in [Names -> Str \cup {None}] /\ S.refs \in [1..MaxLevel -> Seq(Entry)]
      /\ S.dead \in SUBSET (1..MaxLevel)
  BY <1>1 DEF State
<1>4. TRUE \in BOOLEAN
  OBVIOUS
<1> DEFINE T == Made(S.tab, S.environ, S.refs, S.dead, S.lv, TRUE)
<1>5. Step(S, T, l)
  BY <1>3, <1>4, OtherSound, Zenon
<1>6. T.tab = S.tab /\ T.environ = S.environ
  BY DEF Made
<1> HIDE DEF T
<1> QED
  BY <1>2, <1>5, <1>6 DEF T

\* The environment for one name.
WithEnviron(S, n, v) == [S EXCEPT !.environ[n] = v]

LEMMA WithEnvironSound ==
    ASSUME NEW l, NEW S, Sound(S, l), NEW n \in Names, NEW v \in Str \cup {None}
    PROVE  LET T == WithEnviron(S, n, v)
           IN  Step(S, T, l) /\ T.tab = S.tab /\ T.environ = [S.environ EXCEPT ![n] = v]
<1> DEFINE e == [S.environ EXCEPT ![n] = v]
<1>1. S \in State /\ S.environ \in [Names -> Str \cup {None}]
      /\ S.refs \in [1..MaxLevel -> Seq(Entry)] /\ S.dead \in SUBSET (1..MaxLevel) /\ S.err \in BOOLEAN
  BY DEF Sound, State
<1>2. e \in [Names -> Str \cup {None}]
  BY <1>1
<1>3. WithEnviron(S, n, v) = [S EXCEPT !.environ = e]
  BY DEF WithEnviron
<1> HIDE DEF e
<1>4. WithEnviron(S, n, v) = Made(S.tab, e, S.refs, S.dead, S.lv, S.err)
  BY <1>1, <1>3, Changed
<1> DEFINE T == Made(S.tab, e, S.refs, S.dead, S.lv, S.err)
<1>5. Step(S, T, l)
  BY <1>1, <1>2, OtherSound, Zenon
<1>6. T.tab = S.tab /\ T.environ = e
  BY MadeHas
<1> HIDE DEF T
<1> QED
  BY <1>4, <1>5, <1>6 DEF e, T

\* A struct that is in the environment.
Shown(s) == [s EXCEPT !.env = TRUE, !.exported = TRUE]
Out(s) == [s EXCEPT !.env = FALSE]

\* addenv() and delenv(): of the table, only the flags of the struct change.
LEMMA addenvIs ==
    ASSUME NEW l, NEW S, Sound(S, l), NEW p, There(S, p), NEW v \in Str
    PROVE  LET T == addenv(S, p, v)
           IN  /\ Step(S, T, l)
               /\ T.environ = [S.environ EXCEPT ![p[1]] = v]
               /\ \A m \in Names \ {p[1]} : T.tab[m] = S.tab[m]
               /\ Len(T.tab[p[1]]) = Len(S.tab[p[1]])
               /\ \A k \in 1..Len(S.tab[p[1]]) :
                     T.tab[p[1]][k] = IF k = p[2] THEN Shown(At(S, p))
                                      ELSE S.tab[p[1]][k]
<1> DEFINE n == p[1]
           U == WithEnviron(S, n, v)
           s == Shown(At(S, p))
           T == Put(U, <<n, p[2]>>, s)
<1>1. S \in State /\ p = <<n, p[2]>> /\ n \in Names /\ p[2] \in 1..Len(S.tab[n])
      /\ At(S, p) = S.tab[n][p[2]] /\ At(S, p) \in Cell
  BY ThereIs DEF Sound
<1>2. addenv(S, p, v) = T
  BY <1>1 DEF addenv, WithEnviron, Shown
<1>3. s \in Cell /\ s.level = At(S, p).level /\ (CellOK(n, At(S, p)) => CellOK(n, s))
  BY <1>1 DEF Cell, CellOK, Shown
<1>4. CellOK(n, At(S, p))
  BY <1>1 DEF Sound, Chain
<1> HIDE DEF s, n
<1>5. Step(S, U, l) /\ U.tab = S.tab /\ U.environ = [S.environ EXCEPT ![n] = v]
  BY <1>1, WithEnvironSound
<1> HIDE DEF U
<1>6. Step(U, T, l)
  BY <1>1, <1>3, <1>4, <1>5, PutSound DEF Step
<1>7. U \in State
  BY <1>5 DEF Step, Sound
<1>8. /\ T.environ = U.environ
      /\ \A m \in Names \ {n} : T.tab[m] = U.tab[m]
      /\ Len(T.tab[n]) = Len(U.tab[n])
      /\ \A k \in 1..Len(U.tab[n]) : T.tab[n][k] = IF k = p[2] THEN s ELSE U.tab[n][k]
  BY <1>1, <1>3, <1>7, PutIs
<1> HIDE DEF T
<1>9. Step(S, T, l)
  BY <1>5, <1>6 DEF Step
<1> QED
  BY <1>2, <1>5, <1>8, <1>9 DEF n, s

LEMMA delenvIs ==
    ASSUME NEW l, NEW S, Sound(S, l), NEW n \in Names, NEW i
    PROVE  LET T == delenv(S, <<n, i>>)
           IN  /\ Step(S, T, l)
               /\ T.environ = IF S.tab[n][i].env THEN [S.environ EXCEPT ![n] = None] ELSE S.environ
               /\ \A m \in Names \ {n} : T.tab[m] = S.tab[m]
               /\ Len(T.tab[n]) = Len(S.tab[n])
               /\ \A k \in 1..Len(S.tab[n]) :
                     T.tab[n][k] = IF k = i THEN Out(S.tab[n][k]) ELSE S.tab[n][k]
<1> DEFINE U == WithEnviron(S, n, None)
           s == Out(S.tab[n][i])
           T == Put(U, <<n, i>>, s)
           D == delenv(S, <<n, i>>)
<1>1. S \in State /\ Chain(n, S.tab[n], l)
  BY DEF Sound
<1>2. D = IF S.tab[n][i].env THEN T ELSE S
  BY DEF delenv, WithEnviron, At, Out
<1>3. ASSUME i \in 1..Len(S.tab[n])
      PROVE  S.tab[n][i] \in Cell /\ CellOK(n, S.tab[n][i])
  BY <1>1, <1>3 DEF Chain
<1>4. ASSUME i \in 1..Len(S.tab[n])
      PROVE  /\ s \in Cell /\ s.level = S.tab[n][i].level /\ CellOK(n, s)
             /\ ~S.tab[n][i].env => s = S.tab[n][i]
  BY <1>3, <1>4 DEF Cell, CellOK, Out
<1>5. Step(S, U, l) /\ U.tab = S.tab /\ U.environ = [S.environ EXCEPT ![n] = None]
  BY WithEnvironSound
<1>6. U \in State
  BY <1>5 DEF Step, Sound
<1> HIDE DEF s, U
<1>7. Step(U, T, l)
  <2>1. Sound(U, l) /\ (i \in 1..Len(U.tab[n]) => /\ s \in Cell /\ CellOK(n, s)
                                                  /\ s.level = U.tab[n][i].level)
    BY <1>4, <1>5 DEF Step
  <2> QED
    BY <2>1, PutSound
<1>8. /\ T.environ = U.environ
      /\ \A m \in Names \ {n} : T.tab[m] = U.tab[m]
      /\ Len(T.tab[n]) = Len(U.tab[n])
      /\ \A k \in 1..Len(U.tab[n]) : T.tab[n][k] = IF k = i THEN s ELSE U.tab[n][k]
  BY <1>4, <1>5, <1>6, PutIs
<1> HIDE DEF T, D
<1>9. Step(S, T, l) /\ Step(S, S, l)
  BY <1>5, <1>7 DEF Step
<1>10. CASE S.tab[n][i].env
  BY <1>2, <1>5, <1>8, <1>9, <1>10 DEF D, s
<1>11. CASE ~S.tab[n][i].env
  BY <1>2, <1>4, <1>9, <1>11 DEF D, s
<1> QED
  BY <1>10, <1>11

-----------------------------------------------------------------------------
(* Induction and recursion.                                                *)

\* A set of naturals closed under successor has every natural.
LEMMA Induction ==
    ASSUME NEW S, 0 \in S, \A i \in Nat : i \in S => i + 1 \in S
    PROVE  \A i \in Nat : i \in S
<1>1. SUFFICES ASSUME {i \in Nat : i \notin S} # {} PROVE FALSE
  OBVIOUS
<1> DEFINE T == {i \in Nat : i \notin S}
<1> HIDE DEF T
<1>2. T \subseteq Nat /\ T # {}
  BY <1>1 DEF T
<1>3. PICK m \in T : \A k \in T : ~ (k < m)
  <2>1. IsWellFoundedOn(OpToRel(<, Nat), Nat)
    BY NatLessThanWellFounded
  <2>2. PICK x \in T : \A y \in T : ~ (<<y, x>> \in OpToRel(<, Nat))
    BY <1>2, <2>1, WFMin
  <2>3. ASSUME NEW y \in T, y < x PROVE FALSE
    <3>1. <<y, x>> \in OpToRel(<, Nat)
      BY <1>2, <2>3, Zenon DEF OpToRel
    <3> QED
      BY <2>2, <3>1, Zenon
  <2> QED
    BY <2>3
<1>4. m \in Nat /\ m \notin S
  BY DEF T
<1>5. m - 1 \in Nat /\ m - 1 < m
  BY <1>4
<1>6. m - 1 \in S
  BY <1>3, <1>5 DEF T
<1> QED
  BY <1>4, <1>5, <1>6

\* f is defined by recursion from a with the step next.
Recursive(f, V, a, n, next) ==
    /\ f \in [0..n -> V]
    /\ f[0] = a
    /\ \A i \in 1..n : f[i] = next[<<i, f[i - 1]>>]

\* A recursive definition on 0 .. n whose step is a function has a solution.
LEMMA Recursion ==
    ASSUME NEW V, NEW a \in V, NEW n \in Nat, NEW next \in [(1..n) \X V -> V]
    PROVE  \E f : Recursive(f, V, a, n, next)
<1> DEFINE Solves(f, k) ==
              /\ f \in [0..k -> V]
              /\ f[0] = a
              /\ \A i \in 1..k : f[i] = next[<<i, f[i - 1]>>]
           S == {k \in Nat : k <= n => \E f : Solves(f, k)}
<1>1. 0 \in S
  <2>1. Solves([i \in 0..0 |-> a], 0)
    OBVIOUS
  <2> QED
    BY <2>1
<1>2. ASSUME NEW k \in Nat, k \in S PROVE k + 1 \in S
  <2>1. SUFFICES ASSUME k + 1 <= n PROVE \E f : Solves(f, k + 1)
    OBVIOUS
  <2>2. PICK f : Solves(f, k)
    BY <1>2, <2>1
  <2> DEFINE v == next[<<k + 1, f[k]>>]
             g == [i \in 0..(k + 1) |-> IF i = k + 1 THEN v ELSE f[i]]
  <2>3. v \in V
    <3>1. f[k] \in V /\ k + 1 \in 1..n
      BY <2>1, <2>2
    <3> QED
      BY <3>1
  <2> HIDE DEF v
  <2>4. g \in [0..(k + 1) -> V] /\ g[0] = a /\ g[k + 1] = v
    BY <2>2, <2>3
  <2>5. ASSUME NEW i \in 1..(k + 1) PROVE g[i] = next[<<i, g[i - 1]>>]
    <3>1. CASE i = k + 1
      <4>1. g[i - 1] = f[k] /\ g[i] = v
        BY <3>1
      <4> QED
        BY <3>1, <4>1 DEF v
    <3>2. CASE i # k + 1
      <4>1. i \in 1..k /\ g[i] = f[i] /\ g[i - 1] = f[i - 1]
        BY <3>2
      <4> QED
        BY <4>1, <2>2
    <3> QED
      BY <3>1, <3>2
  <2> HIDE DEF g
  <2> QED
    BY <2>4, <2>5
<1> HIDE DEF S
<1>3. n \in S
  BY <1>1, <1>2, Induction
<1> QED
  BY <1>3 DEF S, Recursive

\* What a recursive definition keeps from each step to the next.
LEMMA Stays ==
    ASSUME NEW f, NEW V, NEW n \in Nat, f[0] \in V,
           \A i \in 1..n : f[i - 1] \in V => f[i] \in V
    PROVE  \A i \in 0..n : f[i] \in V
<1> DEFINE S == {i \in Nat : i \in 0..n => f[i] \in V}
<1>1. 0 \in S
  OBVIOUS
<1>2. ASSUME NEW i \in Nat, i \in S PROVE i + 1 \in S
  <2>1. i + 1 \in 0..n => i \in 0..n /\ i + 1 \in 1..n /\ (i + 1) - 1 = i
    OBVIOUS
  <2>2. i + 1 \in 0..n => f[i] \in V
    BY <1>2, <2>1
  <2> QED
    BY <2>1, <2>2
<1> HIDE DEF S
<1>3. \A i \in Nat : i \in S
  BY <1>1, <1>2, Induction
<1>4. ASSUME NEW i \in 0..n PROVE f[i] \in V
  <2>1. i \in S
    BY <1>3
  <2> QED
    BY <2>1 DEF S
<1> QED
  BY <1>4

\* The greatest of some numbers up to n.
LEMMA GreatestIs ==
    ASSUME NEW n \in Nat, NEW I \in SUBSET (0..n), I # {}
    PROVE  Greatest(I) \in I /\ \A k \in I : k <= Greatest(I)
<1> DEFINE T == {k \in Nat : n - k \in I}
<1>1. T # {}
  <2>1. PICK i \in I : TRUE
    OBVIOUS
  <2>2. n - i \in Nat /\ n - (n - i) = i
    OBVIOUS
  <2> QED
    BY <2>1, <2>2
<1>2. PICK m \in T : \A k \in T : m <= k
  <2> DEFINE D == {i \in Nat : \A k \in T : i <= k}
  <2>1. PICK x \in T : TRUE
    BY <1>1
  <2>2. T \subseteq Nat
    OBVIOUS
  <2> HIDE DEF T
  <2>3. \E i \in D : i + 1 \notin D
    <3>1. 0 \in D
      BY <2>2
    <3>2. SUFFICES ASSUME \A i \in Nat : i \in D => i + 1 \in D PROVE FALSE
      OBVIOUS
    <3> HIDE DEF D
    <3>3. \A i \in Nat : i \in D
      BY <3>1, <3>2, Induction
    <3>4. x + 1 \in D
      BY <3>3, <2>1, <2>2
    <3> QED
      BY <3>4, <2>1, <2>2 DEF D
  <2>4. PICK i \in D : i + 1 \notin D
    BY <2>3
  <2>5. PICK k \in T : ~(i + 1 <= k)
    BY <2>2, <2>4
  <2>6. i <= k /\ k = i
    BY <2>2, <2>4, <2>5
  <2> QED
    BY <2>4, <2>6
<1>3. n - m \in I /\ \A k \in I : k <= n - m
  <2>1. n - m \in I
    OBVIOUS
  <2>2. ASSUME NEW k \in I PROVE k <= n - m
    <3>1. n - k \in Nat /\ n - (n - k) = k /\ k \in Nat
      OBVIOUS
    <3>2. n - k \in T
      BY <3>1
    <3>3. m <= n - k /\ m \in Nat
      BY <1>2, <3>2
    <3> QED
      BY <3>1, <3>3
  <2> QED
    BY <2>1, <2>2
<1> QED
  BY <1>3, Zenon DEF Greatest

\* What is left of a sequence.
LEMMA WithoutIs ==
    ASSUME NEW V, NEW s \in Seq(V), NEW E
    PROVE  Without(s, E) \in Seq(V)
<1> DEFINE n == Len(s)
           step(i, r) == IF s[i] \in E THEN r ELSE Append(r, s[i])
           next == [p \in (1..n) \X Seq(V) |-> step(p[1], p[2])]
           Sol(f) == f = [i \in 0..n |-> IF i = 0 THEN <<>> ELSE step(i, f[i - 1])]
           F == CHOOSE f : Sol(f)
<1>1. n \in Nat /\ \A i \in 1..n : s[i] \in V
  OBVIOUS
<1>0. Without(s, E) = F[n]
  BY Zenon DEF Without
<1> HIDE DEF n
<1>2. \A i \in 1..n : \A r \in Seq(V) : step(i, r) \in Seq(V)
  BY <1>1
<1> HIDE DEF step
<1>3. next \in [(1..n) \X Seq(V) -> Seq(V)] /\ \A p \in (1..n) \X Seq(V) : next[p] = step(p[1], p[2])
  BY <1>2
<1> HIDE DEF next
<1>4. <<>> \in Seq(V)
  OBVIOUS
<1>5. \E f : Recursive(f, Seq(V), <<>>, n, next)
  BY <1>1, <1>3, <1>4, Recursion
<1>6. PICK f : Recursive(f, Seq(V), <<>>, n, next)
  BY <1>5
<1>7. f \in [0..n -> Seq(V)] /\ f[0] = <<>> /\ \A i \in 1..n : f[i] = next[<<i, f[i - 1]>>]
  BY <1>6 DEF Recursive
<1>8. \A i \in 1..n : f[i] = step(i, f[i - 1])
  <2>1. SUFFICES ASSUME NEW i \in 1..n PROVE f[i] = step(i, f[i - 1])
    OBVIOUS
  <2>2. f[i - 1] \in Seq(V)
    BY <1>1, <1>7
  <2>3. next[<<i, f[i - 1]>>] = step(i, f[i - 1])
    BY <1>3, <2>2
  <2> QED
    BY <1>7, <2>3
<1>9. Sol(f)
  <2>1. \A i \in 0..n : f[i] = IF i = 0 THEN <<>> ELSE step(i, f[i - 1])
    BY <1>1, <1>7, <1>8
  <2> QED
    BY <1>7, <2>1
<1>10. Sol(F)
  BY <1>9, Zenon
<1>11. F = [i \in 0..n |-> IF i = 0 THEN <<>> ELSE step(i, F[i - 1])]
  BY <1>10
<1> HIDE DEF F, Sol
<1>12. F[0] = <<>> /\ \A i \in 1..n : F[i] = step(i, F[i - 1])
  BY <1>1, <1>11
<1>13. F[0] \in Seq(V) /\ \A i \in 1..n : F[i - 1] \in Seq(V) => F[i] \in Seq(V)
  BY <1>2, <1>4, <1>12
<1>14. \A i \in 0..n : F[i] \in Seq(V)
  BY <1>1, <1>13, Stays
<1> QED
  BY <1>0, <1>1, <1>14

-----------------------------------------------------------------------------
(* Structs that go.                                                        *)

LEMMA ForgetIs ==
    ASSUME NEW S \in State, NEW n, NEW levels
    PROVE  Forget(S, n, levels) \in [1..MaxLevel -> Seq(Entry)]
<1>1. S.refs \in [1..MaxLevel -> Seq(Entry)]
  BY DEF State
<1>2. \A b \in 1..MaxLevel : Without(S.refs[b], {[n |-> n, level |-> v] : v \in levels}) \in Seq(Entry)
  BY <1>1, WithoutIs
<1> QED
  BY <1>1, <1>2 DEF Forget

\* removenode(): the structs from the next one on stay.
LEMMA removenodeIs ==
    ASSUME NEW l, NEW S, Sound(S, l), NEW n \in Names, NEW i \in Nat \ {0}
    PROVE  LET T == removenode(S, <<n, i>>)
               t == S.tab[n]
           IN  /\ Step(S, T, l)
               /\ \A m \in Names \ {n} : T.tab[m] = S.tab[m]
               /\ Len(T.tab[n]) = IF i < Len(t) THEN Len(t) - i ELSE 0
               /\ \A k \in 1..Len(T.tab[n]) :
                     T.tab[n][k] = IF k = 1 /\ t[k + i].exported
                                   THEN Shown(t[k + i])
                                   ELSE t[k + i]
               /\ T.environ = IF i < Len(t) /\ t[i + 1].exported
                              THEN [S.environ EXCEPT ![n] = t[i + 1].str]
                              ELSE S.environ
<1> DEFINE t == S.tab[n]
           R == removenode(S, <<n, i>>)
           gone == {S.tab[n][j].level : j \in 1..i}
           listed == {b \in DOMAIN S.refs : \E j \in 1..Len(S.refs[b]) :
                         S.refs[b][j] = [n |-> n, level |-> At(S, <<n, i>>).level]}
           q == SubSeq(t, i + 1, Len(t))
           u == [S.tab EXCEPT ![n] = q]
           r == Forget(S, n, gone)
           d == S.dead \cup listed
           T == Made(u, S.environ, r, d, S.lv, S.err)
<1>1. /\ S \in State /\ \A m \in Names : Chain(m, S.tab[m], l)
      /\ S.tab \in [Names -> Seq(Cell)] /\ t \in Seq(Cell) /\ Len(t) \in Nat
      /\ S.environ \in [Names -> Str \cup {None}]
      /\ S.refs \in [1..MaxLevel -> Seq(Entry)] /\ S.dead \in SUBSET (1..MaxLevel)
      /\ S.lv \in 0..MaxLevel /\ S.err \in BOOLEAN
  BY StateFacts DEF Sound
<1>2. [S EXCEPT !.tab[n] = SubSeq(@, i + 1, Len(@)), !.refs = Forget(S, n, gone), !.dead = @ \cup listed]
        = [S EXCEPT !.tab = u, !.refs = r, !.dead = d]
  BY <1>1 DEF State
<1>3. R = LET X == [S EXCEPT !.tab[n] = SubSeq(@, i + 1, Len(@)), !.refs = Forget(S, n, gone),
                             !.dead = @ \cup listed]
          IN  IF X.tab[n] # <<>> /\ X.tab[n][1].exported
              THEN addenv(X, <<n, 1>>, X.tab[n][1].str) ELSE X
  BY DEF removenode
<1>4. d \in SUBSET (1..MaxLevel) /\ r \in [1..MaxLevel -> Seq(Entry)]
  BY <1>1, ForgetIs
<1>5. /\ q \in Seq(Cell)
      /\ Len(q) = IF i < Len(t) THEN Len(t) - i ELSE 0
      /\ \A k \in 1..Len(q) : q[k] = t[k + i]
  BY <1>1
<1> HIDE DEF q, r, d, gone, listed
<1>6. u \in [Names -> Seq(Cell)] /\ u[n] = q /\ \A m \in Names \ {n} : u[m] = S.tab[m]
  BY <1>1, <1>5
<1> HIDE DEF u
<1>7. [S EXCEPT !.tab = u, !.refs = r, !.dead = d] = T
  BY <1>1, ChangedAll, Zenon
<1>8. T \in State
  BY <1>1, <1>4, <1>6, MadeIs
<1>9. T.tab = u /\ T.environ = S.environ /\ T.lv = S.lv
  BY MadeHas
<1> HIDE DEF T
<1>10. R = IF T.tab[n] # <<>> /\ T.tab[n][1].exported THEN addenv(T, <<n, 1>>, T.tab[n][1].str) ELSE T
  BY <1>2, <1>3, <1>7
<1>11. Chain(n, q, l)
  <2>1. ASSUME NEW k \in 1..Len(q)
        PROVE  /\ q[k] \in Cell /\ CellOK(n, q[k]) /\ q[k].level <= l
               /\ k > 1 => q[k].level < q[k - 1].level
    <3>1. k + i \in 1..Len(t) /\ k + i > 1 /\ (k > 1 => k - 1 \in 1..Len(q) /\ (k - 1) + i = (k + i) - 1)
      BY <1>1, <1>5
    <3>2. q[k] = t[k + i] /\ (k > 1 => q[k - 1] = t[(k + i) - 1])
      BY <1>5, <3>1
    <3>3. /\ t[k + i] \in Cell /\ CellOK(n, t[k + i]) /\ t[k + i].level <= l
          /\ t[k + i].level < t[(k + i) - 1].level
      BY <1>1, <3>1 DEF Chain
    <3> QED
      BY <3>2, <3>3
  <2> QED
    BY <2>1 DEF Chain
<1>12. Sound(T, l) /\ Step(S, T, l)
  BY <1>1, <1>6, <1>8, <1>9, <1>11 DEF Sound, Step
<1> HIDE DEF R, t
<1>13. CASE T.tab[n] # <<>> /\ T.tab[n][1].exported
  <2>1. q # <<>> /\ Len(q) > 0 /\ 1 \in 1..Len(q) /\ T.tab[n] = q
    BY <1>5, <1>6, <1>9, <1>13
  <2>2. There(T, <<n, 1>>)
    BY <2>1 DEF There
  <2>3. q[1] \in Cell /\ q[1].str \in Str
    <3>1. q[1] \in Cell
      BY <1>5, <2>1
    <3> QED
      BY <3>1 DEF Cell
  <2>4. At(T, <<n, 1>>) = q[1]
    BY <2>1 DEF At
  <2> DEFINE A == addenv(T, <<n, 1>>, q[1].str)
  <2>5. /\ Step(T, A, l)
        /\ A.environ = [T.environ EXCEPT ![n] = q[1].str]
        /\ \A m \in Names \ {n} : A.tab[m] = T.tab[m]
        /\ Len(A.tab[n]) = Len(T.tab[n])
        /\ \A k \in 1..Len(T.tab[n]) :
              A.tab[n][k] = IF k = 1 THEN Shown(q[1]) ELSE T.tab[n][k]
    <3> DEFINE p == <<n, 1>>
    <3>1. p[1] = n /\ p[2] = 1
      OBVIOUS
    <3>2. There(T, p) /\ At(T, p) = q[1]
      BY <2>2, <2>4
    <3> HIDE DEF p
    <3>3. LET B == addenv(T, p, q[1].str)
          IN  /\ Step(T, B, l)
              /\ B.environ = [T.environ EXCEPT ![p[1]] = q[1].str]
              /\ \A m \in Names \ {p[1]} : B.tab[m] = T.tab[m]
              /\ Len(B.tab[p[1]]) = Len(T.tab[p[1]])
              /\ \A k \in 1..Len(T.tab[p[1]]) :
                    B.tab[p[1]][k] = IF k = p[2] THEN Shown(At(T, p))
                                     ELSE T.tab[p[1]][k]
      BY <1>12, <2>3, <3>2, addenvIs
    <3>4. addenv(T, p, q[1].str) = A
      BY DEF p
    <3> HIDE DEF A
    <3> QED
      BY <3>1, <3>2, <3>3, <3>4
  <2>6. R = A
    BY <1>10, <1>13, <2>1
  <2> HIDE DEF A
  <2>7. Step(S, A, l)
    BY <1>9, <2>5 DEF Step
  <2>8. q[1] = t[1 + i] /\ i < Len(t) /\ 1 + i = i + 1 /\ t[i + 1].exported
    BY <1>1, <1>5, <1>13, <2>1 DEF t
  <2>9. \A k \in 1..Len(q) : q[k] = t[k + i]
    BY <1>5
  <2>10. \A k \in 1..Len(A.tab[n]) :
            A.tab[n][k] = IF k = 1 /\ t[k + i].exported
                          THEN Shown(t[k + i]) ELSE t[k + i]
    BY <2>1, <2>5, <2>8, <2>9
  <2>11. A.environ = [S.environ EXCEPT ![n] = t[i + 1].str]
    BY <1>9, <2>5, <2>8
  <2>12. \A m \in Names \ {n} : A.tab[m] = S.tab[m]
    BY <1>6, <1>9, <2>5
  <2>13. Len(A.tab[n]) = IF i < Len(t) THEN Len(t) - i ELSE 0
    BY <1>5, <2>1, <2>5
  <2> QED
    BY <2>6, <2>7, <2>8, <2>10, <2>11, <2>12, <2>13 DEF R, t
<1>14. CASE ~(T.tab[n] # <<>> /\ T.tab[n][1].exported)
  <2>1. R = T
    BY <1>10, <1>14
  <2>2. 1 \in 1..Len(q) => q # <<>>
    OBVIOUS
  <2>3. 1 \in 1..Len(q) => ~q[1].exported /\ q[1] = t[1 + i]
    BY <1>5, <1>6, <1>9, <1>14, <2>2
  <2>4. i < Len(t) => 1 \in 1..Len(q) /\ 1 + i = i + 1
    BY <1>1, <1>5 DEF t
  <2>5. \A k \in 1..Len(q) : q[k] = t[k + i] /\ (k = 1 => ~t[k + i].exported)
    BY <1>5, <2>3
  <2>6. i < Len(t) => ~t[i + 1].exported
    BY <2>3, <2>4
  <2> QED
    BY <1>5, <1>6, <1>9, <1>12, <2>1, <2>5, <2>6 DEF R, t
<1> QED
  BY <1>13, <1>14

\* A struct that is unset, and no more in the environment.
Unset1(s) == [stdunsetfn(s) EXCEPT !.declared = FALSE]
Bare(s) == Out(Unset1(s))

\* unsetparam_pm(): the struct stays in a scope still open.
Stays1(S, s) == s.level > 0 /\ S.lv >= s.level

LEMMA Unset1Is ==
    ASSUME NEW n, NEW c \in Cell, CellOK(n, c)
    PROVE  LET s == Unset1(c)
           IN  /\ s \in Cell /\ CellOK(n, s) /\ s.str = "" /\ ~s.set /\ ~s.declared
               /\ s.level = c.level /\ s.ref = c.ref /\ s.exported = c.exported
               /\ s.env = c.env /\ s.base = c.base
<1> DEFINE no == FALSE
           nil == ""
           a == WithStr(c, nil)
           b == WithSet(a, no)
           s == WithDeclared(b, no)
<1>1. Unset1(c) = s
  BY DEF Unset1, stdunsetfn, WithStr, WithSet, WithDeclared
<1>5. nil \in Str /\ no \in BOOLEAN /\ ~no
  BY DEF Str
<1> HIDE DEF no, nil
<1>2. a = Struct8(c.level, nil, c.set, c.declared, c.ref, c.exported, c.env, c.base)
  BY CellIs, Struct8Changed
<1> HIDE DEF a
<1>3. b = Struct8(c.level, nil, no, c.declared, c.ref, c.exported, c.env, c.base)
  BY <1>2, Struct8Changed
<1> HIDE DEF b
<1>4. s = Struct8(c.level, nil, no, no, c.ref, c.exported, c.env, c.base)
  BY <1>3, Struct8Changed
<1> HIDE DEF s
<1>6. s \in Cell
  BY <1>4, <1>5, CellIs, Struct8In, Zenon
<1>7. /\ s.str = nil /\ s.set = no /\ s.declared = no
      /\ s.level = c.level /\ s.ref = c.ref /\ s.exported = c.exported
      /\ s.env = c.env /\ s.base = c.base
  BY <1>4, Struct8Has
<1>8. s.str = "" /\ ~s.set /\ ~s.declared
  BY <1>5, <1>7 DEF nil
<1>9. CellOK(n, s)
  BY <1>7, <1>8 DEF CellOK
<1> QED
  BY <1>1, <1>6, <1>7, <1>8, <1>9

LEMMA UnsetIs ==
    ASSUME NEW l, NEW S, Sound(S, l), NEW n \in Names, NEW i \in Nat \ {0}
    PROVE  LET T == delenv(Put(S, <<n, i>>, Unset1(At(S, <<n, i>>))), <<n, i>>)
               t == S.tab[n]
           IN  /\ Step(S, T, l)
               /\ \A m \in Names \ {n} : T.tab[m] = S.tab[m]
               /\ Len(T.tab[n]) = Len(t)
               /\ \A k \in 1..Len(t) : T.tab[n][k] = IF k = i THEN Bare(t[k]) ELSE t[k]
               /\ i \in 1..Len(t) =>
                    T.environ = IF t[i].env THEN [S.environ EXCEPT ![n] = None] ELSE S.environ
<1> DEFINE t == S.tab[n]
           s == Unset1(t[i])
           P == Put(S, <<n, i>>, s)
           T == delenv(P, <<n, i>>)
<1>1. S \in State /\ Chain(n, t, l) /\ At(S, <<n, i>>) = t[i]
  BY DEF Sound, At
<1>2. ASSUME i \in 1..Len(t)
      PROVE  s \in Cell /\ CellOK(n, s) /\ s.level = t[i].level /\ s.env = t[i].env
  <2>1. t[i] \in Cell /\ CellOK(n, t[i])
    BY <1>1, <1>2 DEF Chain
  <2> HIDE DEF t
  <2> QED
    BY <2>1, Unset1Is
<1> HIDE DEF s, t
<1>3. Step(S, P, l)
  BY <1>2, PutSound DEF t
<1>4. /\ P.environ = S.environ /\ P.tab[n] = P.tab[n]
      /\ \A m \in Names \ {n} : P.tab[m] = S.tab[m]
      /\ Len(P.tab[n]) = Len(t)
      /\ \A k \in 1..Len(t) : P.tab[n][k] = IF k = i THEN s ELSE t[k]
  BY <1>1, <1>2, PutIs DEF t
<1>10. Sound(P, l)
  BY <1>3 DEF Step
<1> HIDE DEF P
<1>5. /\ Step(P, T, l)
      /\ T.environ = IF P.tab[n][i].env THEN [P.environ EXCEPT ![n] = None] ELSE P.environ
      /\ \A m \in Names \ {n} : T.tab[m] = P.tab[m]
      /\ Len(T.tab[n]) = Len(P.tab[n])
      /\ \A k \in 1..Len(P.tab[n]) :
            T.tab[n][k] = IF k = i THEN Out(P.tab[n][k]) ELSE P.tab[n][k]
  BY <1>10, delenvIs, SMTT(20)
<1> HIDE DEF T
<1>6. Step(S, T, l)
  BY <1>3, <1>5 DEF Step
<1>7. \A k \in 1..Len(t) : T.tab[n][k] = IF k = i THEN Bare(t[k]) ELSE t[k]
  BY <1>4, <1>5 DEF Bare, s
<1>8. i \in 1..Len(t) => T.environ = IF t[i].env THEN [S.environ EXCEPT ![n] = None] ELSE S.environ
  BY <1>2, <1>4, <1>5
<1>9. \A m \in Names \ {n} : T.tab[m] = S.tab[m]
  BY <1>4, <1>5
<1> QED
  BY <1>1, <1>4, <1>5, <1>6, <1>7, <1>8, <1>9 DEF T, P, s, t

\* It stays, or goes so that what it hides comes to light.
Kept(S, T, n, i) ==
    LET t == S.tab[n] IN
    /\ Len(T.tab[n]) = Len(t)
    /\ \A k \in 1..Len(t) : T.tab[n][k] = IF k = i THEN Bare(t[k]) ELSE t[k]
    /\ i \in 1..Len(t) =>
          T.environ = IF t[i].env THEN [S.environ EXCEPT ![n] = None] ELSE S.environ

Uncovered(S, T, n, i) ==
    LET t == S.tab[n] IN
    /\ Len(T.tab[n]) = IF i < Len(t) THEN Len(t) - i ELSE 0
    /\ \A k \in 1..Len(T.tab[n]) :
          T.tab[n][k] = IF k = 1 /\ t[k + i].exported THEN Shown(t[k + i]) ELSE t[k + i]
    /\ i \in 1..Len(t) =>
          T.environ = IF i < Len(t) /\ t[i + 1].exported
                      THEN [S.environ EXCEPT ![n] = t[i + 1].str]
                      ELSE IF t[i].env THEN [S.environ EXCEPT ![n] = None] ELSE S.environ

LEMMA unsetparam_pmIs ==
    ASSUME NEW l, NEW S, Sound(S, l), NEW n \in Names, NEW i \in Nat \ {0}
    PROVE  LET T == unsetparam_pm(S, <<n, i>>)
           IN  /\ Step(S, T, l)
               /\ \A m \in Names \ {n} : T.tab[m] = S.tab[m]
               /\ IF Stays1(S, S.tab[n][i]) THEN Kept(S, T, n, i) ELSE Uncovered(S, T, n, i)
<1> DEFINE t == S.tab[n]
           D == delenv(Put(S, <<n, i>>, Unset1(At(S, <<n, i>>))), <<n, i>>)
           R == removenode(D, <<n, i>>)
           T == unsetparam_pm(S, <<n, i>>)
<1>1. T = IF Stays1(S, t[i]) THEN D ELSE R
  BY DEF unsetparam_pm, At, Unset1, Stays1
<1>2. S \in State /\ Len(t) \in Nat
  BY StateFacts DEF Sound
<1>3. /\ Step(S, D, l)
      /\ \A m \in Names \ {n} : D.tab[m] = S.tab[m]
      /\ Len(D.tab[n]) = Len(t)
      /\ \A k \in 1..Len(t) : D.tab[n][k] = IF k = i THEN Bare(t[k]) ELSE t[k]
      /\ i \in 1..Len(t) =>
           D.environ = IF t[i].env THEN [S.environ EXCEPT ![n] = None] ELSE S.environ
  BY UnsetIs
<1> HIDE DEF D
<1>4. Sound(D, l) /\ D.lv = S.lv
  BY <1>3 DEF Step
<1>5. /\ Step(D, R, l)
      /\ \A m \in Names \ {n} : R.tab[m] = D.tab[m]
      /\ Len(R.tab[n]) = IF i < Len(D.tab[n]) THEN Len(D.tab[n]) - i ELSE 0
      /\ \A k \in 1..Len(R.tab[n]) :
            R.tab[n][k] = IF k = 1 /\ D.tab[n][k + i].exported
                          THEN Shown(D.tab[n][k + i]) ELSE D.tab[n][k + i]
      /\ R.environ = IF i < Len(D.tab[n]) /\ D.tab[n][i + 1].exported
                     THEN [D.environ EXCEPT ![n] = D.tab[n][i + 1].str] ELSE D.environ
  BY <1>4, removenodeIs
<1> HIDE DEF R, T
<1>6. CASE Stays1(S, t[i])
  BY <1>1, <1>3, <1>6 DEF T, t, Kept
<1>7. CASE ~Stays1(S, t[i])
  <2>1. T = R
    BY <1>1, <1>7
  <2>2. Step(S, R, l)
    BY <1>3, <1>5 DEF Step
  <2>3. \A m \in Names \ {n} : R.tab[m] = S.tab[m]
    BY <1>3, <1>5
  <2> HIDE DEF t
  <2>4. \A k \in 1..Len(R.tab[n]) : k + i \in 1..Len(t) /\ k + i # i
    BY <1>2, <1>3, <1>5
  <2>5. \A k \in 1..Len(R.tab[n]) : D.tab[n][k + i] = t[k + i]
    BY <1>3, <2>4
  <2>6. i < Len(t) => i + 1 \in 1..Len(t) /\ D.tab[n][i + 1] = t[i + 1]
    BY <1>2, <1>3
  <2>7. S.environ \in [Names -> Str \cup {None}]
    BY <1>2 DEF State
  <2>8. i \in 1..Len(t) =>
          R.environ = IF i < Len(t) /\ t[i + 1].exported
                      THEN [S.environ EXCEPT ![n] = t[i + 1].str]
                      ELSE IF t[i].env THEN [S.environ EXCEPT ![n] = None] ELSE S.environ
    BY <1>3, <1>5, <2>6, <2>7
  <2>9. \A k \in 1..Len(R.tab[n]) :
           R.tab[n][k] = IF k = 1 /\ t[k + i].exported THEN Shown(t[k + i]) ELSE t[k + i]
    BY <1>5, <2>5
  <2>10. Len(R.tab[n]) = IF i < Len(t) THEN Len(t) - i ELSE 0
    BY <1>3, <1>5
  <2> QED
    BY <1>7, <2>1, <2>2, <2>3, <2>8, <2>9, <2>10 DEF T, t, Uncovered
<1> QED
  BY <1>6, <1>7

-----------------------------------------------------------------------------
(* Following references.                                                   *)

LEMMA upscopeIs ==
    ASSUME NEW S \in State, NEW m \in Names, NEW base, S.tab[m] # <<>>
    PROVE  There(S, upscope(S, m, base))
<1> DEFINE n == Len(S.tab[m])
           I == {1} \cup {i \in 2..n : \A k \in 2..i : S.tab[m][k].level >= base}
<1>1. n \in Nat /\ n >= 1
  <2>1. S.tab[m] \in Seq(Cell) /\ n \in Nat
    BY StateFacts
  <2> QED
    BY <2>1
<1>2. upscope(S, m, base) = <<m, Greatest(I)>>
  BY DEF upscope
<1> HIDE DEF n
<1>3. I \in SUBSET (0..n) /\ I # {} /\ I \subseteq 1..n
  BY <1>1
<1> HIDE DEF I
<1>4. Greatest(I) \in I
  BY <1>1, <1>3, GreatestIs
<1>5. Greatest(I) \in 1..n
  BY <1>3, <1>4
<1> HIDE DEF upscope
<1> DEFINE g == Greatest(I)
<1> HIDE DEF g
<1>6. There(S, <<m, g>>)
  BY <1>1, <1>5 DEF There, g, n
<1> QED
  BY <1>2, <1>6 DEF g

\* A struct is not None.
LEMMA ThereSome ==
    ASSUME NEW S, NEW p, There(S, p)
    PROVE  p # None /\ p \in Names \X Nat
<1>1. p \in Names \X Nat
  BY DEF There
<1> QED
  BY <1>1, ParamsAssumption

LEMMA ReferredIs ==
    ASSUME NEW l, NEW S, Sound(S, l), NEW p, There(S, p), IsRef(At(S, p))
    PROVE  /\ At(S, p).str \in Names
           /\ IF S.tab[At(S, p).str] = <<>> THEN Referred(S, p) = None
              ELSE There(S, Referred(S, p))
<1>1. S \in State /\ p[1] \in Names /\ p[2] \in 1..Len(S.tab[p[1]]) /\ At(S, p) = S.tab[p[1]][p[2]]
  BY ThereIs DEF Sound
<1>2. CellOK(p[1], At(S, p))
  BY <1>1 DEF Sound, Chain
<1>3. At(S, p).str \in Names
  BY <1>2 DEF CellOK, IsRef
<1> QED
  BY <1>1, <1>3, upscopeIs DEF Referred

Places == (Names \X Nat) \cup {None}

\* Where a chain of references is followed to.
Ends(S, stop, keep, p) ==
    p # None =>
        \/ p = stop
        \/ ~IsRef(At(S, p))
        \/ keep /\ IsRef(At(S, p)) /\ At(S, p).str \in Names /\ S.tab[At(S, p).str] = <<>>

Walks(S, stop, keep) ==
    {w \in [at : Places, tagged : SUBSET Places, end : BOOLEAN] :
        /\ w.at # None => There(S, w.at)
        /\ ~w.end => w.at # None /\ IsRef(At(S, w.at))
        /\ w.end => Ends(S, stop, keep, w.at)}

At1(w, a) == [w EXCEPT !.at = a, !.end = TRUE]
On(w, t) == [w EXCEPT !.at = t, !.tagged = @ \cup {w.at}]

WalkOn(S, stop, keep, w) ==
    LET t == Referred(S, w.at)
    IN  IF w.end THEN w
        ELSE IF w.at \in w.tagged THEN At1(w, None)
        ELSE IF t = None THEN At1(w, IF keep THEN w.at ELSE None)
        ELSE IF t = stop \/ ~IsRef(At(S, t)) THEN At1(w, t)
        ELSE On(w, t)

LEMMA WalkFacts ==
    ASSUME NEW w \in [at : Places, tagged : SUBSET Places, end : BOOLEAN], NEW a \in Places
    PROVE  /\ At1(w, a) \in [at : Places, tagged : SUBSET Places, end : BOOLEAN]
           /\ At1(w, a).at = a /\ At1(w, a).end /\ At1(w, a).tagged = w.tagged
           /\ On(w, a) \in [at : Places, tagged : SUBSET Places, end : BOOLEAN]
           /\ On(w, a).at = a /\ On(w, a).end = w.end /\ On(w, a).tagged = w.tagged \cup {w.at}
<1> DEFINE yes == TRUE
           u == [w EXCEPT !.at = a]
           v == [u EXCEPT !.end = yes]
           x == [u EXCEPT !.tagged = w.tagged \cup {w.at}]
<1>1. yes \in BOOLEAN /\ yes
  OBVIOUS
<1>2. At1(w, a) = v
  BY DEF At1
<1>3. On(w, a) = x
  BY DEF On
<1> HIDE DEF yes
<1>4. u \in [at : Places, tagged : SUBSET Places, end : BOOLEAN]
      /\ u.at = a /\ u.end = w.end /\ u.tagged = w.tagged
  OBVIOUS
<1> HIDE DEF u
<1>5. v \in [at : Places, tagged : SUBSET Places, end : BOOLEAN]
      /\ v.at = a /\ v.end = yes /\ v.tagged = w.tagged
  BY <1>1, <1>4
<1>6. x \in [at : Places, tagged : SUBSET Places, end : BOOLEAN]
      /\ x.at = a /\ x.end = w.end /\ x.tagged = w.tagged \cup {w.at}
  BY <1>4
<1> QED
  BY <1>1, <1>2, <1>3, <1>5, <1>6

LEMMA WalkOnIs ==
    ASSUME NEW l, NEW S, Sound(S, l), NEW stop, NEW keep \in BOOLEAN, NEW w \in Walks(S, stop, keep)
    PROVE  WalkOn(S, stop, keep, w) \in Walks(S, stop, keep)
<1> DEFINE t == Referred(S, w.at)
           V == [at : Places, tagged : SUBSET Places, end : BOOLEAN]
<1>1. /\ w \in V /\ w.at \in Places /\ None \in Places
      /\ w.at # None => There(S, w.at)
      /\ ~w.end => w.at # None /\ IsRef(At(S, w.at))
      /\ w.end => Ends(S, stop, keep, w.at)
  BY DEF Walks, Places
<1>2. CASE w.end
  BY <1>2 DEF WalkOn
<1>3. CASE ~w.end
  <2>1. There(S, w.at) /\ IsRef(At(S, w.at))
    BY <1>1, <1>3
  <2>2. /\ At(S, w.at).str \in Names
        /\ IF S.tab[At(S, w.at).str] = <<>> THEN t = None ELSE There(S, t)
    BY <2>1, ReferredIs
  <2> HIDE DEF t
  <2>3. CASE w.at \in w.tagged
    <3>1. At1(w, None) \in V /\ At1(w, None).at = None /\ At1(w, None).end
      BY <1>1, WalkFacts
    <3>2. At1(w, None) \in Walks(S, stop, keep)
      BY <3>1 DEF Walks, Ends
    <3> QED
      BY <1>3, <2>3, <3>2 DEF WalkOn
  <2>4. CASE w.at \notin w.tagged /\ t = None
    <3> DEFINE a == IF keep THEN w.at ELSE None
    <3>1. a \in Places /\ (a # None => a = w.at /\ keep)
      BY <1>1
    <3>5. S.tab[At(S, w.at).str] = <<>>
      BY <2>2, <2>4, ThereSome
    <3>6. WalkOn(S, stop, keep, w) = At1(w, a)
      BY <1>3, <2>4 DEF WalkOn, t
    <3> HIDE DEF a
    <3>2. At1(w, a) \in V /\ At1(w, a).at = a /\ At1(w, a).end
      BY <1>1, <3>1, WalkFacts
    <3>3. Ends(S, stop, keep, a) /\ (a # None => There(S, a))
      BY <2>1, <2>2, <3>1, <3>5 DEF Ends
    <3>4. At1(w, a) \in Walks(S, stop, keep)
      BY <3>2, <3>3 DEF Walks
    <3> QED
      BY <3>4, <3>6
  <2>5. CASE w.at \notin w.tagged /\ t # None
    <3>1. There(S, t)
      BY <2>2, <2>5
    <3>2. t \in Places
      BY <3>1, ThereSome DEF Places
    <3>3. /\ At1(w, t) \in V /\ At1(w, t).at = t /\ At1(w, t).end
          /\ On(w, t) \in V /\ On(w, t).at = t /\ On(w, t).end = w.end
      BY <1>1, <3>2, WalkFacts
    <3>4. CASE t = stop \/ ~IsRef(At(S, t))
      <4>1. At1(w, t) \in Walks(S, stop, keep)
        BY <3>1, <3>3, <3>4 DEF Walks, Ends
      <4> QED
        BY <1>3, <2>5, <3>4, <4>1 DEF WalkOn, t
    <3>5. CASE ~(t = stop \/ ~IsRef(At(S, t)))
      <4>1. On(w, t) \in Walks(S, stop, keep)
        BY <1>3, <2>5, <3>1, <3>3, <3>5 DEF Walks
      <4> QED
        BY <1>3, <2>5, <3>5, <4>1 DEF WalkOn, t
    <3> QED
      BY <3>4, <3>5
  <2> QED
    BY <2>3, <2>4, <2>5
<1> QED
  BY <1>2, <1>3

Steps == Cardinality(Names) * (MaxLevel + 1) + 1
Start(S, p) == [at |-> p, tagged |-> {}, end |-> ~IsRef(At(S, p))]

\* The steps that Resolve() takes.
Walk(f, S, p, stop, keep) ==
    /\ f[0] = Start(S, p)
    /\ \A i \in 1..Steps : f[i] = WalkOn(S, stop, keep, f[i - 1])
    /\ \A i \in 0..Steps : f[i] \in Walks(S, stop, keep)
    /\ Resolve(S, p, stop, keep) = IF f[Steps].end THEN f[Steps].at ELSE None

LEMMA ConstantsType ==
    /\ MaxLevel \in Nat /\ Refs \subseteq Names /\ Exports \subseteq Names
    /\ None \notin (Names \X Nat) \cup {""} /\ DOMAIN Values = Names
    /\ \A n \in Names : None \notin Values[n]
BY ParamsAssumption, Zenon

LEMMA MaxLevelType == MaxLevel \in Nat
BY ParamsAssumption, Zenon

LEMMA StepsType == Steps \in Nat
<1>1. Cardinality(Names) \in Nat
  BY ParamsAssumption, FS_CardinalityType
<1>2. MaxLevel + 1 \in Nat
  BY MaxLevelType
<1> DEFINE a == Cardinality(Names)
           b == MaxLevel + 1
<1>3. a \in Nat /\ b \in Nat /\ Steps = a * b + 1
  BY <1>1, <1>2 DEF Steps
<1> HIDE DEF a, b
<1>4. a * b \in Nat
  BY <1>3
<1> QED
  BY <1>3, <1>4

LEMMA StartIs ==
    ASSUME NEW S, NEW p, There(S, p), NEW stop, NEW keep
    PROVE  Start(S, p) \in Walks(S, stop, keep)
<1> DEFINE e == ~IsRef(At(S, p))
           w == [at |-> p, tagged |-> {}, end |-> e]
<1>1. p # None /\ p \in Places /\ {} \in SUBSET Places /\ e \in BOOLEAN
  BY ThereSome DEF Places
<1>2. (~e => IsRef(At(S, p))) /\ (e => ~IsRef(At(S, p)))
  OBVIOUS
<1> HIDE DEF e
<1>3. w \in [at : Places, tagged : SUBSET Places, end : BOOLEAN] /\ w.at = p /\ w.end = e
  BY <1>1
<1>4. Start(S, p) = w
  BY DEF Start, e
<1> HIDE DEF w
<1>5. w \in Walks(S, stop, keep)
  BY <1>1, <1>2, <1>3 DEF Walks, Ends
<1> QED
  BY <1>4, <1>5

LEMMA WalkExists ==
    ASSUME NEW l, NEW S, Sound(S, l), NEW p, There(S, p), NEW stop, NEW keep \in BOOLEAN
    PROVE  \E f : Walk(f, S, p, stop, keep)
<1> DEFINE n == Steps
           a == Start(S, p)
           V == Walks(S, stop, keep)
           step(w) == WalkOn(S, stop, keep, w)
           next == [q \in (1..n) \X V |-> step(q[2])]
           Sol(f) == f = [i \in 0..n |-> IF i = 0 THEN a ELSE step(f[i - 1])]
           F == CHOOSE f : Sol(f)
<1>1. n \in Nat
  BY StepsType
<1>0. Resolve(S, p, stop, keep) = IF F[n].end THEN F[n].at ELSE None
  BY Zenon DEF Resolve, Steps, WalkOn, At1, On, Start
<1>2. a \in V /\ \A w \in V : step(w) \in V
  BY StartIs, WalkOnIs
<1> HIDE DEF n, step, V, a
<1>3. next \in [(1..n) \X V -> V] /\ \A q \in (1..n) \X V : next[q] = step(q[2])
  BY <1>2
<1> HIDE DEF next
<1>5. \E f : Recursive(f, V, a, n, next)
  BY <1>1, <1>2, <1>3, Recursion
<1>6. PICK f : Recursive(f, V, a, n, next)
  BY <1>5
<1>7. f \in [0..n -> V] /\ f[0] = a /\ \A i \in 1..n : f[i] = next[<<i, f[i - 1]>>]
  BY <1>6 DEF Recursive
<1>8. \A i \in 1..n : f[i] = step(f[i - 1])
  <2>1. SUFFICES ASSUME NEW i \in 1..n PROVE f[i] = step(f[i - 1])
    OBVIOUS
  <2>2. f[i - 1] \in V
    BY <1>1, <1>7
  <2>3. next[<<i, f[i - 1]>>] = step(f[i - 1])
    BY <1>3, <2>2
  <2> QED
    BY <1>7, <2>3
<1>9. Sol(f)
  <2>1. \A i \in 0..n : f[i] = IF i = 0 THEN a ELSE step(f[i - 1])
    BY <1>1, <1>7, <1>8
  <2> QED
    BY <1>7, <2>1
<1>10. Sol(F)
  BY <1>9, Zenon
<1>11. F = [i \in 0..n |-> IF i = 0 THEN a ELSE step(F[i - 1])]
  BY <1>10
<1> HIDE DEF F, Sol
<1>12. F[0] = a /\ \A i \in 1..n : F[i] = step(F[i - 1])
  BY <1>1, <1>11
<1>13. F[0] \in V /\ \A i \in 1..n : F[i - 1] \in V => F[i] \in V
  BY <1>2, <1>12
<1>14. \A i \in 0..n : F[i] \in V
  BY <1>1, <1>13, Stays
<1>15. Walk(F, S, p, stop, keep)
  BY <1>0, <1>12, <1>14 DEF Walk, n, step, V, a
<1> QED
  BY <1>15

\* Where it leads.
LEMMA ResolveEnds ==
    ASSUME NEW l, NEW S, Sound(S, l), NEW p, There(S, p), NEW stop, NEW keep \in BOOLEAN
    PROVE  LET r == Resolve(S, p, stop, keep)
           IN  (r # None => There(S, r)) /\ Ends(S, stop, keep, r)
<1>1. PICK f : Walk(f, S, p, stop, keep)
  BY WalkExists
<1>2. Steps \in Nat /\ Steps \in 0..Steps
  BY StepsType
<1> DEFINE w == f[Steps]
           r == Resolve(S, p, stop, keep)
<1>3. w \in Walks(S, stop, keep) /\ r = IF w.end THEN w.at ELSE None
  BY <1>1, <1>2 DEF Walk
<1> HIDE DEF w, r
<1>4. (w.at # None => There(S, w.at)) /\ (w.end => Ends(S, stop, keep, w.at))
  BY <1>3 DEF Walks
<1>5. Ends(S, stop, keep, None)
  BY DEF Ends
<1>6. (r # None => There(S, r)) /\ Ends(S, stop, keep, r)
  BY <1>3, <1>4, <1>5
<1> QED
  BY <1>6 DEF r

\* A struct that is no reference stands for itself.
LEMMA ResolveSelf ==
    ASSUME NEW l, NEW S, Sound(S, l), NEW p, There(S, p), NEW stop, NEW keep \in BOOLEAN,
           ~IsRef(At(S, p))
    PROVE  Resolve(S, p, stop, keep) = p
<1>1. PICK f : Walk(f, S, p, stop, keep)
  BY WalkExists
<1>2. Steps \in Nat /\ Steps \in 0..Steps
  BY StepsType
<1> DEFINE V == {Start(S, p)}
<1>3. Start(S, p).end /\ Start(S, p).at = p
  BY DEF Start
<1>4. f[0] \in V /\ \A i \in 1..Steps : f[i - 1] \in V => f[i] \in V
  BY <1>1, <1>3 DEF Walk, WalkOn
<1> HIDE DEF V
<1>5. \A i \in 0..Steps : f[i] \in V
  BY <1>2, <1>4, Stays
<1>6. f[Steps] = Start(S, p)
  BY <1>2, <1>5 DEF V
<1> QED
  BY <1>1, <1>3, <1>6 DEF Walk

\* The same chain, with and without its last reference.
Alike(S, v, w) ==
    \/ /\ v = w
       /\ v.end /\ v.at # None => ~IsRef(At(S, v.at))
    \/ /\ v.end /\ v.at # None /\ IsRef(At(S, v.at))
       /\ w.end /\ w.at = None

LEMMA ResolveKeep ==
    ASSUME NEW l, NEW S, Sound(S, l), NEW p, There(S, p)
    PROVE  LET r == Resolve(S, p, None, TRUE)
           IN  Resolve(S, p, None, FALSE) = IF r # None /\ IsRef(At(S, r)) THEN None ELSE r
<1>0. TRUE \in BOOLEAN /\ FALSE \in BOOLEAN
  OBVIOUS
<1>1. PICK f : Walk(f, S, p, None, TRUE)
  BY <1>0, WalkExists, Zenon
<1>2. PICK g : Walk(g, S, p, None, FALSE)
  BY <1>0, WalkExists, Zenon
<1>3. Steps \in Nat /\ Steps \in 0..Steps
  BY StepsType
<1> DEFINE h == [i \in 0..Steps |-> <<f[i], g[i]>>]
           A == Walks(S, None, TRUE)
           B == Walks(S, None, FALSE)
           V == {q \in A \X B : Alike(S, q[1], q[2])}
<1>4. \A i \in 0..Steps : f[i] \in A /\ g[i] \in B
  BY <1>1, <1>2 DEF Walk
<1>5. Alike(S, f[0], g[0])
  <2>1. f[0] = Start(S, p) /\ g[0] = Start(S, p)
    BY <1>1, <1>2 DEF Walk
  <2>2. Start(S, p).end => ~IsRef(At(S, Start(S, p).at))
    BY DEF Start
  <2> QED
    BY <2>1, <2>2 DEF Alike
<1>6. ASSUME NEW i \in 1..Steps, Alike(S, f[i - 1], g[i - 1]) PROVE Alike(S, f[i], g[i])
  <2> DEFINE v == f[i - 1]
             w == g[i - 1]
             t == Referred(S, v.at)
  <2>1. f[i] = WalkOn(S, None, TRUE, v) /\ g[i] = WalkOn(S, None, FALSE, w)
    BY <1>1, <1>2 DEF Walk
  <2>2. i - 1 \in 0..Steps
    BY <1>3
  <2>3. v \in Walks(S, None, TRUE) /\ w \in Walks(S, None, FALSE)
    BY <1>4, <2>2
  <2> HIDE DEF v, w
  <2>4. CASE v.end
    <3>1. w.end
      BY <1>6, <2>4 DEF Alike, v, w
    <3>2. f[i] = v /\ g[i] = w
      BY <2>1, <2>4, <3>1 DEF WalkOn
    <3> QED
      BY <1>6, <3>2 DEF v, w
  <2>5. CASE ~v.end
    <3>1. w = v
      BY <1>6, <2>5 DEF Alike, v, w
    <3>2. /\ v \in [at : Places, tagged : SUBSET Places, end : BOOLEAN]
          /\ v.at # None /\ IsRef(At(S, v.at)) /\ v.at \in Places /\ None \in Places /\ There(S, v.at)
      BY <2>3, <2>5 DEF Walks, Places
    <3>3. t # None => There(S, t) /\ t \in Places
      BY <3>2, ReferredIs, ThereSome DEF Places
    <3> HIDE DEF t
    <3>4. /\ At1(v, None).end /\ At1(v, None).at = None
          /\ At1(v, v.at).end /\ At1(v, v.at).at = v.at
      BY <3>2, WalkFacts
    <3>5. CASE v.at \in v.tagged
      <4>1. f[i] = At1(v, None) /\ g[i] = At1(v, None)
        BY <2>1, <2>5, <3>1, <3>5 DEF WalkOn
      <4> QED
        BY <3>4, <4>1 DEF Alike
    <3>6. CASE v.at \notin v.tagged /\ t = None
      <4>1. f[i] = At1(v, v.at) /\ g[i] = At1(v, None)
        BY <2>1, <2>5, <3>1, <3>6 DEF WalkOn, t
      <4> QED
        BY <3>2, <3>4, <4>1 DEF Alike
    <3>7. CASE v.at \notin v.tagged /\ t # None /\ ~IsRef(At(S, t))
      <4>1. f[i] = At1(v, t) /\ g[i] = At1(v, t)
        BY <2>1, <2>5, <3>1, <3>7 DEF WalkOn, t
      <4>2. At1(v, t).at = t
        BY <3>2, <3>3, <3>7, WalkFacts
      <4> QED
        BY <3>7, <4>1, <4>2 DEF Alike
    <3>8. CASE v.at \notin v.tagged /\ t # None /\ IsRef(At(S, t))
      <4>1. f[i] = On(v, t) /\ g[i] = On(v, t)
        BY <2>1, <2>5, <3>1, <3>8 DEF WalkOn, t
      <4>2. On(v, t).end = v.end
        BY <3>2, <3>3, <3>8, WalkFacts
      <4> QED
        BY <2>5, <4>1, <4>2 DEF Alike
    <3> QED
      BY <3>5, <3>6, <3>7, <3>8
  <2> QED
    BY <2>4, <2>5
<1>7. \A i \in 0..Steps : h[i] = <<f[i], g[i]>>
  OBVIOUS
<1> HIDE DEF A, B
<1>8. h[0] \in V /\ \A i \in 1..Steps : h[i - 1] \in V => h[i] \in V
  <2>1. h[0] \in V
    <3>1. 0 \in 0..Steps
      BY <1>3
    <3>2. h[0] = <<f[0], g[0]>> /\ f[0] \in A /\ g[0] \in B
      BY <1>4, <1>7, <3>1
    <3> HIDE DEF h
    <3>3. h[0] \in A \X B
      BY <3>2
    <3>4. h[0][1] = f[0] /\ h[0][2] = g[0]
      BY <3>2
    <3> QED
      BY <1>5, <3>3, <3>4
  <2>2. ASSUME NEW i \in 1..Steps, h[i - 1] \in V PROVE h[i] \in V
    <3>1. i - 1 \in 0..Steps /\ i \in 0..Steps
      BY <1>3
    <3>2. Alike(S, f[i - 1], g[i - 1])
      BY <1>7, <2>2, <3>1
    <3> QED
      BY <1>4, <1>6, <1>7, <3>1, <3>2
  <2> QED
    BY <2>1, <2>2
<1> HIDE DEF h, V
<1>9. \A i \in 0..Steps : h[i] \in V
  BY <1>3, <1>8, Stays
<1>10. Alike(S, f[Steps], g[Steps])
  <2>1. <<f[Steps], g[Steps]>> \in V
    BY <1>3, <1>7, <1>9
  <2> QED
    BY <2>1 DEF V
<1>11. Resolve(S, p, None, TRUE) = IF f[Steps].end THEN f[Steps].at ELSE None
  BY <1>1 DEF Walk
<1>12. Resolve(S, p, None, FALSE) = IF g[Steps].end THEN g[Steps].at ELSE None
  BY <1>2 DEF Walk
<1> QED
  BY <1>10, <1>11, <1>12 DEF Alike

-----------------------------------------------------------------------------
(* The scope of a reference, and values.                                   *)

LEMMA WithBaseIs ==
    ASSUME NEW n, NEW c \in Cell, NEW b \in 0..MaxLevel
    PROVE  /\ WithBase(c, b) \in Cell /\ WithBase(c, b).level = c.level
           /\ CellOK(n, c) => CellOK(n, WithBase(c, b))
BY DEF Cell, CellOK, WithBase

LEMMA WithLevelIs ==
    ASSUME NEW n, NEW c \in Cell, NEW b \in 0..MaxLevel
    PROVE  /\ WithLevel(c, b) \in Cell /\ WithLevel(c, b).level = b
           /\ CellOK(n, c) => CellOK(n, WithLevel(c, b))
BY DEF Cell, CellOK, WithLevel

LEMMA setscope_baseIs ==
    ASSUME NEW l, NEW S, Sound(S, l), NEW p, There(S, p), NEW base \in 0..MaxLevel
    PROVE  Step(S, setscope_base(S, p, base), l)
<1> DEFINE n == p[1]
           s == At(S, p)
           e == [n |-> n, level |-> s.level]
           c == WithBase(s, base)
           T == Put(S, p, c)
           f == [T.refs EXCEPT ![base] = <<e>> \o Without(@, {e})]
           U == [T EXCEPT !.refs = f]
<1>1. /\ S \in State /\ p = <<n, p[2]>> /\ n \in Names /\ p[2] \in Nat \ {0}
      /\ p[2] \in 1..Len(S.tab[n]) /\ s = S.tab[n][p[2]] /\ s \in Cell
  BY ThereIs DEF Sound
<1>2. CellOK(n, s)
  BY <1>1 DEF Sound, Chain
<1>3. setscope_base(S, p, base) = IF base > s.level THEN U ELSE T
  <2>1. [T EXCEPT !.refs[base] = <<e>> \o Without(@, {e})] = U
    OBVIOUS
  <2> QED
    BY <2>1 DEF setscope_base, WithBase
<1>4. e \in Entry
  BY <1>1 DEF Entry, Cell
<1> HIDE DEF s, n, e
<1>5. c \in Cell /\ CellOK(n, c) /\ c.level = s.level
  BY <1>1, <1>2, WithBaseIs
<1> HIDE DEF c
<1>6. Step(S, T, l)
  <2>1. Step(S, Put(S, <<n, p[2]>>, c), l)
    BY <1>1, <1>5, PutSound
  <2> QED
    BY <1>1, <2>1
<1> HIDE DEF T
<1>7. Sound(T, l) /\ T \in State /\ T.refs \in [1..MaxLevel -> Seq(Entry)]
      /\ T.environ \in [Names -> Str \cup {None}] /\ T.dead \in SUBSET (1..MaxLevel) /\ T.err \in BOOLEAN
  BY <1>6 DEF Step, Sound, State
<1>8. CASE base > s.level
  <2>1. base \in 1..MaxLevel
    <3>1. s.level \in 0..MaxLevel
      BY <1>1, CellIs
    <3> QED
      BY <1>8, <3>1, MaxLevelType
  <2>2. T.refs[base] \in Seq(Entry)
    BY <1>7, <2>1
  <2>3. Without(T.refs[base], {e}) \in Seq(Entry)
    BY <2>2, WithoutIs
  <2> DEFINE x == <<e>> \o Without(T.refs[base], {e})
  <2>8. x \in Seq(Entry)
    BY <1>4, <2>3
  <2>9. f = [T.refs EXCEPT ![base] = x]
    OBVIOUS
  <2> HIDE DEF x
  <2>10. [T.refs EXCEPT ![base] = x] \in [1..MaxLevel -> Seq(Entry)]
    BY <1>7, <2>8
  <2>4. f \in [1..MaxLevel -> Seq(Entry)]
    BY <2>9, <2>10
  <2> HIDE DEF f
  <2>5. U = Made(T.tab, T.environ, f, T.dead, T.lv, T.err)
    BY <1>7, Changed
  <2> DEFINE W == Made(T.tab, T.environ, f, T.dead, T.lv, T.err)
  <2>6. Step(T, W, l)
    BY <1>7, <2>4, OtherSound, Zenon
  <2> HIDE DEF U, W
  <2>7. Step(S, W, l)
    BY <1>6, <2>6 DEF Step
  <2> QED
    BY <1>3, <1>8, <2>5, <2>7 DEF W
<1>9. CASE ~(base > s.level)
  BY <1>3, <1>6, <1>9
<1> QED
  BY <1>8, <1>9

LEMMA setscopeIs ==
    ASSUME NEW l, NEW S, Sound(S, l), NEW p, There(S, p)
    PROVE  /\ Step(S, setscope(S, p), l)
           /\ ~At(S, p).ref => setscope(S, p) = S
<1> DEFINE s == At(S, p)
           m == s.str
           b == IF m = "" \/ S.tab[m] = <<>> THEN None
                ELSE IF p = <<m, 1>> /\ Len(S.tab[m]) > 1 THEN <<m, 2>>
                ELSE <<m, 1>>
           T == IF b = None THEN S ELSE setscope_base(S, p, At(S, b).level)
           U == unsetparam_pm(zerr(T), p)
<1>1. /\ S \in State /\ p = <<p[1], p[2]>> /\ p[1] \in Names /\ p[2] \in Nat \ {0}
      /\ p[2] \in 1..Len(S.tab[p[1]]) /\ s = S.tab[p[1]][p[2]] /\ s \in Cell
  BY ThereIs DEF Sound
<1>2. Step(S, S, l)
  BY DEF Step
<1>3. CASE ~s.ref
  <2>1. setscope(S, p) = S
    BY <1>3 DEF setscope
  <2> QED
    BY <1>2, <2>1
<1>4. CASE s.ref
  <2>1. CellOK(p[1], s)
    BY <1>1 DEF Sound, Chain
  <2>2. m \in Names \cup {""}
    BY <1>4, <2>1 DEF CellOK
  <2>3. setscope(S, p) \in {T, U}
    BY <1>4 DEF setscope
  <2>4. ASSUME b # None PROVE At(S, b).level \in 0..MaxLevel
    <3>1. m \in Names /\ S.tab[m] # <<>>
      BY <2>2, <2>4
    <3> HIDE DEF m
    <3>2. S.tab[m] \in Seq(Cell) /\ Len(S.tab[m]) \in Nat
      BY <1>1, <3>1, StateFacts
    <3>3. 1 \in 1..Len(S.tab[m])
      BY <3>1, <3>2
    <3>7. ASSUME p = <<m, 1>> /\ Len(S.tab[m]) > 1
          PROVE  \E i \in 1..Len(S.tab[m]) : b = <<m, i>>
      <4>1. b = <<m, 2>> /\ 2 \in 1..Len(S.tab[m])
        <5>1. m # "" /\ S.tab[m] # <<>>
          BY <2>4
        <5>2. b = <<m, 2>>
          BY <3>7, <5>1
        <5> HIDE DEF b
        <5> QED
          BY <3>2, <3>7, <5>2
      <4> QED
        BY <4>1
    <3>8. ASSUME ~(p = <<m, 1>> /\ Len(S.tab[m]) > 1)
          PROVE  \E i \in 1..Len(S.tab[m]) : b = <<m, i>>
      <4>1. b = <<m, 1>>
        BY <2>4, <3>8
      <4> QED
        BY <3>3, <4>1
    <3>4. PICK i \in 1..Len(S.tab[m]) : b = <<m, i>>
      BY <3>7, <3>8
    <3> HIDE DEF b
    <3>5. At(S, b) = S.tab[m][i]
      BY <3>4 DEF At
    <3>6. S.tab[m][i] \in Cell
      BY <3>2, <3>4
    <3> QED
      BY <3>5, <3>6, CellIs
  <2> HIDE DEF b
  <2>5. Step(S, T, l)
    BY <1>2, <2>4, setscope_baseIs
  <2> HIDE DEF T
  <2>6. Step(T, zerr(T), l)
    BY <2>5, zerrSound DEF Step
  <2> DEFINE Z == zerr(T)
  <2>7. Sound(Z, l) /\ Z.lv = S.lv
    BY <2>5, <2>6 DEF Step
  <2> HIDE DEF Z
  <2>8. Step(Z, unsetparam_pm(Z, <<p[1], p[2]>>), l)
    BY <1>1, <2>7, unsetparam_pmIs
  <2>9. Step(S, unsetparam_pm(Z, <<p[1], p[2]>>), l)
    BY <2>7, <2>8 DEF Step
  <2>10. U = unsetparam_pm(Z, <<p[1], p[2]>>)
    BY <1>1 DEF Z
  <2> QED
    BY <1>4, <2>3, <2>5, <2>9, <2>10
<1> QED
  BY <1>3, <1>4

LEMMA fetchIs ==
    ASSUME NEW l, NEW S, Sound(S, l), NEW n \in Names, fetchvalue(S, n) # None
    PROVE  There(S, fetchvalue(S, n))
<1>1. S \in State
  BY DEF Sound
<1>2. Len(S.tab[n]) \in Nat /\ S.tab[n] \in Seq(Cell)
  BY <1>1, StateFacts
<1>3. fetchvalue(S, n) = getnode(S, n) /\ getnode(S, n) # None
  BY DEF fetchvalue, IfThere
<1>4. S.tab[n] # <<>>
  BY <1>3 DEF getnode
<1>5. Len(S.tab[n]) >= 1
  BY <1>2, <1>4
<1> DEFINE p == <<n, 1>>
           no == FALSE
<1>6. There(S, p)
  BY <1>5 DEF There
<1>7. getnode(S, n) \in {p, Resolve(S, p, None, no)}
  BY <1>4 DEF getnode
<1>8. no \in BOOLEAN
  OBVIOUS
<1> HIDE DEF p, no
<1>9. Resolve(S, p, None, no) # None => There(S, Resolve(S, p, None, no))
  BY <1>6, <1>8, ResolveEnds
<1> QED
  BY <1>3, <1>6, <1>7, <1>9

\* A struct is given a value.
Valued(s, v) == WithSet(WithStr(s, v), TRUE)

LEMMA ValuedFields ==
    ASSUME NEW c \in Cell, NEW v \in Str, NEW y \in BOOLEAN
    PROVE  LET s == WithSet(WithStr(c, v), y)
           IN  /\ s \in Cell /\ s.level = c.level /\ s.str = v /\ s.set = y
               /\ s.ref = c.ref /\ s.env = c.env /\ s.exported = c.exported
<1> DEFINE a == WithStr(c, v)
           s == WithSet(a, y)
<1>1. a = Struct8(c.level, v, c.set, c.declared, c.ref, c.exported, c.env, c.base)
  BY CellChanged
<1> HIDE DEF a
<1>2. s = Struct8(c.level, v, y, c.declared, c.ref, c.exported, c.env, c.base)
  BY <1>1, Struct8Changed
<1> HIDE DEF s
<1>3. s \in Cell
  <2>1. /\ c.level \in 0..MaxLevel /\ c.str \in Str /\ c.set \in BOOLEAN /\ c.declared \in BOOLEAN
        /\ c.ref \in BOOLEAN /\ c.exported \in BOOLEAN /\ c.env \in BOOLEAN /\ c.base \in 0..MaxLevel
    BY CellIs
  <2>2. Struct8(c.level, v, y, c.declared, c.ref, c.exported, c.env, c.base) \in Cell
    <3>1. Typed8(c.level, v, y, c.declared, c.ref, c.exported, c.env, c.base)
      BY <2>1 DEF Typed8
    <3> QED
      BY <3>1, Struct8Typed
  <2> QED
    BY <1>2, <2>2
<1>4. /\ s.level = c.level /\ s.str = v /\ s.set = y /\ s.ref = c.ref /\ s.env = c.env
      /\ s.exported = c.exported
  BY <1>2, Struct8Has
<1> QED
  BY <1>3, <1>4 DEF s, a

LEMMA ValuedIs ==
    ASSUME NEW n, NEW c \in Cell, CellOK(n, c), NEW v \in Str, c.ref => v \in Names \cup {""}
    PROVE  LET s == Valued(c, v)
           IN  /\ s \in Cell /\ CellOK(n, s) /\ s.level = c.level
               /\ s.str = v /\ s.set /\ s.ref = c.ref /\ s.env = c.env /\ s.exported = c.exported
<1> DEFINE yes == TRUE
           s == WithSet(WithStr(c, v), yes)
<1>1. Valued(c, v) = s
  BY DEF Valued
<1>2. yes \in BOOLEAN /\ yes
  OBVIOUS
<1> HIDE DEF yes
<1>3. /\ s \in Cell /\ s.level = c.level /\ s.str = v /\ s.set = yes
      /\ s.ref = c.ref /\ s.env = c.env /\ s.exported = c.exported
  BY <1>2, ValuedFields
<1> HIDE DEF s
<1>4. CellOK(n, s)
  BY <1>2, <1>3 DEF CellOK
<1> QED
  BY <1>1, <1>2, <1>3, <1>4

LEMMA assignstrvalueIs ==
    ASSUME NEW l, NEW S, Sound(S, l), NEW p, There(S, p), NEW v \in Str,
           At(S, p).ref => v \in Names \cup {""}, NEW allexport \in BOOLEAN
    PROVE  Step(S, assignstrvalue(S, p, v, allexport), l)
<1> DEFINE n == p[1]
           s == Valued(At(S, p), v)
           T == Put(S, p, s)
<1>1. /\ S \in State /\ p = <<n, p[2]>> /\ n \in Names /\ p[2] \in Nat \ {0}
      /\ p[2] \in 1..Len(S.tab[n]) /\ At(S, p) = S.tab[n][p[2]] /\ At(S, p) \in Cell
  BY ThereIs DEF Sound
<1>2. CellOK(n, At(S, p))
  BY <1>1 DEF Sound, Chain
<1>3. assignstrvalue(S, p, v, allexport)
        = IF s.ref THEN setscope(T, p)
          ELSE IF s.env \/ s.exported \/ allexport THEN addenv(T, p, v) ELSE T
  BY DEF assignstrvalue, Valued, WithSet, WithStr
<1>4. s \in Cell /\ CellOK(n, s) /\ s.level = At(S, p).level
  <2> DEFINE c == At(S, p)
  <2>1. c \in Cell /\ CellOK(n, c)
    BY <1>1, <1>2
  <2>2. c.ref => v \in Names \cup {""}
    OBVIOUS
  <2> HIDE DEF c, n
  <2>3. Valued(c, v) \in Cell /\ CellOK(n, Valued(c, v)) /\ Valued(c, v).level = c.level
    BY <2>1, <2>2, ValuedIs
  <2> QED
    BY <2>3 DEF c
<1> HIDE DEF s, n
<1>5. Step(S, Put(S, <<n, p[2]>>, s), l)
  BY <1>1, <1>4, PutSound
<1>6. Len(Put(S, <<n, p[2]>>, s).tab[n]) = Len(S.tab[n])
  BY <1>1, <1>4, PutAt, Zenon
<1>7. T = Put(S, <<n, p[2]>>, s)
  BY <1>1
<1> HIDE DEF T
<1>8. Step(S, T, l) /\ Len(T.tab[n]) = Len(S.tab[n])
  BY <1>5, <1>6, <1>7
<1>9. Sound(T, l) /\ There(T, p)
  BY <1>1, <1>8 DEF Step, There, n
<1>10. Step(T, setscope(T, p), l) /\ Step(T, addenv(T, p, v), l)
  BY <1>9, setscopeIs, addenvIs
<1>11. Step(S, setscope(T, p), l) /\ Step(S, addenv(T, p, v), l)
  BY <1>8, <1>10 DEF Step
<1> QED
  BY <1>3, <1>8, <1>11

LEMMA AssignAtIs ==
    ASSUME NEW l, NEW S, Sound(S, l), NEW p, p # None => There(S, p), NEW v \in Str,
           NEW allexport \in BOOLEAN
    PROVE  /\ Step(S, AssignAt(S, p, v, allexport).S, l)
           /\ AssignAt(S, p, v, allexport).p \in {None, p}
<1>1. Step(S, S, l) /\ Step(S, zerr(S), l)
  BY zerrSound DEF Step
<1>2. CASE p = None
  <2>1. AssignAt(S, p, v, allexport).S = S /\ AssignAt(S, p, v, allexport).p = None
    BY <1>2 DEF AssignAt, Result
  <2> QED
    BY <1>1, <2>1
<1>3. CASE p # None /\ At(S, p).ref /\ v # "" /\ v \notin Names
  <2>1. AssignAt(S, p, v, allexport).S = zerr(S) /\ AssignAt(S, p, v, allexport).p = None
    BY <1>3 DEF AssignAt, Result
  <2> QED
    BY <1>1, <2>1
<1>4. CASE p # None /\ ~(At(S, p).ref /\ v # "" /\ v \notin Names)
  <2>1. /\ AssignAt(S, p, v, allexport).S = assignstrvalue(S, p, v, allexport)
        /\ AssignAt(S, p, v, allexport).p = p
    BY <1>4 DEF AssignAt, Result
  <2>2. Step(S, assignstrvalue(S, p, v, allexport), l)
    BY <1>4, assignstrvalueIs
  <2> QED
    BY <2>1, <2>2
<1> QED
  BY <1>2, <1>3, <1>4

LEMMA AssignFoundIs ==
    ASSUME NEW l, NEW S, Sound(S, l), NEW n \in Names, NEW v \in Str, NEW allexport \in BOOLEAN
    PROVE  /\ Step(S, AssignFound(S, n, v, allexport).S, l)
           /\ AssignFound(S, n, v, allexport).p \in {None, fetchvalue(S, n)}
<1>1. fetchvalue(S, n) # None => There(S, fetchvalue(S, n))
  BY fetchIs
<1> DEFINE p == fetchvalue(S, n)
<1> HIDE DEF p
<1>2. p # None => There(S, p)
  BY <1>1 DEF p
<1>3. Step(S, AssignAt(S, p, v, allexport).S, l) /\ AssignAt(S, p, v, allexport).p \in {None, p}
  BY <1>2, AssignAtIs
<1> QED
  BY <1>3 DEF AssignFound, p

-----------------------------------------------------------------------------
(* New structs.                                                            *)

Opts == [local : BOOLEAN, ref : BOOLEAN, exported : BOOLEAN]

Fits(n, on) == on \in Opts /\ (on.ref => n \in Refs)

New(on) == [Fresh EXCEPT !.ref = on.ref, !.exported = on.exported]

LEMMA NewFields ==
    ASSUME NEW z \in 0..MaxLevel, NEW nil \in Str, NEW y \in BOOLEAN, NEW no \in BOOLEAN,
           NEW r \in BOOLEAN, NEW x \in BOOLEAN
    PROVE  LET s == WithExported(WithRef(Struct8(z, nil, y, no, no, no, no, z), r), x)
           IN  /\ s \in Cell /\ s.level = z /\ s.str = nil /\ s.set = y /\ s.declared = no
               /\ s.ref = r /\ s.exported = x /\ s.env = no /\ s.base = z
<1> DEFINE a == WithRef(Struct8(z, nil, y, no, no, no, no, z), r)
           s == WithExported(a, x)
<1>1. a = Struct8(z, nil, y, no, r, no, no, z)
  BY Struct8Changed
<1> HIDE DEF a
<1>2. s = Struct8(z, nil, y, no, r, x, no, z)
  BY <1>1, Struct8Changed
<1> HIDE DEF s
<1>3. s \in Cell
  BY <1>2, Struct8In, Zenon
<1>4. /\ s.level = z /\ s.str = nil /\ s.set = y /\ s.declared = no
      /\ s.ref = r /\ s.exported = x /\ s.env = no /\ s.base = z
  BY <1>2, Struct8Has
<1> QED
  BY <1>3, <1>4 DEF s, a

LEMMA NewIs ==
    ASSUME NEW n \in Names, NEW on, Fits(n, on)
    PROVE  LET s == New(on)
           IN  /\ s \in Cell /\ CellOK(n, s) /\ s.level = 0 /\ s.str = "" /\ s.set
               /\ s.ref = on.ref /\ s.exported = on.exported /\ ~s.env
<1> DEFINE yes == TRUE
           no == FALSE
           nil == ""
           z == 0
           r == on.ref
           x == on.exported
           s == WithExported(WithRef(Struct8(z, nil, yes, no, no, no, no, z), r), x)
<1>1. New(on) = s
  BY DEF New, Fresh, WithExported, WithRef, Struct8
<1>2. yes \in BOOLEAN /\ no \in BOOLEAN /\ nil \in Str /\ z \in 0..MaxLevel
  BY MaxLevelType DEF Str
<1>7. yes /\ ~no /\ z = 0
  OBVIOUS
<1>3. r \in BOOLEAN /\ x \in BOOLEAN
  BY DEF Opts, Fits
<1> HIDE DEF z, yes, no, nil, r, x
<1>4. /\ s \in Cell /\ s.level = z /\ s.str = nil /\ s.set = yes /\ s.declared = no
      /\ s.ref = r /\ s.exported = x /\ s.env = no /\ s.base = z
  BY <1>2, <1>3, NewFields
<1> HIDE DEF s
<1>5. s.str = ""
  BY <1>4 DEF nil
<1>6. CellOK(n, s)
  BY <1>4, <1>5, <1>7 DEF CellOK, Fits, r
<1> QED
  BY <1>1, <1>4, <1>5, <1>6, <1>7 DEF r, x

\* Hidden(): T is S with a new struct of n, which hides q.
Hides(S, T, n, q, on) ==
    LET t == S.tab[n] IN
    /\ T \in State /\ T.lv = S.lv
    /\ \A m \in Names \ {n} : T.tab[m] = S.tab[m]
    /\ Len(T.tab[n]) = IF q = None THEN 1 ELSE (Len(t) - q[2]) + 2
    /\ T.tab[n][1] = New(on)
    /\ \A k \in 2..Len(T.tab[n]) :
          T.tab[n][k] = IF k = 2 THEN Out(t[q[2]]) ELSE t[(q[2] + k) - 2]
    /\ T.environ = IF q # None /\ t[q[2]].env THEN [S.environ EXCEPT ![n] = None] ELSE S.environ

Above(S, n, q) == q # None => There(S, q) /\ q[1] = n

LEMMA HiddenIs ==
    ASSUME NEW l, NEW S, Sound(S, l), NEW n \in Names, NEW on, Fits(n, on), NEW q, Above(S, n, q)
    PROVE  Hides(S, Hidden(S, n, q, on), n, q, on)
<1>0. q # None => There(S, q) /\ q[1] = n
  BY DEF Above
<1> DEFINE t == S.tab[n]
           D == IF q = None THEN S ELSE delenv(S, q)
           i == q[2]
           old == IF q = None THEN <<>> ELSE SubSeq(D.tab[n], q[2], Len(D.tab[n]))
           lost == {D.tab[n][j].level : j \in 1..Len(D.tab[n]) - Len(old)}
           new == <<New(on)>> \o old
           u == [D.tab EXCEPT ![n] = new]
           r == Forget(S, n, lost)
           T == Made(u, D.environ, r, D.dead, D.lv, D.err)
<1>1. S \in State /\ t \in Seq(Cell) /\ Len(t) \in Nat
  BY StateFacts DEF Sound
<1>2. Hidden(S, n, q, on) = [D EXCEPT !.tab[n] = new, !.refs = r]
  BY DEF Hidden, New
<1>3. New(on) \in Cell
  BY NewIs
<1>4. /\ Sound(D, l) /\ D.lv = S.lv
      /\ D.environ = IF q # None /\ t[i].env THEN [S.environ EXCEPT ![n] = None] ELSE S.environ
      /\ \A m \in Names \ {n} : D.tab[m] = S.tab[m]
      /\ Len(D.tab[n]) = Len(t)
      /\ \A k \in 1..Len(t) :
            D.tab[n][k] = IF q # None /\ k = i THEN Out(t[k]) ELSE t[k]
  <2>1. CASE q = None
    BY <1>1, <2>1
  <2>2. CASE q # None
    <3>1. q = <<n, i>>
      BY <1>0, <2>2 DEF There
    <3>2. D = delenv(S, <<n, i>>)
      BY <2>2, <3>1
    <3> HIDE DEF i, D, t
    <3> DEFINE E == delenv(S, <<n, i>>)
    <3>3. /\ Step(S, E, l)
          /\ E.environ = IF S.tab[n][i].env THEN [S.environ EXCEPT ![n] = None] ELSE S.environ
          /\ \A m \in Names \ {n} : E.tab[m] = S.tab[m]
          /\ Len(E.tab[n]) = Len(S.tab[n])
          /\ \A k \in 1..Len(S.tab[n]) :
                E.tab[n][k] = IF k = i THEN Out(S.tab[n][k]) ELSE S.tab[n][k]
      BY delenvIs
    <3>4. D = E
      BY <3>2
    <3> HIDE DEF E
    <3> QED
      BY <2>2, <3>3, <3>4 DEF Step, t
  <2> QED
    BY <2>1, <2>2
<1>5. q # None => i \in 1..Len(t) /\ i \in Nat \ {0}
  BY <1>0, <1>1 DEF There
<1> HIDE DEF D, t, i
<1>6. /\ D \in State /\ D.tab \in [Names -> Seq(Cell)] /\ D.tab[n] \in Seq(Cell)
      /\ D.environ \in [Names -> Str \cup {None}]
      /\ D.refs \in [1..MaxLevel -> Seq(Entry)] /\ D.dead \in SUBSET (1..MaxLevel)
      /\ D.lv \in 0..MaxLevel /\ D.err \in BOOLEAN
  BY <1>4, StateFacts DEF Sound
<1>7. /\ old \in Seq(Cell)
      /\ Len(old) = IF q = None THEN 0 ELSE (Len(t) - i) + 1
      /\ \A k \in 1..Len(old) : q # None /\ old[k] = D.tab[n][(i + k) - 1]
  <2>1. CASE q = None
    BY <2>1
  <2>2. CASE q # None
    <3>1. old = SubSeq(D.tab[n], i, Len(D.tab[n]))
      BY <2>2 DEF i
    <3> HIDE DEF old
    <3> QED
      BY <1>1, <1>4, <1>5, <1>6, <2>2, <3>1
  <2> QED
    BY <2>1, <2>2
<1> HIDE DEF old
<1>8. /\ new \in Seq(Cell) /\ Len(new) = Len(old) + 1 /\ new[1] = New(on)
      /\ \A k \in 2..Len(new) : new[k] = old[k - 1]
  BY <1>3, <1>7
<1> HIDE DEF new
<1>9. u \in [Names -> Seq(Cell)] /\ u[n] = new /\ \A m \in Names \ {n} : u[m] = S.tab[m]
  BY <1>4, <1>6, <1>8
<1>10. [D EXCEPT !.tab[n] = new, !.refs = r] = [D EXCEPT !.tab = u, !.refs = r]
  BY <1>6 DEF State
<1> HIDE DEF u, lost
<1>11. r \in [1..MaxLevel -> Seq(Entry)]
  BY <1>1, ForgetIs
<1> HIDE DEF r
<1>12. [D EXCEPT !.tab = u, !.refs = r] = T
  BY <1>6, ChangedRefs, Zenon
<1>13. T \in State
  BY <1>6, <1>9, <1>11, MadeIs
<1>14. T.tab = u /\ T.environ = D.environ /\ T.lv = D.lv
  BY MadeHas
<1> HIDE DEF T
<1>15. Hidden(S, n, q, on) = T
  BY <1>2, <1>10, <1>12
<1>16. \A k \in 2..Len(new) : new[k] = IF k = 2 THEN Out(t[i]) ELSE t[(i + k) - 2]
  <2>1. SUFFICES ASSUME NEW k \in 2..Len(new)
                 PROVE  new[k] = IF k = 2 THEN Out(t[i]) ELSE t[(i + k) - 2]
    OBVIOUS
  <2>2. k - 1 \in 1..Len(old) /\ q # None
    BY <1>7, <1>8
  <2>3. new[k] = D.tab[n][(i + (k - 1)) - 1]
    BY <1>7, <1>8, <2>2
  <2>4. (i + (k - 1)) - 1 = (i + k) - 2 /\ (i + k) - 2 \in 1..Len(t) /\ (k = 2 <=> (i + k) - 2 = i)
    <3>1. Len(old) = (Len(t) - i) + 1 /\ i \in Nat /\ i >= 1 /\ i <= Len(t) /\ Len(t) \in Nat
      BY <1>1, <1>5, <1>7, <2>2
    <3>2. k \in Int /\ k >= 2 /\ k - 1 <= Len(old)
      BY <1>8, <2>2, <3>1
    <3> DEFINE a == Len(t)
               b == Len(old)
    <3>3. a \in Nat /\ b = (a - i) + 1 /\ i \in Nat /\ i >= 1 /\ i <= a /\ k - 1 <= b
      BY <3>1, <3>2
    <3> HIDE DEF a, b
    <3> QED
      BY <3>2, <3>3 DEF a
  <2>5. new[k] = D.tab[n][(i + k) - 2]
    BY <2>3, <2>4
  <2> QED
    BY <1>4, <2>2, <2>4, <2>5
<1>17. Len(new) = IF q = None THEN 1 ELSE (Len(t) - i) + 2
  BY <1>1, <1>5, <1>7, <1>8
<1> QED
  BY <1>4, <1>8, <1>9, <1>13, <1>14, <1>15, <1>16, <1>17 DEF t, i, Hides

\* Reused(): the contents of a struct that is used again.
Again(s, on) == [s EXCEPT !.set = TRUE, !.declared = FALSE, !.base = 0,
                          !.ref = on.ref, !.exported = on.exported]

LEMMA AgainFields ==
    ASSUME NEW c \in Cell, NEW y \in BOOLEAN, NEW no \in BOOLEAN, NEW z \in 0..MaxLevel,
           NEW r \in BOOLEAN, NEW x \in BOOLEAN
    PROVE  LET s == WithExported(WithRef(WithBase(WithDeclared(WithSet(c, y), no), z), r), x)
           IN  /\ s \in Cell /\ s.level = c.level /\ s.str = c.str /\ s.set = y
               /\ s.declared = no /\ s.ref = r /\ s.exported = x /\ s.env = c.env
<1> DEFINE a1 == WithSet(c, y)
           a2 == WithDeclared(a1, no)
           a3 == WithBase(a2, z)
           a4 == WithRef(a3, r)
           s == WithExported(a4, x)
<1>1. a1 = Struct8(c.level, c.str, y, c.declared, c.ref, c.exported, c.env, c.base)
  BY CellChanged
<1> HIDE DEF a1
<1>2. a2 = Struct8(c.level, c.str, y, no, c.ref, c.exported, c.env, c.base)
  BY <1>1, Struct8Changed
<1> HIDE DEF a2
<1>3. a3 = Struct8(c.level, c.str, y, no, c.ref, c.exported, c.env, z)
  BY <1>2, Struct8Changed
<1> HIDE DEF a3
<1>4. a4 = Struct8(c.level, c.str, y, no, r, c.exported, c.env, z)
  BY <1>3, Struct8Changed
<1> HIDE DEF a4
<1>5. s = Struct8(c.level, c.str, y, no, r, x, c.env, z)
  BY <1>4, Struct8Changed
<1> HIDE DEF s
<1>6. s \in Cell
  <2>1. /\ c.level \in 0..MaxLevel /\ c.str \in Str /\ c.set \in BOOLEAN /\ c.declared \in BOOLEAN
        /\ c.ref \in BOOLEAN /\ c.exported \in BOOLEAN /\ c.env \in BOOLEAN /\ c.base \in 0..MaxLevel
    BY CellIs
  <2>2. Struct8(c.level, c.str, y, no, r, x, c.env, z) \in Cell
    <3>1. Typed8(c.level, c.str, y, no, r, x, c.env, z)
      BY <2>1 DEF Typed8
    <3> QED
      BY <3>1, Struct8Typed
  <2> QED
    BY <1>5, <2>2
<1>7. /\ s.level = c.level /\ s.str = c.str /\ s.set = y
      /\ s.declared = no /\ s.ref = r /\ s.exported = x /\ s.env = c.env
  BY <1>5, Struct8Has
<1> QED
  BY <1>6, <1>7 DEF s, a4, a3, a2, a1

Blank(s) == s.str = ""

LEMMA AgainIs ==
    ASSUME NEW n, NEW c \in Cell, Blank(c), NEW on, Fits(n, on)
    PROVE  /\ Again(c, on) \in Cell /\ CellOK(n, Again(c, on))
           /\ Again(c, on).level = c.level /\ Blank(Again(c, on))
           /\ Again(c, on).exported = on.exported /\ Again(c, on).env = c.env
<1> DEFINE yes == TRUE
           no == FALSE
           z == 0
           r == on.ref
           x == on.exported
           s == WithExported(WithRef(WithBase(WithDeclared(WithSet(c, yes), no), z), r), x)
<1>1. Again(c, on) = s
  BY DEF Again, WithExported, WithRef, WithBase, WithDeclared, WithSet
<1>2. yes \in BOOLEAN /\ no \in BOOLEAN /\ z \in 0..MaxLevel
  BY MaxLevelType
<1>3. r \in BOOLEAN /\ x \in BOOLEAN
  BY DEF Opts, Fits
<1>4. yes
  OBVIOUS
<1> HIDE DEF yes, no, z, r, x
<1>5. /\ s \in Cell /\ s.level = c.level /\ s.str = c.str /\ s.set = yes
      /\ s.declared = no /\ s.ref = r /\ s.exported = x /\ s.env = c.env
  BY <1>2, <1>3, AgainFields
<1> HIDE DEF s
<1>6. Blank(s)
  BY <1>5 DEF Blank
<1>7. CellOK(n, s)
  BY <1>4, <1>5, <1>6 DEF CellOK, Fits, Blank, r
<1> QED
  BY <1>1, <1>5, <1>6, <1>7 DEF x

\* A struct on top is given the level of the scope.
LEMMA LevelPut ==
    ASSUME NEW T \in State, NEW n \in Names, NEW v \in 0..MaxLevel,
           \A m \in Names \ {n} : Chain(m, T.tab[m], v),
           Len(T.tab[n]) >= 1,
           \A k \in 1..Len(T.tab[n]) : T.tab[n][k] \in Cell /\ CellOK(n, T.tab[n][k]),
           \A k \in 2..Len(T.tab[n]) : /\ T.tab[n][k].level < v
                                       /\ k > 2 => T.tab[n][k].level < T.tab[n][k - 1].level
    PROVE  LET U == Put(T, <<n, 1>>, [At(T, <<n, 1>>) EXCEPT !.level = v])
           IN  Sound(U, v) /\ U.lv = T.lv
<1> DEFINE c == WithLevel(T.tab[n][1], v)
           U == Put(T, <<n, 1>>, c)
<1>1. [At(T, <<n, 1>>) EXCEPT !.level = v] = c
  BY DEF At, WithLevel
<1>2. Len(T.tab[n]) \in Nat
  BY StateFacts
<1>3. 1 \in 1..Len(T.tab[n])
  BY <1>2
<1>4. c \in Cell /\ CellOK(n, c) /\ c.level = v
  BY <1>3, WithLevelIs
<1> HIDE DEF c
<1>5. /\ U \in State /\ U.lv = T.lv
      /\ \A m \in Names \ {n} : U.tab[m] = T.tab[m]
      /\ Len(U.tab[n]) = Len(T.tab[n])
      /\ \A k \in 1..Len(T.tab[n]) : U.tab[n][k] = IF k = 1 THEN c ELSE T.tab[n][k]
  BY <1>4, PutIs
<1> HIDE DEF U
<1>6. ASSUME NEW k \in 1..Len(U.tab[n])
      PROVE  /\ U.tab[n][k] \in Cell /\ CellOK(n, U.tab[n][k]) /\ U.tab[n][k].level <= v
             /\ k > 1 => U.tab[n][k].level < U.tab[n][k - 1].level
  <2>1. CASE k = 1
    BY <1>4, <1>5, <2>1
  <2>2. CASE k # 1
    <3>1. k \in 2..Len(T.tab[n]) /\ k \in 1..Len(T.tab[n]) /\ k - 1 \in 1..Len(T.tab[n])
      BY <1>2, <1>5, <2>2
    <3>2. U.tab[n][k] = T.tab[n][k] /\ U.tab[n][k - 1] = IF k = 2 THEN c ELSE T.tab[n][k - 1]
      BY <1>5, <2>2, <3>1
    <3>3. T.tab[n][k].level < v /\ T.tab[n][k].level \in 0..MaxLevel
      BY <3>1, CellIs
    <3>4. k # 2 => T.tab[n][k].level < T.tab[n][k - 1].level
      BY <3>1
    <3> QED
      BY <1>4, <3>1, <3>2, <3>3, <3>4
  <2> QED
    BY <2>1, <2>2
<1>7. Chain(n, U.tab[n], v)
  BY <1>6 DEF Chain
<1> QED
  BY <1>1, <1>5, <1>7 DEF Sound, U

\* A struct that hides no other.
LEMMA HiddenAlone ==
    ASSUME NEW S, Sound(S, S.lv), NEW n \in Names, NEW on, Fits(n, on)
    PROVE  LET T == Hidden(S, n, None, on)
           IN  /\ Step(S, T, S.lv) /\ There(T, <<n, 1>>)
               /\ Step(S, Put(T, <<n, 1>>, [At(T, <<n, 1>>) EXCEPT !.level = S.lv]), S.lv)
<1> DEFINE q == None
           T == Hidden(S, n, q, on)
<1>0. q = None /\ Above(S, n, q)
  BY DEF Above
<1> HIDE DEF q
<1>1. /\ T \in State /\ T.lv = S.lv
      /\ \A m \in Names \ {n} : T.tab[m] = S.tab[m]
      /\ Len(T.tab[n]) = 1
      /\ T.tab[n][1] = New(on)
  <2>1. Hides(S, T, n, q, on)
    BY <1>0, HiddenIs
  <2> HIDE DEF T
  <2> QED
    BY <1>0, <2>1 DEF Hides
<1> HIDE DEF T
<1>2. New(on) \in Cell /\ CellOK(n, New(on)) /\ New(on).level = 0
  BY NewIs
<1>3. S.lv \in 0..MaxLevel
  BY DEF Sound, State
<1>4. Chain(n, T.tab[n], S.lv)
  BY <1>1, <1>2, <1>3 DEF Chain
<1>5. Step(S, T, S.lv)
  BY <1>1, <1>4 DEF Step, Sound
<1>6. There(T, <<n, 1>>)
  BY <1>1 DEF There
<1> DEFINE v == S.lv
           U == Put(T, <<n, 1>>, [At(T, <<n, 1>>) EXCEPT !.level = v])
<1>7. /\ \A m \in Names \ {n} : Chain(m, T.tab[m], v)
      /\ Len(T.tab[n]) >= 1
      /\ \A k \in 1..Len(T.tab[n]) : T.tab[n][k] \in Cell /\ CellOK(n, T.tab[n][k])
      /\ \A k \in 2..Len(T.tab[n]) : /\ T.tab[n][k].level < v
                                     /\ k > 2 => T.tab[n][k].level < T.tab[n][k - 1].level
  BY <1>1, <1>2 DEF Sound
<1>8. v \in 0..MaxLevel /\ T \in State
  BY <1>1, <1>3
<1> HIDE DEF v
<1>9. Sound(U, v) /\ U.lv = T.lv
  BY <1>7, <1>8, LevelPut
<1> HIDE DEF U
<1>10. Step(S, U, v)
  BY <1>1, <1>9 DEF Step
<1> QED
  BY <1>0, <1>5, <1>6, <1>10 DEF U, v, T, q

\* A local struct that hides the one of an outer scope.
LEMMA HiddenOver ==
    ASSUME NEW S, Sound(S, S.lv), NEW n \in Names, NEW on, Fits(n, on),
           There(S, <<n, 1>>), At(S, <<n, 1>>).level # S.lv
    PROVE  LET T == Hidden(S, n, <<n, 1>>, on)
           IN  /\ T.lv = S.lv /\ There(T, <<n, 1>>)
               /\ Step(S, Put(T, <<n, 1>>, [At(T, <<n, 1>>) EXCEPT !.level = S.lv]), S.lv)
<1> DEFINE q == <<n, 1>>
           T == Hidden(S, n, q, on)
           t == S.tab[n]
           v == S.lv
<1>1. q # None /\ q[1] = n /\ q[2] = 1 /\ There(S, q)
  BY ThereSome
<1>2. At(S, q) = t[1] /\ t[1].level # v
  BY DEF At
<1>3. S \in State /\ Len(t) \in Nat /\ 1 \in 1..Len(t) /\ v \in 0..MaxLevel /\ Chain(n, t, v)
  BY ThereIs, StateFacts DEF Sound
<1>4. \A m \in Names : Chain(m, S.tab[m], v)
  BY DEF Sound
<1> HIDE DEF q
<1>5. /\ T \in State /\ T.lv = S.lv
      /\ \A m \in Names \ {n} : T.tab[m] = S.tab[m]
      /\ Len(T.tab[n]) = IF q = None THEN 1 ELSE (Len(t) - q[2]) + 2
      /\ T.tab[n][1] = New(on)
      /\ \A k \in 2..Len(T.tab[n]) :
            T.tab[n][k] = IF k = 2 THEN Out(t[q[2]]) ELSE t[(q[2] + k) - 2]
  <2>1. Above(S, n, q)
    BY <1>1 DEF Above
  <2>2. Hides(S, T, n, q, on)
    BY <2>1, HiddenIs
  <2> HIDE DEF T
  <2> QED
    BY <2>2 DEF Hides
<1> HIDE DEF T, t
<1>6. Len(T.tab[n]) = Len(t) + 1
  BY <1>1, <1>3, <1>5
<1>7. ASSUME NEW k \in 2..Len(T.tab[n])
      PROVE  /\ T.tab[n][k] = IF k = 2 THEN Out(t[1]) ELSE t[k - 1]
             /\ k - 1 \in 1..Len(t)
  BY <1>1, <1>3, <1>5, <1>6
<1>8. New(on) \in Cell /\ CellOK(n, New(on)) /\ New(on).level = 0
  BY NewIs
<1>9. t[1] \in Cell /\ CellOK(n, t[1]) /\ t[1].level \in 0..MaxLevel /\ t[1].level < v
  <2>1. t[1] \in Cell /\ CellOK(n, t[1]) /\ t[1].level <= v
    BY <1>3 DEF Chain
  <2>2. t[1].level \in 0..MaxLevel
    BY <2>1, CellIs
  <2> QED
    BY <1>2, <1>3, <2>1, <2>2
<1>10. LET c == Out(t[1]) IN c \in Cell /\ CellOK(n, c) /\ c.level = t[1].level
  BY <1>9 DEF Cell, CellOK, Out
<1>11. ASSUME NEW k \in 2..Len(T.tab[n])
       PROVE  T.tab[n][k] \in Cell /\ CellOK(n, T.tab[n][k]) /\ T.tab[n][k].level = t[k - 1].level
  BY <1>3, <1>7, <1>10 DEF Chain
<1>12. ASSUME NEW k \in 2..Len(T.tab[n])
       PROVE  /\ T.tab[n][k].level < v
              /\ k > 2 => T.tab[n][k].level < T.tab[n][k - 1].level
  <2>1. k - 1 \in 1..Len(t) /\ T.tab[n][k].level = t[k - 1].level
    BY <1>7, <1>11
  <2>2. CASE k = 2
    BY <1>9, <2>1, <2>2
  <2>3. CASE k # 2
    <3>1. k - 1 \in 2..Len(T.tab[n]) /\ (k - 1) - 1 \in 1..Len(t) /\ k > 2
      BY <1>3, <1>6, <2>3
    <3>2. T.tab[n][k - 1].level = t[(k - 1) - 1].level
      BY <1>11, <3>1
    <3>3. t[k - 1].level < t[(k - 1) - 1].level
      BY <1>3, <2>1, <3>1 DEF Chain
    <3>4. ASSUME NEW j \in 1..Len(t) PROVE t[j].level <= t[1].level /\ t[j].level \in 0..MaxLevel
      <4> DEFINE P == {i \in Nat : i + 1 \in 1..Len(t) => t[i + 1].level <= t[1].level}
      <4>0. \A i \in 1..Len(t) : t[i].level \in 0..MaxLevel
        BY <1>3, CellIs DEF Chain
      <4>1. 0 \in P
        BY <1>9
      <4>2. ASSUME NEW i \in Nat, i \in P PROVE i + 1 \in P
        <5>1. SUFFICES ASSUME (i + 1) + 1 \in 1..Len(t)
                       PROVE  t[(i + 1) + 1].level <= t[1].level
          OBVIOUS
        <5>2. i + 1 \in 1..Len(t) /\ ((i + 1) + 1) - 1 = i + 1 /\ (i + 1) + 1 > 1
          BY <1>3, <5>1
        <5>3. t[i + 1].level <= t[1].level
          BY <4>2, <5>2
        <5>4. t[(i + 1) + 1].level < t[i + 1].level
          BY <1>3, <5>1, <5>2 DEF Chain
        <5>5. t[(i + 1) + 1].level \in 0..MaxLevel /\ t[i + 1].level \in 0..MaxLevel
          BY <4>0, <5>1, <5>2
        <5> QED
          BY <1>9, <5>3, <5>4, <5>5
      <4> HIDE DEF P
      <4>3. \A i \in Nat : i \in P
        BY <4>1, <4>2, Induction
      <4>4. j - 1 \in Nat /\ (j - 1) + 1 = j
        BY <1>3
      <4>5. t[j].level <= t[1].level
        BY <4>3, <4>4 DEF P
      <4> QED
        BY <4>0, <4>5
    <3>5. t[k - 1].level <= t[1].level /\ t[k - 1].level \in 0..MaxLevel
      BY <2>1, <3>4
    <3> QED
      BY <1>3, <1>9, <2>1, <3>2, <3>3, <3>5
  <2> QED
    BY <2>2, <2>3
<1>13. ASSUME NEW k \in 1..Len(T.tab[n]) PROVE T.tab[n][k] \in Cell /\ CellOK(n, T.tab[n][k])
  <2>1. k # 1 => k \in 2..Len(T.tab[n])
    BY <1>3, <1>6
  <2> QED
    BY <1>5, <1>8, <1>11, <2>1
<1>14. \A m \in Names \ {n} : Chain(m, T.tab[m], v)
  BY <1>4, <1>5
<1>15. Len(T.tab[n]) >= 1
  BY <1>3, <1>6
<1> DEFINE U == Put(T, <<n, 1>>, [At(T, <<n, 1>>) EXCEPT !.level = v])
<1> HIDE DEF v
<1>16. Sound(U, v) /\ U.lv = T.lv
  BY <1>3, <1>5, <1>12, <1>13, <1>14, <1>15, LevelPut
<1> HIDE DEF U
<1>17. Step(S, U, v)
  BY <1>5, <1>16 DEF Step
<1>18. There(T, <<n, 1>>)
  BY <1>15 DEF There
<1> QED
  BY <1>5, <1>17, <1>18 DEF U, v, T, q

\* createparam(): what is created can be used, at the level of the scope if
\* it is local.
Creates(S, c, on) ==
    /\ c.S.lv = S.lv
    /\ c.p = None \/ ~on.local => Step(S, c.S, S.lv)
    /\ c.p # None => There(c.S, c.p)
    /\ c.p # None /\ on.local =>
          Step(S, Put(c.S, c.p, [At(c.S, c.p) EXCEPT !.level = S.lv]), S.lv)

\* Where the references from n have led to.
Leads(S, n, on, l) ==
    /\ l # None => There(S, l)
    /\ on.ref => l = None
    /\ on.local => l = None \/ l = <<n, 1>> \/ IsRef(At(S, l))

LEMMA VisibleIs ==
    ASSUME NEW S \in State, NEW n \in Names
    PROVE  IF S.tab[n] = <<>> THEN Visible(S, n) = None
           ELSE Visible(S, n) = <<n, 1>> /\ There(S, <<n, 1>>) /\ <<n, 1>> # None
<1>1. CASE S.tab[n] = <<>>
  BY <1>1 DEF Visible
<1>2. CASE S.tab[n] # <<>>
  <2>1. S.tab[n] \in Seq(Cell) /\ Len(S.tab[n]) \in Nat
    BY StateFacts
  <2>2. Len(S.tab[n]) >= 1
    BY <1>2, <2>1
  <2> DEFINE p == <<n, 1>>
  <2>3. p \in Names \X (Nat \ {0}) /\ p[1] = n /\ p[2] = 1
    OBVIOUS
  <2> HIDE DEF p
  <2>4. There(S, p)
    BY <2>2, <2>3 DEF There
  <2>5. p # None
    BY <2>4, ThereSome
  <2> QED
    BY <1>2, <2>4, <2>5 DEF Visible, p
<1> QED
  BY <1>1, <1>2

LEMMA ResultIs ==
    ASSUME NEW S, NEW p
    PROVE  Result(S, p).S = S /\ Result(S, p).p = p
BY DEF Result

LEMMA AloneCreates ==
    ASSUME NEW S, Sound(S, S.lv), NEW n \in Names, NEW on, Fits(n, on)
    PROVE  Creates(S, Result(Hidden(S, n, None, on), <<n, 1>>), on)
<1> DEFINE T == Hidden(S, n, None, on)
           p == <<n, 1>>
<1>1. /\ Step(S, T, S.lv) /\ There(T, p)
      /\ Step(S, Put(T, p, [At(T, p) EXCEPT !.level = S.lv]), S.lv)
  BY HiddenAlone
<1> HIDE DEF T, p
<1>2. Result(T, p).S = T /\ Result(T, p).p = p
  BY ResultIs
<1>3. T.lv = S.lv
  BY <1>1 DEF Step
<1>4. Creates(S, Result(T, p), on)
  BY <1>1, <1>2, <1>3 DEF Creates
<1> QED
  BY <1>4 DEF T, p

LEMMA OverCreates ==
    ASSUME NEW S, Sound(S, S.lv), NEW n \in Names, NEW on, Fits(n, on), on.local,
           There(S, <<n, 1>>), At(S, <<n, 1>>).level # S.lv
    PROVE  Creates(S, Result(Hidden(S, n, <<n, 1>>, on), <<n, 1>>), on)
<1> DEFINE p == <<n, 1>>
           T == Hidden(S, n, p, on)
<1>1. /\ T.lv = S.lv /\ There(T, p)
      /\ Step(S, Put(T, p, [At(T, p) EXCEPT !.level = S.lv]), S.lv)
  BY HiddenOver
<1>5. p # None
  BY ThereSome
<1> HIDE DEF T, p
<1>2. Result(T, p).S = T /\ Result(T, p).p = p
  BY ResultIs
<1>4. Creates(S, Result(T, p), on)
  BY <1>1, <1>2, <1>5 DEF Creates
<1> QED
  BY <1>4 DEF T, p

\* The visible struct can be given the level of the scope.
LEMMA VisibleLevel ==
    ASSUME NEW S, Sound(S, S.lv), NEW n \in Names, There(S, <<n, 1>>)
    PROVE  Step(S, Put(S, <<n, 1>>, [At(S, <<n, 1>>) EXCEPT !.level = S.lv]), S.lv)
<1> DEFINE t == S.tab[n]
           v == S.lv
           U == Put(S, <<n, 1>>, [At(S, <<n, 1>>) EXCEPT !.level = v])
<1>1. S \in State /\ Len(t) \in Nat /\ v \in 0..MaxLevel /\ 1 \in 1..Len(t)
      /\ \A m \in Names : Chain(m, S.tab[m], v)
  BY ThereIs, StateFacts DEF Sound
<1>2. \A k \in 1..Len(t) : t[k] \in Cell /\ CellOK(n, t[k]) /\ t[k].level <= v
  BY <1>1 DEF Chain
<1>3. ASSUME NEW k \in 2..Len(t)
      PROVE  t[k].level < v /\ t[k].level < t[k - 1].level
  <2>1. k - 1 \in 1..Len(t) /\ k \in 1..Len(t) /\ k > 1
    BY <1>1
  <2>2. t[k].level < t[k - 1].level
    BY <1>1, <2>1 DEF Chain
  <2>3. t[k - 1].level <= v
    BY <1>2, <2>1
  <2>4. t[k].level \in 0..MaxLevel /\ t[k - 1].level \in 0..MaxLevel
    <3>1. t[k] \in Cell /\ t[k - 1] \in Cell
      BY <1>2, <2>1
    <3> QED
      BY <3>1, CellIs
  <2> QED
    BY <1>1, <2>2, <2>3, <2>4
<1>4. Len(t) >= 1
  BY <1>1
<1> HIDE DEF v
<1>5. Sound(U, v) /\ U.lv = S.lv
  BY <1>1, <1>2, <1>3, <1>4, LevelPut
<1> HIDE DEF U
<1>6. Step(S, U, v)
  BY <1>5 DEF Step
<1> QED
  BY <1>6 DEF U, v

\* A struct that is used again.
LEMMA ReusedCreates ==
    ASSUME NEW S, Sound(S, S.lv), NEW q, There(S, q), ~At(S, q).set, NEW on, Fits(q[1], on),
           on.local => q[2] = 1
    PROVE  Creates(S, Result(Reused(S, q, on), q), on)
<1> DEFINE n == q[1]
           i == q[2]
           c == Again(At(S, q), on)
           T == Reused(S, q, on)
           v == S.lv
<1>1. /\ S \in State /\ q = <<n, i>> /\ n \in Names /\ i \in Nat \ {0} /\ i \in 1..Len(S.tab[n])
      /\ At(S, q) = S.tab[n][i] /\ At(S, q) \in Cell
  BY ThereIs DEF Sound
<1>2. CellOK(n, At(S, q))
  BY <1>1 DEF Sound, Chain
<1>3. T = Put(S, q, c)
  BY DEF Reused, Again
<1>4. c \in Cell /\ CellOK(n, c) /\ c.level = At(S, q).level
  <2> DEFINE d == At(S, q)
  <2>1. d \in Cell /\ Blank(d) /\ Fits(n, on)
    BY <1>1, <1>2 DEF CellOK, Blank
  <2> HIDE DEF d, n
  <2> DEFINE a == Again(d, on)
  <2>2. a \in Cell /\ CellOK(n, a) /\ a.level = d.level
    BY <2>1, AgainIs
  <2>3. c = a
    BY DEF d
  <2> QED
    BY <2>2, <2>3 DEF d
<1> HIDE DEF c, n, i, T
<1>5. Step(S, Put(S, <<n, i>>, c), v)
  BY <1>1, <1>4, PutSound
<1>6. Len(Put(S, <<n, i>>, c).tab[n]) = Len(S.tab[n])
  BY <1>1, <1>4, PutAt, Zenon
<1>7. Step(S, T, v) /\ Len(T.tab[n]) = Len(S.tab[n])
  BY <1>1, <1>3, <1>5, <1>6
<1>8. There(T, q)
  BY <1>1, <1>7 DEF There, n, i
<1>9. ASSUME on.local PROVE Step(S, Put(T, q, [At(T, q) EXCEPT !.level = v]), v)
  <2>1. q = <<n, 1>>
    BY <1>1, <1>9 DEF i
  <2>2. Sound(T, T.lv) /\ T.lv = v
    BY <1>7 DEF Step
  <2>3. Step(T, Put(T, <<n, 1>>, [At(T, <<n, 1>>) EXCEPT !.level = T.lv]), T.lv)
    BY <1>1, <1>8, <2>1, <2>2, VisibleLevel
  <2> QED
    BY <2>1, <2>2, <2>3 DEF Step
<1>10. Result(T, q).S = T /\ Result(T, q).p = q
  BY ResultIs
<1>11. T.lv = S.lv
  BY <1>7 DEF Step
<1>12. Creates(S, Result(T, q), on)
  BY <1>7, <1>8, <1>9, <1>10, <1>11 DEF Creates
<1> QED
  BY <1>12 DEF T

LEMMA NothingCreates ==
    ASSUME NEW S, Sound(S, S.lv), NEW on
    PROVE  Creates(S, Result(S, None), on) /\ Creates(S, Result(zerr(S), None), on)
<1>1. Step(S, S, S.lv) /\ Step(S, zerr(S), S.lv)
  BY zerrSound DEF Step
<1> DEFINE Z == zerr(S)
<1> HIDE DEF Z
<1>2. /\ Result(S, None).S = S /\ Result(S, None).p = None
      /\ Result(Z, None).S = Z /\ Result(Z, None).p = None
  BY ResultIs
<1>3. Step(S, Z, S.lv) /\ Z.lv = S.lv
  BY <1>1 DEF Step, Z
<1>4. Creates(S, Result(S, None), on) /\ Creates(S, Result(Z, None), on)
  BY <1>1, <1>2, <1>3 DEF Creates
<1> QED
  BY <1>4 DEF Z

LEMMA PlaceholderCreates ==
    ASSUME NEW S, Sound(S, S.lv), NEW n \in Names, NEW l, There(S, l), NEW on, on.local => l = <<n, 1>>
    PROVE  Creates(S, Result(S, l), on)
<1>1. Step(S, S, S.lv)
  BY DEF Step
<1>2. Result(S, l).S = S /\ Result(S, l).p = l
  BY ResultIs
<1>3. ASSUME on.local PROVE Step(S, Put(S, l, [At(S, l) EXCEPT !.level = S.lv]), S.lv)
  BY <1>3, VisibleLevel
<1> QED
  BY <1>1, <1>2, <1>3 DEF Creates

LEMMA CreateFromIs ==
    ASSUME NEW S, Sound(S, S.lv), NEW n \in Names, NEW on, Fits(n, on), NEW l,
           Leads(S, n, on, l)
    PROVE  Creates(S, CreateFrom(S, n, on, l), on)
<1> DEFINE open == IsThere(S, l) /\ At(S, l).ref
           q == IF l = None THEN Visible(S, n) ELSE l
           m == At(S, l).str
           C == CreateFrom(S, n, on, l)
<1>1. S \in State
  BY DEF Sound
<1>2. /\ l # None => There(S, l) /\ ~on.ref
      /\ on.local => l = None \/ l = <<n, 1>> \/ IsRef(At(S, l))
  BY DEF Leads
<1>3. open => l # None
  BY DEF IsThere
<1>4. l # None => At(S, l) \in Cell /\ CellOK(l[1], At(S, l))
  <2>1. l # None => /\ At(S, l) = S.tab[l[1]][l[2]] /\ l[1] \in Names
                    /\ l[2] \in 1..Len(S.tab[l[1]]) /\ At(S, l) \in Cell
    BY <1>1, <1>2, ThereIs
  <2> QED
    BY <2>1 DEF Sound, Chain
<1>5. CASE open /\ m # ""
  <2>1. m \in Names
    BY <1>3, <1>4, <1>5 DEF CellOK
  <2>2. Fits(m, on)
    BY <1>2, <1>3, <1>5 DEF Fits
  <2>3. C = Result(Hidden(S, m, None, on), <<m, 1>>)
    BY <1>5 DEF CreateFrom
  <2> HIDE DEF m, C
  <2>4. Creates(S, Result(Hidden(S, m, None, on), <<m, 1>>), on)
    BY <2>1, <2>2, AloneCreates
  <2> QED
    BY <2>3, <2>4 DEF C
<1>6. CASE open /\ ~(m # "")
  <2>1. C \in {Result(zerr(S), None), Result(S, l)}
    BY <1>6 DEF CreateFrom
  <2>2. on.local => l = <<n, 1>>
    BY <1>2, <1>3, <1>6 DEF IsRef
  <2>3. There(S, l)
    BY <1>2, <1>3, <1>6
  <2> HIDE DEF C
  <2>4. Creates(S, Result(S, l), on) /\ Creates(S, Result(zerr(S), None), on)
    BY <2>2, <2>3, PlaceholderCreates, NothingCreates
  <2> QED
    BY <2>1, <2>4 DEF C
<1>7. ASSUME ~open PROVE on.local => l = None \/ l = <<n, 1>>
  <2>1. l # None /\ IsRef(At(S, l)) => open
    BY DEF IsThere, IsRef
  <2> HIDE DEF open
  <2> QED
    BY <1>2, <1>7, <2>1
<1>8. q # None => There(S, q)
  BY <1>1, <1>2, VisibleIs
<1>9. ~open /\ on.local /\ q # None => q = <<n, 1>>
  BY <1>1, <1>7, VisibleIs
<1>10. CASE ~open /\ q # None /\ (At(S, q).level = S.lv \/ ~on.local)
  <2>1. CASE At(S, q).set
    <3>1. C = Result(S, None)
      BY <1>10, <2>1 DEF CreateFrom
    <3> HIDE DEF C
    <3> QED
      BY <3>1, NothingCreates DEF C
  <2>2. CASE ~At(S, q).set
    <3>1. C = Result(Reused(S, q, on), q)
      BY <1>10, <2>2 DEF CreateFrom
    <3>2. on.local => q[2] = 1
      BY <1>9, <1>10
    <3>3. Fits(q[1], on)
      <4>1. CASE l = None
        <5>1. q = <<n, 1>>
          BY <1>1, <1>10, <4>1, VisibleIs
        <5>2. q[1] = n
          BY <5>1
        <5> QED
          BY <5>2
      <4>2. CASE l # None
        BY <1>2, <4>2 DEF Fits
      <4> QED
        BY <4>1, <4>2
    <3>4. There(S, q)
      BY <1>8, <1>10
    <3> HIDE DEF C, q
    <3>5. Creates(S, Result(Reused(S, q, on), q), on)
      BY <2>2, <3>2, <3>3, <3>4, ReusedCreates
    <3> QED
      BY <3>1, <3>5 DEF C
  <2> QED
    BY <2>1, <2>2
<1>11. CASE ~open /\ ~(q # None /\ (At(S, q).level = S.lv \/ ~on.local))
  <2>1. C = Result(Hidden(S, n, q, on), <<n, 1>>)
    BY <1>11 DEF CreateFrom
  <2>2. CASE q = None
    <3> HIDE DEF C, q
    <3>1. Creates(S, Result(Hidden(S, n, None, on), <<n, 1>>), on)
      BY AloneCreates
    <3> QED
      BY <2>1, <2>2, <3>1 DEF C
  <2>3. CASE q # None
    <3>1. q = <<n, 1>> /\ There(S, q) /\ on.local /\ At(S, q).level # S.lv
      BY <1>8, <1>9, <1>11, <2>3
    <3> HIDE DEF C, q
    <3>2. Creates(S, Result(Hidden(S, n, <<n, 1>>, on), <<n, 1>>), on)
      BY <3>1, OverCreates
    <3> QED
      BY <2>1, <3>1, <3>2 DEF C
  <2> QED
    BY <2>2, <2>3
<1> QED
  BY <1>5, <1>6, <1>10, <1>11

Follows(S, n, on) ==
    LET o == Visible(S, n) IN
    /\ IsThere(S, o)
    /\ ~on.ref
    /\ At(S, o).level = S.lv \/ ~on.local
    /\ At(S, o).ref

Led(S, n, on) == IF Follows(S, n, on) THEN Resolve(S, Visible(S, n), None, TRUE) ELSE None

\* What is made local is the struct of that name, or what a reference stands
\* for that has no struct yet.
LocalOK(S, n, on) ==
    on.local => Led(S, n, on) = None \/ Led(S, n, on) = <<n, 1>> \/ IsRef(At(S, Led(S, n, on)))

LEMMA LedIs ==
    ASSUME NEW l, NEW S, Sound(S, l), NEW n \in Names, NEW on, LocalOK(S, n, on)
    PROVE  Leads(S, n, on, Led(S, n, on))
<1> DEFINE yes == TRUE
           o == Visible(S, n)
<1>1. yes \in BOOLEAN
  OBVIOUS
<1>2. Led(S, n, on) = IF Follows(S, n, on) THEN Resolve(S, o, None, yes) ELSE None
  BY DEF Led
<1>3. Follows(S, n, on) => o # None /\ ~on.ref
  BY DEF Follows, IsThere
<1>4. o # None => There(S, o)
  BY VisibleIs DEF Sound
<1> HIDE DEF yes, o
<1> DEFINE r == Resolve(S, o, None, yes)
<1>5. Follows(S, n, on) => (r # None => There(S, r))
  BY <1>1, <1>3, <1>4, ResolveEnds
<1> HIDE DEF r
<1>6. Led(S, n, on) # None => There(S, Led(S, n, on)) /\ ~on.ref
  BY <1>2, <1>3, <1>5 DEF r
<1> QED
  BY <1>6 DEF Leads, LocalOK

LEMMA createparamIs ==
    ASSUME NEW S, Sound(S, S.lv), NEW n \in Names, NEW on, Fits(n, on), LocalOK(S, n, on)
    PROVE  Creates(S, createparam(S, n, on), on)
<1>1. createparam(S, n, on) = CreateFrom(S, n, on, Led(S, n, on))
  BY DEF createparam, Led, Follows
<1>2. Leads(S, n, on, Led(S, n, on))
  BY LedIs
<1> DEFINE l == Led(S, n, on)
<1> HIDE DEF l
<1>3. Creates(S, CreateFrom(S, n, on, l), on)
  BY <1>2, CreateFromIs DEF l
<1> QED
  BY <1>1, <1>3 DEF l

\* assignsparam()
LEMMA FlagsIs ==
    ASSUME NEW F
    PROVE  /\ Flags(F) \in Opts
           /\ Flags(F).local = ("l" \in F) /\ Flags(F).ref = ("n" \in F)
           /\ Flags(F).exported = ("x" \in F)
BY DEF Flags, Opts

Plain(x) == [Flags({}) EXCEPT !.exported = x]

LEMMA PlainIs ==
    ASSUME NEW x \in BOOLEAN
    PROVE  Plain(x) \in Opts /\ ~Plain(x).local /\ ~Plain(x).ref /\ Plain(x).exported = x
<1> DEFINE no == FALSE
           f == [local |-> no, ref |-> no, exported |-> no]
           p == [f EXCEPT !.exported = x]
<1> DEFINE a == "l" \in {}
           b == "n" \in {}
           c == "x" \in {}
           g == [local |-> a, ref |-> b, exported |-> c]
<1>7. Plain(x) = [g EXCEPT !.exported = x]
  BY DEF Plain, Flags
<1>8. a = no /\ b = no /\ c = no
  OBVIOUS
<1> HIDE DEF a, b, c, no
<1>9. g = f
  BY <1>8
<1> HIDE DEF g, f
<1>1. Plain(x) = p
  BY <1>7, <1>9
<1> USE DEF no, f
<1>2. no \in BOOLEAN
  OBVIOUS
<1>3. ~no
  OBVIOUS
<1> HIDE DEF no
<1>4. p = [local |-> no, ref |-> no, exported |-> x]
  OBVIOUS
<1> HIDE DEF p
<1>5. p \in Opts
  BY <1>2, <1>4 DEF Opts
<1>6. p.local = no /\ p.ref = no /\ p.exported = x
  BY <1>4
<1> QED
  BY <1>1, <1>3, <1>5, <1>6

LEMMA assignsparamIs ==
    ASSUME NEW S, Sound(S, S.lv), NEW n \in Names, NEW v \in Str, NEW allexport \in BOOLEAN
    PROVE  Step(S, assignsparam(S, n, v, allexport).S, S.lv)
<1> DEFINE on == Plain(allexport)
           C == createparam(S, n, on)
           T == IF fetchvalue(S, n) # None THEN S ELSE C.S
<1>1. assignsparam(S, n, v, allexport) = AssignFound(T, n, v, allexport)
  BY DEF assignsparam, Plain
<1>2. on \in Opts /\ ~on.local /\ ~on.ref
  BY PlainIs
<1> HIDE DEF on
<1>3. Fits(n, on) /\ LocalOK(S, n, on)
  BY <1>2 DEF Fits, LocalOK
<1>4. Creates(S, C, on)
  BY <1>3, createparamIs
<1> HIDE DEF C
<1>5. Step(S, C.S, S.lv)
  BY <1>2, <1>4 DEF Creates
<1>6. Step(S, T, S.lv)
  BY <1>5 DEF Step
<1> DEFINE v0 == S.lv
<1> HIDE DEF T, v0
<1>7. Sound(T, v0) /\ T.lv = v0
  BY <1>6 DEF Step, v0
<1> DEFINE U == AssignFound(T, n, v, allexport).S
<1>8. Step(T, U, v0)
  BY <1>7, AssignFoundIs
<1> HIDE DEF U
<1>9. Step(S, U, v0)
  BY <1>7, <1>8 DEF Step, v0
<1> QED
  BY <1>1, <1>9 DEF U, v0

-----------------------------------------------------------------------------
(* The typeset builtins.                                                   *)

LEMMA RetypedFields ==
    ASSUME NEW c \in Cell, NEW x \in BOOLEAN, NEW r \in BOOLEAN
    PROVE  LET s == WithRef(WithExported(c, x), r)
           IN  /\ s \in Cell /\ s.level = c.level /\ s.str = c.str /\ s.set = c.set
               /\ s.ref = r /\ s.exported = x /\ s.env = c.env
<1> DEFINE a == WithExported(c, x)
           s == WithRef(a, r)
<1>1. a = Struct8(c.level, c.str, c.set, c.declared, c.ref, x, c.env, c.base)
  BY CellChanged
<1> HIDE DEF a
<1>2. s = Struct8(c.level, c.str, c.set, c.declared, r, x, c.env, c.base)
  BY <1>1, Struct8Changed
<1> HIDE DEF s
<1>3. s \in Cell
  <2>1. /\ c.level \in 0..MaxLevel /\ c.str \in Str /\ c.set \in BOOLEAN /\ c.declared \in BOOLEAN
        /\ c.ref \in BOOLEAN /\ c.exported \in BOOLEAN /\ c.env \in BOOLEAN /\ c.base \in 0..MaxLevel
    BY CellIs
  <2>2. Struct8(c.level, c.str, c.set, c.declared, r, x, c.env, c.base) \in Cell
    <3>1. Typed8(c.level, c.str, c.set, c.declared, r, x, c.env, c.base)
      BY <2>1 DEF Typed8
    <3> QED
      BY <3>1, Struct8Typed
  <2> QED
    BY <1>2, <2>2
<1>4. /\ s.level = c.level /\ s.str = c.str /\ s.set = c.set
      /\ s.ref = r /\ s.exported = x /\ s.env = c.env
  BY <1>2, Struct8Has
<1> QED
  BY <1>3, <1>4 DEF s, a

\* Retype(): the flags of a struct change.
Retyped(s, on, off) == [s EXCEPT !.exported = (@ \/ on.exported) /\ ~off.exported,
                                 !.ref = @ /\ ~off.ref]

LEMMA RetypedIs ==
    ASSUME NEW n, NEW c \in Cell, CellOK(n, c), NEW on, NEW off
    PROVE  /\ Retyped(c, on, off) \in Cell /\ CellOK(n, Retyped(c, on, off))
           /\ Retyped(c, on, off).level = c.level
<1> DEFINE x == (c.exported \/ on.exported) /\ ~off.exported
           r == c.ref /\ ~off.ref
           s == WithRef(WithExported(c, x), r)
<1>1. Retyped(c, on, off) = s
  BY DEF Retyped, WithRef, WithExported
<1>2. x \in BOOLEAN /\ r \in BOOLEAN
  OBVIOUS
<1>3. r => c.ref
  OBVIOUS
<1> HIDE DEF x, r
<1>4. /\ s \in Cell /\ s.level = c.level /\ s.str = c.str /\ s.set = c.set
      /\ s.ref = r /\ s.exported = x /\ s.env = c.env
  BY <1>2, RetypedFields
<1> HIDE DEF s
<1>5. CellOK(n, s)
  BY <1>3, <1>4 DEF CellOK
<1> QED
  BY <1>1, <1>4, <1>5

\* A struct is given other contents, of the same level.
LEMMA PutStep ==
    ASSUME NEW l, NEW S, Sound(S, l), NEW p, There(S, p), NEW s \in Cell, CellOK(p[1], s),
           s.level = At(S, p).level
    PROVE  Step(S, Put(S, p, s), l) /\ There(Put(S, p, s), p) /\ At(Put(S, p, s), p) = s
<1> DEFINE n == p[1]
           i == p[2]
           T == Put(S, <<n, i>>, s)
<1>1. /\ S \in State /\ p = <<n, i>> /\ n \in Names /\ i \in 1..Len(S.tab[n])
      /\ At(S, p) = S.tab[n][i]
  BY ThereIs DEF Sound
<1>2. Put(S, p, s) = T
  BY <1>1
<1> HIDE DEF n, i
<1>3. Step(S, T, l)
  BY <1>1, PutSound DEF n
<1>4. Len(T.tab[n]) = Len(S.tab[n]) /\ At(T, <<n, i>>) = s
  BY <1>1, PutAt
<1> HIDE DEF T
<1>5. There(T, p)
  BY <1>4 DEF There, n
<1> QED
  BY <1>1, <1>2, <1>3, <1>4, <1>5

LEMMA StepMore ==
    ASSUME NEW S, NEW T, NEW U, NEW l, Step(S, T, l), Step(T, U, l)
    PROVE  Step(S, U, l)
BY DEF Step

LEMMA unsetStep ==
    ASSUME NEW l, NEW S, Sound(S, l), NEW p \in Names \X (Nat \ {0})
    PROVE  Step(S, unsetparam_pm(S, p), l)
<1> DEFINE n == p[1]
           i == p[2]
<1>1. p = <<n, i>> /\ n \in Names /\ i \in Nat \ {0}
  OBVIOUS
<1> HIDE DEF n, i
<1>2. Step(S, unsetparam_pm(S, <<n, i>>), l)
  BY <1>1, unsetparam_pmIs
<1> QED
  BY <1>1, <1>2

LEMMA delenvStep ==
    ASSUME NEW l, NEW S, Sound(S, l), NEW p, There(S, p)
    PROVE  Step(S, delenv(S, p), l)
<1> DEFINE n == p[1]
           i == p[2]
<1>1. p = <<n, i>> /\ n \in Names
  BY DEF There
<1> HIDE DEF n, i
<1>2. Step(S, delenv(S, <<n, i>>), l)
  BY <1>1, delenvIs
<1> QED
  BY <1>1, <1>2

LEMMA addenvStep ==
    ASSUME NEW l, NEW S, Sound(S, l), NEW p, There(S, p), NEW v \in Str
    PROVE  Step(S, addenv(S, p, v), l)
BY addenvIs

LEMMA assignsparamStep ==
    ASSUME NEW S, NEW T, Step(S, T, S.lv), NEW n \in Names, NEW v \in Str
    PROVE  Step(S, assignsparam(T, n, v, FALSE).S, S.lv)
<1> DEFINE no == FALSE
           U == assignsparam(T, n, v, no).S
           l == S.lv
<1>1. no \in BOOLEAN
  OBVIOUS
<1> HIDE DEF no
<1>2. Sound(T, T.lv) /\ T.lv = l
  BY DEF Step
<1>3. Step(T, U, T.lv)
  BY <1>1, <1>2, assignsparamIs
<1> HIDE DEF U, l
<1>4. Step(S, U, l)
  BY <1>2, <1>3, StepMore DEF l
<1> QED
  BY <1>4 DEF U, l, no

LEMMA RetypeIs ==
    ASSUME NEW S, Sound(S, S.lv), NEW n \in Names, NEW p, There(S, p), NEW on, NEW off,
           NEW v \in Str \cup {None}
    PROVE  Step(S, Retype(S, n, p, on, off, v), S.lv)
<1> DEFINE l == S.lv
           t == Retyped(At(S, p), on, off)
           T == Put(S, p, t)
           g == fetchvalue(T, n)
           val == IF g = None THEN "" ELSE At(T, g).str
           U == IF t.exported
                THEN IF ~t.env /\ v = None THEN addenv(T, p, val) ELSE T
                ELSE delenv(T, p)
<1>1. Retype(S, n, p, on, off, v) = IF v = None THEN U ELSE assignsparam(U, n, v, FALSE).S
  BY DEF Retype, Retyped
<1>2. At(S, p) \in Cell /\ CellOK(p[1], At(S, p)) 
  <2>1. /\ S \in State /\ p[1] \in Names /\ p[2] \in 1..Len(S.tab[p[1]])
        /\ At(S, p) = S.tab[p[1]][p[2]] /\ At(S, p) \in Cell
    BY ThereIs DEF Sound
  <2> QED
    BY <2>1 DEF Sound, Chain
<1>3. t \in Cell /\ CellOK(p[1], t) /\ t.level = At(S, p).level
  BY <1>2, RetypedIs
<1> HIDE DEF t
<1>4. Step(S, T, l) /\ There(T, p)
  BY <1>3, PutStep
<1> HIDE DEF T, l
<1>5. Sound(T, l)
  BY <1>4 DEF Step
<1>6. val \in Str
  <2>1. g # None => There(T, g)
    BY <1>5, fetchIs
  <2> HIDE DEF g
  <2>2. g # None => At(T, g) \in Cell
    BY <1>5, <2>1, ThereIs DEF Sound
  <2>3. g # None => At(T, g).str \in Str
    BY <2>2, CellIs
  <2>4. "" \in Str
    BY DEF Str
  <2> QED
    BY <2>3, <2>4
<1> HIDE DEF val
<1>7. Step(T, addenv(T, p, val), l) /\ Step(T, delenv(T, p), l)
  BY <1>4, <1>5, <1>6, addenvStep, delenvStep
<1>8. Step(S, addenv(T, p, val), l) /\ Step(S, delenv(T, p), l)
  BY <1>4, <1>7, StepMore
<1>9. Step(S, U, l)
  BY <1>4, <1>8
<1> HIDE DEF U
<1>10. v # None => Step(S, assignsparam(U, n, v, FALSE).S, l)
  <2>1. v # None => v \in Str
    OBVIOUS
  <2> QED
    BY <1>9, <2>1, assignsparamStep, Zenon DEF l
<1> QED
  BY <1>1, <1>9, <1>10 DEF l

LEMMA CreatedIs ==
    ASSUME NEW S, Sound(S, S.lv), NEW c, NEW on, Creates(S, c, on), NEW n \in Names,
           NEW v \in Str \cup {None}
    PROVE  Step(S, Created(c, n, on, v), S.lv)
<1> DEFINE l == S.lv
           P == Put(c.S, c.p, [At(c.S, c.p) EXCEPT !.level = c.S.lv])
           T == IF on.local THEN P ELSE c.S
           a == assignsparam(T, n, v, FALSE)
           R == Created(c, n, on, v)
<1>1. R = IF c.p = None THEN c.S ELSE IF v = None THEN T ELSE DropUnused(a, c.p)
  BY DEF Created
<1> HIDE DEF R
<1>2. CASE c.p = None
  BY <1>1, <1>2 DEF Creates, R
<1>3. CASE c.p # None
  <2>1. Step(S, T, l)
    BY <1>3 DEF Creates
  <2>2. c.p \in Names \X (Nat \ {0})
    BY <1>3 DEF Creates, There
  <2> HIDE DEF T
  <2>3. CASE v = None
    BY <1>1, <1>3, <2>1, <2>3 DEF R
  <2>4. CASE v # None
    <3>1. v \in Str
      BY <2>4
    <3>2. Step(S, a.S, l)
      BY <2>1, <3>1, assignsparamStep, Zenon
    <3> DEFINE U == a.S
    <3>3. Sound(U, l)
      BY <3>2 DEF Step
    <3>4. R \in {U, unsetparam_pm(U, c.p)}
      BY <1>1, <1>3, <2>4 DEF DropUnused
    <3> HIDE DEF U, l
    <3>5. Step(U, unsetparam_pm(U, c.p), l)
      BY <2>2, <3>3, unsetStep
    <3>6. Step(S, U, l)
      BY <3>2 DEF U
    <3>7. Step(S, unsetparam_pm(U, c.p), l)
      BY <3>5, <3>6, StepMore
    <3> QED
      BY <3>4, <3>6, <3>7 DEF R, l
  <2> QED
    BY <2>3, <2>4
<1> QED
  BY <1>2, <1>3

LEMMA CreateIs ==
    ASSUME NEW S, Sound(S, S.lv), NEW n \in Names, NEW on, Fits(n, on), LocalOK(S, n, on),
           NEW v \in Str \cup {None}
    PROVE  Step(S, Create(S, n, on, v), S.lv)
<1> DEFINE c == createparam(S, n, on)
<1>1. Creates(S, c, on)
  BY createparamIs
<1> HIDE DEF c
<1>2. Step(S, Created(c, n, on, v), S.lv)
  BY <1>1, CreatedIs
<1> QED
  BY <1>2 DEF Create, c

\* typeset_single(): the struct that it is about.
Through(S, pm, on, off) ==
    /\ pm # None
    /\ At(S, pm).ref
    /\ ~on.ref /\ ~off.ref
    /\ At(S, pm).level = S.lv \/ ~on.local

Meant(S, pm, on, off) ==
    IF Through(S, pm, on, off) THEN Resolve(S, pm, None, FALSE) ELSE pm

Name(n, p) == IF p = None THEN n ELSE p[1]

Used(S, p, on) ==
    /\ p # None
    /\ At(S, p).set
    /\ At(S, p).level = S.lv \/ ~on.local

LEMMA MeantIs ==
    ASSUME NEW l, NEW S, Sound(S, l), NEW pm, pm # None => There(S, pm), NEW on, NEW off
    PROVE  Meant(S, pm, on, off) # None => There(S, Meant(S, pm, on, off))
<1> DEFINE no == FALSE
           r == Resolve(S, pm, None, no)
<1>1. no \in BOOLEAN
  OBVIOUS
<1>2. Meant(S, pm, on, off) = IF Through(S, pm, on, off) THEN r ELSE pm
  BY DEF Meant
<1>3. Through(S, pm, on, off) => pm # None
  BY DEF Through
<1> HIDE DEF no
<1>4. pm # None => (r # None => There(S, r))
  BY <1>1, ResolveEnds
<1> HIDE DEF r
<1> QED
  BY <1>2, <1>3, <1>4

LEMMA typeset_singleIs ==
    ASSUME NEW S, Sound(S, S.lv), NEW n \in Names, NEW pm, pm # None => There(S, pm),
           NEW on, NEW off, NEW v \in Str \cup {None},
           Fits(Name(n, Meant(S, pm, on, off)), on),
           Used(S, Meant(S, pm, on, off), on)
             \/ LocalOK(S, Name(n, Meant(S, pm, on, off)), on)
    PROVE  Step(S, typeset_single(S, n, pm, on, off, v), S.lv)
<1> DEFINE p == Meant(S, pm, on, off)
           m == Name(n, p)
           fails == /\ Through(S, pm, on, off) /\ p # None
                    /\ At(S, p).ref /\ (At(S, p).set \/ At(S, p).declared)
                    /\ on.exported
           R == typeset_single(S, n, pm, on, off, v)
<1>1. R = IF fails THEN S
          ELSE IF Used(S, p, on) THEN Retype(S, m, p, on, off, v)
          ELSE Create(S, m, on, v)
  BY DEF typeset_single, Meant, Through, Name, Used
<1>2. p # None => There(S, p)
  BY MeantIs
<1> HIDE DEF R, fails
<1>3. Fits(m, on) /\ (Used(S, p, on) \/ LocalOK(S, m, on))
  OBVIOUS
<1>4. m \in Names
  <2> HIDE DEF p
  <2> QED
    BY <1>2 DEF Name, There
<1>5. Used(S, p, on) => p # None
  BY DEF Used
<1> HIDE DEF p, m
<1>6. Step(S, S, S.lv)
  BY DEF Step
<1>7. Used(S, p, on) => Step(S, Retype(S, m, p, on, off, v), S.lv)
  BY <1>2, <1>4, <1>5, RetypeIs
<1>8. ~Used(S, p, on) => Step(S, Create(S, m, on, v), S.lv)
  BY <1>3, <1>4, CreateIs
<1> QED
  BY <1>1, <1>6, <1>7, <1>8 DEF R

\* What is not local, and a reference that is made one, is not followed.
LEMMA NotLocalOK ==
    ASSUME NEW S, NEW n, NEW on, ~on.local \/ on.ref
    PROVE  LocalOK(S, n, on)
BY DEF LocalOK, Led, Follows

\* Redeclared is FALSE: what `local' applies to is no reference to a hidden
\* parameter.
Declarable(S, n) ==
    S.tab[n] # <<>> => Resolve(S, <<n, 1>>, None, TRUE) \notin Names \X (Nat \ {0, 1})

LEMMA DeclaredOK ==
    ASSUME NEW l, NEW S, Sound(S, l), NEW n \in Names, Declarable(S, n), NEW on, NEW off, ~off.ref
    PROVE  LocalOK(S, Name(n, Meant(S, Visible(S, n), on, off)), on)
<1> DEFINE o == Visible(S, n)
           p == Meant(S, o, on, off)
           m == Name(n, p)
           yes == TRUE
           r == Resolve(S, o, None, yes)
<1>1. S \in State
  BY DEF Sound
<1>2. IF S.tab[n] = <<>> THEN o = None ELSE o = <<n, 1>> /\ There(S, <<n, 1>>) /\ <<n, 1>> # None
  BY <1>1, VisibleIs
<1>3. Follows(S, n, on) <=> IsThere(S, o) /\ Through(S, o, on, off)
  BY DEF Follows, Through, IsThere
<1>4. Led(S, n, on) = IF Follows(S, n, on) THEN r ELSE None
  BY DEF Led
<1>5. CASE ~Through(S, o, on, off)
  <2>1. p = o
    BY <1>5 DEF Meant
  <2>2. m = n
    <3>1. o # None => o[1] = n
      BY <1>2
    <3> HIDE DEF p, o
    <3> QED
      BY <2>1, <3>1 DEF Name
  <2>3. Led(S, n, on) = None
    BY <1>3, <1>4, <1>5
  <2>4. LocalOK(S, n, on)
    BY <2>3 DEF LocalOK
  <2> HIDE DEF m
  <2>5. LocalOK(S, m, on)
    BY <2>2, <2>4
  <2> QED
    BY <2>5 DEF m
<1>6. CASE Through(S, o, on, off)
  <2>1. o # None /\ S.tab[n] # <<>> /\ There(S, o) /\ o = <<n, 1>>
    BY <1>2, <1>6 DEF Through
  <2>2. p = IF r # None /\ IsRef(At(S, r)) THEN None ELSE r
    <3> HIDE DEF o
    <3>1. p = Resolve(S, o, None, FALSE)
      BY <1>6 DEF Meant
    <3>2. Resolve(S, o, None, FALSE) = IF r # None /\ IsRef(At(S, r)) THEN None ELSE r
      BY <2>1, ResolveKeep
    <3> QED
      BY <3>1, <3>2
  <2>3. yes \in BOOLEAN
    OBVIOUS
  <2>4. r \notin Names \X (Nat \ {0, 1})
    BY <2>1 DEF Declarable
  <2> HIDE DEF yes, o
  <2>5. r # None => There(S, r)
    BY <2>1, <2>3, ResolveEnds
  <2> HIDE DEF r, p
  <2>6. CASE p = None
    <3>1. m = n
      BY <2>6 DEF Name
    <3>2. r = None \/ IsRef(At(S, r))
      BY <2>2, <2>6
    <3>3. LocalOK(S, n, on)
      BY <1>4, <3>2 DEF LocalOK
    <3> HIDE DEF m
    <3>5. LocalOK(S, m, on)
      BY <3>1, <3>3
    <3> QED
      BY <3>5 DEF m, p, o
  <2>7. CASE p # None
    <3>1. p = r /\ ~IsRef(At(S, r)) /\ There(S, r)
      BY <2>2, <2>5, <2>7
    <3>2. r = <<r[1], 1>> /\ r[1] \in Names
      BY <2>4, <3>1 DEF There
    <3>3. m = r[1]
      BY <2>7, <3>1 DEF Name
    <3> HIDE DEF m
    <3>4. r = <<m, 1>> /\ m \in Names
      BY <3>2, <3>3
    <3> DEFINE q == <<m, 1>>
    <3>5. Visible(S, m) # None => Visible(S, m) = q
      BY DEF Visible
    <3>6. Led(S, m, on) # None => Led(S, m, on) = Resolve(S, Visible(S, m), None, yes)
                                  /\ Visible(S, m) # None
      BY DEF Led, Follows, IsThere, yes
    <3>7. There(S, q) /\ ~IsRef(At(S, q))
      BY <3>1, <3>4
    <3> HIDE DEF q
    <3>8. Resolve(S, q, None, yes) = q
      BY <2>3, <3>7, ResolveSelf
    <3>9. Led(S, m, on) = None \/ Led(S, m, on) = q
      BY <3>5, <3>6, <3>8
    <3>10. LocalOK(S, m, on)
      BY <3>9 DEF LocalOK, q
    <3> QED
      BY <3>10 DEF m, p, o
  <2> QED
    BY <2>6, <2>7
<1> QED
  BY <1>5, <1>6

\* typeset +n: the reference itself is meant.
LEMMA DereferenceOK ==
    ASSUME NEW l, NEW S, Sound(S, l), NEW n \in Names, NEW on, NEW off, off.ref
    PROVE  LET p == Meant(S, Visible(S, n), on, off)
           IN  /\ p = Visible(S, n) /\ Name(n, p) = n
               /\ Used(S, p, on) \/ LocalOK(S, Name(n, p), on)
<1> DEFINE o == Visible(S, n)
           yes == TRUE
<1>1. S \in State
  BY DEF Sound
<1>2. IF S.tab[n] = <<>> THEN o = None ELSE o = <<n, 1>> /\ There(S, <<n, 1>>) /\ <<n, 1>> # None
  BY <1>1, VisibleIs
<1>3. Meant(S, o, on, off) = o
  BY DEF Meant, Through
<1>4. Name(n, o) = n
  <2>1. o # None => o[1] = n
    BY <1>2
  <2> HIDE DEF o
  <2> QED
    BY <2>1 DEF Name
<1>5. Used(S, o, on) \/ LocalOK(S, n, on)
  <2> HIDE DEF o
  <2> SUFFICES ASSUME ~Used(S, o, on), Follows(S, n, on)
               PROVE  Led(S, n, on) = <<n, 1>>
    BY DEF LocalOK, Led
  <2>1. o # None /\ (At(S, o).level = S.lv \/ ~on.local)
    BY DEF Follows, IsThere, o
  <2>2. ~At(S, o).set
    BY <2>1 DEF Used
  <2>3. o = <<n, 1>> /\ There(S, o) /\ ~IsRef(At(S, o))
    BY <1>2, <2>1, <2>2 DEF IsRef
  <2>4. yes \in BOOLEAN
    OBVIOUS
  <2>5. Led(S, n, on) = Resolve(S, o, None, yes)
    BY DEF Led, o
  <2> HIDE DEF yes
  <2> QED
    BY <2>3, <2>4, <2>5, ResolveSelf
<1> QED
  BY <1>3, <1>4, <1>5

LEMMA typeset_nIs ==
    ASSUME NEW S, Sound(S, S.lv), NEW n \in Names, NEW on, Fits(n, on), on.ref,
           NEW v \in Str \cup {None}
    PROVE  Step(S, typeset_n(S, n, on, v), S.lv)
<1> DEFINE o == Visible(S, n)
           over == o # None /\ (At(S, o).level = S.lv \/ ~on.local)
           w == IF v = None /\ over /\ ~At(S, o).ref /\ At(S, o).set
                THEN At(S, o).str ELSE v
           T == IF over THEN unsetparam_pm(S, o) ELSE S
           off == Flags({})
           R == typeset_single(T, n, None, on, off, w)
<1>1. typeset_n(S, n, on, v) = R
  BY DEF typeset_n
<1>2. S \in State
  BY DEF Sound
<1>3. o # None => There(S, o)
  BY <1>2, VisibleIs
<1>4. w \in Str \cup {None}
  <2> HIDE DEF o
  <2>1. over => At(S, o).str \in Str
    <3>1. over => At(S, o) \in Cell
      BY <1>2, <1>3, ThereIs
    <3> QED
      BY <3>1, CellIs
  <2> HIDE DEF over
  <2> QED
    BY <2>1
<1>5. Step(S, T, S.lv)
  <2>1. Step(S, S, S.lv)
    BY DEF Step
  <2>2. over => Step(S, unsetparam_pm(S, o), S.lv)
    <3> HIDE DEF o
    <3> QED
      BY <1>3, unsetStep DEF There
  <2> QED
    BY <2>1, <2>2
<1> HIDE DEF w, T, over, o, off
<1>6. Sound(T, T.lv) /\ T.lv = S.lv
  BY <1>5 DEF Step
<1> DEFINE nothing == None
<1>7. Meant(T, nothing, on, off) = None
  BY DEF Meant, Through
<1>8. Name(n, Meant(T, nothing, on, off)) = n
  BY <1>7 DEF Name
<1>9. LocalOK(T, n, on)
  BY NotLocalOK
<1>10. nothing = None
  OBVIOUS
<1> HIDE DEF nothing
<1>11. Step(T, typeset_single(T, n, nothing, on, off, w), T.lv)
  BY <1>4, <1>6, <1>8, <1>9, <1>10, typeset_singleIs
<1>12. Step(S, R, S.lv)
  BY <1>5, <1>6, <1>10, <1>11, StepMore
<1> QED
  BY <1>1, <1>12

LEMMA GoneFields ==
    ASSUME NEW c \in Cell, NEW nil \in Str, NEW no \in BOOLEAN, NEW yes \in BOOLEAN
    PROVE  LET s == WithDeclared(WithSet(WithStr(c, nil), no), yes)
           IN  /\ s \in Cell /\ s.level = c.level /\ s.str = nil /\ s.set = no
               /\ s.ref = c.ref
<1> DEFINE a == WithSet(WithStr(c, nil), no)
           s == WithDeclared(a, yes)
<1>1. /\ a \in Cell /\ a.level = c.level /\ a.str = nil /\ a.set = no /\ a.ref = c.ref
  BY ValuedFields
<1> HIDE DEF a
<1>2. s = Struct8(a.level, a.str, a.set, yes, a.ref, a.exported, a.env, a.base)
  BY <1>1, CellChanged
<1>3. /\ a.level \in 0..MaxLevel /\ a.str \in Str /\ a.set \in BOOLEAN /\ a.declared \in BOOLEAN
      /\ a.ref \in BOOLEAN /\ a.exported \in BOOLEAN /\ a.env \in BOOLEAN /\ a.base \in 0..MaxLevel
  BY <1>1, CellIs
<1> HIDE DEF s
<1>4. s \in Cell
  <2>1. Struct8(a.level, a.str, a.set, yes, a.ref, a.exported, a.env, a.base) \in Cell
    <3>1. Typed8(a.level, a.str, a.set, yes, a.ref, a.exported, a.env, a.base)
      BY <1>3 DEF Typed8
    <3> QED
      BY <3>1, Struct8Typed
  <2> QED
    BY <1>2, <2>1
<1>5. s.level = a.level /\ s.str = a.str /\ s.set = a.set /\ s.ref = a.ref
  BY <1>2, Struct8Has
<1> QED
  BY <1>1, <1>4, <1>5 DEF s, a

IsNil(x) == x = ""

LEMMA GoneIs ==
    ASSUME NEW n, NEW c \in Cell, CellOK(n, c), NEW nil \in Str, NEW no \in BOOLEAN,
           NEW yes \in BOOLEAN, IsNil(nil)
    PROVE  LET s == WithDeclared(WithSet(WithStr(c, nil), no), yes)
           IN  s \in Cell /\ CellOK(n, s) /\ s.level = c.level
<1> DEFINE s == WithDeclared(WithSet(WithStr(c, nil), no), yes)
<1>1. s \in Cell /\ s.level = c.level /\ s.str = nil /\ s.ref = c.ref
  BY GoneFields
<1> HIDE DEF s
<1>2. s.str = ""
  BY <1>1 DEF IsNil
<1>3. s.ref => n \in Refs
  BY <1>1 DEF CellOK
<1>4. CellOK(n, s)
  BY <1>2, <1>3 DEF CellOK
<1> QED
  BY <1>1, <1>4 DEF s

LEMMA unsetIs ==
    ASSUME NEW S, Sound(S, S.lv), NEW n \in Names
    PROVE  Step(S, unset(S, n), S.lv)
<1> DEFINE no == FALSE
           yes == TRUE
           nil == ""
           o == Visible(S, n)
           p == IF o = None THEN None ELSE Resolve(S, o, None, no)
           s == WithDeclared(WithSet(WithStr(At(S, p), nil), no), yes)
           marks == At(S, o).ref /\ At(S, p).level < S.lv
<1>1. unset(S, n) = IF p = None THEN S
                    ELSE IF marks THEN Put(S, p, s) ELSE unsetparam_pm(S, p)
  <2>1. s = [stdunsetfn(At(S, p)) EXCEPT !.declared = TRUE]
    BY DEF stdunsetfn, WithDeclared, WithSet, WithStr
  <2> HIDE DEF s
  <2> QED
    BY <2>1 DEF unset
<1>2. S \in State
  BY DEF Sound
<1>3. o # None => There(S, o)
  BY <1>2, VisibleIs
<1>4. no \in BOOLEAN /\ yes \in BOOLEAN /\ nil \in Str
  BY DEF Str
<1>8. IsNil(nil)
  BY DEF IsNil
<1> HIDE DEF no, yes, nil, o
<1>5. p # None => There(S, p)
  BY <1>3, <1>4, ResolveEnds
<1> HIDE DEF p
<1>6. CASE p = None
  BY <1>1, <1>6 DEF Step
<1>7. CASE p # None
  <2>1. There(S, p) /\ p \in Names \X (Nat \ {0})
    BY <1>5, <1>7 DEF There
  <2>2. At(S, p) \in Cell /\ CellOK(p[1], At(S, p))
    <3>1. At(S, p) = S.tab[p[1]][p[2]] /\ p[1] \in Names /\ p[2] \in 1..Len(S.tab[p[1]])
      BY <1>2, <2>1, ThereIs
    <3> QED
      BY <3>1 DEF Sound, Chain
  <2>3. s \in Cell /\ CellOK(p[1], s) /\ s.level = At(S, p).level
    BY <1>4, <1>8, <2>2, GoneIs
  <2> HIDE DEF s
  <2>4. Step(S, Put(S, p, s), S.lv)
    BY <2>1, <2>3, PutStep
  <2>5. Step(S, unsetparam_pm(S, p), S.lv)
    BY <2>1, unsetStep
  <2> QED
    BY <1>1, <1>7, <2>4, <2>5
<1> QED
  BY <1>6, <1>7

LEMMA LoopIs ==
    ASSUME NEW n, NEW c \in Cell, CellOK(n, c), NEW b \in 0..MaxLevel, NEW v \in Str \cap Names
    PROVE  LET s == Valued(WithBase(c, b), v)
           IN  s \in Cell /\ CellOK(n, s) /\ s.level = c.level
<1> DEFINE a == WithBase(c, b)
<1>1. a \in Cell /\ a.level = c.level /\ CellOK(n, a)
  BY WithBaseIs
<1> HIDE DEF a
<1>2. v \in Str /\ v \in Names \cup {""}
  OBVIOUS
<1>3. Valued(a, v) \in Cell /\ CellOK(n, Valued(a, v)) /\ Valued(a, v).level = a.level
  BY <1>1, <1>2, ValuedIs
<1> QED
  BY <1>1, <1>3 DEF a

LEMMA setloopvarIs ==
    ASSUME NEW S, Sound(S, S.lv), NEW n \in Names, NEW v \in Str \cap Names
    PROVE  Step(S, setloopvar(S, n, v), S.lv)
<1> DEFINE o == Visible(S, n)
           z == 0
           s == Valued(WithBase(At(S, o), z), v)
           P == Put(S, o, s)
           refers == o # None /\ At(S, o).ref
<1>1. setloopvar(S, n, v) = IF refers THEN setscope(P, o) ELSE assignsparam(S, n, v, FALSE).S
  <2>1. s = [At(S, o) EXCEPT !.base = 0, !.str = v, !.set = TRUE]
    BY DEF Valued, WithBase, WithSet, WithStr
  <2> HIDE DEF s
  <2> QED
    BY <2>1 DEF setloopvar
<1>2. S \in State
  BY DEF Sound
<1>3. o # None => There(S, o)
  BY <1>2, VisibleIs
<1>4. z \in 0..MaxLevel
  BY MaxLevelType
<1> HIDE DEF z, o
<1>5. CASE refers
  <2>1. There(S, o) /\ o[1] \in Names
    BY <1>3, <1>5 DEF There
  <2>2. At(S, o) \in Cell /\ CellOK(o[1], At(S, o))
    <3>1. At(S, o) = S.tab[o[1]][o[2]] /\ o[1] \in Names /\ o[2] \in 1..Len(S.tab[o[1]])
      BY <1>2, <2>1, ThereIs
    <3> QED
      BY <3>1 DEF Sound, Chain
  <2>3. s \in Cell /\ CellOK(o[1], s) /\ s.level = At(S, o).level
    BY <1>4, <2>2, LoopIs
  <2> HIDE DEF s
  <2>4. Step(S, P, S.lv) /\ There(P, o)
    BY <2>1, <2>3, PutStep
  <2> HIDE DEF P
  <2>5. Step(P, setscope(P, o), S.lv)
    BY <2>4, setscopeIs DEF Step
  <2>6. Step(S, setscope(P, o), S.lv)
    BY <2>4, <2>5, StepMore
  <2> QED
    BY <1>1, <1>5, <2>6
<1>6. CASE ~refers
  <2>1. Step(S, S, S.lv)
    BY DEF Step
  <2>2. Step(S, assignsparam(S, n, v, FALSE).S, S.lv)
    BY <2>1, assignsparamStep
  <2> HIDE DEF refers, P
  <2> QED
    BY <1>1, <1>6, <2>2
<1> QED
  BY <1>5, <1>6

-----------------------------------------------------------------------------
(* The end of a scope.                                                     *)

\* The names are numbered.
LEMMA OrderIs ==
    /\ Cardinality(Names) \in Nat
    /\ Order \in [1..Cardinality(Names) -> Names]
    /\ \A n \in Names : \E i \in 1..Cardinality(Names) : Order[i] = n
<1> DEFINE c == Cardinality(Names)
           Good(f) == \A n \in Names : \E i \in 1..c : f[i] = n
<1>1. c \in Nat /\ ExistsBijection(1..c, Names)
  BY ParamsAssumption, FS_CardinalityType
<1>2. Order = CHOOSE f \in [1..c -> Names] : Good(f)
  BY DEF Order
<1> HIDE DEF c
<1>3. PICK f \in Bijection(1..c, Names) : TRUE
  BY <1>1 DEF ExistsBijection
<1>4. f \in [1..c -> Names] /\ Good(f)
  BY <1>3 DEF Bijection, Injection, Surjection, IsInjective
<1>5. Order \in [1..c -> Names] /\ Good(Order)
  <2> HIDE DEF Good
  <2> QED
    BY <1>2, <1>4, Zenon
<1> QED
  BY <1>1, <1>5 DEF c

\* What a struct hides is of a scope further out.
LEMMA ChainFalls ==
    ASSUME NEW n, NEW t, Len(t) \in Nat, NEW l, Chain(n, t, l)
    PROVE  \A k \in 2..Len(t) : t[k].level < t[1].level
<1> DEFINE D == {k \in Nat : k + 2 \in 2..Len(t) => t[k + 2].level < t[1].level}
<1>1. \A k \in 1..Len(t) : t[k].level \in Nat /\ (k > 1 => t[k].level < t[k - 1].level)
  <2>1. SUFFICES ASSUME NEW k \in 1..Len(t)
                 PROVE  t[k].level \in Nat /\ (k > 1 => t[k].level < t[k - 1].level)
    OBVIOUS
  <2>2. t[k] \in Cell /\ (k > 1 => t[k].level < t[k - 1].level)
    BY DEF Chain
  <2>3. t[k].level \in 0..MaxLevel
    BY <2>2, CellIs
  <2> QED
    BY <2>2, <2>3, MaxLevelType
<1>2. 0 \in D
  BY <1>1
<1>3. ASSUME NEW k \in Nat, k \in D PROVE k + 1 \in D
  <2>1. SUFFICES ASSUME (k + 1) + 2 \in 2..Len(t) PROVE t[(k + 1) + 2].level < t[1].level
    OBVIOUS
  <2>2. k + 2 \in 2..Len(t) /\ k + 2 \in 1..Len(t) /\ 1 \in 1..Len(t) /\ (k + 1) + 2 \in 1..Len(t)
        /\ (k + 1) + 2 > 1 /\ ((k + 1) + 2) - 1 = k + 2
    BY <2>1
  <2>3. t[k + 2].level < t[1].level
    BY <1>3, <2>2
  <2>4. t[(k + 1) + 2].level < t[k + 2].level
    BY <1>1, <2>2
  <2>5. t[(k + 1) + 2].level \in Nat /\ t[k + 2].level \in Nat /\ t[1].level \in Nat
    BY <1>1, <2>2
  <2> QED
    BY <2>3, <2>4, <2>5
<1> HIDE DEF D
<1>4. \A k \in Nat : k \in D
  BY <1>2, <1>3, Induction
<1>5. SUFFICES ASSUME NEW k \in 2..Len(t) PROVE t[k].level < t[1].level
  OBVIOUS
<1>6. k - 2 \in Nat /\ (k - 2) + 2 = k
  BY <1>5
<1>7. k - 2 \in D
  BY <1>4, <1>6
<1> QED
  BY <1>6, <1>7 DEF D

\* The scope above S.lv has ended: the structs of the names in K that were
\* local to it are gone.
Ended(S, K) ==
    /\ Sound(S, S.lv + 1)
    /\ \A n \in K : Chain(n, S.tab[n], S.lv)

LEMMA scanendscopeIs ==
    ASSUME NEW S, NEW K \in SUBSET Names, Ended(S, K), NEW n \in Names
    PROVE  /\ Ended(scanendscope(S, n), K \cup {n})
           /\ scanendscope(S, n).lv = S.lv
<1> DEFINE t == S.tab[n]
           v == S.lv
           gone == t # <<>> /\ t[1].level > v
           U == unsetparam_pm(S, <<n, 1>>)
           T == scanendscope(S, n)
<1>1. T = IF gone THEN U ELSE S
  BY DEF scanendscope
<1>2. S \in State /\ Sound(S, v + 1) /\ Chain(n, t, v + 1)
  BY DEF Ended, Sound
<1>3. t \in Seq(Cell) /\ Len(t) \in Nat /\ v \in 0..MaxLevel /\ v \in Nat
  BY <1>2, StateFacts, MaxLevelType
<1> HIDE DEF t, T
<1>4. \A k \in 1..Len(t) : t[k] \in Cell /\ t[k].level \in Nat
  <2>1. \A k \in 1..Len(t) : t[k] \in Cell
    BY <1>2 DEF Chain
  <2>2. \A k \in 1..Len(t) : t[k].level \in 0..MaxLevel
    BY <2>1, CellIs
  <2> QED
    BY <2>1, <2>2, MaxLevelType
<1>5. \A k \in 2..Len(t) : t[k].level < t[1].level
  BY <1>2, <1>3, ChainFalls
<1>6. CASE gone
  <2>1. t[1].level \in Nat /\ t[1].level > v /\ t[1].level <= v + 1 /\ 1 \in 1..Len(t)
    <3>1. 1 \in 1..Len(t)
      BY <1>3, <1>6
    <3> QED
      BY <1>2, <1>4, <1>6, <3>1 DEF Chain
  <2>2. ~Stays1(S, t[1])
    BY <1>3, <2>1 DEF Stays1
  <2>3. /\ Step(S, U, v + 1)
        /\ \A m \in Names \ {n} : U.tab[m] = S.tab[m]
        /\ Len(U.tab[n]) = IF 1 < Len(t) THEN Len(t) - 1 ELSE 0
        /\ \A k \in 1..Len(U.tab[n]) :
              U.tab[n][k] = IF k = 1 /\ t[k + 1].exported THEN Shown(t[k + 1]) ELSE t[k + 1]
    <3> DEFINE i == 1
               l == v + 1
               R == unsetparam_pm(S, <<n, i>>)
    <3>1. i \in Nat \ {0} /\ Sound(S, l)
      BY <1>2
    <3>2. ~Stays1(S, S.tab[n][i])
      BY <2>2 DEF t
    <3> HIDE DEF i, l, U, gone
    <3>3. /\ Step(S, R, l)
          /\ \A m \in Names \ {n} : R.tab[m] = S.tab[m]
          /\ Uncovered(S, R, n, i)
      BY <3>1, <3>2, unsetparam_pmIs
    <3>4. R = U /\ i = 1 /\ l = v + 1
      BY DEF i, l, U
    <3> HIDE DEF R
    <3> QED
      BY <3>3, <3>4 DEF t, Uncovered
  <2> HIDE DEF U
  <2>4. ASSUME NEW k \in 1..Len(U.tab[n])
        PROVE  U.tab[n][k].level <= v
    <3>1. k + 1 \in 2..Len(t) /\ k + 1 \in 1..Len(t)
      BY <1>3, <2>3
    <3>2. t[k + 1].level <= v
      BY <1>3, <1>4, <1>5, <2>1, <3>1
    <3>3. t[k + 1] \in Cell
      BY <1>4, <3>1
    <3>4. Shown(t[k + 1]).level = t[k + 1].level
      BY <3>3 DEF Shown, Cell
    <3> QED
      BY <2>3, <3>2, <3>4
  <2>5. U.lv = v /\ Sound(U, v + 1)
    BY <2>3 DEF Step
  <2>6. Chain(n, U.tab[n], v)
    <3>1. Chain(n, U.tab[n], v + 1)
      BY <2>5 DEF Sound
    <3> QED
      BY <2>4, <3>1 DEF Chain
  <2>7. ASSUME NEW m \in K \cup {n} PROVE Chain(m, U.tab[m], v)
    BY <2>3, <2>6 DEF Ended
  <2> QED
    BY <1>1, <1>6, <2>5, <2>7 DEF Ended, T
<1>7. CASE ~gone
  <2>1. ASSUME NEW k \in 1..Len(t) PROVE t[k].level <= v
    <3>1. 1 \in 1..Len(t) /\ t # <<>>
      BY <1>3, <2>1
    <3>2. t[1].level <= v
      BY <1>3, <1>4, <1>7, <3>1
    <3>3. k = 1 \/ k \in 2..Len(t)
      BY <1>3, <2>1
    <3> QED
      BY <1>3, <1>4, <1>5, <3>1, <3>2, <3>3
  <2>2. Chain(n, t, v)
    BY <1>2, <2>1 DEF Chain
  <2>3. \A m \in K \cup {n} : Chain(m, S.tab[m], v)
    BY <2>2 DEF Ended, t
  <2> QED
    BY <1>1, <1>2, <1>7, <2>3 DEF Ended, T
<1> QED
  BY <1>6, <1>7

LEMMA ScanAllFold ==
    ASSUME NEW S, Sound(S, S.lv + 1)
    PROVE  LET n == Cardinality(Names)
           IN  \E F : /\ ScanAll(S) = F[n] /\ F[0] = S
                      /\ \A i \in 1..n : F[i] = scanendscope(F[i - 1], Order[i])
<1> DEFINE n == Cardinality(Names)
           v == S.lv
           V == {T \in State : T.lv = v /\ Sound(T, v + 1)}
           step(i, T) == scanendscope(T, Order[i])
           next == [q \in (1..n) \X V |-> step(q[1], q[2])]
           Sol(f) == f = [i \in 0..n |-> IF i = 0 THEN S ELSE step(i, f[i - 1])]
           F == CHOOSE f : Sol(f)
<1>0. ScanAll(S) = F[n]
  BY Zenon DEF ScanAll
<1>1. n \in Nat /\ (\A i \in 1..n : Order[i] \in Names) /\ \A m \in Names : \E i \in 1..n : Order[i] = m
  BY OrderIs
<1> HIDE DEF n
<1>2. S \in V
  BY DEF Sound
<1>5. ASSUME NEW i \in 1..n, NEW T \in V PROVE step(i, T) \in V
  <2> DEFINE R == scanendscope(T, Order[i])
             J == {}
  <2>1. J \in SUBSET Names /\ Ended(T, J)
    BY DEF Ended
  <2> HIDE DEF J
  <2>2. Ended(R, J \cup {Order[i]}) /\ R.lv = T.lv
    BY <1>1, <2>1, scanendscopeIs
  <2> HIDE DEF R
  <2>3. R.lv = v /\ Sound(R, v + 1)
    BY <2>2 DEF Ended
  <2>4. R \in V
    BY <2>3 DEF Sound
  <2> QED
    BY <2>4 DEF R
<1> HIDE DEF V, step
<1>6. next \in [(1..n) \X V -> V] /\ \A q \in (1..n) \X V : next[q] = step(q[1], q[2])
  BY <1>5
<1> HIDE DEF next
<1>7. \E f : Recursive(f, V, S, n, next)
  BY <1>1, <1>2, <1>6, Recursion
<1>8. PICK f : Recursive(f, V, S, n, next)
  BY <1>7
<1>9. f \in [0..n -> V] /\ f[0] = S /\ \A i \in 1..n : f[i] = next[<<i, f[i - 1]>>]
  BY <1>8 DEF Recursive
<1>10. \A i \in 1..n : f[i] = step(i, f[i - 1])
  <2>1. SUFFICES ASSUME NEW i \in 1..n PROVE f[i] = step(i, f[i - 1])
    OBVIOUS
  <2>2. f[i - 1] \in V
    BY <1>1, <1>9
  <2>3. next[<<i, f[i - 1]>>] = step(i, f[i - 1])
    BY <1>6, <2>2
  <2> QED
    BY <1>9, <2>3
<1>11. Sol(f)
  <2>1. \A i \in 0..n : f[i] = IF i = 0 THEN S ELSE step(i, f[i - 1])
    BY <1>1, <1>9, <1>10
  <2> QED
    BY <1>9, <2>1
<1>12. Sol(F)
  BY <1>11, Zenon
<1>13. F = [i \in 0..n |-> IF i = 0 THEN S ELSE step(i, F[i - 1])]
  BY <1>12
<1> HIDE DEF F, Sol
<1>14. F[0] = S /\ \A i \in 1..n : F[i] = step(i, F[i - 1])
  BY <1>1, <1>13
<1> QED
  BY <1>0, <1>14 DEF n, step

\* The structs of the scope that has ended are gone.
LEMMA ScanAllIs ==
    ASSUME NEW S, Sound(S, S.lv + 1)
    PROVE  Step(S, ScanAll(S), S.lv)
<1> DEFINE n == Cardinality(Names)
           v == S.lv
           V == {T \in State : T.lv = v /\ Sound(T, v + 1)}
           step(i, T) == scanendscope(T, Order[i])
           K(i) == {Order[j] : j \in 1..i}
<1>1. n \in Nat /\ (\A i \in 1..n : Order[i] \in Names) /\ \A m \in Names : \E i \in 1..n : Order[i] = m
  BY OrderIs
<1>0. PICK F : /\ ScanAll(S) = F[n] /\ F[0] = S
               /\ \A i \in 1..n : F[i] = step(i, F[i - 1])
  BY ScanAllFold
<1> HIDE DEF n
<1>2. S \in V
  BY DEF Sound
<1>3. ASSUME NEW i \in 1..n, NEW T \in V, NEW J \in SUBSET Names, Ended(T, J)
      PROVE  step(i, T) \in V /\ Ended(step(i, T), J \cup {Order[i]})
  <2> DEFINE R == scanendscope(T, Order[i])
  <2>1. Ended(R, J \cup {Order[i]}) /\ R.lv = T.lv
    BY <1>1, <1>3, scanendscopeIs
  <2> HIDE DEF R
  <2>2. R.lv = v /\ Sound(R, v + 1)
    BY <2>1 DEF Ended
  <2>3. R \in V
    BY <2>2 DEF Sound
  <2> QED
    BY <2>1, <2>3 DEF R
<1>4. \A T \in V : Ended(T, {})
  BY DEF Ended
<1> HIDE DEF V, step
<1>14. F[0] = S /\ \A i \in 1..n : F[i] = step(i, F[i - 1])
  BY <1>0
<1> DEFINE D == {i \in Nat : i \in 0..n => F[i] \in V /\ Ended(F[i], K(i))}
<1>15. 0 \in D
  <2>1. K(0) = {}
    OBVIOUS
  <2> HIDE DEF K
  <2> QED
    BY <1>2, <1>4, <1>14, <2>1
<1>16. ASSUME NEW i \in Nat, i \in D PROVE i + 1 \in D
  <2>1. SUFFICES ASSUME i + 1 \in 0..n PROVE F[i + 1] \in V /\ Ended(F[i + 1], K(i + 1))
    OBVIOUS
  <2>2. i \in 0..n /\ i + 1 \in 1..n /\ (i + 1) - 1 = i
    BY <1>1, <2>1
  <2>3. F[i] \in V /\ Ended(F[i], K(i))
    BY <1>16, <2>2
  <2>4. F[i + 1] = step(i + 1, F[i])
    BY <1>14, <2>2
  <2>5. K(i) \in SUBSET Names
    BY <1>1, <2>2
  <2>6. K(i + 1) = K(i) \cup {Order[i + 1]}
    <3>1. 1..(i + 1) = (1..i) \cup {i + 1}
      BY <2>2
    <3> QED
      BY <3>1
  <2> HIDE DEF K, D
  <2>7. step(i + 1, F[i]) \in V /\ Ended(step(i + 1, F[i]), K(i) \cup {Order[i + 1]})
    BY <1>3, <2>2, <2>3, <2>5
  <2> QED
    BY <2>4, <2>6, <2>7
<1> HIDE DEF D
<1>17. \A i \in Nat : i \in D
  BY <1>15, <1>16, Induction
<1>18. F[n] \in V /\ Ended(F[n], K(n))
  <2>1. n \in D /\ n \in 0..n
    BY <1>1, <1>17
  <2> QED
    BY <2>1 DEF D
<1>19. K(n) = Names
  BY <1>1
<1> HIDE DEF K
<1>20. F[n] \in State /\ F[n].lv = v
  BY <1>18 DEF V
<1>21. Sound(F[n], v)
  BY <1>18, <1>19, <1>20 DEF Ended, Sound
<1> QED
  BY <1>0, <1>20, <1>21 DEF Step

LEMMA ResetScopeIs ==
    ASSUME NEW l, NEW S, Sound(S, l), NEW e \in Entry
    PROVE  Step(S, ResetScope(S, e), l)
<1> DEFINE at == {i \in 1..Len(S.tab[e.n]) : S.tab[e.n][i].level = e.level}
           i == CHOOSE i \in at : TRUE
           p == <<e.n, i>>
           z == 0
           s == At(S, p)
           P == Put(S, p, WithBase(s, z))
           resets == at # {} /\ s.ref /\ s.set /\ s.base > S.lv
<1>1. ResetScope(S, e) = IF resets THEN setscope(P, p) ELSE S
  BY DEF ResetScope, WithBase
<1>2. S \in State /\ e.n \in Names
  BY DEF Sound, Entry
<1>3. Step(S, S, l)
  BY DEF Step
<1>4. z \in 0..MaxLevel
  BY MaxLevelType
<1>5. resets => i \in at
  OBVIOUS
<1>6. Len(S.tab[e.n]) \in Nat
  BY <1>2, StateFacts
<1> HIDE DEF i, z
<1>7. i \in at => i \in 1..Len(S.tab[e.n]) /\ i \in Nat \ {0}
  <2> DEFINE n == Len(S.tab[e.n])
  <2>1. i \in at => i \in 1..n
    OBVIOUS
  <2>2. n \in Nat
    BY <1>6
  <2> HIDE DEF n, at
  <2>3. i \in at => i \in 1..n /\ i \in Nat \ {0}
    BY <2>1, <2>2
  <2> QED
    BY <2>3 DEF n
<1> HIDE DEF at
<1>8. ASSUME resets PROVE Step(S, setscope(P, p), l)
  <2>1. p[1] = e.n /\ p[2] = i
    OBVIOUS
  <2>2. There(S, p)
    <3>1. i \in 1..Len(S.tab[e.n]) /\ i \in Nat \ {0}
      BY <1>5, <1>7, <1>8
    <3> QED
      BY <1>2, <1>6, <3>1 DEF There
  <2> HIDE DEF p
  <2>3. s \in Cell /\ CellOK(p[1], s)
    <3>1. At(S, p) = S.tab[p[1]][p[2]] /\ p[1] \in Names /\ p[2] \in 1..Len(S.tab[p[1]])
      BY <1>2, <2>2, ThereIs
    <3> QED
      BY <3>1 DEF Sound, Chain
  <2>4. WithBase(s, z) \in Cell /\ CellOK(p[1], WithBase(s, z)) /\ WithBase(s, z).level = s.level
    BY <1>4, <2>3, WithBaseIs
  <2>5. Step(S, P, l) /\ There(P, p)
    BY <2>2, <2>4, PutStep
  <2> HIDE DEF P
  <2>6. Step(P, setscope(P, p), l)
    BY <2>5, setscopeIs DEF Step
  <2> QED
    BY <2>5, <2>6, StepMore
<1> HIDE DEF resets, P, p
<1> QED
  BY <1>1, <1>3, <1>8

LEMMA ResetAllFold ==
    ASSUME NEW l, NEW S, Sound(S, l), NEW list \in Seq(Entry)
    PROVE  \E F : /\ ResetAll(S, list) = F[Len(list)] /\ F[0] = S
                  /\ \A i \in 1..Len(list) : F[i] = ResetScope(F[i - 1], list[i])
<1> DEFINE n == Len(list)
           V == {T \in State : Step(S, T, l)}
           step(i, T) == ResetScope(T, list[i])
           next == [q \in (1..n) \X V |-> step(q[1], q[2])]
           Sol(f) == f = [i \in 0..n |-> IF i = 0 THEN S ELSE step(i, f[i - 1])]
           F == CHOOSE f : Sol(f)
<1>0. ResetAll(S, list) = F[n]
  BY Zenon DEF ResetAll
<1>1. n \in Nat /\ \A i \in 1..n : list[i] \in Entry
  OBVIOUS
<1> HIDE DEF n
<1>2. S \in V
  BY DEF Sound, Step
<1>3. ASSUME NEW i \in 1..n, NEW T \in V PROVE step(i, T) \in V
  <2> DEFINE R == ResetScope(T, list[i])
  <2>1. Step(S, T, l)
    BY <1>3
  <2>2. Step(T, R, l)
    BY <1>1, <2>1, ResetScopeIs DEF Step
  <2> HIDE DEF R
  <2>3. Step(S, R, l)
    BY <2>1, <2>2, StepMore
  <2>4. R \in V
    BY <2>3 DEF Step, Sound
  <2> QED
    BY <2>4 DEF R
<1> HIDE DEF V, step
<1>6. next \in [(1..n) \X V -> V] /\ \A q \in (1..n) \X V : next[q] = step(q[1], q[2])
  BY <1>3
<1> HIDE DEF next
<1>7. \E f : Recursive(f, V, S, n, next)
  BY <1>1, <1>2, <1>6, Recursion
<1>8. PICK f : Recursive(f, V, S, n, next)
  BY <1>7
<1>9. f \in [0..n -> V] /\ f[0] = S /\ \A i \in 1..n : f[i] = next[<<i, f[i - 1]>>]
  BY <1>8 DEF Recursive
<1>10. \A i \in 1..n : f[i] = step(i, f[i - 1])
  <2>1. SUFFICES ASSUME NEW i \in 1..n PROVE f[i] = step(i, f[i - 1])
    OBVIOUS
  <2>2. f[i - 1] \in V
    BY <1>1, <1>9
  <2>3. next[<<i, f[i - 1]>>] = step(i, f[i - 1])
    BY <1>6, <2>2
  <2> QED
    BY <1>9, <2>3
<1>11. Sol(f)
  <2>1. \A i \in 0..n : f[i] = IF i = 0 THEN S ELSE step(i, f[i - 1])
    BY <1>1, <1>9, <1>10
  <2> QED
    BY <1>9, <2>1
<1>12. Sol(F)
  BY <1>11, Zenon
<1>13. F = [i \in 0..n |-> IF i = 0 THEN S ELSE step(i, F[i - 1])]
  BY <1>12
<1> HIDE DEF F, Sol
<1>14. F[0] = S /\ \A i \in 1..n : F[i] = step(i, F[i - 1])
  BY <1>1, <1>13
<1> QED
  BY <1>0, <1>14 DEF n, step

LEMMA ResetAllIs ==
    ASSUME NEW l, NEW S, Sound(S, l), NEW list \in Seq(Entry)
    PROVE  Step(S, ResetAll(S, list), l)
<1> DEFINE n == Len(list)
           V == {T \in State : Step(S, T, l)}
           step(i, T) == ResetScope(T, list[i])
<1>0. PICK F : /\ ResetAll(S, list) = F[n] /\ F[0] = S
               /\ \A i \in 1..n : F[i] = step(i, F[i - 1])
  BY ResetAllFold
<1>1. n \in Nat /\ \A i \in 1..n : list[i] \in Entry
  OBVIOUS
<1> HIDE DEF n
<1>2. S \in V
  BY DEF Sound, Step
<1>3. ASSUME NEW i \in 1..n, NEW T \in V PROVE step(i, T) \in V
  <2> DEFINE R == ResetScope(T, list[i])
  <2>1. Step(S, T, l)
    BY <1>3
  <2>2. Step(T, R, l)
    BY <1>1, <2>1, ResetScopeIs DEF Step
  <2> HIDE DEF R
  <2>3. Step(S, R, l)
    BY <2>1, <2>2, StepMore
  <2>4. R \in V
    BY <2>3 DEF Step, Sound
  <2> QED
    BY <2>4 DEF R
<1> HIDE DEF V, step
<1>15. F[0] \in V /\ \A i \in 1..n : F[i - 1] \in V => F[i] \in V
  BY <1>0, <1>2, <1>3
<1>16. \A i \in 0..n : F[i] \in V
  BY <1>1, <1>15, Stays
<1>17. F[n] \in V
  BY <1>1, <1>16
<1> QED
  BY <1>0, <1>17 DEF V

\* The two parts of endparamscope().
LEMMA endparamscopeMore ==
    ASSUME NEW S, Sound(S, S.lv), S.lv > 0
    PROVE  \E A, B : \E list \in Seq(Entry) :
              /\ endparamscope(S) = ResetAll(B, list)
              /\ Sound(A, A.lv + 1) /\ A.tab = S.tab /\ A.environ = S.environ
              /\ Sound(B, S.lv - 1) /\ B.lv = S.lv - 1
              /\ B.tab = ScanAll(A).tab /\ B.environ = ScanAll(A).environ
              /\ A.refs = S.refs /\ A.err = S.err /\ A.lv = S.lv - 1
              /\ B.err = ScanAll(A).err /\ list = ScanAll(A).refs[S.lv]
              /\ \A b \in 1..B.lv : B.refs[b] = ScanAll(A).refs[b]
<1> DEFINE v == S.lv - 1
           A == [S EXCEPT !.lv = v]
           U == ScanAll(A)
           r == [U.refs EXCEPT ![S.lv] = <<>>]
           d == U.dead \ {S.lv}
           B == Made(U.tab, U.environ, r, d, U.lv, U.err)
           list == U.refs[S.lv]
<1>1. S \in State /\ S.lv \in 1..MaxLevel /\ v \in 0..MaxLevel /\ v + 1 = S.lv
  <2>1. S \in State
    BY DEF Sound
  <2>2. S.lv \in 0..MaxLevel
    BY <2>1 DEF State
  <2> QED
    BY <2>1, <2>2, MaxLevelType
<1>2. /\ S.tab \in [Names -> Seq(Cell)] /\ S.environ \in [Names -> Str \cup {None}]
      /\ S.refs \in [1..MaxLevel -> Seq(Entry)] /\ S.dead \in SUBSET (1..MaxLevel)
      /\ S.err \in BOOLEAN
  BY <1>1 DEF State
<1>3. A = Made(S.tab, S.environ, S.refs, S.dead, v, S.err)
  BY <1>1, Changed
<1> HIDE DEF A
<1>4. A \in State /\ A.lv = v /\ A.tab = S.tab /\ A.environ = S.environ /\ A.refs = S.refs
      /\ A.err = S.err
  <2> HIDE DEF v
  <2>1. Made(S.tab, S.environ, S.refs, S.dead, v, S.err) \in State
    BY <1>1, <1>2, MadeIs
  <2>2. A.lv = v /\ A.tab = S.tab /\ A.environ = S.environ /\ A.refs = S.refs /\ A.err = S.err
    BY <1>3, MadeHas
  <2> QED
    BY <1>3, <2>1, <2>2
<1>5. Sound(A, A.lv + 1)
  BY <1>1, <1>4 DEF Sound
<1>6. Step(A, U, A.lv)
  BY <1>5, ScanAllIs
<1>7. endparamscope(S) = ResetAll([U EXCEPT !.refs[S.lv] = <<>>, !.dead = @ \ {S.lv}], list)
  BY DEF endparamscope, A
<1> HIDE DEF U
<1>8. Sound(U, v) /\ U.lv = v /\ U \in State
  BY <1>4, <1>6 DEF Step, Sound
<1>9. /\ U.environ \in [Names -> Str \cup {None}]
      /\ U.refs \in [1..MaxLevel -> Seq(Entry)] /\ U.dead \in SUBSET (1..MaxLevel)
      /\ U.err \in BOOLEAN
  BY <1>8 DEF State
<1>10. /\ r \in [1..MaxLevel -> Seq(Entry)] /\ d \in SUBSET (1..MaxLevel) /\ list \in Seq(Entry)
       /\ \A b \in 1..v : r[b] = U.refs[b]
  <2> DEFINE c == S.lv
             e == <<>>
             f == [U.refs EXCEPT ![c] = e]
  <2>1. c \in 1..MaxLevel
    BY <1>1
  <2>2. e \in Seq(Entry)
    OBVIOUS
  <2>3. \A b \in 1..v : b \in 1..MaxLevel /\ b # c
    BY <1>1, MaxLevelType
  <2> HIDE DEF c, e, v
  <2>4. /\ f \in [1..MaxLevel -> Seq(Entry)] /\ U.refs[c] \in Seq(Entry)
        /\ \A b \in 1..v : f[b] = U.refs[b]
    BY <1>9, <2>1, <2>2, <2>3
  <2> HIDE DEF f
  <2>5. r = f /\ list = U.refs[c]
    BY DEF c, e, f
  <2>6. d \in SUBSET (1..MaxLevel)
    BY <1>9
  <2> QED
    BY <2>4, <2>5, <2>6
<1>11. [U EXCEPT !.refs[S.lv] = <<>>, !.dead = @ \ {S.lv}] = [U EXCEPT !.refs = r, !.dead = d]
  BY <1>8 DEF State
<1>12. list = U.refs[S.lv]
  OBVIOUS
<1> HIDE DEF r, d, list
<1>13. [U EXCEPT !.refs = r, !.dead = d] = B
  BY <1>8, ChangedDead
<1>14. Step(U, B, v)
  BY <1>8, <1>9, <1>10, OtherSound
<1>15. B.tab = U.tab /\ B.environ = U.environ /\ B.refs = r /\ B.err = U.err
  BY MadeHas
<1> HIDE DEF B
<1>16. Sound(B, v) /\ B.lv = v
  BY <1>8, <1>14 DEF Step
<1>17. endparamscope(S) = ResetAll(B, list)
  BY <1>7, <1>11, <1>13
<1>18. \A b \in 1..B.lv : B.refs[b] = U.refs[b]
  BY <1>10, <1>15, <1>16
<1> HIDE DEF v
<1>19. \E C, D : \E f \in Seq(Entry) :
          /\ endparamscope(S) = ResetAll(D, f)
          /\ Sound(C, C.lv + 1) /\ C.tab = S.tab /\ C.environ = S.environ
          /\ Sound(D, v) /\ D.lv = v
          /\ D.tab = ScanAll(C).tab /\ D.environ = ScanAll(C).environ
          /\ C.refs = S.refs /\ C.err = S.err /\ C.lv = v
          /\ D.err = ScanAll(C).err /\ f = ScanAll(C).refs[S.lv]
          /\ \A b \in 1..D.lv : D.refs[b] = ScanAll(C).refs[b]
  BY <1>4, <1>5, <1>10, <1>12, <1>15, <1>16, <1>17, <1>18 DEF U
<1> QED
  BY <1>19 DEF v

LEMMA endparamscopeParts ==
    ASSUME NEW S, Sound(S, S.lv), S.lv > 0
    PROVE  \E A, B : \E list \in Seq(Entry) :
              /\ endparamscope(S) = ResetAll(B, list)
              /\ Sound(A, A.lv + 1) /\ A.tab = S.tab /\ A.environ = S.environ
              /\ Sound(B, S.lv - 1) /\ B.lv = S.lv - 1
              /\ B.tab = ScanAll(A).tab /\ B.environ = ScanAll(A).environ
BY endparamscopeMore

\* No struct of the scope that ends is left.
LEMMA endparamscopeIs ==
    ASSUME NEW S, Sound(S, S.lv), S.lv > 0
    PROVE  LET T == endparamscope(S)
           IN  Sound(T, S.lv - 1) /\ T.lv = S.lv - 1
<1> DEFINE v == S.lv - 1
           T == endparamscope(S)
<1>0. PICK A, B : \E list \in Seq(Entry) :
              /\ T = ResetAll(B, list)
              /\ Sound(A, A.lv + 1) /\ A.tab = S.tab /\ A.environ = S.environ
              /\ Sound(B, v) /\ B.lv = v
              /\ B.tab = ScanAll(A).tab /\ B.environ = ScanAll(A).environ
  BY endparamscopeParts
<1>1. PICK list \in Seq(Entry) : T = ResetAll(B, list) /\ Sound(B, v) /\ B.lv = v
  BY <1>0
<1> HIDE DEF v, T
<1> DEFINE R == ResetAll(B, list)
<1>2. Step(B, R, v)
  BY <1>1, ResetAllIs
<1> HIDE DEF R
<1>3. Sound(R, v) /\ R.lv = v
  BY <1>1, <1>2 DEF Step
<1> QED
  BY <1>1, <1>3 DEF R, T, v

-----------------------------------------------------------------------------
(* Assignments in front of a command.                                      *)

LEMMA OutIs ==
    ASSUME NEW n, NEW c \in Cell, CellOK(n, c)
    PROVE  Out(c) \in Cell /\ CellOK(n, Out(c)) /\ Out(c).level = c.level
<1> DEFINE no == FALSE
<1>1. no \in BOOLEAN
  OBVIOUS
<1>2. Out(c) = WithEnv(c, no)
  BY DEF Out, WithEnv
<1> HIDE DEF no
<1>3. WithEnv(c, no) = Struct8(c.level, c.str, c.set, c.declared, c.ref, c.exported, no, c.base)
  BY CellChanged
<1>4. /\ c.level \in 0..MaxLevel /\ c.str \in Str /\ c.set \in BOOLEAN /\ c.declared \in BOOLEAN
      /\ c.ref \in BOOLEAN /\ c.exported \in BOOLEAN /\ c.base \in 0..MaxLevel
  BY CellIs
<1>5. Out(c) \in Cell
  BY <1>1, <1>2, <1>3, <1>4, Struct8In
<1>6. Out(c).level = c.level /\ Out(c).str = c.str /\ Out(c).set = c.set /\ Out(c).ref = c.ref
  BY <1>2, <1>3, Struct8Has
<1>7. CellOK(n, Out(c))
  BY <1>6 DEF CellOK
<1> QED
  BY <1>5, <1>6, <1>7

\* What is kept for the end of the command.
CopyOK(n, c, l) == c = None \/ (c \in Cell /\ CellOK(n, c) /\ c.level <= l)

LEMMA save_paramsIs ==
    ASSUME NEW l, NEW S, Sound(S, l), NEW n \in Names
    PROVE  /\ Step(S, save_params(S, n), l)
           /\ CopyOK(n, Copied(S, n), l)
<1>1. S \in State
  BY DEF Sound
<1>2. CASE S.tab[n] = <<>>
  BY <1>2 DEF save_params, Copied, CopyOK, Step
<1>3. CASE S.tab[n] # <<>>
  <2>1. There(S, <<n, 1>>)
    BY <1>1, <1>3, VisibleIs
  <2>2. Step(S, delenv(S, <<n, 1>>), l)
    BY <2>1, delenvStep
  <2>3. 1 \in 1..Len(S.tab[n])
    BY <1>1, <1>3, StateFacts
  <2>4. S.tab[n][1] \in Cell /\ CellOK(n, S.tab[n][1]) /\ S.tab[n][1].level <= l
    BY <2>3 DEF Sound, Chain
  <2>5. Copied(S, n) = Out(S.tab[n][1])
    BY <1>3 DEF Copied, Out
  <2>6. CopyOK(n, Out(S.tab[n][1]), l)
    <3> DEFINE c == S.tab[n][1]
    <3>1. c \in Cell /\ CellOK(n, c) /\ c.level <= l
      BY <2>4
    <3> HIDE DEF c
    <3>2. Out(c) \in Cell /\ CellOK(n, Out(c)) /\ Out(c).level = c.level
      BY <3>1, OutIs
    <3>3. CopyOK(n, Out(c), l)
      BY <3>1, <3>2 DEF CopyOK
    <3> QED
      BY <3>3 DEF c
  <2> QED
    BY <1>3, <2>2, <2>5, <2>6 DEF save_params
<1> QED
  BY <1>2, <1>3

\* A copy takes the place of structs of its scope and of those further in.
Placed(T, n, c) ==
    LET t == T.tab[n]
        hides == Greatest({0} \cup {i \in 1..Len(t) : t[i].level >= c.level})
    IN  [T EXCEPT !.tab[n] = <<c>> \o SubSeq(t, hides + 1, Len(t))]

LEMMA PlacedIs ==
    ASSUME NEW l, NEW T, Sound(T, l), NEW n \in Names, NEW c \in Cell, CellOK(n, c), c.level <= l
    PROVE  LET t == T.tab[n]
               U == Placed(T, n, c)
           IN  /\ Step(T, U, l) /\ There(U, <<n, 1>>)
               /\ \A m \in Names \ {n} : U.tab[m] = T.tab[m]
               /\ U.tab[n][1] = c /\ U.environ = T.environ
               /\ \A k \in 2..Len(U.tab[n]) : \E i \in 1..Len(t) : U.tab[n][k] = t[i]
<1> DEFINE t == T.tab[n]
           I == {0} \cup {i \in 1..Len(t) : t[i].level >= c.level}
           hides == Greatest(I)
           q == SubSeq(t, hides + 1, Len(t))
           new == <<c>> \o q
           u == [T.tab EXCEPT ![n] = new]
           U == [T EXCEPT !.tab[n] = new]
<1>1. /\ T \in State /\ \A m \in Names : Chain(m, T.tab[m], l)
      /\ T.tab \in [Names -> Seq(Cell)] /\ t \in Seq(Cell) /\ Len(t) \in Nat
      /\ T.environ \in [Names -> Str \cup {None}]
      /\ T.refs \in [1..MaxLevel -> Seq(Entry)] /\ T.dead \in SUBSET (1..MaxLevel)
      /\ T.lv \in 0..MaxLevel /\ T.err \in BOOLEAN
  BY StateFacts DEF Sound
<1>2. Chain(n, t, l)
  BY <1>1
<1> HIDE DEF t
<1>3. I \in SUBSET (0..Len(t)) /\ I # {}
  BY <1>1
<1>4. hides \in I /\ \A k \in I : k <= hides
  BY <1>1, <1>3, GreatestIs
<1>5. hides \in 0..Len(t)
  BY <1>3, <1>4
<1>6. \A i \in 1..Len(t) : i > hides => ~(t[i].level >= c.level)
  BY <1>4, <1>5
<1> HIDE DEF hides, I
<1>7. /\ q \in Seq(Cell) /\ Len(q) = Len(t) - hides
      /\ \A k \in 1..Len(q) : q[k] = t[k + hides]
  BY <1>1, <1>5
<1> HIDE DEF q
<1>8. /\ new \in Seq(Cell) /\ Len(new) = Len(q) + 1 /\ new[1] = c
      /\ \A k \in 2..Len(new) : new[k] = q[k - 1]
  BY <1>7
<1> HIDE DEF new
<1>9. \A k \in 2..Len(new) : /\ (k - 1) + hides \in 1..Len(t) /\ (k - 1) + hides > hides
                             /\ new[k] = t[(k - 1) + hides]
  <2>1. SUFFICES ASSUME NEW k \in 2..Len(new)
                 PROVE  /\ (k - 1) + hides \in 1..Len(t) /\ (k - 1) + hides > hides
                        /\ new[k] = t[(k - 1) + hides]
    OBVIOUS
  <2>2. Len(new) \in Nat /\ Len(q) \in Nat
    BY <1>7, <1>8
  <2>3. k - 1 \in 1..Len(q)
    BY <1>8, <2>2
  <2>4. new[k] = t[(k - 1) + hides]
    BY <1>7, <1>8, <2>3
  <2> DEFINE a == Len(t)
             b == Len(q)
             j == k - 1
  <2>5. a \in Nat /\ b = a - hides /\ hides \in 0..a /\ j \in 1..b
    BY <1>1, <1>5, <1>7, <2>3
  <2> HIDE DEF a, b, j
  <2>6. j + hides \in 1..a /\ j + hides > hides
    BY <2>5
  <2> QED
    BY <2>4, <2>6 DEF a, j
<1>10. Chain(n, new, l)
  <2>1. SUFFICES ASSUME NEW k \in 1..Len(new)
                 PROVE  /\ new[k] \in Cell /\ CellOK(n, new[k]) /\ new[k].level <= l
                        /\ k > 1 => new[k].level < new[k - 1].level
    BY DEF Chain
  <2>2. CASE k = 1
    BY <1>8, <2>2
  <2>3. CASE k # 1
    <3> DEFINE j == (k - 1) + hides
    <3>1. k \in 2..Len(new)
      BY <1>7, <1>8, <2>3
    <3>2. j \in 1..Len(t) /\ j > hides /\ new[k] = t[j]
      BY <1>9, <3>1
    <3>3. /\ t[j] \in Cell /\ CellOK(n, t[j]) /\ t[j].level <= l
          /\ j > 1 => t[j].level < t[j - 1].level
      BY <1>2, <3>2 DEF Chain
    <3>4. CASE k = 2
      <4>1. ~(t[j].level >= c.level)
        BY <1>6, <3>2
      <4>2. t[j].level \in 0..MaxLevel /\ c.level \in 0..MaxLevel
        BY <3>3, CellIs
      <4>3. t[j].level < c.level
        BY <4>1, <4>2, MaxLevelType
      <4>4. new[k - 1] = c
        BY <1>8, <3>4
      <4> QED
        BY <3>2, <3>3, <4>3, <4>4
    <3>5. CASE k # 2
      <4>1. k - 1 \in 2..Len(new) /\ ((k - 1) - 1) + hides = j - 1 /\ j > 1
        BY <1>5, <1>7, <1>8, <3>1, <3>5
      <4>2. new[k - 1] = t[j - 1]
        BY <1>9, <4>1
      <4> HIDE DEF j
      <4> QED
        BY <3>2, <3>3, <4>1, <4>2
    <3> QED
      BY <3>4, <3>5
  <2> QED
    BY <2>2, <2>3
<1>11. u \in [Names -> Seq(Cell)] /\ u[n] = new /\ \A m \in Names \ {n} : u[m] = T.tab[m]
  BY <1>1, <1>8
<1>12. U = [T EXCEPT !.tab = u]
  BY <1>1 DEF State
<1> HIDE DEF u, U
<1>13. U = Made(u, T.environ, T.refs, T.dead, T.lv, T.err)
  BY <1>1, <1>12, Changed
<1>14. U \in State /\ U.tab = u /\ U.lv = T.lv /\ U.environ = T.environ
  <2> DEFINE M == Made(u, T.environ, T.refs, T.dead, T.lv, T.err)
  <2>1. M \in State
    BY <1>1, <1>11, MadeIs
  <2>2. M.tab = u /\ M.lv = T.lv /\ M.environ = T.environ
    BY MadeHas
  <2> QED
    BY <1>13, <2>1, <2>2
<1>15. Step(T, U, l)
  BY <1>1, <1>10, <1>11, <1>14 DEF Step, Sound
<1>16. There(U, <<n, 1>>)
  BY <1>7, <1>8, <1>11, <1>14 DEF There
<1>17. \A k \in 2..Len(U.tab[n]) : \E i \in 1..Len(t) : U.tab[n][k] = t[i]
  BY <1>9, <1>11, <1>14
<1> QED
  BY <1>8, <1>11, <1>14, <1>15, <1>16, <1>17 DEF U, t, new, q, hides, I, Placed

LEMMA restore_paramsIs ==
    ASSUME NEW l, NEW S, Sound(S, l), NEW n \in Names, NEW copy, CopyOK(n, copy, l)
    PROVE  Step(S, restore_params(S, n, copy), l)
<1> DEFINE T == IF S.tab[n] = <<>> THEN S ELSE unsetparam_pm(S, <<n, 1>>)
           U == Placed(T, n, copy)
           back == copy.exported /\ copy.set
<1>1. restore_params(S, n, copy) =
        IF copy = None THEN T
        ELSE IF back THEN addenv(U, <<n, 1>>, copy.str) ELSE U
  BY Zenon DEF restore_params, Placed
<1>2. Step(S, T, l)
  <2>1. Step(S, S, l)
    BY DEF Step
  <2>2. <<n, 1>> \in Names \X (Nat \ {0})
    OBVIOUS
  <2>3. Step(S, unsetparam_pm(S, <<n, 1>>), l)
    BY <2>2, unsetStep
  <2> QED
    BY <2>1, <2>3
<1> HIDE DEF T
<1>3. Sound(T, l)
  BY <1>2 DEF Step
<1>4. ASSUME copy # None
      PROVE  Step(S, U, l) /\ Step(S, addenv(U, <<n, 1>>, copy.str), l)
  <2>1. copy \in Cell /\ CellOK(n, copy) /\ copy.level <= l
    BY <1>4 DEF CopyOK
  <2>2. Step(T, U, l) /\ There(U, <<n, 1>>)
    BY <1>3, <2>1, PlacedIs
  <2> HIDE DEF U
  <2>3. copy.str \in Str
    BY <2>1, CellIs
  <2> DEFINE W == addenv(U, <<n, 1>>, copy.str)
  <2>4. Step(U, W, l)
    BY <2>2, <2>3, addenvStep DEF Step
  <2> HIDE DEF W
  <2>5. Step(S, U, l)
    BY <1>2, <2>2, StepMore
  <2>6. Step(S, W, l)
    BY <2>4, <2>5, StepMore
  <2> QED
    BY <2>5, <2>6 DEF W
<1> HIDE DEF U, back
<1> QED
  BY <1>1, <1>2, <1>4

-----------------------------------------------------------------------------
(* Functions and commands under way.                                       *)

Frame == [func : BOOLEAN, n : Names \cup {None}, copy : Cell \cup {None}]

\* What the frame f keeps can be put back at the level l outside.
FrameOK(f, l) ==
    f \in Frame /\ (f.n # None => f.n \in Names /\ CopyOK(f.n, f.copy, l))

\* The level outside a frame, within which it is l.
Outside(f, l) == IF f.func THEN l - 1 ELSE l

\* d[i] is the level outside the frame i, d[0] the current one.
Depths(fr, l, d) ==
    /\ d \in [0..Len(fr) -> Nat]
    /\ d[0] = l
    /\ \A i \in 1..Len(fr) : d[i] = Outside(fr[i], d[i - 1]) /\ FrameOK(fr[i], d[i])

FramesOK(fr, l) == fr \in Seq(Frame) /\ \E d : Depths(fr, l, d)

LEMMA FramesEnd ==
    ASSUME NEW fr, NEW l \in Nat, FramesOK(fr, l), fr # <<>>
    PROVE  /\ Outside(Head(fr), l) \in Nat
           /\ FrameOK(Head(fr), Outside(Head(fr), l))
           /\ FramesOK(Tail(fr), Outside(Head(fr), l))
<1>1. fr \in Seq(Frame) /\ Len(fr) \in Nat /\ Len(fr) > 0 /\ Head(fr) = fr[1]
  BY DEF FramesOK
<1>2. PICK d : Depths(fr, l, d)
  BY DEF FramesOK
<1>3. /\ d \in [0..Len(fr) -> Nat] /\ d[0] = l
      /\ \A i \in 1..Len(fr) : d[i] = Outside(fr[i], d[i - 1]) /\ FrameOK(fr[i], d[i])
  BY <1>2 DEF Depths
<1>4. 1 \in 1..Len(fr) /\ 1 \in 0..Len(fr) /\ 1 - 1 = 0
  BY <1>1
<1>5. d[1] = Outside(fr[1], l) /\ FrameOK(fr[1], d[1]) /\ d[1] \in Nat
  BY <1>3, <1>4
<1> DEFINE g == Tail(fr)
           e == [i \in 0..Len(g) |-> d[i + 1]]
<1>6. g \in Seq(Frame) /\ Len(g) = Len(fr) - 1 /\ \A i \in 1..Len(g) : g[i] = fr[i + 1]
  BY <1>1
<1> HIDE DEF g
<1>7. \A i \in 0..Len(g) : i + 1 \in 0..Len(fr) /\ i + 1 \in 1..Len(fr)
  BY <1>1, <1>6
<1>8. e \in [0..Len(g) -> Nat] /\ e[0] = d[1] /\ \A i \in 0..Len(g) : e[i] = d[i + 1]
  BY <1>1, <1>3, <1>6, <1>7
<1> HIDE DEF e
<1>9. ASSUME NEW i \in 1..Len(g)
      PROVE  e[i] = Outside(g[i], e[i - 1]) /\ FrameOK(g[i], e[i])
  <2>1. i \in 0..Len(g) /\ i - 1 \in 0..Len(g) /\ (i - 1) + 1 = i /\ (i + 1) - 1 = i
        /\ i + 1 \in 1..Len(fr)
    BY <1>1, <1>6
  <2>2. e[i] = d[i + 1] /\ e[i - 1] = d[i] /\ g[i] = fr[i + 1]
    BY <1>6, <1>8, <2>1
  <2>3. d[i + 1] = Outside(fr[i + 1], d[i]) /\ FrameOK(fr[i + 1], d[i + 1])
    BY <1>3, <2>1
  <2> QED
    BY <2>2, <2>3
<1>10. Depths(g, d[1], e)
  BY <1>8, <1>9 DEF Depths
<1>11. FramesOK(g, d[1])
  BY <1>6, <1>10 DEF FramesOK
<1> QED
  BY <1>1, <1>5, <1>11 DEF g

LEMMA FramesBegin ==
    ASSUME NEW fr, NEW l \in Nat, FramesOK(fr, l), NEW f, FrameOK(f, l), NEW m \in Nat,
           Outside(f, m) = l
    PROVE  FramesOK(<<f>> \o fr, m)
<1>1. fr \in Seq(Frame) /\ Len(fr) \in Nat /\ f \in Frame
  BY DEF FramesOK, FrameOK
<1>2. PICK d : Depths(fr, l, d)
  BY DEF FramesOK
<1>3. /\ d \in [0..Len(fr) -> Nat] /\ d[0] = l
      /\ \A i \in 1..Len(fr) : d[i] = Outside(fr[i], d[i - 1]) /\ FrameOK(fr[i], d[i])
  BY <1>2 DEF Depths
<1> DEFINE g == <<f>> \o fr
           e == [i \in 0..Len(g) |-> IF i = 0 THEN m ELSE d[i - 1]]
<1>4. g \in Seq(Frame) /\ Len(g) = Len(fr) + 1 /\ g[1] = f /\ \A i \in 2..Len(g) : g[i] = fr[i - 1]
  BY <1>1
<1> HIDE DEF g
<1>5. \A i \in 1..Len(g) : i - 1 \in 0..Len(fr)
  BY <1>1, <1>4
<1>6. e \in [0..Len(g) -> Nat] /\ e[0] = m /\ \A i \in 1..Len(g) : e[i] = d[i - 1]
  <2>1. Len(g) \in Nat
    BY <1>1, <1>4
  <2>2. \A i \in 0..Len(g) : i = 0 \/ i \in 1..Len(g)
    BY <2>1
  <2> QED
    BY <1>3, <1>5, <2>1, <2>2
<1> HIDE DEF e
<1>7. ASSUME NEW i \in 1..Len(g)
      PROVE  e[i] = Outside(g[i], e[i - 1]) /\ FrameOK(g[i], e[i])
  <2>1. CASE i = 1
    BY <1>3, <1>4, <1>6, <2>1
  <2>2. CASE i # 1
    <3>1. i \in 2..Len(g) /\ i - 1 \in 1..Len(fr) /\ i - 1 \in 1..Len(g)
      BY <1>1, <1>4, <2>2
    <3>2. e[i] = d[i - 1] /\ e[i - 1] = d[(i - 1) - 1] /\ g[i] = fr[i - 1]
      BY <1>4, <1>6, <3>1
    <3>3. d[i - 1] = Outside(fr[i - 1], d[(i - 1) - 1]) /\ FrameOK(fr[i - 1], d[i - 1])
      BY <1>3, <3>1
    <3> QED
      BY <3>2, <3>3
  <2> QED
    BY <2>1, <2>2
<1>8. Depths(g, m, e)
  BY <1>6, <1>7 DEF Depths
<1>9. FramesOK(g, m)
  BY <1>4, <1>8 DEF FramesOK
<1> QED
  BY <1>9 DEF g

-----------------------------------------------------------------------------
(* The types of the variables.                                             *)

StateOK == Sound(S0, locallevel)

\* The structs of each name are a chain of falling levels, and what is kept
\* for the end of a command fits in below it.
IInv == StateOK /\ FramesOK(frames, locallevel)

LEMMA S0Is ==
    /\ S0 = Made(tab, environ, scoperefs, dead, locallevel, errflag)
    /\ S0.tab = tab /\ S0.environ = environ /\ S0.lv = locallevel
BY DEF S0, Made

LEMMA BecomeIs ==
    ASSUME NEW l, NEW S, Sound(S, l), S.lv = l, Become(S)
    PROVE  StateOK' /\ locallevel' = l
<1> DEFINE x == errflag'
           M == Made(S.tab, S.environ, S.refs, S.dead, S.lv, x)
<1>1. S \in State
  BY DEF Sound
<1>2. /\ S.environ \in [Names -> Str \cup {None}]
      /\ S.refs \in [1..MaxLevel -> Seq(Entry)] /\ S.dead \in SUBSET (1..MaxLevel)
      /\ S.err \in BOOLEAN
  BY <1>1 DEF State
<1>3. x \in BOOLEAN
  <2>1. errflag' = (S.err /\ frames' # <<>>)
    BY DEF Become
  <2> QED
    BY <1>2, <2>1
<1> HIDE DEF x
<1>4. Step(S, M, l)
  BY <1>2, <1>3, OtherSound
<1>5. tab' = S.tab /\ environ' = S.environ /\ scoperefs' = S.refs /\ dead' = S.dead
      /\ locallevel' = S.lv
  BY DEF Become
<1>6. (S0)' = M
  BY <1>5 DEF S0, Made, x
<1> HIDE DEF M
<1> QED
  BY <1>4, <1>5, <1>6 DEF StateOK, Step

LEMMA DoIs ==
    ASSUME IInv, NEW S, Step(S0, S, locallevel), Do(S)
    PROVE  IInv' /\ locallevel' = locallevel
<1>1. Sound(S, locallevel) /\ S.lv = locallevel
  BY S0Is DEF Step
<1>2. StateOK' /\ locallevel' = locallevel
  BY <1>1, BecomeIs DEF Do
<1>3. frames' = frames
  BY DEF Do
<1> QED
  BY <1>2, <1>3 DEF IInv

\* A state in which nothing but the level is greater.
LEMMA DeeperIs ==
    ASSUME NEW S, Sound(S, S.lv), NEW k \in 0..MaxLevel, S.lv <= k
    PROVE  Sound([S EXCEPT !.lv = k], k) /\ [S EXCEPT !.lv = k].lv = k
<1> DEFINE M == Made(S.tab, S.environ, S.refs, S.dead, k, S.err)
<1>1. S \in State
  BY DEF Sound
<1>2. /\ S.tab \in [Names -> Seq(Cell)] /\ S.environ \in [Names -> Str \cup {None}]
      /\ S.refs \in [1..MaxLevel -> Seq(Entry)] /\ S.dead \in SUBSET (1..MaxLevel)
      /\ S.lv \in 0..MaxLevel /\ S.err \in BOOLEAN
  BY <1>1 DEF State
<1>3. [S EXCEPT !.lv = k] = M
  BY <1>1, Changed
<1>4. M \in State
  BY <1>2, MadeIs
<1>5. M.lv = k /\ M.tab = S.tab
  BY MadeHas
<1> HIDE DEF M
<1>6. ASSUME NEW n \in Names PROVE Chain(n, S.tab[n], k)
  <2>1. Chain(n, S.tab[n], S.lv)
    BY DEF Sound
  <2>2. ASSUME NEW i \in 1..Len(S.tab[n]) PROVE S.tab[n][i].level <= k
    <3>1. S.tab[n][i] \in Cell /\ S.tab[n][i].level <= S.lv
      BY <2>1 DEF Chain
    <3>2. S.tab[n][i].level \in 0..MaxLevel
      BY <3>1, CellIs
    <3> QED
      BY <1>2, <3>1, <3>2, MaxLevelType
  <2> QED
    BY <2>1, <2>2 DEF Chain
<1> QED
  BY <1>3, <1>4, <1>5, <1>6 DEF Sound

LEMMA ValuesIs ==
    ASSUME NEW n \in Names
    PROVE  /\ \A v \in Values[n] : v \in Str /\ v \in Str \cup {None}
           /\ \A v \in Given(n) : v \in Str \cup {None}
BY DEF Str, Strings, Given

\* typeset on a parameter that is not made a reference.
LEMMA DeclareIs ==
    ASSUME StateOK, NEW n \in Names, NEW F, NEW G, "n" \notin F, "n" \notin G,
           "l" \in F => Declarable(S0, n), NEW v \in Str \cup {None}
    PROVE  Step(S0, typeset_single(S0, n, Visible(S0, n), Flags(F), Flags(G), v), locallevel)
<1> DEFINE on == Flags(F)
           off == Flags(G)
           o == Visible(S0, n)
           m == Name(n, Meant(S0, o, on, off))
<1>1. Sound(S0, S0.lv) /\ S0 \in State /\ S0.lv = locallevel
  BY S0Is DEF StateOK, Sound
<1>2. on \in Opts /\ ~on.ref /\ ~off.ref /\ (on.local => "l" \in F)
  BY FlagsIs
<1> HIDE DEF on, off
<1>3. o # None => There(S0, o)
  BY <1>1, VisibleIs
<1>4. Fits(m, on)
  BY <1>2 DEF Fits
<1>5. LocalOK(S0, m, on)
  <2>1. CASE on.local
    BY <1>1, <1>2, <2>1, DeclaredOK
  <2>2. CASE ~on.local
    BY <2>2, NotLocalOK
  <2> QED
    BY <2>1, <2>2
<1> HIDE DEF o
<1>6. Step(S0, typeset_single(S0, n, o, on, off, v), S0.lv)
  BY <1>1, <1>3, <1>4, <1>5, typeset_singleIs
<1> QED
  BY <1>1, <1>6 DEF o, on, off

LEMMA InitIs ==
    ASSUME Init
    PROVE  IInv
<1> DEFINE t == [n \in Names |-> <<>>]
           e == [n \in Names |-> None]
           r == [b \in 1..MaxLevel |-> <<>>]
           z == 0
           no == FALSE
           M == Made(t, e, r, {}, z, no)
<1>1. /\ tab = t /\ environ = e /\ scoperefs = r /\ dead = {} /\ locallevel = z
      /\ frames = <<>> /\ errflag = no
  BY DEF Init
<1>2. t \in [Names -> Seq(Cell)] /\ \A n \in Names : t[n] = <<>>
  OBVIOUS
<1>3. e \in [Names -> Str \cup {None}] /\ r \in [1..MaxLevel -> Seq(Entry)]
      /\ {} \in SUBSET (1..MaxLevel)
  OBVIOUS
<1>4. z \in 0..MaxLevel /\ no \in BOOLEAN /\ z = 0
  BY MaxLevelType
<1> HIDE DEF t, e, r, z, no
<1>5. S0 = M
  BY <1>1, S0Is
<1>6. M \in State /\ M.tab = t
  <2>1. M \in State
    BY <1>2, <1>3, <1>4, MadeIs
  <2>2. M.tab = t
    BY MadeHas
  <2> QED
    BY <2>1, <2>2
<1> HIDE DEF M
<1>7. \A n \in Names : Chain(n, t[n], z)
  BY <1>2 DEF Chain
<1>8. StateOK
  BY <1>1, <1>5, <1>6, <1>7 DEF StateOK, Sound
<1>9. FramesOK(<<>>, z)
  <2> DEFINE d == [i \in 0..0 |-> 0]
  <2>1. d \in [0..Len(<<>>) -> Nat] /\ d[0] = z
    BY <1>4
  <2> HIDE DEF d
  <2>2. Depths(<<>>, z, d)
    BY <2>1 DEF Depths
  <2> QED
    BY <2>2 DEF FramesOK
<1> QED
  BY <1>1, <1>8, <1>9 DEF IInv

LEMMA InvIs ==
    ASSUME IInv
    PROVE  /\ Sound(S0, S0.lv) /\ S0 \in State /\ S0.lv = locallevel
           /\ locallevel \in 0..MaxLevel /\ locallevel \in Nat
           /\ FramesOK(frames, locallevel)
<1>1. Sound(S0, S0.lv) /\ S0 \in State /\ S0.lv = locallevel
  BY S0Is DEF IInv, StateOK, Sound
<1>2. S0.lv \in 0..MaxLevel
  BY <1>1 DEF State
<1> QED
  BY <1>1, <1>2, MaxLevelType DEF IInv

LEMMA AssignInv ==
    ASSUME IInv, NEW n \in Names, NEW v \in Values[n], Assign(n, v)
    PROVE  IInv' /\ locallevel' = locallevel
<1>1. v \in Str /\ FALSE \in BOOLEAN
  BY ValuesIs
<1>2. Step(S0, assignsparam(S0, n, v, FALSE).S, locallevel)
  <2> DEFINE no == FALSE
  <2>1. no \in BOOLEAN
    OBVIOUS
  <2> HIDE DEF no
  <2>2. Step(S0, assignsparam(S0, n, v, no).S, locallevel)
    BY <1>1, <2>1, InvIs, assignsparamIs
  <2> QED
    BY <2>2 DEF no
<1> QED
  BY <1>2, DoIs DEF Assign

LEMMA ForInv ==
    ASSUME IInv, NEW n \in Names, NEW v \in Values[n], For(n, v)
    PROVE  IInv' /\ locallevel' = locallevel
<1>1. v \in Str \cap Names
  BY ValuesIs DEF For
<1>2. Step(S0, setloopvar(S0, n, v), locallevel)
  BY <1>1, InvIs, setloopvarIs
<1> QED
  BY <1>2, DoIs DEF For

\* The top of t.
LEMMA TopIs ==
    ASSUME NEW l, NEW S, Sound(S, l), NEW n \in Names
    PROVE  /\ S \in State /\ Len(S.tab[n]) \in Nat /\ S.environ \in [Names -> Str \cup {None}]
           /\ S.tab[n] # <<>> <=> Len(S.tab[n]) > 0
           /\ Len(S.tab[n]) > 0 => 1 \in 1..Len(S.tab[n])
           /\ There(S, <<n, 1>>) <=> Len(S.tab[n]) > 0
           /\ At(S, <<n, 1>>) = S.tab[n][1]
           /\ \A k \in 1..Len(S.tab[n]) : S.tab[n][k] \in Cell /\ CellOK(n, S.tab[n][k])
                                          /\ S.tab[n][k].str \in Str
<1>1. S \in State
  BY DEF Sound
<1>2. Len(S.tab[n]) \in Nat /\ S.tab[n] \in Seq(Cell) /\ S.environ \in [Names -> Str \cup {None}]
  BY <1>1, StateFacts
<1>3. S.tab[n] # <<>> <=> Len(S.tab[n]) > 0
  BY <1>2
<1>4. There(S, <<n, 1>>) <=> Len(S.tab[n]) > 0
  BY <1>2 DEF There
<1>5. \A k \in 1..Len(S.tab[n]) : S.tab[n][k] \in Cell /\ CellOK(n, S.tab[n][k])
  BY DEF Sound, Chain
<1>6. \A k \in 1..Len(S.tab[n]) : S.tab[n][k].str \in Str
  BY <1>5, CellIs
<1> QED
  BY <1>1, <1>2, <1>3, <1>4, <1>5, <1>6 DEF At

LEMMA NoRef ==
    ASSUME Refs = {}, NEW l, NEW S, Sound(S, l), NEW p, There(S, p)
    PROVE  ~At(S, p).ref /\ ~IsRef(At(S, p))
<1>1. S \in State
  BY DEF Sound
<1>2. At(S, p) = S.tab[p[1]][p[2]] /\ p[1] \in Names /\ p[2] \in 1..Len(S.tab[p[1]])
  BY <1>1, ThereIs
<1>3. CellOK(p[1], At(S, p))
  BY <1>2 DEF Sound, Chain
<1>4. ~At(S, p).ref
  BY <1>3 DEF CellOK
<1> QED
  BY <1>4 DEF IsRef

\* `local' is never applied to a reference that leads to a hidden parameter.
NoHidden == ~Redeclared \/ Refs = {}

LEMMA MayDeclareIs ==
    ASSUME NoHidden, StateOK, NEW n \in Names, MayDeclare(n)
    PROVE  Declarable(S0, n)
<1>1. CASE ~Redeclared
  BY <1>1, S0Is DEF MayDeclare, Declarable
<1>2. CASE Refs = {}
  <2> DEFINE p == <<n, 1>>
             yes == TRUE
  <2>1. Sound(S0, locallevel) /\ yes \in BOOLEAN
    BY DEF StateOK
  <2>2. S0.tab[n] # <<>> => There(S0, p)
    BY <2>1, TopIs
  <2>3. p \notin Names \X (Nat \ {0, 1})
    OBVIOUS
  <2> HIDE DEF p, yes
  <2>4. S0.tab[n] # <<>> => ~IsRef(At(S0, p))
    BY <1>2, <2>1, <2>2, NoRef
  <2>5. S0.tab[n] # <<>> => Resolve(S0, p, None, yes) = p
    BY <2>1, <2>2, <2>4, ResolveSelf
  <2>6. S0.tab[n] # <<>> => Resolve(S0, p, None, yes) \notin Names \X (Nat \ {0, 1})
    BY <2>3, <2>5
  <2> QED
    BY <2>6 DEF Declarable, p, yes
<1> QED
  BY <1>1, <1>2 DEF NoHidden

LEMMA LocalInv ==
    ASSUME NoHidden, IInv, NEW n \in Names, NEW v \in Given(n), Local(n, v)
    PROVE  IInv' /\ locallevel' = locallevel
<1>1. v \in Str \cup {None} /\ StateOK
  BY ValuesIs DEF IInv
<1>2. Declarable(S0, n)
  BY <1>1, MayDeclareIs DEF Local
<1>3. "n" \notin {"l"} /\ "n" \notin {}
  OBVIOUS
<1>4. Step(S0, typeset_single(S0, n, Visible(S0, n), Flags({"l"}), Flags({}), v), locallevel)
  BY <1>1, <1>2, <1>3, DeclareIs
<1> QED
  BY <1>4, DoIs DEF Local

LEMMA LocalExportInv ==
    ASSUME NoHidden, IInv, NEW n \in Names, NEW v \in Given(n), LocalExport(n, v)
    PROVE  IInv' /\ locallevel' = locallevel
<1>1. v \in Str \cup {None} /\ StateOK
  BY ValuesIs DEF IInv
<1>2. Declarable(S0, n)
  BY <1>1, MayDeclareIs DEF LocalExport
<1>3. "n" \notin {"l", "x"} /\ "n" \notin {}
  OBVIOUS
<1>4. Step(S0, typeset_single(S0, n, Visible(S0, n), Flags({"l", "x"}), Flags({}), v), locallevel)
  BY <1>1, <1>2, <1>3, DeclareIs
<1> QED
  BY <1>4, DoIs DEF LocalExport

LEMMA GlobalInv ==
    ASSUME IInv, NEW n \in Names, NEW v \in Values[n], Global(n, v)
    PROVE  IInv' /\ locallevel' = locallevel
<1>1. v \in Str \cup {None} /\ StateOK
  BY ValuesIs DEF IInv
<1>2. "n" \notin {} /\ "l" \notin {}
  OBVIOUS
<1>3. Step(S0, typeset_single(S0, n, Visible(S0, n), Flags({}), Flags({}), v), locallevel)
  BY <1>1, <1>2, DeclareIs
<1> QED
  BY <1>3, DoIs DEF Global

LEMMA ExportInv ==
    ASSUME IInv, NEW n \in Names, NEW v \in Given(n), Export(n, v)
    PROVE  IInv' /\ locallevel' = locallevel
<1>1. v \in Str \cup {None} /\ StateOK
  BY ValuesIs DEF IInv
<1>2. "n" \notin {} /\ "n" \notin {"x"} /\ "l" \notin {"x"}
  OBVIOUS
<1>3. Step(S0, typeset_single(S0, n, Visible(S0, n), Flags({"x"}), Flags({}), v), locallevel)
  BY <1>1, <1>2, DeclareIs
<1> QED
  BY <1>3, DoIs DEF Export

LEMMA UnexportInv ==
    ASSUME IInv, NEW n \in Names, Unexport(n)
    PROVE  IInv' /\ locallevel' = locallevel
<1>1. None \in Str \cup {None} /\ StateOK
  BY DEF IInv
<1>2. "n" \notin {} /\ "n" \notin {"x"} /\ "l" \notin {}
  OBVIOUS
<1>3. Step(S0, typeset_single(S0, n, Visible(S0, n), Flags({}), Flags({"x"}), None), locallevel)
  BY <1>1, <1>2, DeclareIs
<1> QED
  BY <1>3, DoIs DEF Unexport

LEMMA MakeReference ==
    ASSUME IInv, NEW n \in Refs, NEW F, "n" \in F, NEW v \in Given(n), n \in Names
    PROVE  Step(S0, typeset_n(S0, n, Flags(F), v), locallevel)
<1> DEFINE on == Flags(F)
<1>1. v \in Str \cup {None}
  BY ValuesIs
<1>2. on \in Opts /\ on.ref
  BY FlagsIs
<1> HIDE DEF on
<1>3. Fits(n, on)
  BY <1>2 DEF Fits
<1>4. Step(S0, typeset_n(S0, n, on, v), S0.lv)
  BY <1>1, <1>2, <1>3, InvIs, typeset_nIs
<1> QED
  BY <1>4, InvIs DEF on

LEMMA ReferenceInv ==
    ASSUME IInv, NEW n \in Names, NEW v \in Given(n), Reference(n, v) \/ GlobalReference(n, v)
    PROVE  IInv'
<1>1. n \in Refs
  BY DEF Reference, GlobalReference
<1>2. "n" \in {"l", "n"} /\ "n" \in {"n"}
  OBVIOUS
<1>3. Step(S0, typeset_n(S0, n, Flags({"l", "n"}), v), locallevel)
      /\ Step(S0, typeset_n(S0, n, Flags({"n"}), v), locallevel)
  BY <1>1, <1>2, MakeReference
<1> QED
  BY <1>3, DoIs DEF Reference, GlobalReference

LEMMA DereferenceInv ==
    ASSUME IInv, NEW n \in Names, Dereference(n)
    PROVE  IInv'
<1> DEFINE on == Flags({"l"})
           off == Flags({"n"})
           o == Visible(S0, n)
<1>1. on \in Opts /\ ~on.ref /\ off.ref
  <2>1. "n" \notin {"l"} /\ "n" \in {"n"}
    OBVIOUS
  <2> QED
    BY <2>1, FlagsIs
<1> HIDE DEF on, off
<1>2. o # None => There(S0, o)
  BY InvIs, VisibleIs
<1> DEFINE p == Meant(S0, o, on, off)
<1>3. Used(S0, p, on) \/ LocalOK(S0, Name(n, p), on)
  BY <1>1, InvIs, DereferenceOK
<1>4. Fits(Name(n, p), on)
  BY <1>1 DEF Fits
<1> DEFINE w == None
<1>5. w \in Str \cup {None}
  OBVIOUS
<1> HIDE DEF o, w
<1>6. Step(S0, typeset_single(S0, n, o, on, off, w), S0.lv)
  BY <1>2, <1>3, <1>4, <1>5, InvIs, typeset_singleIs
<1>7. Step(S0, typeset_single(S0, n, Visible(S0, n), Flags({"l"}), Flags({"n"}), None), locallevel)
  BY <1>6, InvIs DEF o, w, on, off
<1> QED
  BY <1>7, DoIs DEF Dereference

LEMMA UnsetInv ==
    ASSUME IInv, NEW n \in Names, Unset(n) \/ UnsetReference(n)
    PROVE  IInv' /\ locallevel' = locallevel
<1>1. Step(S0, unset(S0, n), locallevel)
  BY InvIs, unsetIs
<1>2. Step(S0, unsetparam_pm(S0, <<n, 1>>), locallevel)
  <2>1. <<n, 1>> \in Names \X (Nat \ {0})
    OBVIOUS
  <2> QED
    BY <2>1, InvIs, unsetStep
<1> QED
  BY <1>1, <1>2, DoIs DEF Unset, UnsetReference

\* A frame is begun in a state that is sound, at the level m.
LEMMA BeginInv ==
    ASSUME IInv, NEW f, FrameOK(f, locallevel), frames' = <<f>> \o frames,
           NEW S, Step(S0, S, locallevel), NEW m,
           m = (IF f.func THEN locallevel + 1 ELSE locallevel), m <= MaxLevel,
           Become([S EXCEPT !.lv = m])
    PROVE  IInv'
<1>1. Sound(S, S.lv) /\ S.lv = locallevel /\ locallevel \in 0..MaxLevel
  BY InvIs DEF Step
<1>2. m \in 0..MaxLevel /\ locallevel <= m /\ m \in Nat /\ Outside(f, m) = locallevel
  BY <1>1, MaxLevelType DEF Outside
<1> DEFINE T == [S EXCEPT !.lv = m]
<1>3. Sound(T, m) /\ T.lv = m
  BY <1>1, <1>2, DeeperIs
<1>6. Become(T)
  OBVIOUS
<1> HIDE DEF T
<1>4. StateOK' /\ locallevel' = m
  BY <1>3, <1>6, BecomeIs
<1>5. FramesOK(<<f>> \o frames, m)
  BY <1>2, InvIs, FramesBegin
<1> QED
  BY <1>4, <1>5 DEF IInv

LEMMA CallInv ==
    ASSUME IInv, Call
    PROVE  IInv'
<1> DEFINE yes == TRUE
           f == [func |-> yes, n |-> None, copy |-> None]
           m == locallevel + 1
<1>1. frames' = <<f>> \o frames /\ m <= MaxLevel /\ Become([S0 EXCEPT !.lv = m])
  BY InvIs, MaxLevelType, S0Is DEF Call
<1>2. yes \in BOOLEAN
  OBVIOUS
<1>3. f.func = yes /\ f.n = None
  OBVIOUS
<1>4. yes
  OBVIOUS
<1> HIDE DEF yes
<1>5. f \in Frame
  BY <1>2 DEF Frame
<1> HIDE DEF f
<1>6. FrameOK(f, locallevel)
  BY <1>3, <1>5 DEF FrameOK
<1>7. m = (IF f.func THEN locallevel + 1 ELSE locallevel)
  BY <1>3, <1>4
<1> HIDE DEF m
<1>8. Step(S0, S0, locallevel)
  BY InvIs DEF Step
<1> QED
  BY <1>1, <1>6, <1>7, <1>8, BeginInv

LEMMA PrefixedInv ==
    ASSUME IInv, NEW n \in Names, NEW v \in Values[n], NEW func \in BOOLEAN, Prefixed(n, v, func)
    PROVE  IInv'
<1> DEFINE c == Copied(S0, n)
           f == [func |-> func, n |-> n, copy |-> c]
           T == save_params(S0, n)
           U == assignsparam(T, n, v, func).S
           m == IF func THEN locallevel + 1 ELSE locallevel
<1>1. frames' = <<f>> \o frames /\ (func => locallevel < MaxLevel)
      /\ Become([U EXCEPT !.lv = IF func THEN @ + 1 ELSE @])
  BY DEF Prefixed
<1>2. v \in Str
  BY ValuesIs
<1>3. Step(S0, T, locallevel) /\ CopyOK(n, c, locallevel)
  BY InvIs, save_paramsIs
<1> HIDE DEF T, c
<1>4. Sound(T, T.lv) /\ T.lv = locallevel
  BY <1>3, InvIs DEF Step
<1>5. Step(T, U, locallevel)
  BY <1>2, <1>4, assignsparamIs
<1> HIDE DEF U
<1>6. Step(S0, U, locallevel)
  BY <1>3, <1>5, StepMore
<1>7. U.lv = locallevel
  BY <1>6, InvIs DEF Step
<1>8. [U EXCEPT !.lv = IF func THEN @ + 1 ELSE @] = [U EXCEPT !.lv = m]
  BY <1>7
<1>9. m <= MaxLevel
  BY <1>1, InvIs, MaxLevelType
<1>10. f.func = func /\ f.n = n /\ f.copy = c
  OBVIOUS
<1>11. f \in Frame
  <2>1. c \in Cell \cup {None}
    BY <1>3 DEF CopyOK
  <2> QED
    BY <2>1 DEF Frame
<1> HIDE DEF f
<1>12. FrameOK(f, locallevel)
  BY <1>3, <1>10, <1>11 DEF FrameOK
<1>13. m = (IF f.func THEN locallevel + 1 ELSE locallevel)
  BY <1>10
<1> HIDE DEF m
<1> QED
  BY <1>1, <1>6, <1>8, <1>9, <1>12, <1>13, BeginInv

LEMMA ReturnInv ==
    ASSUME IInv, Return
    PROVE  IInv'
<1> DEFINE f == Head(frames)
           l == Outside(f, locallevel)
           S == IF f.func THEN endparamscope(S0) ELSE S0
           T == IF f.n = None THEN S ELSE restore_params(S, f.n, f.copy)
<1>1. frames # <<>> /\ frames' = Tail(frames) /\ Become(T)
  BY DEF Return
<1>2. l \in Nat /\ FrameOK(f, l) /\ FramesOK(Tail(frames), l)
  BY <1>1, InvIs, FramesEnd
<1> HIDE DEF f
<1>3. Sound(S, l) /\ S.lv = l
  <2>1. CASE f.func
    <3>1. l = locallevel - 1
      BY <2>1 DEF Outside
    <3>2. S0.lv > 0 /\ S0.lv - 1 = l
      BY <1>2, <3>1, InvIs
    <3> HIDE DEF l
    <3> DEFINE E == endparamscope(S0)
    <3>3. Sound(E, S0.lv - 1) /\ E.lv = S0.lv - 1
      BY <3>2, InvIs, endparamscopeIs
    <3> HIDE DEF E
    <3>4. S = E
      BY <2>1 DEF E
    <3> HIDE DEF S
    <3> QED
      BY <3>2, <3>3, <3>4
  <2>2. CASE ~f.func
    BY <2>2, InvIs DEF Outside
  <2> QED
    BY <2>1, <2>2
<1> HIDE DEF S, l
<1>4. Step(S, T, l)
  <2>1. CASE f.n = None
    BY <1>3, <2>1 DEF Step
  <2>2. CASE f.n # None
    <3>1. f.n \in Names /\ CopyOK(f.n, f.copy, l)
      BY <1>2, <2>2 DEF FrameOK
    <3>2. Step(S, restore_params(S, f.n, f.copy), l)
      BY <1>3, <3>1, restore_paramsIs
    <3> QED
      BY <2>2, <3>2
  <2> QED
    BY <2>1, <2>2
<1> HIDE DEF T
<1>5. Sound(T, l) /\ T.lv = l
  BY <1>3, <1>4 DEF Step
<1>6. StateOK' /\ locallevel' = l
  BY <1>1, <1>5, BecomeIs
<1> QED
  BY <1>1, <1>2, <1>6 DEF IInv

LEMMA NextInv ==
    ASSUME NoHidden, IInv, [Next]_vars
    PROVE  IInv'
<1>1. CASE Next
  <2>1. ASSUME NEW n \in Names, NEW v \in Values[n], Assign(n, v) \/ For(n, v) \/ Global(n, v)
        PROVE  IInv'
    BY <2>1, AssignInv, ForInv, GlobalInv
  <2>2. ASSUME NEW n \in Names, NEW v \in Given(n),
               Local(n, v) \/ LocalExport(n, v) \/ Export(n, v)
        PROVE  IInv'
    BY <2>2, LocalInv, LocalExportInv, ExportInv
  <2>3. ASSUME NEW n \in Names, NEW v \in Given(n), Reference(n, v) \/ GlobalReference(n, v)
        PROVE  IInv'
    BY <2>3, ReferenceInv
  <2>4. ASSUME NEW n \in Names,
               Unexport(n) \/ Dereference(n) \/ Unset(n) \/ UnsetReference(n)
        PROVE  IInv'
    BY <2>4, UnexportInv, DereferenceInv, UnsetInv
  <2>5. ASSUME NEW n \in Names, NEW v \in Values[n], NEW func \in BOOLEAN, Prefixed(n, v, func)
        PROVE  IInv'
    BY <2>5, PrefixedInv
  <2>6. CASE Call
    BY <2>6, CallInv
  <2>7. CASE Return
    BY <2>7, ReturnInv
  <2> QED
    BY <1>1, <2>1, <2>2, <2>3, <2>4, <2>5, <2>6, <2>7 DEF Next
<1>2. CASE UNCHANGED vars
  BY <1>2 DEF vars, IInv, StateOK, S0
<1> QED
  BY <1>1, <1>2

LEMMA IInvTypeOK ==
    ASSUME IInv
    PROVE  TypeOK
<1>1. /\ tab \in [Names -> Seq(Cell)] /\ environ \in [Names -> Str \cup {None}]
      /\ dead \in SUBSET (1..MaxLevel) /\ locallevel \in 0..MaxLevel /\ errflag \in BOOLEAN
  BY InvIs, S0Is, MadeHas DEF State
<1>2. Cell \subseteq Struct
  <2>1. Str \subseteq Strings \cup Names \cup {""}
    BY DEF Str
  <2> QED
    BY <2>1, Zenon DEF Cell, Struct
<1>3. tab \in [Names -> Seq(Struct)]
  <2>1. Seq(Cell) \subseteq Seq(Struct)
    <3> HIDE DEF Cell, Struct
    <3> QED
      BY <1>2
  <2> QED
    BY <1>1, <2>1
<1>4. environ \in [Names -> Strings \cup {"", None}]
  <2>1. Str \cup {None} = Strings \cup {"", None}
    BY DEF Str
  <2> QED
    BY <1>1, <2>1
<1>5. ASSUME NEW n \in Names, NEW i \in 1..Len(tab[n])
      PROVE  /\ tab[n][i].level <= locallevel
             /\ i > 1 => tab[n][i].level < tab[n][i - 1].level
  <2>1. Chain(n, tab[n], locallevel)
    BY S0Is DEF IInv, StateOK, Sound
  <2> QED
    BY <2>1 DEF Chain
<1> QED
  BY <1>1, <1>3, <1>4, <1>5 DEF TypeOK

\* The variables have their types, and the structs of a name are of falling
\* levels, none of a scope that has ended (createparam(), endparamscope(),
\* restore_params()), as long as `local' is not applied to a reference that
\* leads to a hidden parameter, or there are no references.
THEOREM TypesCorrect ==
    ASSUME ~Redeclared \/ Refs = {}
    PROVE  Spec => []TypeOK
<1>1. Init => IInv
  BY InitIs
<1>2. IInv /\ [Next]_vars => IInv'
  BY NextInv DEF NoHidden
<1>3. IInv => TypeOK
  BY IInvTypeOK
<1> QED
  BY <1>1, <1>2, <1>3, PTL DEF Spec

-----------------------------------------------------------------------------
(* The environment.  From here on there are no references.                 *)

InEnv(s) == s.env
Known(s) == s.set \/ s.declared
ToExport(s) == s.exported /\ s.set /\ s.str # ""

\* e is what commands are given of the name that has the structs t: the value
\* of the visible one, or nothing.
EnvOK(t, e) ==
    /\ Len(t) = 0 => e = None
    /\ Len(t) > 0 => e = IF InEnv(t[1]) THEN t[1].str ELSE None
    /\ \A i \in 2..Len(t) : ~InEnv(t[i])

ExpOK(t) == Len(t) > 0 /\ ToExport(t[1]) => InEnv(t[1])

Fine(S, n) == EnvOK(S.tab[n], S.environ[n]) /\ ExpOK(S.tab[n])

\* From S to T nothing but n is changed.
Only(S, T, n) ==
    \A m \in Names \ {n} : T.tab[m] = S.tab[m] /\ T.environ[m] = S.environ[m]

\* The structs u are of the levels of t, or of one in L.
LevelsFrom(t, u, L) ==
    \A k \in 1..Len(u) : u[k].level \in L \/ \E i \in 1..Len(t) : u[k].level = t[i].level

LEMMA ShownEnv ==
    ASSUME NEW c \in Cell
    PROVE  InEnv(Shown(c)) /\ Shown(c).str = c.str /\ Shown(c).level = c.level
<1> DEFINE yes == TRUE
           a == WithEnv(c, yes)
           s == WithExported(a, yes)
<1>1. Shown(c) = s
  BY DEF Shown, WithEnv, WithExported
<1>2. yes
  OBVIOUS
<1> HIDE DEF yes
<1>3. a = Struct8(c.level, c.str, c.set, c.declared, c.ref, c.exported, yes, c.base)
  BY CellChanged
<1> HIDE DEF a
<1>4. s = Struct8(c.level, c.str, c.set, c.declared, c.ref, yes, yes, c.base)
  BY <1>3, Struct8Changed
<1> HIDE DEF s
<1>5. s.level = c.level /\ s.str = c.str /\ s.env = yes
  BY <1>4, Struct8Has
<1>6. InEnv(s)
  BY <1>2, <1>5 DEF InEnv
<1> QED
  BY <1>1, <1>5, <1>6

LEMMA OutEnv ==
    ASSUME NEW c \in Cell
    PROVE  ~InEnv(Out(c)) /\ Out(c).str = c.str /\ Out(c).level = c.level
<1> DEFINE no == FALSE
           s == WithEnv(c, no)
<1>1. Out(c) = s
  BY DEF Out, WithEnv
<1>2. ~no
  OBVIOUS
<1> HIDE DEF no
<1>3. s = Struct8(c.level, c.str, c.set, c.declared, c.ref, c.exported, no, c.base)
  BY CellChanged
<1> HIDE DEF s
<1>4. s.level = c.level /\ s.str = c.str /\ s.env = no
  BY <1>3, Struct8Has
<1>5. ~InEnv(s)
  BY <1>2, <1>4 DEF InEnv
<1> QED
  BY <1>1, <1>4, <1>5

LEMMA BareEnv ==
    ASSUME NEW n, NEW c \in Cell, CellOK(n, c)
    PROVE  ~InEnv(Bare(c)) /\ ~ToExport(Bare(c)) /\ ~Known(Bare(c)) /\ Bare(c).level = c.level
<1> DEFINE no == FALSE
           u == Unset1(c)
           s == WithEnv(u, no)
<1>1. Bare(c) = s
  BY DEF Bare, Out, WithEnv
<1>2. ~no
  OBVIOUS
<1> HIDE DEF no
<1>3. u \in Cell /\ ~u.set /\ ~u.declared /\ u.level = c.level
  BY Unset1Is
<1> HIDE DEF u
<1>4. s = Struct8(u.level, u.str, u.set, u.declared, u.ref, u.exported, no, u.base)
  BY <1>3, CellChanged
<1> HIDE DEF s
<1>5. s.level = u.level /\ s.set = u.set /\ s.declared = u.declared /\ s.env = no
  BY <1>4, Struct8Has
<1>6. ~InEnv(s)
  BY <1>2, <1>5 DEF InEnv
<1>7. ~ToExport(s)
  BY <1>3, <1>5 DEF ToExport
<1>8. ~Known(s)
  BY <1>3, <1>5 DEF Known
<1> QED
  BY <1>1, <1>3, <1>5, <1>6, <1>7, <1>8

LEMMA ValuedEnv ==
    ASSUME NEW c \in Cell, NEW v \in Str
    PROVE  LET s == Valued(c, v)
           IN  /\ s.level = c.level /\ s.str = v /\ (InEnv(s) <=> InEnv(c)) /\ s.env = c.env
               /\ s.exported = c.exported /\ s.ref = c.ref /\ s \in Cell /\ Known(s)
<1> DEFINE yes == TRUE
           s == WithSet(WithStr(c, v), yes)
<1>1. Valued(c, v) = s
  BY DEF Valued
<1>2. yes \in BOOLEAN
  OBVIOUS
<1>3. yes
  OBVIOUS
<1> HIDE DEF yes
<1>4. /\ s \in Cell /\ s.level = c.level /\ s.str = v /\ s.set = yes
      /\ s.ref = c.ref /\ s.env = c.env /\ s.exported = c.exported
  BY <1>2, ValuedFields
<1> HIDE DEF s
<1>5. InEnv(s) <=> InEnv(c)
  BY <1>4 DEF InEnv
<1>6. Known(s)
  BY <1>3, <1>4 DEF Known
<1> QED
  BY <1>1, <1>4, <1>5, <1>6

LEMMA NewEnv ==
    ASSUME NEW n \in Names, NEW on, Fits(n, on)
    PROVE  ~InEnv(New(on)) /\ ~ToExport(New(on)) /\ Known(New(on)) /\ New(on).level = 0
<1> DEFINE s == New(on)
<1>1. s.level = 0 /\ s.str = "" /\ s.set /\ ~s.env
  BY NewIs
<1> HIDE DEF s
<1>2. ~InEnv(s) /\ ~ToExport(s) /\ Known(s)
  BY <1>1 DEF InEnv, ToExport, Known
<1> QED
  BY <1>1, <1>2 DEF s

LEMMA AgainEnv ==
    ASSUME NEW n, NEW c \in Cell, Blank(c), NEW on, Fits(n, on)
    PROVE  LET s == Again(c, on)
           IN  /\ s \in Cell /\ s.level = c.level /\ s.str = c.str /\ (InEnv(s) <=> InEnv(c))
               /\ ~ToExport(s) /\ Known(s)
<1> DEFINE s == Again(c, on)
           yes == TRUE
<1>1. s \in Cell /\ s.level = c.level /\ Blank(s) /\ s.env = c.env
  BY AgainIs
<1>2. s.set = yes
  BY <1>1 DEF Again, Cell
<1>3. yes
  OBVIOUS
<1> HIDE DEF s, yes
<1>4. s.str = c.str /\ ~ToExport(s)
  BY <1>1 DEF Blank, ToExport
<1>5. InEnv(s) <=> InEnv(c)
  BY <1>1 DEF InEnv
<1>6. Known(s)
  BY <1>2, <1>3 DEF Known
<1> QED
  BY <1>1, <1>4, <1>5, <1>6 DEF s

LEMMA StrSome ==
    ASSUME NEW v \in Str
    PROVE  v # None
BY ConstantsType DEF Str, Strings

\* A use of n means its visible struct.
LEMMA fetchAlone ==
    ASSUME Refs = {}, NEW l, NEW S, Sound(S, l), NEW n \in Names
    PROVE  fetchvalue(S, n) = IF Len(S.tab[n]) > 0 /\ Known(S.tab[n][1]) THEN <<n, 1>> ELSE None
<1> DEFINE p == <<n, 1>>
           no == FALSE
<1>1. /\ S \in State
      /\ S.tab[n] # <<>> <=> Len(S.tab[n]) > 0
      /\ There(S, p) <=> Len(S.tab[n]) > 0
      /\ At(S, p) = S.tab[n][1]
  BY TopIs
<1>2. no \in BOOLEAN
  OBVIOUS
<1> HIDE DEF no
<1>3. CASE Len(S.tab[n]) > 0
  <2>1. There(S, p) /\ ~IsRef(At(S, p)) /\ p # None
    <3>1. There(S, p)
      BY <1>1, <1>3
    <3> HIDE DEF p
    <3> QED
      BY <3>1, NoRef, ThereSome
  <2>2. Resolve(S, p, None, no) = p
    <3> HIDE DEF p
    <3> QED
      BY <1>2, <2>1, ResolveSelf
  <2>3. getnode(S, n) = p
    BY <1>1, <1>3, <2>2 DEF getnode, no
  <2> HIDE DEF p
  <2>4. fetchvalue(S, n) = IF Known(At(S, p)) THEN p ELSE None
    BY <2>1, <2>3 DEF fetchvalue, IfThere, IsThere, Known
  <2> QED
    BY <1>1, <1>3, <2>4 DEF p
<1>4. CASE ~(Len(S.tab[n]) > 0)
  <2>1. getnode(S, n) = None
    BY <1>1, <1>4 DEF getnode
  <2> QED
    BY <1>4, <2>1 DEF fetchvalue, IfThere, IsThere
<1> QED
  BY <1>3, <1>4

\* From S to T the name n is changed, and its visible struct is in the
\* environment as it should be.
Turns(S, T, n, L) ==
    Only(S, T, n) /\ LevelsFrom(S.tab[n], T.tab[n], L) /\ Fine(T, n)

LEMMA TurnsMore ==
    ASSUME NEW S, NEW T, NEW U, NEW n, NEW L, NEW M, Only(S, T, n),
           LevelsFrom(S.tab[n], T.tab[n], L), Turns(T, U, n, M), L \subseteq M
    PROVE  Turns(S, U, n, M)
<1>1. Only(S, U, n)
  BY DEF Only, Turns
<1>2. LevelsFrom(S.tab[n], U.tab[n], M)
  <2> DEFINE t == S.tab[n]
             w == T.tab[n]
             u == U.tab[n]
  <2>1. /\ \A k \in 1..Len(w) : w[k].level \in L \/ \E i \in 1..Len(t) : w[k].level = t[i].level
        /\ \A k \in 1..Len(u) : u[k].level \in M \/ \E i \in 1..Len(w) : u[k].level = w[i].level
    BY DEF LevelsFrom, Turns
  <2> HIDE DEF t, w, u
  <2>2. ASSUME NEW k \in 1..Len(u)
        PROVE  u[k].level \in M \/ \E i \in 1..Len(t) : u[k].level = t[i].level
    BY <2>1, Zenon
  <2>3. LevelsFrom(t, u, M)
    BY <2>2, Zenon DEF LevelsFrom
  <2> QED
    BY <2>3 DEF t, u
<1> QED
  BY <1>1, <1>2 DEF Turns

\* The value of the visible struct.
LEMMA ValueEnv ==
    ASSUME Refs = {}, NEW l, NEW S, Sound(S, l), NEW n \in Names, Len(S.tab[n]) > 0,
           EnvOK(S.tab[n], S.environ[n]), NEW v \in Str, NEW x \in BOOLEAN
    PROVE  Turns(S, assignstrvalue(S, <<n, 1>>, v, x), n, {})
<1> DEFINE i == 1
           t == S.tab[n]
           c == t[1]
           s == Valued(c, v)
           P == Put(S, <<n, i>>, s)
           A == addenv(P, <<n, i>>, v)
           out == s.env \/ s.exported \/ x
           T == assignstrvalue(S, <<n, 1>>, v, x)
<1>1. /\ S \in State /\ Len(t) \in Nat /\ S.environ \in [Names -> Str \cup {None}]
      /\ 1 \in 1..Len(t) /\ There(S, <<n, 1>>) /\ At(S, <<n, 1>>) = c
      /\ \A k \in 1..Len(t) : t[k] \in Cell /\ CellOK(n, t[k]) /\ t[k].str \in Str
  BY TopIs
<1>2. ~c.ref /\ c \in Cell /\ CellOK(n, c)
  <2>1. ~At(S, <<n, 1>>).ref
    BY <1>1, NoRef
  <2> QED
    BY <1>1, <2>1
<1>3. /\ s.level = c.level /\ s.str = v /\ (InEnv(s) <=> InEnv(c)) /\ s.env = c.env
      /\ s.exported = c.exported /\ s.ref = c.ref /\ s \in Cell /\ CellOK(n, s)
  <2> HIDE DEF c
  <2>1. /\ s.level = c.level /\ s.str = v /\ (InEnv(s) <=> InEnv(c)) /\ s.env = c.env
        /\ s.exported = c.exported /\ s.ref = c.ref /\ s \in Cell
    BY <1>2, ValuedEnv
  <2>2. CellOK(n, s)
    BY <1>2, ValuedIs
  <2> QED
    BY <2>1, <2>2
<1>4. T = IF out THEN A ELSE P
  <2>1. s = [At(S, <<n, 1>>) EXCEPT !.str = v, !.set = TRUE]
    BY <1>1 DEF Valued, WithSet, WithStr
  <2> HIDE DEF s
  <2> QED
    BY <1>2, <1>3, <2>1 DEF assignstrvalue
<1>5. i = 1 /\ i \in 1..Len(t)
  BY <1>1
<1> HIDE DEF s, c, i, T, out
<1>6. /\ P.environ = S.environ
      /\ \A m \in Names \ {n} : P.tab[m] = S.tab[m]
      /\ Len(P.tab[n]) = Len(t)
      /\ \A k \in 1..Len(t) : P.tab[n][k] = IF k = i THEN s ELSE t[k]
  BY <1>1, <1>3, PutIs
<1>7. Sound(P, l)
  <2>1. i \in 1..Len(t) => s \in Cell /\ CellOK(n, s) /\ s.level = t[i].level
    BY <1>3, <1>5 DEF c
  <2>2. Step(S, P, l)
    BY <2>1, PutSound
  <2> QED
    BY <2>2 DEF Step
<1>8. CASE out
  <2>1. There(P, <<n, i>>) /\ At(P, <<n, i>>) = s
    BY <1>5, <1>6, <1>1 DEF There, At
  <2> DEFINE p == <<n, i>>
  <2>2. p[1] = n /\ p[2] = i
    OBVIOUS
  <2> HIDE DEF p, P
  <2>3. LET B == addenv(P, p, v)
        IN  /\ Step(P, B, l)
            /\ B.environ = [P.environ EXCEPT ![p[1]] = v]
            /\ \A m \in Names \ {p[1]} : B.tab[m] = P.tab[m]
            /\ Len(B.tab[p[1]]) = Len(P.tab[p[1]])
            /\ \A k \in 1..Len(P.tab[p[1]]) :
                  B.tab[p[1]][k] = IF k = p[2] THEN Shown(At(P, p))
                                   ELSE P.tab[p[1]][k]
    BY <1>7, <2>1, addenvIs DEF p
  <2>4. A = addenv(P, p, v)
    BY DEF p
  <2> HIDE DEF A
  <2>5. /\ A.environ = [S.environ EXCEPT ![n] = v]
        /\ \A m \in Names \ {n} : A.tab[m] = S.tab[m]
        /\ Len(A.tab[n]) = Len(t)
        /\ \A k \in 1..Len(t) : A.tab[n][k] = IF k = i THEN Shown(s) ELSE t[k]
    BY <1>6, <2>1, <2>2, <2>3, <2>4 DEF p
  <2>6. A.environ[n] = v /\ \A m \in Names \ {n} : A.environ[m] = S.environ[m]
    BY <1>1, <2>5
  <2>7. InEnv(Shown(s)) /\ Shown(s).str = v /\ Shown(s).level = c.level
    BY <1>3, ShownEnv
  <2>8. A.tab[n][1] = Shown(s) /\ \A k \in 2..Len(t) : A.tab[n][k] = t[k]
    BY <1>5, <1>1, <2>5
  <2>9. EnvOK(A.tab[n], A.environ[n])
    BY <1>1, <2>5, <2>6, <2>7, <2>8 DEF EnvOK
  <2>10. ExpOK(A.tab[n])
    BY <2>7, <2>8 DEF ExpOK
  <2>11. LevelsFrom(t, A.tab[n], {})
    BY <1>1, <1>5, <2>5, <2>7 DEF LevelsFrom, c
  <2>12. Only(S, A, n)
    BY <2>5, <2>6 DEF Only
  <2> QED
    BY <1>4, <1>8, <2>9, <2>10, <2>11, <2>12 DEF Turns, Fine, T
<1>9. CASE ~out
  <2> HIDE DEF P, A
  <2>1. ~InEnv(s) /\ ~InEnv(c) /\ ~s.exported
    BY <1>3, <1>9 DEF out, InEnv
  <2>2. P.tab[n][1] = s /\ \A k \in 2..Len(t) : P.tab[n][k] = t[k]
    BY <1>1, <1>5, <1>6
  <2>3. S.environ[n] = None
    BY <1>1, <2>1 DEF EnvOK, c
  <2>4. EnvOK(P.tab[n], P.environ[n])
    BY <1>1, <1>6, <2>1, <2>2, <2>3 DEF EnvOK
  <2>5. ExpOK(P.tab[n])
    BY <2>1, <2>2 DEF ExpOK, ToExport
  <2>6. LevelsFrom(t, P.tab[n], {})
    BY <1>1, <1>3, <1>5, <1>6 DEF LevelsFrom, c
  <2>7. Only(S, P, n)
    BY <1>6 DEF Only
  <2> QED
    BY <1>4, <1>9, <2>4, <2>5, <2>6, <2>7 DEF Turns, Fine, T
<1> QED
  BY <1>8, <1>9

\* A struct that is known is found and assigned to.
LEMMA AssignFoundEnv ==
    ASSUME Refs = {}, NEW l, NEW S, Sound(S, l), NEW n \in Names, Len(S.tab[n]) > 0,
           Known(S.tab[n][1]), EnvOK(S.tab[n], S.environ[n]), NEW v \in Str, NEW x \in BOOLEAN
    PROVE  LET a == AssignFound(S, n, v, x)
           IN  Turns(S, a.S, n, {}) /\ a.p = <<n, 1>>
<1> DEFINE p == <<n, 1>>
<1>1. fetchvalue(S, n) = p /\ There(S, p)
  BY fetchAlone, TopIs
<1>2. Turns(S, assignstrvalue(S, p, v, x), n, {})
  BY ValueEnv
<1> HIDE DEF p
<1>3. ~At(S, p).ref /\ p # None
  BY <1>1, NoRef, ThereSome
<1>4. AssignFound(S, n, v, x) = Result(assignstrvalue(S, p, v, x), p)
  BY <1>1, <1>3 DEF AssignFound, AssignAt
<1> QED
  BY <1>2, <1>4, ResultIs DEF p

\* unsetparam_pm() of the visible struct.
LEMMA UnsetEnv ==
    ASSUME NEW l, NEW S, Sound(S, l), NEW n \in Names, Len(S.tab[n]) > 0,
           EnvOK(S.tab[n], S.environ[n])
    PROVE  Turns(S, unsetparam_pm(S, <<n, 1>>), n, {})
<1> DEFINE i == 1
           t == S.tab[n]
           T == unsetparam_pm(S, <<n, i>>)
<1>1. /\ S \in State /\ Len(t) \in Nat /\ S.environ \in [Names -> Str \cup {None}]
      /\ 1 \in 1..Len(t)
      /\ \A k \in 1..Len(t) : t[k] \in Cell /\ CellOK(n, t[k]) /\ t[k].str \in Str
  BY TopIs
<1>2. i = 1 /\ i \in Nat \ {0}
  OBVIOUS
<1> HIDE DEF i
<1>3. /\ Step(S, T, l)
      /\ \A m \in Names \ {n} : T.tab[m] = S.tab[m]
      /\ IF Stays1(S, S.tab[n][i]) THEN Kept(S, T, n, i) ELSE Uncovered(S, T, n, i)
  <2>1. i \in Nat \ {0} /\ Sound(S, l)
    BY <1>2
  <2> HIDE DEF t
  <2> QED
    BY <2>1, unsetparam_pmIs
<1> HIDE DEF T
<1>4. (IF InEnv(t[1]) THEN None ELSE S.environ[n]) = None
  BY <1>1 DEF EnvOK
<1>5. CASE Stays1(S, S.tab[n][i])
  <2>1. /\ Len(T.tab[n]) = Len(t)
        /\ T.tab[n][1] = Bare(t[1])
        /\ \A k \in 2..Len(t) : T.tab[n][k] = t[k]
        /\ T.environ = IF InEnv(t[1]) THEN [S.environ EXCEPT ![n] = None] ELSE S.environ
    BY <1>1, <1>2, <1>3, <1>5 DEF Kept, InEnv
  <2>2. ~InEnv(Bare(t[1])) /\ ~ToExport(Bare(t[1])) /\ Bare(t[1]).level = t[1].level
    <3> DEFINE c == t[1]
    <3>1. c \in Cell /\ CellOK(n, c)
      BY <1>1
    <3> HIDE DEF c
    <3>2. ~InEnv(Bare(c)) /\ ~ToExport(Bare(c)) /\ Bare(c).level = c.level
      BY <3>1, BareEnv
    <3> QED
      BY <3>2 DEF c
  <2>3. T.environ[n] = None /\ \A m \in Names \ {n} : T.environ[m] = S.environ[m]
    BY <1>1, <1>4, <2>1
  <2>4. EnvOK(T.tab[n], T.environ[n])
    BY <1>1, <2>1, <2>2, <2>3 DEF EnvOK
  <2>5. ExpOK(T.tab[n])
    BY <2>1, <2>2 DEF ExpOK
  <2>6. LevelsFrom(t, T.tab[n], {})
    <3>1. \A k \in 1..Len(T.tab[n]) : T.tab[n][k].level = t[k].level
      BY <1>1, <2>1, <2>2
    <3> QED
      BY <2>1, <3>1 DEF LevelsFrom
  <2> QED
    BY <1>2, <1>3, <2>3, <2>4, <2>5, <2>6 DEF Turns, Fine, Only, T
<1>6. CASE ~Stays1(S, S.tab[n][i])
  <2>1. /\ Len(T.tab[n]) = Len(t) - 1
        /\ \A k \in 1..Len(T.tab[n]) :
              T.tab[n][k] = IF k = 1 /\ t[k + 1].exported THEN Shown(t[k + 1]) ELSE t[k + 1]
        /\ T.environ = IF 1 < Len(t) /\ t[2].exported
                       THEN [S.environ EXCEPT ![n] = t[2].str]
                       ELSE IF InEnv(t[1]) THEN [S.environ EXCEPT ![n] = None] ELSE S.environ
    BY <1>1, <1>2, <1>3, <1>6 DEF Uncovered, InEnv
  <2>2. \A m \in Names \ {n} : T.environ[m] = S.environ[m]
    BY <1>1, <2>1
  <2>3. \A k \in 1..Len(T.tab[n]) : k + 1 \in 1..Len(t) /\ k + 1 \in 2..Len(t)
    BY <1>1, <2>1
  <2>4. \A k \in 1..Len(t) : Shown(t[k]).level = t[k].level /\ InEnv(Shown(t[k]))
                             /\ Shown(t[k]).str = t[k].str
    BY <1>1, ShownEnv
  <2>5. \A k \in 2..Len(T.tab[n]) : ~InEnv(T.tab[n][k])
    <3>1. SUFFICES ASSUME NEW k \in 2..Len(T.tab[n]) PROVE ~InEnv(T.tab[n][k])
      OBVIOUS
    <3>2. k \in 1..Len(T.tab[n]) /\ k # 1 /\ k + 1 \in 2..Len(t)
      BY <1>1, <2>1
    <3>3. T.tab[n][k] = t[k + 1]
      BY <2>1, <3>2
    <3> QED
      BY <3>2, <3>3 DEF EnvOK
  <2>6. LevelsFrom(t, T.tab[n], {})
    <3>1. \A k \in 1..Len(T.tab[n]) : k + 1 \in 1..Len(t) /\ T.tab[n][k].level = t[k + 1].level
      BY <2>1, <2>3, <2>4
    <3> QED
      BY <3>1 DEF LevelsFrom
  <2>7. CASE 1 < Len(t) /\ t[2].exported
    <3>1. Len(T.tab[n]) > 0 /\ T.tab[n][1] = Shown(t[2]) /\ 2 \in 1..Len(t)
      BY <1>1, <2>1, <2>7
    <3>2. T.environ[n] = t[2].str
      BY <1>1, <2>1, <2>7
    <3>3. EnvOK(T.tab[n], T.environ[n])
      BY <2>4, <2>5, <3>1, <3>2 DEF EnvOK
    <3>4. ExpOK(T.tab[n])
      BY <2>4, <3>1 DEF ExpOK
    <3> QED
      BY <1>2, <1>3, <2>2, <2>6, <3>3, <3>4 DEF Turns, Fine, Only, T
  <2>8. CASE ~(1 < Len(t) /\ t[2].exported)
    <3>1. T.environ[n] = None
      BY <1>1, <1>4, <2>1, <2>8
    <3>2. Len(T.tab[n]) > 0 => T.tab[n][1] = t[2] /\ ~t[2].exported /\ 2 \in 2..Len(t)
      BY <1>1, <2>1, <2>8
    <3>3. Len(T.tab[n]) > 0 => ~InEnv(T.tab[n][1]) /\ ~ToExport(T.tab[n][1])
      BY <3>2 DEF EnvOK, ToExport
    <3>4. EnvOK(T.tab[n], T.environ[n])
      BY <2>5, <3>1, <3>3 DEF EnvOK
    <3>5. ExpOK(T.tab[n])
      BY <3>3 DEF ExpOK
    <3> QED
      BY <1>2, <1>3, <2>2, <2>6, <3>4, <3>5 DEF Turns, Fine, Only, T
  <2> QED
    BY <2>7, <2>8
<1> QED
  BY <1>5, <1>6

LEMMA TurnsWider ==
    ASSUME NEW S, NEW T, NEW n, NEW L, NEW M, L \subseteq M, Turns(S, T, n, L)
    PROVE  Turns(S, T, n, M)
<1>1. LevelsFrom(S.tab[n], T.tab[n], M)
  BY DEF LevelsFrom, Turns
<1> QED
  BY <1>1 DEF Turns

LEMMA NoFit ==
    ASSUME Refs = {}, NEW n, NEW on, Fits(n, on)
    PROVE  ~on.ref
BY DEF Fits

\* Without references createparam() is about the struct n itself.
LEMMA createAlone ==
    ASSUME Refs = {}, NEW l, NEW S, Sound(S, l), NEW n \in Names, NEW on
    PROVE  /\ createparam(S, n, on) = CreateFrom(S, n, on, None)
           /\ Len(S.tab[n]) = 0 =>
                createparam(S, n, on) = Result(Hidden(S, n, None, on), <<n, 1>>)
           /\ Len(S.tab[n]) > 0 /\ (S.tab[n][1].level = S.lv \/ ~on.local) /\ ~S.tab[n][1].set =>
                createparam(S, n, on) = Result(Reused(S, <<n, 1>>, on), <<n, 1>>)
           /\ Len(S.tab[n]) > 0 /\ ~(S.tab[n][1].level = S.lv \/ ~on.local) =>
                createparam(S, n, on) = Result(Hidden(S, n, <<n, 1>>, on), <<n, 1>>)
<1> DEFINE p == <<n, 1>>
           o == Visible(S, n)
<1>1. /\ S \in State
      /\ Len(S.tab[n]) \in Nat
      /\ S.tab[n] # <<>> <=> Len(S.tab[n]) > 0
      /\ There(S, p) <=> Len(S.tab[n]) > 0
      /\ At(S, p) = S.tab[n][1]
  BY TopIs
<1>2. IF Len(S.tab[n]) > 0 THEN o = p /\ There(S, p) /\ p # None ELSE o = None
  <2>1. IF S.tab[n] = <<>> THEN o = None ELSE o = p /\ There(S, p) /\ p # None
    BY <1>1, VisibleIs
  <2> HIDE DEF o, p
  <2> QED
    BY <1>1, <2>1
<1>3. o # None => ~At(S, o).ref
  <2> HIDE DEF o, p
  <2> QED
    BY <1>2, NoRef
<1>4. createparam(S, n, on) = CreateFrom(S, n, on, None)
  BY <1>3 DEF createparam, IsThere
<1>5. ~IsThere(S, None)
  BY DEF IsThere
<1>6. CreateFrom(S, n, on, None) =
          IF o # None /\ (At(S, o).level = S.lv \/ ~on.local)
          THEN IF At(S, o).set THEN Result(S, None)
               ELSE Result(Reused(S, o, on), o)
          ELSE Result(Hidden(S, n, o, on), p)
  BY <1>5 DEF CreateFrom
<1> HIDE DEF o
<1>7. CASE Len(S.tab[n]) > 0
  <2>1. o = p /\ p # None /\ At(S, o) = S.tab[n][1]
    BY <1>1, <1>2, <1>7
  <2> HIDE DEF p
  <2>2. Len(S.tab[n]) # 0
    BY <1>7
  <2> QED
    BY <1>4, <1>6, <2>1, <2>2 DEF p
<1>8. CASE ~(Len(S.tab[n]) > 0)
  <2>1. o = None
    BY <1>2, <1>8
  <2> QED
    BY <1>4, <1>6, <1>8, <2>1
<1> QED
  BY <1>7, <1>8

\* There is a visible struct of n that was given a value or declared.
Top(T, n) == Len(T.tab[n]) > 0 /\ Known(T.tab[n][1])

\* createparam() of a name that has no struct.
LEMMA AloneEnv ==
    ASSUME NEW l, NEW S, Sound(S, l), NEW n \in Names, NEW on, Fits(n, on),
           Len(S.tab[n]) = 0, EnvOK(S.tab[n], S.environ[n])
    PROVE  LET T == Hidden(S, n, None, on)
           IN  Turns(S, T, n, {0}) /\ Top(T, n) /\ T \in State /\ T.lv = S.lv
<1> DEFINE q == None
           T == Hidden(S, n, q, on)
           a == New(on)
<1>0. q = None /\ Above(S, n, q)
  BY DEF Above
<1>1. S.environ[n] = None
  BY DEF EnvOK
<1> HIDE DEF q
<1>2. /\ T \in State /\ T.lv = S.lv
      /\ \A m \in Names \ {n} : T.tab[m] = S.tab[m]
      /\ Len(T.tab[n]) = 1
      /\ T.tab[n][1] = a
      /\ T.environ = S.environ
  <2>1. Hides(S, T, n, q, on)
    BY <1>0, HiddenIs
  <2> HIDE DEF T
  <2> QED
    BY <1>0, <2>1 DEF Hides
<1> HIDE DEF T
<1>3. ~InEnv(a) /\ ~ToExport(a) /\ Known(a) /\ a.level = 0
  BY NewEnv
<1> HIDE DEF a
<1>4. EnvOK(T.tab[n], T.environ[n])
  BY <1>1, <1>2, <1>3 DEF EnvOK
<1>5. ExpOK(T.tab[n])
  BY <1>2, <1>3 DEF ExpOK
<1>6. LevelsFrom(S.tab[n], T.tab[n], {0})
  BY <1>2, <1>3 DEF LevelsFrom
<1>7. Only(S, T, n)
  BY <1>2 DEF Only
<1>8. There(T, <<n, 1>>) /\ Top(T, n)
  BY <1>2, <1>3 DEF There, Top
<1> QED
  BY <1>0, <1>2, <1>4, <1>5, <1>6, <1>7, <1>8 DEF Turns, Fine, T

\* createparam() of a name whose visible struct is unset.
LEMMA ReusedEnv ==
    ASSUME NEW l, NEW S, Sound(S, l), NEW n \in Names, NEW on, Fits(n, on),
           Len(S.tab[n]) > 0, ~S.tab[n][1].set, EnvOK(S.tab[n], S.environ[n])
    PROVE  LET T == Reused(S, <<n, 1>>, on)
           IN  Turns(S, T, n, {}) /\ Top(T, n) /\ T \in State /\ T.lv = S.lv
<1> DEFINE t == S.tab[n]
           c == t[1]
           i == 1
           s == Again(c, on)
           T == Put(S, <<n, i>>, s)
<1>1. /\ S \in State /\ Len(t) \in Nat
      /\ 1 \in 1..Len(t) /\ At(S, <<n, 1>>) = c
      /\ c \in Cell /\ CellOK(n, c)
  BY TopIs
<1>2. Reused(S, <<n, 1>>, on) = T
  BY <1>1 DEF Reused, Again
<1>3. Blank(c)
  BY <1>1 DEF CellOK, Blank
<1> HIDE DEF c
<1>4. s \in Cell /\ s.level = c.level /\ s.str = c.str /\ (InEnv(s) <=> InEnv(c))
      /\ ~ToExport(s) /\ Known(s)
  BY <1>1, <1>3, AgainEnv
<1>5. i = 1
  OBVIOUS
<1> HIDE DEF s, i
<1>6. /\ T \in State /\ T.environ = S.environ /\ T.lv = S.lv
      /\ \A m \in Names \ {n} : T.tab[m] = S.tab[m]
      /\ Len(T.tab[n]) = Len(t)
      /\ \A k \in 1..Len(t) : T.tab[n][k] = IF k = i THEN s ELSE t[k]
  BY <1>1, <1>4, PutIs
<1> HIDE DEF T
<1>7. T.tab[n][1] = s /\ \A k \in 2..Len(t) : T.tab[n][k] = t[k]
  BY <1>1, <1>5, <1>6
<1>8. EnvOK(T.tab[n], T.environ[n])
  BY <1>1, <1>4, <1>6, <1>7 DEF EnvOK, c
<1>9. ExpOK(T.tab[n])
  BY <1>4, <1>7 DEF ExpOK
<1>10. LevelsFrom(t, T.tab[n], {})
  BY <1>1, <1>4, <1>5, <1>6 DEF LevelsFrom, c
<1>11. Only(S, T, n)
  BY <1>6 DEF Only
<1>12. There(T, <<n, 1>>) /\ Top(T, n)
  BY <1>1, <1>4, <1>6, <1>7 DEF There, Top
<1> QED
  BY <1>2, <1>6, <1>8, <1>9, <1>10, <1>11, <1>12 DEF Turns, Fine

\* createparam() of a local parameter over the visible struct.
LEMMA OverEnv ==
    ASSUME NEW l, NEW S, Sound(S, l), NEW n \in Names, NEW on, Fits(n, on),
           Len(S.tab[n]) > 0, EnvOK(S.tab[n], S.environ[n])
    PROVE  LET T == Hidden(S, n, <<n, 1>>, on)
           IN  Turns(S, T, n, {0}) /\ Top(T, n) /\ T \in State /\ T.lv = S.lv
<1> DEFINE t == S.tab[n]
           c == t[1]
           q == <<n, 1>>
           T == Hidden(S, n, q, on)
           a == New(on)
<1>1. /\ S \in State /\ Len(t) \in Nat /\ S.environ \in [Names -> Str \cup {None}]
      /\ 1 \in 1..Len(t) /\ There(S, q)
      /\ c \in Cell
  BY TopIs
<1>2. q # None /\ q[1] = n /\ q[2] = 1
  BY <1>1, ThereSome
<1> HIDE DEF q
<1>3. /\ T \in State /\ T.lv = S.lv
      /\ \A m \in Names \ {n} : T.tab[m] = S.tab[m]
      /\ Len(T.tab[n]) = IF q = None THEN 1 ELSE (Len(t) - q[2]) + 2
      /\ T.tab[n][1] = a
      /\ \A k \in 2..Len(T.tab[n]) :
            T.tab[n][k] = IF k = 2 THEN Out(t[q[2]]) ELSE t[(q[2] + k) - 2]
      /\ T.environ = IF q # None /\ InEnv(t[q[2]]) THEN [S.environ EXCEPT ![n] = None] ELSE S.environ
  <2>1. Above(S, n, q)
    BY <1>1, <1>2 DEF Above
  <2>2. Hides(S, T, n, q, on)
    BY <2>1, HiddenIs
  <2> HIDE DEF T
  <2> QED
    BY <2>2 DEF Hides, InEnv
<1> HIDE DEF T
<1>4. Len(T.tab[n]) = Len(t) + 1
  BY <1>1, <1>2, <1>3
<1>5. ASSUME NEW k \in 2..Len(T.tab[n])
      PROVE  /\ T.tab[n][k] = IF k = 2 THEN Out(c) ELSE t[k - 1]
             /\ k - 1 \in 1..Len(t) /\ (k # 2 => k - 1 \in 2..Len(t))
  BY <1>1, <1>2, <1>3, <1>4
<1>6. T.environ = IF InEnv(c) THEN [S.environ EXCEPT ![n] = None] ELSE S.environ
  BY <1>2, <1>3
<1>7. (IF InEnv(c) THEN None ELSE S.environ[n]) = None
  BY <1>1 DEF EnvOK
<1>8. T.environ[n] = None /\ \A m \in Names \ {n} : T.environ[m] = S.environ[m]
  BY <1>1, <1>6, <1>7
<1>9. ~InEnv(a) /\ ~ToExport(a) /\ Known(a) /\ a.level = 0
  BY NewEnv
<1> HIDE DEF a
<1>10. ~InEnv(Out(c)) /\ Out(c).level = c.level
  BY <1>1, OutEnv
<1>11. ASSUME NEW k \in 2..Len(T.tab[n]) PROVE ~InEnv(T.tab[n][k])
  <2>1. CASE k = 2
    BY <1>5, <1>10, <2>1
  <2>2. CASE k # 2
    <3>1. T.tab[n][k] = t[k - 1] /\ k - 1 \in 2..Len(t)
      BY <1>5, <2>2
    <3> QED
      BY <3>1 DEF EnvOK
  <2> QED
    BY <2>1, <2>2
<1>12. EnvOK(T.tab[n], T.environ[n])
  BY <1>1, <1>3, <1>4, <1>8, <1>9, <1>11 DEF EnvOK
<1>13. ExpOK(T.tab[n])
  BY <1>3, <1>9 DEF ExpOK
<1>14. LevelsFrom(t, T.tab[n], {0})
  <2>1. SUFFICES ASSUME NEW k \in 1..Len(T.tab[n])
                 PROVE  T.tab[n][k].level \in {0} \/ \E j \in 1..Len(t) : T.tab[n][k].level = t[j].level
    BY DEF LevelsFrom
  <2>2. CASE k = 1
    BY <1>3, <1>9, <2>2
  <2>3. CASE k # 1
    <3>1. k \in 2..Len(T.tab[n])
      BY <1>1, <1>4, <2>3
    <3>2. T.tab[n][k].level = t[k - 1].level /\ k - 1 \in 1..Len(t)
      BY <1>5, <1>10, <3>1
    <3> QED
      BY <3>2
  <2> QED
    BY <2>2, <2>3
<1>15. Only(S, T, n)
  BY <1>3, <1>8 DEF Only
<1>16. There(T, <<n, 1>>) /\ Top(T, n)
  BY <1>1, <1>3, <1>4, <1>9 DEF There, Top
<1> QED
  BY <1>3, <1>12, <1>13, <1>14, <1>15, <1>16 DEF Turns, Fine, T, q

\* assignsparam() of a name, found or created.
LEMMA assignsparamEnv ==
    ASSUME Refs = {}, NEW S, Sound(S, S.lv), NEW n \in Names,
           EnvOK(S.tab[n], S.environ[n]), NEW v \in Str, NEW x \in BOOLEAN
    PROVE  LET a == assignsparam(S, n, v, x)
           IN  Turns(S, a.S, n, {0}) /\ a.p = <<n, 1>>
<1> DEFINE on == Plain(x)
           t == S.tab[n]
           C == createparam(S, n, on).S
           T == IF fetchvalue(S, n) # None THEN S ELSE C
           a == assignsparam(S, n, v, x)
<1>1. a = AssignFound(T, n, v, x)
  BY DEF assignsparam, Plain
<1>2. on \in Opts /\ ~on.local /\ ~on.ref
  BY PlainIs
<1> HIDE DEF on, a
<1>3. Fits(n, on)
  BY <1>2 DEF Fits
<1>4. /\ S \in State /\ Len(t) \in Nat
      /\ Len(t) > 0 => There(S, <<n, 1>>)
  BY TopIs
<1>5. fetchvalue(S, n) # None <=> Len(t) > 0 /\ Known(t[1])
  <2>1. fetchvalue(S, n) = IF Len(t) > 0 /\ Known(t[1]) THEN <<n, 1>> ELSE None
    BY fetchAlone
  <2>2. Len(t) > 0 => <<n, 1>> # None
    BY <1>4, ThereSome
  <2> QED
    BY <2>1, <2>2
<1> DEFINE l == S.lv
<1>6. Sound(T, l)
  <2>1. LocalOK(S, n, on)
    BY <1>2 DEF LocalOK
  <2> DEFINE c == createparam(S, n, on)
  <2>2. Creates(S, c, on)
    BY <1>3, <2>1, createparamIs
  <2> HIDE DEF c
  <2>3. Step(S, c.S, S.lv)
    BY <1>2, <2>2 DEF Creates
  <2> QED
    BY <2>3 DEF Step, c
<1> HIDE DEF l
<1>7. Only(S, T, n) /\ LevelsFrom(t, T.tab[n], {0}) /\ Top(T, n) /\ EnvOK(T.tab[n], T.environ[n])
  <2>1. CASE fetchvalue(S, n) # None
    <3>1. T = S
      BY <2>1
    <3> HIDE DEF T
    <3>2. LevelsFrom(t, t, {0})
      BY DEF LevelsFrom
    <3>3. Only(S, S, n)
      BY DEF Only
    <3> QED
      BY <1>5, <2>1, <3>1, <3>2, <3>3 DEF Top
  <2>2. CASE ~(fetchvalue(S, n) # None)
    <3>1. T = C
      BY <2>2
    <3>2. CASE Len(t) = 0
      <4>1. C = Hidden(S, n, None, on)
        <5> DEFINE H == Hidden(S, n, None, on)
        <5>1. createparam(S, n, on) = Result(H, <<n, 1>>)
          BY <3>2, createAlone
        <5> HIDE DEF H
        <5>2. C = H
          BY <5>1, ResultIs
        <5> QED
          BY <5>2 DEF H
      <4>2. Turns(S, Hidden(S, n, None, on), n, {0}) /\ Top(Hidden(S, n, None, on), n)
        BY <1>3, <3>2, AloneEnv
      <4> QED
        BY <3>1, <4>1, <4>2 DEF Turns, Fine
    <3>3. CASE Len(t) > 0
      <4>1. ~t[1].set
        BY <1>5, <2>2, <3>3 DEF Known
      <4>2. C = Reused(S, <<n, 1>>, on)
        BY <1>2, <3>3, <4>1, createAlone, ResultIs
      <4> DEFINE R == Reused(S, <<n, 1>>, on)
      <4>3. Turns(S, R, n, {}) /\ Top(R, n)
        BY <1>3, <3>3, <4>1, ReusedEnv
      <4> HIDE DEF R
      <4>4. Turns(S, R, n, {0})
        BY <4>3, TurnsWider
      <4> QED
        BY <3>1, <4>2, <4>3, <4>4 DEF Turns, Fine, R
    <3> QED
      BY <1>4, <3>2, <3>3
  <2> QED
    BY <2>1, <2>2
<1> HIDE DEF T
<1> DEFINE b == AssignFound(T, n, v, x)
           U == b.S
<1>8. Turns(T, U, n, {}) /\ b.p = <<n, 1>>
  BY <1>6, <1>7, AssignFoundEnv DEF Top
<1> HIDE DEF b, U
<1>9. Turns(T, U, n, {0})
  BY <1>8, TurnsWider
<1>10. Turns(S, U, n, {0})
  BY <1>7, <1>9, TurnsMore
<1> QED
  BY <1>1, <1>8, <1>10 DEF b, U, a

\* The level that a new struct is given.
LEMMA LevelEnv ==
    ASSUME NEW S, NEW T \in State, NEW n \in Names, NEW L, Turns(S, T, n, L), Top(T, n),
           NEW v \in 0..MaxLevel
    PROVE  LET U == Put(T, <<n, 1>>, [At(T, <<n, 1>>) EXCEPT !.level = v])
           IN  Turns(S, U, n, L \cup {v}) /\ Top(U, n) /\ U.lv = T.lv
<1> DEFINE t == T.tab[n]
           c == t[1]
           i == 1
           s == WithLevel(c, v)
           U == Put(T, <<n, i>>, s)
<1>1. /\ Len(t) \in Nat
      /\ At(T, <<n, 1>>) = c /\ Len(t) > 0 /\ Known(c)
      /\ 1 \in 1..Len(t) /\ c \in Cell
  <2>1. Len(t) > 0 /\ Known(c)
    BY DEF Top
  <2>2. Len(t) \in Nat /\ \A k \in 1..Len(t) : t[k] \in Cell
    BY StateFacts
  <2> QED
    BY <2>1, <2>2 DEF At
<1>2. [At(T, <<n, 1>>) EXCEPT !.level = v] = s
  BY <1>1 DEF WithLevel
<1> HIDE DEF c
<1>3. s \in Cell /\ s.level = v
  BY <1>1, WithLevelIs
<1>4. s.str = c.str /\ (InEnv(s) <=> InEnv(c)) /\ (ToExport(s) <=> ToExport(c)) /\ Known(s)
  <2>1. s = Struct8(v, c.str, c.set, c.declared, c.ref, c.exported, c.env, c.base)
    BY <1>1, CellChanged
  <2> HIDE DEF s
  <2>2. s.str = c.str /\ s.set = c.set /\ s.declared = c.declared /\ s.exported = c.exported
        /\ s.env = c.env
    BY <2>1, Struct8Has
  <2> QED
    BY <1>1, <2>2 DEF InEnv, ToExport, Known
<1>5. i = 1
  OBVIOUS
<1> HIDE DEF s, i
<1>6. /\ U.environ = T.environ /\ U.lv = T.lv
      /\ \A m \in Names \ {n} : U.tab[m] = T.tab[m]
      /\ Len(U.tab[n]) = Len(t)
      /\ \A k \in 1..Len(t) : U.tab[n][k] = IF k = i THEN s ELSE t[k]
  BY <1>1, <1>3, PutIs
<1> HIDE DEF U
<1>7. U.tab[n][1] = s /\ \A k \in 2..Len(t) : U.tab[n][k] = t[k]
  BY <1>1, <1>5, <1>6
<1>8. EnvOK(U.tab[n], U.environ[n])
  BY <1>1, <1>4, <1>6, <1>7 DEF EnvOK, Turns, Fine, c
<1>9. ExpOK(U.tab[n])
  BY <1>1, <1>4, <1>6, <1>7 DEF ExpOK, Turns, Fine, c
<1>10. LevelsFrom(S.tab[n], U.tab[n], L \cup {v})
  <2>1. LevelsFrom(S.tab[n], t, L)
    BY DEF Turns
  <2>2. SUFFICES ASSUME NEW k \in 1..Len(U.tab[n])
                 PROVE  U.tab[n][k].level \in L \cup {v}
                        \/ \E j \in 1..Len(S.tab[n]) : U.tab[n][k].level = S.tab[n][j].level
    BY DEF LevelsFrom
  <2>3. U.tab[n][k].level = v \/ (k \in 1..Len(t) /\ U.tab[n][k] = t[k])
    BY <1>3, <1>6
  <2> QED
    BY <2>1, <2>3 DEF LevelsFrom
<1>11. Only(S, U, n)
  BY <1>6 DEF Only, Turns
<1>12. Top(U, n)
  BY <1>1, <1>4, <1>6, <1>7 DEF Top
<1> QED
  BY <1>2, <1>5, <1>6, <1>8, <1>9, <1>10, <1>11, <1>12 DEF Turns, Fine, U

\* An assignment to the struct that was prepared for it.
LEMMA ThenAssigned ==
    ASSUME Refs = {}, NEW S, NEW T, Sound(T, S.lv), T.lv = S.lv, NEW n \in Names, NEW L, 0 \in L,
           Only(S, T, n), LevelsFrom(S.tab[n], T.tab[n], L), EnvOK(T.tab[n], T.environ[n]),
           NEW v \in Str, NEW x \in BOOLEAN
    PROVE  LET a == assignsparam(T, n, v, x)
           IN  Turns(S, a.S, n, L) /\ a.p = <<n, 1>>
<1> DEFINE a == assignsparam(T, n, v, x)
           U == a.S
<1>1. Sound(T, T.lv)
  OBVIOUS
<1>2. Turns(T, U, n, {0}) /\ a.p = <<n, 1>>
  BY <1>1, assignsparamEnv
<1> HIDE DEF a, U
<1>3. {0} \subseteq L
  OBVIOUS
<1>4. Turns(T, U, n, L)
  BY <1>2, <1>3, TurnsWider
<1>5. Turns(S, U, n, L)
  BY <1>4, TurnsMore
<1> QED
  BY <1>2, <1>5 DEF U, a

\* The parameter c.p of the name n was prepared by createparam().
Prepared(S, c, n, L) ==
    /\ c.p = <<n, 1>> /\ c.S \in State /\ c.S.lv = S.lv
    /\ Turns(S, c.S, n, L) /\ Top(c.S, n)

\* Created(): it is given its level and its value.
LEMMA CreatedEnv ==
    ASSUME Refs = {}, NEW S \in State, NEW c, NEW on, Creates(S, c, on), NEW n \in Names,
           NEW L, 0 \in L, S.lv \in L, Prepared(S, c, n, L), NEW v \in Str \cup {None}
    PROVE  Turns(S, Created(c, n, on, v), n, L)
<1> DEFINE l == S.lv
           p == <<n, 1>>
           C == c.S
           P == Put(C, p, [At(C, p) EXCEPT !.level = l])
           T == IF on.local THEN P ELSE C
           no == FALSE
           a == assignsparam(T, n, v, no)
           R == Created(c, n, on, v)
<1>1. /\ c.p = p /\ p # None
      /\ C \in State /\ C.lv = l /\ Turns(S, C, n, L) /\ Top(C, n)
      /\ l \in 0..MaxLevel
  <2>1. p # None
    <3>1. p \in Names \X Nat
      OBVIOUS
    <3> QED
      BY <3>1, ConstantsType
  <2>2. l \in 0..MaxLevel
    BY StateFacts
  <2> QED
    BY <2>1, <2>2 DEF Prepared
<1>2. R = IF v = None THEN T ELSE DropUnused(a, p)
  BY <1>1 DEF Created
<1>3. (~on.local => Step(S, C, l)) /\ (on.local => Step(S, P, l))
  BY <1>1 DEF Creates
<1>4. Step(S, T, l)
  BY <1>3
<1> HIDE DEF R, C, l
<1>5. Turns(S, P, n, L \cup {l})
  BY <1>1, LevelEnv
<1>6. Turns(S, T, n, L)
  <2> HIDE DEF P
  <2>1. L \cup {l} = L
    BY DEF l
  <2> QED
    BY <1>1, <1>5, <2>1
<1>7. no \in BOOLEAN
  OBVIOUS
<1>8. no = FALSE
  OBVIOUS
<1> HIDE DEF T, no
<1>9. CASE v = None
  BY <1>2, <1>6, <1>9 DEF R
<1>10. CASE v # None
  <2>1. v \in Str
    BY <1>10
  <2>2. Sound(T, S.lv) /\ T.lv = S.lv
    BY <1>4 DEF Step, l
  <2>3. /\ Only(S, T, n) /\ LevelsFrom(S.tab[n], T.tab[n], L)
        /\ EnvOK(T.tab[n], T.environ[n])
    BY <1>6 DEF Turns, Fine
  <2>4. Turns(S, a.S, n, L) /\ a.p = p
    BY <1>7, <2>1, <2>2, <2>3, ThenAssigned
  <2>5. R = a.S
    BY <1>2, <1>10, <2>4 DEF DropUnused
  <2> QED
    BY <2>4, <2>5 DEF R
<1> QED
  BY <1>9, <1>10

LEMMA PreparedIs ==
    ASSUME NEW S, NEW c, NEW n, NEW T \in State, NEW L, NEW M, L \subseteq M, T.lv = S.lv, Top(T, n),
           Turns(S, T, n, L), c = Result(T, <<n, 1>>)
    PROVE  Prepared(S, c, n, M)
<1>1. Turns(S, T, n, M)
  BY TurnsWider
<1>2. c.S = T /\ c.p = <<n, 1>>
  BY ResultIs
<1> QED
  BY <1>1, <1>2 DEF Prepared

\* createparam() unless it finds the parameter set.
LEMMA createEnv ==
    ASSUME Refs = {}, NEW l, NEW S, Sound(S, l), NEW n \in Names, NEW on, Fits(n, on),
           EnvOK(S.tab[n], S.environ[n]),
           ~(Len(S.tab[n]) > 0 /\ S.tab[n][1].set /\ (S.tab[n][1].level = S.lv \/ ~on.local))
    PROVE  Prepared(S, createparam(S, n, on), n, {0, S.lv})
<1> DEFINE c == createparam(S, n, on)
           p == <<n, 1>>
           M == {0, S.lv}
           t == S.tab[n]
<1>1. Len(t) \in Nat
  BY TopIs
<1>3. CASE Len(t) = 0
  <2> DEFINE T == Hidden(S, n, None, on)
             L == {0}
  <2>1. Turns(S, T, n, L) /\ Top(T, n) /\ T \in State /\ T.lv = S.lv
    BY <1>3, AloneEnv
  <2>2. c = Result(T, p)
    BY <1>3, createAlone
  <2>3. L \subseteq M
    OBVIOUS
  <2> HIDE DEF T, L, c, M, p
  <2>9. Prepared(S, c, n, M)
    BY <2>1, <2>2, <2>3, PreparedIs DEF p
  <2> QED
    BY <2>9 DEF c, M
<1>4. CASE Len(t) > 0 /\ (t[1].level = S.lv \/ ~on.local)
  <2> DEFINE T == Reused(S, p, on)
             L == {}
  <2>1. ~t[1].set
    BY <1>4
  <2>2. Turns(S, T, n, L) /\ Top(T, n) /\ T \in State /\ T.lv = S.lv
    BY <1>4, <2>1, ReusedEnv
  <2>3. c = Result(T, p)
    BY <1>4, <2>1, createAlone
  <2>4. L \subseteq M
    OBVIOUS
  <2> HIDE DEF T, L, c, M, p
  <2>9. Prepared(S, c, n, M)
    BY <2>2, <2>3, <2>4, PreparedIs DEF p
  <2> QED
    BY <2>9 DEF c, M
<1>5. CASE Len(t) > 0 /\ ~(t[1].level = S.lv \/ ~on.local)
  <2> DEFINE T == Hidden(S, n, p, on)
             L == {0}
  <2>1. Turns(S, T, n, L) /\ Top(T, n) /\ T \in State /\ T.lv = S.lv
    BY <1>5, OverEnv
  <2>2. c = Result(T, p)
    BY <1>5, createAlone
  <2>3. L \subseteq M
    OBVIOUS
  <2> HIDE DEF T, L, c, M, p
  <2>9. Prepared(S, c, n, M)
    BY <2>1, <2>2, <2>3, PreparedIs DEF p
  <2> QED
    BY <2>9 DEF c, M
<1> QED
  BY <1>1, <1>3, <1>4, <1>5

LEMMA CreateEnv ==
    ASSUME Refs = {}, NEW S, Sound(S, S.lv), NEW n \in Names, NEW on, Fits(n, on), LocalOK(S, n, on),
           EnvOK(S.tab[n], S.environ[n]), NEW v \in Str \cup {None},
           ~(Len(S.tab[n]) > 0 /\ S.tab[n][1].set /\ (S.tab[n][1].level = S.lv \/ ~on.local))
    PROVE  Turns(S, Create(S, n, on, v), n, {0, S.lv})
<1> DEFINE c == createparam(S, n, on)
           L == {0, S.lv}
           l == S.lv
<1>1. Creates(S, c, on)
  BY createparamIs
<1>2. S \in State
  BY DEF Sound
<1>3. Prepared(S, c, n, L)
  <2> HIDE DEF l
  <2>1. Sound(S, l)
    BY DEF l
  <2> QED
    BY <2>1, createEnv
<1>4. 0 \in L /\ S.lv \in L
  OBVIOUS
<1> HIDE DEF c, L, l
<1>5. Turns(S, Created(c, n, on, v), n, L)
  BY <1>1, <1>2, <1>3, <1>4, CreatedEnv
<1> QED
  BY <1>5 DEF Create, c, L

LEMMA OutToExport ==
    ASSUME NEW c \in Cell, ~c.exported
    PROVE  ~ToExport(Out(c))
<1> DEFINE no == FALSE
           s == WithEnv(c, no)
<1>1. Out(c) = s
  BY DEF Out, WithEnv
<1> HIDE DEF no
<1>2. s = Struct8(c.level, c.str, c.set, c.declared, c.ref, c.exported, no, c.base)
  BY CellChanged
<1> HIDE DEF s
<1>3. s.exported = c.exported
  BY <1>2, Struct8Has
<1> QED
  BY <1>1, <1>3 DEF ToExport

\* Retype(): the flags put on or taken off.
LEMMA RetypedEnv ==
    ASSUME NEW n, NEW c \in Cell, CellOK(n, c), NEW on, NEW off
    PROVE  LET s == Retyped(c, on, off)
           IN  s.str = c.str /\ (InEnv(s) <=> InEnv(c)) /\ (Known(c) => Known(s)) /\ s \in Cell
               /\ s.level = c.level
<1> DEFINE x == (c.exported \/ on.exported) /\ ~off.exported
           r == c.ref /\ ~off.ref
           a == WithExported(c, x)
           s == WithRef(a, r)
<1>1. Retyped(c, on, off) = s
  BY DEF Retyped, WithRef, WithExported
<1>2. x \in BOOLEAN /\ r \in BOOLEAN
  OBVIOUS
<1> HIDE DEF x, r
<1>3. a = Struct8(c.level, c.str, c.set, c.declared, c.ref, x, c.env, c.base)
  BY CellChanged
<1>4. s \in Cell /\ s.level = c.level
  BY <1>2, RetypedFields
<1> HIDE DEF a
<1>5. s = Struct8(c.level, c.str, c.set, c.declared, r, x, c.env, c.base)
  BY <1>3, Struct8Changed
<1> HIDE DEF s
<1>6. s.str = c.str /\ s.set = c.set /\ s.declared = c.declared /\ s.env = c.env
  BY <1>5, Struct8Has
<1>7. (InEnv(s) <=> InEnv(c)) /\ (Known(c) => Known(s))
  BY <1>6 DEF InEnv, Known
<1> QED
  BY <1>1, <1>4, <1>6, <1>7

\* addenv() of the visible struct's own value.
LEMMA addenvEnv ==
    ASSUME NEW l, NEW T, Sound(T, l), NEW n \in Names, Len(T.tab[n]) > 0,
           EnvOK(T.tab[n], T.environ[n]), NEW v, v = T.tab[n][1].str
    PROVE  Turns(T, addenv(T, <<n, 1>>, v), n, {})
<1> DEFINE t == T.tab[n]
           c == t[1]
           p == <<n, 1>>
           A == addenv(T, p, v)
<1>1. /\ T \in State /\ Len(t) \in Nat /\ T.environ \in [Names -> Str \cup {None}]
      /\ 1 \in 1..Len(t) /\ There(T, p) /\ At(T, p) = c
      /\ c \in Cell /\ c.str \in Str /\ p[1] = n /\ p[2] = 1
  BY TopIs
<1>2. v \in Str
  BY <1>1
<1> HIDE DEF p
<1>3. /\ Step(T, A, l)
      /\ A.environ = [T.environ EXCEPT ![p[1]] = v]
      /\ \A m \in Names \ {p[1]} : A.tab[m] = T.tab[m]
      /\ Len(A.tab[p[1]]) = Len(T.tab[p[1]])
      /\ \A k \in 1..Len(T.tab[p[1]]) :
            A.tab[p[1]][k] = IF k = p[2] THEN Shown(At(T, p)) ELSE T.tab[p[1]][k]
  <2>1. There(T, p) /\ v \in Str /\ Sound(T, l)
    BY <1>1, <1>2
  <2> HIDE DEF t, c
  <2> QED
    BY <2>1, addenvIs
<1> HIDE DEF A
<1>4. /\ A.environ[n] = v /\ \A m \in Names \ {n} : A.environ[m] = T.environ[m]
  BY <1>1, <1>3
<1>5. /\ \A m \in Names \ {n} : A.tab[m] = T.tab[m]
      /\ Len(A.tab[n]) = Len(t)
      /\ A.tab[n][1] = Shown(c)
      /\ \A k \in 2..Len(t) : A.tab[n][k] = t[k]
  BY <1>1, <1>3
<1>6. InEnv(Shown(c)) /\ Shown(c).str = v /\ Shown(c).level = c.level
  BY <1>1, ShownEnv
<1>7. EnvOK(A.tab[n], A.environ[n])
  BY <1>1, <1>4, <1>5, <1>6 DEF EnvOK
<1>8. ExpOK(A.tab[n])
  BY <1>5, <1>6 DEF ExpOK
<1>9. LevelsFrom(t, A.tab[n], {})
  <2>1. \A k \in 1..Len(A.tab[n]) : k \in 1..Len(t) /\ A.tab[n][k].level = t[k].level
    BY <1>1, <1>5, <1>6
  <2> QED
    BY <2>1 DEF LevelsFrom
<1>10. Only(T, A, n)
  BY <1>4, <1>5 DEF Only
<1> QED
  BY <1>7, <1>8, <1>9, <1>10 DEF Turns, Fine, A, p

\* delenv() of the visible struct.
LEMMA delenvEnv ==
    ASSUME NEW l, NEW T, Sound(T, l), NEW n \in Names, Len(T.tab[n]) > 0,
           EnvOK(T.tab[n], T.environ[n])
    PROVE  LET U == delenv(T, <<n, 1>>)
           IN  /\ Only(T, U, n) /\ LevelsFrom(T.tab[n], U.tab[n], {})
               /\ EnvOK(U.tab[n], U.environ[n]) /\ U.environ[n] = None
               /\ Len(U.tab[n]) > 0 /\ U.tab[n][1] = Out(T.tab[n][1])
<1> DEFINE t == T.tab[n]
           c == t[1]
           i == 1
           U == delenv(T, <<n, i>>)
<1>1. /\ T \in State /\ Len(t) \in Nat /\ T.environ \in [Names -> Str \cup {None}]
      /\ 1 \in 1..Len(t) /\ c \in Cell
  BY TopIs
<1>2. i = 1
  OBVIOUS
<1> HIDE DEF i
<1>3. /\ U.environ = IF InEnv(T.tab[n][i]) THEN [T.environ EXCEPT ![n] = None] ELSE T.environ
      /\ \A m \in Names \ {n} : U.tab[m] = T.tab[m]
      /\ Len(U.tab[n]) = Len(T.tab[n])
      /\ \A k \in 1..Len(T.tab[n]) :
            U.tab[n][k] = IF k = i THEN Out(T.tab[n][k]) ELSE T.tab[n][k]
  <2> HIDE DEF t
  <2> QED
    BY delenvIs DEF InEnv
<1> HIDE DEF U
<1>4. (IF InEnv(c) THEN None ELSE T.environ[n]) = None
  BY <1>1 DEF EnvOK
<1>5. U.environ[n] = None /\ \A m \in Names \ {n} : U.environ[m] = T.environ[m]
  BY <1>1, <1>2, <1>3, <1>4
<1>6. /\ Len(U.tab[n]) = Len(t)
      /\ U.tab[n][1] = Out(c)
      /\ \A k \in 2..Len(t) : U.tab[n][k] = t[k]
  BY <1>1, <1>2, <1>3
<1>7. ~InEnv(Out(c)) /\ Out(c).level = c.level
  BY <1>1, OutEnv
<1>8. EnvOK(U.tab[n], U.environ[n])
  BY <1>1, <1>5, <1>6, <1>7 DEF EnvOK
<1>9. LevelsFrom(t, U.tab[n], {})
  <2>1. \A k \in 1..Len(U.tab[n]) : k \in 1..Len(t) /\ U.tab[n][k].level = t[k].level
    BY <1>1, <1>6, <1>7
  <2> QED
    BY <2>1 DEF LevelsFrom
<1>10. Only(T, U, n)
  BY <1>3, <1>5 DEF Only
<1> QED
  BY <1>2, <1>5, <1>6, <1>8, <1>9, <1>10 DEF U

\* Retype() before the value is assigned.
Flagged(S, n, on, off, v) ==
    LET p == <<n, 1>>
        t == Retyped(At(S, p), on, off)
        T == Put(S, p, t)
        g == fetchvalue(T, n)
        val == IF g = None THEN "" ELSE At(T, g).str
    IN  IF t.exported
        THEN IF ~t.env /\ v = None THEN addenv(T, p, val) ELSE T
        ELSE delenv(T, p)

LEMMA FlaggedEnv ==
    ASSUME Refs = {}, NEW l, NEW S, Sound(S, l), NEW n \in Names, Len(S.tab[n]) > 0,
           S.tab[n][1].set, Fine(S, n), NEW on, NEW off, NEW v
    PROVE  LET U == Flagged(S, n, on, off, v)
           IN  /\ Step(S, U, l) /\ Only(S, U, n) /\ LevelsFrom(S.tab[n], U.tab[n], {})
               /\ EnvOK(U.tab[n], U.environ[n])
               /\ v = None => ExpOK(U.tab[n])
<1> DEFINE p == <<n, 1>>
           i == 1
           c == S.tab[n][1]
           t == Retyped(c, on, off)
           T == Put(S, <<n, i>>, t)
           g == fetchvalue(T, n)
           val == IF g = None THEN "" ELSE At(T, g).str
           A == addenv(T, p, val)
           D == delenv(T, p)
           U == Flagged(S, n, on, off, v)
<1>1. /\ S \in State /\ Len(S.tab[n]) \in Nat
      /\ 1 \in 1..Len(S.tab[n]) /\ There(S, p) /\ At(S, p) = c
      /\ c \in Cell /\ CellOK(n, c) /\ p[1] = n
      /\ \A k \in 1..Len(S.tab[n]) : S.tab[n][k] \in Cell
  BY TopIs
<1>2. U = IF t.exported THEN IF ~t.env /\ v = None THEN A ELSE T ELSE D
  BY <1>1 DEF Flagged
<1>3. Known(c) /\ i = 1
  BY DEF Known
<1> HIDE DEF c
<1>4. /\ t.str = c.str /\ (InEnv(t) <=> InEnv(c)) /\ (Known(c) => Known(t))
      /\ t \in Cell /\ t.level = c.level
  BY <1>1, RetypedEnv
<1>5. CellOK(n, t)
  BY <1>1, RetypedIs
<1> HIDE DEF t, i, U
<1>6. /\ T.environ = S.environ
      /\ \A m \in Names \ {n} : T.tab[m] = S.tab[m]
      /\ Len(T.tab[n]) = Len(S.tab[n])
      /\ \A k \in 1..Len(S.tab[n]) : T.tab[n][k] = IF k = i THEN t ELSE S.tab[n][k]
  BY <1>1, <1>4, PutIs
<1>7. Step(S, T, l)
  <2>1. i \in 1..Len(S.tab[n]) => t \in Cell /\ CellOK(n, t) /\ t.level = S.tab[n][i].level
    BY <1>3, <1>4, <1>5 DEF c
  <2> QED
    BY <2>1, PutSound
<1> HIDE DEF T
<1>8. T.tab[n][1] = t /\ \A k \in 2..Len(S.tab[n]) : T.tab[n][k] = S.tab[n][k]
  BY <1>1, <1>3, <1>6
<1>9. EnvOK(T.tab[n], T.environ[n])
  BY <1>1, <1>4, <1>6, <1>8 DEF EnvOK, Fine, c
<1>10. LevelsFrom(S.tab[n], T.tab[n], {})
  <2>1. \A k \in 1..Len(T.tab[n]) : k \in 1..Len(S.tab[n]) /\ T.tab[n][k].level = S.tab[n][k].level
    BY <1>1, <1>3, <1>4, <1>6 DEF c
  <2> QED
    BY <2>1 DEF LevelsFrom
<1>11. Only(S, T, n)
  BY <1>6 DEF Only
<1>12. Sound(T, l) /\ Len(T.tab[n]) > 0 /\ Known(T.tab[n][1]) /\ At(T, p) = t
  BY <1>3, <1>4, <1>6, <1>7, <1>8 DEF Step, At
<1>13. val = t.str
  <2>1. g = p
    <3> HIDE DEF p
    <3> QED
      BY <1>12, fetchAlone DEF p
  <2>2. p # None
    BY <1>1, ThereSome
  <2> HIDE DEF g, p
  <2> QED
    BY <1>12, <2>1, <2>2
<1> HIDE DEF val, g
<1>14. CASE t.exported /\ InEnv(t)
  <2>1. U = T
    BY <1>2, <1>14 DEF InEnv
  <2>2. ExpOK(T.tab[n])
    BY <1>8, <1>14 DEF ExpOK
  <2> QED
    BY <1>7, <1>9, <1>10, <1>11, <2>1, <2>2 DEF U
<1>15. CASE t.exported /\ ~InEnv(t) /\ v # None
  <2>1. U = T
    BY <1>2, <1>15 DEF InEnv
  <2> QED
    BY <1>7, <1>9, <1>10, <1>11, <1>15, <2>1 DEF U
<1>16. CASE t.exported /\ ~InEnv(t) /\ v = None
  <2>1. U = A
    BY <1>2, <1>16 DEF InEnv
  <2>2. val = T.tab[n][1].str
    BY <1>8, <1>13
  <2>3. Turns(T, A, n, {})
    BY <1>9, <1>12, <2>2, addenvEnv
  <2>4. There(T, p) /\ val \in Str
    <3>1. There(T, p)
      BY <1>1, <1>6 DEF There
    <3> QED
      BY <1>4, <1>13, <3>1, CellIs
  <2> HIDE DEF p
  <2>5. Step(T, A, l)
    BY <1>12, <2>4, addenvStep
  <2> HIDE DEF A
  <2>6. Step(S, A, l)
    BY <1>7, <2>5, StepMore
  <2> DEFINE E == {}
  <2>7. E \subseteq E /\ LevelsFrom(S.tab[n], T.tab[n], E) /\ Turns(T, A, n, E)
    BY <1>10, <2>3
  <2> HIDE DEF E
  <2>11. Turns(S, A, n, E)
    BY <1>11, <2>7, TurnsMore
  <2>8. Turns(S, A, n, {})
    BY <2>11 DEF E
  <2> QED
    BY <2>1, <2>6, <2>8 DEF Turns, Fine, U
<1>17. CASE ~t.exported
  <2>1. U = D
    BY <1>2, <1>17
  <2>2. /\ Only(T, D, n) /\ LevelsFrom(T.tab[n], D.tab[n], {})
        /\ EnvOK(D.tab[n], D.environ[n])
        /\ Len(D.tab[n]) > 0 /\ D.tab[n][1] = Out(T.tab[n][1])
    BY <1>9, <1>12, delenvEnv
  <2>3. There(T, p)
    BY <1>1, <1>6 DEF There
  <2> HIDE DEF p
  <2>4. Step(T, D, l)
    BY <1>12, <2>3, delenvStep
  <2> HIDE DEF D
  <2>5. Step(S, D, l)
    BY <1>7, <2>4, StepMore
  <2>6. ExpOK(D.tab[n])
    <3>1. ~ToExport(Out(t))
      BY <1>4, <1>17, OutToExport
    <3> QED
      BY <1>8, <2>2, <3>1 DEF ExpOK
  <2>7. Only(S, D, n)
    BY <1>11, <2>2 DEF Only
  <2>8. LevelsFrom(S.tab[n], D.tab[n], {})
    BY <1>10, <2>2 DEF LevelsFrom
  <2> QED
    BY <2>1, <2>2, <2>5, <2>6, <2>7, <2>8 DEF U
<1> QED
  BY <1>14, <1>15, <1>16, <1>17

LEMMA RetypeEnv ==
    ASSUME Refs = {}, NEW S, Sound(S, S.lv), NEW n \in Names, Len(S.tab[n]) > 0,
           S.tab[n][1].set, Fine(S, n), NEW on, NEW off, NEW v \in Str \cup {None}
    PROVE  Turns(S, Retype(S, n, <<n, 1>>, on, off, v), n, {0})
<1> DEFINE U == Flagged(S, n, on, off, v)
           no == FALSE
           a == assignsparam(U, n, v, no)
           l == S.lv
           L == {0}
           R == Retype(S, n, <<n, 1>>, on, off, v)
<1>1. R = IF v = None THEN U ELSE a.S
  BY DEF Retype, Retyped, Flagged
<1> HIDE DEF R, no
<1>2. /\ Step(S, U, l) /\ Only(S, U, n) /\ LevelsFrom(S.tab[n], U.tab[n], {})
      /\ EnvOK(U.tab[n], U.environ[n])
      /\ v = None => ExpOK(U.tab[n])
  <2> HIDE DEF l
  <2>1. Sound(S, l)
    BY DEF l
  <2> QED
    BY <2>1, FlaggedEnv
<1> HIDE DEF U
<1>3. LevelsFrom(S.tab[n], U.tab[n], L) /\ 0 \in L
  BY <1>2 DEF LevelsFrom
<1>4. no \in BOOLEAN
  BY DEF no
<1> HIDE DEF L
<1>5. CASE v = None
  <2>1. Turns(S, U, n, L)
    BY <1>2, <1>3, <1>5 DEF Turns, Fine
  <2> QED
    BY <1>1, <1>5, <2>1 DEF R, L
<1>6. CASE v # None
  <2>1. v \in Str /\ Sound(U, S.lv) /\ U.lv = S.lv
    BY <1>2, <1>6 DEF Step
  <2>2. Turns(S, a.S, n, L)
    BY <1>2, <1>3, <1>4, <2>1, ThenAssigned
  <2> QED
    BY <1>1, <1>6, <2>2 DEF R, L
<1> QED
  BY <1>5, <1>6

AllFine(S) == \A n \in Names : Fine(S, n)

\* The structs of T are of levels that S has for the same name.
Fewer(S, T) == \A n \in Names : LevelsFrom(S.tab[n], T.tab[n], {})

LEMMA TurnsFine ==
    ASSUME NEW S, AllFine(S), NEW T, NEW n \in Names, NEW L, Turns(S, T, n, L)
    PROVE  AllFine(T)
<1>1. \A m \in Names \ {n} : T.tab[m] = S.tab[m] /\ T.environ[m] = S.environ[m]
  BY DEF Turns, Only
<1>2. Fine(T, n)
  BY DEF Turns
<1>3. ASSUME NEW m \in Names PROVE Fine(T, m)
  <2>1. CASE m = n
    BY <1>2, <2>1
  <2>2. CASE m # n
    BY <1>1, <2>2 DEF AllFine, Fine
  <2> QED
    BY <2>1, <2>2
<1> QED
  BY <1>3 DEF AllFine

LEMMA SameLevels ==
    ASSUME NEW t, NEW L
    PROVE  LevelsFrom(t, t, L)
BY DEF LevelsFrom

LEMMA TurnsFewer ==
    ASSUME NEW S, NEW T, NEW n \in Names, Turns(S, T, n, {})
    PROVE  Fewer(S, T)
<1> DEFINE E == {}
<1>1. \A m \in Names \ {n} : T.tab[m] = S.tab[m]
  BY DEF Turns, Only
<1>2. LevelsFrom(S.tab[n], T.tab[n], E)
  BY DEF Turns
<1> HIDE DEF E
<1>3. ASSUME NEW m \in Names PROVE LevelsFrom(S.tab[m], T.tab[m], E)
  <2>1. CASE m = n
    BY <1>2, <2>1
  <2>2. CASE m # n
    BY <1>1, <2>2, SameLevels
  <2> QED
    BY <2>1, <2>2
<1> QED
  BY <1>3 DEF Fewer, E

LEMMA FewerMore ==
    ASSUME NEW S, NEW T, NEW U, Fewer(S, T), Fewer(T, U)
    PROVE  Fewer(S, U)
<1>1. ASSUME NEW n \in Names PROVE LevelsFrom(S.tab[n], U.tab[n], {})
  <2>1. LevelsFrom(S.tab[n], T.tab[n], {}) /\ LevelsFrom(T.tab[n], U.tab[n], {})
    BY DEF Fewer
  <2> QED
    BY <2>1 DEF LevelsFrom
<1> QED
  BY <1>1 DEF Fewer

LEMMA FewerSame ==
    ASSUME NEW S, NEW T, T.tab = S.tab
    PROVE  Fewer(S, T)
BY SameLevels DEF Fewer

LEMMA FineSame ==
    ASSUME NEW S, AllFine(S), NEW T, T.tab = S.tab, T.environ = S.environ
    PROVE  AllFine(T)
BY DEF AllFine, Fine

\* scanendscope()
LEMMA scanendscopeEnv ==
    ASSUME NEW l, NEW S, Sound(S, l), AllFine(S), NEW n \in Names
    PROVE  AllFine(scanendscope(S, n)) /\ Fewer(S, scanendscope(S, n))
<1> DEFINE U == unsetparam_pm(S, <<n, 1>>)
<1>1. scanendscope(S, n) \in {S, U} /\ (scanendscope(S, n) # S => S.tab[n] # <<>>)
  BY DEF scanendscope
<1>2. S.tab[n] # <<>> <=> Len(S.tab[n]) > 0
  BY TopIs
<1>3. ASSUME S.tab[n] # <<>> PROVE AllFine(U) /\ Fewer(S, U)
  <2>1. EnvOK(S.tab[n], S.environ[n]) /\ Len(S.tab[n]) > 0
    BY <1>2, <1>3 DEF AllFine, Fine
  <2>2. Turns(S, U, n, {})
    BY <2>1, UnsetEnv
  <2> HIDE DEF U
  <2> QED
    BY <2>2, TurnsFine, TurnsFewer
<1> HIDE DEF U
<1>4. AllFine(S) /\ Fewer(S, S)
  BY FewerSame
<1> QED
  BY <1>1, <1>3, <1>4

LEMMA ScanAllEnv ==
    ASSUME NEW S, Sound(S, S.lv + 1), AllFine(S)
    PROVE  AllFine(ScanAll(S)) /\ Fewer(S, ScanAll(S))
<1> DEFINE n == Cardinality(Names)
           v == S.lv
           V == {T \in State : /\ T.lv = v /\ Sound(T, v + 1)
                               /\ AllFine(T) /\ Fewer(S, T)}
           step(i, T) == scanendscope(T, Order[i])
<1>1. n \in Nat /\ \A i \in 1..n : Order[i] \in Names
  BY OrderIs
<1>2. PICK F : /\ ScanAll(S) = F[n] /\ F[0] = S
               /\ \A i \in 1..n : F[i] = step(i, F[i - 1])
  BY ScanAllFold
<1> HIDE DEF n
<1>3. S \in V
  BY FewerSame DEF Sound
<1>4. ASSUME NEW i \in 1..n, NEW T \in V PROVE step(i, T) \in V
  <2> DEFINE R == scanendscope(T, Order[i])
             J == {}
  <2>1. J \in SUBSET Names /\ Ended(T, J) /\ Order[i] \in Names
    BY <1>1 DEF Ended
  <2> HIDE DEF J
  <2>2. Ended(R, J \cup {Order[i]}) /\ R.lv = T.lv
    BY <2>1, scanendscopeIs
  <2>3. AllFine(R) /\ Fewer(T, R)
    BY <2>1, scanendscopeEnv
  <2> HIDE DEF R
  <2>4. R.lv = v /\ Sound(R, v + 1)
    BY <2>2 DEF Ended
  <2>5. Fewer(S, R)
    BY <2>3, FewerMore
  <2>6. R \in V
    BY <2>3, <2>4, <2>5 DEF Sound
  <2> QED
    BY <2>6 DEF R
<1> HIDE DEF V, step
<1>5. F[0] \in V /\ \A i \in 1..n : F[i - 1] \in V => F[i] \in V
  BY <1>2, <1>3, <1>4
<1>6. \A i \in 0..n : F[i] \in V
  BY <1>1, <1>5, Stays
<1>7. F[n] \in V
  BY <1>1, <1>6
<1> QED
  BY <1>2, <1>7 DEF V

\* Without references no base has to be reset.
LEMMA ResetAllAlone ==
    ASSUME Refs = {}, NEW l, NEW S, Sound(S, l), NEW list \in Seq(Entry)
    PROVE  ResetAll(S, list) = S
<1> DEFINE n == Len(list)
           V == {S}
<1>1. n \in Nat /\ \A i \in 1..n : list[i] \in Entry
  OBVIOUS
<1>2. PICK F : /\ ResetAll(S, list) = F[n] /\ F[0] = S
               /\ \A i \in 1..n : F[i] = ResetScope(F[i - 1], list[i])
  BY ResetAllFold
<1> HIDE DEF n
<1>3. ASSUME NEW e \in Entry PROVE ResetScope(S, e) = S
  <2> DEFINE at == {i \in 1..Len(S.tab[e.n]) : S.tab[e.n][i].level = e.level}
             j == CHOOSE i \in at : TRUE
             p == <<e.n, j>>
             s == At(S, p)
  <2>1. ResetScope(S, e) =
          IF at # {} /\ s.ref /\ s.set /\ s.base > S.lv
          THEN setscope(Put(S, p, [s EXCEPT !.base = 0]), p) ELSE S
    BY DEF ResetScope
  <2>2. e.n \in Names
    BY DEF Entry
  <2>3. S \in State /\ Len(S.tab[e.n]) \in Nat
    BY <2>2, TopIs
  <2>4. at # {} => There(S, p)
    <3>1. at # {} => j \in 1..Len(S.tab[e.n])
      OBVIOUS
    <3> QED
      BY <2>2, <2>3, <3>1 DEF There
  <2> HIDE DEF p, at
  <2>5. at # {} => ~s.ref
    BY <2>4, NoRef
  <2> QED
    BY <2>1, <2>5
<1>4. F[0] \in V /\ \A i \in 1..n : F[i - 1] \in V => F[i] \in V
  BY <1>1, <1>2, <1>3
<1> HIDE DEF V
<1>5. \A i \in 0..n : F[i] \in V
  BY <1>1, <1>4, Stays
<1>6. F[n] \in V
  BY <1>1, <1>5
<1> QED
  BY <1>2, <1>6 DEF V

LEMMA endparamscopeEnv ==
    ASSUME Refs = {}, NEW S, Sound(S, S.lv), S.lv > 0, AllFine(S)
    PROVE  AllFine(endparamscope(S)) /\ Fewer(S, endparamscope(S))
<1> DEFINE v == S.lv - 1
           T == endparamscope(S)
<1>1. PICK A, B : \E list \in Seq(Entry) :
              /\ T = ResetAll(B, list)
              /\ Sound(A, A.lv + 1) /\ A.tab = S.tab /\ A.environ = S.environ
              /\ Sound(B, v) /\ B.lv = v
              /\ B.tab = ScanAll(A).tab /\ B.environ = ScanAll(A).environ
  BY endparamscopeParts
<1>2. PICK list \in Seq(Entry) : T = ResetAll(B, list) /\ Sound(B, v)
  BY <1>1
<1> HIDE DEF v, T
<1>3. T = B
  BY <1>2, ResetAllAlone
<1>4. Sound(A, A.lv + 1) /\ AllFine(A)
  BY <1>1, FineSame
<1> DEFINE U == ScanAll(A)
<1>5. AllFine(U) /\ Fewer(A, U)
  BY <1>4, ScanAllEnv
<1>6. B.tab = U.tab /\ B.environ = U.environ /\ A.tab = S.tab
  BY <1>1
<1> HIDE DEF U
<1>7. AllFine(B)
  BY <1>5, <1>6, FineSame
<1>8. Fewer(S, B)
  BY <1>5, <1>6 DEF Fewer
<1> QED
  BY <1>3, <1>7, <1>8 DEF T

\* typeset_single() of a name.
LEMMA typeset_singleEnv ==
    ASSUME Refs = {}, NEW S, Sound(S, S.lv), NEW n \in Names, Fine(S, n),
           NEW on, Fits(n, on), NEW off, NEW v \in Str \cup {None}
    PROVE  Turns(S, typeset_single(S, n, Visible(S, n), on, off, v), n, {0, S.lv})
<1> DEFINE t == S.tab[n]
           o == Visible(S, n)
           l == S.lv
           L == {0, l}
           R == typeset_single(S, n, o, on, off, v)
           X == Retype(S, n, o, on, off, v)
           Y == Create(S, n, on, v)
<1>1. /\ S \in State /\ Len(t) \in Nat
      /\ (There(S, <<n, 1>>) <=> Len(t) > 0) /\ At(S, <<n, 1>>) = t[1]
      /\ t # <<>> <=> Len(t) > 0
  <2> HIDE DEF l
  <2>1. Sound(S, l)
    BY DEF l
  <2> QED
    BY <2>1, TopIs
<1>2. IF Len(t) > 0 THEN o = <<n, 1>> /\ o # None ELSE o = None
  <2>1. IF t = <<>> THEN o = None ELSE o = <<n, 1>> /\ o # None
    BY <1>1, VisibleIs
  <2> HIDE DEF o
  <2> QED
    BY <1>1, <2>1
<1>3. o # None => ~At(S, o).ref
  <2> HIDE DEF o, l
  <2>1. Sound(S, l)
    BY DEF l
  <2> QED
    BY <1>1, <1>2, <2>1, NoRef
<1>4. /\ Meant(S, o, on, off) = o
      /\ Name(n, o) = n
      /\ ~Through(S, o, on, off)
  <2>1. ~Through(S, o, on, off)
    <3> HIDE DEF o
    <3> QED
      BY <1>3 DEF Through
  <2>2. Name(n, o) = n
    <3> HIDE DEF o
    <3> QED
      BY <1>2 DEF Name
  <2> HIDE DEF o
  <2> QED
    BY <2>1, <2>2 DEF Meant
<1> HIDE DEF o
<1>5. R = IF Used(S, o, on) THEN X ELSE Y
  <2>1. R = IF Through(S, o, on, off) /\ Meant(S, o, on, off) # None
                /\ At(S, Meant(S, o, on, off)).ref
                /\ (At(S, Meant(S, o, on, off)).set \/ At(S, Meant(S, o, on, off)).declared)
                /\ on.exported
            THEN S
            ELSE IF Used(S, Meant(S, o, on, off), on)
                 THEN Retype(S, Name(n, Meant(S, o, on, off)), Meant(S, o, on, off), on, off, v)
                 ELSE Create(S, Name(n, Meant(S, o, on, off)), on, v)
    BY DEF typeset_single, Meant, Through, Name, Used
  <2> HIDE DEF R
  <2> QED
    BY <1>4, <2>1
<1>6. Used(S, o, on) <=> Len(t) > 0 /\ t[1].set /\ (t[1].level = S.lv \/ ~on.local)
  BY <1>1, <1>2 DEF Used
<1>7. EnvOK(t, S.environ[n])
  BY DEF Fine
<1>8. LocalOK(S, n, on)
  <2>1. ~Follows(S, n, on)
    BY <1>3 DEF Follows, IsThere, o
  <2>2. Led(S, n, on) = None
    BY <2>1 DEF Led
  <2> QED
    BY <2>2 DEF LocalOK
<1> HIDE DEF R
<1>9. CASE Used(S, o, on)
  <2>1. o = <<n, 1>> /\ Len(t) > 0 /\ t[1].set
    BY <1>2, <1>6, <1>9
  <2>2. Turns(S, Retype(S, n, <<n, 1>>, on, off, v), n, {0})
    BY <2>1, RetypeEnv
  <2> DEFINE A == {0}
  <2>3. Turns(S, X, n, A) /\ A \subseteq L
    BY <2>1, <2>2
  <2> HIDE DEF A, X, L
  <2>4. Turns(S, X, n, L)
    BY <2>3, TurnsWider
  <2> QED
    BY <1>5, <1>9, <2>4 DEF L, R, o
<1>10. CASE ~Used(S, o, on)
  <2>1. ~(Len(t) > 0 /\ t[1].set /\ (t[1].level = S.lv \/ ~on.local))
    BY <1>6, <1>10
  <2>2. Turns(S, Y, n, {0, S.lv})
    BY <1>7, <1>8, <2>1, CreateEnv
  <2> HIDE DEF Y
  <2> QED
    BY <1>5, <1>10, <2>2 DEF R, o
<1> QED
  BY <1>9, <1>10

\* unset
LEMMA unsetEnv ==
    ASSUME Refs = {}, NEW l, NEW S, Sound(S, l), NEW n \in Names, Fine(S, n)
    PROVE  Turns(S, unset(S, n), n, {})
<1> DEFINE o == Visible(S, n)
           p == IF o = None THEN None ELSE Resolve(S, o, None, FALSE)
           q == <<n, 1>>
           no == FALSE
           t == S.tab[n]
<1>1. /\ S \in State /\ Len(t) \in Nat
      /\ (There(S, q) <=> Len(t) > 0)
      /\ t # <<>> <=> Len(t) > 0
  BY TopIs
<1>2. IF t = <<>> THEN o = None ELSE o = q /\ q # None
  BY <1>1, VisibleIs
<1>3. unset(S, n) = IF p = None THEN S
                    ELSE IF At(S, o).ref /\ At(S, p).level < S.lv
                    THEN Put(S, p, [stdunsetfn(At(S, p)) EXCEPT !.declared = TRUE])
                    ELSE unsetparam_pm(S, p)
  BY DEF unset
<1> HIDE DEF o
<1>4. CASE t = <<>>
  <2>1. unset(S, n) = S
    BY <1>2, <1>3, <1>4
  <2>2. Only(S, S, n) /\ LevelsFrom(t, t, {})
    BY SameLevels DEF Only
  <2> QED
    BY <2>1, <2>2 DEF Turns
<1>5. CASE t # <<>>
  <2>1. Len(t) > 0 /\ There(S, q) /\ o = q /\ q # None
    BY <1>1, <1>2, <1>5
  <2>2. no \in BOOLEAN
    OBVIOUS
  <2> HIDE DEF no, q
  <2>3. ~At(S, q).ref /\ ~IsRef(At(S, q))
    BY <2>1, NoRef
  <2>4. Resolve(S, q, None, no) = q
    BY <2>1, <2>2, <2>3, ResolveSelf
  <2>5. p = q
    BY <2>1, <2>4 DEF no
  <2>6. unset(S, n) = unsetparam_pm(S, q)
    <3> HIDE DEF p
    <3> QED
      BY <1>3, <2>1, <2>3, <2>5
  <2>7. EnvOK(S.tab[n], S.environ[n])
    BY DEF Fine
  <2>8. Turns(S, unsetparam_pm(S, <<n, 1>>), n, {})
    BY <2>1, <2>7, UnsetEnv
  <2> QED
    BY <2>6, <2>8 DEF q
<1> QED
  BY <1>4, <1>5

\* setloopvar()
LEMMA setloopvarEnv ==
    ASSUME Refs = {}, NEW S, Sound(S, S.lv), NEW n \in Names, Fine(S, n), NEW v \in Str
    PROVE  Turns(S, setloopvar(S, n, v), n, {0})
<1> DEFINE o == Visible(S, n)
           no == FALSE
           l == S.lv
           L == {0}
           A == assignsparam(S, n, v, no)
<1>1. o # None => ~At(S, o).ref
  <2> HIDE DEF l
  <2>1. Sound(S, l) /\ S \in State
    BY DEF l, Sound
  <2>2. o # None => There(S, o)
    BY <2>1, VisibleIs
  <2> HIDE DEF o
  <2> QED
    BY <2>1, <2>2, NoRef
<1>2. setloopvar(S, n, v) = A.S
  BY <1>1 DEF setloopvar
<1>3. no \in BOOLEAN
  OBVIOUS
<1>4. EnvOK(S.tab[n], S.environ[n])
  BY DEF Fine
<1> HIDE DEF no
<1>5. Turns(S, A.S, n, {0})
  BY <1>3, <1>4, assignsparamEnv
<1> HIDE DEF A
<1> QED
  BY <1>2, <1>5

\* save_params(): the parameter leaves the environment, and is assigned to.
LEMMA save_paramsEnv ==
    ASSUME NEW l, NEW S, Sound(S, l), NEW n \in Names, Fine(S, n)
    PROVE  LET T == save_params(S, n)
           IN  /\ Only(S, T, n) /\ LevelsFrom(S.tab[n], T.tab[n], {})
               /\ EnvOK(T.tab[n], T.environ[n])
<1> DEFINE T == save_params(S, n)
           U == delenv(S, <<n, 1>>)
<1>1. T = IF S.tab[n] = <<>> THEN S ELSE U
  BY DEF save_params
<1>2. (S.tab[n] # <<>> <=> Len(S.tab[n]) > 0) /\ EnvOK(S.tab[n], S.environ[n])
  BY TopIs DEF Fine
<1>3. CASE S.tab[n] = <<>>
  <2>1. T = S
    BY <1>1, <1>3
  <2>2. Only(S, S, n) /\ LevelsFrom(S.tab[n], S.tab[n], {})
    BY SameLevels DEF Only
  <2> HIDE DEF T
  <2>9. Only(S, T, n) /\ LevelsFrom(S.tab[n], T.tab[n], {}) /\ EnvOK(T.tab[n], T.environ[n])
    BY <1>2, <2>1, <2>2
  <2> QED
    BY <2>9 DEF T
<1>4. CASE S.tab[n] # <<>>
  <2>1. T = U
    BY <1>1, <1>4
  <2>2. Only(S, U, n) /\ LevelsFrom(S.tab[n], U.tab[n], {}) /\ EnvOK(U.tab[n], U.environ[n])
    BY <1>2, <1>4, delenvEnv
  <2> HIDE DEF T, U
  <2>9. Only(S, T, n) /\ LevelsFrom(S.tab[n], T.tab[n], {}) /\ EnvOK(T.tab[n], T.environ[n])
    BY <2>1, <2>2
  <2> QED
    BY <2>9 DEF T
<1> QED
  BY <1>3, <1>4

\* What is kept for the end of the command says that it is not in the
\* environment.
Aside(c) == c # None => ~InEnv(c)

LEMMA CopiedEnv ==
    ASSUME NEW l, NEW S, Sound(S, l), NEW n \in Names
    PROVE  Aside(Copied(S, n))
<1>1. CASE S.tab[n] = <<>>
  BY <1>1 DEF Copied, Aside
<1>2. CASE S.tab[n] # <<>>
  <2> DEFINE c == S.tab[n][1]
  <2>1. Copied(S, n) = Out(c)
    BY <1>2 DEF Copied, Out
  <2>2. c \in Cell
    BY <1>2, TopIs
  <2> HIDE DEF c
  <2>3. ~InEnv(Out(c))
    BY <2>2, OutEnv
  <2> QED
    BY <2>1, <2>3 DEF Aside
<1> QED
  BY <1>1, <1>2

\* An assignment in front of a command.
LEMMA PrefixEnv ==
    ASSUME Refs = {}, NEW S, Sound(S, S.lv), NEW n \in Names, Fine(S, n),
           NEW v \in Str, NEW x \in BOOLEAN
    PROVE  Turns(S, assignsparam(save_params(S, n), n, v, x).S, n, {0})
<1> DEFINE T == save_params(S, n)
           L == {0}
<1>1. Only(S, T, n) /\ LevelsFrom(S.tab[n], T.tab[n], {}) /\ EnvOK(T.tab[n], T.environ[n])
  BY save_paramsEnv
<1>2. Step(S, T, S.lv)
  BY save_paramsIs
<1> HIDE DEF T
<1>3. LevelsFrom(S.tab[n], T.tab[n], L)
  BY <1>1 DEF LevelsFrom
<1>4. Sound(T, S.lv) /\ T.lv = S.lv /\ 0 \in L
  BY <1>2 DEF Step
<1> HIDE DEF L
<1>5. Turns(S, assignsparam(T, n, v, x).S, n, L)
  BY <1>1, <1>3, <1>4, ThenAssigned
<1> QED
  BY <1>5 DEF T, L

\* A command cannot unset the outermost parameter and have another of that
\* name in its place: after unsetparam_pm() nothing of n is in the environment.
Nothing(T, n) ==
    T.environ[n] = None /\ \A k \in 1..Len(T.tab[n]) : ~InEnv(T.tab[n][k])

LEMMA JustOne ==
    ASSUME NEW k \in Nat, k > 0, 2 \notin 2..k
    PROVE  k = 1
OBVIOUS

LEMMA UnsetNothing ==
    ASSUME NEW S, Sound(S, S.lv), NEW n \in Names, Fine(S, n), Len(S.tab[n]) > 0
    PROVE  LET T == unsetparam_pm(S, <<n, 1>>)
           IN  Only(S, T, n) /\ Nothing(T, n)
<1> DEFINE T == unsetparam_pm(S, <<n, 1>>)
           t == S.tab[n]
           i == 1
           c == t[i]
<1>1. /\ S \in State /\ Len(t) \in Nat /\ S.environ \in [Names -> Str \cup {None}]
      /\ 1 \in 1..Len(t)
      /\ \A k \in 1..Len(t) : t[k] \in Cell /\ CellOK(n, t[k])
  BY TopIs
<1>2. i = 1 /\ i \in 1..Len(t) /\ c \in Cell /\ CellOK(n, c)
  BY <1>1
<1>3. EnvOK(t, S.environ[n]) /\ Chain(n, t, S.lv)
  BY DEF Fine, Sound
<1>4. S.environ[n] = (IF InEnv(c) THEN c.str ELSE None) /\ \A k \in 2..Len(t) : ~InEnv(t[k])
  BY <1>2, <1>3 DEF EnvOK
<1>5. c.level \in Nat /\ c.level <= S.lv
  <2>1. c.level \in 0..MaxLevel
    BY <1>2, CellIs
  <2>2. c.level <= S.lv
    BY <1>2, <1>3 DEF Chain
  <2> QED
    BY <2>1, <2>2, MaxLevelType
<1>6. /\ Step(S, T, S.lv)
      /\ \A m \in Names \ {n} : T.tab[m] = S.tab[m]
      /\ IF Stays1(S, t[1]) THEN Kept(S, T, n, 1) ELSE Uncovered(S, T, n, 1)
  <2>1. 1 \in Nat \ {0} /\ Sound(S, S.lv)
    OBVIOUS
  <2> QED
    BY <2>1, unsetparam_pmIs
<1>7. \A k \in 2..Len(t) : t[k].level < t[1].level
  BY <1>1, <1>3, ChainFalls
<1>8. \A k \in 2..Len(t) : t[k].level \in Nat
  <2>1. \A k \in 2..Len(t) : t[k].level \in 0..MaxLevel
    BY <1>1, CellIs
  <2> QED
    BY <2>1, MaxLevelType
<1>9. Sound(T, S.lv)
  BY <1>6 DEF Step
<1>10. Len(T.tab[n]) \in Nat
  BY <1>9, TopIs
<1> HIDE DEF T, i, c
<1>11. CASE Stays1(S, t[1])
  <2>1. /\ Len(T.tab[n]) = Len(t)
        /\ \A k \in 1..Len(t) : T.tab[n][k] = IF k = 1 THEN Bare(t[k]) ELSE t[k]
        /\ T.environ = IF t[1].env THEN [S.environ EXCEPT ![n] = None] ELSE S.environ
    BY <1>1, <1>6, <1>11 DEF Kept
  <2>2. T.environ[n] = None /\ \A m \in Names \ {n} : T.environ[m] = S.environ[m]
    <3>1. CASE InEnv(c)
      BY <1>1, <1>2, <2>1, <3>1 DEF InEnv, c
    <3>2. CASE ~InEnv(c)
      BY <1>1, <1>2, <1>4, <2>1, <3>2 DEF InEnv, c
    <3> QED
      BY <3>1, <3>2
  <2>3. ~InEnv(T.tab[n][i])
    <3>1. T.tab[n][i] = Bare(c)
      BY <1>1, <1>2, <2>1 DEF c
    <3>2. ~InEnv(Bare(c))
      BY <1>2, BareEnv
    <3> QED
      BY <3>1, <3>2
  <2>4. \A k \in 1..Len(T.tab[n]) : ~InEnv(T.tab[n][k])
    <3> SUFFICES ASSUME NEW k \in 1..Len(T.tab[n]) PROVE ~InEnv(T.tab[n][k])
      OBVIOUS
    <3>1. CASE k = i
      BY <2>3, <3>1
    <3>2. CASE k # i
      <4>1. k \in 2..Len(t) /\ k # 1 /\ k \in 1..Len(t)
        BY <1>1, <1>2, <2>1, <3>2
      <4>2. T.tab[n][k] = t[k]
        BY <2>1, <4>1
      <4> QED
        BY <1>4, <4>1, <4>2
    <3> QED
      BY <3>1, <3>2
  <2>9. Only(S, T, n) /\ Nothing(T, n)
    BY <1>6, <2>2, <2>4 DEF Only, Nothing
  <2> QED
    BY <2>9 DEF T
<1>12. CASE ~Stays1(S, t[1])
  <2>1. t[1].level = 0
    BY <1>2, <1>5, <1>12 DEF Stays1, c
  <2>2. Len(t) = 1
    <3>1. ~(2 \in 2..Len(t))
      BY <1>7, <1>8, <2>1
    <3>2. Len(t) \in Nat /\ Len(t) > 0
      BY <1>1
    <3> QED
      BY <3>1, <3>2, JustOne
  <2>3. /\ Len(T.tab[n]) = 0
        /\ T.environ = IF t[1].env THEN [S.environ EXCEPT ![n] = None] ELSE S.environ
    BY <1>1, <1>6, <1>12, <2>2 DEF Uncovered
  <2>4. T.environ[n] = None /\ \A m \in Names \ {n} : T.environ[m] = S.environ[m]
    <3>1. CASE InEnv(c)
      BY <1>1, <1>2, <2>3, <3>1 DEF InEnv, c
    <3>2. CASE ~InEnv(c)
      BY <1>1, <1>2, <1>4, <2>3, <3>2 DEF InEnv, c
    <3> QED
      BY <3>1, <3>2
  <2>9. Only(S, T, n) /\ Nothing(T, n)
    BY <1>6, <2>3, <2>4 DEF Only, Nothing
  <2> QED
    BY <2>9 DEF T
<1> QED
  BY <1>11, <1>12

\* A parameter that is nowhere in the environment, with the copy on top.
LEMMA PlacedEnv ==
    ASSUME NEW l, NEW T, Sound(T, l), NEW n \in Names, Nothing(T, n),
           NEW c \in Cell, CellOK(n, c), c.level <= l, ~InEnv(c)
    PROVE  LET U == Placed(T, n, c)
           IN  /\ Step(T, U, l) /\ Only(T, U, n) /\ EnvOK(U.tab[n], U.environ[n])
               /\ Len(U.tab[n]) > 0 /\ U.tab[n][1] = c
<1> DEFINE U == Placed(T, n, c)
<1>1. /\ Step(T, U, l) /\ There(U, <<n, 1>>)
      /\ \A m \in Names \ {n} : U.tab[m] = T.tab[m]
      /\ U.tab[n][1] = c /\ U.environ = T.environ
      /\ \A k \in 2..Len(U.tab[n]) : \E i \in 1..Len(T.tab[n]) : U.tab[n][k] = T.tab[n][i]
  BY PlacedIs
<1> HIDE DEF U
<1>2. Only(T, U, n)
  BY <1>1 DEF Only
<1>3. Len(U.tab[n]) > 0
  <2>1. Sound(U, l)
    BY <1>1 DEF Step
  <2> QED
    BY <1>1, <2>1, TopIs
<1>4. U.environ[n] = None /\ \A i \in 1..Len(T.tab[n]) : ~InEnv(T.tab[n][i])
  BY <1>1 DEF Nothing
<1>5. \A k \in 2..Len(U.tab[n]) : ~InEnv(U.tab[n][k])
  BY <1>1, <1>4
<1>6. EnvOK(U.tab[n], U.environ[n])
  BY <1>1, <1>3, <1>4, <1>5 DEF EnvOK
<1> QED
  BY <1>1, <1>2, <1>3, <1>6 DEF U

\* From S to T only n is changed, and it is left as it should be.
Mends(S, T, n) == Only(S, T, n) /\ Fine(T, n)

LEMMA MendsFine ==
    ASSUME NEW S, AllFine(S), NEW n \in Names, NEW T, Mends(S, T, n)
    PROVE  AllFine(T)
<1>1. ASSUME NEW m \in Names PROVE Fine(T, m)
  <2>1. CASE m = n
    BY <2>1 DEF Mends
  <2>2. CASE m # n
    <3>1. T.tab[m] = S.tab[m] /\ T.environ[m] = S.environ[m]
      BY <2>2 DEF Mends, Only
    <3>2. Fine(S, m)
      BY DEF AllFine
    <3> QED
      BY <3>1, <3>2 DEF Fine
  <2> QED
    BY <2>1, <2>2
<1> QED
  BY <1>1 DEF AllFine

\* What the copy is put back into.
LEMMA ClearedEnv ==
    ASSUME NEW S, Sound(S, S.lv), NEW n \in Names, Fine(S, n)
    PROVE  LET T == IF S.tab[n] = <<>> THEN S ELSE unsetparam_pm(S, <<n, 1>>)
           IN  Step(S, T, S.lv) /\ Only(S, T, n) /\ Nothing(T, n)
               /\ ExpOK(T.tab[n])
<1> DEFINE V == unsetparam_pm(S, <<n, 1>>)
           T == IF S.tab[n] = <<>> THEN S ELSE V
<1>1. (S.tab[n] # <<>> <=> Len(S.tab[n]) > 0) /\ Len(S.tab[n]) \in Nat
  BY TopIs
<1>2. CASE S.tab[n] = <<>>
  <2>1. T = S
    BY <1>2
  <2>2. Only(S, S, n) /\ Step(S, S, S.lv)
    BY DEF Only, Step
  <2>3. Len(S.tab[n]) = 0
    BY <1>2
  <2>4. Nothing(S, n) /\ ExpOK(S.tab[n])
    BY <2>3 DEF Nothing, Fine, EnvOK, ExpOK
  <2> HIDE DEF T
  <2>9. Step(S, T, S.lv) /\ Only(S, T, n) /\ Nothing(T, n) /\ ExpOK(T.tab[n])
    BY <2>1, <2>2, <2>4
  <2> QED
    BY <2>9 DEF T
<1>3. CASE S.tab[n] # <<>>
  <2>1. T = V
    BY <1>3
  <2>2. Only(S, V, n) /\ Nothing(V, n)
    BY <1>1, <1>3, UnsetNothing
  <2>3. Step(S, V, S.lv)
    <3>1. <<n, 1>> \in Names \X (Nat \ {0}) /\ Sound(S, S.lv)
      OBVIOUS
    <3> HIDE DEF V
    <3> QED
      BY <3>1, unsetStep DEF V
  <2>4. ExpOK(V.tab[n])
    <3>1. EnvOK(S.tab[n], S.environ[n]) /\ Len(S.tab[n]) > 0
      BY <1>1, <1>3 DEF Fine
    <3>2. Turns(S, V, n, {})
      BY <3>1, UnsetEnv
    <3> HIDE DEF V
    <3> QED
      BY <3>2 DEF Turns, Fine
  <2> HIDE DEF T, V
  <2>9. Step(S, T, S.lv) /\ Only(S, T, n) /\ Nothing(T, n) /\ ExpOK(T.tab[n])
    BY <2>1, <2>2, <2>3, <2>4
  <2> QED
    BY <2>9 DEF T, V
<1> QED
  BY <1>2, <1>3

LEMMA OnlyMore ==
    ASSUME NEW S, NEW T, NEW U, NEW n, Only(S, T, n), Only(T, U, n)
    PROVE  Only(S, U, n)
BY DEF Only

\* restore_params()
LEMMA restore_paramsEnv ==
    ASSUME NEW S, Sound(S, S.lv), NEW n \in Names, Fine(S, n),
           NEW copy, CopyOK(n, copy, S.lv), Aside(copy)
    PROVE  Mends(S, restore_params(S, n, copy), n)
<1> DEFINE T == IF S.tab[n] = <<>> THEN S ELSE unsetparam_pm(S, <<n, 1>>)
           U == Placed(T, n, copy)
           back == copy.exported /\ copy.set
           R == restore_params(S, n, copy)
<1>1. R = IF copy = None THEN T
          ELSE IF back THEN addenv(U, <<n, 1>>, copy.str) ELSE U
  BY Zenon DEF restore_params, Placed
<1>2. Step(S, T, S.lv) /\ Only(S, T, n) /\ Nothing(T, n) /\ ExpOK(T.tab[n])
  BY ClearedEnv
<1> HIDE DEF T, R
<1>3. CASE copy = None
  <2>1. EnvOK(T.tab[n], T.environ[n])
    <3>1. Sound(T, S.lv)
      BY <1>2 DEF Step
    <3>2. Len(T.tab[n]) \in Nat
      BY <3>1, TopIs
    <3> QED
      BY <1>2, <3>2 DEF Nothing, EnvOK
  <2> QED
    BY <1>1, <1>2, <1>3, <2>1 DEF Mends, Fine, R
<1>4. CASE copy # None
  <2>1. copy \in Cell /\ CellOK(n, copy) /\ copy.level <= S.lv /\ ~InEnv(copy)
    BY <1>4 DEF CopyOK, Aside
  <2>2. Sound(T, S.lv)
    BY <1>2 DEF Step
  <2>3. /\ Step(T, U, S.lv) /\ Only(T, U, n) /\ EnvOK(U.tab[n], U.environ[n])
        /\ Len(U.tab[n]) > 0 /\ U.tab[n][1] = copy
    BY <1>2, <2>1, <2>2, PlacedEnv
  <2> HIDE DEF U
  <2>4. Only(S, U, n)
    BY <1>2, <2>3, OnlyMore
  <2>5. CASE back
    <3> DEFINE W == addenv(U, <<n, 1>>, copy.str)
    <3>1. R = W
      BY <1>1, <1>4, <2>5
    <3>2. Sound(U, S.lv)
      BY <2>3 DEF Step
    <3> DEFINE v == copy.str
    <3>3. v = U.tab[n][1].str
      BY <2>3
    <3> HIDE DEF v
    <3>4. Turns(U, addenv(U, <<n, 1>>, v), n, {})
      BY <2>3, <3>2, <3>3, addenvEnv
    <3>5. Turns(U, W, n, {})
      BY <3>4 DEF v
    <3> HIDE DEF W
    <3>6. Only(S, W, n) /\ Fine(W, n)
      BY <2>4, <3>5, OnlyMore DEF Turns
    <3> QED
      BY <3>1, <3>6 DEF Mends, R
  <2>6. CASE ~back
    <3>1. R = U
      BY <1>1, <1>4, <2>6
    <3>2. ~ToExport(copy)
      BY <2>6 DEF ToExport
    <3>3. ExpOK(U.tab[n])
      BY <2>3, <3>2 DEF ExpOK
    <3> QED
      BY <2>3, <2>4, <3>1, <3>3 DEF Mends, Fine, R
  <2> QED
    BY <2>5, <2>6
<1> QED
  BY <1>3, <1>4

-----------------------------------------------------------------------------
(* The environment of commands.                                            *)

\* Each visible parameter is in the environment as it should be, and what is
\* kept for the end of a command says that it is not there.
EInv ==
    /\ IInv
    /\ AllFine(S0)
    /\ \A i \in 1..Len(frames) : Aside(frames[i].copy)

LEMMA BecomeFine ==
    ASSUME NEW S, AllFine(S), Become(S)
    PROVE  AllFine(S0)'
<1>1. tab' = S.tab /\ environ' = S.environ
  BY DEF Become
<1>2. S0'.tab = S.tab /\ S0'.environ = S.environ
  BY <1>1 DEF S0
<1> QED
  BY <1>2 DEF AllFine, Fine

LEMMA FineAt ==
    ASSUME EInv, NEW n \in Names
    PROVE  Sound(S0, S0.lv) /\ Fine(S0, n) /\ EnvOK(S0.tab[n], S0.environ[n])
BY InvIs DEF EInv, AllFine, Fine

\* A command that changes one parameter only and leaves it as it should be; a
\* struct that it makes is global or of the current scope.
Changing == \E S : \E n \in Names : Do(S) /\ Turns(S0, S, n, {0, S0.lv})

LEMMA ChangingFine ==
    ASSUME EInv, IInv', Changing
    PROVE  EInv'
<1>1. PICK S : \E n \in Names : Do(S) /\ Turns(S0, S, n, {0, S0.lv})
  BY DEF Changing
<1>2. PICK n \in Names : Do(S) /\ Turns(S0, S, n, {0, S0.lv})
  BY <1>1
<1>3. AllFine(S)
  BY <1>2, TurnsFine DEF EInv
<1>4. Become(S) /\ frames' = frames
  BY <1>2 DEF Do
<1>5. AllFine(S0)'
  BY <1>3, <1>4, BecomeFine
<1> QED
  BY <1>4, <1>5 DEF EInv

LEMMA DoChanges ==
    ASSUME NEW S, NEW n \in Names, NEW L, Turns(S0, S, n, L), L \subseteq {0, S0.lv}, Do(S)
    PROVE  Changing
<1> DEFINE M == {0, S0.lv}
<1>1. L \subseteq M
  OBVIOUS
<1> HIDE DEF M
<1>2. Turns(S0, S, n, M)
  BY <1>1, TurnsWider
<1> QED
  BY <1>2 DEF Changing, M

LEMMA AssignChanges ==
    ASSUME Refs = {}, EInv, NEW n \in Names, NEW v \in Values[n], Assign(n, v)
    PROVE  Changing
<1> DEFINE no == FALSE
           S == assignsparam(S0, n, v, no).S
<1>1. v \in Str /\ no \in BOOLEAN /\ Do(S)
  BY ValuesIs DEF Assign
<1> HIDE DEF no
<1>2. Turns(S0, S, n, {0})
  BY <1>1, FineAt, assignsparamEnv
<1> HIDE DEF S
<1> QED
  BY <1>1, <1>2, DoChanges

LEMMA ForChanges ==
    ASSUME Refs = {}, EInv, NEW n \in Names, NEW v \in Values[n], For(n, v)
    PROVE  Changing
<1> DEFINE S == setloopvar(S0, n, v)
<1>1. v \in Str /\ Do(S)
  BY ValuesIs DEF For
<1>2. Turns(S0, S, n, {0})
  BY <1>1, FineAt, setloopvarEnv
<1> HIDE DEF S
<1> QED
  BY <1>1, <1>2, DoChanges

LEMMA UnsetChanges ==
    ASSUME Refs = {}, EInv, NEW n \in Names, Unset(n)
    PROVE  Changing
<1> DEFINE S == unset(S0, n)
<1>1. Do(S)
  BY DEF Unset
<1>2. Turns(S0, S, n, {})
  BY FineAt, unsetEnv
<1> HIDE DEF S
<1> QED
  BY <1>1, <1>2, DoChanges

\* A declaration that does not make n a reference.
LEMMA DeclareChanges ==
    ASSUME Refs = {}, EInv, NEW n \in Names, NEW F, NEW off, "n" \notin F,
           NEW v \in Str \cup {None},
           Do(typeset_single(S0, n, Visible(S0, n), Flags(F), off, v))
    PROVE  Changing
<1> DEFINE on == Flags(F)
           S == typeset_single(S0, n, Visible(S0, n), on, off, v)
<1>1. on \in Opts /\ ~on.ref
  BY FlagsIs
<1>2. Do(S)
  OBVIOUS
<1> HIDE DEF on
<1>3. Fits(n, on)
  BY <1>1 DEF Fits
<1>4. Turns(S0, S, n, {0, S0.lv})
  BY <1>3, FineAt, typeset_singleEnv
<1> HIDE DEF S
<1> QED
  BY <1>2, <1>4 DEF Changing

LEMMA TypesetChanges ==
    ASSUME Refs = {}, EInv, NEW n \in Names, NEW v \in Given(n),
           (v \in Values[n] /\ Global(n, v)) \/ Local(n, v) \/ LocalExport(n, v) \/ Export(n, v)
    PROVE  Changing
<1>1. "n" \notin {} /\ "n" \notin {"l"} /\ "n" \notin {"x"} /\ "n" \notin {"l", "x"}
      /\ v \in Str \cup {None}
  BY ValuesIs
<1> DEFINE off == Flags({})
           T(on) == typeset_single(S0, n, Visible(S0, n), on, off, v)
<1>2. \/ Do(T(Flags({}))) \/ Do(T(Flags({"l"}))) \/ Do(T(Flags({"l", "x"})))
      \/ Do(T(Flags({"x"})))
  BY DEF Global, Local, LocalExport, Export
<1>3. ASSUME NEW F, "n" \notin F, Do(T(Flags(F))) PROVE Changing
  <2> HIDE DEF off
  <2> QED
    BY <1>1, <1>3, DeclareChanges
<1> QED
  BY <1>1, <1>2, <1>3

LEMMA UnexportChanges ==
    ASSUME Refs = {}, EInv, NEW n \in Names, Unexport(n)
    PROVE  Changing
<1> DEFINE off == Flags({"x"})
           E == {}
           w == None
<1>1. Do(typeset_single(S0, n, Visible(S0, n), Flags(E), off, w))
  BY DEF Unexport
<1>2. "n" \notin E /\ w \in Str \cup {None}
  OBVIOUS
<1> HIDE DEF off, E, w
<1> QED
  BY <1>1, <1>2, DeclareChanges

\* A frame is begun with the copy c in it.
LEMMA BeginFine ==
    ASSUME EInv, IInv', NEW S, AllFine(S), Become(S), NEW f, Aside(f.copy),
           frames' = <<f>> \o frames
    PROVE  EInv'
<1>1. AllFine(S0)'
  BY BecomeFine
<1>2. frames \in Seq(Frame)
  BY DEF EInv, IInv, FramesOK
<1> DEFINE g == frames'
<1>3. Len(g) = Len(frames) + 1 /\ g[1] = f /\ \A i \in 2..Len(g) : g[i] = frames[i - 1]
  BY <1>2
<1>4. \A i \in 2..Len(g) : i - 1 \in 1..Len(frames)
  BY <1>2, <1>3
<1>5. ASSUME NEW i \in 1..Len(g) PROVE Aside(g[i].copy)
  <2>1. CASE i = 1
    BY <1>3, <2>1
  <2>2. CASE i # 1
    <3>1. i \in 2..Len(g)
      BY <2>2
    <3>2. g[i] = frames[i - 1] /\ i - 1 \in 1..Len(frames)
      BY <1>3, <1>4, <3>1
    <3> QED
      BY <3>2 DEF EInv
  <2> QED
    BY <2>1, <2>2
<1> QED
  BY <1>1, <1>5 DEF EInv

LEMMA CallFine ==
    ASSUME EInv, IInv', Call
    PROVE  EInv'
<1> DEFINE f == [func |-> TRUE, n |-> None, copy |-> None]
           S == [S0 EXCEPT !.lv = @ + 1]
<1>1. frames' = <<f>> \o frames /\ Become(S)
  BY DEF Call
<1>2. S.tab = S0.tab /\ S.environ = S0.environ
  BY DEF S0
<1>3. Aside(f.copy)
  BY DEF Aside
<1>4. AllFine(S0)
  BY DEF EInv
<1> HIDE DEF f, S
<1>5. AllFine(S)
  BY <1>2, <1>4, FineSame
<1> QED
  BY <1>1, <1>3, <1>5, BeginFine

LEMMA PrefixIs ==
    ASSUME Refs = {}, EInv, NEW n \in Names, NEW v \in Str, NEW func \in BOOLEAN
    PROVE  LET T == assignsparam(save_params(S0, n), n, v, func).S
           IN  Turns(S0, T, n, {0}) /\ Step(S0, T, locallevel)
<1> DEFINE T == assignsparam(save_params(S0, n), n, v, func).S
           U == save_params(S0, n)
<1>1. Turns(S0, T, n, {0})
  BY FineAt, PrefixEnv
<1>2. Step(S0, U, locallevel)
  BY InvIs, save_paramsIs DEF EInv
<1> HIDE DEF U
<1>3. Sound(U, U.lv) /\ U.lv = locallevel
  BY <1>2, InvIs DEF Step, EInv
<1>4. Step(U, assignsparam(U, n, v, func).S, locallevel)
  BY <1>3, assignsparamIs
<1>5. Step(S0, T, locallevel)
  BY <1>2, <1>4, StepMore DEF U
<1> QED
  BY <1>1, <1>5

LEMMA PrefixedFine ==
    ASSUME Refs = {}, EInv, IInv', NEW n \in Names, NEW v \in Values[n], NEW func \in BOOLEAN,
           Prefixed(n, v, func)
    PROVE  EInv'
<1> DEFINE c == Copied(S0, n)
           f == [func |-> func, n |-> n, copy |-> c]
           T == assignsparam(save_params(S0, n), n, v, func).S
           S == [T EXCEPT !.lv = IF func THEN @ + 1 ELSE @]
<1>1. frames' = <<f>> \o frames /\ Become(S)
  BY DEF Prefixed
<1>2. v \in Str
  BY ValuesIs
<1>3. Turns(S0, T, n, {0}) /\ Step(S0, T, locallevel)
  BY <1>2, PrefixIs
<1>5. Aside(c)
  BY FineAt, CopiedEnv
<1> HIDE DEF T, c
<1>6. T \in State
  BY <1>3 DEF Step, Sound
<1>7. S.tab = T.tab /\ S.environ = T.environ
  BY <1>6 DEF State
<1>8. AllFine(T)
  BY <1>3, TurnsFine DEF EInv
<1>9. Aside(f.copy)
  BY <1>5
<1> HIDE DEF f, S
<1>10. AllFine(S)
  BY <1>7, <1>8, FineSame
<1> QED
  BY <1>1, <1>9, <1>10, BeginFine

\* The end of the scope of a function.
Left(f) == IF f.func THEN endparamscope(S0) ELSE S0

LEMMA LeftIs ==
    ASSUME Refs = {}, EInv, NEW f, NEW l \in Nat, l = Outside(f, locallevel)
    PROVE  /\ Sound(Left(f), Left(f).lv) /\ Left(f).lv = l
           /\ AllFine(Left(f)) /\ Fewer(S0, Left(f))
<1> DEFINE S == Left(f)
<1>1. Sound(S0, S0.lv) /\ S0.lv = locallevel /\ AllFine(S0)
  BY InvIs DEF EInv
<1>2. CASE f.func
  <2>1. l = locallevel - 1
    BY <1>2 DEF Outside
  <2>2. S0.lv > 0 /\ S0.lv - 1 = l
    BY <1>1, <2>1, InvIs DEF EInv
  <2> DEFINE E == endparamscope(S0)
  <2>3. Sound(E, S0.lv - 1) /\ E.lv = S0.lv - 1
    BY <1>1, <2>2, endparamscopeIs
  <2>4. AllFine(E) /\ Fewer(S0, E)
    BY <1>1, <2>2, endparamscopeEnv
  <2>5. S = E
    BY <1>2 DEF Left
  <2> HIDE DEF E, S
  <2>6. Sound(S, S.lv) /\ S.lv = l /\ AllFine(S) /\ Fewer(S0, S)
    BY <2>2, <2>3, <2>4, <2>5
  <2> QED
    BY <2>6 DEF S
<1>3. CASE ~f.func
  <2>1. S = S0 /\ l = locallevel
    BY <1>3 DEF Outside, Left
  <2>2. Fewer(S0, S0)
    BY FewerSame
  <2> HIDE DEF S
  <2>3. Sound(S, S.lv) /\ S.lv = l /\ AllFine(S) /\ Fewer(S0, S)
    BY <1>1, <2>1, <2>2
  <2> QED
    BY <2>3 DEF S
<1> QED
  BY <1>2, <1>3

LEMMA ReturnFine ==
    ASSUME Refs = {}, EInv, IInv', Return
    PROVE  EInv'
<1> DEFINE f == Head(frames)
           l == Outside(f, locallevel)
           S == Left(f)
           T == IF f.n = None THEN S ELSE restore_params(S, f.n, f.copy)
<1>1. frames # <<>> /\ frames' = Tail(frames) /\ Become(T)
  BY DEF Return, Left
<1>2. l \in Nat /\ FrameOK(f, l) /\ frames \in Seq(Frame)
  BY <1>1, InvIs, FramesEnd DEF EInv, FramesOK
<1>3. 1 \in 1..Len(frames) /\ f = frames[1]
  BY <1>1, <1>2
<1>4. Aside(f.copy)
  BY <1>3 DEF EInv
<1> HIDE DEF f
<1>6. Sound(S, S.lv) /\ S.lv = l /\ AllFine(S)
  <2> HIDE DEF S
  <2> QED
    BY <1>2, LeftIs DEF S
<1> HIDE DEF S, l
<1>7. AllFine(T)
  <2>1. CASE f.n = None
    BY <1>6, <2>1
  <2>2. CASE f.n # None
    <3>1. f.n \in Names /\ CopyOK(f.n, f.copy, S.lv)
      BY <1>2, <1>6, <2>2 DEF FrameOK
    <3>2. Fine(S, f.n)
      BY <1>6, <3>1 DEF AllFine
    <3>3. Mends(S, restore_params(S, f.n, f.copy), f.n)
      BY <1>4, <1>6, <3>1, <3>2, restore_paramsEnv
    <3>4. T = restore_params(S, f.n, f.copy)
      BY <2>2
    <3> HIDE DEF T
    <3>5. Mends(S, T, f.n)
      BY <3>3, <3>4
    <3>9. AllFine(T)
      BY <1>6, <3>1, <3>5, MendsFine
    <3> QED
      BY <3>9 DEF T
  <2> QED
    BY <2>1, <2>2
<1> HIDE DEF T
<1>8. AllFine(S0)'
  BY <1>1, <1>7, BecomeFine
<1> DEFINE g == Tail(frames)
<1>9. Len(g) = Len(frames) - 1 /\ \A i \in 1..Len(g) : g[i] = frames[i + 1]
  BY <1>1, <1>2
<1>10. \A i \in 1..Len(g) : i + 1 \in 1..Len(frames)
  BY <1>2, <1>9
<1> HIDE DEF g
<1>11. \A i \in 1..Len(g) : Aside(g[i].copy)
  BY <1>9, <1>10 DEF EInv
<1>12. frames' = g
  BY <1>1 DEF g
<1> QED
  BY <1>8, <1>11, <1>12 DEF EInv

\* Without references every step is one of these.
LEMMA NextIs ==
    ASSUME Refs = {}, EInv, Next
    PROVE  \/ Changing /\ locallevel' = locallevel
           \/ \E n \in Names : \E v \in Values[n], func \in BOOLEAN : Prefixed(n, v, func)
           \/ Call
           \/ Return
<1>1. NoHidden /\ IInv
  BY DEF NoHidden, EInv
<1>2. ASSUME NEW n \in Names, NEW v \in Values[n], Assign(n, v) \/ For(n, v) \/ Global(n, v)
      PROVE  Changing /\ locallevel' = locallevel
  <2>1. v \in Given(n)
    BY DEF Given
  <2>2. locallevel' = locallevel
    BY <1>1, <1>2, AssignInv, ForInv, GlobalInv
  <2> QED
    BY <1>2, <2>1, <2>2, AssignChanges, ForChanges, TypesetChanges
<1>3. ASSUME NEW n \in Names, NEW v \in Given(n),
             Local(n, v) \/ LocalExport(n, v) \/ Export(n, v)
      PROVE  Changing /\ locallevel' = locallevel
  <2>1. locallevel' = locallevel
    BY <1>1, <1>3, LocalInv, LocalExportInv, ExportInv
  <2> QED
    BY <1>3, <2>1, TypesetChanges
<1>4. ASSUME NEW n \in Names, NEW v \in Given(n)
      PROVE  ~Reference(n, v) /\ ~GlobalReference(n, v)
  BY DEF Reference, GlobalReference
<1>5. ASSUME NEW n \in Names,
             Unexport(n) \/ Dereference(n) \/ Unset(n) \/ UnsetReference(n)
      PROVE  Changing /\ locallevel' = locallevel
  <2>1. ~Dereference(n) /\ ~UnsetReference(n)
    BY DEF Dereference, UnsetReference
  <2>2. locallevel' = locallevel
    BY <1>1, <1>5, <2>1, UnexportInv, UnsetInv
  <2> QED
    BY <1>5, <2>1, <2>2, UnexportChanges, UnsetChanges
<1> QED
  BY <1>2, <1>3, <1>4, <1>5 DEF Next

LEMMA NextFine ==
    ASSUME Refs = {}, EInv, [Next]_vars
    PROVE  EInv'
<1>1. IInv'
  <2>1. NoHidden /\ IInv
    BY DEF NoHidden, EInv
  <2> QED
    BY <2>1, NextInv
<1>2. CASE Next
  <2>1. CASE Changing
    BY <1>1, <2>1, ChangingFine
  <2>2. ASSUME NEW n \in Names, NEW v \in Values[n], NEW func \in BOOLEAN, Prefixed(n, v, func)
        PROVE  EInv'
    BY <1>1, <2>2, PrefixedFine
  <2>3. CASE Call
    BY <1>1, <2>3, CallFine
  <2>4. CASE Return
    BY <1>1, <2>4, ReturnFine
  <2> QED
    BY <1>2, <2>1, <2>2, <2>3, <2>4, NextIs
<1>3. CASE UNCHANGED vars
  <2>1. S0' = S0 /\ frames' = frames
    BY <1>3 DEF vars, S0
  <2>2. AllFine(S0)'
    BY <2>1 DEF AllFine, Fine, EInv
  <2> QED
    BY <1>1, <2>1, <2>2 DEF EInv
<1> QED
  BY <1>2, <1>3

LEMMA InitFine ==
    ASSUME Init
    PROVE  EInv
<1>1. /\ tab = [n \in Names |-> <<>>] /\ environ = [n \in Names |-> None]
      /\ Len(frames) = 0
  BY DEF Init
<1>2. \A n \in Names : Len(S0.tab[n]) = 0 /\ S0.environ[n] = None
  BY <1>1, S0Is
<1>3. AllFine(S0)
  BY <1>2 DEF AllFine, Fine, EnvOK, ExpOK
<1> QED
  BY <1>1, <1>3, InitIs DEF EInv

LEMMA EInvMatches ==
    ASSUME EInv
    PROVE  EnvMatches
<1> SUFFICES ASSUME NEW n \in Names
             PROVE  LET t == tab[n] IN
                    /\ environ[n] # None =>
                          t # <<>> /\ t[1].env /\ environ[n] = t[1].str
                    /\ t # <<>> /\ t[1].exported /\ t[1].set /\ t[1].str # "" =>
                          environ[n] = t[1].str
                    /\ \A i \in 2..Len(t) : ~t[i].env
  BY DEF EnvMatches
<1> DEFINE t == tab[n]
           e == environ[n]
<1>1. EnvOK(t, e) /\ ExpOK(t)
  BY S0Is DEF EInv, AllFine, Fine
<1>2. (t # <<>> <=> Len(t) > 0) /\ Len(t) \in Nat
  BY TopIs, FineAt, S0Is
<1> HIDE DEF t, e
<1>3. e # None => t # <<>> /\ InEnv(t[1]) /\ e = t[1].str
  <2>1. CASE Len(t) > 0
    <3>1. e = IF InEnv(t[1]) THEN t[1].str ELSE None
      BY <1>1, <2>1 DEF EnvOK
    <3> QED
      BY <1>2, <2>1, <3>1
  <2>2. CASE ~(Len(t) > 0)
    BY <1>1, <1>2, <2>2 DEF EnvOK
  <2> QED
    BY <2>1, <2>2
<1>4. t # <<>> /\ ToExport(t[1]) => e = t[1].str
  BY <1>1, <1>2 DEF EnvOK, ExpOK
<1>5. \A i \in 2..Len(t) : ~InEnv(t[i])
  BY <1>1 DEF EnvOK
<1> QED
  BY <1>3, <1>4, <1>5, Zenon DEF InEnv, ToExport, t, e

\* Without references, what commands find in the environment is the visible
\* parameter if it is exported, with its value, and nothing of those that it
\* hides (addenv(), delenv(), unsetparam_pm(), createparam(), save_params(),
\* restore_params()).  Through a reference bin_unset() marks a parameter as
\* unset and leaves it in the environment.
THEOREM EnvironmentMatches ==
    ASSUME Refs = {}
    PROVE  Spec => []EnvMatches
<1>1. Init => EInv
  BY InitFine
<1>2. EInv /\ [Next]_vars => EInv'
  BY NextFine
<1>3. EInv => EnvMatches
  BY EInvMatches
<1> QED
  BY <1>1, <1>2, <1>3, PTL DEF Spec

-----------------------------------------------------------------------------
(* Assignments in front of commands are undone.                            *)

\* A level that is that of all functions, or of the scope l or one further in.
Inner(v, l) == v = 0 \/ v >= l
AllInner(t, l) == \A k \in 1..Len(t) : Inner(t[k].level, l)

\* f begins a command in front of which a parameter is assigned to that was
\* not there; f keeps a struct of n.
Absent(f) == f.n # None /\ f.copy = None
Saves(f, n) == f.n = n /\ f.copy # None

\* A parameter that was not there when such a command began has only structs
\* that were made since, so none of the scopes around it, but those of all
\* functions; nor has what commands inside have put aside.
Since(t, fr, d) ==
    \A i \in 1..Len(fr) : Absent(fr[i]) =>
        /\ AllInner(t[fr[i].n], d[i - 1])
        /\ \A j \in 1..Len(fr) : j < i /\ Saves(fr[j], fr[i].n) => Inner(fr[j].copy.level, d[i - 1])

Descends(fr, l, d) ==
    Depths(fr, l, d) /\ \A i, j \in 0..Len(fr) : i <= j => d[j] <= d[i]

PInv == EInv /\ \E d : Descends(frames, locallevel, d) /\ Since(tab, frames, d)

LEMMA InnerFrom ==
    ASSUME NEW t, NEW u, NEW L, LevelsFrom(t, u, L), NEW l, AllInner(t, l),
           \A v \in L : Inner(v, l)
    PROVE  AllInner(u, l)
<1>1. ASSUME NEW k \in 1..Len(u) PROVE Inner(u[k].level, l)
  <2>1. CASE u[k].level \in L
    BY <2>1
  <2>2. ASSUME NEW i \in 1..Len(t), u[k].level = t[i].level PROVE Inner(u[k].level, l)
    <3>1. Inner(t[i].level, l)
      BY DEF AllInner
    <3> QED
      BY <2>2, <3>1
  <2> QED
    BY <2>1, <2>2 DEF LevelsFrom
<1> QED
  BY <1>1 DEF AllInner

LEMMA ChangingSince ==
    ASSUME PInv, EInv', Changing, locallevel' = locallevel
    PROVE  PInv'
<1>1. PICK S : \E n \in Names : Do(S) /\ Turns(S0, S, n, {0, S0.lv})
  BY DEF Changing
<1>2. PICK n \in Names : Do(S) /\ Turns(S0, S, n, {0, S0.lv})
  BY <1>1
<1>3. PICK d : Descends(frames, locallevel, d) /\ Since(tab, frames, d)
  BY DEF PInv
<1>4. tab' = S.tab /\ frames' = frames
  BY <1>2 DEF Do, Become
<1>5. /\ \A m \in Names \ {n} : S.tab[m] = tab[m]
      /\ LevelsFrom(tab[n], S.tab[n], {0, locallevel})
  BY <1>2, S0Is DEF Turns, Only
<1>6. ASSUME NEW m \in Names, NEW x \in Nat, x <= locallevel, AllInner(tab[m], x)
      PROVE  AllInner(S.tab[m], x)
  <2>1. CASE m = n
    <3> DEFINE t == tab[n]
               u == S.tab[n]
               L == {0, locallevel}
    <3>1. AllInner(t, x) /\ LevelsFrom(t, u, L)
      BY <1>5, <1>6, <2>1
    <3>2. \A v \in L : Inner(v, x)
      BY <1>6, InvIs DEF Inner, PInv, EInv
    <3> HIDE DEF t, u, L
    <3>3. AllInner(u, x)
      BY <3>1, <3>2, InnerFrom
    <3> QED
      BY <2>1, <3>3 DEF u
  <2>2. CASE m # n
    <3>1. S.tab[m] = tab[m]
      BY <1>5, <2>2
    <3> QED
      BY <1>6, <3>1
  <2> QED
    BY <2>1, <2>2
<1>7. Since(S.tab, frames, d)
  <2> SUFFICES ASSUME NEW i \in 1..Len(frames), Absent(frames[i])
               PROVE  AllInner(S.tab[frames[i].n], d[i - 1])
    BY <1>3 DEF Since
  <2>1. AllInner(tab[frames[i].n], d[i - 1])
    BY <1>3 DEF Since
  <2>2. frames[i].n \in Names
    <3>1. FrameOK(frames[i], d[i])
      BY <1>3 DEF Descends, Depths
    <3> QED
      BY <3>1 DEF FrameOK, Absent
  <2>3. d[i - 1] \in Nat /\ d[i - 1] <= locallevel
    <3>1. frames \in Seq(Frame)
      BY DEF PInv, EInv, IInv, FramesOK
    <3>2. i - 1 \in 0..Len(frames) /\ 0 \in 0..Len(frames) /\ 0 <= i - 1
      BY <3>1
    <3> QED
      BY <1>3, <3>2 DEF Descends, Depths
  <2> DEFINE m == frames[i].n
             x == d[i - 1]
  <2>4. m \in Names /\ x \in Nat /\ x <= locallevel /\ AllInner(tab[m], x)
    BY <2>1, <2>2, <2>3
  <2> HIDE DEF m, x
  <2>5. AllInner(S.tab[m], x)
    BY <1>6, <2>4
  <2> QED
    BY <2>5 DEF m, x
<1>8. Descends(frames', locallevel', d) /\ Since(tab', frames', d)
  BY <1>3, <1>4, <1>7
<1> QED
  BY <1>8 DEF PInv

\* The frame f begins.
LEMMA BeginSince ==
    ASSUME NEW fr \in Seq(Frame), NEW l \in Nat, NEW d, Descends(fr, l, d), NEW t, Since(t, fr, d),
           NEW f, FrameOK(f, l), NEW m \in Nat, l = Outside(f, m), NEW u,
           \A i \in 1..Len(fr) : Absent(fr[i]) =>
               /\ AllInner(u[fr[i].n], d[i - 1])
               /\ Saves(f, fr[i].n) => Inner(f.copy.level, d[i - 1]),
           Absent(f) => AllInner(u[f.n], m)
    PROVE  \E e : Descends(<<f>> \o fr, m, e) /\ Since(u, <<f>> \o fr, e)
<1> DEFINE g == <<f>> \o fr
           e == [i \in 0..Len(g) |-> IF i = 0 THEN m ELSE d[i - 1]]
<1>1. Len(fr) \in Nat /\ f \in Frame
  BY DEF FrameOK
<1>2. /\ d \in [0..Len(fr) -> Nat] /\ d[0] = l
      /\ \A i \in 1..Len(fr) : d[i] = Outside(fr[i], d[i - 1]) /\ FrameOK(fr[i], d[i])
      /\ \A i, j \in 0..Len(fr) : i <= j => d[j] <= d[i]
  BY DEF Descends, Depths
<1>3. g \in Seq(Frame) /\ Len(g) = Len(fr) + 1 /\ g[1] = f /\ \A i \in 2..Len(g) : g[i] = fr[i - 1]
  BY <1>1
<1> HIDE DEF g
<1>4. \A i \in 1..Len(g) : i - 1 \in 0..Len(fr)
  BY <1>1, <1>3
<1>5. e \in [0..Len(g) -> Nat] /\ e[0] = m /\ \A i \in 1..Len(g) : e[i] = d[i - 1]
  <2>1. Len(g) \in Nat
    BY <1>1, <1>3
  <2>2. \A i \in 0..Len(g) : i = 0 \/ i \in 1..Len(g)
    BY <2>1
  <2> QED
    BY <1>2, <1>4, <2>1, <2>2
<1> HIDE DEF e
<1>6. \A i \in 2..Len(g) : /\ i - 1 \in 1..Len(fr) /\ i - 1 \in 1..Len(g)
                           /\ g[i] = fr[i - 1] /\ e[i] = d[i - 1] /\ e[i - 1] = d[(i - 1) - 1]
  BY <1>1, <1>3, <1>5
<1>7. ASSUME NEW i \in 1..Len(g)
      PROVE  e[i] = Outside(g[i], e[i - 1]) /\ FrameOK(g[i], e[i])
  <2>1. CASE i = 1
    BY <1>2, <1>3, <1>5, <2>1
  <2>2. CASE i # 1
    <3>1. i \in 2..Len(g)
      BY <2>2
    <3>2. d[i - 1] = Outside(fr[i - 1], d[(i - 1) - 1]) /\ FrameOK(fr[i - 1], d[i - 1])
      BY <1>2, <1>6, <3>1
    <3> QED
      BY <1>6, <3>1, <3>2
  <2> QED
    BY <2>1, <2>2
<1>8. l <= m
  BY DEF Outside
<1>9. ASSUME NEW i \in 0..Len(g), NEW j \in 0..Len(g), i <= j
      PROVE  e[j] <= e[i]
  <2>1. CASE i = 0 /\ j = 0
    BY <1>5, <2>1
  <2>2. CASE i = 0 /\ j # 0
    <3>1. j \in 1..Len(g) /\ j - 1 \in 0..Len(fr) /\ 0 \in 0..Len(fr) /\ 0 <= j - 1
      BY <1>1, <1>3, <2>2
    <3>2. e[j] = d[j - 1] /\ d[j - 1] <= d[0] /\ d[j - 1] \in Nat /\ e[0] = m
      BY <1>2, <1>5, <3>1
    <3> QED
      BY <1>2, <1>8, <2>2, <3>2
  <2>3. CASE i # 0
    <3>1. /\ i \in 1..Len(g) /\ j \in 1..Len(g) /\ i - 1 \in 0..Len(fr) /\ j - 1 \in 0..Len(fr)
          /\ i - 1 <= j - 1
      BY <1>1, <1>3, <1>9, <2>3
    <3>2. e[j] = d[j - 1] /\ e[i] = d[i - 1] /\ d[j - 1] <= d[i - 1]
      BY <1>2, <1>5, <3>1
    <3> QED
      BY <3>2
  <2> QED
    BY <2>1, <2>2, <2>3
<1>10. Descends(g, m, e)
  BY <1>5, <1>7, <1>9 DEF Descends, Depths
<1>11. ASSUME NEW i \in 1..Len(g), Absent(g[i])
       PROVE  /\ AllInner(u[g[i].n], e[i - 1])
              /\ \A j \in 1..Len(g) : j < i /\ Saves(g[j], g[i].n) => Inner(g[j].copy.level, e[i - 1])
  <2>1. CASE i = 1
    <3>1. e[i - 1] = m /\ g[i] = f
      BY <1>3, <1>5, <2>1
    <3>2. ~\E j \in 1..Len(g) : j < i
      BY <2>1
    <3> QED
      BY <1>11, <3>1, <3>2
  <2>2. CASE i # 1
    <3> DEFINE k == i - 1
               n == g[i].n
               x == e[i - 1]
    <3>1. i \in 2..Len(g)
      BY <2>2
    <3>2. k \in 1..Len(fr) /\ g[i] = fr[k] /\ x = d[k - 1] /\ Absent(fr[k])
      BY <1>6, <1>11, <3>1
    <3>3. AllInner(u[n], x) /\ (Saves(f, n) => Inner(f.copy.level, x))
      BY <3>2
    <3>4. \A j \in 1..Len(fr) : j < k /\ Saves(fr[j], n) => Inner(fr[j].copy.level, x)
      BY <3>2 DEF Since
    <3>5. ASSUME NEW j \in 1..Len(g), j < i, Saves(g[j], n)
          PROVE  Inner(g[j].copy.level, x)
      <4>1. CASE j = 1
        BY <1>3, <3>3, <3>5, <4>1
      <4>2. CASE j # 1
        <5>1. j \in 2..Len(g) /\ j - 1 < k
          BY <1>1, <1>3, <3>5, <4>2
        <5>2. j - 1 \in 1..Len(fr) /\ g[j] = fr[j - 1]
          BY <1>6, <5>1
        <5> QED
          BY <3>4, <3>5, <5>1, <5>2
      <4> QED
        BY <4>1, <4>2
    <3> QED
      BY <3>3, <3>5
  <2> QED
    BY <2>1, <2>2
<1>12. Since(u, g, e)
  BY <1>11 DEF Since
<1> QED
  BY <1>10, <1>12 DEF g

\* The innermost frame ends.
LEMMA EndSince ==
    ASSUME NEW fr \in Seq(Frame), NEW l, NEW d, Descends(fr, l, d), NEW t, Since(t, fr, d),
           fr # <<>>, NEW u,
           \A i \in 2..Len(fr) : Absent(fr[i]) => AllInner(u[fr[i].n], d[i - 1])
    PROVE  \E e : Descends(Tail(fr), d[1], e) /\ Since(u, Tail(fr), e)
<1> DEFINE g == Tail(fr)
           e == [i \in 0..Len(g) |-> d[i + 1]]
<1>1. Len(fr) \in Nat /\ Len(fr) > 0
  OBVIOUS
<1>2. /\ d \in [0..Len(fr) -> Nat]
      /\ \A i \in 1..Len(fr) : d[i] = Outside(fr[i], d[i - 1]) /\ FrameOK(fr[i], d[i])
      /\ \A i, j \in 0..Len(fr) : i <= j => d[j] <= d[i]
  BY DEF Descends, Depths
<1>3. g \in Seq(Frame) /\ Len(g) = Len(fr) - 1 /\ \A i \in 1..Len(g) : g[i] = fr[i + 1]
  OBVIOUS
<1> HIDE DEF g
<1>4. \A i \in 0..Len(g) : i + 1 \in 0..Len(fr) /\ i + 1 \in 1..Len(fr)
  BY <1>1, <1>3
<1>5. e \in [0..Len(g) -> Nat] /\ e[0] = d[1] /\ \A i \in 0..Len(g) : e[i] = d[i + 1]
  BY <1>1, <1>2, <1>3, <1>4
<1> HIDE DEF e
<1>6. \A i \in 1..Len(g) : /\ i + 1 \in 2..Len(fr) /\ i + 1 \in 1..Len(fr)
                           /\ g[i] = fr[i + 1] /\ e[i] = d[i + 1] /\ e[i - 1] = d[(i + 1) - 1]
  <2>1. SUFFICES ASSUME NEW i \in 1..Len(g)
                 PROVE  /\ i + 1 \in 2..Len(fr) /\ i + 1 \in 1..Len(fr)
                        /\ g[i] = fr[i + 1] /\ e[i] = d[i + 1] /\ e[i - 1] = d[(i + 1) - 1]
    OBVIOUS
  <2>2. i \in 0..Len(g) /\ i - 1 \in 0..Len(g) /\ (i - 1) + 1 = (i + 1) - 1 /\ i + 1 \in 2..Len(fr)
        /\ i + 1 \in 1..Len(fr)
    BY <1>1, <1>3
  <2>3. e[i] = d[i + 1] /\ e[i - 1] = d[(i - 1) + 1]
    BY <1>5, <2>2
  <2> QED
    BY <1>3, <2>2, <2>3
<1>7. ASSUME NEW i \in 1..Len(g)
      PROVE  e[i] = Outside(g[i], e[i - 1]) /\ FrameOK(g[i], e[i])
  BY <1>2, <1>6
<1>8. ASSUME NEW i \in 0..Len(g), NEW j \in 0..Len(g), i <= j
      PROVE  e[j] <= e[i]
  <2>1. i + 1 <= j + 1 /\ i + 1 \in 0..Len(fr) /\ j + 1 \in 0..Len(fr)
    BY <1>4, <1>8
  <2> QED
    BY <1>2, <1>5, <2>1
<1>9. Descends(g, d[1], e)
  BY <1>5, <1>7, <1>8 DEF Descends, Depths
<1>10. ASSUME NEW i \in 1..Len(g), Absent(g[i])
       PROVE  /\ AllInner(u[g[i].n], e[i - 1])
              /\ \A j \in 1..Len(g) : j < i /\ Saves(g[j], g[i].n) => Inner(g[j].copy.level, e[i - 1])
  <2> DEFINE k == i + 1
             n == g[i].n
             x == e[i - 1]
  <2>1. k \in 2..Len(fr) /\ k \in 1..Len(fr) /\ g[i] = fr[k] /\ x = d[k - 1] /\ Absent(fr[k])
    BY <1>6, <1>10
  <2>2. AllInner(u[n], x)
    BY <2>1
  <2>3. \A j \in 1..Len(fr) : j < k /\ Saves(fr[j], n) => Inner(fr[j].copy.level, x)
    BY <2>1 DEF Since
  <2>4. ASSUME NEW j \in 1..Len(g), j < i, Saves(g[j], n) PROVE Inner(g[j].copy.level, x)
    <3>1. j + 1 \in 1..Len(fr) /\ g[j] = fr[j + 1] /\ j + 1 < k
      BY <1>6, <2>4
    <3> QED
      BY <2>3, <2>4, <3>1
  <2> QED
    BY <2>2, <2>4
<1>11. Since(u, g, e)
  BY <1>10 DEF Since
<1> QED
  BY <1>9, <1>11 DEF g

\* Every frame is of its type, in Seq form.
LEMMA PInvIs ==
    ASSUME PInv
    PROVE  /\ frames \in Seq(Frame) /\ Len(frames) \in Nat /\ locallevel \in Nat
           /\ \A d : Descends(frames, locallevel, d) =>
                /\ d[0] = locallevel
                /\ \A i \in 1..Len(frames) :
                      /\ d[i - 1] \in Nat /\ d[i - 1] <= locallevel
                      /\ d[i] = Outside(frames[i], d[i - 1]) /\ FrameOK(frames[i], d[i])
<1>1. frames \in Seq(Frame) /\ locallevel \in Nat
  BY InvIs DEF PInv, EInv, IInv, FramesOK
<1>2. \A i \in 1..Len(frames) : i - 1 \in 0..Len(frames) /\ 0 \in 0..Len(frames) /\ 0 <= i - 1
  BY <1>1
<1>3. ASSUME NEW d, Descends(frames, locallevel, d)
      PROVE  /\ d[0] = locallevel
             /\ \A i \in 1..Len(frames) :
                   /\ d[i - 1] \in Nat /\ d[i - 1] <= locallevel
                   /\ d[i] = Outside(frames[i], d[i - 1]) /\ FrameOK(frames[i], d[i])
  <2>1. /\ d \in [0..Len(frames) -> Nat] /\ d[0] = locallevel
        /\ \A i \in 1..Len(frames) : d[i] = Outside(frames[i], d[i - 1]) /\ FrameOK(frames[i], d[i])
        /\ \A i, j \in 0..Len(frames) : i <= j => d[j] <= d[i]
    BY <1>3 DEF Descends, Depths
  <2> QED
    BY <1>2, <2>1
<1> QED
  BY <1>1, <1>3

LEMMA CallSince ==
    ASSUME PInv, EInv', Call
    PROVE  PInv'
<1> DEFINE f == [func |-> TRUE, n |-> None, copy |-> None]
           l == locallevel
           m == l + 1
<1>1. /\ frames' = <<f>> \o frames /\ tab' = tab /\ locallevel' = m
  BY S0Is DEF Call, Become, S0
<1>2. PICK d : Descends(frames, l, d) /\ Since(tab, frames, d)
  BY DEF PInv
<1>3. frames \in Seq(Frame) /\ l \in Nat
  BY PInvIs
<1>4. f \in Frame /\ f.n = None
  BY DEF Frame
<1>5. f.func /\ ~Absent(f)
  BY DEF Absent
<1> HIDE DEF f
<1>6. FrameOK(f, l)
  BY <1>4 DEF FrameOK
<1>7. l = Outside(f, m) /\ m \in Nat
  BY <1>3, <1>5 DEF Outside
<1>8. ASSUME NEW i \in 1..Len(frames), Absent(frames[i])
      PROVE  /\ AllInner(tab[frames[i].n], d[i - 1])
             /\ Saves(f, frames[i].n) => Inner(f.copy.level, d[i - 1])
  <2>1. AllInner(tab[frames[i].n], d[i - 1])
    BY <1>2, <1>8 DEF Since
  <2>2. ~Saves(f, frames[i].n)
    BY <1>4, <1>8 DEF Saves, Absent
  <2> QED
    BY <2>1, <2>2
<1> HIDE DEF l, m
<1>9. \E e : Descends(<<f>> \o frames, m, e) /\ Since(tab, <<f>> \o frames, e)
  BY <1>2, <1>3, <1>5, <1>6, <1>7, <1>8, BeginSince
<1>10. \E e : Descends(frames', locallevel', e) /\ Since(tab', frames', e)
  BY <1>1, <1>9
<1> QED
  BY <1>10 DEF PInv

LEMMA CellSome ==
    ASSUME NEW c \in Cell
    PROVE  c # None
<1>1. Str \subseteq Strings \cup Names \cup {""}
  BY DEF Str
<1>2. c \in Struct
  BY <1>1 DEF Cell, Struct
<1> QED
  BY <1>2, NoneAssumption

LEMMA PrefixedSince ==
    ASSUME Refs = {}, PInv, EInv', NEW n \in Names, NEW v \in Values[n], NEW func \in BOOLEAN,
           Prefixed(n, v, func)
    PROVE  PInv'
<1> DEFINE c == Copied(S0, n)
           f == [func |-> func, n |-> n, copy |-> c]
           T == assignsparam(save_params(S0, n), n, v, func).S
           S == [T EXCEPT !.lv = IF func THEN @ + 1 ELSE @]
           l == locallevel
           m == IF func THEN l + 1 ELSE l
           E == {0}
           t == tab[n]
<1>1. frames' = <<f>> \o frames /\ Become(S)
  BY DEF Prefixed
<1>2. v \in Str /\ EInv
  BY ValuesIs DEF PInv
<1>3. Turns(S0, T, n, E) /\ Step(S0, T, locallevel)
  BY <1>2, PrefixIs
<1>4. CopyOK(n, c, l)
  BY <1>2, InvIs, save_paramsIs DEF EInv
<1>5. /\ c = None <=> t = <<>>
      /\ t # <<>> => c.level = t[1].level /\ 1 \in 1..Len(t)
  <2>1. CASE t = <<>>
    BY <2>1, S0Is DEF Copied
  <2>2. CASE t # <<>>
    <3> DEFINE b == t[1]
    <3>1. c = Out(b)
      BY <2>2, S0Is DEF Copied, Out
    <3>2. b \in Cell /\ CellOK(n, b) /\ 1 \in 1..Len(t)
      BY <1>2, <2>2, FineAt, TopIs, S0Is
    <3> HIDE DEF b
    <3>3. Out(b).level = b.level
      BY <3>2, OutEnv
    <3>4. Out(b) # None
      <4>1. Out(b) \in Cell
        BY <3>2, OutIs
      <4> QED
        BY <4>1, CellSome
    <3> HIDE DEF c
    <3> QED
      BY <2>2, <3>1, <3>2, <3>3, <3>4 DEF b
  <2> QED
    BY <2>1, <2>2
<1>6. FrameOK(f, l)
  <2>1. f \in Frame
    BY <1>4 DEF CopyOK, Frame
  <2> QED
    BY <1>4, <2>1 DEF FrameOK
<1>7. l \in Nat /\ m \in Nat /\ l = Outside(f, m)
  <2>1. l \in Nat
    BY PInvIs
  <2> QED
    BY <2>1 DEF Outside
<1>8. tab' = T.tab /\ locallevel' = m
  <2>1. T \in State /\ T.lv = l
    BY <1>3, S0Is DEF Step, Sound
  <2> HIDE DEF T
  <2>2. S.tab = T.tab /\ S.lv = m
    BY <2>1 DEF State
  <2> HIDE DEF S
  <2> QED
    BY <1>1, <2>2 DEF Become
<1> HIDE DEF S, m
<1>9. /\ \A k \in Names \ {n} : T.tab[k] = tab[k]
      /\ LevelsFrom(t, T.tab[n], E)
  BY <1>3, S0Is DEF Turns, Only
<1>10. PICK d : Descends(frames, l, d) /\ Since(tab, frames, d)
  BY DEF PInv
<1> HIDE DEF T, c
<1>11. f.n = n /\ f.copy = c
  OBVIOUS
<1> HIDE DEF f
<1>12. ASSUME NEW k \in Names, NEW x, AllInner(tab[k], x)
       PROVE  AllInner(T.tab[k], x) /\ (Saves(f, k) => Inner(f.copy.level, x))
  <2>1. CASE k = n
    <3>1. AllInner(t, x)
      BY <1>12, <2>1
    <3>2. \A y \in E : Inner(y, x)
      BY DEF Inner
    <3> HIDE DEF t, E
    <3>3. AllInner(T.tab[n], x)
      BY <1>9, <3>1, <3>2, InnerFrom
    <3>4. c # None => Inner(c.level, x)
      BY <1>5, <3>1 DEF AllInner
    <3> QED
      BY <1>11, <2>1, <3>3, <3>4 DEF Saves
  <2>2. CASE k # n
    BY <1>9, <1>11, <1>12, <2>2 DEF Saves
  <2> QED
    BY <2>1, <2>2
<1>13. ASSUME NEW i \in 1..Len(frames), Absent(frames[i])
       PROVE  /\ AllInner(T.tab[frames[i].n], d[i - 1])
              /\ Saves(f, frames[i].n) => Inner(f.copy.level, d[i - 1])
  <2>1. AllInner(tab[frames[i].n], d[i - 1])
    BY <1>10, <1>13 DEF Since
  <2>2. FrameOK(frames[i], d[i])
    BY <1>10, PInvIs
  <2>3. frames[i].n \in Names
    BY <1>13, <2>2 DEF FrameOK, Absent
  <2> DEFINE k == frames[i].n
             x == d[i - 1]
  <2>4. k \in Names /\ AllInner(tab[k], x)
    BY <2>1, <2>3
  <2> HIDE DEF k, x
  <2>5. AllInner(T.tab[k], x) /\ (Saves(f, k) => Inner(f.copy.level, x))
    BY <1>12, <2>4
  <2> QED
    BY <2>5 DEF k, x
<1>14. Absent(f) => AllInner(T.tab[f.n], m)
  <2> SUFFICES ASSUME Absent(f) PROVE AllInner(T.tab[n], m)
    BY <1>11
  <2>1. t = <<>>
    BY <1>5, <1>11 DEF Absent
  <2>2. AllInner(t, m) /\ \A y \in E : Inner(y, m)
    BY <2>1 DEF AllInner, Inner
  <2> HIDE DEF t, E
  <2> QED
    BY <1>9, <2>2, InnerFrom
<1> HIDE DEF l
<1>15. frames \in Seq(Frame)
  BY PInvIs
<1> DEFINE u == T.tab
<1>16. /\ \A i \in 1..Len(frames) : Absent(frames[i]) =>
             /\ AllInner(u[frames[i].n], d[i - 1])
             /\ Saves(f, frames[i].n) => Inner(f.copy.level, d[i - 1])
       /\ Absent(f) => AllInner(u[f.n], m)
  BY <1>13, <1>14
<1> HIDE DEF u
<1>17. \E e : Descends(<<f>> \o frames, m, e) /\ Since(u, <<f>> \o frames, e)
  BY <1>6, <1>7, <1>10, <1>15, <1>16, BeginSince
<1>18. \E e : Descends(frames', locallevel', e) /\ Since(tab', frames', e)
  BY <1>1, <1>8, <1>17 DEF u, f
<1> QED
  BY <1>18 DEF PInv

LEMMA LevelsMore ==
    ASSUME NEW t, NEW u, NEW w, NEW L, LevelsFrom(t, u, L), LevelsFrom(u, w, L)
    PROVE  LevelsFrom(t, w, L)
<1> SUFFICES ASSUME NEW k \in 1..Len(w), w[k].level \notin L
             PROVE  \E i \in 1..Len(t) : w[k].level = t[i].level
  BY DEF LevelsFrom
<1>1. PICK j \in 1..Len(u) : w[k].level = u[j].level
  BY DEF LevelsFrom
<1>2. PICK i \in 1..Len(t) : u[j].level = t[i].level
  BY <1>1 DEF LevelsFrom
<1> QED
  BY <1>1, <1>2

LEMMA LevelsWider ==
    ASSUME NEW t, NEW u, NEW L, NEW M, LevelsFrom(t, u, L), L \subseteq M
    PROVE  LevelsFrom(t, u, M)
BY DEF LevelsFrom

\* What is put back is of the level it had.
LEMMA restore_paramsLevels ==
    ASSUME NEW S, Sound(S, S.lv), NEW n \in Names, Fine(S, n),
           NEW copy, CopyOK(n, copy, S.lv), Aside(copy),
           NEW L, copy # None => copy.level \in L
    PROVE  LevelsFrom(S.tab[n], restore_params(S, n, copy).tab[n], L)
<1> DEFINE V == unsetparam_pm(S, <<n, 1>>)
           T == IF S.tab[n] = <<>> THEN S ELSE V
           U == Placed(T, n, copy)
           back == copy.exported /\ copy.set
           W == addenv(U, <<n, 1>>, copy.str)
           R == restore_params(S, n, copy)
           E == {}
<1>1. R = IF copy = None THEN T ELSE IF back THEN W ELSE U
  BY Zenon DEF restore_params, Placed
<1>2. Step(S, T, S.lv) /\ Nothing(T, n)
  BY ClearedEnv
<1>3. LevelsFrom(S.tab[n], T.tab[n], L)
  <2>1. CASE S.tab[n] = <<>>
    <3>1. T = S
      BY <2>1
    <3> HIDE DEF T
    <3> QED
      BY <3>1, SameLevels
  <2>2. CASE S.tab[n] # <<>>
    <3>1. Len(S.tab[n]) > 0 /\ EnvOK(S.tab[n], S.environ[n])
      BY <2>2, TopIs DEF Fine
    <3>2. Turns(S, V, n, {})
      BY <3>1, UnsetEnv
    <3>3. T = V
      BY <2>2
    <3> HIDE DEF T, V
    <3>4. LevelsFrom(S.tab[n], T.tab[n], {})
      BY <3>2, <3>3 DEF Turns
    <3> QED
      BY <3>4, LevelsWider
  <2> QED
    BY <2>1, <2>2
<1> HIDE DEF T, R
<1>4. CASE copy = None
  <2>1. R = T
    BY <1>1, <1>4
  <2> QED
    BY <1>3, <2>1 DEF R
<1>5. CASE copy # None
  <2>1. copy \in Cell /\ CellOK(n, copy) /\ copy.level <= S.lv /\ ~InEnv(copy) /\ copy.level \in L
    BY <1>5 DEF CopyOK, Aside
  <2>2. Sound(T, S.lv)
    BY <1>2 DEF Step
  <2>3. /\ Step(T, U, S.lv) /\ EnvOK(U.tab[n], U.environ[n])
        /\ Len(U.tab[n]) > 0 /\ U.tab[n][1] = copy
    BY <1>2, <2>1, <2>2, PlacedEnv
  <2>4. \A k \in 2..Len(U.tab[n]) : \E i \in 1..Len(T.tab[n]) : U.tab[n][k] = T.tab[n][i]
    <3> DEFINE c == copy
    <3>1. c \in Cell /\ CellOK(n, c) /\ c.level <= S.lv
      BY <2>1
    <3> HIDE DEF c
    <3> DEFINE X == Placed(T, n, c)
    <3>2. /\ Step(T, X, S.lv) /\ There(X, <<n, 1>>)
          /\ \A m \in Names \ {n} : X.tab[m] = T.tab[m]
          /\ X.tab[n][1] = c /\ X.environ = T.environ
          /\ \A k \in 2..Len(X.tab[n]) : \E i \in 1..Len(T.tab[n]) : X.tab[n][k] = T.tab[n][i]
      BY <2>2, <3>1, PlacedIs
    <3> HIDE DEF X
    <3>3. X = U
      BY DEF X, c
    <3> HIDE DEF U
    <3> QED
      BY <3>2, <3>3
  <2> HIDE DEF U
  <2>5. LevelsFrom(T.tab[n], U.tab[n], L)
    <3>1. ASSUME NEW k \in 1..Len(U.tab[n])
          PROVE  U.tab[n][k].level \in L \/ \E i \in 1..Len(T.tab[n]) : U.tab[n][k].level = T.tab[n][i].level
      <4>1. CASE k = 1
        BY <2>1, <2>3, <4>1
      <4>2. CASE k # 1
        <5>1. k \in 2..Len(U.tab[n])
          BY <4>2
        <5> QED
          BY <2>4, <5>1
      <4> QED
        BY <4>1, <4>2
    <3> QED
      BY <3>1, Zenon DEF LevelsFrom
  <2>6. LevelsFrom(S.tab[n], U.tab[n], L)
    BY <1>3, <2>5, LevelsMore
  <2>7. LevelsFrom(U.tab[n], W.tab[n], L)
    <3>1. Sound(U, S.lv)
      BY <2>3 DEF Step
    <3> DEFINE v == copy.str
    <3>2. v = U.tab[n][1].str
      BY <2>3
    <3> HIDE DEF v
    <3>3. Turns(U, addenv(U, <<n, 1>>, v), n, {})
      BY <2>3, <3>1, <3>2, addenvEnv
    <3>4. Turns(U, W, n, {})
      BY <3>3 DEF v
    <3> HIDE DEF W
    <3>5. LevelsFrom(U.tab[n], W.tab[n], {})
      BY <3>4 DEF Turns
    <3> QED
      BY <3>5, LevelsWider
  <2> HIDE DEF W
  <2>8. LevelsFrom(S.tab[n], W.tab[n], L)
    BY <2>6, <2>7, LevelsMore
  <2> HIDE DEF back
  <2>9. R = W \/ R = U
    BY <1>1, <1>5
  <2> QED
    BY <2>6, <2>8, <2>9 DEF R
<1> QED
  BY <1>4, <1>5

\* What a return comes back to.
Back(f, S) == IF f.n = None THEN S ELSE restore_params(S, f.n, f.copy)

\* The frame f that ends, the state S in which its scope has ended.
LEMMA ReturnParts ==
    ASSUME Refs = {}, PInv, Return, NEW d, Descends(frames, locallevel, d)
    PROVE  LET f == frames[1]
               S == Left(f)
           IN  /\ frames # <<>> /\ 1 \in 1..Len(frames)
               /\ frames' = Tail(frames) /\ Become(Back(f, S))
               /\ FrameOK(f, S.lv) /\ Aside(f.copy)
               /\ Sound(S, S.lv) /\ S.lv = d[1] /\ AllFine(S) /\ Fewer(S0, S)
               /\ f.n # None => /\ f.n \in Names /\ CopyOK(f.n, f.copy, S.lv)
                                /\ Fine(S, f.n)
<1> DEFINE f == frames[1]
           l == d[1]
           S == Left(f)
<1>1. frames # <<>> /\ frames \in Seq(Frame)
  BY PInvIs DEF Return
<1>2. Head(frames) = f /\ 1 \in 1..Len(frames) /\ 1 - 1 = 0
  BY <1>1
<1>3. frames' = Tail(frames) /\ Become(Back(f, S))
  BY <1>2 DEF Return, Left, Back
<1>4. d[1] = Outside(f, d[1 - 1]) /\ FrameOK(f, d[1]) /\ d[0] = locallevel
  BY <1>2, PInvIs
<1>5. l = Outside(f, locallevel) /\ FrameOK(f, l)
  BY <1>2, <1>4
<1>6. Aside(f.copy) /\ EInv
  BY <1>2 DEF PInv, EInv
<1>7. l \in Nat
  <2>1. 1 \in 0..Len(frames)
    BY <1>2
  <2> QED
    BY <2>1 DEF Descends, Depths
<1> HIDE DEF f, l
<1>8. Sound(S, S.lv) /\ S.lv = l /\ AllFine(S) /\ Fewer(S0, S)
  BY <1>5, <1>6, <1>7, LeftIs
<1> HIDE DEF S
<1>9. FrameOK(f, S.lv)
  BY <1>5, <1>8
<1>10. f.n # None => f.n \in Names /\ CopyOK(f.n, f.copy, S.lv) /\ Fine(S, f.n)
  BY <1>8, <1>9 DEF FrameOK, AllFine
<1> QED
  BY <1>1, <1>2, <1>3, <1>6, <1>8, <1>9, <1>10 DEF f, l, S

LEMMA ReturnSince ==
    ASSUME Refs = {}, PInv, EInv', Return
    PROVE  PInv'
<1> DEFINE f == frames[1]
           S == Left(f)
           T == Back(f, S)
<1>1. PICK d : Descends(frames, locallevel, d) /\ Since(tab, frames, d)
  BY DEF PInv
<1>2. /\ frames # <<>> /\ 1 \in 1..Len(frames)
      /\ frames' = Tail(frames) /\ Become(T)
      /\ FrameOK(f, S.lv) /\ Aside(f.copy)
      /\ Sound(S, S.lv) /\ S.lv = d[1] /\ AllFine(S) /\ Fewer(S0, S)
      /\ f.n # None => /\ f.n \in Names /\ CopyOK(f.n, f.copy, S.lv)
                       /\ Fine(S, f.n)
  BY <1>1, ReturnParts
<1> HIDE DEF S, f
<1>3. T.lv = S.lv
  <2>1. CASE f.n = None
    BY <2>1 DEF Back
  <2>2. CASE f.n # None
    <3>1. Step(S, restore_params(S, f.n, f.copy), S.lv)
      BY <1>2, <2>2, restore_paramsIs
    <3>2. T = restore_params(S, f.n, f.copy)
      BY <2>2 DEF Back
    <3> HIDE DEF T
    <3> QED
      BY <3>1, <3>2 DEF Step
  <2> QED
    BY <2>1, <2>2
<1>4. tab' = T.tab /\ locallevel' = d[1]
  BY <1>2, <1>3 DEF Become
<1>5. ASSUME NEW n \in Names, NEW x, AllInner(tab[n], x),
             Saves(f, n) => Inner(f.copy.level, x)
      PROVE  AllInner(T.tab[n], x)
  <2>1. AllInner(S.tab[n], x)
    <3> DEFINE t == tab[n]
               u == S.tab[n]
               L == {}
    <3>1. LevelsFrom(t, u, L) /\ AllInner(t, x) /\ \A v \in L : Inner(v, x)
      BY <1>2, <1>5, S0Is DEF Fewer
    <3> HIDE DEF t, u, L
    <3>2. AllInner(u, x)
      BY <3>1, InnerFrom
    <3> QED
      BY <3>2 DEF u
  <2>2. CASE f.n = None
    BY <2>1, <2>2 DEF Back
  <2>3. CASE f.n # None
    <3> DEFINE R == restore_params(S, f.n, f.copy)
    <3>1. T = R
      BY <2>3 DEF Back
    <3>2. Only(S, R, f.n)
      BY <1>2, <2>3, restore_paramsEnv DEF Mends
    <3>3. CASE n = f.n
      <4> DEFINE L == IF f.copy = None THEN {} ELSE {f.copy.level}
                 c == f.copy
                 u == S.tab[n]
      <4>1. c # None => c.level \in L
        OBVIOUS
      <4>2. \A v \in L : Inner(v, x)
        BY <1>5, <3>3 DEF Saves
      <4>3. CopyOK(n, c, S.lv) /\ Aside(c) /\ Fine(S, n) /\ Sound(S, S.lv)
        BY <1>2, <2>3, <3>3
      <4> DEFINE Q == restore_params(S, n, c)
      <4>4. R = Q
        BY <3>3
      <4> HIDE DEF L, c, R
      <4>5. LevelsFrom(u, Q.tab[n], L)
        BY <4>1, <4>3, restore_paramsLevels
      <4> HIDE DEF Q
      <4>6. AllInner(Q.tab[n], x)
        BY <2>1, <4>2, <4>5, InnerFrom
      <4> QED
        BY <3>1, <4>4, <4>6
    <3>4. CASE n # f.n
      <4> HIDE DEF R
      <4>1. R.tab[n] = S.tab[n]
        BY <3>2, <3>4 DEF Only
      <4> QED
        BY <2>1, <3>1, <4>1
    <3> QED
      BY <3>3, <3>4
  <2> QED
    BY <2>2, <2>3
<1> DEFINE u == T.tab
<1>6. ASSUME NEW i \in 2..Len(frames), Absent(frames[i]) PROVE AllInner(u[frames[i].n], d[i - 1])
  <2>1. i \in 1..Len(frames) /\ 1 < i
    OBVIOUS
  <2> DEFINE n == frames[i].n
             x == d[i - 1]
  <2>2. AllInner(tab[n], x)
    BY <1>1, <1>6, <2>1 DEF Since
  <2>3. Saves(frames[1], n) => Inner(frames[1].copy.level, x)
    BY <1>1, <1>2, <1>6, <2>1 DEF Since
  <2>4. n \in Names
    <3>1. FrameOK(frames[i], d[i])
      BY <1>1, <2>1, PInvIs
    <3> QED
      BY <1>6, <3>1 DEF FrameOK, Absent
  <2>5. Saves(f, n) => Inner(f.copy.level, x)
    BY <2>3 DEF f
  <2> HIDE DEF n, x, T
  <2>6. AllInner(T.tab[n], x)
    BY <1>5, <2>2, <2>4, <2>5
  <2> QED
    BY <2>6 DEF n, x
<1> HIDE DEF T, u
<1>7. frames \in Seq(Frame)
  BY PInvIs
<1>8. \E e : Descends(Tail(frames), d[1], e) /\ Since(u, Tail(frames), e)
  BY <1>1, <1>2, <1>6, <1>7, EndSince
<1>9. \E e : Descends(frames', locallevel', e) /\ Since(tab', frames', e)
  BY <1>2, <1>4, <1>8 DEF u
<1> QED
  BY <1>9 DEF PInv

\* What is put back of c: it is exported again if it was and had a value.
ToPutOut(c) == c.exported /\ c.set

LEMMA PutBackIs ==
    ASSUME NEW c \in Cell, ~InEnv(c)
    PROVE  /\ Out(c) = c
           /\ ToPutOut(c) => Out(Shown(c)) = c
<1> DEFINE no == FALSE
           yes == TRUE
<1>1. /\ c = Struct8(c.level, c.str, c.set, c.declared, c.ref, c.exported, c.env, c.base)
      /\ c.env \in BOOLEAN /\ c.exported \in BOOLEAN
  BY CellIs
<1>2. c.env = no
  BY <1>1 DEF InEnv
<1>3. ToPutOut(c) => c.exported = yes
  BY <1>1 DEF ToPutOut
<1>4. Out(c) = WithEnv(c, no)
  BY DEF Out, WithEnv
<1>5. Out(Shown(c)) = WithEnv(WithExported(WithEnv(c, yes), yes), no)
  BY DEF Out, Shown, WithEnv, WithExported
<1> HIDE DEF no, yes
<1>6. Out(c) = c
  <2>1. WithEnv(c, no) = Struct8(c.level, c.str, c.set, c.declared, c.ref, c.exported, no, c.base)
    BY CellChanged
  <2> QED
    BY <1>1, <1>2, <1>4, <2>1
<1>7. ASSUME ToPutOut(c) PROVE Out(Shown(c)) = c
  <2> DEFINE a == WithEnv(c, yes)
             b == WithExported(a, yes)
  <2>1. a = Struct8(c.level, c.str, c.set, c.declared, c.ref, c.exported, yes, c.base)
    BY CellChanged
  <2> HIDE DEF a
  <2>2. b = Struct8(c.level, c.str, c.set, c.declared, c.ref, yes, yes, c.base)
    BY <2>1, Struct8Changed
  <2> HIDE DEF b
  <2>3. WithEnv(b, no) = Struct8(c.level, c.str, c.set, c.declared, c.ref, yes, no, c.base)
    BY <2>2, Struct8Changed
  <2>4. Out(Shown(c)) = WithEnv(b, no)
    BY <1>5 DEF a, b
  <2> QED
    BY <1>1, <1>2, <1>3, <1>7, <2>3, <2>4
<1> QED
  BY <1>6, <1>7

\* The copy is put back as it was.
LEMMA restore_paramsBack ==
    ASSUME NEW S, Sound(S, S.lv), NEW n \in Names, Fine(S, n),
           NEW copy \in Cell, CellOK(n, copy), copy.level <= S.lv, ~InEnv(copy)
    PROVE  LET R == restore_params(S, n, copy)
           IN  /\ R.tab[n] # <<>> /\ Out(R.tab[n][1]) = copy
               /\ R.environ[n] # None <=> ToPutOut(copy)
<1> DEFINE T == IF S.tab[n] = <<>> THEN S ELSE unsetparam_pm(S, <<n, 1>>)
           U == Placed(T, n, copy)
           v == copy.str
           W == addenv(U, <<n, 1>>, v)
           R == restore_params(S, n, copy)
<1>1. R = IF ToPutOut(copy) THEN W ELSE U
  <2>1. R = IF copy = None THEN T
            ELSE IF copy.exported /\ copy.set THEN W ELSE U
    BY Zenon DEF restore_params, Placed
  <2> HIDE DEF T, U, W, R
  <2>2. copy # None
    BY CellSome
  <2> QED
    BY <2>1, <2>2, Zenon DEF ToPutOut
<1>2. Step(S, T, S.lv) /\ Nothing(T, n)
  BY ClearedEnv
<1> HIDE DEF T, R
<1>3. Sound(T, S.lv)
  BY <1>2 DEF Step
<1>4. /\ Step(T, U, S.lv) /\ EnvOK(U.tab[n], U.environ[n])
      /\ Len(U.tab[n]) > 0 /\ U.tab[n][1] = copy
  BY <1>2, <1>3, PlacedEnv
<1> HIDE DEF U
<1>5. Sound(U, S.lv)
  BY <1>4 DEF Step
<1>6. U.tab[n] # <<>>
  BY <1>4, <1>5, TopIs
<1>7. CASE ToPutOut(copy)
  <2> DEFINE p == <<n, 1>>
  <2>1. /\ There(U, p) /\ At(U, p) = copy /\ p[1] = n /\ p[2] = 1 /\ 1 \in 1..Len(U.tab[n])
        /\ U.environ \in [Names -> Str \cup {None}]
    BY <1>4, <1>5, TopIs
  <2>2. v \in Str
    BY CellIs
  <2> HIDE DEF p, v
  <2> DEFINE X == addenv(U, p, v)
  <2>3. /\ Step(U, X, S.lv)
        /\ X.environ = [U.environ EXCEPT ![p[1]] = v]
        /\ \A k \in 1..Len(U.tab[p[1]]) :
              X.tab[p[1]][k] = IF k = p[2] THEN Shown(At(U, p)) ELSE U.tab[p[1]][k]
        /\ Len(X.tab[p[1]]) = Len(U.tab[p[1]])
    BY <1>5, <2>1, <2>2, addenvIs
  <2>4. X = W
    BY DEF p
  <2> HIDE DEF X, W
  <2>5. /\ X.environ[n] = v /\ X.tab[n][1] = Shown(copy) /\ Len(X.tab[n]) > 0
    BY <1>4, <2>1, <2>3
  <2>6. v # None
    BY <2>2, StrSome
  <2>7. Out(Shown(copy)) = copy
    BY <1>7, PutBackIs
  <2>8. Sound(X, S.lv)
    BY <2>3 DEF Step
  <2>9. X.tab[n] # <<>>
    BY <2>5, <2>8, TopIs
  <2>10. R = X
    BY <1>1, <1>7, <2>4
  <2>11. R.tab[n] # <<>> /\ Out(R.tab[n][1]) = copy
    BY <2>5, <2>7, <2>9, <2>10
  <2>12. R.environ[n] # None
    BY <2>5, <2>6, <2>10
  <2> QED
    BY <1>7, <2>11, <2>12 DEF R
<1>8. CASE ~ToPutOut(copy)
  <2>1. R = U
    BY <1>1, <1>8
  <2>2. U.environ[n] = None
    BY <1>4 DEF EnvOK
  <2>3. Out(copy) = copy
    BY PutBackIs
  <2>4. R.tab[n] # <<>> /\ Out(R.tab[n][1]) = copy
    BY <1>4, <1>6, <2>1, <2>3
  <2>5. ~(R.environ[n] # None)
    BY <2>1, <2>2
  <2> QED
    BY <1>8, <2>4, <2>5 DEF R
<1> QED
  BY <1>7, <1>8

\* Where there was nothing, nothing is left of a global parameter.
LEMMA restore_paramsGone ==
    ASSUME NEW S, Sound(S, S.lv), NEW n \in Names,
           \A k \in 1..Len(S.tab[n]) : S.tab[n][k].level = 0
    PROVE  restore_params(S, n, None).tab[n] = <<>>
<1> DEFINE t == S.tab[n]
           T == unsetparam_pm(S, <<n, 1>>)
           R == restore_params(S, n, None)
<1>1. R = IF t = <<>> THEN S ELSE T
  BY Zenon DEF restore_params
<1>2. Len(t) \in Nat /\ (t # <<>> <=> Len(t) > 0)
  BY TopIs
<1>3. CASE t = <<>>
  <2>1. R = S
    BY <1>1, <1>3
  <2> HIDE DEF R
  <2>2. R.tab[n] = <<>>
    BY <1>3, <2>1
  <2> QED
    BY <2>2 DEF R
<1>4. CASE t # <<>>
  <2>1. Len(t) > 0 /\ R = T
    BY <1>1, <1>2, <1>4
  <2>2. Chain(n, t, S.lv) /\ 1 \in 1..Len(t)
    BY <2>1, <1>2 DEF Sound
  <2>3. \A k \in 2..Len(t) : t[k].level < t[1].level
    BY <1>2, <2>2, ChainFalls
  <2>4. Len(t) = 1
    <3>1. ~(2 \in 2..Len(t))
      <4>1. 2 \in 2..Len(t) => 2 \in 1..Len(t)
        BY <1>2
      <4>2. 2 \in 2..Len(t) => t[2].level = 0 /\ t[1].level = 0
        BY <2>2, <4>1
      <4>3. ~(0 < 0)
        OBVIOUS
      <4> QED
        BY <2>3, <4>2, <4>3
    <3> HIDE DEF t
    <3> QED
      BY <1>2, <2>1, <3>1, JustOne
  <2>5. ~Stays1(S, t[1])
    <3>1. t[1].level = 0
      BY <2>2
    <3> QED
      BY <3>1 DEF Stays1
  <2> HIDE DEF T
  <2>6. Step(S, T, S.lv) /\ Uncovered(S, T, n, 1)
    <3>1. 1 \in Nat \ {0}
      OBVIOUS
    <3>2. /\ Step(S, T, S.lv)
          /\ IF Stays1(S, S.tab[n][1]) THEN Kept(S, T, n, 1) ELSE Uncovered(S, T, n, 1)
      BY <3>1, unsetparam_pmIs DEF T
    <3> QED
      BY <2>5, <3>2
  <2>7. Len(T.tab[n]) = 0
    BY <2>4, <2>6 DEF Uncovered
  <2>8. Sound(T, S.lv)
    BY <2>6 DEF Step
  <2>9. T.tab[n] = <<>>
    BY <2>7, <2>8, TopIs
  <2> HIDE DEF R
  <2>10. R.tab[n] = <<>>
    BY <2>1, <2>9
  <2> QED
    BY <2>10 DEF R
<1> QED
  BY <1>3, <1>4

\* What PrefixUndone says of the frame f that ends.
Undone(f) ==
    LET t == tab'[f.n] IN
    IF f.copy = None
    THEN \/ t = <<>>
         \/ /\ ~f.func /\ locallevel > 0
            /\ \E i \in 1..Len(tab[f.n]) : tab[f.n][i].level = locallevel
    ELSE /\ t # <<>>
         /\ [t[1] EXCEPT !.env = FALSE] = f.copy
         /\ environ'[f.n] # None <=> f.copy.exported /\ f.copy.set

Undoes == Return /\ Head(frames).n # None => Undone(Head(frames))

\* No struct is left of the scopes inside the one that is returned to.
LEMMA LevelsGone ==
    ASSUME NEW t, NEW u, LevelsFrom(t, u, {}), NEW l \in Nat, NEW m \in Nat,
           AllInner(t, l), \A i \in 1..Len(t) : t[i].level \in Nat /\ t[i].level <= l,
           \A k \in 1..Len(u) : u[k].level \in Nat /\ u[k].level <= m,
           m < l \/ l = 0 \/ ~\E i \in 1..Len(t) : t[i].level = l
    PROVE  \A k \in 1..Len(u) : u[k].level = 0
<1> SUFFICES ASSUME NEW k \in 1..Len(u) PROVE u[k].level = 0
  OBVIOUS
<1>1. PICK i \in 1..Len(t) : u[k].level = t[i].level
  BY DEF LevelsFrom
<1>2. t[i].level \in Nat /\ t[i].level <= l /\ u[k].level <= m
  OBVIOUS
<1>3. t[i].level = 0 \/ t[i].level >= l
  BY DEF AllInner, Inner
<1>4. t[i].level = l => m < l \/ l = 0
  OBVIOUS
<1> QED
  BY <1>1, <1>2, <1>3, <1>4

LEMMA ChainLevels ==
    ASSUME NEW S, NEW l, Sound(S, l), NEW n \in Names
    PROVE  \A i \in 1..Len(S.tab[n]) : S.tab[n][i].level \in Nat /\ S.tab[n][i].level <= l
<1> SUFFICES ASSUME NEW i \in 1..Len(S.tab[n])
             PROVE  S.tab[n][i].level \in Nat /\ S.tab[n][i].level <= l
  OBVIOUS
<1>1. S.tab[n][i] \in Cell /\ S.tab[n][i].level <= l
  BY DEF Sound, Chain
<1>2. S.tab[n][i].level \in 0..MaxLevel
  BY <1>1, CellIs
<1> QED
  BY <1>1, <1>2, MaxLevelType

LEMMA ReturnUndoes ==
    ASSUME Refs = {}, PInv, Return, Head(frames).n # None
    PROVE  Undone(Head(frames))
<1> DEFINE f == frames[1]
           S == Left(f)
           n == f.n
           T == Back(f, S)
           R == restore_params(S, n, f.copy)
<1>1. PICK d : Descends(frames, locallevel, d) /\ Since(tab, frames, d)
  BY DEF PInv
<1>2. /\ frames # <<>> /\ 1 \in 1..Len(frames)
      /\ Become(T) /\ Aside(f.copy)
      /\ Sound(S, S.lv) /\ S.lv = d[1] /\ AllFine(S) /\ Fewer(S0, S)
      /\ f.n # None => /\ f.n \in Names /\ CopyOK(f.n, f.copy, S.lv)
                       /\ Fine(S, f.n)
  BY <1>1, ReturnParts
<1>3. frames \in Seq(Frame) /\ locallevel \in Nat
  BY PInvIs
<1>4. Head(frames) = f /\ 1 - 1 = 0
  BY <1>2, <1>3
<1>5. n # None /\ n \in Names /\ CopyOK(n, f.copy, S.lv) /\ Fine(S, n)
  BY <1>2, <1>4
<1>6. T = R
  BY <1>5 DEF Back
<1>7. tab' = T.tab /\ environ' = T.environ
  BY <1>2 DEF Become
<1>8. d[0] = locallevel /\ d[1] = Outside(f, d[1 - 1])
  BY <1>1, <1>2, PInvIs
<1>9. d[1] = Outside(f, locallevel) /\ d[1] \in Nat
  <2>1. 1 \in 0..Len(frames)
    BY <1>2, <1>3
  <2>2. d[1] \in Nat
    BY <1>1, <2>1 DEF Descends, Depths
  <2> QED
    BY <1>4, <1>8, <2>2
<1> HIDE DEF S, T, R
<1>10. CASE f.copy = None
  <2>1. Absent(f)
    BY <1>5, <1>10 DEF Absent
  <2>2. AllInner(tab[n], locallevel)
    BY <1>1, <1>2, <1>4, <1>8, <2>1 DEF Since
  <2>3. LevelsFrom(tab[n], S.tab[n], {})
    BY <1>2, <1>5, S0Is DEF Fewer
  <2>4. \A i \in 1..Len(tab[n]) : tab[n][i].level \in Nat /\ tab[n][i].level <= locallevel
    <3>1. Sound(S0, locallevel)
      BY InvIs, S0Is DEF PInv, EInv
    <3> QED
      BY <1>5, <3>1, ChainLevels, S0Is
  <2>5. \A i \in 1..Len(S.tab[n]) : S.tab[n][i].level \in Nat /\ S.tab[n][i].level <= d[1]
    BY <1>2, <1>5, ChainLevels
  <2> DEFINE Here == \E i \in 1..Len(tab[n]) : tab[n][i].level = locallevel
  <2>6. CASE ~f.func /\ locallevel > 0 /\ Here
    BY <1>4, <1>10, <2>6 DEF Undone
  <2>7. CASE ~(~f.func /\ locallevel > 0 /\ Here)
    <3>1. d[1] < locallevel \/ locallevel = 0 \/ ~Here
      BY <1>3, <1>9, <2>7 DEF Outside
    <3> DEFINE t == tab[n]
               u == S.tab[n]
               l == locallevel
               m == d[1]
    <3>2. /\ LevelsFrom(t, u, {}) /\ l \in Nat /\ m \in Nat /\ AllInner(t, l)
          /\ \A i \in 1..Len(t) : t[i].level \in Nat /\ t[i].level <= l
          /\ \A k \in 1..Len(u) : u[k].level \in Nat /\ u[k].level <= m
          /\ m < l \/ l = 0 \/ ~\E i \in 1..Len(t) : t[i].level = l
      BY <1>3, <1>9, <2>2, <2>3, <2>4, <2>5, <3>1
    <3> HIDE DEF t, u, l, m
    <3>3. \A k \in 1..Len(u) : u[k].level = 0
      BY <3>2, LevelsGone
    <3>4. \A k \in 1..Len(S.tab[n]) : S.tab[n][k].level = 0
      BY <3>3 DEF u
    <3>5. restore_params(S, n, None).tab[n] = <<>>
      BY <1>2, <1>5, <3>4, restore_paramsGone
    <3>6. tab'[n] = <<>>
      BY <1>6, <1>7, <1>10, <3>5 DEF R
    <3> QED
      BY <1>4, <1>10, <3>6 DEF Undone
  <2> QED
    BY <2>6, <2>7
<1>11. CASE f.copy # None
  <2> DEFINE c == f.copy
  <2>1. c \in Cell /\ CellOK(n, c) /\ c.level <= S.lv /\ ~InEnv(c)
    BY <1>2, <1>5, <1>11 DEF CopyOK, Aside
  <2> DEFINE Q == restore_params(S, n, c)
  <2>2. Q = T
    BY <1>6 DEF R
  <2> HIDE DEF c
  <2>3. Sound(S, S.lv) /\ n \in Names /\ Fine(S, n)
    BY <1>2, <1>5
  <2> HIDE DEF n
  <2>4. Q.tab[n] # <<>> /\ Out(Q.tab[n][1]) = c /\ (Q.environ[n] # None <=> ToPutOut(c))
    BY <2>1, <2>3, restore_paramsBack
  <2> HIDE DEF Q
  <2> DEFINE t == tab'[n]
  <2>5. t # <<>> /\ Out(t[1]) = c /\ (environ'[n] # None <=> ToPutOut(c))
    BY <1>7, <2>2, <2>4
  <2> HIDE DEF t
  <2>6. t # <<>> /\ [t[1] EXCEPT !.env = FALSE] = c /\ (environ'[n] # None <=> c.exported /\ c.set)
    BY <2>5 DEF Out, ToPutOut
  <2>7. c = Head(frames).copy /\ n = Head(frames).n /\ c # None
    BY <1>4, <1>11 DEF c, n
  <2>8. t = tab'[Head(frames).n]
    BY <2>7 DEF t
  <2> HIDE DEF f
  <2> QED
    BY <2>6, <2>7, <2>8 DEF Undone
<1> QED
  BY <1>10, <1>11

LEMMA NextSince ==
    ASSUME Refs = {}, PInv, [Next]_vars
    PROVE  PInv'
<1>1. EInv'
  BY NextFine DEF PInv
<1>2. CASE Next
  <2>1. EInv
    BY DEF PInv
  <2>2. CASE Changing /\ locallevel' = locallevel
    BY <1>1, <2>2, ChangingSince
  <2>3. ASSUME NEW n \in Names, NEW v \in Values[n], NEW func \in BOOLEAN, Prefixed(n, v, func)
        PROVE  PInv'
    BY <1>1, <2>3, PrefixedSince
  <2>4. CASE Call
    BY <1>1, <2>4, CallSince
  <2>5. CASE Return
    BY <1>1, <2>5, ReturnSince
  <2> QED
    BY <1>2, <2>1, <2>2, <2>3, <2>4, <2>5, NextIs
<1>3. CASE UNCHANGED vars
  <2>1. tab' = tab /\ frames' = frames /\ locallevel' = locallevel
    BY <1>3 DEF vars
  <2>2. PICK d : Descends(frames, locallevel, d) /\ Since(tab, frames, d)
    BY DEF PInv
  <2>3. Descends(frames', locallevel', d) /\ Since(tab', frames', d)
    BY <2>1, <2>2
  <2> QED
    BY <1>1, <2>3 DEF PInv
<1> QED
  BY <1>2, <1>3

LEMMA InitSince ==
    ASSUME Init
    PROVE  PInv
<1> DEFINE d == [i \in 0..0 |-> 0]
<1>1. frames = <<>> /\ locallevel = 0 /\ Len(frames) = 0
  BY DEF Init
<1>2. d \in [0..Len(frames) -> Nat] /\ d[0] = locallevel
  BY <1>1
<1>3. \A i, j \in 0..Len(frames) : d[j] <= d[i]
  BY <1>1
<1>4. ~\E i : i \in 1..Len(frames)
  BY <1>1
<1> HIDE DEF d
<1>5. Descends(frames, locallevel, d)
  BY <1>2, <1>3, <1>4 DEF Descends, Depths
<1>6. Since(tab, frames, d)
  BY <1>4 DEF Since
<1> QED
  BY <1>5, <1>6, InitFine DEF PInv

\* Without references, a parameter assigned to in front of a command is
\* afterwards as it was, with its value, its flags and its place in the
\* environment, and is gone if there was none, however the commands inside
\* have assigned, unset, hidden or exported it, at every depth of calls
\* (save_params(), restore_params(), endparamscope()).
THEOREM PrefixesUndone ==
    ASSUME Refs = {}
    PROVE  Spec => PrefixUndone
<1>1. Init => PInv
  BY InitSince
<1>2. PInv /\ [Next]_vars => PInv'
  BY NextSince
<1>3. PInv => Undoes
  BY ReturnUndoes DEF Undoes
<1>4. PrefixUndone <=> [][Undoes]_vars
  BY DEF PrefixUndone, Undoes, Undone
<1> QED
  BY <1>1, <1>2, <1>3, <1>4, PTL DEF Spec

=============================================================================
