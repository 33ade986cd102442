--------------------------- MODULE ParamsReferences ---------------------------
(***************************************************************************)
(* Proofs about the references of Params, for every set of names, values   *)
(* and references and every depth of calls: they never lead in a circle,   *)
(* as long as `local' is not applied to a reference that leads to a hidden *)
(* parameter, and `unset' does not reach through a reference another one   *)
(* that was unset before and has kept its base.                            *)
(*                                                                         *)
(* What is followed through the code is Clear(): the base of a reference   *)
(* is the level of a scope still open, in which there is a struct of the   *)
(* name referred to, or an error is about to end everything; a reference   *)
(* to a deeper scope is listed for its end; and every circle goes through  *)
(* the reference that setscope() is looking at.                            *)
(***************************************************************************)
EXTENDS ParamsProofs

-----------------------------------------------------------------------------
(* References and the levels that they lead to.                            *)

\* Has(S, n, v): n has a struct of level v.
Has(S, n, v) == \E i \in 1..Len(S.tab[n]) : S.tab[n][i].level = v
Lowest(S, n) == S.tab[n][Len(S.tab[n])].level
Empty(S, n)  == Len(S.tab[n]) = 0

\* e is listed for the end of the scope b.
Listed(S, b, e) == \E j \in 1..Len(S.refs[b]) : S.refs[b][j] = e
Node(n, v) == [n |-> n, level |-> v]
Spot(S, p) == <<p[1], At(S, p).level>>

\* At the spot x is a reference to m with the base b.
Linked(S, x, m, b) ==
    \E p : /\ There(S, p) /\ Spot(S, p) = x
           /\ IsRef(At(S, p)) /\ At(S, p).str = m /\ At(S, p).base = b

\* Structs each of which leads to another of them.
Circle(S, C) ==
    /\ C # {}
    /\ \A x \in C : \E m, b : /\ Linked(S, x, m, b)
                              /\ b <= S.lv /\ ~Empty(S, m)
                              /\ <<m, IF b = 0 THEN Lowest(S, m) ELSE b>> \in C

\* The base of a reference is the level of a scope still open, and of a
\* struct of that name, until an error takes it away; a reference to a deeper
\* scope is listed for its end.
Rooted(S, n, s) ==
    /\ s.base <= S.lv
    /\ s.base > 0 /\ s.str \in Refs => Has(S, s.str, s.base) \/ (S.err /\ Empty(S, s.str))
    /\ s.base > s.level => Listed(S, s.base, Node(n, s.level))

\* A reference to nothing has no base.
Blank0(s) == ~IsRef(s) /\ (s.set \/ s.declared) => s.base = 0

\* Every reference is rooted, but those at the spots X, and those listed in D
\* whose scope has ended; every circle has one of them.
Clear(S, D, X) ==
    /\ \A C : Circle(S, C) => C \cap X # {}
    /\ \A p : There(S, p) /\ At(S, p).ref =>
          /\ IsRef(At(S, p)) /\ Spot(S, p) \notin X =>
                \/ Rooted(S, p[1], At(S, p))
                \/ At(S, p).base > S.lv /\ Node(p[1], At(S, p).level) \in D
          /\ Blank0(At(S, p))

LEMMA HasIs ==
    ASSUME NEW l, NEW S, Sound(S, l), NEW n \in Names
    PROVE  /\ Len(S.tab[n]) \in Nat
           /\ \A v : Has(S, n, v) => v \in 0..MaxLevel /\ v \in Nat /\ ~Empty(S, n)
           /\ ~Empty(S, n) => Has(S, n, Lowest(S, n))
<1>1. Len(S.tab[n]) \in Nat /\ \A i \in 1..Len(S.tab[n]) : S.tab[n][i] \in Cell
  BY StateFacts DEF Sound
<1>2. \A i \in 1..Len(S.tab[n]) : S.tab[n][i].level \in 0..MaxLevel
  BY <1>1 DEF Cell
<1>3. MaxLevel \in Nat
  BY MaxLevelType
<1> QED
  BY <1>1, <1>2, <1>3 DEF Has, Empty, Lowest

LEMMA LinkedIs ==
    ASSUME NEW l, NEW S, Sound(S, l), NEW p, There(S, p), IsRef(At(S, p))
    PROVE  /\ p[1] \in Refs /\ p[1] \in Names /\ At(S, p).str \in Names
           /\ At(S, p).base \in Nat /\ At(S, p).base \in 0..MaxLevel /\ At(S, p).level \in Nat
           /\ Has(S, p[1], At(S, p).level)
<1>1. /\ p[1] \in Names /\ p[2] \in 1..Len(S.tab[p[1]]) /\ At(S, p) = S.tab[p[1]][p[2]]
      /\ At(S, p) \in Cell
  BY ThereIs DEF Sound
<1>2. CellOK(p[1], At(S, p))
  BY <1>1 DEF Sound, Chain
<1>3. p[1] \in Refs /\ At(S, p).str \in Names
  BY <1>2 DEF CellOK, IsRef
<1>4. At(S, p).base \in Nat /\ At(S, p).base \in 0..MaxLevel /\ At(S, p).level \in Nat
  BY <1>1, MaxLevelType DEF Cell
<1> QED
  BY <1>1, <1>3, <1>4 DEF Has

\* A step from S to T that changes no reference but those at Y.
Carries(S, T, Y) ==
    /\ S.err => T.err
    /\ \A m \in Refs :
          /\ ~Empty(T, m) /\ ~Empty(S, m) =>
                Lowest(T, m) = Lowest(S, m) /\ \A v : Has(S, m, v) => Has(T, m, v)
          /\ Empty(T, m) => T.err \/ \A v : Has(S, m, v) => v = 0
          /\ S.err /\ Empty(S, m) => Empty(T, m)
    /\ \A p : There(T, p) /\ At(T, p).ref =>
          /\ Blank0(At(T, p))
          /\ IsRef(At(T, p)) /\ Spot(T, p) \notin Y =>
                \E q : /\ There(S, q) /\ IsRef(At(S, q)) /\ Spot(S, q) = Spot(T, p)
                       /\ At(S, q).str = At(T, p).str /\ At(S, q).base = At(T, p).base
    /\ \A b \in 1..MaxLevel : \A n \in Refs : \A v :
          Listed(S, b, Node(n, v)) /\ Has(T, n, v) => Listed(T, b, Node(n, v))

LEMMA Carry ==
    ASSUME NEW S, Sound(S, S.lv), NEW T, Sound(T, T.lv), T.lv = S.lv, NEW D, NEW X, NEW Y,
           Clear(S, D, X), Carries(S, T, Y)
    PROVE  Clear(T, D, X \cup Y)
<1>1. ASSUME NEW p, There(T, p), At(T, p).ref
      PROVE  /\ IsRef(At(T, p)) /\ Spot(T, p) \notin X \cup Y =>
                \/ Rooted(T, p[1], At(T, p))
                \/ At(T, p).base > T.lv /\ Node(p[1], At(T, p).level) \in D
             /\ Blank0(At(T, p))
  <2>1. Blank0(At(T, p))
    BY <1>1 DEF Carries
  <2>2. SUFFICES ASSUME IsRef(At(T, p)), Spot(T, p) \notin X \cup Y
                 PROVE  \/ Rooted(T, p[1], At(T, p))
                        \/ At(T, p).base > T.lv /\ Node(p[1], At(T, p).level) \in D
    BY <2>1
  <2>3. PICK q : /\ There(S, q) /\ IsRef(At(S, q)) /\ Spot(S, q) = Spot(T, p)
                 /\ At(S, q).str = At(T, p).str /\ At(S, q).base = At(T, p).base
    BY <1>1, <2>2 DEF Carries
  <2> DEFINE s == At(S, q)
             t == At(T, p)
  <2>4. /\ p[1] = q[1] /\ s.level = t.level /\ s.str = t.str /\ s.base = t.base
        /\ IsRef(s) /\ s.ref
    BY <2>3 DEF Spot, IsRef
  <2>5. \/ Rooted(S, q[1], s)
        \/ s.base > S.lv /\ Node(q[1], s.level) \in D
    BY <2>2, <2>3, <2>4 DEF Clear
  <2>6. /\ Has(T, p[1], t.level) /\ t.base \in Nat /\ t.base \in 0..MaxLevel
        /\ t.level \in Nat /\ p[1] \in Refs /\ t.str \in Names
    BY <1>1, <2>2, LinkedIs
  <2> HIDE DEF s, t
  <2>7. ASSUME Rooted(S, q[1], s) PROVE Rooted(T, p[1], t)
    <3>1. t.base <= T.lv
      BY <2>4, <2>7 DEF Rooted
    <3>2. ASSUME t.base > 0, t.str \in Refs PROVE Has(T, t.str, t.base) \/ (T.err /\ Empty(T, t.str))
      <4>1. Has(S, t.str, t.base) \/ (S.err /\ Empty(S, t.str))
        BY <2>4, <2>7, <3>2 DEF Rooted
      <4>2. CASE Has(S, t.str, t.base)
        <5>1. ~Empty(S, t.str)
          BY <2>6, <4>2, HasIs
        <5>2. CASE Empty(T, t.str)
          BY <2>6, <3>2, <4>2, <5>2 DEF Carries
        <5>3. CASE ~Empty(T, t.str)
          BY <3>2, <4>2, <5>1, <5>3 DEF Carries
        <5> QED
          BY <5>2, <5>3
      <4>3. CASE S.err /\ Empty(S, t.str)
        BY <3>2, <4>3 DEF Carries
      <4> QED
        BY <4>1, <4>2, <4>3
    <3>3. t.base > t.level => Listed(T, t.base, Node(p[1], t.level))
      <4>1. SUFFICES ASSUME t.base > t.level PROVE Listed(T, t.base, Node(p[1], t.level))
        OBVIOUS
      <4>2. t.base \in 1..MaxLevel
        BY <2>6, <4>1, MaxLevelType
      <4>3. Listed(S, t.base, Node(p[1], t.level))
        BY <2>4, <2>7, <4>1 DEF Rooted
      <4> QED
        BY <2>6, <4>2, <4>3 DEF Carries
    <3> QED
      BY <3>1, <3>2, <3>3 DEF Rooted
  <2>8. \/ Rooted(T, p[1], t)
        \/ t.base > T.lv /\ Node(p[1], t.level) \in D
    BY <2>4, <2>5, <2>7
  <2> QED
    BY <2>8 DEF t
<1>2. ASSUME NEW C, Circle(T, C), C \cap (X \cup Y) = {}
      PROVE  FALSE
  <2>1. ASSUME NEW x \in C
        PROVE  \E m, b : /\ Linked(S, x, m, b)
                         /\ b <= S.lv /\ ~Empty(S, m)
                         /\ <<m, IF b = 0 THEN Lowest(S, m) ELSE b>> \in C
    <3>1. PICK m, b : /\ Linked(T, x, m, b)
                      /\ b <= T.lv /\ ~Empty(T, m)
                      /\ <<m, IF b = 0 THEN Lowest(T, m) ELSE b>> \in C
      BY <1>2 DEF Circle
    <3> DEFINE v == IF b = 0 THEN Lowest(T, m) ELSE b
    <3>2. Linked(S, x, m, b)
      <4>1. PICK p : /\ There(T, p) /\ Spot(T, p) = x
                     /\ IsRef(At(T, p)) /\ At(T, p).str = m /\ At(T, p).base = b
        BY <3>1 DEF Linked
      <4>2. At(T, p).ref /\ Spot(T, p) \notin Y
        BY <1>2, <4>1 DEF IsRef
      <4>3. PICK q : /\ There(S, q) /\ IsRef(At(S, q)) /\ Spot(S, q) = Spot(T, p)
                     /\ At(S, q).str = At(T, p).str /\ At(S, q).base = At(T, p).base
        BY <4>1, <4>2 DEF Carries
      <4> QED
        BY <4>1, <4>3 DEF Linked
    <3>3. PICK m1, b1 : Linked(T, <<m, v>>, m1, b1)
      BY <1>2, <3>1 DEF Circle
    <3> HIDE DEF v
    <3>4. m \in Refs /\ m \in Names /\ Has(S, m, v)
      <4>1. PICK p : /\ There(T, p) /\ Spot(T, p) = <<m, v>> /\ IsRef(At(T, p))
        BY <3>3 DEF Linked
      <4>2. At(T, p).ref /\ Spot(T, p) \notin Y
        BY <1>2, <3>1, <4>1 DEF IsRef, v
      <4>3. PICK q : /\ There(S, q) /\ IsRef(At(S, q)) /\ Spot(S, q) = <<m, v>>
        BY <4>1, <4>2 DEF Carries
      <4>4. q[1] = m /\ At(S, q).level = v
        BY <4>3 DEF Spot
      <4> QED
        BY <4>3, <4>4, LinkedIs
    <3>5. ~Empty(S, m)
      BY <3>4, HasIs
    <3>6. Lowest(T, m) = Lowest(S, m)
      BY <3>1, <3>4, <3>5 DEF Carries
    <3> QED
      BY <3>1, <3>2, <3>5, <3>6
  <2>2. Circle(S, C)
    BY <1>2, <2>1 DEF Circle
  <2> QED
    BY <1>2, <2>2 DEF Clear
<1> QED
  BY <1>1, <1>2 DEF Clear

-----------------------------------------------------------------------------
(* Lists of references.                                                    *)

LEMMA WithoutFold ==
    ASSUME NEW V, NEW s \in Seq(V), NEW E
    PROVE  \E F : /\ Without(s, E) = F[Len(s)] /\ F[0] = <<>>
                  /\ \A i \in 1..Len(s) :
                        F[i] = IF s[i] \in E THEN F[i - 1] ELSE Append(F[i - 1], s[i])
                  /\ \A i \in 0..Len(s) : F[i] \in Seq(V)
<1> DEFINE n == Len(s)
           step(i, r) == IF s[i] \in E THEN r ELSE Append(r, s[i])
           next == [p \in (1..n) \X Seq(V) |-> step(p[1], p[2])]
           Sol(f) == f = [i \in 0..n |-> IF i = 0 THEN <<>> ELSE step(i, f[i - 1])]
           F == CHOOSE f : Sol(f)
<1>1. n \in Nat /\ \A i \in 1..n : s[i] \in V
  OBVIOUS
<1>0. Without(s, E) = F[n]
  BY Zenon DEF Without
<1> HIDE DEF n
<1>2. \A i \in 1..n : \A r \in Seq(V) : step(i, r) \in Seq(V)
  BY <1>1
<1> HIDE DEF step
<1>3. next \in [(1..n) \X Seq(V) -> Seq(V)] /\ \A p \in (1..n) \X Seq(V) : next[p] = step(p[1], p[2])
  BY <1>2
<1> HIDE DEF next
<1>4. <<>> \in Seq(V)
  OBVIOUS
<1>5. \E f : Recursive(f, Seq(V), <<>>, n, next)
  BY <1>1, <1>3, <1>4, Recursion
<1>6. PICK f : Recursive(f, Seq(V), <<>>, n, next)
  BY <1>5
<1>7. f \in [0..n -> Seq(V)] /\ f[0] = <<>> /\ \A i \in 1..n : f[i] = next[<<i, f[i - 1]>>]
  BY <1>6 DEF Recursive
<1>8. \A i \in 1..n : f[i] = step(i, f[i - 1])
  <2>1. SUFFICES ASSUME NEW i \in 1..n PROVE f[i] = step(i, f[i - 1])
    OBVIOUS
  <2>2. f[i - 1] \in Seq(V)
    BY <1>1, <1>7
  <2>3. next[<<i, f[i - 1]>>] = step(i, f[i - 1])
    BY <1>3, <2>2
  <2> QED
    BY <1>7, <2>3
<1>9. Sol(f)
  <2>1. \A i \in 0..n : f[i] = IF i = 0 THEN <<>> ELSE step(i, f[i - 1])
    BY <1>1, <1>7, <1>8
  <2> QED
    BY <1>7, <2>1
<1>10. Sol(F)
  BY <1>9, Zenon
<1>11. F = [i \in 0..n |-> IF i = 0 THEN <<>> ELSE step(i, F[i - 1])]
  BY <1>10
<1> HIDE DEF F, Sol
<1>12. F[0] = <<>> /\ \A i \in 1..n : F[i] = step(i, F[i - 1])
  BY <1>1, <1>11
<1>13. F[0] \in Seq(V) /\ \A i \in 1..n : F[i - 1] \in Seq(V) => F[i] \in Seq(V)
  BY <1>2, <1>4, <1>12
<1>14. \A i \in 0..n : F[i] \in Seq(V)
  BY <1>1, <1>13, Stays
<1>15. \A i \in 1..n : F[i] = IF s[i] \in E THEN F[i - 1] ELSE Append(F[i - 1], s[i])
  BY <1>12 DEF step
<1> QED
  BY <1>0, <1>12, <1>14, <1>15 DEF n

\* e is one of the elements of s.
Among(s, e) == \E j \in 1..Len(s) : s[j] = e

LEMMA AppendAmong ==
    ASSUME NEW V, NEW r \in Seq(V), NEW x \in V, NEW e
    PROVE  Among(Append(r, x), x) /\ (Among(r, e) => Among(Append(r, x), e))
<1>2. /\ Len(Append(r, x)) = Len(r) + 1 /\ Len(r) \in Nat /\ Append(r, x)[Len(r) + 1] = x
      /\ \A k \in 1..Len(r) : Append(r, x)[k] = r[k]
  OBVIOUS
<1>3. Len(r) + 1 \in 1..Len(Append(r, x)) /\ \A k \in 1..Len(r) : k \in 1..Len(Append(r, x))
  BY <1>2
<1>4. Among(Append(r, x), x)
  BY <1>2, <1>3 DEF Among
<1>5. Among(r, e) => Among(Append(r, x), e)
  BY <1>2, <1>3 DEF Among
<1> QED
  BY <1>4, <1>5

LEMMA WithoutKeeps ==
    ASSUME NEW V, NEW s \in Seq(V), NEW E, NEW e, e \notin E, Among(s, e)
    PROVE  Among(Without(s, E), e)
<1>1. PICK F : /\ Without(s, E) = F[Len(s)] /\ F[0] = <<>>
               /\ \A i \in 1..Len(s) :
                     F[i] = IF s[i] \in E THEN F[i - 1] ELSE Append(F[i - 1], s[i])
               /\ \A i \in 0..Len(s) : F[i] \in Seq(V)
  BY WithoutFold
<1>2. PICK j \in 1..Len(s) : s[j] = e
  BY DEF Among
<1> DEFINE n == Len(s)
           I == {i \in Nat : i \in j..n => Among(F[i], e)}
<1>3. n \in Nat /\ j \in Nat /\ \A i \in 1..n : s[i] \in V
  OBVIOUS
<1>5. 0 \in I
  BY <1>2, <1>3
<1>6. \A i \in Nat : i \in I => i + 1 \in I
  <2>1. SUFFICES ASSUME NEW i \in Nat, i \in I, i + 1 \in j..n PROVE Among(F[i + 1], e)
    OBVIOUS
  <2>2. i + 1 \in 1..n /\ i \in 0..n /\ (i + 1) - 1 = i /\ (i + 1 = j \/ i \in j..n)
    BY <1>2, <1>3, <2>1
  <2>3. F[i] \in Seq(V) /\ s[i + 1] \in V
    BY <1>1, <1>3, <2>2
  <2>4. F[i + 1] = IF s[i + 1] \in E THEN F[i] ELSE Append(F[i], s[i + 1])
    BY <1>1, <2>2
  <2> DEFINE x == s[i + 1]
             r == F[i]
             A == Append(r, x)
  <2>8. r \in Seq(V) /\ x \in V
    BY <2>3
  <2>9. Among(A, x) /\ (Among(r, e) => Among(A, e))
    BY <2>8, AppendAmong
  <2>10. F[i + 1] = IF x \in E THEN r ELSE A
    BY <2>4
  <2>5. CASE i + 1 = j
    <3>1. x = e
      BY <1>2, <2>5
    <3> HIDE DEF A, x, r
    <3> QED
      BY <2>9, <2>10, <3>1
  <2>6. CASE i \in j..n
    <3>1. Among(r, e)
      BY <2>1, <2>6
    <3> HIDE DEF A, x, r
    <3> QED
      BY <2>9, <2>10, <3>1
  <2> QED
    BY <2>2, <2>5, <2>6
<1> HIDE DEF I, n
<1>7. \A i \in Nat : i \in I
  BY <1>5, <1>6, Induction
<1>8. n \in I /\ n \in j..n
  BY <1>2, <1>3, <1>7 DEF n
<1> QED
  BY <1>1, <1>8 DEF I, n

\* From S to T the lists of references and the error stay.
Rest(S, T) == T.refs = S.refs /\ T.err = S.err

LEMMA WithEnvironRest ==
    ASSUME NEW S \in State, NEW n, NEW v
    PROVE  Rest(S, WithEnviron(S, n, v))
BY DEF State, WithEnviron, Rest

LEMMA WithEnvironState ==
    ASSUME NEW S \in State, NEW n \in Names, NEW v \in Str \cup {None}
    PROVE  WithEnviron(S, n, v) \in State /\ WithEnviron(S, n, v).tab = S.tab
BY DEF State, WithEnviron

LEMMA addenvRest ==
    ASSUME NEW S \in State, NEW p, There(S, p), NEW v \in Str
    PROVE  Rest(S, addenv(S, p, v))
<1> DEFINE n == p[1]
           U == WithEnviron(S, n, v)
           s == Shown(At(S, p))
<1>1. p = <<n, p[2]>> /\ n \in Names /\ At(S, p) \in Cell
  BY ThereIs
<1>2. addenv(S, p, v) = Put(U, <<n, p[2]>>, s)
  BY <1>1 DEF addenv, WithEnviron, Shown
<1>3. s \in Cell
  BY <1>1 DEF Cell, Shown
<1> HIDE DEF s, n
<1>5. U \in State /\ Rest(S, U)
  BY <1>1, WithEnvironState, WithEnvironRest
<1> HIDE DEF U
<1>7. Put(U, <<n, p[2]>>, s).refs = U.refs /\ Put(U, <<n, p[2]>>, s).err = U.err
  BY <1>1, <1>3, <1>5, PutIs
<1> QED
  BY <1>2, <1>5, <1>7 DEF Rest

LEMMA delenvRest ==
    ASSUME NEW l, NEW S, Sound(S, l), NEW n \in Names, NEW i
    PROVE  Rest(S, delenv(S, <<n, i>>))
<1> DEFINE U == WithEnviron(S, n, None)
           s == Out(S.tab[n][i])
<1>1. S \in State /\ Chain(n, S.tab[n], l)
  BY DEF Sound
<1>2. delenv(S, <<n, i>>) = IF S.tab[n][i].env THEN Put(U, <<n, i>>, s) ELSE S
  BY DEF delenv, WithEnviron, At, Out
<1>3. i \in 1..Len(S.tab[n]) => s \in Cell
  BY <1>1 DEF Chain, Cell, Out
<1> HIDE DEF s
<1>4. Step(S, U, l) /\ U.tab = S.tab /\ U.environ = [S.environ EXCEPT ![n] = None]
  BY WithEnvironSound
<1>5. Step(S, U, l) /\ U.tab = S.tab /\ Rest(S, U)
  BY <1>1, <1>4, WithEnvironRest
<1> HIDE DEF U
<1>6. U \in State
  BY <1>5 DEF Step, Sound
<1>7. Put(U, <<n, i>>, s).refs = U.refs /\ Put(U, <<n, i>>, s).err = U.err
  BY <1>3, <1>5, <1>6, PutIs
<1> QED
  BY <1>2, <1>5, <1>7 DEF Rest

\* Of the references listed in S, those of other names than n are in T, and
\* those of the levels K.
Lists(S, T, n, K) ==
    \A b \in 1..MaxLevel : \A m \in Names : \A v :
        Listed(S, b, Node(m, v)) /\ (m # n \/ v \in K) => Listed(T, b, Node(m, v))

LEMMA RestLists ==
    ASSUME NEW S, NEW T, Rest(S, T), NEW n, NEW K
    PROVE  Lists(S, T, n, K)
BY DEF Rest, Lists, Listed

LEMMA ForgetLists ==
    ASSUME NEW S \in State, NEW T, NEW n, NEW levels, T.refs = Forget(S, n, levels),
           NEW K, K \cap levels = {}
    PROVE  Lists(S, T, n, K)
<1>1. SUFFICES ASSUME NEW b \in 1..MaxLevel, NEW m \in Names, NEW v,
                      Listed(S, b, Node(m, v)), m # n \/ v \in K
               PROVE  Listed(T, b, Node(m, v))
  BY DEF Lists
<1> DEFINE E == {[n |-> n, level |-> x] : x \in levels}
<1>2. S.refs \in [1..MaxLevel -> Seq(Entry)]
  BY DEF State
<1>3. S.refs[b] \in Seq(Entry) /\ T.refs[b] = Without(S.refs[b], E)
  BY <1>2 DEF Forget
<1>4. Node(m, v) \notin E
  BY <1>1 DEF Node
<1>5. Among(S.refs[b], Node(m, v))
  BY <1>1 DEF Listed, Among
<1> HIDE DEF E
<1>6. Among(Without(S.refs[b], E), Node(m, v))
  BY <1>3, <1>4, <1>5, WithoutKeeps
<1> QED
  BY <1>3, <1>6 DEF Listed, Among

-----------------------------------------------------------------------------
(* One struct changes.                                                     *)

\* From S to T one struct is changed at most, and not its level.
Alters(S, T, p) ==
    /\ Rest(S, T) /\ T.lv = S.lv
    /\ \A m \in Names :
          /\ Len(T.tab[m]) = Len(S.tab[m])
          /\ \A k \in 1..Len(S.tab[m]) :
                /\ T.tab[m][k].level = S.tab[m][k].level
                /\ <<m, k>> # p => T.tab[m][k] = S.tab[m][k]

LEMMA AltersMore ==
    ASSUME NEW S, NEW T, NEW U, NEW p, Alters(S, T, p), Alters(T, U, p)
    PROVE  Alters(S, U, p)
BY DEF Alters, Rest

LEMMA AltersSame ==
    ASSUME NEW S, NEW p
    PROVE  Alters(S, S, p)
BY DEF Alters, Rest

LEMMA PutAlters ==
    ASSUME NEW l, NEW S, Sound(S, l), NEW p, There(S, p), NEW s \in Cell, s.level = At(S, p).level
    PROVE  Alters(S, Put(S, p, s), p) /\ At(Put(S, p, s), p) = s
<1> DEFINE n == p[1]
           i == p[2]
<1>1. /\ S \in State /\ p = <<n, i>> /\ n \in Names /\ i \in 1..Len(S.tab[n])
      /\ At(S, p) = S.tab[n][i]
  BY ThereIs DEF Sound
<1> DEFINE T == Put(S, <<n, i>>, s)
<1> HIDE DEF n, i
<1>2. /\ T.refs = S.refs /\ T.err = S.err /\ T.lv = S.lv
      /\ \A m \in Names \ {n} : T.tab[m] = S.tab[m]
      /\ Len(T.tab[n]) = Len(S.tab[n])
      /\ \A k \in 1..Len(S.tab[n]) : T.tab[n][k] = IF k = i THEN s ELSE S.tab[n][k]
  BY <1>1, PutIs
<1>3. Put(S, p, s) = T
  BY <1>1
<1> HIDE DEF T
<1>4. ASSUME NEW m \in Names
      PROVE  /\ Len(T.tab[m]) = Len(S.tab[m])
             /\ \A k \in 1..Len(S.tab[m]) :
                   /\ T.tab[m][k].level = S.tab[m][k].level
                   /\ <<m, k>> # p => T.tab[m][k] = S.tab[m][k]
  <2>1. CASE m = n
    <3>1. \A k \in 1..Len(S.tab[n]) :
             /\ T.tab[n][k].level = S.tab[n][k].level
             /\ k # i => T.tab[n][k] = S.tab[n][k]
      BY <1>1, <1>2
    <3> QED
      BY <1>1, <1>2, <2>1, <3>1
  <2>2. CASE m # n
    BY <1>2, <2>2
  <2> QED
    BY <2>1, <2>2
<1>5. At(T, p) = s
  BY <1>1, <1>2 DEF At
<1> QED
  BY <1>2, <1>3, <1>4, <1>5 DEF Alters, Rest

LEMMA addenvAlters ==
    ASSUME NEW l, NEW S, Sound(S, l), NEW p, There(S, p), NEW v \in Str
    PROVE  Alters(S, addenv(S, p, v), p) /\ At(addenv(S, p, v), p) = Shown(At(S, p))
<1>0. LET T == addenv(S, p, v)
      IN  /\ Step(S, T, l)
          /\ T.environ = [S.environ EXCEPT ![p[1]] = v]
          /\ \A m \in Names \ {p[1]} : T.tab[m] = S.tab[m]
          /\ Len(T.tab[p[1]]) = Len(S.tab[p[1]])
          /\ \A k \in 1..Len(S.tab[p[1]]) :
                T.tab[p[1]][k] = IF k = p[2] THEN Shown(At(S, p))
                                 ELSE S.tab[p[1]][k]
  BY addenvIs
<1> DEFINE n == p[1]
           i == p[2]
           T == addenv(S, p, v)
<1>1. /\ S \in State /\ p = <<n, i>> /\ n \in Names /\ i \in 1..Len(S.tab[n])
      /\ At(S, p) = S.tab[n][i] /\ At(S, p) \in Cell
  BY ThereIs DEF Sound
<1>2. /\ Step(S, T, l)
      /\ \A m \in Names \ {n} : T.tab[m] = S.tab[m]
      /\ Len(T.tab[n]) = Len(S.tab[n])
      /\ \A k \in 1..Len(S.tab[n]) : T.tab[n][k] = IF k = i THEN Shown(At(S, p)) ELSE S.tab[n][k]
  BY <1>0
<1>3. Shown(At(S, p)).level = At(S, p).level
  BY <1>1 DEF Cell, Shown
<1>6. Rest(S, T)
  BY addenvRest DEF Sound
<1> HIDE DEF T, n, i
<1>4. ASSUME NEW m \in Names
      PROVE  /\ Len(T.tab[m]) = Len(S.tab[m])
             /\ \A k \in 1..Len(S.tab[m]) :
                   /\ T.tab[m][k].level = S.tab[m][k].level
                   /\ <<m, k>> # p => T.tab[m][k] = S.tab[m][k]
  <2>1. CASE m = n
    <3>1. \A k \in 1..Len(S.tab[n]) :
             /\ T.tab[n][k].level = S.tab[n][k].level
             /\ k # i => T.tab[n][k] = S.tab[n][k]
      BY <1>1, <1>2, <1>3
    <3> QED
      BY <1>1, <1>2, <2>1, <3>1
  <2>2. CASE m # n
    BY <1>2, <2>2
  <2> QED
    BY <2>1, <2>2
<1>5. At(T, p) = Shown(At(S, p))
  BY <1>1, <1>2 DEF At
<1> QED
  BY <1>2, <1>4, <1>5, <1>6 DEF Alters, Step, T

LEMMA delenvAlters ==
    ASSUME NEW l, NEW S, Sound(S, l), NEW p, There(S, p)
    PROVE  Alters(S, delenv(S, p), p) /\ At(delenv(S, p), p) = Out(At(S, p))
<1> DEFINE n == p[1]
           i == p[2]
           T == delenv(S, <<n, i>>)
<1>1. /\ S \in State /\ p = <<n, i>> /\ n \in Names /\ i \in 1..Len(S.tab[n])
      /\ At(S, p) = S.tab[n][i] /\ At(S, p) \in Cell
  BY ThereIs DEF Sound
<1> HIDE DEF n, i
<1>2. /\ Step(S, T, l)
      /\ T.environ = IF S.tab[n][i].env THEN [S.environ EXCEPT ![n] = None] ELSE S.environ
      /\ \A m \in Names \ {n} : T.tab[m] = S.tab[m]
      /\ Len(T.tab[n]) = Len(S.tab[n])
      /\ \A k \in 1..Len(S.tab[n]) : T.tab[n][k] = IF k = i THEN Out(S.tab[n][k]) ELSE S.tab[n][k]
  BY <1>1, delenvIs
<1>3. Out(At(S, p)).level = At(S, p).level
  BY <1>1 DEF Cell, Out
<1>6. Rest(S, T)
  BY <1>1, delenvRest
<1>7. delenv(S, p) = T
  BY <1>1
<1> HIDE DEF T
<1>4. ASSUME NEW m \in Names
      PROVE  /\ Len(T.tab[m]) = Len(S.tab[m])
             /\ \A k \in 1..Len(S.tab[m]) :
                   /\ T.tab[m][k].level = S.tab[m][k].level
                   /\ <<m, k>> # p => T.tab[m][k] = S.tab[m][k]
  <2>1. CASE m = n
    <3>1. \A k \in 1..Len(S.tab[n]) :
             /\ T.tab[n][k].level = S.tab[n][k].level
             /\ k # i => T.tab[n][k] = S.tab[n][k]
      BY <1>1, <1>2, <1>3
    <3> QED
      BY <1>1, <1>2, <2>1, <3>1
  <2>2. CASE m # n
    BY <1>2, <2>2
  <2> QED
    BY <2>1, <2>2
<1>5. At(T, p) = Out(At(S, p))
  BY <1>1, <1>2 DEF At
<1> QED
  BY <1>2, <1>4, <1>5, <1>6, <1>7 DEF Alters, Step

LEMMA AltersLevels ==
    ASSUME NEW l, NEW S, Sound(S, l), NEW T, NEW p, Alters(S, T, p)
    PROVE  /\ \A m \in Names : /\ Empty(T, m) <=> Empty(S, m)
                               /\ ~Empty(S, m) => Lowest(T, m) = Lowest(S, m)
                               /\ \A v : Has(T, m, v) <=> Has(S, m, v)
           /\ \A q : There(T, q) <=> There(S, q)
           /\ \A q : There(S, q) => Spot(T, q) = Spot(S, q) /\ (q # p => At(T, q) = At(S, q))
<1>1. \A m \in Names : Len(S.tab[m]) \in Nat
  BY StateFacts DEF Sound
<1>2. ASSUME NEW m \in Names
      PROVE  /\ Empty(T, m) <=> Empty(S, m)
             /\ ~Empty(S, m) => Lowest(T, m) = Lowest(S, m)
             /\ \A v : Has(T, m, v) <=> Has(S, m, v)
  <2>1. /\ Len(T.tab[m]) = Len(S.tab[m]) /\ Len(S.tab[m]) \in Nat
        /\ \A k \in 1..Len(S.tab[m]) : T.tab[m][k].level = S.tab[m][k].level
    BY <1>1 DEF Alters
  <2>2. Len(S.tab[m]) # 0 => Len(S.tab[m]) \in 1..Len(S.tab[m])
    BY <2>1
  <2> QED
    BY <2>1, <2>2 DEF Empty, Lowest, Has
<1>3. \A q : There(T, q) <=> There(S, q)
  BY DEF There, Alters
<1>4. ASSUME NEW q, There(S, q)
      PROVE  Spot(T, q) = Spot(S, q) /\ (q # p => At(T, q) = At(S, q))
  <2>1. q = <<q[1], q[2]>> /\ q[1] \in Names /\ q[2] \in 1..Len(S.tab[q[1]])
    BY <1>4, ThereIs DEF Sound
  <2> QED
    BY <2>1 DEF Alters, At, Spot
<1> QED
  BY <1>2, <1>3, <1>4

LEMMA AltersClear ==
    ASSUME NEW S, Sound(S, S.lv), NEW T, Sound(T, T.lv), NEW D, NEW X, NEW Y, Clear(S, D, X),
           NEW p, There(S, p), Alters(S, T, p),
           At(T, p).ref => Blank0(At(T, p)),
           IsRef(At(T, p)) =>
              \/ Spot(T, p) \in Y
              \/ IsRef(At(S, p)) /\ At(S, p).str = At(T, p).str /\ At(S, p).base = At(T, p).base
    PROVE  Clear(T, D, X \cup Y)
<1>1. /\ \A m \in Names : /\ Empty(T, m) <=> Empty(S, m)
                          /\ ~Empty(S, m) => Lowest(T, m) = Lowest(S, m)
                          /\ \A v : Has(T, m, v) <=> Has(S, m, v)
      /\ \A q : There(T, q) <=> There(S, q)
      /\ \A q : There(S, q) => Spot(T, q) = Spot(S, q) /\ (q # p => At(T, q) = At(S, q))
  BY AltersLevels
<1>2. Refs \subseteq Names /\ T.err = S.err /\ T.refs = S.refs /\ T.lv = S.lv
  BY ConstantsType DEF Alters, Rest
<1>3. \A m \in Refs :
          /\ ~Empty(T, m) /\ ~Empty(S, m) =>
                Lowest(T, m) = Lowest(S, m) /\ \A v : Has(S, m, v) => Has(T, m, v)
          /\ Empty(T, m) => T.err \/ \A v : Has(S, m, v) => v = 0
          /\ S.err /\ Empty(S, m) => Empty(T, m)
  <2>1. SUFFICES ASSUME NEW m \in Refs
                 PROVE  /\ ~Empty(T, m) /\ ~Empty(S, m) =>
                             Lowest(T, m) = Lowest(S, m) /\ \A v : Has(S, m, v) => Has(T, m, v)
                        /\ Empty(T, m) => T.err \/ \A v : Has(S, m, v) => v = 0
                        /\ S.err /\ Empty(S, m) => Empty(T, m)
    OBVIOUS
  <2>2. m \in Names
    BY <1>2
  <2>3. Empty(S, m) => \A v : ~Has(S, m, v)
    BY <2>2, HasIs
  <2> QED
    BY <1>1, <2>2, <2>3
<1>4. ASSUME NEW q, There(T, q), At(T, q).ref
      PROVE  /\ Blank0(At(T, q))
             /\ IsRef(At(T, q)) /\ Spot(T, q) \notin Y =>
                   \E o : /\ There(S, o) /\ IsRef(At(S, o)) /\ Spot(S, o) = Spot(T, q)
                          /\ At(S, o).str = At(T, q).str /\ At(S, o).base = At(T, q).base
  <2>1. There(S, q) /\ Spot(T, q) = Spot(S, q)
    BY <1>1, <1>4
  <2>2. CASE q = p
    BY <1>4, <2>1, <2>2
  <2>3. CASE q # p
    <3>1. At(T, q) = At(S, q)
      BY <1>1, <2>1, <2>3
    <3>2. Blank0(At(S, q))
      BY <1>4, <2>1, <3>1 DEF Clear
    <3> QED
      BY <2>1, <3>1, <3>2
  <2> QED
    BY <2>2, <2>3
<1>5. \A b \in 1..MaxLevel : \A n \in Refs : \A v :
          Listed(S, b, Node(n, v)) /\ Has(T, n, v) => Listed(T, b, Node(n, v))
  BY <1>2 DEF Listed
<1>6. Carries(S, T, Y)
  BY <1>2, <1>3, <1>4, <1>5 DEF Carries
<1> QED
  BY <1>2, <1>6, Carry

-----------------------------------------------------------------------------
(* A struct is unset or leaves the table.                                  *)

LEMMA LevelsFall ==
    ASSUME NEW l, NEW S, Sound(S, l), NEW n \in Names, NEW i \in 1..Len(S.tab[n]),
           NEW k \in 1..Len(S.tab[n]), i < k
    PROVE  S.tab[n][k].level < S.tab[n][i].level
<1> DEFINE t == S.tab[n]
           J == {d \in Nat : i + 1 + d <= Len(t) => t[i + 1 + d].level < t[i].level}
<1>1. Len(t) \in Nat /\ \A j \in 1..Len(t) : t[j].level \in Nat
  <2>1. Len(t) \in Nat /\ \A j \in 1..Len(t) : t[j] \in Cell
    BY StateFacts DEF Sound
  <2>2. \A j \in 1..Len(t) : t[j].level \in Nat
    BY <2>1, MaxLevelType DEF Cell
  <2> QED
    BY <2>1, <2>2
<1>2. \A j \in 1..Len(t) : j > 1 => t[j].level < t[j - 1].level
  BY DEF Sound, Chain
<1> HIDE DEF t
<1>3. i \in 1..Len(t) /\ k \in 1..Len(t)
  BY DEF t
<1>4. 0 \in J
  <2>1. ASSUME i + 1 + 0 <= Len(t) PROVE t[i + 1 + 0].level < t[i].level
    <3>1. i + 1 + 0 = i + 1 /\ i + 1 \in 1..Len(t) /\ i + 1 > 1 /\ (i + 1) - 1 = i
      BY <1>1, <1>3, <2>1
    <3> QED
      BY <1>2, <3>1
  <2> QED
    BY <2>1
<1>5. \A d \in Nat : d \in J => d + 1 \in J
  <2>1. SUFFICES ASSUME NEW d \in Nat, d \in J, i + 1 + (d + 1) <= Len(t)
                 PROVE  t[i + 1 + (d + 1)].level < t[i].level
    OBVIOUS
  <2> DEFINE j == i + 1 + (d + 1)
  <2>2. j \in 1..Len(t) /\ j > 1 /\ j - 1 = i + 1 + d /\ j - 1 \in 1..Len(t) /\ i + 1 + d <= Len(t)
    BY <1>1, <1>3, <2>1
  <2>3. t[i + 1 + d].level < t[i].level
    BY <2>1, <2>2
  <2>4. t[j].level < t[j - 1].level
    BY <1>2, <2>2
  <2>5. t[j].level \in Nat /\ t[j - 1].level \in Nat /\ t[i].level \in Nat
    BY <1>1, <1>3, <2>2
  <2>6. t[j - 1].level < t[i].level
    BY <2>2, <2>3
  <2> HIDE DEF j
  <2>7. t[j].level < t[i].level
    BY <2>4, <2>5, <2>6
  <2> QED
    BY <2>7 DEF j
<1> HIDE DEF J
<1>6. \A d \in Nat : d \in J
  BY <1>4, <1>5, Induction
<1>7. k - i - 1 \in Nat /\ i + 1 + (k - i - 1) = k /\ k <= Len(t)
  BY <1>1, <1>3
<1>8. k - i - 1 \in J
  BY <1>6, <1>7
<1> QED
  BY <1>7, <1>8 DEF J, t

\* A name has one struct of each level.
LEMMA SpotsDiffer ==
    ASSUME NEW l, NEW S, Sound(S, l), NEW p, There(S, p), NEW q, There(S, q), Spot(S, p) = Spot(S, q)
    PROVE  p = q
<1>1. /\ p = <<p[1], p[2]>> /\ p[1] \in Names /\ p[2] \in 1..Len(S.tab[p[1]])
      /\ At(S, p) = S.tab[p[1]][p[2]] /\ S \in State
  BY ThereIs DEF Sound
<1>2. /\ q = <<q[1], q[2]>> /\ q[1] \in Names /\ q[2] \in 1..Len(S.tab[q[1]])
      /\ At(S, q) = S.tab[q[1]][q[2]]
  BY ThereIs DEF Sound
<1>3. p[1] = q[1] /\ At(S, p).level = At(S, q).level
  BY DEF Spot
<1> DEFINE n == p[1]
           i == p[2]
           k == q[2]
<1>4. n \in Names /\ i \in 1..Len(S.tab[n]) /\ k \in 1..Len(S.tab[n])
      /\ S.tab[n][i].level = S.tab[n][k].level
  BY <1>1, <1>2, <1>3
<1>5. \A j \in 1..Len(S.tab[n]) : S.tab[n][j].level \in Nat
  <2>1. \A j \in 1..Len(S.tab[n]) : S.tab[n][j] \in Cell
    BY <1>1, StateFacts
  <2> QED
    BY <2>1, MaxLevelType DEF Cell
<1>6. Len(S.tab[n]) \in Nat
  BY <1>1, StateFacts
<1> HIDE DEF n, i, k
<1>7. ~(i < k) /\ ~(k < i)
  <2>1. i < k => S.tab[n][k].level < S.tab[n][i].level
    BY <1>4, LevelsFall
  <2>2. k < i => S.tab[n][i].level < S.tab[n][k].level
    BY <1>4, LevelsFall
  <2>3. S.tab[n][i].level \in Nat /\ S.tab[n][k].level \in Nat
    BY <1>4, <1>5
  <2> QED
    BY <1>4, <2>1, <2>2, <2>3
<1>8. i = k
  BY <1>4, <1>6, <1>7
<1> QED
  BY <1>1, <1>2, <1>3, <1>8 DEF i, k

LEMMA removenodeRest ==
    ASSUME NEW l, NEW S, Sound(S, l), NEW n \in Names, NEW i \in Nat \ {0}
    PROVE  LET T == removenode(S, <<n, i>>)
           IN  /\ T.err = S.err
               /\ T.refs = Forget(S, n, {S.tab[n][j].level : j \in 1..i})
<1> DEFINE t == S.tab[n]
           R == removenode(S, <<n, i>>)
           gone == {S.tab[n][j].level : j \in 1..i}
           listed == {b \in DOMAIN S.refs : \E j \in 1..Len(S.refs[b]) :
                         S.refs[b][j] = [n |-> n, level |-> At(S, <<n, i>>).level]}
           q == SubSeq(t, i + 1, Len(t))
           u == [S.tab EXCEPT ![n] = q]
           r == Forget(S, n, gone)
           d == S.dead \cup listed
           T == Made(u, S.environ, r, d, S.lv, S.err)
<1>1. /\ S \in State /\ S.tab \in [Names -> Seq(Cell)] /\ t \in Seq(Cell) /\ Len(t) \in Nat
      /\ S.environ \in [Names -> Str \cup {None}]
      /\ S.refs \in [1..MaxLevel -> Seq(Entry)] /\ S.dead \in SUBSET (1..MaxLevel)
      /\ S.lv \in 0..MaxLevel /\ S.err \in BOOLEAN
  BY StateFacts DEF Sound
<1>2. [S EXCEPT !.tab[n] = SubSeq(@, i + 1, Len(@)), !.refs = Forget(S, n, gone), !.dead = @ \cup listed]
        = [S EXCEPT !.tab = u, !.refs = r, !.dead = d]
  BY <1>1 DEF State
<1>3. R = LET X == [S EXCEPT !.tab[n] = SubSeq(@, i + 1, Len(@)), !.refs = Forget(S, n, gone),
                             !.dead = @ \cup listed]
          IN  IF X.tab[n] # <<>> /\ X.tab[n][1].exported
              THEN addenv(X, <<n, 1>>, X.tab[n][1].str) ELSE X
  BY DEF removenode
<1>4. d \in SUBSET (1..MaxLevel) /\ r \in [1..MaxLevel -> Seq(Entry)]
  BY <1>1, ForgetIs
<1>5. q \in Seq(Cell)
  BY <1>1
<1> HIDE DEF q, r, d, gone, listed
<1>6. u \in [Names -> Seq(Cell)] /\ u[n] = q
  BY <1>1, <1>5
<1> HIDE DEF u
<1>7. [S EXCEPT !.tab = u, !.refs = r, !.dead = d] = T
  BY <1>1, ChangedAll, Zenon
<1>8. T \in State
  BY <1>1, <1>4, <1>6, MadeIs
<1>9. T.tab = u /\ T.refs = r /\ T.err = S.err
  BY MadeHas
<1> HIDE DEF T
<1>10. R = IF T.tab[n] # <<>> /\ T.tab[n][1].exported THEN addenv(T, <<n, 1>>, T.tab[n][1].str) ELSE T
  BY <1>2, <1>3, <1>7
<1>11. ASSUME T.tab[n] # <<>> PROVE Rest(T, addenv(T, <<n, 1>>, T.tab[n][1].str))
  <2>1. Visible(T, n) = <<n, 1>> /\ There(T, <<n, 1>>)
    BY <1>8, <1>11, VisibleIs
  <2>2. At(T, <<n, 1>>) \in Cell /\ At(T, <<n, 1>>) = T.tab[n][1]
    BY <1>8, <2>1, ThereIs DEF At
  <2>3. T.tab[n][1].str \in Str
    BY <2>2 DEF Cell
  <2> QED
    BY <1>8, <2>1, <2>3, addenvRest
<1>12. Rest(T, R)
  BY <1>10, <1>11 DEF Rest
<1> QED
  BY <1>9, <1>12 DEF Rest, r, gone

LEMMA unsetparamRest ==
    ASSUME NEW l, NEW S, Sound(S, l), NEW n \in Names, NEW i \in Nat \ {0}
    PROVE  LET T == unsetparam_pm(S, <<n, i>>)
           IN  /\ T.err = S.err
               /\ Stays1(S, S.tab[n][i]) => T.refs = S.refs
               /\ ~Stays1(S, S.tab[n][i]) =>
                     \A K : (\A j \in 1..i : S.tab[n][j].level \notin K) /\ i <= Len(S.tab[n])
                              => Lists(S, T, n, K)
               /\ Lists(S, T, n, {})
<1> DEFINE t == S.tab[n]
           s == Unset1(t[i])
           P == Put(S, <<n, i>>, s)
           D == delenv(P, <<n, i>>)
           R == removenode(D, <<n, i>>)
           T == unsetparam_pm(S, <<n, i>>)
<1>1. T = IF Stays1(S, t[i]) THEN D ELSE R
  BY DEF unsetparam_pm, At, Unset1, Stays1
<1>2. S \in State /\ Chain(n, t, l) /\ At(S, <<n, i>>) = t[i] /\ Len(t) \in Nat
  BY StateFacts DEF Sound, At
<1>3. ASSUME i \in 1..Len(t)
      PROVE  s \in Cell /\ CellOK(n, s) /\ s.level = t[i].level
  <2>1. t[i] \in Cell /\ CellOK(n, t[i])
    BY <1>2, <1>3 DEF Chain
  <2> HIDE DEF t
  <2> QED
    BY <2>1, Unset1Is
<1>4. /\ Step(S, D, l)
      /\ Len(D.tab[n]) = Len(t)
      /\ \A k \in 1..Len(t) : D.tab[n][k] = IF k = i THEN Bare(t[k]) ELSE t[k]
  <2>1. LET A == delenv(Put(S, <<n, i>>, Unset1(At(S, <<n, i>>))), <<n, i>>)
        IN  /\ Step(S, A, l)
            /\ \A m \in Names \ {n} : A.tab[m] = S.tab[m]
            /\ Len(A.tab[n]) = Len(S.tab[n])
            /\ \A k \in 1..Len(S.tab[n]) : A.tab[n][k] = IF k = i THEN Bare(S.tab[n][k]) ELSE S.tab[n][k]
            /\ i \in 1..Len(S.tab[n]) =>
                 A.environ = IF S.tab[n][i].env THEN [S.environ EXCEPT ![n] = None] ELSE S.environ
    BY UnsetIs
  <2> QED
    BY <1>2, <2>1
<1>9. \A k \in 1..Len(t) : D.tab[n][k].level = t[k].level
  <2>1. ASSUME NEW k \in 1..Len(t) PROVE t[k] \in Cell /\ CellOK(n, t[k])
    BY <1>2, <2>1 DEF Chain
  <2>2. \A k \in 1..Len(t) : Bare(t[k]).level = t[k].level
    BY <2>1, BareEnv
  <2> QED
    BY <1>4, <2>2
<1> HIDE DEF s, t
<1>5. Step(S, P, l) /\ P.refs = S.refs /\ P.err = S.err
  <2>1. Step(S, P, l)
    BY <1>3, PutSound DEF t
  <2> QED
    BY <1>2, <1>3, <2>1, PutIs DEF t
<1> HIDE DEF P
<1>6. Sound(P, l)
  BY <1>5 DEF Step
<1>7. Rest(P, D)
  BY <1>6, delenvRest
<1> HIDE DEF D
<1>8. Rest(S, D) /\ Sound(D, l)
  BY <1>4, <1>5, <1>7 DEF Rest, Step
<1>10. R.err = D.err /\ R.refs = Forget(D, n, {D.tab[n][j].level : j \in 1..i})
  BY <1>8, removenodeRest
<1> HIDE DEF R, T
<1>11. Lists(S, D, n, {}) /\ \A K : Lists(S, D, n, K)
  BY <1>8, RestLists
<1>12. ASSUME NEW K, K \cap {D.tab[n][j].level : j \in 1..i} = {}
       PROVE  Lists(D, R, n, K)
  BY <1>8, <1>10, <1>12, ForgetLists DEF Sound
<1>13. ASSUME NEW K, K \cap {D.tab[n][j].level : j \in 1..i} = {}
       PROVE  Lists(S, R, n, K)
  BY <1>11, <1>12, <1>13 DEF Lists
<1>14. Lists(S, R, n, {})
  BY <1>13
<1>15. ASSUME NEW K, \A j \in 1..i : t[j].level \notin K, i <= Len(t)
       PROVE  Lists(S, R, n, K)
  <2>1. \A j \in 1..i : j \in 1..Len(t)
    BY <1>2, <1>15
  <2>2. \A j \in 1..i : D.tab[n][j].level \notin K
    BY <1>9, <1>15, <2>1
  <2> QED
    BY <1>13, <2>2
<1> QED
  BY <1>1, <1>8, <1>10, <1>11, <1>14, <1>15 DEF T, t, Rest

\* The last struct of a name goes.
LEMMA EmptiedClear ==
    ASSUME NEW S, Sound(S, S.lv), NEW T, Sound(T, T.lv), T.lv = S.lv, NEW D, NEW X, Clear(S, D, X),
           NEW n \in Names, \A m \in Names \ {n} : T.tab[m] = S.tab[m], Empty(T, n),
           T.err = S.err, Lists(S, T, n, {}),
           S.err \/ \A v : Has(S, n, v) => v = 0
    PROVE  Clear(T, D, X)
<1>1. Refs \subseteq Names
  BY ConstantsType
<1>2. \A m \in Names \ {n} : /\ Empty(T, m) <=> Empty(S, m)
                             /\ Lowest(T, m) = Lowest(S, m)
                             /\ \A v : Has(T, m, v) <=> Has(S, m, v)
  BY DEF Empty, Lowest, Has
<1>3. \A m \in Names : Empty(S, m) => \A v : ~Has(S, m, v)
  BY HasIs
<1>4. ASSUME NEW m \in Refs
      PROVE  /\ ~Empty(T, m) /\ ~Empty(S, m) =>
                  Lowest(T, m) = Lowest(S, m) /\ \A v : Has(S, m, v) => Has(T, m, v)
             /\ Empty(T, m) => T.err \/ \A v : Has(S, m, v) => v = 0
             /\ S.err /\ Empty(S, m) => Empty(T, m)
  <2>1. m \in Names
    BY <1>1
  <2>2. CASE m = n
    BY <2>2
  <2>3. CASE m # n
    BY <1>2, <1>3, <2>1, <2>3
  <2> QED
    BY <2>2, <2>3
<1>5. ASSUME NEW q, There(T, q), At(T, q).ref
      PROVE  /\ Blank0(At(T, q))
             /\ \E o : /\ There(S, o) /\ At(S, o) = At(T, q) /\ Spot(S, o) = Spot(T, q)
  <2>1. q = <<q[1], q[2]>> /\ q[1] \in Names /\ q[2] \in 1..Len(T.tab[q[1]])
    BY <1>5, ThereIs DEF Sound
  <2>2. q[1] # n
    BY <2>1 DEF Empty
  <2>3. There(S, q) /\ At(S, q) = At(T, q) /\ Spot(S, q) = Spot(T, q)
    BY <1>5, <2>1, <2>2 DEF There, At, Spot
  <2>4. Blank0(At(S, q))
    BY <1>5, <2>3 DEF Clear
  <2> QED
    BY <2>3, <2>4
<1>6. ASSUME NEW b \in 1..MaxLevel, NEW m \in Refs, NEW v, Listed(S, b, Node(m, v)), Has(T, m, v)
      PROVE  Listed(T, b, Node(m, v))
  <2>1. m \in Names /\ Sound(T, T.lv)
    BY <1>1
  <2>2. ~Empty(T, m)
    BY <1>6, <2>1, HasIs
  <2>3. m # n
    BY <2>2
  <2> QED
    BY <1>6, <2>1, <2>3 DEF Lists
<1>7. Carries(S, T, {})
  BY <1>4, <1>5, <1>6 DEF Carries
<1> QED
  BY <1>7, Carry

\* There is no reference at the spot x.
Quiet(S, x) == \A q : There(S, q) /\ Spot(S, q) = x => ~IsRef(At(S, q))

\* unsetparam_pm()
LEMMA UnsetClear ==
    ASSUME NEW S, Sound(S, S.lv), NEW D, NEW X, Clear(S, D, X), NEW p \in Names \X (Nat \ {0}),
           p[2] = 1 \/ (There(S, p) /\ (S.err \/ At(S, p).level > 0))
    PROVE  LET T == unsetparam_pm(S, p)
           IN  /\ Sound(T, T.lv) /\ T.lv = S.lv /\ T.err = S.err
               /\ Clear(T, D, X)
               /\ There(S, p) => Quiet(T, Spot(S, p))
<1> DEFINE n == p[1]
           i == p[2]
           t == S.tab[n]
           T == unsetparam_pm(S, <<n, i>>)
<1>1. /\ p = <<n, i>> /\ n \in Names /\ i \in Nat \ {0} /\ S \in State /\ Len(t) \in Nat
      /\ (There(S, p) <=> i <= Len(t)) /\ At(S, p) = t[i] /\ Spot(S, p) = <<n, t[i].level>>
  BY StateFacts DEF Sound, There, At, Spot
<1> HIDE DEF n, i
<1>2. /\ Step(S, T, S.lv)
      /\ \A m \in Names \ {n} : T.tab[m] = S.tab[m]
      /\ IF Stays1(S, t[i]) THEN Kept(S, T, n, i) ELSE Uncovered(S, T, n, i)
  BY <1>1, unsetparam_pmIs
<1>3. /\ T.err = S.err
      /\ Stays1(S, S.tab[n][i]) => T.refs = S.refs
      /\ ~Stays1(S, S.tab[n][i]) =>
            \A K : (\A j \in 1..i : S.tab[n][j].level \notin K) /\ i <= Len(S.tab[n])
                     => Lists(S, T, n, K)
      /\ Lists(S, T, n, {})
  BY <1>1, unsetparamRest
<1>4. Sound(T, T.lv) /\ T.lv = S.lv /\ T.err = S.err
  BY <1>2, <1>3 DEF Step
<1>5. unsetparam_pm(S, p) = T
  BY <1>1
<1> HIDE DEF T
<1>6. CASE ~There(S, p)
  <2>1. i = 1 /\ Len(t) = 0
    BY <1>1, <1>6 DEF i
  <2>2. Empty(T, n) /\ Empty(S, n)
    BY <1>2, <2>1 DEF Kept, Uncovered, Empty
  <2>3. \A v : ~Has(S, n, v)
    BY <1>1, <2>2, HasIs
  <2>4. Clear(T, D, X)
    BY <1>1, <1>2, <1>3, <1>4, <2>2, <2>3, EmptiedClear
  <2> QED
    BY <1>4, <1>5, <1>6, <2>4
<1>7. CASE There(S, p) /\ Stays1(S, t[i])
  <2>1. i \in 1..Len(t)
    BY <1>1, <1>7
  <2>2. \A k \in 1..Len(t) : t[k] \in Cell /\ CellOK(n, t[k])
    BY <1>1 DEF Sound, Chain
  <2>3. /\ Len(T.tab[n]) = Len(t)
        /\ \A k \in 1..Len(t) : T.tab[n][k] = IF k = i THEN Bare(t[k]) ELSE t[k]
    BY <1>2, <1>7 DEF Kept
  <2>4. /\ Bare(t[i]).level = t[i].level /\ ~Bare(t[i]).set /\ ~Bare(t[i]).declared
    <3>1. /\ Unset1(t[i]) \in Cell /\ CellOK(n, Unset1(t[i])) /\ ~Unset1(t[i]).set
          /\ ~Unset1(t[i]).declared /\ Unset1(t[i]).level = t[i].level
      <4> HIDE DEF t
      <4> QED
        BY <2>1, <2>2, Unset1Is
    <3> QED
      BY <3>1 DEF Bare, Out, Cell
  <2> HIDE DEF t
  <2>5. ASSUME NEW m \in Names
        PROVE  /\ Len(T.tab[m]) = Len(S.tab[m])
               /\ \A k \in 1..Len(S.tab[m]) :
                     /\ T.tab[m][k].level = S.tab[m][k].level
                     /\ <<m, k>> # p => T.tab[m][k] = S.tab[m][k]
    <3>1. CASE m = n
      <4>1. \A k \in 1..Len(t) : /\ T.tab[n][k].level = t[k].level
                                 /\ k # i => T.tab[n][k] = t[k]
        BY <2>3, <2>4
      <4> QED
        BY <1>1, <2>3, <3>1, <4>1 DEF t
    <3>2. CASE m # n
      BY <1>2, <3>2
    <3> QED
      BY <3>1, <3>2
  <2>6. Alters(S, T, p)
    BY <1>3, <1>4, <1>7, <2>5 DEF Alters, Rest, t
  <2>7. At(T, p) = Bare(t[i])
    BY <1>1, <2>1, <2>3 DEF At
  <2>8. ~IsRef(At(T, p)) /\ Blank0(At(T, p))
    BY <2>4, <2>7 DEF IsRef, Blank0
  <2>9. Clear(T, D, X \cup {})
    BY <1>4, <1>7, <2>6, <2>8, AltersClear
  <2>10. Quiet(T, Spot(S, p))
    <3>1. SUFFICES ASSUME NEW q, There(T, q), Spot(T, q) = Spot(S, p) PROVE ~IsRef(At(T, q))
      BY DEF Quiet
    <3>2. There(S, q) /\ Spot(S, q) = Spot(S, p)
      BY <2>6, <3>1, AltersLevels
    <3>3. q = p
      BY <1>7, <3>2, SpotsDiffer
    <3> QED
      BY <2>8, <3>3
  <2>11. X \cup {} = X
    OBVIOUS
  <2> QED
    BY <1>4, <1>5, <2>9, <2>10, <2>11
<1>8. CASE There(S, p) /\ ~Stays1(S, t[i])
  <2>1. i \in 1..Len(t) /\ n \in Names
    BY <1>1, <1>8
  <2>2. \A k \in 1..Len(t) : t[k].level \in Nat /\ t[k].level <= S.lv
    <3>1. \A k \in 1..Len(t) : t[k] \in Cell /\ t[k].level <= S.lv
      BY <1>1 DEF Sound, Chain
    <3> QED
      BY <3>1, MaxLevelType DEF Cell
  <2>3. t[i].level = 0
    <3>1. S.lv \in Nat
      BY <1>1, MaxLevelType DEF State
    <3> QED
      BY <1>8, <2>1, <2>2, <3>1 DEF Stays1
  <2>4. Len(t) = i
    <3>1. ASSUME i < Len(t) PROVE FALSE
      <4>1. Len(t) \in 1..Len(t)
        BY <1>1, <3>1
      <4>2. t[Len(t)].level < t[i].level
        BY <2>1, <3>1, <4>1, LevelsFall
      <4> QED
        BY <2>2, <2>3, <4>1, <4>2
    <3> QED
      BY <1>1, <2>1, <3>1
  <2>5. Empty(T, n)
    BY <1>2, <1>8, <2>4, <1>1 DEF Uncovered, Empty
  <2>6. S.err \/ \A v : Has(S, n, v) => v = 0
    <3>1. CASE S.err
      BY <3>1
    <3>2. CASE ~S.err
      <4>1. i = 1
        BY <1>1, <1>8, <2>3, <3>2 DEF i
      <4> QED
        BY <2>3, <2>4, <4>1 DEF Has
    <3> QED
      BY <3>1, <3>2
  <2>7. Clear(T, D, X)
    BY <1>1, <1>2, <1>3, <1>4, <2>5, <2>6, EmptiedClear
  <2>8. Quiet(T, Spot(S, p))
    <3>1. SUFFICES ASSUME NEW q, There(T, q), Spot(T, q) = Spot(S, p) PROVE FALSE
      BY DEF Quiet
    <3>2. q[1] = n /\ q[2] \in Nat \ {0} /\ q[2] <= Len(T.tab[n])
      BY <1>1, <3>1 DEF Spot, There
    <3> QED
      BY <2>5, <3>2 DEF Empty
  <2> QED
    BY <1>4, <1>5, <2>7, <2>8
<1> QED
  BY <1>6, <1>7, <1>8

-----------------------------------------------------------------------------
(* Where chains of references lead.                                        *)

\* upscope() finds the struct of the level that a reference has as its base.
LEMMA upscopeLevel ==
    ASSUME NEW l, NEW S, Sound(S, l), NEW m \in Names, ~Empty(S, m), NEW base \in Nat,
           base = 0 \/ Has(S, m, base)
    PROVE  At(S, upscope(S, m, base)).level = IF base = 0 THEN Lowest(S, m) ELSE base
<1> DEFINE t == S.tab[m]
           n == Len(t)
           I == {1} \cup {i \in 2..n : \A k \in 2..i : t[k].level >= base}
           g == Greatest(I)
<1>1. n \in Nat /\ n >= 1 /\ \A j \in 1..n : t[j].level \in Nat
  <2>1. n \in Nat /\ \A j \in 1..n : t[j] \in Cell
    BY StateFacts DEF Sound
  <2>2. \A j \in 1..n : t[j].level \in Nat
    BY <2>1, MaxLevelType DEF Cell
  <2> QED
    BY <2>1, <2>2 DEF Empty
<1>2. upscope(S, m, base) = <<m, g>>
  BY DEF upscope
<1>3. \A i, k \in 1..n : i < k => t[k].level < t[i].level
  BY LevelsFall
<1> HIDE DEF t, n
<1>4. I \in SUBSET (0..n) /\ I # {} /\ I \subseteq 1..n
  BY <1>1
<1>5. g \in I /\ \A k \in I : k <= g
  BY <1>1, <1>4, GreatestIs
<1> HIDE DEF g
<1>6. g \in 1..n /\ At(S, upscope(S, m, base)) = t[g]
  BY <1>2, <1>4, <1>5 DEF At, t
<1>7. ASSUME NEW j \in 1..n, \A k \in 1..n : k <= j => t[k].level >= base PROVE j <= g
  <2>1. j \in I
    BY <1>1, <1>7
  <2> QED
    BY <1>5, <2>1
<1>8. CASE base = 0
  <2>1. n \in 1..n /\ \A k \in 1..n : t[k].level >= base
    BY <1>1, <1>8
  <2>2. g = n
    BY <1>1, <1>6, <1>7, <2>1
  <2> QED
    BY <1>6, <1>8, <2>2 DEF Lowest, t, n
<1>9. CASE base # 0
  <2>1. PICK j \in 1..n : t[j].level = base
    BY <1>9 DEF Has, t, n
  <2>2. \A k \in 1..n : k <= j => t[k].level >= base
    <3>1. SUFFICES ASSUME NEW k \in 1..n, k <= j PROVE t[k].level >= base
      OBVIOUS
    <3>2. k < j \/ k = j
      BY <3>1
    <3>3. t[k].level \in Nat /\ (k < j => t[j].level < t[k].level)
      BY <1>1, <1>3
    <3> QED
      BY <2>1, <3>2, <3>3
  <2>3. j <= g
    BY <1>7, <2>2
  <2>4. ~(j < g)
    <3>1. SUFFICES ASSUME j < g PROVE FALSE
      OBVIOUS
    <3>2. t[g].level < base /\ t[g].level \in Nat
      BY <1>1, <1>3, <1>6, <2>1, <3>1
    <3>3. g # 1 /\ g \in 2..g
      BY <1>1, <1>6, <3>1
    <3>4. t[g].level >= base
      BY <1>5, <3>3
    <3> QED
      BY <3>2, <3>4
  <2>5. g = j
    BY <1>6, <2>3, <2>4
  <2> QED
    BY <1>6, <1>9, <2>1, <2>5
<1> QED
  BY <1>8, <1>9

LEMMA ReferredSpot ==
    ASSUME NEW l, NEW S, Sound(S, l), NEW p, There(S, p), IsRef(At(S, p)),
           NEW m, NEW b, At(S, p).str = m, At(S, p).base = b, ~Empty(S, m), b = 0 \/ Has(S, m, b)
    PROVE  /\ Referred(S, p) # None /\ There(S, Referred(S, p))
           /\ Spot(S, Referred(S, p)) = <<m, IF b = 0 THEN Lowest(S, m) ELSE b>>
<1>1. m \in Names /\ b \in Nat
  BY LinkedIs
<1>2. S.tab[m] # <<>>
  BY DEF Empty
<1>3. Referred(S, p) = upscope(S, m, b)
  BY <1>2 DEF Referred
<1>4. There(S, Referred(S, p)) /\ Referred(S, p) # None
  BY <1>1, <1>2, <1>3, upscopeIs, ThereSome DEF Sound
<1>5. At(S, upscope(S, m, b)).level = IF b = 0 THEN Lowest(S, m) ELSE b
  BY <1>1, upscopeLevel
<1>6. upscope(S, m, b)[1] = m
  BY DEF upscope
<1> QED
  BY <1>3, <1>4, <1>5, <1>6 DEF Spot

\* Places of references that lead to each other only, and not to stop.
Trap(S, K, stop) ==
    /\ K # {}
    /\ \A q \in K : /\ There(S, q) /\ IsRef(At(S, q))
                    /\ Referred(S, q) \in K /\ Referred(S, q) # stop

\* Where a chain of references that stays in Q leads.
Comes(S, Q, stop, keep, r) ==
    \/ \E K : Trap(S, K, stop) /\ K \subseteq Q
    \/ keep /\ r # None
    \/ ~keep /\ r # None /\ r = stop
    \/ ~keep /\ \E q \in Q : ~IsRef(At(S, q)) \/ Referred(S, q) = None

\* The places Q are closed.
Closed(S, Q) ==
    \A q \in Q : /\ There(S, q)
                 /\ IsRef(At(S, q)) /\ Referred(S, q) # None => Referred(S, q) \in Q

\* What has been passed by on the way.
Passed(S, Q, stop, w) ==
    /\ w.at \in Q /\ IsRef(At(S, w.at)) /\ w.tagged \subseteq Q
    /\ \A q \in w.tagged : /\ IsRef(At(S, q)) /\ Referred(S, q) # stop
                           /\ Referred(S, q) \in w.tagged \cup {w.at}

OnTheWay(S, Q, stop, keep, w) ==
    IF w.end THEN Comes(S, Q, stop, keep, w.at) ELSE Passed(S, Q, stop, w)

LEMMA WalkOnWay ==
    ASSUME NEW l, NEW S, Sound(S, l), NEW Q, Closed(S, Q), NEW stop, NEW keep \in BOOLEAN,
           NEW w \in Walks(S, stop, keep), OnTheWay(S, Q, stop, keep, w)
    PROVE  LET u == WalkOn(S, stop, keep, w)
           IN  /\ OnTheWay(S, Q, stop, keep, u)
               /\ ~u.end => ~w.end /\ w.at \notin w.tagged /\ u.tagged = w.tagged \cup {w.at}
<1> DEFINE t == Referred(S, w.at)
           u == WalkOn(S, stop, keep, w)
<1>1. CASE w.end
  <2>1. u = w
    BY <1>1 DEF WalkOn
  <2> QED
    BY <1>1, <2>1
<1>2. CASE ~w.end
  <2>1. /\ w.at \in Q /\ IsRef(At(S, w.at)) /\ w.tagged \subseteq Q
        /\ \A q \in w.tagged : /\ IsRef(At(S, q)) /\ Referred(S, q) # stop
                               /\ Referred(S, q) \in w.tagged \cup {w.at}
    BY <1>2 DEF OnTheWay, Passed
  <2>2. w \in [at : Places, tagged : SUBSET Places, end : BOOLEAN]
    BY DEF Walks
  <2>3. \A q \in Q : There(S, q) /\ q # None /\ q \in Places
    BY ThereSome DEF Closed, Places
  <2>4. \A a \in Places : /\ At1(w, a).at = a /\ At1(w, a).end
                          /\ On(w, a).at = a /\ On(w, a).end = w.end
                          /\ On(w, a).tagged = w.tagged \cup {w.at}
    BY <2>2, WalkFacts
  <2>5. None \in Places /\ w.at \in Places
    BY <2>2 DEF Places
  <2>6. u = IF w.at \in w.tagged THEN At1(w, None)
            ELSE IF t = None THEN At1(w, IF keep THEN w.at ELSE None)
            ELSE IF t = stop \/ ~IsRef(At(S, t)) THEN At1(w, t)
            ELSE On(w, t)
    BY <1>2 DEF WalkOn
  <2>7. t # None => t \in Q
    BY <2>1 DEF Closed
  <2> HIDE DEF t, u
  <2>8. CASE w.at \in w.tagged
    <3>1. Trap(S, w.tagged, stop)
      BY <2>1, <2>3, <2>8 DEF Trap
    <3>2. Comes(S, Q, stop, keep, None)
      BY <2>1, <3>1 DEF Comes
    <3>3. u.end /\ u.at = None
      BY <2>4, <2>5, <2>6, <2>8
    <3> QED
      BY <3>2, <3>3 DEF OnTheWay, u
  <2>9. CASE w.at \notin w.tagged /\ t = None
    <3> DEFINE a == IF keep THEN w.at ELSE None
    <3>1. a \in Places /\ u = At1(w, a)
      BY <2>5, <2>6, <2>9
    <3>2. Comes(S, Q, stop, keep, a)
      <4>1. CASE keep
        BY <2>1, <2>3, <4>1 DEF Comes
      <4>2. CASE ~keep
        BY <2>1, <2>9, <4>2 DEF Comes, t
      <4> QED
        BY <4>1, <4>2
    <3> HIDE DEF a
    <3>3. u.end /\ u.at = a
      BY <2>4, <3>1
    <3> QED
      BY <3>2, <3>3 DEF OnTheWay, u
  <2>10. CASE w.at \notin w.tagged /\ t # None /\ (t = stop \/ ~IsRef(At(S, t)))
    <3>1. t \in Q /\ u = At1(w, t)
      BY <2>6, <2>7, <2>10
    <3>2. Comes(S, Q, stop, keep, t)
      <4>1. CASE keep
        BY <2>10, <4>1 DEF Comes
      <4>2. CASE ~keep /\ t = stop
        BY <2>10, <4>2 DEF Comes
      <4>3. CASE ~keep /\ ~IsRef(At(S, t))
        BY <3>1, <4>3 DEF Comes
      <4> QED
        BY <2>10, <4>1, <4>2, <4>3
    <3>3. u.end /\ u.at = t
      BY <2>3, <2>4, <3>1
    <3> QED
      BY <3>2, <3>3 DEF OnTheWay, u
  <2>11. CASE w.at \notin w.tagged /\ t # None /\ ~(t = stop \/ ~IsRef(At(S, t)))
    <3>1. t \in Q /\ u = On(w, t)
      BY <2>6, <2>7, <2>11
    <3>2. u.at = t /\ u.end = w.end /\ u.tagged = w.tagged \cup {w.at}
      BY <2>3, <2>4, <3>1
    <3>3. Passed(S, Q, stop, u)
      BY <2>1, <2>11, <3>1, <3>2 DEF Passed, t
    <3> QED
      BY <1>2, <2>11, <3>2, <3>3 DEF OnTheWay, u
  <2> QED
    BY <2>8, <2>9, <2>10, <2>11
<1> QED
  BY <1>1, <1>2

\* As its levels fall, a name has not more structs than there are levels.
LEMMA LengthIs ==
    ASSUME NEW l, NEW S, Sound(S, l), NEW n \in Names
    PROVE  Len(S.tab[n]) \in Nat /\ Len(S.tab[n]) <= MaxLevel + 1
<1> DEFINE t == S.tab[n]
           J == {d \in Nat : d + 1 <= Len(t) => t[d + 1].level + d <= MaxLevel}
<1>1. /\ Len(t) \in Nat /\ MaxLevel \in Nat
      /\ \A j \in 1..Len(t) : t[j].level \in Nat /\ t[j].level <= MaxLevel
  <2>1. Len(t) \in Nat /\ \A j \in 1..Len(t) : t[j] \in Cell
    BY StateFacts DEF Sound
  <2>2. \A j \in 1..Len(t) : t[j].level \in Nat /\ t[j].level <= MaxLevel
    BY <2>1, MaxLevelType DEF Cell
  <2> QED
    BY <2>1, <2>2, MaxLevelType
<1>2. \A j \in 1..Len(t) : j > 1 => t[j].level < t[j - 1].level
  BY DEF Sound, Chain
<1> HIDE DEF t
<1>3. 0 \in J
  BY <1>1
<1>4. \A d \in Nat : d \in J => d + 1 \in J
  <2>1. SUFFICES ASSUME NEW d \in Nat, d \in J, (d + 1) + 1 <= Len(t)
                 PROVE  t[(d + 1) + 1].level + (d + 1) <= MaxLevel
    OBVIOUS
  <2> DEFINE j == (d + 1) + 1
  <2>2. j \in 1..Len(t) /\ j > 1 /\ j - 1 = d + 1 /\ d + 1 \in 1..Len(t)
    BY <1>1, <2>1
  <2>3. t[d + 1].level + d <= MaxLevel
    BY <2>1, <2>2
  <2>4. t[j].level < t[d + 1].level
    BY <1>2, <2>2
  <2>5. t[j].level \in Nat /\ t[d + 1].level \in Nat
    BY <1>1, <2>2
  <2> HIDE DEF j
  <2>6. t[j].level + (d + 1) <= MaxLevel
    BY <1>1, <2>3, <2>4, <2>5
  <2> QED
    BY <2>6 DEF j
<1> HIDE DEF J
<1>5. \A d \in Nat : d \in J
  BY <1>3, <1>4, Induction
<1>6. CASE Len(t) = 0
  BY <1>1, <1>6 DEF t
<1>7. CASE Len(t) # 0
  <2>1. Len(t) - 1 \in Nat /\ (Len(t) - 1) + 1 = Len(t) /\ Len(t) \in 1..Len(t)
    BY <1>1, <1>7
  <2>2. t[Len(t)].level + (Len(t) - 1) <= MaxLevel
    <3>1. Len(t) - 1 \in J
      BY <1>5, <2>1
    <3> QED
      BY <2>1, <3>1 DEF J
  <2>3. t[Len(t)].level \in Nat
    BY <1>1, <2>1
  <2>4. Len(t) <= MaxLevel + 1
    BY <1>1, <2>2, <2>3
  <2> QED
    BY <1>1, <2>4 DEF t
<1> QED
  BY <1>6, <1>7

Bounded == Names \X (1..MaxLevel + 1)

LEMMA BoundedIs ==
    /\ IsFiniteSet(Bounded)
    /\ Cardinality(Bounded) \in Nat
    /\ Steps = Cardinality(Bounded) + 1
<1>1. IsFiniteSet(Names) /\ MaxLevel + 1 \in Nat
  <2>1. IsFiniteSet(Names)
    BY ParamsAssumption, Zenon
  <2> QED
    BY <2>1, MaxLevelType
<1> DEFINE b == MaxLevel + 1
<1> HIDE DEF b
<1>2. b \in Nat
  BY <1>1 DEF b
<1>3. IsFiniteSet(1..b) /\ Cardinality(1..b) = b
  <2>1. 1 \in Int /\ b \in Int
    BY <1>2
  <2>2. IsFiniteSet(1..b) /\ Cardinality(1..b) = IF 1 > b THEN 0 ELSE b - 1 + 1
    BY <2>1, FS_Interval
  <2> QED
    BY <1>2, <2>2
<1>4. IsFiniteSet(Names \X (1..b)) /\ Cardinality(Names \X (1..b)) = Cardinality(Names) * Cardinality(1..b)
  BY <1>1, <1>3, FS_Product
<1>5. Cardinality(Names \X (1..b)) \in Nat
  BY <1>4, FS_CardinalityType
<1> QED
  BY <1>3, <1>4, <1>5 DEF Steps, Bounded, b

LEMMA ThereBounded ==
    ASSUME NEW l, NEW S, Sound(S, l), NEW p, There(S, p)
    PROVE  p \in Bounded
<1>1. p = <<p[1], p[2]>> /\ p[1] \in Names /\ p[2] \in 1..Len(S.tab[p[1]])
  BY ThereIs DEF Sound
<1>2. Len(S.tab[p[1]]) \in Nat /\ Len(S.tab[p[1]]) <= MaxLevel + 1
  BY <1>1, LengthIs
<1>3. p[2] \in 1..MaxLevel + 1
  BY <1>1, <1>2, MaxLevelType
<1> QED
  BY <1>1, <1>3 DEF Bounded

LEMMA WalkTraps ==
    ASSUME NEW l, NEW S, Sound(S, l), NEW Q, Closed(S, Q), NEW p \in Q, IsRef(At(S, p)),
           NEW stop, NEW keep \in BOOLEAN
    PROVE  Comes(S, Q, stop, keep, Resolve(S, p, stop, keep))
<1>1. There(S, p)
  BY DEF Closed
<1>2. PICK f : Walk(f, S, p, stop, keep)
  BY <1>1, WalkExists
<1>3. /\ f[0] = Start(S, p)
      /\ \A i \in 1..Steps : f[i] = WalkOn(S, stop, keep, f[i - 1])
      /\ \A i \in 0..Steps : f[i] \in Walks(S, stop, keep)
      /\ Resolve(S, p, stop, keep) = IF f[Steps].end THEN f[Steps].at ELSE None
  BY <1>2 DEF Walk
<1>4. Steps \in Nat
  BY StepsType
<1> DEFINE Good(i) == /\ OnTheWay(S, Q, stop, keep, f[i])
                      /\ ~f[i].end => IsFiniteSet(f[i].tagged) /\ Cardinality(f[i].tagged) = i
           I == {i \in Nat : i <= Steps => Good(i)}
<1>5. Good(0)
  <2>1. f[0].at = p /\ f[0].tagged = {} /\ ~f[0].end
    <3>1. Start(S, p).at = p /\ Start(S, p).tagged = {} /\ Start(S, p).end = ~IsRef(At(S, p))
      BY Zenon DEF Start
    <3> QED
      BY <1>3, <3>1
  <2>2. Passed(S, Q, stop, f[0])
    BY <2>1 DEF Passed
  <2> QED
    BY <2>1, <2>2, FS_EmptySet DEF OnTheWay
<1>6. ASSUME NEW i \in Nat, i + 1 <= Steps, Good(i) PROVE Good(i + 1)
  <2> DEFINE w == f[i]
             u == f[i + 1]
  <2>1. i + 1 \in 1..Steps /\ i \in 0..Steps /\ (i + 1) - 1 = i
    BY <1>4, <1>6
  <2>2. u = WalkOn(S, stop, keep, w) /\ w \in Walks(S, stop, keep)
    BY <1>3, <2>1
  <2>3. OnTheWay(S, Q, stop, keep, w)
    BY <1>6
  <2>4. ~w.end => IsFiniteSet(w.tagged) /\ Cardinality(w.tagged) = i
    BY <1>6
  <2> HIDE DEF w, u
  <2>5. /\ OnTheWay(S, Q, stop, keep, u)
        /\ ~u.end => ~w.end /\ w.at \notin w.tagged /\ u.tagged = w.tagged \cup {w.at}
    BY <2>2, <2>3, WalkOnWay
  <2>6. ~u.end => IsFiniteSet(u.tagged) /\ Cardinality(u.tagged) = i + 1
    <3>1. SUFFICES ASSUME ~u.end PROVE IsFiniteSet(u.tagged) /\ Cardinality(u.tagged) = i + 1
      OBVIOUS
    <3> DEFINE A == w.tagged
               x == w.at
    <3>2. IsFiniteSet(A) /\ Cardinality(A) = i /\ x \notin A /\ u.tagged = A \cup {x}
      BY <2>4, <2>5, <3>1
    <3> HIDE DEF A, x
    <3>3. /\ IsFiniteSet(A \cup {x})
          /\ Cardinality(A \cup {x}) = IF x \in A THEN Cardinality(A) ELSE Cardinality(A) + 1
      BY <3>2, FS_AddElement
    <3> QED
      BY <3>2, <3>3
  <2> QED
    BY <2>5, <2>6 DEF u
<1> HIDE DEF Good
<1>7. 0 \in I /\ \A i \in Nat : i \in I => i + 1 \in I
  <2>1. \A i \in Nat : i + 1 <= Steps => i <= Steps
    BY <1>4
  <2> QED
    BY <1>5, <1>6, <2>1
<1> HIDE DEF I
<1>8. \A i \in Nat : i \in I
  BY <1>7, Induction
<1>9. Good(Steps)
  BY <1>4, <1>8 DEF I
<1>10. CASE f[Steps].end
  BY <1>3, <1>9, <1>10 DEF Good, OnTheWay
<1>11. CASE ~f[Steps].end
  <2>1. IsFiniteSet(f[Steps].tagged) /\ Cardinality(f[Steps].tagged) = Steps
    BY <1>9, <1>11 DEF Good
  <2>2. f[Steps].tagged \subseteq Q
    BY <1>9, <1>11 DEF Good, OnTheWay, Passed
  <2>3. f[Steps].tagged \in SUBSET Bounded
    BY <2>2, ThereBounded DEF Closed
  <2>4. Cardinality(f[Steps].tagged) <= Cardinality(Bounded)
    BY <2>3, BoundedIs, FS_Subset
  <2> QED
    BY <1>4, <2>1, <2>4, BoundedIs
<1> QED
  BY <1>10, <1>11

\* No reference leads in a circle.
LEMMA ClearResolves ==
    ASSUME NEW S, Sound(S, S.lv), Clear(S, {}, {}), NEW p, There(S, p), IsRef(At(S, p))
    PROVE  Resolve(S, p, None, TRUE) # None
<1> DEFINE Q == {q \in Bounded : There(S, q)}
<1>1. Closed(S, Q)
  <2>1. SUFFICES ASSUME NEW q \in Q, IsRef(At(S, q)), Referred(S, q) # None
                 PROVE  Referred(S, q) \in Q
    BY DEF Closed
  <2>2. There(S, q)
    BY <2>1
  <2> HIDE DEF Q
  <2>3. IF S.tab[At(S, q).str] = <<>> THEN Referred(S, q) = None ELSE There(S, Referred(S, q))
    BY <2>1, <2>2, ReferredIs
  <2>4. There(S, Referred(S, q))
    BY <2>1, <2>3
  <2> QED
    BY <2>4, ThereBounded DEF Q
<1>2. p \in Q
  BY ThereBounded
<1> HIDE DEF Q
<1>3. Comes(S, Q, None, TRUE, Resolve(S, p, None, TRUE))
  BY <1>1, <1>2, WalkTraps
<1>4. SUFFICES ASSUME NEW K, Trap(S, K, None) PROVE FALSE
  BY <1>3 DEF Comes
<1> DEFINE C == {Spot(S, q) : q \in K}
<1>5. ASSUME NEW x \in C
      PROVE  \E m, b : /\ Linked(S, x, m, b)
                       /\ b <= S.lv /\ ~Empty(S, m)
                       /\ <<m, IF b = 0 THEN Lowest(S, m) ELSE b>> \in C
  <2>1. PICK q \in K : x = Spot(S, q)
    BY <1>5
  <2> DEFINE m == At(S, q).str
             b == At(S, q).base
             r == Referred(S, q)
  <2>2. There(S, q) /\ IsRef(At(S, q)) /\ r \in K /\ r # None
    BY <1>4 DEF Trap
  <2>3. There(S, r) /\ IsRef(At(S, r))
    BY <1>4, <2>2 DEF Trap
  <2>4. m \in Names /\ b \in Nat
    BY <2>2, LinkedIs
  <2>5. ~Empty(S, m)
    <3>1. S.tab[m] # <<>>
      BY <2>2 DEF Referred
    <3>2. S.tab[m] \in Seq(Cell)
      BY <2>4, StateFacts DEF Sound
    <3> QED
      BY <3>1, <3>2 DEF Empty
  <2>6. r[1] = m
    BY <2>2 DEF Referred, upscope
  <2>7. m \in Refs
    BY <2>3, <2>6, LinkedIs
  <2>8. Rooted(S, q[1], At(S, q))
    BY <2>2 DEF Clear, IsRef
  <2>9. b <= S.lv /\ (b = 0 \/ Has(S, m, b))
    BY <2>4, <2>5, <2>7, <2>8 DEF Rooted
  <2>10. Spot(S, r) = <<m, IF b = 0 THEN Lowest(S, m) ELSE b>>
    BY <2>2, <2>5, <2>9, ReferredSpot
  <2>11. Linked(S, x, m, b)
    BY <2>1, <2>2 DEF Linked
  <2> QED
    BY <2>2, <2>5, <2>9, <2>10, <2>11
<1>6. C # {}
  BY <1>4 DEF Trap
<1>7. Circle(S, C)
  BY <1>5, <1>6 DEF Circle
<1> QED
  BY <1>7 DEF Clear

-----------------------------------------------------------------------------
(* The base of a reference is set.                                         *)

\* What is listed stays so.
LEMMA TabSameClear ==
    ASSUME NEW S, Sound(S, S.lv), NEW T, Sound(T, T.lv), T.lv = S.lv, NEW D, NEW X, Clear(S, D, X),
           T.tab = S.tab, S.err => T.err,
           \A b \in 1..MaxLevel : \A e : Listed(S, b, e) => Listed(T, b, e)
    PROVE  Clear(T, D, X)
<1>1. Refs \subseteq Names
  BY ConstantsType
<1>2. \A m \in Names : Empty(S, m) => \A v : ~Has(S, m, v)
  BY HasIs
<1>3. \A m : /\ Empty(T, m) <=> Empty(S, m)
             /\ Lowest(T, m) = Lowest(S, m)
             /\ \A v : Has(T, m, v) <=> Has(S, m, v)
  BY DEF Empty, Lowest, Has
<1>4. \A q : /\ There(T, q) <=> There(S, q)
             /\ At(T, q) = At(S, q) /\ Spot(T, q) = Spot(S, q)
  BY DEF There, At, Spot
<1>5. ASSUME NEW m \in Refs
      PROVE  /\ ~Empty(T, m) /\ ~Empty(S, m) =>
                  Lowest(T, m) = Lowest(S, m) /\ \A v : Has(S, m, v) => Has(T, m, v)
             /\ Empty(T, m) => T.err \/ \A v : Has(S, m, v) => v = 0
             /\ S.err /\ Empty(S, m) => Empty(T, m)
  BY <1>1, <1>2, <1>3
<1>6. ASSUME NEW q, There(T, q), At(T, q).ref
      PROVE  /\ Blank0(At(T, q))
             /\ IsRef(At(T, q)) /\ Spot(T, q) \notin {} =>
                   \E o : /\ There(S, o) /\ IsRef(At(S, o)) /\ Spot(S, o) = Spot(T, q)
                          /\ At(S, o).str = At(T, q).str /\ At(S, o).base = At(T, q).base
  <2>1. There(S, q) /\ At(T, q) = At(S, q) /\ Spot(T, q) = Spot(S, q)
    BY <1>4, <1>6
  <2>2. Blank0(At(S, q))
    BY <1>6, <2>1 DEF Clear
  <2> QED
    BY <2>1, <2>2
<1>7. Carries(S, T, {})
  BY <1>5, <1>6 DEF Carries
<1> QED
  BY <1>7, Carry

LEMMA zerrClear ==
    ASSUME NEW S, Sound(S, S.lv), NEW D, NEW X, Clear(S, D, X)
    PROVE  LET T == zerr(S)
           IN  Sound(T, T.lv) /\ T.lv = S.lv /\ T.tab = S.tab /\ T.err /\ Clear(T, D, X)
<1>1. S \in State
  BY DEF Sound
<1> DEFINE T == zerr(S)
<1>2. T.err /\ T.refs = S.refs
  BY <1>1 DEF zerr, State
<1>3. Step(S, T, S.lv) /\ T.tab = S.tab
  BY zerrSound
<1> HIDE DEF T
<1>4. Sound(T, T.lv) /\ T.lv = S.lv
  BY <1>3 DEF Step
<1>5. Clear(T, D, X)
  BY <1>2, <1>3, <1>4, TabSameClear DEF Listed
<1> QED
  BY <1>2, <1>3, <1>4, <1>5 DEF T

\* The list of one scope changes.
LEMMA ListedMore ==
    ASSUME NEW T \in State, NEW base \in 1..MaxLevel, NEW e \in Entry
    PROVE  LET U == [T EXCEPT !.refs[base] = <<e>> \o Without(@, {e})]
           IN  /\ U.tab = T.tab /\ U.err = T.err /\ Listed(U, base, e)
               /\ \A b \in 1..MaxLevel : \A x : Listed(T, b, x) => Listed(U, b, x)
<1> DEFINE r == Without(T.refs[base], {e})
           q == <<e>> \o r
           U == [T EXCEPT !.refs[base] = <<e>> \o Without(@, {e})]
<1>1. T.refs \in [1..MaxLevel -> Seq(Entry)] /\ T.refs[base] \in Seq(Entry)
  BY DEF State
<1>2. r \in Seq(Entry)
  BY <1>1, WithoutIs
<1>3. U.tab = T.tab /\ U.err = T.err /\ U.refs = [T.refs EXCEPT ![base] = q]
  BY DEF State
<1>4. \A x : x # e /\ Among(T.refs[base], x) => Among(r, x)
  BY <1>1, WithoutKeeps
<1> HIDE DEF r, U
<1>5. /\ Len(q) = 1 + Len(r) /\ Len(r) \in Nat /\ q[1] = e
      /\ \A j \in 1..Len(r) : q[j + 1] = r[j]
  BY <1>2
<1>6. 1 \in 1..Len(q) /\ \A j \in 1..Len(r) : j + 1 \in 1..Len(q)
  BY <1>5
<1> HIDE DEF q
<1>7. Among(q, e) /\ \A x : Among(r, x) => Among(q, x)
  BY <1>5, <1>6 DEF Among
<1>8. U.refs[base] = q /\ \A b \in 1..MaxLevel : b # base => U.refs[b] = T.refs[b]
  BY <1>1, <1>3
<1>9. Listed(U, base, e)
  BY <1>7, <1>8 DEF Listed, Among
<1>10. ASSUME NEW b \in 1..MaxLevel, NEW x, Listed(T, b, x) PROVE Listed(U, b, x)
  <2>1. CASE b = base
    <3>1. Among(T.refs[base], x)
      BY <1>10, <2>1 DEF Listed, Among
    <3>2. Among(q, x)
      BY <1>4, <1>7, <3>1
    <3> QED
      BY <1>8, <2>1, <3>2 DEF Listed, Among
  <2>2. CASE b # base
    BY <1>8, <1>10, <2>2 DEF Listed
  <2> QED
    BY <2>1, <2>2
<1> QED
  BY <1>3, <1>9, <1>10 DEF U

\* setscope_base() of the struct p: what it leads to is left to setscope().
LEMMA setscope_baseClear ==
    ASSUME NEW S, Sound(S, S.lv), NEW p, There(S, p), NEW base \in 0..MaxLevel, NEW D,
           Clear(S, D, {Spot(S, p)}), IsRef(At(S, p))
    PROVE  LET T == setscope_base(S, p, base)
           IN  /\ Sound(T, T.lv) /\ T.lv = S.lv /\ Clear(T, D, {Spot(S, p)})
               /\ There(T, p) /\ Spot(T, p) = Spot(S, p) /\ IsRef(At(T, p))
               /\ At(T, p).str = At(S, p).str /\ At(T, p).base = base
               /\ At(T, p).level = At(S, p).level
               /\ \A m \in Names : \A v : Has(T, m, v) <=> Has(S, m, v)
               /\ base > At(S, p).level => Listed(T, base, Node(p[1], At(S, p).level))
<1> DEFINE s == At(S, p)
           e == [n |-> p[1], level |-> s.level]
           c == WithBase(s, base)
           T == Put(S, p, c)
           U == [T EXCEPT !.refs[base] = <<e>> \o Without(@, {e})]
           R == setscope_base(S, p, base)
<1>1. p[1] \in Names /\ s \in Cell /\ S \in State
  BY ThereIs DEF Sound
<1>2. R = IF base > s.level THEN U ELSE T
  BY DEF setscope_base, WithBase
<1>3. /\ c \in Cell /\ c.level = s.level /\ c.base = base /\ c.str = s.str
      /\ c.set = s.set /\ c.ref = s.ref
  <2> HIDE DEF s
  <2> QED
    BY <1>1 DEF WithBase, Cell
<1>4. e \in Entry /\ e = Node(p[1], s.level)
  BY <1>1 DEF Entry, Cell, Node
<1>5. Step(S, R, S.lv)
  BY setscope_baseIs
<1> HIDE DEF c, R, e
<1>6. Alters(S, T, p) /\ At(T, p) = c
  BY <1>3, PutAlters DEF s
<1> HIDE DEF T
<1>7. /\ There(T, p) /\ Spot(T, p) = Spot(S, p)
      /\ \A m \in Names : \A v : Has(T, m, v) <=> Has(S, m, v)
  BY <1>6, AltersLevels
<1>8. IsRef(c)
  BY <1>3 DEF IsRef, s
<1>9. T.lv = S.lv
  BY <1>6 DEF Alters
<1>10. Sound(T, T.lv)
  <2>1. CellOK(p[1], s)
    <3>1. s = S.tab[p[1]][p[2]] /\ p[2] \in 1..Len(S.tab[p[1]])
      BY ThereIs DEF Sound
    <3> QED
      BY <1>1, <3>1 DEF Sound, Chain
  <2>2. CellOK(p[1], c)
    BY <1>3, <2>1 DEF CellOK
  <2>3. Step(S, Put(S, p, c), S.lv)
    BY <1>3, <2>2, PutStep DEF s
  <2> QED
    BY <1>9, <2>3 DEF Step, T
<1>11. Clear(T, D, {Spot(S, p)})
  <2>1. Clear(T, D, {Spot(S, p)} \cup {Spot(S, p)})
    <3>1. At(T, p).ref => Blank0(At(T, p))
      BY <1>6, <1>8 DEF Blank0
    <3>2. Spot(T, p) \in {Spot(S, p)}
      BY <1>7
    <3> QED
      BY <1>6, <1>10, <3>1, <3>2, AltersClear
  <2> QED
    BY <2>1
<1>12. CASE base > s.level
  <2>1. base \in 1..MaxLevel
    <3>1. s.level \in 0..MaxLevel
      BY <1>1, CellIs
    <3> QED
      BY <1>12, <3>1, MaxLevelType
  <2>2. T \in State
    BY <1>10 DEF Sound
  <2>3. /\ U.tab = T.tab /\ U.err = T.err /\ Listed(U, base, e)
        /\ \A b \in 1..MaxLevel : \A x : Listed(T, b, x) => Listed(U, b, x)
    <3> HIDE DEF T, e
    <3>1. e \in Entry
      BY <1>4
    <3> QED
      BY <2>1, <2>2, <3>1, ListedMore, Zenon
  <2>4. R = U
    BY <1>2, <1>12
  <2> HIDE DEF U
  <2>5. Sound(U, U.lv) /\ U.lv = S.lv
    BY <1>5, <2>4 DEF Step
  <2>6. Clear(U, D, {Spot(S, p)})
    BY <1>9, <1>10, <1>11, <2>3, <2>5, TabSameClear
  <2>7. /\ There(U, p) /\ Spot(U, p) = Spot(S, p) /\ At(U, p) = c
        /\ \A m \in Names : \A v : Has(U, m, v) <=> Has(S, m, v)
    BY <1>6, <1>7, <2>3 DEF There, Spot, At, Has
  <2> QED
    BY <1>3, <1>4, <1>8, <2>3, <2>4, <2>5, <2>6, <2>7 DEF R, s
<1>13. CASE ~(base > s.level)
  <2>1. R = T
    BY <1>2, <1>13
  <2> QED
    BY <1>3, <1>6, <1>7, <1>8, <1>9, <1>10, <1>11, <1>13, <2>1 DEF R, s
<1> QED
  BY <1>12, <1>13

\* The spot x is no exception any more if there is no reference.
LEMMA QuietClear ==
    ASSUME NEW S, NEW D, NEW n, NEW v, Clear(S, D, {<<n, v>>}), Quiet(S, <<n, v>>)
    PROVE  Clear(S, D \ {Node(n, v)}, {})
<1>1. ASSUME NEW C, Circle(S, C) PROVE FALSE
  <2>1. <<n, v>> \in C
    BY <1>1 DEF Clear
  <2>2. PICK m, b : Linked(S, <<n, v>>, m, b)
    BY <1>1, <2>1 DEF Circle
  <2> QED
    BY <2>2 DEF Linked, Quiet
<1>2. ASSUME NEW p, There(S, p), At(S, p).ref
      PROVE  /\ IsRef(At(S, p)) =>
                   \/ Rooted(S, p[1], At(S, p))
                   \/ At(S, p).base > S.lv /\ Node(p[1], At(S, p).level) \in D \ {Node(n, v)}
             /\ Blank0(At(S, p))
  <2>1. Blank0(At(S, p))
    BY <1>2 DEF Clear
  <2>2. ASSUME IsRef(At(S, p))
        PROVE  \/ Rooted(S, p[1], At(S, p))
               \/ At(S, p).base > S.lv /\ Node(p[1], At(S, p).level) \in D \ {Node(n, v)}
    <3>1. Spot(S, p) # <<n, v>>
      BY <1>2, <2>2 DEF Quiet
    <3>2. Node(p[1], At(S, p).level) # Node(n, v)
      <4>1. Node(p[1], At(S, p).level).n = p[1] /\ Node(p[1], At(S, p).level).level = At(S, p).level
            /\ Node(n, v).n = n /\ Node(n, v).level = v
        BY DEF Node
      <4> QED
        BY <3>1, <4>1 DEF Spot
    <3> QED
      BY <1>2, <2>2, <3>1, <3>2 DEF Clear
  <2> QED
    BY <2>1, <2>2
<1> QED
  BY <1>1, <1>2 DEF Clear

\* What a place on a circle refers to is on it, too.
LEMMA CircleNext ==
    ASSUME NEW l, NEW S, Sound(S, l), NEW C, Circle(S, C), NEW q, There(S, q), Spot(S, q) \in C
    PROVE  LET m == At(S, q).str
               b == At(S, q).base
               r == Referred(S, q)
           IN  /\ IsRef(At(S, q)) /\ b <= S.lv /\ ~Empty(S, m)
               /\ r # None /\ There(S, r) /\ Spot(S, r) \in C
               /\ Spot(S, r) = <<m, IF b = 0 THEN Lowest(S, m) ELSE b>>
<1>1. PICK m, b : /\ Linked(S, Spot(S, q), m, b)
                  /\ b <= S.lv /\ ~Empty(S, m)
                  /\ <<m, IF b = 0 THEN Lowest(S, m) ELSE b>> \in C
  BY DEF Circle
<1>2. PICK o : /\ There(S, o) /\ Spot(S, o) = Spot(S, q)
               /\ IsRef(At(S, o)) /\ At(S, o).str = m /\ At(S, o).base = b
  BY <1>1 DEF Linked
<1>3. o = q
  BY <1>2, SpotsDiffer
<1> DEFINE v == IF b = 0 THEN Lowest(S, m) ELSE b
           r == Referred(S, q)
<1>4. PICK m1, b1 : Linked(S, <<m, v>>, m1, b1)
  BY <1>1 DEF Circle
<1> HIDE DEF v
<1>5. Has(S, m, v)
  <2>1. PICK w : There(S, w) /\ Spot(S, w) = <<m, v>> /\ IsRef(At(S, w))
    BY <1>4 DEF Linked
  <2>2. w[1] = m /\ At(S, w).level = v
    BY <2>1 DEF Spot
  <2> QED
    BY <2>1, <2>2, LinkedIs
<1>6. b = 0 \/ Has(S, m, b)
  BY <1>5 DEF v
<1>7. /\ r # None /\ There(S, r)
      /\ Spot(S, r) = <<m, IF b = 0 THEN Lowest(S, m) ELSE b>>
  BY <1>1, <1>2, <1>3, <1>6, ReferredSpot
<1> QED
  BY <1>1, <1>2, <1>3, <1>7

\* A circle that every other goes through p is found from p.
LEMMA NoWayRound ==
    ASSUME NEW S, Sound(S, S.lv), NEW p, There(S, p), NEW D, Clear(S, D, {Spot(S, p)}),
           NEW C, Circle(S, C)
    PROVE  IsRef(At(S, p)) /\ Resolve(S, p, p, FALSE) = p
<1> DEFINE Q == {q \in Bounded : There(S, q) /\ Spot(S, q) \in C}
<1>1. Spot(S, p) \in C
  BY DEF Clear
<1>2. \A q \in Q : /\ There(S, q) /\ Spot(S, q) \in C
                   /\ IsRef(At(S, q)) /\ Referred(S, q) # None /\ Referred(S, q) \in Q
  <2>1. SUFFICES ASSUME NEW q \in Q
                 PROVE  /\ There(S, q) /\ Spot(S, q) \in C
                        /\ IsRef(At(S, q)) /\ Referred(S, q) # None /\ Referred(S, q) \in Q
    OBVIOUS
  <2>2. There(S, q) /\ Spot(S, q) \in C
    OBVIOUS
  <2>3. /\ IsRef(At(S, q)) /\ Referred(S, q) # None
        /\ There(S, Referred(S, q)) /\ Spot(S, Referred(S, q)) \in C
    BY <2>2, CircleNext
  <2>4. Referred(S, q) \in Bounded
    BY <2>3, ThereBounded
  <2> QED
    BY <2>2, <2>3, <2>4
<1>3. p \in Q
  BY <1>1, ThereBounded
<1> HIDE DEF Q
<1>4. Closed(S, Q) /\ IsRef(At(S, p)) /\ p # None
  BY <1>2, <1>3, ThereSome DEF Closed
<1>5. Comes(S, Q, p, FALSE, Resolve(S, p, p, FALSE))
  BY <1>3, <1>4, WalkTraps
<1>6. ASSUME NEW K, Trap(S, K, p), K \subseteq Q PROVE FALSE
  <2> DEFINE B == {Spot(S, Referred(S, q)) : q \in K}
  <2>1. ASSUME NEW x \in B
        PROVE  \E m, b : /\ Linked(S, x, m, b)
                         /\ b <= S.lv /\ ~Empty(S, m)
                         /\ <<m, IF b = 0 THEN Lowest(S, m) ELSE b>> \in B
    <3>1. PICK q \in K : x = Spot(S, Referred(S, q))
      BY <2>1
    <3> DEFINE r == Referred(S, q)
               m == At(S, r).str
               b == At(S, r).base
    <3>2. r \in K /\ r \in Q
      BY <1>6 DEF Trap
    <3>3. There(S, r) /\ Spot(S, r) \in C
      BY <1>2, <3>2
    <3> HIDE DEF r
    <3>4. /\ IsRef(At(S, r)) /\ b <= S.lv /\ ~Empty(S, m)
          /\ Spot(S, Referred(S, r)) = <<m, IF b = 0 THEN Lowest(S, m) ELSE b>>
      BY <3>3, CircleNext
    <3>5. Linked(S, x, m, b)
      BY <3>1, <3>3, <3>4 DEF Linked, r
    <3>6. <<m, IF b = 0 THEN Lowest(S, m) ELSE b>> \in B
      BY <3>2, <3>4
    <3> QED
      BY <3>4, <3>5, <3>6
  <2>2. B # {}
    BY <1>6 DEF Trap
  <2>3. Circle(S, B)
    BY <2>1, <2>2 DEF Circle
  <2>4. Spot(S, p) \in B
    BY <2>3 DEF Clear
  <2>5. PICK q \in K : Spot(S, p) = Spot(S, Referred(S, q))
    BY <2>4
  <2>6. There(S, Referred(S, q)) /\ Referred(S, q) # p
    BY <1>6 DEF Trap
  <2> QED
    BY <2>5, <2>6, SpotsDiffer
<1>7. Resolve(S, p, p, FALSE) = p
  BY <1>2, <1>5, <1>6 DEF Comes
<1> QED
  BY <1>4, <1>7

\* The reference p is rooted and leads in no circle.
LEMMA RootedClear ==
    ASSUME NEW S, Sound(S, S.lv), NEW p, There(S, p), NEW D, Clear(S, D, {Spot(S, p)}),
           Rooted(S, p[1], At(S, p)), Resolve(S, p, p, FALSE) # p
    PROVE  Clear(S, D \ {Node(p[1], At(S, p).level)}, {})
<1> DEFINE E == D \ {Node(p[1], At(S, p).level)}
<1>1. ASSUME NEW C, Circle(S, C) PROVE FALSE
  BY <1>1, NoWayRound
<1>2. ASSUME NEW q, There(S, q), At(S, q).ref
      PROVE  /\ IsRef(At(S, q)) =>
                   \/ Rooted(S, q[1], At(S, q))
                   \/ At(S, q).base > S.lv /\ Node(q[1], At(S, q).level) \in E
             /\ Blank0(At(S, q))
  <2>1. Blank0(At(S, q))
    BY <1>2 DEF Clear
  <2>2. CASE q = p
    BY <2>1, <2>2
  <2>3. CASE q # p
    <3>1. Spot(S, q) # Spot(S, p)
      BY <1>2, <2>3, SpotsDiffer
    <3>2. Node(q[1], At(S, q).level) # Node(p[1], At(S, p).level)
      <4>1. \A n, v : Node(n, v).n = n /\ Node(n, v).level = v
        BY DEF Node
      <4> HIDE DEF Node
      <4> QED
        BY <3>1, <4>1 DEF Spot
    <3> QED
      BY <1>2, <2>1, <3>1, <3>2 DEF Clear
  <2> QED
    BY <2>2, <2>3
<1> QED
  BY <1>1, <1>2 DEF Clear

\* With an error, the reference p is unset.
LEMMA UnrootedClear ==
    ASSUME NEW S, Sound(S, S.lv), NEW p, There(S, p), NEW D, Clear(S, D, {Spot(S, p)})
    PROVE  LET T == unsetparam_pm(zerr(S), p)
           IN  /\ Sound(T, T.lv) /\ T.lv = S.lv
               /\ Clear(T, D \ {Node(p[1], At(S, p).level)}, {})
<1> DEFINE Z == zerr(S)
           T == unsetparam_pm(Z, p)
<1>1. Sound(Z, Z.lv) /\ Z.lv = S.lv /\ Z.tab = S.tab /\ Z.err /\ Clear(Z, D, {Spot(S, p)})
  BY zerrClear
<1> HIDE DEF Z
<1>2. There(Z, p) /\ At(Z, p) = At(S, p) /\ Spot(Z, p) = Spot(S, p)
  BY <1>1 DEF There, At, Spot
<1>3. p \in Names \X (Nat \ {0})
  BY DEF There
<1>4. /\ Sound(T, T.lv) /\ T.lv = Z.lv
      /\ Clear(T, D, {Spot(S, p)}) /\ Quiet(T, Spot(S, p))
  BY <1>1, <1>2, <1>3, UnsetClear
<1> HIDE DEF T
<1>5. Clear(T, D \ {Node(p[1], At(S, p).level)}, {})
  BY <1>4, QuietClear DEF Spot
<1> QED
  BY <1>1, <1>4, <1>5 DEF T, Z

\* The struct that is visible to the reference p.
Before(S, p) ==
    LET m == At(S, p).str
    IN  IF m = "" \/ S.tab[m] = <<>> THEN None
        ELSE IF p = <<m, 1>> /\ Len(S.tab[m]) > 1 THEN <<m, 2>>
        ELSE <<m, 1>>

LEMMA BeforeIs ==
    ASSUME NEW l, NEW S, Sound(S, l), NEW p, There(S, p), IsRef(At(S, p)), Before(S, p) # None
    PROVE  LET v == At(S, Before(S, p)).level
           IN  v \in 0..MaxLevel /\ v \in Nat /\ v <= l /\ Has(S, At(S, p).str, v)
<1> DEFINE m == At(S, p).str
           t == S.tab[m]
<1>1. m \in Names
  BY LinkedIs
<1>2. t # <<>> /\ Before(S, p) = IF p = <<m, 1>> /\ Len(t) > 1 THEN <<m, 2>> ELSE <<m, 1>>
  BY DEF Before
<1> HIDE DEF m
<1>3. Len(t) \in Nat /\ t \in Seq(Cell) /\ \A i \in 1..Len(t) : t[i] \in Cell /\ t[i].level <= l
  BY <1>1, StateFacts DEF Sound, Chain
<1>4. PICK i \in 1..Len(t) : Before(S, p) = <<m, i>>
  <2>1. CASE p = <<m, 1>> /\ Len(t) > 1
    BY <1>2, <1>3, <2>1
  <2>2. CASE ~(p = <<m, 1>> /\ Len(t) > 1)
    <3>1. 1 \in 1..Len(t)
      BY <1>2, <1>3
    <3> QED
      BY <1>2, <2>2, <3>1
  <2> QED
    BY <2>1, <2>2
<1>5. At(S, Before(S, p)) = t[i]
  BY <1>4 DEF At
<1>6. t[i] \in Cell /\ t[i].level <= l
  BY <1>3
<1>7. t[i].level \in 0..MaxLevel /\ t[i].level \in Nat
  BY <1>6, MaxLevelType DEF Cell
<1>8. Has(S, m, t[i].level)
  BY DEF Has
<1> QED
  BY <1>5, <1>6, <1>7, <1>8 DEF m

\* setscope() of a reference that was given a value and no base yet.
LEMMA setscopeClear ==
    ASSUME NEW S, Sound(S, S.lv), NEW p, There(S, p), At(S, p).ref, At(S, p).base = 0,
           NEW D, Clear(S, D, {Spot(S, p)})
    PROVE  LET T == setscope(S, p)
           IN  /\ Sound(T, T.lv) /\ T.lv = S.lv
               /\ Clear(T, D \ {Node(p[1], At(S, p).level)}, {})
<1> DEFINE s == At(S, p)
           m == s.str
           b == Before(S, p)
           T == IF b = None THEN S ELSE setscope_base(S, p, At(S, b).level)
           U == unsetparam_pm(zerr(T), p)
           E == D \ {Node(p[1], s.level)}
           R == setscope(S, p)
<1>1. R = IF b = p \/ (m # "" /\ Resolve(T, p, p, FALSE) = p) THEN U ELSE T
  BY DEF setscope, Before
<1>2. p # None
  BY ThereSome
<1>3. S.lv \in Nat
  BY MaxLevelType DEF Sound, State
<1>4. CASE ~IsRef(s)
  <2>1. Quiet(S, Spot(S, p))
    BY <1>4, SpotsDiffer DEF Quiet
  <2>2. Clear(S, E, {})
    BY <2>1, QuietClear DEF Spot
  <2>3. CellOK(p[1], s)
    <3>1. s = S.tab[p[1]][p[2]] /\ p[2] \in 1..Len(S.tab[p[1]]) /\ p[1] \in Names
      BY ThereIs DEF Sound
    <3> QED
      BY <3>1 DEF Sound, Chain
  <2>4. m = ""
    BY <1>4, <2>3 DEF IsRef, CellOK
  <2>5. b = None
    BY <2>4 DEF Before
  <2>6. R = S
    BY <1>1, <1>2, <2>4, <2>5
  <2> QED
    BY <2>2, <2>6
<1>5. CASE IsRef(s)
  <2>1. m # ""
    BY <1>5 DEF IsRef
  <2>2. /\ Sound(T, T.lv) /\ T.lv = S.lv /\ There(T, p) /\ Spot(T, p) = Spot(S, p)
        /\ Clear(T, D, {Spot(S, p)}) /\ At(T, p).level = s.level
        /\ Rooted(T, p[1], At(T, p))
    <3>1. CASE b = None
      <4>1. T = S
        BY <3>1
      <4>2. Rooted(S, p[1], s)
        <5>1. s.level \in Nat
          BY <1>5, LinkedIs
        <5> QED
          BY <1>3, <5>1 DEF Rooted
      <4> QED
        BY <4>1, <4>2
    <3>2. CASE b # None
      <4> DEFINE v == At(S, b).level
      <4>1. v \in 0..MaxLevel /\ v \in Nat /\ v <= S.lv /\ Has(S, m, v)
        BY <1>5, <3>2, BeforeIs
      <4>2. T = setscope_base(S, p, v)
        BY <3>2
      <4> HIDE DEF v, T
      <4>3. /\ Sound(T, T.lv) /\ T.lv = S.lv /\ Clear(T, D, {Spot(S, p)})
            /\ There(T, p) /\ Spot(T, p) = Spot(S, p) /\ IsRef(At(T, p))
            /\ At(T, p).str = At(S, p).str /\ At(T, p).base = v
            /\ At(T, p).level = At(S, p).level
            /\ \A n \in Names : \A w : Has(T, n, w) <=> Has(S, n, w)
            /\ v > At(S, p).level => Listed(T, v, Node(p[1], At(S, p).level))
        BY <1>5, <4>1, <4>2, setscope_baseClear
      <4>4. Rooted(T, p[1], At(T, p))
        <5>1. m \in Names
          BY <1>5, LinkedIs
        <5> QED
          BY <4>1, <4>3, <5>1 DEF Rooted
      <4> QED
        BY <4>3, <4>4
    <3> QED
      BY <3>1, <3>2
  <2> HIDE DEF T, b
  <2>3. CASE R = U
    BY <2>2, <2>3, UnrootedClear
  <2>4. CASE R # U
    <3>1. R = T /\ Resolve(T, p, p, FALSE) # p
      BY <1>1, <2>1, <2>4
    <3>2. Clear(T, E, {})
      <4>1. Clear(T, D \ {Node(p[1], At(T, p).level)}, {})
        BY <2>2, <3>1, RootedClear
      <4> QED
        BY <2>2, <4>1
    <3> QED
      BY <2>2, <3>1, <3>2
  <2> QED
    BY <2>3, <2>4
<1> QED
  BY <1>4, <1>5

-----------------------------------------------------------------------------
(* Structs are assigned to.                                                *)

LEMMA ThereCell ==
    ASSUME NEW l, NEW S, Sound(S, l), NEW p, There(S, p)
    PROVE  /\ At(S, p) \in Cell /\ CellOK(p[1], At(S, p)) /\ p[1] \in Names
           /\ p \in Names \X (Nat \ {0}) /\ S \in State /\ p # None
           /\ At(S, p).level \in Nat /\ At(S, p).level <= l
<1>1. /\ p[1] \in Names /\ p[2] \in 1..Len(S.tab[p[1]]) /\ At(S, p) = S.tab[p[1]][p[2]]
      /\ At(S, p) \in Cell
  BY ThereIs DEF Sound
<1>2. CellOK(p[1], At(S, p)) /\ At(S, p).level <= l
  BY <1>1 DEF Sound, Chain
<1>3. At(S, p).level \in Nat
  BY <1>1, MaxLevelType DEF Cell
<1> QED
  BY <1>1, <1>2, <1>3, ThereSome DEF Sound, There

\* Every reference is rooted and leads in no circle.
Straight(S) == Sound(S, S.lv) /\ Clear(S, {}, {})
Keeps(S, T) == Straight(T) /\ T.lv = S.lv

LEMMA KeepsMore ==
    ASSUME NEW S, NEW T, NEW U, Keeps(S, T), Keeps(T, U)
    PROVE  Keeps(S, U)
BY DEF Keeps

LEMMA KeepsSame ==
    ASSUME NEW S, Straight(S)
    PROVE  Keeps(S, S)
BY DEF Keeps

LEMMA zerrKeeps ==
    ASSUME NEW S, Straight(S)
    PROVE  Keeps(S, zerr(S))
<1> DEFINE T == zerr(S)
<1>1. Sound(T, T.lv) /\ T.lv = S.lv /\ T.tab = S.tab /\ T.err /\ Clear(T, {}, {})
  BY zerrClear DEF Straight
<1> QED
  BY <1>1 DEF Keeps, Straight

\* Flags change at p.
SameRef(s, t) ==
    /\ t.ref = s.ref /\ t.set = s.set /\ t.declared = s.declared /\ t.str = s.str /\ t.base = s.base

LEMMA SameRefClear ==
    ASSUME NEW S, Sound(S, S.lv), NEW T, Sound(T, T.lv), NEW D, NEW X, Clear(S, D, X),
           NEW p, There(S, p), Alters(S, T, p), ~At(T, p).ref \/ SameRef(At(S, p), At(T, p))
    PROVE  Clear(T, D, X)
<1>1. At(T, p).ref => Blank0(At(T, p))
  <2>1. At(S, p).ref => Blank0(At(S, p))
    BY DEF Clear
  <2> QED
    BY <2>1 DEF SameRef, Blank0, IsRef
<1>2. IsRef(At(T, p)) =>
         \/ Spot(T, p) \in {}
         \/ IsRef(At(S, p)) /\ At(S, p).str = At(T, p).str /\ At(S, p).base = At(T, p).base
  BY DEF SameRef, IsRef
<1>3. Clear(T, D, X \cup {})
  BY <1>1, <1>2, AltersClear
<1>4. X \cup {} = X
  OBVIOUS
<1> QED
  BY <1>3, <1>4

LEMMA addenvClear ==
    ASSUME NEW S, Sound(S, S.lv), NEW D, NEW X, Clear(S, D, X), NEW p, There(S, p), NEW v \in Str
    PROVE  LET T == addenv(S, p, v)
           IN  Sound(T, T.lv) /\ T.lv = S.lv /\ Clear(T, D, X)
<1> DEFINE T == addenv(S, p, v)
<1>1. Step(S, T, S.lv)
  BY addenvStep
<1>2. Alters(S, T, p) /\ At(T, p) = Shown(At(S, p))
  BY addenvAlters
<1> HIDE DEF T
<1>3. At(S, p) \in Cell
  BY ThereCell
<1>4. SameRef(At(S, p), Shown(At(S, p)))
  <2> DEFINE c == At(S, p)
  <2> HIDE DEF c
  <2>1. c \in Cell => SameRef(c, Shown(c))
    BY DEF Cell, Shown, SameRef
  <2> QED
    BY <1>3, <2>1 DEF c
<1>5. Sound(T, T.lv) /\ T.lv = S.lv
  BY <1>1 DEF Step
<1>6. Clear(T, D, X)
  BY <1>2, <1>4, <1>5, SameRefClear
<1> QED
  BY <1>5, <1>6 DEF T

LEMMA delenvClear ==
    ASSUME NEW S, Sound(S, S.lv), NEW D, NEW X, Clear(S, D, X), NEW p, There(S, p)
    PROVE  LET T == delenv(S, p)
           IN  Sound(T, T.lv) /\ T.lv = S.lv /\ Clear(T, D, X)
<1> DEFINE T == delenv(S, p)
<1>1. Step(S, T, S.lv)
  BY delenvStep
<1>2. Alters(S, T, p) /\ At(T, p) = Out(At(S, p))
  BY delenvAlters
<1> HIDE DEF T
<1>3. At(S, p) \in Cell
  BY ThereCell
<1>4. SameRef(At(S, p), Out(At(S, p)))
  <2> DEFINE c == At(S, p)
  <2> HIDE DEF c
  <2>1. c \in Cell => SameRef(c, Out(c))
    BY DEF Cell, Out, SameRef
  <2> QED
    BY <1>3, <2>1 DEF c
<1>5. Sound(T, T.lv) /\ T.lv = S.lv
  BY <1>1 DEF Step
<1>6. Clear(T, D, X)
  BY <1>2, <1>4, <1>5, SameRefClear
<1> QED
  BY <1>5, <1>6 DEF T

LEMMA unsetKeeps ==
    ASSUME NEW S, Straight(S), NEW p \in Names \X (Nat \ {0}),
           p[2] = 1 \/ (There(S, p) /\ (S.err \/ At(S, p).level > 0))
    PROVE  Keeps(S, unsetparam_pm(S, p))
<1> DEFINE T == unsetparam_pm(S, p)
<1>1. Sound(T, T.lv) /\ T.lv = S.lv /\ Clear(T, {}, {})
  BY UnsetClear DEF Straight
<1> QED
  BY <1>1 DEF Keeps, Straight

\* A reference is given the name of a parameter, or nothing.
Suits(s, v) == s.ref => v \in Names \cup {""}

\* A struct that is there and no reference, or refers to nothing, is given a
\* value.
LEMMA assignstrvalueKeeps ==
    ASSUME NEW S, Straight(S), NEW p, There(S, p), At(S, p).ref => At(S, p).base = 0,
           NEW v \in Str, Suits(At(S, p), v), NEW x \in BOOLEAN
    PROVE  Keeps(S, assignstrvalue(S, p, v, x))
<1> DEFINE c == At(S, p)
           s == Valued(c, v)
           T == Put(S, p, s)
           R == assignstrvalue(S, p, v, x)
<1>1. Sound(S, S.lv) /\ Clear(S, {}, {})
  BY DEF Straight
<1>2. c \in Cell /\ CellOK(p[1], c)
  BY <1>1, ThereCell
<1>3. /\ s \in Cell /\ CellOK(p[1], s) /\ s.level = c.level
      /\ s.str = v /\ s.set /\ s.ref = c.ref /\ s.env = c.env /\ s.exported = c.exported
  <2> HIDE DEF c
  <2> QED
    BY <1>2, ValuedIs DEF c, Suits
<1>4. s.base = c.base
  <2> HIDE DEF c
  <2> QED
    BY <1>2 DEF Valued, WithSet, WithStr, Cell
<1>5. R = IF s.ref THEN setscope(T, p)
          ELSE IF s.env \/ s.exported \/ x THEN addenv(T, p, v)
          ELSE T
  <2>1. [At(S, p) EXCEPT !.str = v, !.set = TRUE] = s
    <3> HIDE DEF c
    <3>1. [c EXCEPT !.str = v, !.set = TRUE] = s
      BY <1>2 DEF Valued, WithSet, WithStr
    <3> QED
      BY <3>1 DEF c
  <2> QED
    BY <2>1 DEF assignstrvalue
<1> HIDE DEF s, R
<1>6. Step(S, T, S.lv) /\ There(T, p)
  BY <1>1, <1>3, PutStep DEF c
<1>7. Alters(S, T, p) /\ At(T, p) = s
  BY <1>1, <1>3, PutAlters DEF c
<1> HIDE DEF T
<1>8. Sound(T, T.lv) /\ T.lv = S.lv
  BY <1>6 DEF Step
<1>9. CASE s.ref
  <2>1. Clear(T, {}, {} \cup {Spot(T, p)})
    <3>1. Blank0(At(T, p))
      BY <1>3, <1>4, <1>7, <1>9 DEF Blank0
    <3> QED
      BY <1>1, <1>7, <1>8, <3>1, AltersClear
  <2>2. {} \cup {Spot(T, p)} = {Spot(T, p)}
    OBVIOUS
  <2>3. At(T, p).ref /\ At(T, p).base = 0
    BY <1>3, <1>4, <1>7, <1>9
  <2> DEFINE U == setscope(T, p)
             E == {} \ {Node(p[1], At(T, p).level)}
  <2>4. Sound(U, U.lv) /\ U.lv = T.lv /\ Clear(U, E, {})
    BY <1>6, <1>8, <2>1, <2>2, <2>3, setscopeClear
  <2>5. E = {}
    OBVIOUS
  <2> HIDE DEF E, U
  <2> QED
    BY <1>5, <1>8, <1>9, <2>4, <2>5 DEF U, R, Keeps, Straight
<1>10. CASE ~s.ref
  <2>1. Clear(T, {}, {})
    BY <1>1, <1>3, <1>7, <1>8, <1>10, SameRefClear
  <2> DEFINE U == addenv(T, p, v)
  <2>2. Sound(U, U.lv) /\ U.lv = T.lv /\ Clear(U, {}, {})
    BY <1>6, <1>8, <2>1, addenvClear
  <2> HIDE DEF U
  <2>3. R = U \/ R = T
    BY <1>5, <1>10 DEF U
  <2> QED
    BY <1>8, <2>1, <2>2, <2>3 DEF R, Keeps, Straight
<1> QED
  BY <1>9, <1>10

\* A struct that may be assigned to.
Assignable(S, p) == There(S, p) /\ ~IsRef(At(S, p)) /\ (At(S, p).set \/ At(S, p).declared)

LEMMA AssignAtKeeps ==
    ASSUME NEW S, Straight(S), NEW p, p # None => Assignable(S, p), NEW v \in Str, NEW x \in BOOLEAN
    PROVE  Keeps(S, AssignAt(S, p, v, x).S)
<1>1. CASE p = None
  BY <1>1, ResultIs, KeepsSame DEF AssignAt
<1>2. CASE p # None /\ At(S, p).ref /\ v # "" /\ v \notin Names
  <2>1. AssignAt(S, p, v, x).S = zerr(S)
    BY <1>2, ResultIs DEF AssignAt
  <2> QED
    BY <2>1, zerrKeeps
<1>3. CASE p # None /\ ~(At(S, p).ref /\ v # "" /\ v \notin Names)
  <2>1. AssignAt(S, p, v, x).S = assignstrvalue(S, p, v, x)
    BY <1>3, ResultIs DEF AssignAt
  <2>2. At(S, p).ref => At(S, p).base = 0
    BY <1>3 DEF Assignable, Straight, Clear, Blank0
  <2>3. Suits(At(S, p), v)
    BY <1>3 DEF Suits
  <2>4. Keeps(S, assignstrvalue(S, p, v, x))
    BY <1>3, <2>2, <2>3, assignstrvalueKeeps DEF Assignable
  <2> QED
    BY <2>1, <2>4
<1> QED
  BY <1>1, <1>2, <1>3

LEMMA fetchAssignable ==
    ASSUME NEW l, NEW S, Sound(S, l), NEW n \in Names, fetchvalue(S, n) # None
    PROVE  Assignable(S, fetchvalue(S, n))
<1> DEFINE g == getnode(S, n)
<1>1. fetchvalue(S, n) = g /\ IsThere(S, g)
  BY DEF fetchvalue, IfThere
<1>2. There(S, g)
  BY <1>1, fetchIs
<1>3. S.tab[n] # <<>>
  BY <1>1 DEF getnode, IsThere
<1>4. CASE ~S.tab[n][1].set
  <2>1. g = <<n, 1>>
    BY <1>3, <1>4 DEF getnode
  <2> HIDE DEF g
  <2>2. At(S, g) = S.tab[n][1]
    BY <2>1 DEF At
  <2>3. ~IsRef(At(S, g))
    BY <1>4, <2>2 DEF IsRef
  <2> QED
    BY <1>1, <1>2, <2>3 DEF IsThere, Assignable
<1>5. CASE S.tab[n][1].set
  <2>1. g = Resolve(S, <<n, 1>>, None, FALSE)
    BY <1>3, <1>5 DEF getnode
  <2>2. There(S, <<n, 1>>)
    BY <1>3, TopIs
  <2>3. Ends(S, None, FALSE, Resolve(S, <<n, 1>>, None, FALSE))
    BY <2>2, ResolveEnds
  <2> HIDE DEF g
  <2>4. ~IsRef(At(S, g))
    BY <1>1, <2>1, <2>3 DEF Ends, IsThere
  <2> QED
    BY <1>1, <1>2, <2>4 DEF IsThere, Assignable
<1> QED
  BY <1>4, <1>5

LEMMA AssignFoundKeeps ==
    ASSUME NEW S, Straight(S), NEW n \in Names, NEW v \in Str, NEW x \in BOOLEAN
    PROVE  Keeps(S, AssignFound(S, n, v, x).S)
<1>1. fetchvalue(S, n) # None => Assignable(S, fetchvalue(S, n))
  BY fetchAssignable DEF Straight
<1> QED
  BY <1>1, AssignAtKeeps DEF AssignFound

-----------------------------------------------------------------------------
(* Structs are created.                                                    *)

LEMMA SameRefIs ==
    ASSUME NEW s, NEW t, SameRef(s, t)
    PROVE  (IsRef(t) <=> IsRef(s)) /\ (Blank0(t) <=> Blank0(s))
BY DEF SameRef, IsRef, Blank0

LEMMA LevelSame ==
    ASSUME NEW c \in Cell, NEW v
    PROVE  SameRef(c, WithLevel(c, v)) /\ WithLevel(c, v).level = v
<1> DEFINE s == WithLevel(c, v)
<1>1. s = Struct8(v, c.str, c.set, c.declared, c.ref, c.exported, c.env, c.base)
  BY CellChanged
<1> HIDE DEF s
<1>2. s.level = v /\ s.str = c.str /\ s.set = c.set /\ s.declared = c.declared /\ s.ref = c.ref /\ s.base = c.base
  BY <1>1, Struct8Has
<1> QED
  BY <1>2 DEF SameRef, s

\* A struct that says nothing of a parameter.
Says(s) == IsRef(s) \/ (s.ref /\ ~Blank0(s))
\* The struct u[k] is one of t, or says nothing.
Taken(t, u, k) ==
    Says(u[k]) => \E i \in 1..Len(t) : SameRef(t[i], u[k]) /\ u[k].level = t[i].level

\* A struct of n is added.
LEMMA BornClear ==
    ASSUME NEW S, Sound(S, S.lv), NEW T, Sound(T, T.lv), T.lv = S.lv, NEW D, NEW X, Clear(S, D, X),
           NEW n \in Names, \A m \in Names \ {n} : T.tab[m] = S.tab[m], ~Empty(T, n),
           \A k \in 1..Len(T.tab[n]) : Taken(S.tab[n], T.tab[n], k),
           \A v : Has(S, n, v) => Has(T, n, v),
           ~Empty(S, n) => Lowest(T, n) = Lowest(S, n),
           ~S.err, Lists(S, T, n, Nat)
    PROVE  Clear(T, D, X)
<1>1. Refs \subseteq Names
  BY ConstantsType
<1>2. \A m \in Names \ {n} : /\ Empty(T, m) <=> Empty(S, m)
                             /\ Lowest(T, m) = Lowest(S, m)
                             /\ \A v : Has(T, m, v) <=> Has(S, m, v)
  BY DEF Empty, Lowest, Has
<1>3. \A m \in Names : Empty(S, m) => \A v : ~Has(S, m, v)
  BY HasIs
<1>4. ASSUME NEW m \in Refs
      PROVE  /\ ~Empty(T, m) /\ ~Empty(S, m) =>
                  Lowest(T, m) = Lowest(S, m) /\ \A v : Has(S, m, v) => Has(T, m, v)
             /\ Empty(T, m) => T.err \/ \A v : Has(S, m, v) => v = 0
             /\ S.err /\ Empty(S, m) => Empty(T, m)
  <2>1. m \in Names
    BY <1>1
  <2>2. CASE m = n
    BY <2>2
  <2>3. CASE m # n
    BY <1>2, <1>3, <2>1, <2>3
  <2> QED
    BY <2>2, <2>3
<1>5. ASSUME NEW q, There(T, q), At(T, q).ref
      PROVE  /\ Blank0(At(T, q))
             /\ IsRef(At(T, q)) =>
                  \E o : /\ There(S, o) /\ IsRef(At(S, o)) /\ Spot(S, o) = Spot(T, q)
                         /\ At(S, o).str = At(T, q).str /\ At(S, o).base = At(T, q).base
  <2>1. /\ q = <<q[1], q[2]>> /\ q[1] \in Names /\ q[2] \in 1..Len(T.tab[q[1]])
        /\ At(T, q) = T.tab[q[1]][q[2]]
    BY <1>5, ThereIs DEF Sound
  <2>2. CASE q[1] # n
    <3>1. There(S, q) /\ At(S, q) = At(T, q) /\ Spot(S, q) = Spot(T, q)
      BY <1>5, <2>1, <2>2 DEF There, At, Spot
    <3>2. Blank0(At(S, q))
      BY <1>5, <3>1 DEF Clear
    <3> QED
      BY <3>1, <3>2
  <2>3. CASE q[1] = n
    <3> DEFINE t == S.tab[n]
               u == T.tab[n]
               k == q[2]
    <3>1. Taken(t, u, k) /\ At(T, q) = u[k] /\ k \in 1..Len(u) /\ u[k].ref
      BY <1>5, <2>1, <2>3
    <3>2. Spot(T, q) = <<n, u[k].level>>
      BY <2>3, <3>1 DEF Spot
    <3>3. \A i \in 1..Len(t) : There(S, <<n, i>>) /\ At(S, <<n, i>>) = t[i] /\ Spot(S, <<n, i>>) = <<n, t[i].level>>
      <4>1. Len(t) \in Nat
        BY StateFacts DEF Sound
      <4> QED
        BY <4>1 DEF There, At, Spot
    <3> HIDE DEF t, u, k
    <3>4. CASE ~Says(u[k])
      BY <3>1, <3>4 DEF Says
    <3>5. CASE Says(u[k])
      <4>1. PICK i \in 1..Len(t) : SameRef(t[i], u[k]) /\ u[k].level = t[i].level
        BY <3>1, <3>5 DEF Taken
      <4> DEFINE o == <<n, i>>
      <4>2. There(S, o) /\ At(S, o) = t[i] /\ Spot(S, o) = Spot(T, q)
        BY <3>2, <3>3, <4>1
      <4> HIDE DEF o
      <4>3. t[i].ref
        BY <3>1, <4>1 DEF SameRef
      <4>4. Blank0(t[i])
        BY <4>2, <4>3 DEF Clear
      <4>5. Blank0(u[k]) /\ (IsRef(u[k]) <=> IsRef(t[i]))
        BY <4>1, <4>4, SameRefIs
      <4>6. u[k].str = t[i].str /\ u[k].base = t[i].base
        BY <4>1 DEF SameRef
      <4> QED
        BY <3>1, <4>2, <4>5, <4>6
    <3> QED
      BY <3>4, <3>5
  <2> QED
    BY <2>2, <2>3
<1>6. ASSUME NEW b \in 1..MaxLevel, NEW m \in Refs, NEW v, Listed(S, b, Node(m, v)), Has(T, m, v)
      PROVE  Listed(T, b, Node(m, v))
  <2>1. m \in Names /\ v \in Nat
    BY <1>1, <1>6, HasIs
  <2> QED
    BY <1>6, <2>1 DEF Lists
<1>7. Carries(S, T, {})
  BY <1>4, <1>5, <1>6 DEF Carries
<1>8. Clear(T, D, X \cup {})
  BY <1>7, Carry
<1>9. X \cup {} = X
  OBVIOUS
<1> QED
  BY <1>8, <1>9

\* Hidden(): no listed struct is lost.
LEMMA HiddenRest ==
    ASSUME NEW l, NEW S, Sound(S, l), NEW n \in Names, NEW on, Fits(n, on), NEW q,
           (q = None /\ Empty(S, n)) \/ (q = <<n, 1>> /\ There(S, <<n, 1>>))
    PROVE  LET T == Hidden(S, n, q, on)
           IN  T.err = S.err /\ Lists(S, T, n, Nat)
<1> DEFINE D == IF q = None THEN S ELSE delenv(S, q)
           old == IF q = None THEN <<>> ELSE SubSeq(D.tab[n], q[2], Len(D.tab[n]))
           lost == {D.tab[n][i].level : i \in 1..Len(D.tab[n]) - Len(old)}
           new == <<New(on)>> \o old
           r == Forget(S, n, lost)
           T == Hidden(S, n, q, on)
<1>1. T = [D EXCEPT !.tab[n] = new, !.refs = r]
  BY DEF Hidden, New
<1>2. D \in State /\ D.err = S.err /\ S \in State /\ Len(D.tab[n]) = Len(S.tab[n]) /\ Sound(D, l)
  <2>1. CASE q = None
    BY <2>1 DEF Sound
  <2>2. CASE q # None
    <3>1. D = delenv(S, <<n, 1>>) /\ There(S, <<n, 1>>)
      BY <2>2
    <3> HIDE DEF D
    <3> DEFINE i == 1
               E == delenv(S, <<n, i>>)
    <3>2. Step(S, E, l) /\ Len(E.tab[n]) = Len(S.tab[n])
      <4> HIDE DEF i
      <4>1. /\ Step(S, E, l)
            /\ E.environ = IF S.tab[n][i].env THEN [S.environ EXCEPT ![n] = None] ELSE S.environ
            /\ \A m \in Names \ {n} : E.tab[m] = S.tab[m]
            /\ Len(E.tab[n]) = Len(S.tab[n])
            /\ \A k \in 1..Len(S.tab[n]) :
                  E.tab[n][k] = IF k = i THEN Out(S.tab[n][k]) ELSE S.tab[n][k]
        BY delenvIs
      <4> QED
        BY <4>1
    <3>3. Rest(S, E)
      <4> HIDE DEF i
      <4> QED
        BY delenvRest
    <3>4. E = D
      BY <3>1
    <3> HIDE DEF E
    <3> QED
      BY <3>2, <3>3, <3>4 DEF Step, Sound, Rest
  <2> QED
    BY <2>1, <2>2
<1>3. Len(D.tab[n]) \in Nat /\ D.tab[n] \in Seq(Cell)
  BY <1>2, StateFacts
<1>4. Len(D.tab[n]) - Len(old) = 0
  <2>1. CASE q = None
    <3>1. Len(D.tab[n]) = Len(S.tab[n]) /\ Len(old) = 0
      BY <1>2, <2>1
    <3>2. Empty(S, n)
      BY <2>1, ThereSome
    <3> HIDE DEF D, old
    <3> QED
      BY <3>1, <3>2 DEF Empty
  <2>2. CASE q # None
    <3>1. q[2] = 1
      BY <2>2
    <3> HIDE DEF D
    <3> QED
      BY <1>3, <2>2, <3>1
  <2> QED
    BY <2>1, <2>2
<1> HIDE DEF old
<1>5. lost = {}
  <2>1. 1..Len(D.tab[n]) - Len(old) = {}
    BY <1>4
  <2> HIDE DEF D
  <2> QED
    BY <2>1
<1>6. T.err = D.err /\ T.refs = r
  <2> HIDE DEF D, new, r, T
  <2> QED
    BY <1>1, <1>2 DEF State
<1> HIDE DEF lost, T, D
<1> DEFINE K == Nat
           none == {}
<1>7. T.refs = Forget(S, n, none) /\ K \cap none = {}
  BY <1>5, <1>6
<1> HIDE DEF K, none
<1>8. Lists(S, T, n, K)
  BY <1>2, <1>7, ForgetLists
<1> QED
  BY <1>2, <1>6, <1>8 DEF T, K

LEMMA NewSays ==
    ASSUME NEW n \in Names, NEW on, Fits(n, on)
    PROVE  ~Says(New(on)) /\ New(on) \in Cell
<1> DEFINE yes == TRUE
           no == FALSE
           nil == ""
           z == 0
           r == on.ref
           x == on.exported
           s == WithExported(WithRef(Struct8(z, nil, yes, no, no, no, no, z), r), x)
<1>1. New(on) = s
  BY DEF New, Fresh, WithExported, WithRef, Struct8
<1>2. yes \in BOOLEAN /\ no \in BOOLEAN /\ nil \in Str /\ z \in 0..MaxLevel
  BY MaxLevelType DEF Str
<1>3. r \in BOOLEAN /\ x \in BOOLEAN
  BY DEF Opts, Fits
<1> HIDE DEF z, yes, no, nil, r, x
<1>4. /\ s \in Cell /\ s.level = z /\ s.str = nil /\ s.set = yes /\ s.declared = no
      /\ s.ref = r /\ s.exported = x /\ s.env = no /\ s.base = z
  BY <1>2, <1>3, NewFields
<1> HIDE DEF s
<1>5. s.str = "" /\ s.base = 0
  BY <1>4 DEF nil, z
<1> QED
  BY <1>1, <1>4, <1>5 DEF Says, IsRef, Blank0

LEMMA SaysSame ==
    ASSUME NEW s, NEW t, SameRef(s, t)
    PROVE  Says(t) <=> Says(s)
BY SameRefIs DEF Says, SameRef

\* createparam(): what is created is straight, at the level of the scope if
\* it is local.
Ready(S, c, on) ==
    IF on.local THEN Keeps(S, Put(c.S, c.p, [At(c.S, c.p) EXCEPT !.level = S.lv]))
                ELSE Keeps(S, c.S)
Prep(S, c, n, on) ==
    /\ c.p = None => Keeps(S, c.S)
    /\ c.p # None => /\ There(c.S, c.p) /\ c.S.err = S.err /\ c.S.lv = S.lv
                     /\ Ready(S, c, on)
                     /\ c.p[2] = 1 \/ (~on.local /\ fetchvalue(c.S, n) = c.p)

LEMMA AlonePrep ==
    ASSUME NEW S, Straight(S), ~S.err, NEW n \in Names, NEW on, Fits(n, on), Empty(S, n), NEW m
    PROVE  Prep(S, Result(Hidden(S, n, None, on), <<n, 1>>), m, on)
<1> DEFINE q == None
           T == Hidden(S, n, q, on)
           p == <<n, 1>>
           v == S.lv
           U == Put(T, p, [At(T, p) EXCEPT !.level = v])
<1>0. Sound(S, v) /\ Clear(S, {}, {})
  BY DEF Straight
<1>1. Step(S, T, v) /\ There(T, p) /\ Step(S, U, v)
  BY <1>0, HiddenAlone
<1>2. /\ T \in State /\ T.lv = S.lv
      /\ \A k \in Names \ {n} : T.tab[k] = S.tab[k]
      /\ Len(T.tab[n]) = 1
      /\ T.tab[n][1] = New(on)
  <2>1. q = None /\ Above(S, n, q)
    BY DEF Above
  <2> HIDE DEF q
  <2>2. Hides(S, T, n, q, on)
    BY <1>0, <2>1, HiddenIs
  <2> HIDE DEF T
  <2> QED
    BY <2>1, <2>2 DEF Hides
<1>3. T.err = S.err /\ Lists(S, T, n, Nat)
  <2>1. (q = None /\ Empty(S, n)) \/ (q = <<n, 1>> /\ There(S, <<n, 1>>))
    OBVIOUS
  <2> HIDE DEF q
  <2> QED
    BY <1>0, <2>1, HiddenRest
<1>4. New(on) \in Cell /\ ~Says(New(on))
  BY NewSays
<1>5. S \in State /\ S.lv \in 0..MaxLevel /\ v \in 0..MaxLevel
  BY <1>0, StateFacts DEF Sound
<1> DEFINE d == New(on)
           e == WithLevel(d, v)
<1> HIDE DEF v
<1>6. Alters(T, U, p) \/ TRUE
  OBVIOUS
<1>7. /\ U.refs = T.refs /\ U.err = T.err
      /\ \A k \in Names \ {n} : U.tab[k] = T.tab[k]
      /\ Len(U.tab[n]) = 1 /\ U.tab[n][1] = e
  <2>1. At(T, p) = d /\ U = Put(T, p, e)
    BY <1>2 DEF At, WithLevel
  <2>2. e \in Cell
    BY <1>4, <1>5, WithLevelIs
  <2> HIDE DEF T, U, d, e
  <2> DEFINE i == 1
             W == Put(T, <<n, i>>, e)
  <2>3. i \in 1..Len(T.tab[n]) => e \in Cell
    BY <2>2
  <2>4. i = 1 /\ U = W
    BY <2>1
  <2> HIDE DEF i
  <2>5. /\ W \in State
        /\ W.environ = T.environ /\ W.refs = T.refs /\ W.dead = T.dead
        /\ W.lv = T.lv /\ W.err = T.err
        /\ \A k \in Names \ {n} : W.tab[k] = T.tab[k]
        /\ Len(W.tab[n]) = Len(T.tab[n])
        /\ \A k \in 1..Len(T.tab[n]) : W.tab[n][k] = IF k = i THEN e ELSE T.tab[n][k]
    BY <1>2, <2>3, PutIs
  <2> HIDE DEF W
  <2> QED
    BY <1>2, <2>4, <2>5
<1>8. ~Says(e)
  BY <1>4, LevelSame, SaysSame
<1> HIDE DEF T, U, d, e
<1>9. \A w : ~Has(S, n, w)
  BY <1>0, HasIs
<1>10. Keeps(S, T)
  <2>1. Sound(T, T.lv) /\ T.lv = S.lv
    BY <1>1 DEF Step, v
  <2>2. ~Empty(T, n) /\ \A k \in 1..Len(T.tab[n]) : Taken(S.tab[n], T.tab[n], k)
    BY <1>2, <1>4 DEF Empty, Taken
  <2>3. Clear(T, {}, {})
    BY <1>0, <1>2, <1>3, <1>9, <2>1, <2>2, BornClear DEF v
  <2> QED
    BY <2>1, <2>3 DEF Keeps, Straight
<1>11. Keeps(S, U)
  <2>1. Sound(U, U.lv) /\ U.lv = S.lv
    BY <1>1 DEF Step, v
  <2>2. ~Empty(U, n) /\ \A k \in 1..Len(U.tab[n]) : Taken(S.tab[n], U.tab[n], k)
    BY <1>7, <1>8 DEF Empty, Taken
  <2>3. Lists(S, U, n, Nat)
    BY <1>3, <1>7 DEF Lists, Listed
  <2>4. \A k \in Names \ {n} : U.tab[k] = S.tab[k]
    BY <1>2, <1>7
  <2>5. Clear(U, {}, {})
    BY <1>0, <1>9, <2>1, <2>2, <2>3, <2>4, BornClear DEF v
  <2> QED
    BY <2>1, <2>5 DEF Keeps, Straight
<1>12. p # None /\ p[2] = 1
  BY <1>1, ThereSome
<1> DEFINE c == Result(T, p)
<1>13. c.S = T /\ c.p = p
  BY ResultIs
<1> HIDE DEF c, p
<1>14. Ready(S, c, on)
  BY <1>10, <1>11, <1>13 DEF Ready, U, v
<1>15. Prep(S, c, m, on)
  BY <1>1, <1>2, <1>3, <1>12, <1>13, <1>14 DEF Prep
<1> QED
  BY <1>15 DEF c, p, T

LEMMA OverPrep ==
    ASSUME NEW S, Straight(S), ~S.err, NEW n \in Names, NEW on, Fits(n, on), on.local,
           There(S, <<n, 1>>), At(S, <<n, 1>>).level # S.lv, NEW m
    PROVE  Prep(S, Result(Hidden(S, n, <<n, 1>>, on), <<n, 1>>), m, on)
<1> DEFINE p == <<n, 1>>
           T == Hidden(S, n, p, on)
           t == S.tab[n]
           v == S.lv
           d == New(on)
           e == WithLevel(d, v)
           U == Put(T, p, [At(T, p) EXCEPT !.level = v])
<1>0. Sound(S, v) /\ Clear(S, {}, {})
  BY DEF Straight
<1>1. T.lv = S.lv /\ There(T, p) /\ Step(S, U, v)
  BY <1>0, HiddenOver
<1>2. S \in State /\ S.lv \in 0..MaxLevel /\ v \in 0..MaxLevel /\ Len(t) \in Nat /\ Len(t) > 0
      /\ \A k \in 1..Len(t) : t[k] \in Cell
  BY <1>0, StateFacts DEF Sound, There
<1>3. p # None /\ p[2] = 1 /\ Above(S, n, p)
  BY ThereSome DEF Above
<1>4. /\ T \in State
      /\ \A k \in Names \ {n} : T.tab[k] = S.tab[k]
      /\ Len(T.tab[n]) = Len(t) + 1
      /\ T.tab[n][1] = d
      /\ \A k \in 2..Len(T.tab[n]) : T.tab[n][k] = IF k = 2 THEN Out(t[1]) ELSE t[k - 1]
  <2> HIDE DEF p
  <2>2. Hides(S, T, n, p, on)
    BY <1>0, <1>3, HiddenIs
  <2> HIDE DEF T
  <2> QED
    BY <1>2, <1>3, <2>2 DEF Hides
<1>5. T.err = S.err /\ Lists(S, T, n, Nat)
  <2>1. (p = None /\ Empty(S, n)) \/ (p = <<n, 1>> /\ There(S, <<n, 1>>))
    OBVIOUS
  <2> HIDE DEF p
  <2> QED
    BY <1>0, <2>1, HiddenRest
<1>6. d \in Cell /\ ~Says(d)
  BY NewSays
<1> HIDE DEF v
<1>7. /\ U.refs = T.refs /\ U.err = T.err
      /\ \A k \in Names \ {n} : U.tab[k] = T.tab[k]
      /\ Len(U.tab[n]) = Len(T.tab[n])
      /\ \A k \in 1..Len(T.tab[n]) : U.tab[n][k] = IF k = 1 THEN e ELSE T.tab[n][k]
  <2>1. At(T, p) = d /\ U = Put(T, p, e)
    BY <1>4 DEF At, WithLevel
  <2>2. e \in Cell
    BY <1>2, <1>6, WithLevelIs
  <2> HIDE DEF T, U, d, e
  <2> DEFINE i == 1
             W == Put(T, <<n, i>>, e)
  <2>3. i \in 1..Len(T.tab[n]) => e \in Cell
    BY <2>2
  <2>4. i = 1 /\ U = W
    BY <2>1
  <2> HIDE DEF i
  <2>5. /\ W \in State
        /\ W.environ = T.environ /\ W.refs = T.refs /\ W.dead = T.dead
        /\ W.lv = T.lv /\ W.err = T.err
        /\ \A k \in Names \ {n} : W.tab[k] = T.tab[k]
        /\ Len(W.tab[n]) = Len(T.tab[n])
        /\ \A k \in 1..Len(T.tab[n]) : W.tab[n][k] = IF k = i THEN e ELSE T.tab[n][k]
    BY <1>4, <2>3, PutIs
  <2> HIDE DEF W
  <2> QED
    BY <2>4, <2>5
<1>8. ~Says(e)
  BY <1>6, LevelSame, SaysSame
<1>9. SameRef(t[1], Out(t[1])) /\ Out(t[1]).level = t[1].level
  <2> DEFINE c == t[1]
  <2>1. c \in Cell
    BY <1>2
  <2> HIDE DEF c
  <2>2. SameRef(c, Out(c)) /\ Out(c).level = c.level
    BY <2>1 DEF Cell, Out, SameRef
  <2> QED
    BY <2>2 DEF c
<1> DEFINE u == U.tab[n]
<1>10. Len(u) = Len(t) + 1 /\ u[1] = e
       /\ \A k \in 2..Len(u) : u[k] = IF k = 2 THEN Out(t[1]) ELSE t[k - 1]
  <2> HIDE DEF U, T, t, e
  <2>1. Len(T.tab[n]) = Len(t) + 1 /\ Len(t) \in Nat /\ Len(u) = Len(T.tab[n]) /\ 1 \in 1..Len(T.tab[n])
    BY <1>2, <1>4, <1>7
  <2>2. \A k \in 1..Len(T.tab[n]) : u[k] = IF k = 1 THEN e ELSE T.tab[n][k]
    BY <1>7
  <2>3. \A k \in 2..Len(T.tab[n]) : k \in 1..Len(T.tab[n]) /\ k # 1
    BY <2>1
  <2> HIDE DEF u
  <2> QED
    BY <1>4, <2>1, <2>2, <2>3
<1> HIDE DEF U, T, t, d, e
<1>11. \A k \in 2..Len(u) : SameRef(t[k - 1], u[k]) /\ u[k].level = t[k - 1].level /\ k - 1 \in 1..Len(t)
  <2>1. SUFFICES ASSUME NEW k \in 2..Len(u)
                 PROVE  SameRef(t[k - 1], u[k]) /\ u[k].level = t[k - 1].level /\ k - 1 \in 1..Len(t)
    OBVIOUS
  <2>2. k - 1 \in 1..Len(t)
    BY <1>2, <1>10
  <2>3. CASE k = 2
    <3>1. u[k] = Out(t[1]) /\ t[k - 1] = t[1]
      BY <1>10, <2>3
    <3> QED
      BY <1>9, <2>2, <3>1
  <2>4. CASE k # 2
    BY <1>10, <2>2, <2>4 DEF SameRef
  <2> QED
    BY <2>3, <2>4
<1> HIDE DEF u
<1>12. \A k \in 1..Len(u) : Taken(t, u, k)
  <2>1. SUFFICES ASSUME NEW k \in 1..Len(u), Says(u[k])
                 PROVE  \E i \in 1..Len(t) : SameRef(t[i], u[k]) /\ u[k].level = t[i].level
    BY DEF Taken
  <2>2. k # 1
    BY <1>8, <1>10, <2>1
  <2>3. k \in 2..Len(u)
    BY <1>2, <1>10, <2>2
  <2> QED
    BY <1>11, <2>3
<1>13. \A w : (\E i \in 1..Len(t) : t[i].level = w) => \E i \in 1..Len(u) : u[i].level = w
  <2>1. SUFFICES ASSUME NEW i \in 1..Len(t) PROVE \E k \in 1..Len(u) : u[k].level = t[i].level
    OBVIOUS
  <2>2. i + 1 \in 2..Len(u) /\ (i + 1) - 1 = i
    BY <1>2, <1>10
  <2>3. u[i + 1].level = t[i].level
    BY <1>11, <2>2
  <2>4. i + 1 \in 1..Len(u)
    BY <2>2
  <2> QED
    BY <2>3, <2>4
<1>14. u[Len(u)].level = t[Len(t)].level /\ Len(u) # 0
  <2>1. Len(u) \in 2..Len(u) /\ Len(u) - 1 = Len(t) /\ Len(u) # 0
    BY <1>2, <1>10
  <2> QED
    BY <1>11, <2>1
<1>15. Keeps(S, U)
  <2>1. Sound(U, U.lv) /\ U.lv = S.lv
    BY <1>1 DEF Step, v
  <2>2. ~Empty(U, n) /\ \A k \in 1..Len(U.tab[n]) : Taken(S.tab[n], U.tab[n], k)
    BY <1>12, <1>14 DEF Empty, t, u
  <2>3. Lists(S, U, n, Nat)
    BY <1>5, <1>7 DEF Lists, Listed
  <2>4. \A k \in Names \ {n} : U.tab[k] = S.tab[k]
    BY <1>4, <1>7
  <2>5. Lowest(U, n) = Lowest(S, n)
    BY <1>14 DEF Lowest, u, t
  <2>6. \A w : Has(S, n, w) => Has(U, n, w)
    BY <1>13 DEF Has, u, t
  <2>7. Clear(U, {}, {})
    BY <1>0, <2>1, <2>2, <2>3, <2>4, <2>5, <2>6, BornClear DEF v
  <2> QED
    BY <2>1, <2>7 DEF Keeps, Straight
<1> DEFINE c == Result(T, p)
<1>16. c.S = T /\ c.p = p
  BY ResultIs
<1> HIDE DEF c, p
<1>17. Ready(S, c, on)
  BY <1>15, <1>16 DEF Ready, U, v
<1>18. Prep(S, c, m, on)
  BY <1>1, <1>3, <1>5, <1>16, <1>17 DEF Prep
<1> QED
  BY <1>18 DEF c, p, T

LEMMA LevelKeeps ==
    ASSUME NEW S, Straight(S), NEW p, There(S, p), At(S, p).level = S.lv
    PROVE  Keeps(S, Put(S, p, [At(S, p) EXCEPT !.level = S.lv]))
<1> DEFINE v == S.lv
           c == At(S, p)
           e == WithLevel(c, v)
           U == Put(S, p, e)
<1>0. Sound(S, v) /\ Clear(S, {}, {})
  BY DEF Straight
<1>1. c \in Cell /\ CellOK(p[1], c) /\ v \in 0..MaxLevel
  BY <1>0, ThereCell, StateFacts DEF Sound
<1>2. e \in Cell /\ e.level = v /\ CellOK(p[1], e)
  <2> HIDE DEF v, c
  <2> QED
    BY <1>1, WithLevelIs
<1>3. SameRef(c, e) /\ c.level = v
  BY <1>1, LevelSame
<1> HIDE DEF e
<1>4. Step(S, U, v)
  BY <1>0, <1>2, <1>3, PutStep
<1>5. Alters(S, U, p) /\ At(U, p) = e
  BY <1>0, <1>2, <1>3, PutAlters
<1> HIDE DEF U
<1>6. Sound(U, U.lv) /\ U.lv = S.lv
  BY <1>4 DEF Step
<1>7. Clear(U, {}, {})
  BY <1>0, <1>3, <1>5, <1>6, SameRefClear
<1> QED
  BY <1>6, <1>7 DEF Keeps, Straight, U, e, WithLevel

-----------------------------------------------------------------------------
(* Placeholders and structs used again.                                    *)

\* A struct that is no reference is another one, and none still.
Plainly(S, T, r) == Alters(S, T, r) /\ ~IsRef(At(S, r)) /\ ~IsRef(At(T, r))

LEMMA ReferredSame ==
    ASSUME NEW l, NEW S, Sound(S, l), NEW T, NEW r, Plainly(S, T, r),
           NEW q, There(S, q), IsRef(At(S, q))
    PROVE  Referred(T, q) = Referred(S, q)
<1> DEFINE m == At(S, q).str
           b == At(S, q).base
<1>1. /\ q = <<q[1], q[2]>> /\ q[1] \in Names /\ q[2] \in 1..Len(S.tab[q[1]])
      /\ At(S, q) = S.tab[q[1]][q[2]]
  BY ThereIs DEF Sound
<1>2. q # r
  BY DEF Plainly
<1>3. At(T, q) = At(S, q)
  BY <1>1, <1>2 DEF Plainly, Alters, At
<1>4. m \in Names
  BY LinkedIs
<1>5. /\ Len(T.tab[m]) = Len(S.tab[m]) /\ Len(S.tab[m]) \in Nat
      /\ \A k \in 1..Len(S.tab[m]) : T.tab[m][k].level = S.tab[m][k].level
  BY <1>4, StateFacts DEF Sound, Plainly, Alters
<1> DEFINE I == {1} \cup {i \in 2..Len(S.tab[m]) : \A k \in 2..i : S.tab[m][k].level >= b}
           J == {1} \cup {i \in 2..Len(T.tab[m]) : \A k \in 2..i : T.tab[m][k].level >= b}
<1> HIDE DEF m, b
<1>6. I = J
  <2>1. ASSUME NEW i \in 2..Len(S.tab[m]), NEW k \in 2..i
        PROVE  T.tab[m][k].level = S.tab[m][k].level
    <3>1. k \in 1..Len(S.tab[m])
      BY <1>5
    <3> QED
      BY <1>5, <3>1
  <2> QED
    BY <1>5, <2>1
<1>7. upscope(S, m, b) = <<m, Greatest(I)>> /\ upscope(T, m, b) = <<m, Greatest(J)>>
  BY DEF upscope
<1> HIDE DEF I, J
<1>8. upscope(S, m, b) = upscope(T, m, b)
  BY <1>6, <1>7
<1>9. S.tab[m] = <<>> <=> Len(S.tab[m]) = 0
  BY <1>4, StateFacts DEF Sound
<1>10. CASE S.tab[m] = <<>>
  <2>1. Referred(S, q) = None
    BY <1>10 DEF Referred, m
  <2>2. CASE T.tab[m] = <<>>
    BY <1>3, <2>1, <2>2 DEF Referred, m
  <2>3. CASE T.tab[m] # <<>>
    <3>1. Len(T.tab[m]) = 0
      BY <1>5, <1>9, <1>10
    <3> QED
      BY <2>3, <3>1
  <2> QED
    BY <2>2, <2>3
<1>11. CASE S.tab[m] # <<>>
  <2>1. T.tab[m] # <<>>
    BY <1>5, <1>9, <1>11
  <2> QED
    BY <1>3, <1>8, <1>11, <2>1 DEF Referred, m, b
<1> QED
  BY <1>10, <1>11

LEMMA IsRefSame ==
    ASSUME NEW l, NEW S, Sound(S, l), NEW T, NEW r, Plainly(S, T, r), NEW q, There(S, q)
    PROVE  IsRef(At(T, q)) <=> IsRef(At(S, q))
<1>1. /\ q = <<q[1], q[2]>> /\ q[1] \in Names /\ q[2] \in 1..Len(S.tab[q[1]])
  BY ThereIs DEF Sound
<1>2. CASE q = r
  BY <1>2 DEF Plainly
<1>3. CASE q # r
  <2>1. At(T, q) = At(S, q)
    BY <1>1, <1>3 DEF Plainly, Alters, At
  <2> QED
    BY <2>1
<1> QED
  BY <1>2, <1>3

LEMMA WalkOnSame ==
    ASSUME NEW l, NEW S, Sound(S, l), NEW T, NEW r, Plainly(S, T, r),
           NEW stop, NEW keep \in BOOLEAN, NEW w \in Walks(S, stop, keep)
    PROVE  WalkOn(T, stop, keep, w) = WalkOn(S, stop, keep, w)
<1>1. CASE w.end
  BY <1>1 DEF WalkOn
<1>2. CASE ~w.end
  <2> DEFINE t == Referred(S, w.at)
  <2>1. w.at # None /\ There(S, w.at) /\ IsRef(At(S, w.at))
    BY <1>2 DEF Walks
  <2>2. Referred(T, w.at) = t
    BY <2>1, ReferredSame
  <2>3. t # None => There(S, t)
    BY <2>1, ReferredIs
  <2> HIDE DEF t
  <2>4. t # None => (IsRef(At(T, t)) <=> IsRef(At(S, t)))
    BY <2>3, IsRefSame
  <2> QED
    BY <1>2, <2>2, <2>4 DEF WalkOn, t
<1> QED
  BY <1>1, <1>2

\* A chain of references leads to the same struct.
LEMMA ResolveSame ==
    ASSUME NEW l, NEW S, Sound(S, l), NEW T, Sound(T, l), NEW r, Plainly(S, T, r),
           NEW p, There(S, p), NEW stop, NEW keep \in BOOLEAN
    PROVE  Resolve(T, p, stop, keep) = Resolve(S, p, stop, keep)
<1>1. There(T, p)
  <2>1. p \in Names \X (Nat \ {0}) /\ p[1] \in Names /\ p[2] <= Len(S.tab[p[1]])
    BY DEF There
  <2> QED
    BY <2>1 DEF There, Plainly, Alters
<1>2. PICK f : Walk(f, S, p, stop, keep)
  BY WalkExists
<1>3. PICK g : Walk(g, T, p, stop, keep)
  BY <1>1, WalkExists
<1>4. Steps \in Nat
  BY StepsType
<1> DEFINE P == {i \in Nat : i <= Steps => g[i] = f[i]}
<1>5. 0 \in P
  <2>1. f[0] = Start(S, p) /\ g[0] = Start(T, p)
    BY <1>2, <1>3 DEF Walk
  <2>2. Start(T, p) = Start(S, p)
    BY IsRefSame DEF Start
  <2> QED
    BY <2>1, <2>2
<1>6. ASSUME NEW i \in Nat, i \in P PROVE i + 1 \in P
  <2>1. SUFFICES ASSUME i + 1 <= Steps PROVE g[i + 1] = f[i + 1]
    OBVIOUS
  <2>2. i + 1 \in 1..Steps /\ i \in 0..Steps /\ (i + 1) - 1 = i
    BY <1>4, <2>1
  <2>3. g[i] = f[i]
    BY <1>4, <1>6, <2>1
  <2>4. f[i + 1] = WalkOn(S, stop, keep, f[i]) /\ f[i] \in Walks(S, stop, keep)
    BY <1>2, <2>2 DEF Walk
  <2>5. g[i + 1] = WalkOn(T, stop, keep, g[i])
    BY <1>3, <2>2 DEF Walk
  <2> QED
    BY <2>3, <2>4, <2>5, WalkOnSame
<1> HIDE DEF P
<1>7. \A i \in Nat : i \in P
  BY <1>5, <1>6, Induction
<1>8. g[Steps] = f[Steps]
  BY <1>4, <1>7 DEF P
<1> QED
  BY <1>2, <1>3, <1>8 DEF Walk

LEMMA AgainBase ==
    ASSUME NEW c \in Cell, NEW y \in BOOLEAN, NEW no \in BOOLEAN, NEW z \in 0..MaxLevel,
           NEW r \in BOOLEAN, NEW x \in BOOLEAN
    PROVE  LET s == WithExported(WithRef(WithBase(WithDeclared(WithSet(c, y), no), z), r), x)
           IN  s.base = z /\ s.str = c.str
<1> DEFINE a == WithSet(c, y)
           b == WithDeclared(a, no)
           d == WithBase(b, z)
           e == WithRef(d, r)
           s == WithExported(e, x)
<1>1. a = Struct8(c.level, c.str, y, c.declared, c.ref, c.exported, c.env, c.base)
  BY CellChanged
<1> HIDE DEF a
<1>2. b = Struct8(c.level, c.str, y, no, c.ref, c.exported, c.env, c.base)
  BY <1>1, Struct8Changed
<1> HIDE DEF b
<1>3. d = Struct8(c.level, c.str, y, no, c.ref, c.exported, c.env, z)
  BY <1>2, Struct8Changed
<1> HIDE DEF d
<1>4. e = Struct8(c.level, c.str, y, no, r, c.exported, c.env, z)
  BY <1>3, Struct8Changed
<1> HIDE DEF e
<1>5. s = Struct8(c.level, c.str, y, no, r, x, c.env, z)
  BY <1>4, Struct8Changed
<1> HIDE DEF s
<1>6. s.base = z /\ s.str = c.str
  BY <1>5, Struct8Has
<1> QED
  BY <1>6 DEF s, e, d, b, a

LEMMA AgainSays ==
    ASSUME NEW n, NEW c \in Cell, Blank(c), NEW on, Fits(n, on)
    PROVE  LET s == Again(c, on)
           IN  /\ ~IsRef(s) /\ Blank0(s) /\ s \in Cell /\ CellOK(n, s) /\ s.level = c.level
               /\ s.set
<1> DEFINE yes == TRUE
           no == FALSE
           z == 0
           r == on.ref
           x == on.exported
           s == WithExported(WithRef(WithBase(WithDeclared(WithSet(c, yes), no), z), r), x)
<1>1. Again(c, on) = s
  BY DEF Again, WithExported, WithRef, WithBase, WithDeclared, WithSet
<1>2. yes \in BOOLEAN /\ no \in BOOLEAN /\ z \in 0..MaxLevel
  BY MaxLevelType
<1>3. r \in BOOLEAN /\ x \in BOOLEAN
  BY DEF Opts, Fits
<1>4. z = 0 /\ yes
  OBVIOUS
<1> HIDE DEF z, yes, no, r, x
<1>5. s.base = z /\ s.str = c.str
  BY <1>2, <1>3, AgainBase
<1>6. s \in Cell /\ s.level = c.level /\ s.set = yes
  BY <1>2, <1>3, AgainFields
<1> HIDE DEF s
<1>7. Again(c, on).base = 0 /\ Again(c, on).str = c.str
  BY <1>1, <1>4, <1>5
<1>8. ~IsRef(Again(c, on)) /\ Blank0(Again(c, on))
  BY <1>7 DEF IsRef, Blank0, Blank
<1>9. CellOK(n, Again(c, on))
  BY AgainIs
<1> QED
  BY <1>1, <1>4, <1>6, <1>8, <1>9

\* The references from n lead to l.
Goes(S, n, l) ==
    /\ There(S, <<n, 1>>) /\ IsRef(At(S, <<n, 1>>))
    /\ l # None /\ Resolve(S, <<n, 1>>, None, FALSE) = l

LEMMA GoesFetch ==
    ASSUME NEW l, NEW S, Sound(S, l), NEW n \in Names, NEW q, Goes(S, n, q), IsThere(S, q)
    PROVE  fetchvalue(S, n) = q
<1>1. S.tab[n] # <<>> /\ At(S, <<n, 1>>) = S.tab[n][1]
  BY TopIs DEF Goes
<1>2. S.tab[n][1].set
  BY <1>1 DEF Goes, IsRef
<1>3. getnode(S, n) = Resolve(S, <<n, 1>>, None, FALSE)
  BY <1>1, <1>2 DEF getnode
<1>4. getnode(S, n) = q
  BY <1>3 DEF Goes
<1> QED
  BY <1>4 DEF fetchvalue, IfThere

LEMMA ReusedPrep ==
    ASSUME NEW S, Straight(S), NEW q, There(S, q), ~At(S, q).set, NEW on, Fits(q[1], on),
           on.local => q[2] = 1 /\ At(S, q).level = S.lv,
           NEW m \in Names, q[2] = 1 \/ (~on.local /\ Goes(S, m, q))
    PROVE  Prep(S, Result(Reused(S, q, on), q), m, on)
<1> DEFINE d == At(S, q)
           c == Again(d, on)
           T == Put(S, q, c)
           v == S.lv
           n == q[1]
<1>0. Sound(S, v) /\ Clear(S, {}, {})
  BY DEF Straight
<1>1. Reused(S, q, on) = T
  BY DEF Reused, Again
<1>2. d \in Cell /\ CellOK(n, d) /\ q # None /\ Blank(d)
  <2>1. d \in Cell /\ CellOK(n, d) /\ q # None
    BY <1>0, ThereCell
  <2> QED
    BY <2>1 DEF CellOK, Blank
<1>3. ~IsRef(c) /\ Blank0(c) /\ c \in Cell /\ CellOK(n, c) /\ c.level = d.level /\ c.set
  <2>1. Fits(n, on)
    OBVIOUS
  <2> HIDE DEF d, n
  <2> QED
    BY <1>2, <2>1, AgainSays
<1> HIDE DEF c
<1>4. Step(S, T, v) /\ There(T, q)
  BY <1>0, <1>3, PutStep
<1>5. Alters(S, T, q) /\ At(T, q) = c
  BY <1>0, <1>3, PutAlters
<1>6. Sound(T, T.lv) /\ T.lv = S.lv /\ T.err = S.err
  BY <1>4, <1>5 DEF Step, Alters, Rest
<1> HIDE DEF T
<1>7. Clear(T, {}, {} \cup {})
  <2>1. At(T, q).ref => Blank0(At(T, q))
    BY <1>3, <1>5
  <2>2. IsRef(At(T, q)) =>
           \/ Spot(T, q) \in {}
           \/ IsRef(At(S, q)) /\ At(S, q).str = At(T, q).str /\ At(S, q).base = At(T, q).base
    BY <1>3, <1>5
  <2> QED
    BY <1>0, <1>5, <1>6, <2>1, <2>2, AltersClear
<1>8. Keeps(S, T) /\ Straight(T)
  <2>1. {} \cup {} = {}
    OBVIOUS
  <2> QED
    BY <1>6, <1>7, <2>1 DEF Keeps, Straight
<1>9. ASSUME on.local PROVE Keeps(S, Put(T, q, [At(T, q) EXCEPT !.level = v]))
  <2>1. At(T, q).level = T.lv
    BY <1>3, <1>5, <1>6, <1>9
  <2>2. Keeps(T, Put(T, q, [At(T, q) EXCEPT !.level = T.lv]))
    BY <1>4, <1>8, <2>1, LevelKeeps
  <2> QED
    BY <1>6, <1>8, <2>2, KeepsMore
<1>10. ASSUME Goes(S, m, q) PROVE fetchvalue(T, m) = q
  <2> DEFINE yes == TRUE
             no == FALSE
             o == <<m, 1>>
  <2>1. Plainly(S, T, q)
    BY <1>3, <1>5 DEF Plainly, IsRef
  <2>2. There(S, o) /\ IsRef(At(S, o)) /\ no \in BOOLEAN /\ Sound(T, v)
    BY <1>6, <1>10 DEF Goes
  <2>3. There(T, o)
    BY <1>0, <1>5, <2>2, AltersLevels
  <2>4. IsRef(At(T, o))
    BY <1>0, <2>1, <2>2, IsRefSame
  <2>5. Resolve(T, o, None, no) = Resolve(S, o, None, no)
    <3> HIDE DEF no, o
    <3> QED
      BY <1>0, <2>1, <2>2, ResolveSame
  <2>6. Goes(T, m, q)
    BY <1>2, <1>10, <2>3, <2>4, <2>5 DEF Goes
  <2>7. IsThere(T, q)
    BY <1>2, <1>3, <1>5 DEF IsThere
  <2> QED
    BY <1>6, <2>6, <2>7, GoesFetch
<1> DEFINE x == Result(T, q)
<1>11. x.S = T /\ x.p = q
  BY ResultIs
<1> HIDE DEF x
<1>12. Ready(S, x, on)
  BY <1>8, <1>9, <1>11 DEF Ready
<1>13. Prep(S, x, m, on)
  BY <1>2, <1>4, <1>6, <1>10, <1>11, <1>12 DEF Prep
<1> QED
  BY <1>1, <1>13 DEF x

LEMMA NothingPrep ==
    ASSUME NEW S, Straight(S), NEW on, NEW m
    PROVE  Prep(S, Result(S, None), m, on) /\ Prep(S, Result(zerr(S), None), m, on)
<1>1. Keeps(S, S) /\ Keeps(S, zerr(S))
  BY KeepsSame, zerrKeeps
<1>2. /\ Result(S, None).S = S /\ Result(S, None).p = None
      /\ Result(zerr(S), None).S = zerr(S) /\ Result(zerr(S), None).p = None
  BY ResultIs
<1> QED
  BY <1>1, <1>2 DEF Prep

LEMMA PlaceholderPrep ==
    ASSUME NEW S, Straight(S), NEW l, There(S, l), IsThere(S, l), NEW on,
           on.local => At(S, l).level = S.lv,
           NEW n \in Names, l[2] = 1 \/ (~on.local /\ Goes(S, n, l))
    PROVE  Prep(S, Result(S, l), n, on)
<1>1. Keeps(S, S) /\ Sound(S, S.lv) /\ l # None
  BY KeepsSame, ThereSome DEF Straight
<1>2. Result(S, l).S = S /\ Result(S, l).p = l
  BY ResultIs
<1>3. ASSUME on.local PROVE Keeps(S, Put(S, l, [At(S, l) EXCEPT !.level = S.lv]))
  BY <1>3, LevelKeeps
<1>4. Goes(S, n, l) => fetchvalue(S, n) = l
  BY <1>1, GoesFetch
<1> QED
  BY <1>1, <1>2, <1>3, <1>4 DEF Prep, Ready

\* Where the references from n have led to, in more detail.
LeadsTo(S, n, on, l) ==
    l # None =>
       /\ There(S, l) /\ ~on.ref
       /\ IsRef(At(S, l)) => Empty(S, At(S, l).str)
       /\ ~IsRef(At(S, l)) => /\ l[2] = 1 \/ (~on.local /\ Goes(S, n, l))
                              /\ on.local => l = <<n, 1>> /\ At(S, l).level = S.lv

LEMMA CreateFromPrep ==
    ASSUME NEW S, Straight(S), ~S.err, NEW n \in Names, NEW on, Fits(n, on), NEW l,
           LeadsTo(S, n, on, l)
    PROVE  Prep(S, CreateFrom(S, n, on, l), n, on)
<1> DEFINE open == IsThere(S, l) /\ At(S, l).ref
           q == IF l = None THEN Visible(S, n) ELSE l
           m == At(S, l).str
           C == CreateFrom(S, n, on, l)
<1>1. S \in State /\ Sound(S, S.lv)
  BY DEF Straight, Sound
<1>2. l # None =>
       /\ There(S, l) /\ ~on.ref
       /\ IsRef(At(S, l)) => Empty(S, At(S, l).str)
       /\ ~IsRef(At(S, l)) => /\ l[2] = 1 \/ (~on.local /\ Goes(S, n, l))
                              /\ on.local => l = <<n, 1>> /\ At(S, l).level = S.lv
  BY DEF LeadsTo
<1>3. open => l # None
  BY DEF IsThere
<1>4. l # None => At(S, l) \in Cell /\ CellOK(l[1], At(S, l)) /\ l[1] \in Names
  BY <1>1, <1>2, ThereCell
<1>5. CASE open /\ m # ""
  <2>1. m \in Names /\ IsRef(At(S, l))
    BY <1>3, <1>4, <1>5 DEF CellOK, IsRef
  <2>2. Fits(m, on) /\ Empty(S, m)
    BY <1>2, <1>3, <1>5, <2>1 DEF Fits
  <2>3. C = Result(Hidden(S, m, None, on), <<m, 1>>)
    BY <1>5 DEF CreateFrom
  <2> HIDE DEF m, C
  <2>4. Prep(S, Result(Hidden(S, m, None, on), <<m, 1>>), n, on)
    BY <2>1, <2>2, AlonePrep
  <2> QED
    BY <2>3, <2>4 DEF C
<1>6. CASE open /\ ~(m # "")
  <2>1. C \in {Result(zerr(S), None), Result(S, l)}
    BY <1>6 DEF CreateFrom
  <2>2. ~IsRef(At(S, l)) /\ l # None /\ IsThere(S, l)
    BY <1>3, <1>6 DEF IsRef
  <2> HIDE DEF C
  <2>3. Prep(S, Result(S, l), n, on)
    BY <1>2, <2>2, PlaceholderPrep
  <2>4. Prep(S, Result(zerr(S), None), n, on)
    BY NothingPrep
  <2> QED
    BY <2>1, <2>3, <2>4 DEF C
<1>7. ~open /\ l # None => ~IsRef(At(S, l))
  BY DEF IsThere, IsRef
<1>8. q # None => There(S, q)
  BY <1>1, <1>2, VisibleIs
<1>9. l = None /\ q # None => q = <<n, 1>> /\ q[2] = 1 /\ q[1] = n
  <2>1. ASSUME l = None, q # None PROVE q = <<n, 1>>
    BY <1>1, <2>1, VisibleIs
  <2>2. q = <<n, 1>> => q[2] = 1 /\ q[1] = n
    <3> HIDE DEF q
    <3> QED
      OBVIOUS
  <2> QED
    BY <2>1, <2>2
<1>10. CASE ~open /\ q # None /\ (At(S, q).level = S.lv \/ ~on.local)
  <2>1. CASE At(S, q).set
    <3>1. C = Result(S, None)
      BY <1>10, <2>1 DEF CreateFrom
    <3> HIDE DEF C
    <3> QED
      BY <3>1, NothingPrep DEF C
  <2>2. CASE ~At(S, q).set
    <3>1. C = Result(Reused(S, q, on), q)
      BY <1>10, <2>2 DEF CreateFrom
    <3>2. /\ There(S, q) /\ Fits(q[1], on)
          /\ on.local => q[2] = 1 /\ At(S, q).level = S.lv
          /\ q[2] = 1 \/ (~on.local /\ Goes(S, n, q))
      <4>1. CASE l = None
        BY <1>8, <1>9, <1>10, <4>1
      <4>2. CASE l # None
        <5>1. q = l /\ ~IsRef(At(S, l))
          BY <1>7, <1>10, <4>2
        <5> HIDE DEF q
        <5>2. on.local => l[2] = 1
          BY <1>2, <4>2, <5>1
        <5> QED
          BY <1>2, <4>2, <5>1, <5>2 DEF Fits
      <4> QED
        BY <4>1, <4>2
    <3> HIDE DEF C, q
    <3>3. Prep(S, Result(Reused(S, q, on), q), n, on)
      BY <2>2, <3>2, ReusedPrep
    <3> QED
      BY <3>1, <3>3 DEF C
  <2> QED
    BY <2>1, <2>2
<1>11. CASE ~open /\ ~(q # None /\ (At(S, q).level = S.lv \/ ~on.local))
  <2>1. C = Result(Hidden(S, n, q, on), <<n, 1>>)
    BY <1>11 DEF CreateFrom
  <2>2. l = None
    <3>1. SUFFICES ASSUME l # None PROVE FALSE
      OBVIOUS
    <3>2. q = l /\ ~IsRef(At(S, l))
      BY <1>7, <1>11, <3>1
    <3> HIDE DEF q, open
    <3> QED
      BY <1>2, <1>11, <3>1, <3>2
  <2>3. CASE q = None
    <3>1. Empty(S, n)
      <4>1. S.tab[n] = <<>>
        BY <1>1, <2>2, <2>3, VisibleIs
      <4> QED
        BY <4>1 DEF Empty
    <3> HIDE DEF C, q
    <3>2. Prep(S, Result(Hidden(S, n, None, on), <<n, 1>>), n, on)
      BY <3>1, AlonePrep
    <3> QED
      BY <2>1, <2>3, <3>2 DEF C
  <2>4. CASE q # None
    <3>1. q = <<n, 1>> /\ There(S, q) /\ on.local /\ At(S, q).level # S.lv
      BY <1>8, <1>9, <1>11, <2>2, <2>4
    <3> HIDE DEF C, q
    <3>2. Prep(S, Result(Hidden(S, n, <<n, 1>>, on), <<n, 1>>), n, on)
      BY <3>1, OverPrep
    <3> QED
      BY <2>1, <3>1, <3>2 DEF C
  <2> QED
    BY <2>3, <2>4
<1> QED
  BY <1>5, <1>6, <1>10, <1>11

LEMMA LedTo ==
    ASSUME NEW l, NEW S, Sound(S, l), NEW n \in Names, NEW on, LocalOK(S, n, on)
    PROVE  LeadsTo(S, n, on, Led(S, n, on))
<1> DEFINE r == Led(S, n, on)
           o == <<n, 1>>
           yes == TRUE
           no == FALSE
<1>1. SUFFICES ASSUME r # None PROVE LeadsTo(S, n, on, r)
  BY DEF LeadsTo
<1>2. Follows(S, n, on)
  BY <1>1 DEF Led
<1>3. Visible(S, n) # None
  BY <1>2 DEF Follows, IsThere
<1>4. Visible(S, n) = o /\ There(S, o)
  BY <1>3, VisibleIs DEF Sound
<1>5. yes \in BOOLEAN /\ yes /\ no \in BOOLEAN /\ ~no
  OBVIOUS
<1>6. r = Resolve(S, o, None, yes)
  BY <1>2, <1>4 DEF Led
<1>7. ~on.ref /\ (At(S, o).level = S.lv \/ ~on.local)
  BY <1>2, <1>4 DEF Follows
<1>8. on.local => r = o \/ IsRef(At(S, r))
  BY <1>1 DEF LocalOK
<1>9. Resolve(S, o, None, no) = IF r # None /\ IsRef(At(S, r)) THEN None ELSE r
  <2>1. LET x == Resolve(S, o, None, TRUE)
        IN  Resolve(S, o, None, FALSE) = IF x # None /\ IsRef(At(S, x)) THEN None ELSE x
    BY <1>4, ResolveKeep
  <2> QED
    BY <1>6, <2>1
<1>10. There(S, r) /\ Ends(S, None, yes, r)
  <2> DEFINE x == Resolve(S, o, None, yes)
  <2> HIDE DEF yes, r, o
  <2>1. (x # None => There(S, x)) /\ Ends(S, None, yes, x)
    BY <1>4, <1>5, ResolveEnds
  <2> QED
    BY <1>1, <1>6, <2>1
<1>11. ~IsRef(At(S, o)) => r = o
  <2> HIDE DEF yes, r, o
  <2> QED
    BY <1>4, <1>5, <1>6, ResolveSelf
<1>12. o[2] = 1
  OBVIOUS
<1> HIDE DEF r, yes, o
<1>13. IsRef(At(S, r)) => Empty(S, At(S, r).str)
  BY <1>1, <1>10 DEF Ends, Empty
<1>14. ASSUME ~IsRef(At(S, r)) PROVE r[2] = 1 \/ (~on.local /\ Goes(S, n, r))
  <2>1. CASE r = o
    BY <1>12, <2>1
  <2>2. CASE r # o
    <3>1. IsRef(At(S, o)) /\ ~on.local
      BY <1>8, <1>11, <1>14, <2>2
    <3>2. Goes(S, n, r)
      BY <1>1, <1>4, <1>9, <1>14, <3>1 DEF Goes, o
    <3> QED
      BY <3>1, <3>2
  <2> QED
    BY <2>1, <2>2
<1>15. ASSUME ~IsRef(At(S, r)), on.local PROVE r = <<n, 1>> /\ At(S, r).level = S.lv
  BY <1>7, <1>8, <1>15 DEF o
<1> QED
  BY <1>7, <1>10, <1>13, <1>14, <1>15 DEF LeadsTo

LEMMA createparamPrep ==
    ASSUME NEW S, Straight(S), ~S.err, NEW n \in Names, NEW on, Fits(n, on), LocalOK(S, n, on)
    PROVE  Prep(S, createparam(S, n, on), n, on)
<1> DEFINE l == Led(S, n, on)
<1>1. createparam(S, n, on) = CreateFrom(S, n, on, l)
  BY DEF createparam, Led, Follows
<1>2. LeadsTo(S, n, on, l)
  BY LedTo DEF Straight
<1> HIDE DEF l
<1> QED
  BY <1>1, <1>2, CreateFromPrep

\* assignsparam()
LEMMA assignsparamKeeps ==
    ASSUME NEW S, Straight(S), ~S.err, NEW n \in Names, NEW v \in Str, NEW x \in BOOLEAN
    PROVE  Keeps(S, assignsparam(S, n, v, x).S)
<1> DEFINE on == Plain(x)
           C == createparam(S, n, on)
           T == IF fetchvalue(S, n) # None THEN S ELSE C.S
           U == AssignFound(T, n, v, x).S
<1>1. assignsparam(S, n, v, x) = AssignFound(T, n, v, x)
  BY DEF assignsparam, Plain
<1>2. on \in Opts /\ ~on.local /\ ~on.ref
  BY PlainIs
<1> HIDE DEF on
<1>3. Fits(n, on) /\ LocalOK(S, n, on)
  BY <1>2 DEF Fits, LocalOK
<1>4. Prep(S, C, n, on)
  BY <1>3, createparamPrep
<1> HIDE DEF C
<1>5. Keeps(S, C.S)
  BY <1>2, <1>4 DEF Prep, Ready
<1>6. Keeps(S, T)
  BY <1>5, KeepsSame
<1> HIDE DEF T
<1>7. Keeps(T, U)
  BY <1>6, AssignFoundKeeps DEF Keeps
<1>8. Keeps(S, U)
  BY <1>6, <1>7, KeepsMore
<1> QED
  BY <1>1, <1>8

-----------------------------------------------------------------------------
(* typeset, unset and loops.                                               *)

LEMMA RetypedSame ==
    ASSUME NEW c \in Cell, NEW on, NEW off
    PROVE  ~Retyped(c, on, off).ref \/ SameRef(c, Retyped(c, on, off))
<1> DEFINE x == (c.exported \/ on.exported) /\ ~off.exported
           r == c.ref /\ ~off.ref
           s == WithRef(WithExported(c, x), r)
           a == WithExported(c, x)
<1>1. Retyped(c, on, off) = s
  BY DEF Retyped, WithRef, WithExported
<1>2. x \in BOOLEAN /\ r \in BOOLEAN /\ c.ref \in BOOLEAN
  BY CellIs
<1>3. r => c.ref
  OBVIOUS
<1> HIDE DEF x, r
<1>4. a = Struct8(c.level, c.str, c.set, c.declared, c.ref, x, c.env, c.base)
  BY CellChanged
<1>5. WithRef(a, r) = Struct8(c.level, c.str, c.set, c.declared, r, x, c.env, c.base)
  <2> HIDE DEF a
  <2> QED
    BY <1>4, Struct8Changed
<1>6. s = WithRef(a, r)
  OBVIOUS
<1> HIDE DEF s, a
<1>7. s.ref = r /\ s.set = c.set /\ s.declared = c.declared /\ s.str = c.str /\ s.base = c.base
  BY <1>5, <1>6, Struct8Has
<1> QED
  BY <1>1, <1>2, <1>3, <1>7 DEF SameRef

LEMMA addenvKeeps ==
    ASSUME NEW S, Straight(S), NEW p, There(S, p), NEW v \in Str
    PROVE  Keeps(S, addenv(S, p, v)) /\ addenv(S, p, v).err = S.err
<1> DEFINE T == addenv(S, p, v)
<1>1. Sound(T, T.lv) /\ T.lv = S.lv /\ Clear(T, {}, {})
  BY addenvClear DEF Straight
<1>2. Rest(S, T)
  BY addenvRest DEF Straight, Sound
<1> QED
  BY <1>1, <1>2 DEF Keeps, Straight, Rest

LEMMA delenvKeeps ==
    ASSUME NEW S, Straight(S), NEW p, There(S, p)
    PROVE  Keeps(S, delenv(S, p)) /\ delenv(S, p).err = S.err
<1> DEFINE T == delenv(S, p)
<1>1. Sound(T, T.lv) /\ T.lv = S.lv /\ Clear(T, {}, {})
  BY delenvClear DEF Straight
<1>2. Alters(S, T, p)
  BY delenvAlters DEF Straight
<1> QED
  BY <1>1, <1>2 DEF Keeps, Straight, Alters, Rest

LEMMA RetypeKeeps ==
    ASSUME NEW S, Straight(S), ~S.err, NEW n \in Names, NEW p, There(S, p), NEW on, NEW off,
           NEW v \in Str \cup {None}
    PROVE  Keeps(S, Retype(S, n, p, on, off, v))
<1> DEFINE l == S.lv
           t == Retyped(At(S, p), on, off)
           T == Put(S, p, t)
           g == fetchvalue(T, n)
           val == IF g = None THEN "" ELSE At(T, g).str
           U == IF t.exported
                THEN IF ~t.env /\ v = None THEN addenv(T, p, val) ELSE T
                ELSE delenv(T, p)
           no == FALSE
           W == assignsparam(U, n, v, no).S
<1>0. Sound(S, l) /\ Clear(S, {}, {})
  BY DEF Straight
<1>1. Retype(S, n, p, on, off, v) = IF v = None THEN U ELSE W
  BY DEF Retype, Retyped
<1>2. At(S, p) \in Cell /\ CellOK(p[1], At(S, p))
  BY <1>0, ThereCell
<1>3. t \in Cell /\ CellOK(p[1], t) /\ t.level = At(S, p).level
  BY <1>2, RetypedIs
<1>4. ~t.ref \/ SameRef(At(S, p), t)
  BY <1>2, RetypedSame
<1> HIDE DEF t, W
<1>5. Step(S, T, l) /\ There(T, p)
  BY <1>0, <1>3, PutStep
<1>6. Alters(S, T, p) /\ At(T, p) = t
  BY <1>0, <1>3, PutAlters
<1> HIDE DEF T
<1>7. Keeps(S, T) /\ T.err = S.err
  <2>1. Sound(T, T.lv) /\ T.lv = S.lv /\ T.err = S.err
    BY <1>5, <1>6 DEF Step, Alters, Rest
  <2>2. Clear(T, {}, {})
    BY <1>0, <1>4, <1>6, <2>1, SameRefClear
  <2> QED
    BY <2>1, <2>2 DEF Keeps, Straight
<1>8. val \in Str
  <2>1. g # None => There(T, g)
    BY <1>7, fetchIs DEF Keeps, Straight
  <2> HIDE DEF g
  <2>2. g # None => At(T, g).str \in Str
    <3>1. g # None => At(T, g) \in Cell
      BY <1>7, <2>1, ThereCell DEF Keeps, Straight
    <3> QED
      BY <3>1, CellIs
  <2>3. "" \in Str
    BY DEF Str
  <2> QED
    BY <2>2, <2>3
<1> HIDE DEF val
<1>9. /\ Keeps(T, addenv(T, p, val)) /\ addenv(T, p, val).err = T.err
      /\ Keeps(T, delenv(T, p)) /\ delenv(T, p).err = T.err
  BY <1>5, <1>7, <1>8, addenvKeeps, delenvKeeps DEF Keeps
<1>10. Keeps(S, U) /\ U.err = S.err
  BY <1>7, <1>9, KeepsMore
<1> HIDE DEF U
<1>11. v # None => Keeps(S, W)
  <2>1. SUFFICES ASSUME v # None PROVE Keeps(S, W)
    OBVIOUS
  <2>2. v \in Str /\ no \in BOOLEAN
    BY <2>1
  <2> HIDE DEF no
  <2>3. Keeps(U, W)
    BY <1>10, <2>2, assignsparamKeeps DEF Keeps, W
  <2> QED
    BY <1>10, <2>3, KeepsMore
<1> QED
  BY <1>1, <1>10, <1>11

LEMMA CreatedKeeps ==
    ASSUME NEW S, Straight(S), ~S.err, NEW c, NEW on, NEW n \in Names, Prep(S, c, n, on),
           NEW v \in Str \cup {None}
    PROVE  Keeps(S, Created(c, n, on, v))
<1> DEFINE P == Put(c.S, c.p, [At(c.S, c.p) EXCEPT !.level = c.S.lv])
           T == IF on.local THEN P ELSE c.S
           no == FALSE
           a == assignsparam(T, n, v, no)
           R == Created(c, n, on, v)
           U == a.S
<1>1. R = IF c.p = None THEN c.S ELSE IF v = None THEN T ELSE DropUnused(a, c.p)
  BY DEF Created
<1> HIDE DEF R
<1>2. CASE c.p = None
  BY <1>1, <1>2 DEF Prep, R
<1>3. CASE c.p # None
  <2>1. /\ There(c.S, c.p) /\ c.S.err = S.err /\ c.S.lv = S.lv /\ Ready(S, c, on)
        /\ c.p[2] = 1 \/ (~on.local /\ fetchvalue(c.S, n) = c.p)
    BY <1>3 DEF Prep
  <2>2. Keeps(S, T)
    BY <2>1 DEF Ready
  <2>3. P.err = c.S.err
    BY DEF Put
  <2>4. T.err = S.err
    BY <2>1, <2>3
  <2>5. ~on.local => T = c.S
    OBVIOUS
  <2>6. c.p \in Names \X (Nat \ {0})
    BY <2>1 DEF There
  <2>7. no \in BOOLEAN
    OBVIOUS
  <2> HIDE DEF T, no
  <2>8. CASE v = None
    BY <1>1, <1>3, <2>2, <2>8 DEF R
  <2>9. CASE v # None
    <3>1. v \in Str
      BY <2>9
    <3>2. Keeps(T, U)
      BY <2>2, <2>4, <2>7, <3>1, assignsparamKeeps DEF Keeps
    <3>3. R = IF a.p # None /\ a.p # c.p THEN unsetparam_pm(U, c.p) ELSE U
      BY <1>1, <1>3, <2>9 DEF DropUnused
    <3>4. Keeps(S, U)
      BY <2>2, <3>2, KeepsMore
    <3>5. CASE c.p[2] = 1
      <4> HIDE DEF U
      <4>1. Keeps(U, unsetparam_pm(U, c.p))
        BY <2>6, <3>4, <3>5, unsetKeeps DEF Keeps
      <4>2. Keeps(S, unsetparam_pm(U, c.p))
        BY <3>4, <4>1, KeepsMore
      <4> QED
        BY <3>3, <3>4, <4>2 DEF R
    <3>6. CASE ~on.local /\ fetchvalue(c.S, n) = c.p
      <4>1. fetchvalue(T, n) = c.p
        BY <2>5, <3>6
      <4>2. a = AssignFound(T, n, v, no)
        BY <1>3, <4>1 DEF assignsparam
      <4>3. a.p \in {None, c.p}
        <5>1. Sound(T, T.lv)
          BY <2>2 DEF Keeps, Straight
        <5> QED
          BY <2>7, <3>1, <4>1, <4>2, <5>1, AssignFoundIs
      <4> HIDE DEF a
      <4> QED
        BY <3>3, <3>4, <4>3 DEF R
    <3> QED
      BY <2>1, <3>5, <3>6
  <2> QED
    BY <2>8, <2>9
<1> QED
  BY <1>2, <1>3

LEMMA CreateKeeps ==
    ASSUME NEW S, Straight(S), ~S.err, NEW n \in Names, NEW on, Fits(n, on), LocalOK(S, n, on),
           NEW v \in Str \cup {None}
    PROVE  Keeps(S, Create(S, n, on, v))
<1> DEFINE c == createparam(S, n, on)
<1>1. Prep(S, c, n, on)
  BY createparamPrep
<1> HIDE DEF c
<1>2. Keeps(S, Created(c, n, on, v))
  BY <1>1, CreatedKeeps
<1> QED
  BY <1>2 DEF Create, c

LEMMA typeset_singleKeeps ==
    ASSUME NEW S, Straight(S), ~S.err, NEW n \in Names, NEW pm, pm # None => There(S, pm),
           NEW on, NEW off, NEW v \in Str \cup {None},
           Fits(Name(n, Meant(S, pm, on, off)), on),
           Used(S, Meant(S, pm, on, off), on)
             \/ LocalOK(S, Name(n, Meant(S, pm, on, off)), on)
    PROVE  Keeps(S, typeset_single(S, n, pm, on, off, v))
<1> DEFINE p == Meant(S, pm, on, off)
           m == Name(n, p)
           fails == /\ Through(S, pm, on, off) /\ p # None
                    /\ At(S, p).ref /\ (At(S, p).set \/ At(S, p).declared)
                    /\ on.exported
           R == typeset_single(S, n, pm, on, off, v)
<1>1. R = IF fails THEN S
          ELSE IF Used(S, p, on) THEN Retype(S, m, p, on, off, v)
          ELSE Create(S, m, on, v)
  BY DEF typeset_single, Meant, Through, Name, Used
<1>2. p # None => There(S, p)
  BY MeantIs DEF Straight
<1> HIDE DEF R, fails
<1>3. Fits(m, on) /\ (Used(S, p, on) \/ LocalOK(S, m, on))
  OBVIOUS
<1>4. m \in Names
  <2> HIDE DEF p
  <2> QED
    BY <1>2 DEF Name, There
<1>5. Used(S, p, on) => p # None
  BY DEF Used
<1> HIDE DEF p, m
<1>6. Keeps(S, S)
  BY KeepsSame
<1>7. Used(S, p, on) => Keeps(S, Retype(S, m, p, on, off, v))
  BY <1>2, <1>4, <1>5, RetypeKeeps
<1>8. ~Used(S, p, on) => Keeps(S, Create(S, m, on, v))
  BY <1>3, <1>4, CreateKeeps
<1> QED
  BY <1>1, <1>6, <1>7, <1>8 DEF R

LEMMA typeset_nKeeps ==
    ASSUME NEW S, Straight(S), ~S.err, NEW n \in Names, NEW on, Fits(n, on), on.ref,
           NEW v \in Str \cup {None}
    PROVE  Keeps(S, typeset_n(S, n, on, v))
<1> DEFINE o == Visible(S, n)
           over == o # None /\ (At(S, o).level = S.lv \/ ~on.local)
           w == IF v = None /\ over /\ ~At(S, o).ref /\ At(S, o).set
                THEN At(S, o).str ELSE v
           T == IF over THEN unsetparam_pm(S, o) ELSE S
           off == Flags({})
           R == typeset_single(T, n, None, on, off, w)
<1>1. typeset_n(S, n, on, v) = R
  BY DEF typeset_n
<1>2. S \in State /\ Sound(S, S.lv)
  BY DEF Straight, Sound
<1>3. o # None => There(S, o) /\ o[2] = 1 /\ o \in Names \X (Nat \ {0})
  <2>1. o # None => o = <<n, 1>> /\ There(S, o)
    BY <1>2, VisibleIs
  <2> HIDE DEF o
  <2> QED
    BY <2>1 DEF There
<1>4. w \in Str \cup {None}
  <2> HIDE DEF o
  <2>1. over => At(S, o).str \in Str
    <3>1. over => At(S, o) \in Cell
      BY <1>2, <1>3, ThereIs
    <3> QED
      BY <3>1, CellIs
  <2> HIDE DEF over
  <2> QED
    BY <2>1
<1>5. Keeps(S, T) /\ T.err = S.err
  <2>1. Keeps(S, S)
    BY KeepsSame
  <2>2. over => Keeps(S, unsetparam_pm(S, o)) /\ unsetparam_pm(S, o).err = S.err
    <3> HIDE DEF o
    <3>1. SUFFICES ASSUME over PROVE Keeps(S, unsetparam_pm(S, o)) /\ unsetparam_pm(S, o).err = S.err
      OBVIOUS
    <3> DEFINE W == unsetparam_pm(S, o)
    <3>2. Sound(W, W.lv) /\ W.lv = S.lv /\ W.err = S.err /\ Clear(W, {}, {})
      BY <1>2, <1>3, <3>1, UnsetClear DEF Straight
    <3> QED
      BY <3>2 DEF Keeps, Straight
  <2> QED
    BY <2>1, <2>2
<1> HIDE DEF w, T, over, o, off
<1>6. Straight(T) /\ ~T.err
  BY <1>5 DEF Keeps
<1> DEFINE nothing == None
<1>7. Meant(T, nothing, on, off) = None
  BY DEF Meant, Through
<1>8. Name(n, Meant(T, nothing, on, off)) = n
  BY <1>7 DEF Name
<1>9. LocalOK(T, n, on)
  BY NotLocalOK
<1>10. nothing = None
  OBVIOUS
<1> HIDE DEF nothing
<1>11. Keeps(T, typeset_single(T, n, nothing, on, off, w))
  BY <1>4, <1>6, <1>8, <1>9, <1>10, typeset_singleKeeps
<1>12. Keeps(S, R)
  BY <1>5, <1>10, <1>11, KeepsMore
<1> QED
  BY <1>1, <1>12

\* `unset n' reaches, in an outer scope, a reference that is unset already
\* and has kept its base.
Reached(S, n) ==
    IF Visible(S, n) = None THEN None ELSE Resolve(S, Visible(S, n), None, FALSE)
Stale(s) == s.ref /\ ~s.set /\ ~s.declared /\ s.base > 0
Revived(S, n) ==
    /\ Reached(S, n) # None
    /\ Stale(At(S, Reached(S, n))) /\ At(S, Reached(S, n)).level < S.lv

LEMMA GoneBase ==
    ASSUME NEW n, NEW c \in Cell, CellOK(n, c), ~IsRef(c), Blank0(c) \/ ~c.ref, ~Stale(c),
           NEW nil \in Str, NEW no \in BOOLEAN, NEW yes \in BOOLEAN, IsNil(nil)
    PROVE  LET s == WithDeclared(WithSet(WithStr(c, nil), no), yes)
           IN  /\ s \in Cell /\ CellOK(n, s) /\ s.level = c.level /\ ~IsRef(s)
               /\ s.ref => Blank0(s)
<1> DEFINE a == WithStr(c, nil)
           b == WithSet(a, no)
           s == WithDeclared(b, yes)
<1>1. s \in Cell /\ CellOK(n, s) /\ s.level = c.level
  BY GoneIs
<1>2. a = Struct8(c.level, nil, c.set, c.declared, c.ref, c.exported, c.env, c.base)
  BY CellChanged
<1> HIDE DEF a
<1>3. b = Struct8(c.level, nil, no, c.declared, c.ref, c.exported, c.env, c.base)
  BY <1>2, Struct8Changed
<1> HIDE DEF b
<1>4. s = Struct8(c.level, nil, no, yes, c.ref, c.exported, c.env, c.base)
  BY <1>3, Struct8Changed
<1> HIDE DEF s
<1>5. s.base = c.base /\ s.ref = c.ref /\ s.str = nil
  BY <1>4, Struct8Has
<1>6. ~IsRef(s)
  BY <1>5 DEF IsRef, IsNil
<1>7. ASSUME s.ref PROVE Blank0(s)
  <2>1. c.ref
    BY <1>5, <1>7
  <2>2. c.base = 0
    <3>1. CASE c.set \/ c.declared
      BY <2>1, <3>1 DEF Blank0
    <3>2. CASE ~c.set /\ ~c.declared
      <4>1. ~(c.base > 0)
        BY <2>1, <3>2 DEF Stale
      <4>2. c.base \in Nat
        BY MaxLevelType, CellIs
      <4> QED
        BY <4>1, <4>2
    <3> QED
      BY <3>1, <3>2
  <2> QED
    BY <1>5, <2>2 DEF Blank0
<1> QED
  BY <1>1, <1>6, <1>7 DEF s, b, a

\* unset
LEMMA unsetNameKeeps ==
    ASSUME NEW S, Straight(S), NEW n \in Names, ~Revived(S, n)
    PROVE  Keeps(S, unset(S, n))
<1> DEFINE no == FALSE
           yes == TRUE
           nil == ""
           o == Visible(S, n)
           p == IF o = None THEN None ELSE Resolve(S, o, None, no)
           s == WithDeclared(WithSet(WithStr(At(S, p), nil), no), yes)
           marks == At(S, o).ref /\ At(S, p).level < S.lv
<1>1. unset(S, n) = IF p = None THEN S
                    ELSE IF marks THEN Put(S, p, s) ELSE unsetparam_pm(S, p)
  <2>1. s = [stdunsetfn(At(S, p)) EXCEPT !.declared = TRUE]
    BY DEF stdunsetfn, WithDeclared, WithSet, WithStr
  <2> HIDE DEF s
  <2> QED
    BY <2>1 DEF unset
<1>2. S \in State /\ Sound(S, S.lv) /\ Clear(S, {}, {})
  BY DEF Straight, Sound
<1>3. o # None => There(S, o) /\ o = <<n, 1>>
  BY <1>2, VisibleIs
<1>4. no \in BOOLEAN /\ yes \in BOOLEAN /\ nil \in Str
  BY DEF Str
<1>5. IsNil(nil)
  BY DEF IsNil
<1>6. p = Reached(S, n)
  BY DEF Reached
<1> HIDE DEF no, yes, nil, o
<1>7. p # None => There(S, p) /\ Ends(S, None, no, p)
  BY <1>2, <1>3, <1>4, ResolveEnds
<1>8. p # None => ~IsRef(At(S, p))
  BY <1>7 DEF Ends, no
<1>9. p # None /\ ~At(S, o).ref => p = o
  <2>1. SUFFICES ASSUME p # None, ~At(S, o).ref PROVE p = o
    OBVIOUS
  <2>2. o # None /\ There(S, o) /\ ~IsRef(At(S, o))
    BY <1>3, <2>1 DEF IsRef
  <2>3. Resolve(S, o, None, no) = o
    BY <1>2, <1>4, <2>2, ResolveSelf
  <2> QED
    BY <2>2, <2>3
<1> HIDE DEF p
<1>10. CASE p = None
  BY <1>1, <1>10, KeepsSame
<1>11. CASE p # None
  <2>1. There(S, p) /\ ~IsRef(At(S, p))
    BY <1>7, <1>8, <1>11
  <2>2. /\ At(S, p) \in Cell /\ CellOK(p[1], At(S, p)) /\ p[1] \in Names
        /\ p \in Names \X (Nat \ {0}) /\ At(S, p).level \in Nat /\ At(S, p).level <= S.lv
    BY <1>2, <2>1, ThereCell
  <2>3. CASE marks
    <3>1. ~Stale(At(S, p))
      BY <1>6, <1>11, <2>3 DEF Revived
    <3>2. Blank0(At(S, p)) \/ ~At(S, p).ref
      BY <1>2, <2>1 DEF Clear
    <3>3. /\ s \in Cell /\ CellOK(p[1], s) /\ s.level = At(S, p).level /\ ~IsRef(s)
          /\ s.ref => Blank0(s)
      <4> DEFINE c == At(S, p)
      <4>1. c \in Cell /\ CellOK(p[1], c) /\ ~IsRef(c) /\ ~Stale(c) /\ (Blank0(c) \/ ~c.ref)
        BY <2>1, <2>2, <3>1, <3>2
      <4> HIDE DEF c
      <4> DEFINE t == WithDeclared(WithSet(WithStr(c, nil), no), yes)
      <4>2. /\ t \in Cell /\ CellOK(p[1], t) /\ t.level = c.level /\ ~IsRef(t)
            /\ t.ref => Blank0(t)
        BY <1>4, <1>5, <4>1, GoneBase
      <4>3. s = t
        BY DEF c
      <4> QED
        BY <4>2, <4>3 DEF c
    <3> HIDE DEF s, marks
    <3> DEFINE T == Put(S, p, s)
    <3>4. Step(S, T, S.lv)
      BY <1>2, <2>1, <3>3, PutStep
    <3>5. Alters(S, T, p) /\ At(T, p) = s
      BY <1>2, <2>1, <3>3, PutAlters
    <3> HIDE DEF T
    <3>6. Sound(T, T.lv) /\ T.lv = S.lv
      BY <3>4 DEF Step
    <3>7. Clear(T, {}, {} \cup {})
      <4>1. At(T, p).ref => Blank0(At(T, p))
        BY <3>3, <3>5
      <4>2. IsRef(At(T, p)) =>
               \/ Spot(T, p) \in {}
               \/ IsRef(At(S, p)) /\ At(S, p).str = At(T, p).str /\ At(S, p).base = At(T, p).base
        BY <3>3, <3>5
      <4> QED
        BY <1>2, <2>1, <3>5, <3>6, <4>1, <4>2, AltersClear
    <3>8. {} \cup {} = {}
      OBVIOUS
    <3>9. Keeps(S, T)
      BY <3>6, <3>7, <3>8 DEF Keeps, Straight
    <3> QED
      BY <1>1, <1>11, <2>3, <3>9 DEF T
  <2>4. CASE ~marks
    <3>1. p[2] = 1 \/ At(S, p).level > 0
      <4>1. CASE ~At(S, o).ref
        <5>1. p = <<n, 1>>
          BY <1>3, <1>9, <1>11, <4>1
        <5> QED
          BY <5>1
      <4>2. CASE At(S, o).ref
        <5>1. At(S, p).level = S.lv /\ S.lv \in Nat
          <6>1. S.lv \in 0..MaxLevel
            BY <1>2, StateFacts, <2>2
          <6>2. S.lv \in Nat
            BY <6>1, MaxLevelType
          <6>3. ~(At(S, p).level < S.lv)
            BY <2>4, <4>2
          <6> QED
            BY <2>2, <6>2, <6>3
        <5>2. CASE S.lv > 0
          BY <5>1, <5>2
        <5>3. CASE S.lv = 0
          <6>1. p = <<p[1], p[2]>> /\ p[2] \in 1..Len(S.tab[p[1]]) /\ At(S, p) = S.tab[p[1]][p[2]]
            BY <1>2, <2>1, ThereIs
          <6>2. CASE p[2] = 1
            BY <6>2
          <6>3. CASE p[2] # 1
            <7>1. Len(S.tab[p[1]]) \in Nat
              BY <1>2, <2>2, StateFacts
            <7>2. p[2] > 1 /\ p[2] - 1 \in 1..Len(S.tab[p[1]])
              BY <6>1, <6>3, <7>1
            <7>3. S.tab[p[1]][p[2]].level < S.tab[p[1]][p[2] - 1].level
              BY <1>2, <2>2, <6>1, <7>2 DEF Sound, Chain
            <7>4. S.tab[p[1]][p[2] - 1].level <= S.lv /\ S.tab[p[1]][p[2] - 1] \in Cell
              BY <1>2, <2>2, <7>2 DEF Sound, Chain
            <7>5. S.tab[p[1]][p[2] - 1].level \in 0..MaxLevel
              BY <7>4, CellIs
            <7> QED
              BY <2>2, <5>3, <6>1, <7>3, <7>4, <7>5, MaxLevelType
          <6> QED
            BY <6>2, <6>3
        <5> QED
          BY <5>1, <5>2, <5>3
      <4> QED
        BY <4>1, <4>2
    <3>2. Keeps(S, unsetparam_pm(S, p))
      BY <2>1, <2>2, <3>1, unsetKeeps
    <3> HIDE DEF marks
    <3> QED
      BY <1>1, <1>11, <2>4, <3>2
  <2> QED
    BY <2>3, <2>4
<1> QED
  BY <1>10, <1>11

LEMMA LoopBase ==
    ASSUME NEW n, NEW c \in Cell, CellOK(n, c), NEW b \in 0..MaxLevel, NEW v \in Str \cap Names
    PROVE  LET s == Valued(WithBase(c, b), v)
           IN  s \in Cell /\ CellOK(n, s) /\ s.level = c.level /\ s.base = b /\ s.ref = c.ref
<1> DEFINE yes == TRUE
           a == WithBase(c, b)
           e == WithStr(a, v)
           s == WithSet(e, yes)
<1>1. s = Valued(WithBase(c, b), v)
  BY DEF Valued
<1>2. a = Struct8(c.level, c.str, c.set, c.declared, c.ref, c.exported, c.env, b)
  BY CellChanged
<1> HIDE DEF a, yes
<1>3. e = Struct8(c.level, v, c.set, c.declared, c.ref, c.exported, c.env, b)
  BY <1>2, Struct8Changed
<1> HIDE DEF e
<1>4. s = Struct8(c.level, v, yes, c.declared, c.ref, c.exported, c.env, b)
  BY <1>3, Struct8Changed
<1> HIDE DEF s
<1>5. s.base = b /\ s.ref = c.ref
  BY <1>4, Struct8Has
<1>6. s \in Cell /\ CellOK(n, s) /\ s.level = c.level
  BY <1>1, LoopIs
<1> QED
  BY <1>1, <1>5, <1>6

\* A reference that is given another value has its base from setscope().
LEMMA NewScopeKeeps ==
    ASSUME NEW S, Sound(S, S.lv), NEW D, Clear(S, D, {}), NEW p, There(S, p),
           NEW s \in Cell, CellOK(p[1], s), s.level = At(S, p).level, s.ref, s.base = 0
    PROVE  LET T == setscope(Put(S, p, s), p)
           IN  Sound(T, T.lv) /\ T.lv = S.lv /\ Clear(T, D \ {Node(p[1], At(S, p).level)}, {})
<1> DEFINE P == Put(S, p, s)
           x == Spot(S, p)
           U == setscope(P, p)
<1>1. Step(S, P, S.lv) /\ There(P, p)
  BY PutStep
<1>2. Alters(S, P, p) /\ At(P, p) = s
  BY PutAlters
<1> HIDE DEF P
<1>3. Sound(P, P.lv) /\ P.lv = S.lv
  BY <1>1 DEF Step
<1>4. Spot(P, p) = x
  BY <1>2, AltersLevels
<1>5. Blank0(s)
  BY DEF Blank0
<1> HIDE DEF x
<1>6. Clear(P, D, {} \cup {x})
  BY <1>2, <1>3, <1>4, <1>5, AltersClear
<1>7. {} \cup {x} = {Spot(P, p)}
  BY <1>4
<1>8. Clear(P, D, {Spot(P, p)})
  BY <1>6, <1>7
<1>9. At(P, p).level = At(S, p).level
  BY <1>2
<1>10. Sound(U, U.lv) /\ U.lv = P.lv /\ Clear(U, D \ {Node(p[1], At(P, p).level)}, {})
  BY <1>1, <1>2, <1>3, <1>8, setscopeClear
<1> HIDE DEF U
<1>11. Sound(U, U.lv) /\ U.lv = S.lv /\ Clear(U, D \ {Node(p[1], At(S, p).level)}, {})
  BY <1>3, <1>9, <1>10
<1> QED
  BY <1>11 DEF U, P

LEMMA setloopvarKeeps ==
    ASSUME NEW S, Straight(S), ~S.err, NEW n \in Names, NEW v \in Str \cap Names
    PROVE  Keeps(S, setloopvar(S, n, v))
<1> DEFINE o == Visible(S, n)
           z == 0
           no == FALSE
           s == Valued(WithBase(At(S, o), z), v)
           P == Put(S, o, s)
           refers == o # None /\ At(S, o).ref
<1>1. setloopvar(S, n, v) = IF refers THEN setscope(P, o) ELSE assignsparam(S, n, v, no).S
  <2>1. s = [At(S, o) EXCEPT !.base = 0, !.str = v, !.set = TRUE]
    BY DEF Valued, WithBase, WithSet, WithStr
  <2> HIDE DEF s
  <2> QED
    BY <2>1 DEF setloopvar
<1>2. Sound(S, S.lv) /\ S \in State /\ Clear(S, {}, {})
  BY DEF Straight, Sound
<1>3. o # None => There(S, o)
  BY <1>2, VisibleIs
<1>4. z \in 0..MaxLevel /\ z = 0 /\ no \in BOOLEAN
  BY MaxLevelType
<1> HIDE DEF z, o, no
<1>5. CASE refers
  <2>1. There(S, o)
    BY <1>3, <1>5
  <2>2. At(S, o) \in Cell /\ CellOK(o[1], At(S, o))
    BY <1>2, <2>1, ThereCell
  <2>3. s \in Cell /\ CellOK(o[1], s) /\ s.level = At(S, o).level /\ s.base = z /\ s.ref = At(S, o).ref
    BY <1>4, <2>2, LoopBase
  <2> HIDE DEF s
  <2>4. s.ref /\ s.base = 0
    BY <1>4, <1>5, <2>3
  <2> DEFINE T == setscope(P, o)
             e == Node(o[1], At(S, o).level)
  <2>5. Sound(T, T.lv) /\ T.lv = S.lv /\ Clear(T, {} \ {e}, {})
    BY <1>2, <2>1, <2>3, <2>4, NewScopeKeeps
  <2> HIDE DEF T, e
  <2>6. {} \ {e} = {}
    OBVIOUS
  <2>7. Keeps(S, T)
    BY <2>5, <2>6 DEF Keeps, Straight
  <2> QED
    BY <1>1, <1>5, <2>7 DEF T
<1>6. CASE ~refers
  <2>1. v \in Str
    OBVIOUS
  <2>2. Keeps(S, assignsparam(S, n, v, no).S)
    BY <1>4, <2>1, assignsparamKeeps
  <2> HIDE DEF refers, P
  <2> QED
    BY <1>1, <1>6, <2>2
<1> QED
  BY <1>5, <1>6

-----------------------------------------------------------------------------
(* The end of a scope and its references.                                  *)

\* From S to T structs of levels above v go.
Fade(S, T, v) ==
    /\ T.err = S.err
    /\ \A m \in Names :
          /\ \A k \in 1..Len(T.tab[m]) : \E i \in 1..Len(S.tab[m]) :
                SameRef(S.tab[m][i], T.tab[m][k]) /\ T.tab[m][k].level = S.tab[m][i].level
          /\ \A w \in 0..v : Has(S, m, w) => Has(T, m, w)
          /\ ~Empty(T, m) => ~Empty(S, m) /\ Lowest(T, m) = Lowest(S, m)
    /\ \A b \in 1..MaxLevel : \A m \in Names : \A w \in 0..v :
          Listed(S, b, Node(m, w)) => Listed(T, b, Node(m, w))

LEMMA SameRefMore ==
    ASSUME NEW s, NEW t, NEW u, SameRef(s, t), SameRef(t, u)
    PROVE  SameRef(s, u)
BY DEF SameRef

LEMMA FadeMore ==
    ASSUME NEW S, NEW T, NEW U, NEW v, Fade(S, T, v), Fade(T, U, v)
    PROVE  Fade(S, U, v)
<1>1. ASSUME NEW m \in Names, NEW k \in 1..Len(U.tab[m])
      PROVE  \E i \in 1..Len(S.tab[m]) :
                SameRef(S.tab[m][i], U.tab[m][k]) /\ U.tab[m][k].level = S.tab[m][i].level
  <2>1. PICK j \in 1..Len(T.tab[m]) :
                SameRef(T.tab[m][j], U.tab[m][k]) /\ U.tab[m][k].level = T.tab[m][j].level
    BY DEF Fade
  <2>2. PICK i \in 1..Len(S.tab[m]) :
                SameRef(S.tab[m][i], T.tab[m][j]) /\ T.tab[m][j].level = S.tab[m][i].level
    BY <2>1 DEF Fade
  <2>3. SameRef(S.tab[m][i], U.tab[m][k]) /\ U.tab[m][k].level = S.tab[m][i].level
    BY <2>1, <2>2, SameRefMore
  <2> QED
    BY <2>3
<1> QED
  BY <1>1 DEF Fade

LEMMA FadeSame ==
    ASSUME NEW S, NEW v
    PROVE  Fade(S, S, v)
BY DEF Fade, SameRef

LEMMA ShownSame ==
    ASSUME NEW c \in Cell
    PROVE  SameRef(c, Shown(c)) /\ Shown(c).level = c.level
BY DEF Cell, Shown, SameRef

LEMMA scanendscopeFade ==
    ASSUME NEW S, Sound(S, S.lv + 1), NEW n \in Names
    PROVE  Fade(S, scanendscope(S, n), S.lv)
<1> DEFINE t == S.tab[n]
           v == S.lv
           l == v + 1
           i == 1
           gone == t # <<>> /\ t[1].level > v
           U == unsetparam_pm(S, <<n, i>>)
           T == scanendscope(S, n)
<1>1. T = IF gone THEN U ELSE S
  BY DEF scanendscope
<1>2. S \in State /\ Sound(S, l) /\ Chain(n, t, l)
  BY DEF Sound
<1>3. t \in Seq(Cell) /\ Len(t) \in Nat /\ v \in 0..MaxLevel /\ v \in Nat
  BY <1>2, StateFacts, MaxLevelType
<1> HIDE DEF T
<1>4. \A k \in 1..Len(t) : t[k] \in Cell /\ t[k].level \in Nat
  <2>1. \A k \in 1..Len(t) : t[k] \in Cell
    BY <1>2 DEF Chain
  <2>2. \A k \in 1..Len(t) : t[k].level \in 0..MaxLevel
    BY <2>1, CellIs
  <2> QED
    BY <2>1, <2>2, MaxLevelType
<1>5. CASE gone
  <2>1. t[1].level \in Nat /\ t[1].level > v /\ 1 \in 1..Len(t)
    BY <1>3, <1>4, <1>5
  <2>2. ~Stays1(S, t[i])
    BY <1>3, <2>1 DEF Stays1
  <2>3. i \in Nat \ {0}
    OBVIOUS
  <2> HIDE DEF gone, l, t
  <2>4. \A j \in 1..i : t[j].level \notin 0..v
    <3>1. \A j \in 1..i : j = 1
      OBVIOUS
    <3> QED
      BY <1>3, <2>1, <3>1
  <2>5. i <= Len(t)
    BY <1>3, <2>1
  <2>6. ~Stays1(S, S.tab[n][i]) /\ (\A j \in 1..i : S.tab[n][j].level \notin 0..v) /\ i <= Len(S.tab[n])
    BY <2>2, <2>4, <2>5 DEF t
  <2> HIDE DEF i, v, U
  <2> DEFINE R == unsetparam_pm(S, <<n, i>>)
  <2>7. \A m \in Names \ {n} : R.tab[m] = S.tab[m]
    BY <1>2, <2>3, unsetparam_pmIs
  <2>8. Uncovered(S, R, n, i)
    BY <1>2, <2>3, <2>6, unsetparam_pmIs
  <2>9. R.err = S.err /\ Lists(S, R, n, 0..v)
    BY <1>2, <2>3, <2>6, unsetparamRest
  <2>10. U = R
    BY DEF U
  <2> HIDE DEF R
  <2>11. /\ Len(U.tab[n]) = IF 1 < Len(t) THEN Len(t) - 1 ELSE 0
         /\ \A k \in 1..Len(U.tab[n]) :
              U.tab[n][k] = IF k = 1 /\ t[k + 1].exported THEN Shown(t[k + 1]) ELSE t[k + 1]
    BY <2>8, <2>10 DEF Uncovered, t, i
  <2>12. \A k \in 1..Len(U.tab[n]) : k + 1 \in 1..Len(t)
    BY <1>3, <2>11
  <2>13. ASSUME NEW k \in 1..Len(U.tab[n])
         PROVE  SameRef(t[k + 1], U.tab[n][k]) /\ U.tab[n][k].level = t[k + 1].level
    <3>1. t[k + 1] \in Cell
      BY <1>4, <2>12
    <3>2. SameRef(t[k + 1], Shown(t[k + 1])) /\ Shown(t[k + 1]).level = t[k + 1].level
      BY <3>1, ShownSame
    <3>3. SameRef(t[k + 1], t[k + 1])
      BY DEF SameRef
    <3> QED
      BY <2>11, <3>2, <3>3
  <2>14. ASSUME NEW w \in 0..v, Has(S, n, w) PROVE Has(U, n, w)
    <3>1. PICK k \in 1..Len(t) : t[k].level = w
      BY <2>14 DEF Has, t
    <3>2. k # 1
      BY <1>3, <2>1, <3>1
    <3>3. k - 1 \in 1..Len(U.tab[n]) /\ (k - 1) + 1 = k
      BY <1>3, <2>11, <3>2
    <3>4. U.tab[n][k - 1].level = w
      BY <2>13, <3>1, <3>3
    <3> QED
      BY <3>3, <3>4 DEF Has
  <2>15. ASSUME ~Empty(U, n) PROVE ~Empty(S, n) /\ Lowest(U, n) = Lowest(S, n)
    <3>1. Len(U.tab[n]) # 0
      BY <2>15 DEF Empty
    <3>2. Len(U.tab[n]) \in 1..Len(U.tab[n]) /\ Len(U.tab[n]) + 1 = Len(t) /\ Len(t) # 0
      BY <1>3, <2>11, <3>1
    <3>3. U.tab[n][Len(U.tab[n])].level = t[Len(t)].level
      BY <2>13, <3>2
    <3> QED
      BY <3>2, <3>3 DEF Empty, Lowest, t
  <2>16. ASSUME NEW m \in Names \ {n}
         PROVE  /\ \A k \in 1..Len(U.tab[m]) : \E j \in 1..Len(S.tab[m]) :
                      SameRef(S.tab[m][j], U.tab[m][k]) /\ U.tab[m][k].level = S.tab[m][j].level
                /\ \A w \in 0..v : Has(S, m, w) => Has(U, m, w)
                /\ ~Empty(U, m) => ~Empty(S, m) /\ Lowest(U, m) = Lowest(S, m)
    <3>1. U.tab[m] = S.tab[m]
      BY <2>7, <2>10
    <3> QED
      BY <3>1 DEF SameRef, Has, Empty, Lowest
  <2>17. ASSUME NEW m \in Names
         PROVE  /\ \A k \in 1..Len(U.tab[m]) : \E j \in 1..Len(S.tab[m]) :
                      SameRef(S.tab[m][j], U.tab[m][k]) /\ U.tab[m][k].level = S.tab[m][j].level
                /\ \A w \in 0..v : Has(S, m, w) => Has(U, m, w)
                /\ ~Empty(U, m) => ~Empty(S, m) /\ Lowest(U, m) = Lowest(S, m)
    <3>1. CASE m = n
      <4>1. \A k \in 1..Len(U.tab[n]) : \E j \in 1..Len(S.tab[n]) :
               SameRef(S.tab[n][j], U.tab[n][k]) /\ U.tab[n][k].level = S.tab[n][j].level
        BY <2>12, <2>13 DEF t
      <4> QED
        BY <2>14, <2>15, <3>1, <4>1
    <3>2. CASE m # n
      BY <2>16, <3>2
    <3> QED
      BY <3>1, <3>2
  <2>18. U.err = S.err /\ \A b \in 1..MaxLevel : \A m \in Names : \A w \in 0..v :
            Listed(S, b, Node(m, w)) => Listed(U, b, Node(m, w))
    BY <2>9, <2>10 DEF Lists
  <2>19. Fade(S, U, v)
    BY <2>17, <2>18 DEF Fade
  <2>20. T = U
    BY <1>1, <1>5
  <2>21. Fade(S, T, v)
    BY <2>19, <2>20
  <2> QED
    BY <2>21 DEF T, v
<1>6. CASE ~gone
  <2>1. Fade(S, S, v)
    BY FadeSame
  <2>2. T = S
    BY <1>1, <1>6
  <2> QED
    BY <2>1, <2>2 DEF T
<1> QED
  BY <1>5, <1>6

LEMMA ScanAllFade ==
    ASSUME NEW S, Sound(S, S.lv + 1)
    PROVE  Fade(S, ScanAll(S), S.lv)
<1> DEFINE n == Cardinality(Names)
           v == S.lv
           V == {T \in State : T.lv = v /\ Sound(T, v + 1) /\ Fade(S, T, v)}
           step(i, T) == scanendscope(T, Order[i])
<1>1. n \in Nat /\ \A i \in 1..n : Order[i] \in Names
  BY OrderIs
<1>2. PICK F : /\ ScanAll(S) = F[n] /\ F[0] = S
               /\ \A i \in 1..n : F[i] = step(i, F[i - 1])
  BY ScanAllFold
<1> HIDE DEF n
<1>3. S \in V
  BY FadeSame DEF Sound
<1>4. ASSUME NEW i \in 1..n, NEW T \in V
      PROVE  step(i, T) \in V
  <2> DEFINE R == scanendscope(T, Order[i])
             K == {}
  <2>1. Sound(T, T.lv + 1) /\ Order[i] \in Names /\ T.lv = v /\ Fade(S, T, v)
    BY <1>1
  <2>2. Ended(T, K) /\ K \in SUBSET Names
    BY <2>1 DEF Ended
  <2>3. Fade(T, R, T.lv)
    BY <2>1, scanendscopeFade
  <2> HIDE DEF K
  <2>4. Ended(R, K \cup {Order[i]}) /\ R.lv = T.lv
    BY <2>1, <2>2, scanendscopeIs
  <2> HIDE DEF R
  <2>5. R.lv = v /\ Sound(R, v + 1)
    BY <2>1, <2>4 DEF Ended
  <2>6. Fade(S, R, v)
    BY <2>1, <2>3, FadeMore
  <2>7. R \in V
    BY <2>5, <2>6 DEF Sound
  <2> QED
    BY <2>7 DEF R
<1> HIDE DEF V, step
<1>5. F[0] \in V /\ \A i \in 1..n : F[i - 1] \in V => F[i] \in V
  BY <1>2, <1>3, <1>4
<1>6. \A i \in 0..n : F[i] \in V
  BY <1>1, <1>5, Stays
<1>7. F[n] \in V
  BY <1>1, <1>6
<1> QED
  BY <1>2, <1>7 DEF V

\* After the scope above S.lv has ended, the references to it that were listed
\* lead to no scope any more.
LEMMA FadeClear ==
    ASSUME NEW S, Straight(S), NEW B, Sound(B, B.lv), S.lv = B.lv + 1,
           NEW U, Fade(S, U, B.lv), B.tab = U.tab, B.err = U.err,
           \A b \in 1..B.lv : \A e : Listed(U, b, e) => Listed(B, b, e),
           NEW D, \A e : Listed(U, S.lv, e) => e \in D
    PROVE  Clear(B, D, {})
<1> DEFINE v == B.lv
<1>1. Sound(S, S.lv) /\ Clear(S, {}, {}) /\ S \in State /\ B \in State
  BY DEF Straight, Sound
<1>2. v \in 0..MaxLevel /\ v \in Nat /\ S.lv \in 0..MaxLevel /\ Refs \subseteq Names
  <2>1. v \in 0..MaxLevel /\ S.lv \in 0..MaxLevel
    BY <1>1 DEF State
  <2>2. v \in Nat
    BY <2>1, MaxLevelType
  <2> QED
    BY <2>1, <2>2, ConstantsType
<1>3. \A m \in Names : /\ Empty(B, m) <=> Empty(U, m)
                       /\ Lowest(B, m) = Lowest(U, m)
                       /\ \A w : Has(B, m, w) <=> Has(U, m, w)
  BY DEF Empty, Lowest, Has
<1>4. ASSUME NEW p, There(B, p)
      PROVE  \E q : /\ There(S, q) /\ q[1] = p[1] /\ Spot(S, q) = Spot(B, p)
                    /\ At(B, p).level = At(S, q).level /\ SameRef(At(S, q), At(B, p))
  <2> DEFINE n == p[1]
             k == p[2]
  <2>1. n \in Names /\ k \in 1..Len(B.tab[n]) /\ At(B, p) = B.tab[n][k]
    BY <1>1, <1>4, ThereIs
  <2>2. PICK i \in 1..Len(S.tab[n]) :
            SameRef(S.tab[n][i], U.tab[n][k]) /\ U.tab[n][k].level = S.tab[n][i].level
    BY <2>1 DEF Fade
  <2> DEFINE q == <<n, i>>
  <2>3. q[1] = n /\ q[2] = i /\ At(S, q) = S.tab[n][i]
    BY DEF At
  <2>4. There(S, q)
    <3>1. Len(S.tab[n]) \in Nat
      BY <1>1, <2>1, HasIs
    <3>2. i \in Nat \ {0} /\ i <= Len(S.tab[n])
      BY <3>1
    <3> QED
      BY <2>1, <3>2 DEF There
  <2> HIDE DEF q
  <2>5. At(B, p).level = At(S, q).level /\ SameRef(At(S, q), At(B, p))
    BY <2>1, <2>2, <2>3
  <2>6. Spot(S, q) = Spot(B, p)
    BY <2>3, <2>5 DEF Spot
  <2> QED
    BY <2>3, <2>4, <2>5, <2>6
<1>5. ASSUME NEW C, Circle(B, C) PROVE C \cap {} # {}
  <2>1. ASSUME NEW x \in C
        PROVE  \E m, b : /\ Linked(S, x, m, b)
                         /\ b <= S.lv /\ ~Empty(S, m)
                         /\ <<m, IF b = 0 THEN Lowest(S, m) ELSE b>> \in C
    <3>1. PICK m, b : /\ Linked(B, x, m, b)
                      /\ b <= B.lv /\ ~Empty(B, m)
                      /\ <<m, IF b = 0 THEN Lowest(B, m) ELSE b>> \in C
      BY <1>5 DEF Circle
    <3>2. PICK p : /\ There(B, p) /\ Spot(B, p) = x
                   /\ IsRef(At(B, p)) /\ At(B, p).str = m /\ At(B, p).base = b
      BY <3>1 DEF Linked
    <3>3. PICK q : /\ There(S, q) /\ q[1] = p[1] /\ Spot(S, q) = Spot(B, p)
                   /\ At(B, p).level = At(S, q).level /\ SameRef(At(S, q), At(B, p))
      BY <1>4, <3>2
    <3>4. IsRef(At(S, q)) /\ At(S, q).str = m /\ At(S, q).base = b
      BY <3>2, <3>3 DEF SameRef, IsRef
    <3>5. Linked(S, x, m, b)
      BY <3>2, <3>3, <3>4 DEF Linked
    <3>6. m \in Names /\ b \in Nat
      BY <1>1, <3>2, LinkedIs
    <3>7. ~Empty(S, m) /\ Lowest(B, m) = Lowest(S, m)
      BY <1>3, <3>1, <3>6 DEF Fade
    <3>8. b <= S.lv
      BY <1>2, <3>1, <3>6
    <3> QED
      BY <3>1, <3>5, <3>7, <3>8
  <2>2. C # {}
    BY <1>5 DEF Circle
  <2>3. Circle(S, C)
    BY <2>1, <2>2 DEF Circle
  <2> QED
    BY <1>1, <2>3 DEF Clear
<1>6. ASSUME NEW p, There(B, p), At(B, p).ref
      PROVE  /\ IsRef(At(B, p)) /\ Spot(B, p) \notin {} =>
                  \/ Rooted(B, p[1], At(B, p))
                  \/ At(B, p).base > B.lv /\ Node(p[1], At(B, p).level) \in D
             /\ Blank0(At(B, p))
  <2> DEFINE s == At(B, p)
  <2>1. PICK q : /\ There(S, q) /\ q[1] = p[1] /\ Spot(S, q) = Spot(B, p)
                 /\ s.level = At(S, q).level /\ SameRef(At(S, q), s)
    BY <1>4, <1>6
  <2>2. At(S, q).ref
    BY <1>6, <2>1 DEF SameRef
  <2>3. Blank0(At(S, q))
    BY <1>1, <2>1, <2>2 DEF Clear
  <2>4. Blank0(s)
    BY <2>1, <2>3, SameRefIs
  <2>5. ASSUME IsRef(s)
        PROVE  \/ Rooted(B, p[1], s)
               \/ s.base > B.lv /\ Node(p[1], s.level) \in D
    <3>1. IsRef(At(S, q))
      BY <2>1, <2>5, SameRefIs
    <3>2. Rooted(S, q[1], At(S, q))
      <4>1. Rooted(S, q[1], At(S, q))
               \/ (At(S, q).base > S.lv /\ Node(q[1], At(S, q).level) \in {})
        BY <1>1, <2>1, <2>2, <3>1 DEF Clear
      <4> QED
        BY <4>1
    <3>3. At(S, q).base = s.base /\ At(S, q).str = s.str
      BY <2>1 DEF SameRef
    <3>4. /\ s.base <= S.lv
          /\ s.base > 0 /\ s.str \in Refs => Has(S, s.str, s.base) \/ (S.err /\ Empty(S, s.str))
          /\ s.base > s.level => Listed(S, s.base, Node(p[1], s.level))
      BY <2>1, <3>2, <3>3 DEF Rooted
    <3>5. /\ p[1] \in Names /\ s.str \in Names /\ s.base \in Nat /\ s.level \in Nat
          /\ s.level <= v
      <4>1. p[1] \in Names /\ s.str \in Names /\ s.base \in Nat /\ s.level \in Nat
        BY <1>6, <2>5, LinkedIs
      <4>2. s.level <= v
        BY <1>6, ThereCell
      <4> QED
        BY <4>1, <4>2
    <3> HIDE DEF s
    <3>6. CASE s.base = v + 1
      <4>1. Listed(S, s.base, Node(p[1], s.level)) /\ s.base = S.lv /\ s.base \in 1..MaxLevel
            /\ s.level \in 0..v /\ s.base > v
        BY <1>2, <3>4, <3>5, <3>6, MaxLevelType
      <4>2. Listed(U, s.base, Node(p[1], s.level))
        BY <3>5, <4>1 DEF Fade
      <4>3. Node(p[1], s.level) \in D
        BY <4>1, <4>2
      <4> QED
        BY <4>1, <4>3
    <3>7. CASE s.base # v + 1
      <4>1. s.base <= v /\ s.base \in 0..v /\ s.level \in 0..v
        BY <1>2, <3>4, <3>5, <3>7
      <4>2. ASSUME s.base > 0, s.str \in Refs
            PROVE  Has(B, s.str, s.base) \/ (B.err /\ Empty(B, s.str))
        <5>1. CASE Has(S, s.str, s.base)
          BY <1>3, <3>5, <4>1, <5>1 DEF Fade
        <5>2. CASE S.err /\ Empty(S, s.str)
          BY <1>3, <3>5, <5>2 DEF Fade
        <5> QED
          BY <3>4, <4>2, <5>1, <5>2
      <4>3. ASSUME s.base > s.level
            PROVE  Listed(B, s.base, Node(p[1], s.level))
        <5>1. s.base \in 1..MaxLevel /\ s.base \in 1..v
          BY <1>2, <3>5, <4>1, <4>3, MaxLevelType
        <5>2. Listed(U, s.base, Node(p[1], s.level))
          BY <3>4, <3>5, <4>1, <4>3, <5>1 DEF Fade
        <5> QED
          BY <5>1, <5>2
      <4>4. Rooted(B, p[1], s)
        BY <4>1, <4>2, <4>3 DEF Rooted
      <4> QED
        BY <4>4
    <3> QED
      BY <3>6, <3>7
  <2> QED
    BY <2>4, <2>5
<1> QED
  BY <1>5, <1>6 DEF Clear

LEMMA ClearMore ==
    ASSUME NEW S, NEW D, NEW X, NEW E, Clear(S, D, X), D \subseteq E
    PROVE  Clear(S, E, X)
BY DEF Clear

\* A listed reference has been looked at.
LEMMA ResetScopeClear ==
    ASSUME NEW S, Sound(S, S.lv), NEW D, Clear(S, D, {}), NEW e \in Entry
    PROVE  LET T == ResetScope(S, e)
           IN  Sound(T, T.lv) /\ T.lv = S.lv /\ Clear(T, D \ {e}, {})
<1> DEFINE at == {i \in 1..Len(S.tab[e.n]) : S.tab[e.n][i].level = e.level}
           i == CHOOSE i \in at : TRUE
           p == <<e.n, i>>
           z == 0
           s == At(S, p)
           w == WithBase(s, z)
           P == Put(S, p, w)
           resets == at # {} /\ s.ref /\ s.set /\ s.base > S.lv
           T == ResetScope(S, e)
<1>1. T = IF resets THEN setscope(P, p) ELSE S
  BY DEF ResetScope, WithBase
<1>2. S \in State /\ e.n \in Names /\ e = Node(e.n, e.level)
  BY DEF Sound, Entry, Node
<1>3. z \in 0..MaxLevel /\ z = 0
  BY MaxLevelType
<1>4. at # {} => i \in at
  OBVIOUS
<1>5. Len(S.tab[e.n]) \in Nat
  BY <1>2, StateFacts
<1>6. p[1] = e.n /\ p[2] = i
  OBVIOUS
<1> HIDE DEF i, z, p, T
<1>7. ASSUME at # {}
      PROVE  There(S, p) /\ s.level = e.level
  <2>1. i \in 1..Len(S.tab[e.n]) /\ S.tab[e.n][i].level = e.level
    BY <1>4, <1>7
  <2>2. i \in Nat \ {0} /\ i <= Len(S.tab[e.n])
    BY <1>5, <2>1
  <2>3. p = <<e.n, i>>
    BY DEF p
  <2>4. There(S, p)
    BY <1>2, <1>6, <2>2, <2>3 DEF There
  <2> QED
    BY <1>6, <2>1, <2>4 DEF At
<1>8. CASE resets
  <2>1. There(S, p) /\ s.level = e.level /\ s.ref
    BY <1>7, <1>8
  <2>2. s \in Cell /\ CellOK(p[1], s)
    BY <2>1, ThereCell
  <2>3. w \in Cell /\ CellOK(p[1], w) /\ w.level = s.level
    BY <1>3, <2>2, WithBaseIs
  <2>4. w.ref /\ w.base = 0
    <3> DEFINE c == s
    <3>0. c \in Cell /\ c.ref
      BY <2>1, <2>2
    <3> HIDE DEF c
    <3>1. WithBase(c, z) = Struct8(c.level, c.str, c.set, c.declared, c.ref, c.exported, c.env, z)
      BY <3>0, CellChanged
    <3>2. WithBase(c, z).ref = c.ref /\ WithBase(c, z).base = z
      BY <3>1, Struct8Has
    <3> QED
      BY <1>3, <3>0, <3>2 DEF c
  <2> HIDE DEF w, resets, at
  <2> DEFINE U == setscope(P, p)
             d == Node(p[1], At(S, p).level)
  <2>5. Sound(U, U.lv) /\ U.lv = S.lv /\ Clear(U, D \ {d}, {})
    BY <2>1, <2>3, <2>4, NewScopeKeeps
  <2>6. d = e
    BY <1>2, <1>6, <2>1
  <2>7. T = U
    BY <1>1, <1>8
  <2> HIDE DEF U, d
  <2>8. Sound(T, T.lv) /\ T.lv = S.lv /\ Clear(T, D \ {e}, {})
    BY <2>5, <2>6, <2>7
  <2> QED
    BY <2>8 DEF T
<1>9. CASE ~resets
  <2>1. ASSUME NEW q, There(S, q), At(S, q).ref, IsRef(At(S, q)), At(S, q).base > S.lv,
               Node(q[1], At(S, q).level) = e
        PROVE  FALSE
    <3>1. q[1] \in Names /\ q[2] \in 1..Len(S.tab[q[1]]) /\ At(S, q) = S.tab[q[1]][q[2]]
      BY <1>2, <2>1, ThereIs
    <3>2. q[1] = e.n /\ At(S, q).level = e.level
      BY <2>1 DEF Node
    <3>3. q[2] \in at
      BY <3>1, <3>2
    <3>4. There(S, p) /\ s.level = e.level /\ at # {}
      BY <1>7, <3>3
    <3>5. Spot(S, p) = Spot(S, q)
      BY <1>6, <3>2, <3>4 DEF Spot
    <3>6. p = q
      BY <2>1, <3>4, <3>5, SpotsDiffer
    <3> QED
      BY <1>9, <2>1, <3>4, <3>6 DEF IsRef
  <2> HIDE DEF resets
  <2>2. Clear(S, D \ {e}, {})
    BY <2>1 DEF Clear
  <2>3. T = S
    BY <1>1, <1>9
  <2>4. Sound(T, T.lv) /\ T.lv = S.lv /\ Clear(T, D \ {e}, {})
    BY <2>2, <2>3
  <2> QED
    BY <2>4 DEF T
<1> HIDE DEF resets
<1> QED
  BY <1>8, <1>9

\* The references listed from the i-th on.
From(list, i) == {list[j] : j \in i + 1..Len(list)}

LEMMA ResetAllClear ==
    ASSUME NEW S, Sound(S, S.lv), NEW list \in Seq(Entry), Clear(S, From(list, 0), {})
    PROVE  LET T == ResetAll(S, list)
           IN  Sound(T, T.lv) /\ T.lv = S.lv /\ Clear(T, {}, {})
<1> DEFINE n == Len(list)
           v == S.lv
           D(i) == From(list, i)
           Good(i, T) == Sound(T, T.lv) /\ T.lv = v /\ Clear(T, D(i), {})
           step(i, T) == ResetScope(T, list[i])
<1>1. PICK F : /\ ResetAll(S, list) = F[n] /\ F[0] = S
               /\ \A i \in 1..n : F[i] = step(i, F[i - 1])
  BY ResetAllFold
<1>2. n \in Nat /\ \A i \in 1..n : list[i] \in Entry
  OBVIOUS
<1>3. Good(0, F[0])
  BY <1>1
<1>4. ASSUME NEW i \in Nat, i + 1 \in 1..n, NEW T, Good(i, T)
      PROVE  Good(i + 1, step(i + 1, T))
  <2> DEFINE e == list[i + 1]
             R == ResetScope(T, e)
  <2>1. Sound(T, T.lv) /\ T.lv = v /\ Clear(T, D(i), {}) /\ e \in Entry
    BY <1>2, <1>4
  <2>2. D(i) \ {e} \subseteq D(i + 1)
    <3>1. ASSUME NEW x \in D(i), x # e PROVE x \in D(i + 1)
      <4>1. PICK j \in i + 1..n : x = list[j]
        BY <3>1 DEF From
      <4>2. j # i + 1
        BY <3>1, <4>1
      <4>3. j \in (i + 1) + 1..n
        BY <1>2, <1>4, <4>2
      <4> QED
        BY <4>1, <4>3 DEF From
    <3> QED
      BY <3>1
  <2> HIDE DEF D, e
  <2>3. Sound(R, R.lv) /\ R.lv = T.lv /\ Clear(R, D(i) \ {e}, {})
    BY <2>1, ResetScopeClear
  <2> HIDE DEF R
  <2>4. Clear(R, D(i + 1), {})
    BY <2>2, <2>3, ClearMore
  <2>5. Good(i + 1, R)
    BY <2>1, <2>3, <2>4
  <2> QED
    BY <2>5 DEF R, e
<1> HIDE DEF Good, step, n
<1> DEFINE V == {i \in Nat : i \in 0..n => Good(i, F[i])}
<1>5. 0 \in V
  BY <1>3
<1>6. ASSUME NEW i \in Nat, i \in V PROVE i + 1 \in V
  <2>1. ASSUME i + 1 \in 0..n PROVE Good(i + 1, F[i + 1])
    <3>1. i \in 0..n /\ i + 1 \in 1..n /\ (i + 1) - 1 = i
      BY <1>2, <2>1
    <3>2. Good(i, F[i])
      BY <1>6, <3>1
    <3>3. F[i + 1] = step(i + 1, F[i])
      BY <1>1, <3>1
    <3> QED
      BY <1>4, <3>1, <3>2, <3>3
  <2> QED
    BY <2>1
<1> HIDE DEF V
<1>7. \A i \in Nat : i \in V
  BY <1>5, <1>6, Induction
<1>8. Good(n, F[n])
  <2>1. n \in V /\ n \in 0..n
    BY <1>2, <1>7
  <2> QED
    BY <2>1 DEF V
<1>9. D(n) = {}
  <2>1. n + 1..n = {}
    BY <1>2
  <2> QED
    BY <2>1 DEF From, n
<1> HIDE DEF D
<1>10. Good(n, ResetAll(S, list))
  BY <1>1, <1>8
<1> QED
  BY <1>9, <1>10 DEF Good

\* endparamscope()
LEMMA endparamscopeStraight ==
    ASSUME NEW S, Straight(S), S.lv > 0
    PROVE  LET T == endparamscope(S)
           IN  Straight(T) /\ T.lv = S.lv - 1
<1> DEFINE T == endparamscope(S)
<1>1. Sound(S, S.lv) /\ Clear(S, {}, {}) /\ S \in State
  BY DEF Straight, Sound
<1>2. PICK A, B : \E list \in Seq(Entry) :
              /\ endparamscope(S) = ResetAll(B, list)
              /\ Sound(A, A.lv + 1) /\ A.tab = S.tab /\ A.environ = S.environ
              /\ Sound(B, S.lv - 1) /\ B.lv = S.lv - 1
              /\ B.tab = ScanAll(A).tab /\ B.environ = ScanAll(A).environ
              /\ A.refs = S.refs /\ A.err = S.err /\ A.lv = S.lv - 1
              /\ B.err = ScanAll(A).err /\ list = ScanAll(A).refs[S.lv]
              /\ \A b \in 1..B.lv : B.refs[b] = ScanAll(A).refs[b]
  BY <1>1, endparamscopeMore
<1>3. PICK list \in Seq(Entry) :
              /\ endparamscope(S) = ResetAll(B, list)
              /\ Sound(A, A.lv + 1) /\ A.tab = S.tab
              /\ Sound(B, B.lv) /\ B.lv = S.lv - 1
              /\ B.tab = ScanAll(A).tab
              /\ A.refs = S.refs /\ A.err = S.err /\ A.lv = B.lv
              /\ B.err = ScanAll(A).err /\ list = ScanAll(A).refs[S.lv]
              /\ \A b \in 1..B.lv : B.refs[b] = ScanAll(A).refs[b]
  BY <1>2
<1> DEFINE U == ScanAll(A)
           D == From(list, 0)
<1>4. Fade(A, U, B.lv)
  BY <1>3, ScanAllFade
<1> HIDE DEF U
<1>5. S.lv = B.lv + 1
  <2>1. S.lv \in 0..MaxLevel
    BY <1>1 DEF State
  <2> QED
    BY <1>3, <2>1, MaxLevelType
<1>6. Fade(S, U, B.lv)
  BY <1>3, <1>4 DEF Fade, Has, Empty, Lowest, Listed
<1>7. \A e : Listed(U, S.lv, e) => e \in D
  BY <1>3 DEF Listed, From, U
<1>8. \A b \in 1..B.lv : \A e : Listed(U, b, e) => Listed(B, b, e)
  BY <1>3 DEF Listed, U
<1>9. B.tab = U.tab /\ B.err = U.err
  BY <1>3 DEF U
<1> HIDE DEF D
<1>10. Clear(B, D, {})
  BY <1>3, <1>5, <1>6, <1>7, <1>8, <1>9, FadeClear
<1> DEFINE R == ResetAll(B, list)
<1>11. Sound(R, R.lv) /\ R.lv = B.lv /\ Clear(R, {}, {})
  BY <1>3, <1>10, ResetAllClear DEF D
<1> HIDE DEF R, T
<1>12. T = R
  BY <1>3 DEF T, R
<1>13. Straight(T) /\ T.lv = S.lv - 1
  BY <1>3, <1>11, <1>12 DEF Straight
<1> QED
  BY <1>13 DEF T

-----------------------------------------------------------------------------
(* Assignments in front of a command and references.                       *)

\* A name that is never a reference changes.
LEMMA PlainClear ==
    ASSUME NEW S, Sound(S, S.lv), NEW T, Sound(T, T.lv), T.lv = S.lv, NEW D, NEW X, Clear(S, D, X),
           NEW n \in Names \ Refs, \A m \in Names \ {n} : T.tab[m] = S.tab[m],
           S.err => T.err, Lists(S, T, n, {})
    PROVE  Clear(T, D, X)
<1>1. Refs \subseteq Names
  BY ConstantsType
<1>2. \A m \in Refs : m \in Names \ {n}
  BY <1>1
<1>3. \A m \in Refs : /\ Empty(T, m) <=> Empty(S, m)
                      /\ Lowest(T, m) = Lowest(S, m)
                      /\ \A v : Has(T, m, v) <=> Has(S, m, v)
  BY <1>2 DEF Empty, Lowest, Has
<1>4. \A m \in Refs : Empty(S, m) => \A v : ~Has(S, m, v)
  BY <1>1, HasIs
<1>5. ASSUME NEW q, There(T, q), At(T, q).ref
      PROVE  /\ Blank0(At(T, q))
             /\ IsRef(At(T, q)) /\ Spot(T, q) \notin {} =>
                  \E o : /\ There(S, o) /\ IsRef(At(S, o)) /\ Spot(S, o) = Spot(T, q)
                         /\ At(S, o).str = At(T, q).str /\ At(S, o).base = At(T, q).base
  <2>1. CellOK(q[1], At(T, q)) /\ q[1] \in Names
    BY <1>5, ThereCell
  <2>2. q[1] \in Names \ {n}
    BY <1>2, <1>5, <2>1 DEF CellOK
  <2>3. T.tab[q[1]] = S.tab[q[1]]
    BY <2>2
  <2>4. There(S, q) /\ At(S, q) = At(T, q) /\ Spot(S, q) = Spot(T, q)
    BY <1>5, <2>3 DEF There, At, Spot
  <2>5. Blank0(At(T, q))
    BY <1>5, <2>4 DEF Clear
  <2> QED
    BY <2>4, <2>5
<1>6. \A b \in 1..MaxLevel : \A m \in Refs : \A v :
         Listed(S, b, Node(m, v)) /\ Has(T, m, v) => Listed(T, b, Node(m, v))
  BY <1>2 DEF Lists
<1>7. \A m \in Refs :
         /\ ~Empty(T, m) /\ ~Empty(S, m) =>
               Lowest(T, m) = Lowest(S, m) /\ \A v : Has(S, m, v) => Has(T, m, v)
         /\ Empty(T, m) => T.err \/ \A v : Has(S, m, v) => v = 0
         /\ S.err /\ Empty(S, m) => Empty(T, m)
  BY <1>3, <1>4
<1>8. Carries(S, T, {})
  BY <1>5, <1>6, <1>7 DEF Carries
<1>9. Clear(T, D, X \cup {})
  BY <1>8, Carry
<1>10. X \cup {} = X
  OBVIOUS
<1> QED
  BY <1>9, <1>10

LEMMA save_paramsKeeps ==
    ASSUME NEW S, Straight(S), NEW n \in Names
    PROVE  Keeps(S, save_params(S, n)) /\ save_params(S, n).err = S.err
<1>1. S \in State
  BY DEF Straight, Sound
<1>2. CASE S.tab[n] = <<>>
  BY <1>2, KeepsSame DEF save_params
<1>3. CASE S.tab[n] # <<>>
  <2> DEFINE p == <<n, 1>>
  <2>1. There(S, p)
    BY <1>1, <1>3, VisibleIs
  <2> HIDE DEF p
  <2>2. Keeps(S, delenv(S, p)) /\ delenv(S, p).err = S.err
    BY <2>1, delenvKeeps
  <2> QED
    BY <1>3, <2>2 DEF save_params, p
<1> QED
  BY <1>2, <1>3

\* restore_params() of a name that is never a reference.
LEMMA restore_paramsKeeps ==
    ASSUME NEW S, Straight(S), NEW n \in Names \ Refs, NEW copy, CopyOK(n, copy, S.lv)
    PROVE  Keeps(S, restore_params(S, n, copy))
<1> DEFINE p == <<n, 1>>
           T == IF S.tab[n] = <<>> THEN S ELSE unsetparam_pm(S, p)
           U == Placed(T, n, copy)
           back == copy.exported /\ copy.set
<1>1. restore_params(S, n, copy) =
        IF copy = None THEN T
        ELSE IF back THEN addenv(U, p, copy.str) ELSE U
  BY Zenon DEF restore_params, Placed
<1>2. p \in Names \X (Nat \ {0}) /\ p[2] = 1
  OBVIOUS
<1>3. Keeps(S, T)
  <2> HIDE DEF p
  <2>1. Keeps(S, unsetparam_pm(S, p))
    BY <1>2, unsetKeeps
  <2> QED
    BY <2>1, KeepsSame
<1> HIDE DEF T
<1>4. Straight(T) /\ Sound(T, T.lv) /\ T.lv = S.lv /\ Clear(T, {}, {}) /\ T \in State
  BY <1>3 DEF Keeps, Straight, Sound
<1>5. ASSUME copy # None
      PROVE  Keeps(S, U) /\ Keeps(S, addenv(U, p, copy.str))
  <2>1. copy \in Cell /\ CellOK(n, copy) /\ copy.level <= S.lv
    BY <1>5 DEF CopyOK
  <2>2. Step(T, U, T.lv) /\ There(U, p)
    BY <1>4, <2>1, PlacedIs
  <2>3. Sound(U, U.lv) /\ U.lv = T.lv
    BY <2>2 DEF Step
  <2>4. (\A m \in Names \ {n} : U.tab[m] = T.tab[m]) /\ U.err = T.err /\ U.refs = T.refs
    <3> DEFINE x == <<copy>> \o SubSeq(T.tab[n],
                      Greatest({0} \cup {i \in 1..Len(T.tab[n]) : T.tab[n][i].level >= copy.level}) + 1,
                      Len(T.tab[n]))
    <3>1. U = [T EXCEPT !.tab[n] = x]
      BY Zenon DEF Placed
    <3> HIDE DEF x, U
    <3>2. T.tab \in [Names -> Seq(Cell)]
      BY <1>4 DEF State
    <3>3. U.err = T.err /\ U.refs = T.refs /\ U.tab = [T.tab EXCEPT ![n] = x]
      BY <1>4, <3>1 DEF State
    <3> QED
      BY <3>2, <3>3
  <2>5. Lists(T, U, n, {})
    BY <2>4, RestLists DEF Rest
  <2> HIDE DEF U
  <2>6. Clear(U, {}, {})
    BY <1>4, <2>3, <2>4, <2>5, PlainClear
  <2>7. Keeps(S, U)
    BY <1>4, <2>3, <2>6 DEF Keeps, Straight
  <2>8. copy.str \in Str
    BY <2>1, CellIs
  <2>9. Keeps(U, addenv(U, p, copy.str))
    BY <2>2, <2>7, <2>8, addenvKeeps DEF Keeps
  <2>10. Keeps(S, addenv(U, p, copy.str))
    BY <2>7, <2>9, KeepsMore
  <2> QED
    BY <2>7, <2>10
<1> HIDE DEF U, back, p
<1> QED
  BY <1>1, <1>3, <1>5

-----------------------------------------------------------------------------
(* Functions and commands under way, down to the prompt.                   *)

\* Outside the last frame there is no scope; none of them saves a reference.
Grounded(fr, l) ==
    /\ \E d : Depths(fr, l, d) /\ d[Len(fr)] = 0
    /\ \A i \in 1..Len(fr) : fr[i].n = None \/ fr[i].n \notin Refs

LEMMA GroundedEnd ==
    ASSUME NEW fr \in Seq(Frame), NEW l \in Nat, Grounded(fr, l), fr # <<>>
    PROVE  /\ Grounded(Tail(fr), Outside(Head(fr), l))
           /\ Head(fr).n = None \/ Head(fr).n \notin Refs
<1>1. Len(fr) \in Nat /\ Len(fr) > 0 /\ Head(fr) = fr[1] /\ Len(fr) \in 0..Len(fr)
  OBVIOUS
<1>2. PICK d : Depths(fr, l, d) /\ d[Len(fr)] = 0
  BY DEF Grounded
<1>3. /\ d \in [0..Len(fr) -> Nat] /\ d[0] = l
      /\ \A i \in 1..Len(fr) : d[i] = Outside(fr[i], d[i - 1]) /\ FrameOK(fr[i], d[i])
  BY <1>2 DEF Depths
<1>4. 1 \in 1..Len(fr) /\ 1 \in 0..Len(fr) /\ 1 - 1 = 0
  BY <1>1
<1>5. d[1] = Outside(fr[1], l) /\ FrameOK(fr[1], d[1]) /\ d[1] \in Nat
  BY <1>3, <1>4
<1> DEFINE g == Tail(fr)
           e == [i \in 0..Len(g) |-> d[i + 1]]
<1>6. Len(g) = Len(fr) - 1 /\ \A i \in 1..Len(g) : g[i] = fr[i + 1]
  BY <1>1
<1> HIDE DEF g
<1>7. \A i \in 0..Len(g) : i + 1 \in 0..Len(fr) /\ i + 1 \in 1..Len(fr)
  BY <1>1, <1>6
<1>8. e \in [0..Len(g) -> Nat] /\ e[0] = d[1] /\ \A i \in 0..Len(g) : e[i] = d[i + 1]
  BY <1>1, <1>3, <1>6, <1>7
<1> HIDE DEF e
<1>9. ASSUME NEW i \in 1..Len(g)
      PROVE  e[i] = Outside(g[i], e[i - 1]) /\ FrameOK(g[i], e[i])
  <2>1. i \in 0..Len(g) /\ i - 1 \in 0..Len(g) /\ (i - 1) + 1 = i /\ (i + 1) - 1 = i
        /\ i + 1 \in 1..Len(fr)
    BY <1>1, <1>6
  <2>2. e[i] = d[i + 1] /\ e[i - 1] = d[i] /\ g[i] = fr[i + 1]
    BY <1>6, <1>8, <2>1
  <2>3. d[i + 1] = Outside(fr[i + 1], d[i]) /\ FrameOK(fr[i + 1], d[i + 1])
    BY <1>3, <2>1
  <2> QED
    BY <2>2, <2>3
<1>10. Depths(g, d[1], e)
  BY <1>8, <1>9 DEF Depths
<1>11. e[Len(g)] = 0
  <2>1. Len(g) \in 0..Len(g) /\ Len(g) + 1 = Len(fr)
    BY <1>1, <1>6
  <2> QED
    BY <1>2, <1>8, <2>1
<1>12. \A i \in 1..Len(g) : g[i].n = None \/ g[i].n \notin Refs
  <2>1. \A i \in 1..Len(g) : g[i] = fr[i + 1] /\ i + 1 \in 1..Len(fr)
    BY <1>1, <1>6
  <2> QED
    BY <2>1 DEF Grounded
<1>13. Grounded(g, d[1])
  BY <1>10, <1>11, <1>12 DEF Grounded
<1> QED
  BY <1>1, <1>4, <1>5, <1>13 DEF g, Grounded

LEMMA GroundedBegin ==
    ASSUME NEW fr \in Seq(Frame), NEW l \in Nat, Grounded(fr, l), NEW f, FrameOK(f, l),
           f.n = None \/ f.n \notin Refs, NEW m \in Nat, Outside(f, m) = l
    PROVE  Grounded(<<f>> \o fr, m)
<1>1. Len(fr) \in Nat /\ f \in Frame /\ Len(fr) \in 0..Len(fr)
  BY DEF FrameOK
<1>2. PICK d : Depths(fr, l, d) /\ d[Len(fr)] = 0
  BY DEF Grounded
<1>3. /\ d \in [0..Len(fr) -> Nat] /\ d[0] = l
      /\ \A i \in 1..Len(fr) : d[i] = Outside(fr[i], d[i - 1]) /\ FrameOK(fr[i], d[i])
  BY <1>2 DEF Depths
<1> DEFINE g == <<f>> \o fr
           e == [i \in 0..Len(g) |-> IF i = 0 THEN m ELSE d[i - 1]]
<1>4. Len(g) = Len(fr) + 1 /\ g[1] = f /\ \A i \in 2..Len(g) : g[i] = fr[i - 1]
  BY <1>1
<1> HIDE DEF g
<1>5. \A i \in 1..Len(g) : i - 1 \in 0..Len(fr)
  BY <1>1, <1>4
<1>6. e \in [0..Len(g) -> Nat] /\ e[0] = m /\ \A i \in 1..Len(g) : e[i] = d[i - 1]
  <2>1. Len(g) \in Nat
    BY <1>1, <1>4
  <2>2. \A i \in 0..Len(g) : i = 0 \/ i \in 1..Len(g)
    BY <2>1
  <2> QED
    BY <1>3, <1>5, <2>1, <2>2
<1> HIDE DEF e
<1>7. ASSUME NEW i \in 1..Len(g)
      PROVE  /\ e[i] = Outside(g[i], e[i - 1]) /\ FrameOK(g[i], e[i])
             /\ g[i].n = None \/ g[i].n \notin Refs
  <2>1. CASE i = 1
    BY <1>3, <1>4, <1>6, <2>1
  <2>2. CASE i # 1
    <3>1. i \in 2..Len(g) /\ i - 1 \in 1..Len(fr) /\ i - 1 \in 1..Len(g)
      BY <1>1, <1>4, <2>2
    <3>2. e[i] = d[i - 1] /\ e[i - 1] = d[(i - 1) - 1] /\ g[i] = fr[i - 1]
      BY <1>4, <1>6, <3>1
    <3>3. d[i - 1] = Outside(fr[i - 1], d[(i - 1) - 1]) /\ FrameOK(fr[i - 1], d[i - 1])
          /\ (fr[i - 1].n = None \/ fr[i - 1].n \notin Refs)
      BY <1>3, <3>1 DEF Grounded
    <3> QED
      BY <3>2, <3>3
  <2> QED
    BY <2>1, <2>2
<1>8. Depths(g, m, e)
  BY <1>6, <1>7 DEF Depths
<1>9. e[Len(g)] = 0
  <2>1. Len(g) \in 1..Len(g) /\ Len(g) - 1 = Len(fr)
    BY <1>1, <1>4
  <2> QED
    BY <1>2, <1>6, <2>1
<1>10. Grounded(g, m)
  BY <1>7, <1>8, <1>9 DEF Grounded
<1> QED
  BY <1>10 DEF g

\* The state of the table when a command has ended, or begun.
LEMMA OtherClear ==
    ASSUME NEW S, Straight(S), NEW T, T.tab = S.tab, T.refs = S.refs, T.lv \in Nat, S.lv <= T.lv,
           T.err = S.err \/ S.lv = 0
    PROVE  Clear(T, {}, {})
<1>1. Sound(S, S.lv) /\ Clear(S, {}, {}) /\ S.lv \in Nat
  <2>1. S.lv \in 0..MaxLevel
    BY DEF Straight, Sound, State
  <2> QED
    BY <2>1, MaxLevelType DEF Straight
<1>2. /\ \A p : (There(T, p) <=> There(S, p)) /\ At(T, p) = At(S, p) /\ Spot(T, p) = Spot(S, p)
      /\ \A m : (Empty(T, m) <=> Empty(S, m)) /\ Lowest(T, m) = Lowest(S, m)
      /\ \A m, v : Has(T, m, v) <=> Has(S, m, v)
      /\ \A b, e : Listed(T, b, e) <=> Listed(S, b, e)
  BY DEF There, At, Spot, Empty, Lowest, Has, Listed
<1>3. ASSUME NEW p, There(S, p), IsRef(At(S, p))
      PROVE  Rooted(S, p[1], At(S, p)) /\ Rooted(T, p[1], At(S, p)) /\ At(S, p).base <= S.lv
  <2> DEFINE s == At(S, p)
             n == p[1]
  <2>1. Rooted(S, n, s)
    <3>1. Rooted(S, n, s) \/ (s.base > S.lv /\ Node(n, s.level) \in {})
      BY <1>1, <1>3 DEF Clear, IsRef
    <3> QED
      BY <3>1
  <2>2. s.base \in Nat
    BY <1>1, <1>3, LinkedIs
  <2> HIDE DEF s, n
  <2>3. /\ s.base <= S.lv
        /\ s.base > 0 /\ s.str \in Refs => Has(S, s.str, s.base) \/ (S.err /\ Empty(S, s.str))
        /\ s.base > s.level => Listed(S, s.base, Node(n, s.level))
    BY <2>1 DEF Rooted
  <2>4. s.base <= T.lv
    BY <1>1, <2>2, <2>3
  <2>5. ASSUME s.base > 0, s.str \in Refs PROVE Has(T, s.str, s.base) \/ (T.err /\ Empty(T, s.str))
    <3>1. S.lv # 0
      BY <1>1, <2>2, <2>3, <2>5
    <3> QED
      BY <1>2, <2>3, <2>5, <3>1
  <2>6. s.base > s.level => Listed(T, s.base, Node(n, s.level))
    BY <1>2, <2>3
  <2>7. Rooted(T, n, s)
    BY <2>4, <2>5, <2>6 DEF Rooted
  <2> QED
    BY <2>1, <2>3, <2>7 DEF s, n
<1>4. ASSUME NEW C, Circle(T, C) PROVE C \cap {} # {}
  <2>1. ASSUME NEW x \in C
        PROVE  \E m, b : /\ Linked(S, x, m, b)
                         /\ b <= S.lv /\ ~Empty(S, m)
                         /\ <<m, IF b = 0 THEN Lowest(S, m) ELSE b>> \in C
    <3>1. PICK m, b : /\ Linked(T, x, m, b)
                      /\ b <= T.lv /\ ~Empty(T, m)
                      /\ <<m, IF b = 0 THEN Lowest(T, m) ELSE b>> \in C
      BY <1>4 DEF Circle
    <3>2. PICK p : /\ There(T, p) /\ Spot(T, p) = x
                   /\ IsRef(At(T, p)) /\ At(T, p).str = m /\ At(T, p).base = b
      BY <3>1 DEF Linked
    <3>3. /\ There(S, p) /\ Spot(S, p) = x
          /\ IsRef(At(S, p)) /\ At(S, p).str = m /\ At(S, p).base = b
      BY <1>2, <3>2
    <3>4. Linked(S, x, m, b) /\ b <= S.lv
      BY <1>3, <3>3 DEF Linked
    <3> QED
      BY <1>2, <3>1, <3>4
  <2>2. C # {}
    BY <1>4 DEF Circle
  <2>3. Circle(S, C)
    BY <2>1, <2>2 DEF Circle
  <2> QED
    BY <1>1, <2>3 DEF Clear
<1>5. ASSUME NEW p, There(T, p), At(T, p).ref
      PROVE  /\ IsRef(At(T, p)) /\ Spot(T, p) \notin {} =>
                  \/ Rooted(T, p[1], At(T, p))
                  \/ At(T, p).base > T.lv /\ Node(p[1], At(T, p).level) \in {}
             /\ Blank0(At(T, p))
  <2>1. There(S, p) /\ At(T, p) = At(S, p)
    BY <1>2, <1>5
  <2>2. Blank0(At(S, p))
    BY <1>1, <1>5, <2>1 DEF Clear
  <2>3. IsRef(At(S, p)) => Rooted(T, p[1], At(S, p))
    BY <1>3, <2>1
  <2> QED
    BY <2>1, <2>2, <2>3
<1> QED
  BY <1>4, <1>5 DEF Clear

-----------------------------------------------------------------------------
(* References lead in no circle.                                           *)

CInv == IInv /\ Clear(S0, {}, {}) /\ Grounded(frames, locallevel)

LEMMA CInvIs ==
    ASSUME CInv
    PROVE  /\ IInv /\ StateOK /\ Straight(S0) /\ S0.lv = locallevel /\ S0.err = errflag
           /\ locallevel \in 0..MaxLevel /\ locallevel \in Nat
           /\ frames \in Seq(Frame) /\ FramesOK(frames, locallevel) /\ Grounded(frames, locallevel)
           /\ frames = <<>> => locallevel = 0
<1>1. IInv /\ Clear(S0, {}, {}) /\ Grounded(frames, locallevel) /\ StateOK
  BY DEF CInv, IInv
<1>2. Sound(S0, S0.lv) /\ S0.lv = locallevel /\ locallevel \in 0..MaxLevel /\ locallevel \in Nat
      /\ FramesOK(frames, locallevel)
  BY <1>1, InvIs
<1>3. S0.err = errflag
  BY DEF S0
<1>4. frames \in Seq(Frame)
  BY <1>2 DEF FramesOK
<1>5. frames = <<>> => locallevel = 0
  BY <1>1 DEF Grounded, Depths
<1> QED
  BY <1>1, <1>2, <1>3, <1>4, <1>5 DEF Straight

LEMMA BecomeClear ==
    ASSUME NEW S, Straight(S), Become(S), frames' = <<>> => S.lv = 0
    PROVE  Clear((S0)', {}, {})
<1> DEFINE x == errflag'
           M == Made(S.tab, S.environ, S.refs, S.dead, S.lv, x)
<1>1. S \in State /\ S.err \in BOOLEAN /\ S.lv \in 0..MaxLevel
  <2>1. S \in State
    BY DEF Straight, Sound
  <2> QED
    BY <2>1 DEF State
<1>2. S.lv \in Nat
  BY <1>1, MaxLevelType
<1>3. x = (S.err /\ frames' # <<>>)
  BY DEF Become
<1>4. x = S.err \/ S.lv = 0
  BY <1>1, <1>3
<1>5. /\ tab' = S.tab /\ environ' = S.environ /\ scoperefs' = S.refs /\ dead' = S.dead
      /\ locallevel' = S.lv
  BY DEF Become
<1>6. (S0)' = M
  BY <1>5 DEF S0, Made
<1> HIDE DEF x
<1>7. M.tab = S.tab /\ M.refs = S.refs /\ M.lv = S.lv /\ M.err = x
  BY MadeHas
<1> HIDE DEF M
<1>8. M.lv \in Nat /\ S.lv <= M.lv /\ (M.err = S.err \/ S.lv = 0)
  BY <1>2, <1>4, <1>7
<1>9. Clear(M, {}, {})
  BY <1>7, <1>8, OtherClear
<1> QED
  BY <1>6, <1>9

LEMMA DoClear ==
    ASSUME CInv, NEW S, Keeps(S0, S), Do(S)
    PROVE  CInv'
<1>1. IInv /\ S0.lv = locallevel /\ Grounded(frames, locallevel) /\ (frames = <<>> => locallevel = 0)
  BY CInvIs
<1>2. Straight(S) /\ S.lv = locallevel /\ Step(S0, S, locallevel)
  BY <1>1 DEF Keeps, Straight, Step
<1>3. IInv' /\ locallevel' = locallevel
  BY <1>1, <1>2, DoIs
<1>4. frames' = frames /\ Become(S)
  BY DEF Do
<1>5. Clear((S0)', {}, {})
  BY <1>1, <1>2, <1>4, BecomeClear
<1> QED
  BY <1>1, <1>3, <1>4, <1>5 DEF CInv

LEMMA AssignClear ==
    ASSUME CInv, NEW n \in Names, NEW v \in Values[n], Assign(n, v)
    PROVE  CInv'
<1> DEFINE no == FALSE
<1>1. v \in Str /\ no \in BOOLEAN
  BY ValuesIs
<1>2. Straight(S0) /\ ~S0.err
  BY CInvIs DEF Assign, Do
<1> HIDE DEF no
<1>3. Keeps(S0, assignsparam(S0, n, v, no).S)
  BY <1>1, <1>2, assignsparamKeeps
<1> QED
  BY <1>3, DoClear DEF Assign, no

LEMMA ForClear ==
    ASSUME CInv, NEW n \in Names, NEW v \in Values[n], For(n, v)
    PROVE  CInv'
<1>1. v \in Str \cap Names
  BY ValuesIs DEF For
<1>2. Straight(S0) /\ ~S0.err
  BY CInvIs DEF For, Do
<1>3. Keeps(S0, setloopvar(S0, n, v))
  BY <1>1, <1>2, setloopvarKeeps
<1> QED
  BY <1>3, DoClear DEF For

\* typeset on a parameter that is not made a reference.
LEMMA DeclareKeeps ==
    ASSUME CInv, ~S0.err, NEW n \in Names, NEW F, NEW G, "n" \notin F, "n" \notin G,
           "l" \in F => Declarable(S0, n), NEW v \in Str \cup {None}
    PROVE  Keeps(S0, typeset_single(S0, n, Visible(S0, n), Flags(F), Flags(G), v))
<1> DEFINE on == Flags(F)
           off == Flags(G)
           o == Visible(S0, n)
           p == Meant(S0, o, on, off)
           m == Name(n, p)
<1>1. Straight(S0) /\ Sound(S0, S0.lv) /\ S0 \in State
  BY CInvIs DEF Straight, Sound
<1>2. on \in Opts /\ ~on.ref /\ ~off.ref /\ (on.local => "l" \in F)
  BY FlagsIs
<1> HIDE DEF on, off
<1>3. o # None => There(S0, o)
  BY <1>1, VisibleIs
<1>4. Fits(m, on)
  BY <1>2 DEF Fits
<1>5. LocalOK(S0, m, on)
  <2>1. CASE on.local
    BY <1>1, <1>2, <2>1, DeclaredOK
  <2>2. CASE ~on.local
    BY <2>2, NotLocalOK
  <2> QED
    BY <2>1, <2>2
<1> HIDE DEF o
<1>6. Keeps(S0, typeset_single(S0, n, o, on, off, v))
  BY <1>1, <1>3, <1>4, <1>5, typeset_singleKeeps
<1> QED
  BY <1>6 DEF o, on, off

LEMMA LocalClear ==
    ASSUME NoHidden, CInv, NEW n \in Names, NEW v \in Given(n), Local(n, v) \/ LocalExport(n, v)
    PROVE  CInv'
<1>1. v \in Str \cup {None} /\ StateOK
  BY ValuesIs, CInvIs
<1>2. Declarable(S0, n) /\ ~S0.err
  BY <1>1, MayDeclareIs, CInvIs DEF Local, LocalExport, Do
<1>3. "n" \notin {"l"} /\ "n" \notin {"l", "x"} /\ "n" \notin {}
  OBVIOUS
<1>4. /\ Keeps(S0, typeset_single(S0, n, Visible(S0, n), Flags({"l"}), Flags({}), v))
      /\ Keeps(S0, typeset_single(S0, n, Visible(S0, n), Flags({"l", "x"}), Flags({}), v))
  BY <1>1, <1>2, <1>3, DeclareKeeps
<1> QED
  BY <1>4, DoClear DEF Local, LocalExport

LEMMA GlobalClear ==
    ASSUME CInv, NEW n \in Names, NEW v \in Given(n), Global(n, v) \/ Export(n, v)
    PROVE  CInv'
<1>1. v \in Str \cup {None} /\ ~S0.err
  BY ValuesIs, CInvIs DEF Global, Export, Do
<1>2. "n" \notin {} /\ "n" \notin {"x"} /\ "l" \notin {} /\ "l" \notin {"x"}
  OBVIOUS
<1>3. /\ Keeps(S0, typeset_single(S0, n, Visible(S0, n), Flags({}), Flags({}), v))
      /\ Keeps(S0, typeset_single(S0, n, Visible(S0, n), Flags({"x"}), Flags({}), v))
  BY <1>1, <1>2, DeclareKeeps
<1> QED
  BY <1>3, DoClear DEF Global, Export

LEMMA UnexportClear ==
    ASSUME CInv, NEW n \in Names, Unexport(n)
    PROVE  CInv'
<1>1. None \in Str \cup {None} /\ ~S0.err
  BY CInvIs DEF Unexport, Do
<1>2. "n" \notin {} /\ "n" \notin {"x"} /\ "l" \notin {}
  OBVIOUS
<1>3. Keeps(S0, typeset_single(S0, n, Visible(S0, n), Flags({}), Flags({"x"}), None))
  BY <1>1, <1>2, DeclareKeeps
<1> QED
  BY <1>3, DoClear DEF Unexport

LEMMA ReferenceClear ==
    ASSUME CInv, NEW n \in Names, NEW v \in Given(n), Reference(n, v) \/ GlobalReference(n, v)
    PROVE  CInv'
<1>1. n \in Refs /\ v \in Str \cup {None} /\ Straight(S0) /\ ~S0.err
  BY ValuesIs, CInvIs DEF Reference, GlobalReference, Do
<1>2. ASSUME NEW F, "n" \in F PROVE Keeps(S0, typeset_n(S0, n, Flags(F), v))
  <2> DEFINE on == Flags(F)
  <2>1. on \in Opts /\ on.ref
    BY <1>2, FlagsIs
  <2> HIDE DEF on
  <2>2. Fits(n, on)
    BY <1>1, <2>1 DEF Fits
  <2>3. Keeps(S0, typeset_n(S0, n, on, v))
    BY <1>1, <2>1, <2>2, typeset_nKeeps
  <2> QED
    BY <2>3 DEF on
<1>3. "n" \in {"l", "n"} /\ "n" \in {"n"}
  OBVIOUS
<1>4. /\ Keeps(S0, typeset_n(S0, n, Flags({"l", "n"}), v))
      /\ Keeps(S0, typeset_n(S0, n, Flags({"n"}), v))
  BY <1>2, <1>3
<1> QED
  BY <1>4, DoClear DEF Reference, GlobalReference

LEMMA DereferenceClear ==
    ASSUME CInv, NEW n \in Names, Dereference(n)
    PROVE  CInv'
<1> DEFINE on == Flags({"l"})
           off == Flags({"n"})
           o == Visible(S0, n)
<1>1. on \in Opts /\ ~on.ref /\ off.ref
  <2>1. "n" \notin {"l"} /\ "n" \in {"n"}
    OBVIOUS
  <2> QED
    BY <2>1, FlagsIs
<1> HIDE DEF on, off
<1>2. IInv /\ Straight(S0) /\ ~S0.err
  BY CInvIs DEF Dereference, Do
<1>3. o # None => There(S0, o)
  BY <1>2, InvIs, VisibleIs
<1> DEFINE p == Meant(S0, o, on, off)
<1>4. Used(S0, p, on) \/ LocalOK(S0, Name(n, p), on)
  BY <1>1, <1>2, InvIs, DereferenceOK
<1>5. Fits(Name(n, p), on)
  BY <1>1 DEF Fits
<1> DEFINE w == None
<1>6. w \in Str \cup {None}
  OBVIOUS
<1> HIDE DEF o, w
<1>7. Keeps(S0, typeset_single(S0, n, o, on, off, w))
  BY <1>2, <1>3, <1>4, <1>5, <1>6, typeset_singleKeeps
<1>8. Keeps(S0, typeset_single(S0, n, Visible(S0, n), Flags({"l"}), Flags({"n"}), None))
  BY <1>7 DEF o, w, on, off
<1> QED
  BY <1>8, DoClear DEF Dereference

\* `unset' revives the base of a reference.
Revives == \E n \in Names : Unset(n) /\ Revived(S0, n)

LEMMA UnsetClearly ==
    ASSUME CInv, NEW n \in Names, (Unset(n) /\ ~Revives) \/ UnsetReference(n)
    PROVE  CInv'
<1> DEFINE p == <<n, 1>>
<1>1. Straight(S0)
  BY CInvIs
<1>2. CASE Unset(n) /\ ~Revives
  <2>1. ~Revived(S0, n)
    BY <1>2 DEF Revives
  <2>2. Keeps(S0, unset(S0, n))
    BY <1>1, <2>1, unsetNameKeeps
  <2> QED
    BY <1>2, <2>2, DoClear DEF Unset
<1>3. CASE UnsetReference(n)
  <2>1. p \in Names \X (Nat \ {0}) /\ p[2] = 1
    OBVIOUS
  <2> HIDE DEF p
  <2>2. Keeps(S0, unsetparam_pm(S0, p))
    BY <1>1, <2>1, unsetKeeps
  <2> QED
    BY <1>3, <2>2, DoClear DEF UnsetReference, p
<1> QED
  BY <1>2, <1>3

\* A frame is begun at the level m.
LEMMA BeginClear ==
    ASSUME CInv, NEW f, FrameOK(f, locallevel), f.n = None \/ f.n \notin Refs,
           frames' = <<f>> \o frames, NEW S, Keeps(S0, S), NEW m,
           m = (IF f.func THEN locallevel + 1 ELSE locallevel), m <= MaxLevel,
           Become([S EXCEPT !.lv = m])
    PROVE  CInv'
<1> DEFINE T == [S EXCEPT !.lv = m]
<1>1. Straight(S) /\ Sound(S, S.lv) /\ S \in State /\ S.lv = locallevel /\ Step(S0, S, locallevel)
  BY CInvIs DEF Keeps, Straight, Sound, Step
<1>2. m \in 0..MaxLevel /\ locallevel <= m /\ m \in Nat /\ Outside(f, m) = locallevel
  BY CInvIs, MaxLevelType DEF Outside
<1>3. IInv'
  BY <1>1, CInvIs, BeginInv
<1>4. Sound(T, m) /\ T.lv = m
  BY <1>1, <1>2, DeeperIs
<1>5. T.tab = S.tab /\ T.refs = S.refs /\ T.err = S.err
  BY <1>1 DEF State
<1>6. Become(T)
  OBVIOUS
<1> HIDE DEF T
<1>7. T.lv \in Nat /\ S.lv <= T.lv /\ (T.err = S.err \/ S.lv = 0)
  BY <1>1, <1>2, <1>4, <1>5
<1>8. Clear(T, {}, {})
  BY <1>1, <1>5, <1>7, OtherClear
<1>9. Straight(T)
  BY <1>4, <1>8 DEF Straight
<1>10. frames \in Seq(Frame) /\ f \in Frame
  BY CInvIs DEF FrameOK
<1>11. frames' # <<>>
  <2> DEFINE g == <<f>> \o frames
  <2>1. Len(g) = Len(frames) + 1 /\ Len(frames) \in Nat
    BY <1>10
  <2> HIDE DEF g
  <2>2. g # <<>>
    BY <2>1
  <2> QED
    BY <2>2 DEF g
<1>12. Clear((S0)', {}, {})
  BY <1>6, <1>9, <1>11, BecomeClear
<1>13. Grounded(<<f>> \o frames, m)
  BY <1>2, <1>10, CInvIs, GroundedBegin
<1>14. locallevel' = m
  BY <1>4, <1>6 DEF Become
<1> QED
  BY <1>3, <1>12, <1>13, <1>14 DEF CInv

LEMMA CallClear ==
    ASSUME CInv, Call
    PROVE  CInv'
<1> DEFINE yes == TRUE
           f == [func |-> yes, n |-> None, copy |-> None]
           m == locallevel + 1
<1>1. frames' = <<f>> \o frames /\ m <= MaxLevel /\ Become([S0 EXCEPT !.lv = m])
  BY CInvIs, MaxLevelType, S0Is DEF Call
<1>2. yes \in BOOLEAN
  OBVIOUS
<1>3. f.func = yes /\ f.n = None
  OBVIOUS
<1>4. yes
  OBVIOUS
<1> HIDE DEF yes
<1>5. f \in Frame
  BY <1>2 DEF Frame
<1> HIDE DEF f
<1>6. FrameOK(f, locallevel)
  BY <1>3, <1>5 DEF FrameOK
<1>7. m = (IF f.func THEN locallevel + 1 ELSE locallevel)
  BY <1>3, <1>4
<1> HIDE DEF m
<1>8. Keeps(S0, S0)
  BY CInvIs, KeepsSame
<1> QED
  BY <1>1, <1>3, <1>6, <1>7, <1>8, BeginClear

LEMMA PrefixedClear ==
    ASSUME CInv, NEW n \in Names, NEW v \in Values[n], NEW func \in BOOLEAN, Prefixed(n, v, func)
    PROVE  CInv'
<1> DEFINE c == Copied(S0, n)
           f == [func |-> func, n |-> n, copy |-> c]
           T == save_params(S0, n)
           U == assignsparam(T, n, v, func).S
           m == IF func THEN locallevel + 1 ELSE locallevel
<1>1. /\ frames' = <<f>> \o frames /\ (func => locallevel < MaxLevel)
      /\ Become([U EXCEPT !.lv = IF func THEN @ + 1 ELSE @])
      /\ ~errflag /\ n \notin Refs
  BY DEF Prefixed
<1>2. v \in Str
  BY ValuesIs
<1>3. CopyOK(n, c, locallevel)
  BY CInvIs, InvIs, save_paramsIs
<1>4. Keeps(S0, T) /\ T.err = S0.err
  BY CInvIs, save_paramsKeeps
<1> HIDE DEF T, c
<1>5. Straight(T) /\ T.lv = locallevel /\ ~T.err
  BY <1>1, <1>4, CInvIs DEF Keeps
<1>6. Keeps(T, U)
  BY <1>2, <1>5, assignsparamKeeps
<1> HIDE DEF U
<1>7. Keeps(S0, U)
  BY <1>4, <1>6, KeepsMore
<1>8. U.lv = locallevel
  BY <1>7, CInvIs DEF Keeps
<1>9. [U EXCEPT !.lv = IF func THEN @ + 1 ELSE @] = [U EXCEPT !.lv = m]
  BY <1>8
<1>10. m <= MaxLevel
  BY <1>1, CInvIs, MaxLevelType
<1>11. f.func = func /\ f.n = n /\ f.copy = c
  OBVIOUS
<1>12. f \in Frame
  <2>1. c \in Cell \cup {None}
    BY <1>3 DEF CopyOK
  <2> QED
    BY <2>1 DEF Frame
<1> HIDE DEF f
<1>13. FrameOK(f, locallevel)
  BY <1>3, <1>11, <1>12 DEF FrameOK
<1>14. m = (IF f.func THEN locallevel + 1 ELSE locallevel)
  BY <1>11
<1> HIDE DEF m
<1>15. f.n = None \/ f.n \notin Refs
  BY <1>1, <1>11
<1> QED
  BY <1>1, <1>7, <1>9, <1>10, <1>13, <1>14, <1>15, BeginClear

LEMMA ReturnClear ==
    ASSUME CInv, Return
    PROVE  CInv'
<1> DEFINE f == Head(frames)
           l == Outside(f, locallevel)
           S == IF f.func THEN endparamscope(S0) ELSE S0
           T == IF f.n = None THEN S ELSE restore_params(S, f.n, f.copy)
<1>1. frames # <<>> /\ frames' = Tail(frames) /\ Become(T)
  BY DEF Return
<1>2. l \in Nat /\ FrameOK(f, l)
  BY <1>1, CInvIs, FramesEnd
<1>3. Grounded(Tail(frames), l) /\ (f.n = None \/ f.n \notin Refs)
  BY <1>1, CInvIs, GroundedEnd
<1>4. IInv'
  BY CInvIs, ReturnInv
<1> HIDE DEF f
<1>5. Straight(S) /\ S.lv = l
  <2>1. CASE f.func
    <3>1. l = locallevel - 1
      BY <2>1 DEF Outside
    <3>2. S0.lv > 0 /\ S0.lv - 1 = l
      BY <1>2, <3>1, CInvIs
    <3> HIDE DEF l
    <3> DEFINE E == endparamscope(S0)
    <3>3. Straight(E) /\ E.lv = S0.lv - 1
      BY <3>2, CInvIs, endparamscopeStraight
    <3> HIDE DEF E
    <3>4. S = E
      BY <2>1 DEF E
    <3> HIDE DEF S
    <3> QED
      BY <3>2, <3>3, <3>4
  <2>2. CASE ~f.func
    BY <2>2, CInvIs DEF Outside
  <2> QED
    BY <2>1, <2>2
<1> HIDE DEF S, l
<1>6. Keeps(S, T)
  <2>1. CASE f.n = None
    BY <1>5, <2>1, KeepsSame
  <2>2. CASE f.n # None
    <3>1. f.n \in Names \ Refs /\ CopyOK(f.n, f.copy, S.lv)
      BY <1>2, <1>3, <1>5, <2>2 DEF FrameOK
    <3>2. Keeps(S, restore_params(S, f.n, f.copy))
      BY <1>5, <3>1, restore_paramsKeeps
    <3> QED
      BY <2>2, <3>2
  <2> QED
    BY <2>1, <2>2
<1> HIDE DEF T
<1>7. Straight(T) /\ T.lv = l
  BY <1>5, <1>6 DEF Keeps
<1>8. Tail(frames) = <<>> => l = 0
  BY <1>3 DEF Grounded, Depths
<1>9. Clear((S0)', {}, {})
  BY <1>1, <1>7, <1>8, BecomeClear
<1>10. locallevel' = l
  BY <1>1, <1>7 DEF Become
<1> QED
  BY <1>1, <1>3, <1>4, <1>9, <1>10 DEF CInv

LEMMA NextClear ==
    ASSUME NoHidden, CInv, [Next]_vars, [~Revives]_vars
    PROVE  CInv'
<1>1. CASE UNCHANGED vars
  <2>1. IInv'
    BY <1>1, CInvIs, NextInv
  <2> QED
    BY <1>1, <2>1 DEF vars, CInv, S0
<1>2. CASE Next /\ ~Revives
  <2>1. ASSUME NEW n \in Names, NEW v \in Values[n], Assign(n, v) \/ For(n, v) \/ Global(n, v)
        PROVE  CInv'
    <3>1. v \in Given(n)
      BY DEF Given
    <3> QED
      BY <2>1, <3>1, AssignClear, ForClear, GlobalClear
  <2>2. ASSUME NEW n \in Names, NEW v \in Given(n),
               Local(n, v) \/ LocalExport(n, v) \/ Export(n, v)
        PROVE  CInv'
    BY <2>2, LocalClear, GlobalClear
  <2>3. ASSUME NEW n \in Names, NEW v \in Given(n), Reference(n, v) \/ GlobalReference(n, v)
        PROVE  CInv'
    BY <2>3, ReferenceClear
  <2>4. ASSUME NEW n \in Names,
               Unexport(n) \/ Dereference(n) \/ Unset(n) \/ UnsetReference(n)
        PROVE  CInv'
    BY <1>2, <2>4, UnexportClear, DereferenceClear, UnsetClearly
  <2>5. ASSUME NEW n \in Names, NEW v \in Values[n], NEW func \in BOOLEAN, Prefixed(n, v, func)
        PROVE  CInv'
    BY <2>5, PrefixedClear
  <2>6. CASE Call
    BY <2>6, CallClear
  <2>7. CASE Return
    BY <2>7, ReturnClear
  <2> QED
    BY <1>2, <2>1, <2>2, <2>3, <2>4, <2>5, <2>6, <2>7 DEF Next
<1> QED
  BY <1>1, <1>2

LEMMA InitClear ==
    ASSUME Init
    PROVE  CInv
<1>1. IInv
  BY InitIs
<1>2. frames = <<>> /\ locallevel = 0 /\ Len(frames) = 0 /\ S0.tab = [n \in Names |-> <<>>]
  BY S0Is DEF Init
<1>3. ~\E p : There(S0, p)
  BY <1>2 DEF There
<1>4. Clear(S0, {}, {})
  <2>1. ASSUME NEW C, Circle(S0, C) PROVE FALSE
    <3>1. PICK x \in C : TRUE
      BY <2>1 DEF Circle
    <3>2. PICK m, b : Linked(S0, x, m, b)
      BY <2>1, <3>1 DEF Circle
    <3> QED
      BY <1>3, <3>2 DEF Linked
  <2> QED
    BY <1>3, <2>1 DEF Clear
<1>5. Grounded(frames, locallevel)
  <2> DEFINE d == [i \in 0..0 |-> 0]
  <2>1. d \in [0..Len(frames) -> Nat] /\ d[0] = locallevel /\ d[Len(frames)] = 0
    BY <1>2
  <2>2. ~\E i : i \in 1..Len(frames)
    BY <1>2
  <2> HIDE DEF d
  <2>3. Depths(frames, locallevel, d)
    BY <2>1, <2>2 DEF Depths
  <2> QED
    BY <2>1, <2>2, <2>3 DEF Grounded
<1> QED
  BY <1>1, <1>4, <1>5 DEF CInv

LEMMA CInvNoCircle ==
    ASSUME CInv
    PROVE  NoCircle
<1>1. ASSUME NEW n \in Names, tab[n] # <<>>, IsRef(tab[n][1])
      PROVE  Resolve(S0, <<n, 1>>, None, TRUE) # None
  <2> DEFINE p == <<n, 1>>
  <2>1. Straight(S0) /\ Sound(S0, S0.lv) /\ Clear(S0, {}, {}) /\ S0.tab = tab
    BY CInvIs, S0Is DEF Straight
  <2>2. There(S0, p) /\ IsRef(At(S0, p))
    BY <1>1, <2>1, TopIs
  <2> HIDE DEF p
  <2>3. Resolve(S0, p, None, TRUE) # None
    BY <2>1, <2>2, ClearResolves
  <2> QED
    BY <2>3 DEF p
<1> QED
  BY <1>1 DEF NoCircle

\* References never lead in a circle, however long the chain and whatever
\* scopes begin and end, errors happen and references are unset, made again or
\* turned (setscope(), setscope_base(), endparamscope()), as long as `local'
\* is not applied to a reference that leads to a hidden parameter, and `unset'
\* does not reach through another reference one that was unset before and has
\* kept its base.
THEOREM NeverInACircle ==
    ASSUME ~Redeclared \/ Refs = {}
    PROVE  Spec /\ [][~Revives]_vars => []NoCircle
<1>1. Init => CInv
  BY InitClear
<1>2. CInv /\ [Next]_vars /\ [~Revives]_vars => CInv'
  BY NextClear DEF NoHidden
<1>3. CInv => NoCircle
  BY CInvNoCircle
<1> QED
  BY <1>1, <1>2, <1>3, PTL DEF Spec

===============================================================================
