------------------------- MODULE HistoryFileProofs --------------------------
(***************************************************************************)
(* Proofs about HistoryFile, for any number of shells and any bounds:      *)
(* - TypesCorrect: the variables keep their types (invariant Types, which  *)
(*   has the count of lock requests at each step of a shell);              *)
(* - LockIsHeld: a shell that reads or writes the file owns the lock file  *)
(*   (invariant LockHeld), if the clock takes no lock for stale;           *)
(* - NoneWrittenTwice: no event is written twice (invariant Once);         *)
(* - NothingLost: the file is the end of all that was written (invariant   *)
(*   Copied), with the same clock and HIST_SAVE_BY_COPY.                   *)
(* - ReadsSeeAll: a read misses nothing that has come since the last       *)
(*   (ReadSees), under the same assumptions;                               *)
(* - ExitsSave: a shell that exits has saved its events (invariant Filed), *)
(*   unless, with a monotonic clock, it gives up a lock that is held.      *)
(* The recursive definitions of HistoryFile are reasoned about with the    *)
(* lemmas Induction and Recursion, which need no operator parameter.       *)
(***************************************************************************)
EXTENDS HistoryFile, FiniteSetTheorems, SequenceTheorems, WellFoundedInduction, TLAPS

-----------------------------------------------------------------------------
(* Induction and recursion.                                                *)

\* A set of naturals closed under successor has every natural.
LEMMA Induction ==
    ASSUME NEW S, 0 \in S, \A i \in Nat : i \in S => i + 1 \in S
    PROVE  \A i \in Nat : i \in S
<1>1. SUFFICES ASSUME {i \in Nat : i \notin S} # {} PROVE FALSE
  OBVIOUS
<1> DEFINE T == {i \in Nat : i \notin S}
<1> HIDE DEF T
<1>2. T \subseteq Nat /\ T # {}
  BY <1>1 DEF T
<1>3. PICK m \in T : \A k \in T : ~ (k < m)
  <2>1. IsWellFoundedOn(OpToRel(<, Nat), Nat)
    BY NatLessThanWellFounded
  <2>2. PICK x \in T : \A y \in T : ~ (<<y, x>> \in OpToRel(<, Nat))
    BY <1>2, <2>1, WFMin
  <2>3. ASSUME NEW y \in T, y < x PROVE FALSE
    <3>1. <<y, x>> \in OpToRel(<, Nat)
      BY <1>2, <2>3, Zenon DEF OpToRel
    <3> QED
      BY <2>2, <3>1, Zenon
  <2> QED
    BY <2>3
<1>4. m \in Nat /\ m \notin S
  BY DEF T
<1>5. m - 1 \in Nat /\ m - 1 < m
  BY <1>4
<1>6. m - 1 \in S
  BY <1>3, <1>5 DEF T
<1> QED
  BY <1>4, <1>5, <1>6

\* f is defined by recursion from a with the step next.
Recursive(f, V, a, n, next) ==
    /\ f \in [0..n -> V]
    /\ f[0] = a
    /\ \A i \in 1..n : f[i] = next[<<i, f[i - 1]>>]

\* A recursive definition on 0 .. n whose step is a function has a solution.
LEMMA Recursion ==
    ASSUME NEW V, NEW a \in V, NEW n \in Nat, NEW next \in [(1..n) \X V -> V]
    PROVE  \E f : Recursive(f, V, a, n, next)
<1> DEFINE Solves(f, k) ==
              /\ f \in [0..k -> V]
              /\ f[0] = a
              /\ \A i \in 1..k : f[i] = next[<<i, f[i - 1]>>]
           S == {k \in Nat : k <= n => \E f : Solves(f, k)}
<1>1. 0 \in S
  <2>1. Solves([i \in 0..0 |-> a], 0)
    OBVIOUS
  <2> QED
    BY <2>1
<1>2. ASSUME NEW k \in Nat, k \in S PROVE k + 1 \in S
  <2>1. SUFFICES ASSUME k + 1 <= n PROVE \E f : Solves(f, k + 1)
    OBVIOUS
  <2>2. PICK f : Solves(f, k)
    BY <1>2, <2>1
  <2> DEFINE v == next[<<k + 1, f[k]>>]
             g == [i \in 0..(k + 1) |-> IF i = k + 1 THEN v ELSE f[i]]
  <2>3. v \in V
    <3>1. f[k] \in V /\ k + 1 \in 1..n
      BY <2>1, <2>2
    <3> QED
      BY <3>1
  <2> HIDE DEF v
  <2>4. g \in [0..(k + 1) -> V] /\ g[0] = a /\ g[k + 1] = v
    BY <2>2, <2>3
  <2>5. ASSUME NEW i \in 1..(k + 1) PROVE g[i] = next[<<i, g[i - 1]>>]
    <3>1. CASE i = k + 1
      <4>1. g[i - 1] = f[k] /\ g[i] = v
        BY <3>1
      <4> QED
        BY <3>1, <4>1 DEF v
    <3>2. CASE i # k + 1
      <4>1. i \in 1..k /\ g[i] = f[i] /\ g[i - 1] = f[i - 1]
        BY <3>2
      <4> QED
        BY <4>1, <2>2
    <3> QED
      BY <3>1, <3>2
  <2> HIDE DEF g
  <2> QED
    BY <2>4, <2>5
<1> HIDE DEF S
<1>3. n \in S
  BY <1>1, <1>2, Induction
<1> QED
  BY <1>3 DEF S, Recursive

-----------------------------------------------------------------------------
(* What Unsaved and AddAll return.                                         *)

Entry == [e : Event, old : BOOLEAN]

\* at leads from each element of es to the place in the ring it comes from.
Picks(at, es, ring, k) ==
    /\ at \in [1..Len(es) -> 1..k]
    /\ \A i \in 1..Len(es) : ~ring[at[i]].old /\ es[i] = ring[at[i]].e
    /\ \A i, j \in 1..Len(es) : i < j => at[i] < at[j]

\* Unsaved() step by step.
LEMMA UnsavedIs ==
    ASSUME NEW ring \in Seq(Entry)
    PROVE  \E F : /\ Unsaved(ring) = F[Len(ring)]
                  /\ F[0] = <<>>
                  /\ \A i \in 1..Len(ring) : F[i] = IF ring[i].old THEN F[i - 1]
                                                   ELSE Append(F[i - 1], ring[i].e)
<1> DEFINE n == Len(ring)
           V == Seq(Event)
           next == [p \in (1..n) \X V |->
                       IF ring[p[1]].old THEN p[2]
                       ELSE Append(p[2], ring[p[1]].e)]
           Sol(f) == f = [i \in 0..n |->
                            IF i = 0 THEN <<>>
                            ELSE IF ring[i].old THEN f[i - 1]
                            ELSE Append(f[i - 1], ring[i].e)]
           F == CHOOSE f : Sol(f)
<1>1. n \in Nat /\ \A i \in 1..n : ring[i] \in Entry
  OBVIOUS
<1>2. \E f : Sol(f)
  <2>1. next \in [(1..n) \X V -> V]
    <3>1. ASSUME NEW p \in (1..n) \X V PROVE next[p] \in V
      <4>1. ring[p[1]].e \in Event /\ p[2] \in Seq(Event)
        BY <1>1 DEF Entry
      <4> QED
        BY <4>1
    <3> QED
      BY <3>1
  <2> DEFINE nx == next
  <2>9. nx \in [(1..n) \X V -> V]
    BY <2>1
  <2> HIDE DEF nx, n, V
  <2>2. <<>> \in V
    BY DEF V
  <2>8. n \in Nat
    BY <1>1
  <2>7. <<>> \in V
    BY <2>2
  <2>6. \E f : Recursive(f, V, <<>>, n, nx)
    BY <2>7, <2>8, <2>9, Recursion
  <2>3. PICK f : Recursive(f, V, <<>>, n, nx)
    BY <2>6
  <2>5. f \in [0..n -> V] /\ f[0] = <<>>
    BY <2>3 DEF Recursive
  <2>10. \A i \in 1..n : f[i] = nx[<<i, f[i - 1]>>]
    BY <2>3 DEF Recursive
  <2>4. Sol(f)
    <3>1. ASSUME NEW i \in 0..n, i # 0
          PROVE  nx[<<i, f[i - 1]>>] = IF ring[i].old THEN f[i - 1]
                                       ELSE Append(f[i - 1], ring[i].e)
      <4>1. <<i, f[i - 1]>> \in (1..n) \X V
        BY <3>1, <2>8, <2>5
      <4> QED
        BY <4>1 DEF nx
    <3>2. \A i \in 0..n : f[i] = IF i = 0 THEN <<>>
                                 ELSE IF ring[i].old THEN f[i - 1]
                                 ELSE Append(f[i - 1], ring[i].e)
      <4>1. \A i \in 0..n : i # 0 => i \in 1..n
        BY <2>8
      <4> QED
        BY <2>5, <2>10, <3>1, <4>1
    <3> QED
      BY <2>5, <3>2
  <2> QED
    BY <2>4
<1> HIDE DEF Sol
<1>3. Sol(F)
  BY <1>2
<1> HIDE DEF F
<1>4. Unsaved(ring) = F[n]
  BY DEF Unsaved, F, Sol
<1>5. F[0] = <<>> /\ \A i \in 1..n : F[i] = IF ring[i].old THEN F[i - 1]
                                            ELSE Append(F[i - 1], ring[i].e)
  <2> HIDE DEF n
  <2>1. ASSUME NEW i \in 0..n
        PROVE  F[i] = IF i = 0 THEN <<>>
                      ELSE IF ring[i].old THEN F[i - 1]
                      ELSE Append(F[i - 1], ring[i].e)
    BY <1>3, Zenon DEF Sol
  <2> QED
    BY <1>1, <2>1
<1> QED
  BY <1>4, <1>5

\* Unsaved() lists the events of the ring that are new, each once and in
\* order.
LEMMA UnsavedLemma ==
    ASSUME NEW ring \in Seq(Entry)
    PROVE  /\ Unsaved(ring) \in Seq(Event)
           /\ \E at : Picks(at, Unsaved(ring), ring, Len(ring))
           /\ \A i \in 1..Len(ring) : ~ring[i].old => ring[i].e \in Elems(Unsaved(ring))
<1> DEFINE n == Len(ring)
<1>1. n \in Nat /\ \A i \in 1..n : ring[i] \in Entry
  OBVIOUS
<1>2. PICK F : /\ Unsaved(ring) = F[n]
               /\ F[0] = <<>>
               /\ \A i \in 1..n : F[i] = IF ring[i].old THEN F[i - 1]
                                         ELSE Append(F[i - 1], ring[i].e)
  BY UnsavedIs
<1>4. Unsaved(ring) = F[n]
  BY <1>2
<1>5. F[0] = <<>> /\ \A i \in 1..n : F[i] = IF ring[i].old THEN F[i - 1]
                                            ELSE Append(F[i - 1], ring[i].e)
  BY <1>2
<1> HIDE DEF n
<1> DEFINE All(k) == \A i \in 1..k : ~ring[i].old => ring[i].e \in Elems(F[k])
           Good(k) == /\ F[k] \in Seq(Event)
                      /\ \E at : Picks(at, F[k], ring, k)
                      /\ All(k)
           S == {k \in Nat : k <= n => Good(k)}
<1>6. 0 \in S
  <2>1. Picks(<<>>, <<>>, ring, 0)
    BY DEF Picks
  <2>2. F[0] = <<>> /\ F[0] \in Seq(Event)
    BY <1>5
  <2>3. All(0)
    OBVIOUS
  <2>4. Good(0)
    <3> HIDE DEF All
    <3> QED
      BY <2>1, <2>2, <2>3, Zenon
  <2> QED
    BY <2>4
<1>7. ASSUME NEW k \in Nat, k \in S PROVE k + 1 \in S
  <2>1. SUFFICES ASSUME k + 1 <= n PROVE Good(k + 1)
    OBVIOUS
  <2>2. F[k] \in Seq(Event)
    BY <1>7, <1>1, <2>1
  <2>3. PICK at : Picks(at, F[k], ring, k)
    BY <1>7, <1>1, <2>1
  <2>8. All(k)
    BY <1>7, <1>1, <2>1
  <2> DEFINE m == Len(F[k])
  <2>4. m \in Nat
    BY <2>2
  <2>5. F[k + 1] = IF ring[k + 1].old THEN F[k]
                   ELSE Append(F[k], ring[k + 1].e)
    BY <1>1, <1>5, <2>1
  <2>6. CASE ring[k + 1].old
    <3>1. F[k + 1] = F[k]
      BY <2>5, <2>6
    <3>2. Picks(at, F[k], ring, k + 1)
      BY <2>3, <2>4 DEF Picks
    <3>3. All(k + 1)
      <4>1. \A i \in 1..(k + 1) : i \in 1..k \/ i = k + 1
        OBVIOUS
      <4> QED
        BY <2>6, <2>8, <3>1, <4>1
    <3> HIDE DEF All
    <3> QED
      BY <2>2, <3>1, <3>2, <3>3
  <2>7. CASE ~ring[k + 1].old
    <3> DEFINE x == ring[k + 1].e
               es == Append(F[k], x)
               to == [i \in 1..(m + 1) |-> IF i = m + 1 THEN k + 1 ELSE at[i]]
    <3>1. x \in Event /\ F[k + 1] = es
      BY <1>1, <2>1, <2>5, <2>7 DEF Entry
    <3> HIDE DEF x
    <3>2. es \in Seq(Event) /\ Len(es) = m + 1 /\ es[m + 1] = x
          /\ \A i \in 1..m : es[i] = F[k][i]
      BY <2>2, <3>1, AppendProperties
    <3> HIDE DEF es
    <3> HIDE DEF m
    <3>3. /\ at \in [1..m -> 1..k]
          /\ \A i \in 1..m : ~ring[at[i]].old /\ F[k][i] = ring[at[i]].e
          /\ \A i, j \in 1..m : i < j => at[i] < at[j]
      BY <2>3 DEF Picks, m
    <3>4. to \in [1..(m + 1) -> 1..(k + 1)] /\ to[m + 1] = k + 1
          /\ \A i \in 1..m : to[i] = at[i] /\ at[i] \in 1..k
      BY <2>4, <3>3
    <3> HIDE DEF to
    <3>5. ASSUME NEW i \in 1..(m + 1)
          PROVE  ~ring[to[i]].old /\ es[i] = ring[to[i]].e
      <4>1. CASE i = m + 1
        BY <4>1, <3>2, <3>4, <2>7 DEF x
      <4>2. CASE i # m + 1
        <5>1. i \in 1..m
          BY <2>4, <4>2
        <5> QED
          BY <5>1, <3>2, <3>3, <3>4
      <4> QED
        BY <4>1, <4>2
    <3>6. ASSUME NEW i \in 1..(m + 1), NEW j \in 1..(m + 1), i < j
          PROVE  to[i] < to[j]
      <4>1. i \in 1..m
        BY <2>4, <3>6
      <4>2. CASE j = m + 1
        BY <4>1, <4>2, <3>4
      <4>3. CASE j # m + 1
        <5>1. j \in 1..m
          BY <2>4, <4>3
        <5> QED
          BY <5>1, <4>1, <3>3, <3>4, <3>6
      <4> QED
        BY <4>2, <4>3
    <3>7. Picks(to, es, ring, k + 1)
      BY <3>2, <3>4, <3>5, <3>6 DEF Picks
    <3>8. All(k + 1)
      <4>1. \A i \in 1..(k + 1) : i \in 1..k \/ i = k + 1
        OBVIOUS
      <4>2. Elems(F[k]) = {F[k][i] : i \in 1..m} /\ Elems(es) = {es[i] : i \in 1..(m + 1)}
        BY <3>2 DEF Elems, m
      <4>3. Elems(F[k]) \subseteq Elems(es) /\ ring[k + 1].e \in Elems(es)
        BY <2>4, <3>2, <4>2 DEF x
      <4> QED
        BY <2>8, <3>1, <4>1, <4>3
    <3> HIDE DEF All
    <3> QED
      BY <3>1, <3>2, <3>7, <3>8
  <2> QED
    BY <2>6, <2>7
<1> HIDE DEF S
<1>8. n \in S
  BY <1>1, <1>6, <1>7, Induction
<1> QED
  BY <1>1, <1>4, <1>8 DEF S, n

\* What AddAll() returns begins with the ring, and the rest is HIST_OLD.
Grown(q, ring) ==
    /\ q \in Seq(Entry)
    /\ Len(q) >= Len(ring)
    /\ \A i \in 1..Len(ring) : q[i] = ring[i]
    /\ \A i \in 1..Len(q) : i > Len(ring) => q[i].old

LEMMA AddForeignLemma ==
    ASSUME NEW ring \in Seq(Entry), NEW q, Grown(q, ring), NEW e \in Event
    PROVE  Grown(AddForeign(q, e), ring)
<1> DEFINE x == [e |-> e, old |-> TRUE]
<1>1. x \in Entry /\ x.old
  BY DEF Entry
<1> HIDE DEF x
<1>2. q \in Seq(Entry) /\ Len(q) \in Nat /\ Len(ring) \in Nat
  BY DEF Grown
<1>3. AddForeign(q, e) = q \/ AddForeign(q, e) = Append(q, x)
  BY DEF AddForeign, x
<1>4. /\ Append(q, x) \in Seq(Entry)
      /\ Len(Append(q, x)) = Len(q) + 1
      /\ \A i \in 1..Len(q) : Append(q, x)[i] = q[i]
      /\ Append(q, x)[Len(q) + 1] = x
  BY <1>1, <1>2, AppendProperties
<1> DEFINE p == Append(q, x)
<1> HIDE DEF p
<1>5. p \in Seq(Entry) /\ Len(p) = Len(q) + 1
      /\ (\A i \in 1..Len(q) : p[i] = q[i]) /\ p[Len(q) + 1] = x
  BY <1>4 DEF p
<1>6. Grown(p, ring)
  BY <1>1, <1>2, <1>5 DEF Grown
<1> QED
  BY <1>3, <1>6 DEF p

\* AddAll() step by step.
LEMMA AddAllIs ==
    ASSUME NEW ring \in Seq(Entry), NEW es \in Seq(Event)
    PROVE  \E F : /\ AddAll(ring, es) = F[Len(es)]
                  /\ F[0] = ring
                  /\ \A i \in 1..Len(es) : F[i] = AddForeign(F[i - 1], es[i])
<1> DEFINE n == Len(es)
           V == {q \in Seq(Entry) : Grown(q, ring)}
           next == [p \in (1..n) \X V |-> AddForeign(p[2], es[p[1]])]
           Sol(f) == f = [i \in 0..n |-> IF i = 0 THEN ring
                                         ELSE AddForeign(f[i - 1], es[i])]
           F == CHOOSE f : Sol(f)
<1>1. n \in Nat /\ \A i \in 1..n : es[i] \in Event
  OBVIOUS
<1>2. ASSUME NEW q \in V, NEW i \in 1..n PROVE AddForeign(q, es[i]) \in V
  BY <1>1, AddForeignLemma DEF Grown
<1>3. ring \in V
  BY DEF Grown
<1>4. \E f : Sol(f)
  <2>1. next \in [(1..n) \X V -> V]
    <3>1. ASSUME NEW p \in (1..n) \X V PROVE next[p] \in V
      <4>1. p[1] \in 1..n /\ p[2] \in V
        OBVIOUS
      <4> HIDE DEF V
      <4> QED
        BY <4>1, <1>2
    <3> HIDE DEF V
    <3> QED
      BY <3>1
  <2> DEFINE nx == next
  <2>9. nx \in [(1..n) \X V -> V]
    BY <2>1
  <2> HIDE DEF nx, n, V
  <2>8. n \in Nat
    BY <1>1
  <2>7. ring \in V
    BY <1>3
  <2>6. \E f : Recursive(f, V, ring, n, nx)
    BY <2>7, <2>8, <2>9, Recursion
  <2>2. PICK f : Recursive(f, V, ring, n, nx)
    BY <2>6
  <2>5. f \in [0..n -> V] /\ f[0] = ring
    BY <2>2 DEF Recursive
  <2>10. \A i \in 1..n : f[i] = nx[<<i, f[i - 1]>>]
    BY <2>2 DEF Recursive
  <2>3. Sol(f)
    <3>1. ASSUME NEW i \in 0..n, i # 0
          PROVE  nx[<<i, f[i - 1]>>] = AddForeign(f[i - 1], es[i])
      <4>1. <<i, f[i - 1]>> \in (1..n) \X V
        BY <3>1, <2>8, <2>5
      <4> QED
        BY <4>1 DEF nx
    <3>2. \A i \in 0..n : f[i] = IF i = 0 THEN ring
                                 ELSE AddForeign(f[i - 1], es[i])
      <4>1. \A i \in 0..n : i # 0 => i \in 1..n
        BY <2>8
      <4> QED
        BY <2>5, <2>10, <3>1, <4>1
    <3> QED
      BY <2>5, <3>2
  <2> QED
    BY <2>3
<1> HIDE DEF Sol
<1>5. Sol(F)
  BY <1>4
<1> HIDE DEF F
<1>6. AddAll(ring, es) = F[n]
  BY DEF AddAll, F, Sol
<1>7. F[0] = ring /\ \A i \in 1..n : F[i] = AddForeign(F[i - 1], es[i])
  BY <1>1, <1>5 DEF Sol
<1> QED
  BY <1>6, <1>7

Has(ring, e) == \E i \in 1..Len(ring) : ring[i].e = e

\* The ring q is ring with the events of es[1] to es[k], each but once in
\* a row.
Filled(q, ring, es, k) ==
    /\ Grown(q, ring)
    /\ \A i \in 1..Len(q) : i > Len(ring) => \E j \in 1..k : q[i].e = es[j]
    /\ \A j \in 1..k : Has(q, es[j])

LEMMA AddForeignFills ==
    ASSUME NEW ring \in Seq(Entry), NEW es \in Seq(Event), NEW k \in Nat,
           k + 1 <= Len(es), NEW q, Filled(q, ring, es, k)
    PROVE  Filled(AddForeign(q, es[k + 1]), ring, es, k + 1)
<1> DEFINE e == es[k + 1]
           x == [e |-> e, old |-> TRUE]
           p == AddForeign(q, e)
<1>1. e \in Event /\ x.e = e
  OBVIOUS
<1>2. Grown(p, ring)
  <2>1. Grown(q, ring)
    BY DEF Filled
  <2> HIDE DEF e
  <2> QED
    BY <1>1, <2>1, AddForeignLemma
<1>3. q \in Seq(Entry) /\ Len(q) \in Nat /\ Len(ring) \in Nat
  BY DEF Filled, Grown
<1> DEFINE fromEs(r, n) == \A i \in 1..Len(r) : i > Len(ring) => \E j \in 1..n : r[i].e = es[j]
<1>4. fromEs(q, k) /\ \A j \in 1..k : Has(q, es[j])
  BY DEF Filled
<1>5. \A j \in 1..(k + 1) : j \in 1..k \/ j = k + 1
  OBVIOUS
<1>6. \A j \in 1..k : j \in 1..(k + 1)
  OBVIOUS
<1>7. CASE p = q /\ q # <<>> /\ q[Len(q)].e = e
  <2>1. Len(q) \in 1..Len(q)
    BY <1>3, <1>7
  <2>2. Has(q, e)
    BY <1>7, <2>1 DEF Has
  <2>3. fromEs(q, k + 1)
    BY <1>4, <1>6
  <2>4. \A j \in 1..(k + 1) : Has(q, es[j])
    BY <1>4, <1>5, <2>2
  <2> QED
    BY <1>2, <1>7, <2>3, <2>4 DEF Filled
<1>8. CASE p = Append(q, x)
  <2> HIDE DEF e, x
  <2>1. Len(p) = Len(q) + 1 /\ p[Len(q) + 1] = x /\ \A i \in 1..Len(q) : p[i] = q[i]
    BY <1>3, <1>8, AppendProperties
  <2> HIDE DEF p
  <2>2. \A i \in 1..Len(p) : i \in 1..Len(q) \/ i = Len(q) + 1
    BY <1>3, <2>1
  <2>3. Len(q) + 1 \in 1..Len(p) /\ \A i \in 1..Len(q) : i \in 1..Len(p)
    BY <1>3, <2>1
  <2>4. fromEs(p, k + 1)
    <3>1. p[Len(q) + 1].e = es[k + 1] /\ k + 1 \in 1..(k + 1)
      BY <1>1, <2>1 DEF e
    <3>2. ASSUME NEW i \in 1..Len(p), i > Len(ring)
          PROVE  \E j \in 1..(k + 1) : p[i].e = es[j]
      BY <1>4, <1>6, <2>1, <2>2, <3>1, <3>2
    <3> QED
      BY <3>2
  <2>5. ASSUME NEW j \in 1..(k + 1) PROVE Has(p, es[j])
    <3>1. CASE j \in 1..k
      <4>1. PICK i \in 1..Len(q) : q[i].e = es[j]
        BY <1>4, <3>1 DEF Has
      <4> QED
        BY <2>1, <2>3, <4>1 DEF Has
    <3>2. CASE j = k + 1
      <4>1. p[Len(q) + 1].e = es[j]
        BY <1>1, <2>1, <3>2 DEF e
      <4> QED
        BY <2>3, <4>1 DEF Has
    <3> QED
      BY <1>5, <3>1, <3>2
  <2> HIDE DEF fromEs
  <2>6. fromEs(p, k + 1)
    BY <2>4
  <2> QED
    <3>1. Filled(p, ring, es, k + 1)
      BY <1>2, <2>5, <2>6 DEF Filled, fromEs
    <3> QED
      BY <3>1 DEF p, e
<1>9. (p = q /\ q # <<>> /\ q[Len(q)].e = e) \/ p = Append(q, x)
  BY DEF AddForeign
<1> QED
  BY <1>7, <1>8, <1>9

\* A read adds all lines, and each of them is HIST_OLD.
LEMMA AddAllFills ==
    ASSUME NEW ring \in Seq(Entry), NEW es \in Seq(Event)
    PROVE  Filled(AddAll(ring, es), ring, es, Len(es))
<1> DEFINE n == Len(es)
<1>1. n \in Nat
  OBVIOUS
<1>2. PICK F : /\ AddAll(ring, es) = F[n]
               /\ F[0] = ring
               /\ \A i \in 1..n : F[i] = AddForeign(F[i - 1], es[i])
  BY AddAllIs
<1> DEFINE S == {k \in Nat : k <= n => Filled(F[k], ring, es, k)}
<1>3. 0 \in S
  <2>1. Filled(ring, ring, es, 0)
    BY DEF Filled, Grown
  <2> QED
    BY <1>2, <2>1
<1>4. ASSUME NEW k \in Nat, k \in S PROVE k + 1 \in S
  <2>1. SUFFICES ASSUME k + 1 <= n PROVE Filled(F[k + 1], ring, es, k + 1)
    OBVIOUS
  <2>2. Filled(F[k], ring, es, k) /\ k + 1 \in 1..n /\ (k + 1) - 1 = k
    BY <1>1, <1>4, <2>1
  <2>3. F[k + 1] = AddForeign(F[k], es[k + 1])
    BY <1>2, <2>2
  <2> QED
    BY <2>1, <2>2, <2>3, AddForeignFills
<1> HIDE DEF S
<1>5. n \in S
  BY <1>1, <1>3, <1>4, Induction
<1> QED
  BY <1>1, <1>2, <1>5 DEF S

LEMMA AddAllLemma ==
    ASSUME NEW ring \in Seq(Entry), NEW es \in Seq(Event)
    PROVE  Grown(AddAll(ring, es), ring)
BY AddAllFills DEF Filled

-----------------------------------------------------------------------------
(* The memory of a shell.                                                  *)

Memory ==
    [pc : Pcs, ring : Seq(Entry), ct : 0..2, linect : Nat, fsiz : Nat,
     mtim : 0..MaxTime, fpos : Nat, stim : Nat, text : {None} \cup Event,
     fast : BOOLEAN, norewrite : BOOLEAN, tmp : Seq(Event)]

\* lockhistct at each step of a shell.
CountOK(r) ==
    /\ r.pc \in {"off", "start", "idle", "exit", "steal_exit", "steal_start"}
          => r.ct = 0
    /\ r.pc \in {"started", "read"} => r.ct = 1
    /\ r.pc \in {"add", "save", "hend"} => r.ct \in {0, 1}
    /\ r.pc = "save" => r.fast
    /\ r.pc \in Writing => r.ct \in {1, 2} /\ (~r.fast => r.ct = 1)

Types ==
    /\ file \in Seq(Event) /\ written \in Seq(Event)
    /\ newfile = None \/ newfile \in Seq(Event)
    /\ lock = None \/ lock \in Locked
    /\ mtime \in 0..MaxTime /\ now \in 0..MaxTime
    /\ shell \in [Shells -> Memory]
    /\ \A s \in Shells : CountOK(shell[s])
    /\ count \in [Shells -> 0..MaxEvents]

\* What a read leaves of a shell's memory.
ReadOf(q, r) ==
    /\ q \in Memory
    /\ q.pc = r.pc /\ q.ct = r.ct /\ q.tmp = r.tmp
    /\ q.fast = r.fast /\ q.norewrite = r.norewrite
    /\ Grown(q.ring, r.ring)

LEMMA FreshLemma == Fresh \in Memory /\ CountOK(Fresh)
<1>1. <<>> \in Seq(Entry) /\ <<>> \in Seq(Event)
  OBVIOUS
<1>2. MaxTime \in Nat
  BY HistoryAssumption
<1> QED
  BY <1>1, <1>2 DEF Fresh, Memory, CountOK, Pcs, Writing

LEMMA GrownSelf ==
    ASSUME NEW ring \in Seq(Entry) PROVE Grown(ring, ring)
  BY DEF Grown

\* A suffix of the file is a sequence of events.
LEMMA SuffixLemma ==
    ASSUME file \in Seq(Event), NEW from \in Nat \ {0}
    PROVE  /\ SubSeq(file, from, Len(file)) \in Seq(Event)
           /\ from > Len(file) => SubSeq(file, from, Len(file)) = <<>>
<1> DEFINE n == Len(file)
<1>1. n \in Nat /\ \A i \in from..n : file[i] \in Event
  OBVIOUS
<1> HIDE DEF n
<1>2. SubSeq(file, from, n) \in Seq(Event)
  BY <1>1, SubSeqProperties
<1>3. from > n => SubSeq(file, from, n) = <<>>
  BY <1>1, SubSeqEmpty
<1> QED
  BY <1>2, <1>3 DEF n

LEMMA ImportLemma ==
    ASSUME file \in Seq(Event), NEW r \in Memory, NEW from \in Nat \ {0},
           NEW linect \in Nat, NEW shift \in Nat
    PROVE  ReadOf(Import(r, from, linect, shift), r)
<1> DEFINE es == SubSeq(file, from, Len(file))
           all == AddAll(r.ring, es)
<1>1. es \in Seq(Event) /\ (from > Len(file) => es = <<>>)
  BY SuffixLemma
<1>2. r.ring \in Seq(Entry)
  BY DEF Memory
<1>3. Import(r, from, linect, shift) =
         IF es = <<>> THEN [r EXCEPT !.linect = linect]
         ELSE [r EXCEPT !.ring = all, !.linect = linect + Len(es),
                        !.fpos = Len(file) - 1 + shift,
                        !.stim = file[Len(file)].stim,
                        !.text = file[Len(file)]]
  BY DEF Import
<1> HIDE DEF es
<1>4. Grown(all, r.ring)
  BY <1>1, <1>2, AddAllLemma
<1>5. all \in Seq(Entry)
  BY <1>4 DEF Grown
<1> HIDE DEF all
<1>6. CASE es = <<>>
  BY <1>2, <1>3, <1>6, GrownSelf DEF ReadOf, Memory
<1>7. CASE es # <<>>
  <2> DEFINE n == Len(file)
             m == Len(es)
  <2>1. n \in Nat /\ from <= n
    BY <1>1, <1>7
  <2>2. file[n] \in Event /\ n - 1 + shift \in Nat
    BY <2>1
  <2>3. file[n].stim \in Nat
    BY <2>2, HistoryAssumption DEF Event
  <2>4. linect + m \in Nat
    BY <1>1
  <2> HIDE DEF n, m
  <2> DEFINE k == n - 1 + shift
             l == linect + m
             x == file[n]
  <2>5. k \in Nat /\ l \in Nat /\ x \in Event /\ x.stim \in Nat
    BY <2>2, <2>3, <2>4
  <2>6. Import(r, from, linect, shift) =
          [r EXCEPT !.ring = all, !.linect = l, !.fpos = k,
                    !.stim = x.stim, !.text = x]
    BY <1>3, <1>7 DEF n, m
  <2> HIDE DEF k, l, x
  <2> QED
    BY <1>4, <1>5, <2>5, <2>6 DEF ReadOf, Memory
<1> QED
  BY <1>6, <1>7

LEMMA FirstNotOlderLemma ==
    ASSUME file \in Seq(Event), NEW stim \in Nat
    PROVE  /\ FirstNotOlder(stim) \in Nat \ {0}
           /\ \A i \in 1..Len(file) : file[i].stim >= stim => i >= FirstNotOlder(stim)
<1> DEFINE C == {i \in 1..Len(file) : file[i].stim >= stim}
           Least(i) == i \in C /\ \A k \in C : i <= k
<1>1. Len(file) \in Nat
  OBVIOUS
<1>2. CASE C = {}
  BY <1>1, <1>2 DEF FirstNotOlder
<1>3. CASE C # {}
  <2>1. \E i \in C : \A k \in C : i <= k
    <3>1. SUFFICES ASSUME \A i \in C : \E k \in C : k < i PROVE FALSE
      BY <1>1
    <3> DEFINE S == {k \in Nat : \A i \in C : i > k}
    <3>2. 0 \in S
      BY <1>1
    <3>3. ASSUME NEW k \in Nat, k \in S PROVE k + 1 \in S
      BY <3>1, <3>3, <1>1
    <3>4. \A k \in Nat : k \in S
      <4> HIDE DEF S
      <4> QED
        BY <3>2, <3>3, Induction
    <3>5. Len(file) \in S
      BY <3>4, <1>1
    <3> QED
      BY <1>3, <3>5
  <2>2. FirstNotOlder(stim) = CHOOSE i \in C : \A k \in C : i <= k
    BY <1>3 DEF FirstNotOlder
  <2>3. FirstNotOlder(stim) \in C /\ \A k \in C : FirstNotOlder(stim) <= k
    <3> HIDE DEF C
    <3> QED
      BY <2>1, <2>2
  <2>4. \A i \in 1..Len(file) : file[i].stim >= stim => i \in C
    OBVIOUS
  <2> HIDE DEF C
  <2>5. \A k \in C : k \in 1..Len(file)
    BY DEF C
  <2> QED
    BY <1>1, <2>3, <2>4, <2>5
<1> QED
  BY <1>2, <1>3

LEMMA ReadFastLemma ==
    ASSUME Types, NEW r \in Memory
    PROVE  ReadOf(ReadFast(r), r)
<1> DEFINE q == [r EXCEPT !.fsiz = Len(file), !.mtim = mtime]
<1>1. file \in Seq(Event) /\ Len(file) \in Nat /\ mtime \in 0..MaxTime
  BY DEF Types
<1>2. q \in Memory /\ \A x : ReadOf(x, q) => ReadOf(x, r)
  BY <1>1 DEF Memory, ReadOf
<1>3. r.stim \in Nat /\ r.fpos \in Nat /\ r.linect \in Nat /\ r.ring \in Seq(Entry)
  BY DEF Memory
<1>4. q.stim = r.stim
  BY DEF Memory
<1>5. ReadFast(r) =
         IF file = <<>> \/ (r.fsiz = Len(file) /\ r.mtim = mtime) THEN r
         ELSE IF r.text = None THEN Import(q, 1, r.linect, 0)
         ELSE IF r.fpos >= Len(file) THEN Search(q, 0)
         ELSE IF file[r.fpos + 1] = r.text /\ r.text.stim = r.stim
         THEN Import(q, r.fpos + 2, r.linect, 0)
         ELSE Search(q, r.fpos + 1)
  BY DEF ReadFast
<1> HIDE DEF q
<1>6. ReadOf(r, r)
  BY <1>3, GrownSelf DEF ReadOf
<1>7. ReadOf(Import(q, 1, r.linect, 0), q)
  BY <1>1, <1>2, <1>3, ImportLemma
<1>8. ReadOf(Import(q, r.fpos + 2, r.linect, 0), q)
  <2> DEFINE k == r.fpos + 2
  <2>1. k \in Nat \ {0}
    BY <1>3
  <2> HIDE DEF k
  <2>2. ReadOf(Import(q, k, r.linect, 0), q)
    BY <2>1, <1>1, <1>2, <1>3, ImportLemma
  <2> QED
    BY <2>2 DEF k
<1>9. ASSUME NEW shift \in Nat PROVE ReadOf(Search(q, shift), q)
  <2> DEFINE from == FirstNotOlder(q.stim)
             k == from - 1
  <2>1. from \in Nat \ {0}
    BY <1>1, <1>3, <1>4, FirstNotOlderLemma
  <2>2. Search(q, shift) = Import(q, from, k, shift)
    BY DEF Search
  <2> HIDE DEF from
  <2>3. k \in Nat
    BY <2>1
  <2> HIDE DEF k
  <2> QED
    BY <2>1, <2>2, <2>3, <1>1, <1>2, ImportLemma
<1>10. r.fpos + 1 \in Nat
  BY <1>3
<1>11. ReadOf(Search(q, 0), q) /\ ReadOf(Search(q, r.fpos + 1), q)
  BY <1>9, <1>10
<1> QED
  BY <1>2, <1>5, <1>6, <1>7, <1>8, <1>11

\* Events that are in the file are HIST_OLD.
LEMMA ImportedLemma ==
    ASSUME NEW es \in Seq(Event)
    PROVE  /\ Imported(es) \in Seq(Entry)
           /\ Len(Imported(es)) = Len(es)
           /\ \A i \in 1..Len(es) : Imported(es)[i].old
  BY DEF Imported, Entry

LEMMA ReadAllLemma ==
    ASSUME Types, NEW r \in Memory
    PROVE  ReadOf(ReadAll(r), r)
<1> DEFINE n == Len(file)
           es == Imported(file)
           all == r.ring \o es
           l == r.linect + n
           k == n - 1
           x == file[n]
<1>1. file \in Seq(Event) /\ n \in Nat
  BY DEF Types
<1>2. r.linect \in Nat /\ r.ring \in Seq(Entry)
  BY DEF Memory
<1>3. CASE file = <<>>
  BY <1>2, <1>3, GrownSelf DEF ReadAll, ReadOf
<1>4. CASE file # <<>>
  <2>1. l \in Nat /\ k \in Nat /\ x \in Event
    BY <1>1, <1>2, <1>4
  <2>2. x.stim \in Nat
    BY <2>1, HistoryAssumption DEF Event
  <2>3. es \in Seq(Entry) /\ Len(es) = n /\ \A i \in 1..n : es[i].old
    BY <1>1, ImportedLemma
  <2> HIDE DEF es
  <2>4. /\ all \in Seq(Entry)
        /\ Len(all) = Len(r.ring) + n
        /\ \A i \in 1..Len(r.ring) : all[i] = r.ring[i]
        /\ \A i \in 1..Len(all) : i > Len(r.ring) => all[i] = es[i - Len(r.ring)]
    <3> DEFINE a == r.ring
    <3>1. a \in Seq(Entry) /\ Len(a) \in Nat
      BY <1>2
    <3> HIDE DEF a
    <3>2. /\ a \o es \in Seq(Entry)
          /\ Len(a \o es) = Len(a) + Len(es)
          /\ \A i \in 1..(Len(a) + Len(es)) :
                (a \o es)[i] = IF i <= Len(a) THEN a[i] ELSE es[i - Len(a)]
      <4>1. es \in Seq(Entry)
        BY <2>3
      <4> QED
        BY <4>1, <3>1, ConcatProperties
    <3> QED
      BY <3>1, <3>2, <2>3, <1>1 DEF a
  <2>5. Grown(all, r.ring)
    <3>1. ASSUME NEW i \in 1..Len(all), i > Len(r.ring) PROVE all[i].old
      <4>1. i - Len(r.ring) \in 1..n
        BY <3>1, <2>4, <1>1, <1>2
      <4> QED
        BY <4>1, <3>1, <2>3, <2>4
    <3> QED
      BY <3>1, <2>4, <1>1, <1>2 DEF Grown
  <2>6. ReadAll(r) = [r EXCEPT !.ring = all, !.linect = l, !.fpos = k,
                               !.stim = x.stim, !.text = x]
    BY <1>4 DEF ReadAll, es
  <2>7. all \in Seq(Entry)
    BY <2>4
  <2> HIDE DEF all, l, k, x
  <2> QED
    BY <2>1, <2>2, <2>5, <2>6, <2>7 DEF ReadOf, Memory
<1> QED
  BY <1>3, <1>4

-----------------------------------------------------------------------------
(* Types.                                                                  *)

\* One shell takes a step to the memory r.
LEMMA StepTypes ==
    ASSUME Types, NEW s \in Shells, NEW r \in Memory, CountOK(r), Put(s, r)
    PROVE  shell' \in [Shells -> Memory] /\ \A t \in Shells : CountOK(shell'[t])
  BY DEF Types, Put

LEMMA MemoryLemma ==
    ASSUME Types, NEW s \in Shells
    PROVE  shell[s] \in Memory /\ CountOK(shell[s])
  BY DEF Types

\* Moving on in the program changes nothing else.
LEMMA GotoLemma ==
    ASSUME Types, NEW s \in Shells, NEW pc \in Pcs, Goto(s, pc),
           CountOK([shell[s] EXCEPT !.pc = pc])
    PROVE  shell' \in [Shells -> Memory] /\ \A t \in Shells : CountOK(shell'[t])
<1> DEFINE r == [shell[s] EXCEPT !.pc = pc]
<1>1. r \in Memory
  BY MemoryLemma DEF Memory
<1>2. Put(s, r)
  BY DEF Goto, Put
<1> QED
  BY <1>1, <1>2, StepTypes

LEMMA LockTypes ==
    ASSUME Types, NEW s \in Shells, NEW r,
           lockhistfile(s, r) \/ unlockhistfile(r) \/ UNCHANGED lock
    PROVE  (lock = None \/ lock \in Locked)'
  BY DEF Types, lockhistfile, unlockhistfile, Locked

\* One more, and one less, request for the lock.
LEMMA CountMore ==
    ASSUME NEW r \in Memory, r.ct \in {0, 1}, NEW x, x = [r EXCEPT !.ct = @ + 1]
    PROVE  x \in Memory /\ x.ct = r.ct + 1 /\ x.pc = r.pc /\ x.fast = r.fast
           /\ x.ct \in {1, 2}
<1>1. x.ct = r.ct + 1 /\ x.pc = r.pc /\ x.fast = r.fast
  BY DEF Memory
<1>2. r.ct + 1 \in {1, 2} /\ r.ct + 1 \in 0..2
  OBVIOUS
<1> DEFINE c == r.ct + 1
<1>3. x = [r EXCEPT !.ct = c]
  BY DEF Memory
<1>4. c \in 0..2
  BY <1>2
<1> HIDE DEF c
<1>5. x \in Memory
  BY <1>3, <1>4 DEF Memory
<1> QED
  BY <1>1, <1>2, <1>5

LEMMA CountLess ==
    ASSUME NEW r \in Memory
    PROVE  /\ Released(r) \in Memory
           /\ Released(r).ct = IF r.ct = 0 THEN 0 ELSE r.ct - 1
           /\ Released(r).pc = r.pc /\ Released(r).fast = r.fast
           /\ Released(r).tmp = r.tmp /\ Released(r).ring = r.ring
<1> DEFINE c == IF r.ct = 0 THEN 0 ELSE r.ct - 1
<1>1. r.ct \in 0..2
  BY DEF Memory
<1>2. c \in 0..2
  BY <1>1
<1>3. Released(r) = [r EXCEPT !.ct = c]
  BY DEF Released, Memory
<1> HIDE DEF c
<1>4. Released(r) \in Memory /\ Released(r).ct = c
  BY <1>2, <1>3 DEF Memory
<1>5. /\ Released(r).pc = r.pc /\ Released(r).fast = r.fast
      /\ Released(r).tmp = r.tmp /\ Released(r).ring = r.ring
  BY <1>3 DEF Memory
<1> QED
  BY <1>4, <1>5 DEF c

LEMMA StartTypes ==
    ASSUME Types, NEW s \in Shells, Start(s) PROVE Types'
<1> DEFINE p == IF file = <<>> THEN "idle" ELSE "start"
<1>1. shell[s] \in Memory /\ CountOK(shell[s])
  BY MemoryLemma
<1>2. p \in Pcs /\ CountOK([shell[s] EXCEPT !.pc = p])
  BY <1>1 DEF Start, At, Memory, CountOK, Pcs, Writing
<1>3. Goto(s, p)
  BY DEF Start
<1> HIDE DEF p
<1>4. shell' \in [Shells -> Memory] /\ \A t \in Shells : CountOK(shell'[t])
  BY <1>2, <1>3, GotoLemma
<1> QED
  BY <1>4 DEF Start, Types, disk, bounds, Locked

LEMMA StartReadTypes ==
    ASSUME Types, NEW s \in Shells, StartRead(s) PROVE Types'
<1> DEFINE q == ReadAll(shell[s])
           r == [q EXCEPT !.ct = 1, !.pc = "started"]
<1>1. q \in Memory
  BY MemoryLemma, ReadAllLemma DEF ReadOf
<1>2. Put(s, r)
  BY DEF StartRead
<1> HIDE DEF q
<1>3. r \in Memory /\ CountOK(r)
  <2>3. 1 \in 0..2
    OBVIOUS
  <2>1. r \in Memory
    <3> DEFINE x == [q EXCEPT !.ct = 1]
    <3>1. r = [x EXCEPT !.pc = "started"]
      BY <1>1 DEF Memory
    <3>2. x \in Memory
      BY <1>1, <2>3 DEF Memory
    <3> HIDE DEF r, x
    <3> QED
      BY <3>1, <3>2 DEF Memory, Pcs, Writing
  <2>2. r.pc = "started" /\ r.ct = 1
    BY <1>1 DEF Memory
  <2> HIDE DEF r
  <2> QED
    BY <2>1, <2>2 DEF CountOK, Writing
<1> HIDE DEF r
<1>4. shell' \in [Shells -> Memory] /\ \A t \in Shells : CountOK(shell'[t])
  BY <1>2, <1>3, StepTypes
<1>5. (lock = None \/ lock \in Locked)'
  BY LockTypes DEF StartRead
<1> QED
  BY <1>4, <1>5 DEF StartRead, Types, disk, bounds

LEMMA StartedTypes ==
    ASSUME Types, NEW s \in Shells, Started(s) PROVE Types'
<1> DEFINE m == shell[s]
           x == Released(m)
           r == [x EXCEPT !.pc = "idle"]
<1>1. m \in Memory /\ CountOK(m)
  BY MemoryLemma
<1>2. m.ct = 1
  BY <1>1 DEF Started, At, CountOK, Writing
<1>3. x \in Memory /\ x.ct = (IF m.ct = 0 THEN 0 ELSE m.ct - 1) /\ x.fast = m.fast
  BY <1>1, CountLess
<1>4. Put(s, r)
  BY DEF Started
<1> HIDE DEF x
<1>5. r \in Memory /\ CountOK(r)
  <2>1. r \in Memory
    BY <1>3, FreshLemma DEF Memory, Pcs
  <2>2. r.pc = "idle" /\ r.ct = 0
    BY <1>2, <1>3 DEF Memory
  <2> HIDE DEF r
  <2> QED
    BY <2>1, <2>2, FreshLemma DEF CountOK, Writing
<1> HIDE DEF r
<1>6. shell' \in [Shells -> Memory] /\ \A t \in Shells : CountOK(shell'[t])
  BY <1>4, <1>5, StepTypes
<1>7. (lock = None \/ lock \in Locked)'
  BY LockTypes DEF Started
<1> QED
  BY <1>6, <1>7 DEF Started, Types, disk, bounds

LEMMA HendLockedTypes ==
    ASSUME Types, NEW s \in Shells, HendLocked(s) PROVE Types'
<1> DEFINE m == shell[s]
           x == [m EXCEPT !.ct = @ + 1]
           r == [x EXCEPT !.pc = "read"]
<1>1. m \in Memory /\ CountOK(m)
  BY MemoryLemma
<1>2. m.ct = 0
  BY <1>1 DEF HendLocked, At, CountOK
<1>3. x \in Memory /\ x.ct = m.ct + 1 /\ x.fast = m.fast
  BY <1>1, <1>2, CountMore
<1>4. Put(s, r)
  BY <1>1 DEF HendLocked, Put, Memory
<1> HIDE DEF x
<1>5. r \in Memory /\ CountOK(r)
  BY <1>2, <1>3 DEF Memory, CountOK, Pcs, Writing
<1> HIDE DEF r
<1>6. shell' \in [Shells -> Memory] /\ \A t \in Shells : CountOK(shell'[t])
  BY <1>4, <1>5, StepTypes
<1>7. (lock = None \/ lock \in Locked)'
  BY LockTypes DEF HendLocked
<1> QED
  BY <1>6, <1>7 DEF HendLocked, Types, disk, bounds

LEMMA HendUnlockedTypes ==
    ASSUME Types, NEW s \in Shells, HendUnlocked(s) PROVE Types'
<1> DEFINE p == "add"
<1>1. shell[s] \in Memory /\ CountOK(shell[s])
  BY MemoryLemma
<1>2. p \in Pcs /\ CountOK([shell[s] EXCEPT !.pc = p])
  BY <1>1 DEF HendUnlocked, At, Memory, CountOK, Pcs, Writing
<1>3. Goto(s, p)
  BY DEF HendUnlocked
<1> HIDE DEF p
<1>4. shell' \in [Shells -> Memory] /\ \A t \in Shells : CountOK(shell'[t])
  BY <1>2, <1>3, GotoLemma
<1> QED
  BY <1>4 DEF HendUnlocked, Types, disk, bounds, Locked

LEMMA HendReadTypes ==
    ASSUME Types, NEW s \in Shells, HendRead(s) PROVE Types'
<1> DEFINE r == [ReadFast(shell[s]) EXCEPT !.pc = "add"]
<1>1. shell[s] \in Memory /\ CountOK(shell[s])
  BY MemoryLemma
<1>6. ReadOf(ReadFast(shell[s]), shell[s])
  BY <1>1, ReadFastLemma
<1>2. r \in Memory /\ CountOK(r)
  BY <1>1, <1>6 DEF HendRead, At, Memory, CountOK, Pcs, Writing, ReadOf
<1>3. Put(s, r)
  BY DEF HendRead
<1> HIDE DEF r
<1>4. shell' \in [Shells -> Memory] /\ \A t \in Shells : CountOK(shell'[t])
  BY <1>2, <1>3, StepTypes
<1> QED
  BY <1>4 DEF HendRead, Types, disk, bounds

LEMMA HendAddTypes ==
    ASSUME Types, NEW s \in Shells, HendAdd(s) PROVE Types'
<1> DEFINE q == [shell[s] EXCEPT !.pc = AfterAdd(shell[s]), !.fast = TRUE,
                                 !.norewrite = FALSE]
           x == [e |-> [sh |-> s, n |-> count[s] + 1, stim |-> now],
                 old |-> FALSE]
           r == [q EXCEPT !.ring = Append(@, x)]
<1>1. shell[s] \in Memory /\ CountOK(shell[s]) /\ shell[s].pc = "add"
  BY MemoryLemma DEF HendAdd, At
<1>2. q \in Memory /\ CountOK(q)
  BY <1>1 DEF AfterAdd, Memory, CountOK, Pcs, Writing
<1>3. CASE count[s] < MaxEvents /\ count' = [count EXCEPT ![s] = @ + 1] /\ Put(s, r)
  <2>1. count[s] + 1 \in 1..MaxEvents /\ now \in 0..MaxTime
    BY <1>3, HistoryAssumption DEF Types
  <2>2. x \in Entry
    BY <2>1 DEF Entry, Event
  <2>3. Append(q.ring, x) \in Seq(Entry)
    <3>1. q.ring \in Seq(Entry)
      BY <1>2 DEF Memory
    <3> HIDE DEF q, x
    <3> QED
      BY <2>2, <3>1, AppendProperties
  <2> HIDE DEF q, x
  <2>4. r \in Memory /\ CountOK(r)
    BY <1>2, <2>3 DEF Memory, CountOK
  <2> HIDE DEF r
  <2>5. shell' \in [Shells -> Memory] /\ \A t \in Shells : CountOK(shell'[t])
    BY <1>3, <2>4, StepTypes
  <2>6. count' \in [Shells -> 0..MaxEvents]
    BY <1>3, <2>1 DEF Types
  <2> QED
    BY <2>5, <2>6 DEF HendAdd, Types, disk, bounds
<1>4. CASE Put(s, q) /\ UNCHANGED count
  <2> HIDE DEF q
  <2>1. shell' \in [Shells -> Memory] /\ \A t \in Shells : CountOK(shell'[t])
    BY <1>2, <1>4, StepTypes
  <2> QED
    BY <1>4, <2>1 DEF HendAdd, Types, disk, bounds
<1> QED
  BY <1>3, <1>4 DEF HendAdd

LEMMA HendEndTypes ==
    ASSUME Types, NEW s \in Shells, HendEnd(s) PROVE Types'
<1> DEFINE m == shell[s]
           x == Released(m)
           r == [x EXCEPT !.pc = "idle"]
<1>1. m \in Memory /\ CountOK(m)
  BY MemoryLemma
<1>2. m.ct \in {0, 1}
  BY <1>1 DEF HendEnd, At, CountOK, Writing
<1>3. x \in Memory /\ x.ct = (IF m.ct = 0 THEN 0 ELSE m.ct - 1) /\ x.fast = m.fast
  BY <1>1, CountLess
<1>4. Put(s, r)
  BY DEF HendEnd
<1> HIDE DEF x
<1>5. r \in Memory /\ CountOK(r)
  <2>1. r \in Memory
    BY <1>3, FreshLemma DEF Memory, Pcs
  <2>2. r.pc = "idle" /\ r.ct = 0
    BY <1>2, <1>3 DEF Memory
  <2> HIDE DEF r
  <2> QED
    BY <2>1, <2>2, FreshLemma DEF CountOK, Writing
<1> HIDE DEF r
<1>6. shell' \in [Shells -> Memory] /\ \A t \in Shells : CountOK(shell'[t])
  BY <1>4, <1>5, StepTypes
<1>7. (lock = None \/ lock \in Locked)'
  BY LockTypes DEF HendEnd
<1> QED
  BY <1>6, <1>7 DEF HendEnd, Types, disk, bounds

LEMMA SaveFastTypes ==
    ASSUME Types, NEW s \in Shells, SaveFast(s) PROVE Types'
<1> DEFINE x == [shell[s] EXCEPT !.ct = @ + 1]
           r == [x EXCEPT !.pc = "append",
                          !.norewrite = shell[s].linect <= Limit]
<1>1. shell[s] \in Memory /\ CountOK(shell[s]) /\ shell[s].pc = "save"
  BY MemoryLemma DEF SaveFast, At
<1>2. CASE Goto(s, "hend") /\ UNCHANGED lock
  <2>1. "hend" \in Pcs /\ CountOK([shell[s] EXCEPT !.pc = "hend"])
    BY <1>1 DEF Memory, CountOK, Pcs, Writing
  <2>2. shell' \in [Shells -> Memory] /\ \A t \in Shells : CountOK(shell'[t])
    BY <1>2, <2>1, GotoLemma
  <2> QED
    BY <1>2, <2>2 DEF SaveFast, Types, disk, bounds
<1>4. x \in Memory /\ x.ct \in {1, 2} /\ x.fast
  BY <1>1, CountMore DEF CountOK
<1>5. SaveFast(s) => (Goto(s, "hend") /\ UNCHANGED lock)
                     \/ (lockhistfile(s, shell[s]) /\ Put(s, r))
  BY <1>1 DEF SaveFast, Put, Memory
<1> HIDE DEF x
<1>3. CASE lockhistfile(s, shell[s]) /\ Put(s, r)
  <2>3. r \in Memory
    <3> DEFINE long == shell[s].linect <= Limit
    <3>1. long \in BOOLEAN
      OBVIOUS
    <3>2. r = [x EXCEPT !.pc = "append", !.norewrite = long]
      OBVIOUS
    <3> HIDE DEF r, long
    <3> QED
      BY <1>4, <3>1, <3>2 DEF Memory, Pcs, Writing
  <2>4. r.pc = "append" /\ r.ct = x.ct /\ r.fast = x.fast
    BY <1>4 DEF Memory
  <2>1. r \in Memory /\ CountOK(r)
    <3> HIDE DEF r
    <3> QED
      BY <1>4, <2>3, <2>4 DEF CountOK, Writing
  <2> HIDE DEF r
  <2>2. shell' \in [Shells -> Memory] /\ \A t \in Shells : CountOK(shell'[t])
    BY <1>3, <2>1, StepTypes
  <2>5. (lock = None \/ lock \in Locked)'
    BY <1>3, LockTypes
  <2> QED
    BY <2>2, <2>5 DEF SaveFast, Types, disk, bounds
<1> QED
  BY <1>2, <1>3, <1>5

LEMMA ExitTypes ==
    ASSUME Types, NEW s \in Shells, Exit(s) PROVE Types'
<1>1. PICK signalled \in BOOLEAN :
         Put(s, [shell[s] EXCEPT !.pc = "exit", !.fast = FALSE,
                                 !.norewrite = signalled])
  BY DEF Exit
<1> DEFINE r == [shell[s] EXCEPT !.pc = "exit", !.fast = FALSE,
                                 !.norewrite = signalled]
<1>2. shell[s] \in Memory /\ CountOK(shell[s]) /\ shell[s].pc = "idle"
  BY MemoryLemma DEF Exit, At
<1>3. r \in Memory /\ CountOK(r)
  BY <1>2 DEF Memory, CountOK, Pcs, Writing
<1> HIDE DEF r
<1>4. shell' \in [Shells -> Memory] /\ \A t \in Shells : CountOK(shell'[t])
  BY <1>1, <1>3, StepTypes DEF r
<1> QED
  BY <1>4 DEF Exit, Types, disk, bounds

LEMMA ExitLockTypes ==
    ASSUME Types, NEW s \in Shells, ExitLock(s) PROVE Types'
<1> DEFINE m == shell[s]
           x == [m EXCEPT !.ct = @ + 1]
           r == [x EXCEPT !.pc = "append"]
<1>1. m \in Memory /\ CountOK(m)
  BY MemoryLemma
<1>2. m.ct = 0
  BY <1>1 DEF ExitLock, At, CountOK
<1>3. x \in Memory /\ x.ct = m.ct + 1 /\ x.fast = m.fast
  BY <1>1, <1>2, CountMore
<1>4. Put(s, r)
  BY <1>1 DEF ExitLock, Put, Memory
<1> HIDE DEF x
<1>5. r \in Memory /\ CountOK(r)
  BY <1>2, <1>3 DEF Memory, CountOK, Pcs, Writing
<1> HIDE DEF r
<1>6. shell' \in [Shells -> Memory] /\ \A t \in Shells : CountOK(shell'[t])
  BY <1>4, <1>5, StepTypes
<1>7. (lock = None \/ lock \in Locked)'
  BY LockTypes DEF ExitLock
<1> QED
  BY <1>6, <1>7 DEF ExitLock, Types, disk, bounds

LEMMA EventsLemma ==
    ASSUME NEW ring \in Seq(Entry)
    PROVE  Events(ring) \in Seq(Event) /\ Len(Events(ring)) = Len(ring)
           /\ \A i \in 1..Len(ring) : Events(ring)[i] = ring[i].e
<1> DEFINE n == Len(ring)
<1>1. n \in Nat /\ \A i \in 1..n : ring[i].e \in Event
  <2>1. ASSUME NEW i \in 1..n PROVE ring[i].e \in Event
    <3>1. ring[i] \in Entry
      OBVIOUS
    <3> QED
      BY <3>1 DEF Entry
  <2> QED
    BY <2>1
<1>2. Events(ring) = [i \in 1..n |-> ring[i].e]
  BY DEF Events
<1> HIDE DEF n
<1>3. Events(ring) \in [1..n -> Event]
  BY <1>1, <1>2
<1>4. Events(ring) \in Seq(Event) /\ Len(Events(ring)) = n
  BY <1>1, <1>3, SeqDef
<1> QED
  BY <1>2, <1>4 DEF n

\* The events that savehistfile() is to write, and the memory after the append.
LEMMA AppendLemma ==
    ASSUME Types, NEW s \in Shells, At(s, "append")
    PROVE  LET r    == shell[s]
               es   == Unsaved(r.ring)
               q    == [r EXCEPT !.ring = Imported(Events(@)),
                                 !.linect = @ + Len(es)]
           IN  /\ es \in Seq(Event)
               /\ Imported(Events(r.ring)) \in Seq(Entry)
               /\ Len(Imported(Events(r.ring))) = Len(r.ring)
               /\ \A i \in 1..Len(r.ring) : Imported(Events(r.ring))[i].old
               /\ q \in Memory
<1> DEFINE r == shell[s]
           es == Unsaved(r.ring)
           events == Events(r.ring)
           l == r.linect + Len(es)
<1>1. r \in Memory /\ r.ring \in Seq(Entry) /\ r.linect \in Nat
  BY MemoryLemma DEF Memory
<1>2. es \in Seq(Event)
  BY <1>1, UnsavedLemma
<1>3. events \in Seq(Event) /\ Len(events) = Len(r.ring)
  BY <1>1, EventsLemma
<1>4. /\ Imported(events) \in Seq(Entry)
      /\ Len(Imported(events)) = Len(r.ring)
      /\ \A i \in 1..Len(r.ring) : Imported(events)[i].old
  BY <1>3, ImportedLemma
<1>5. l \in Nat
  BY <1>1, <1>2
<1>6. [r EXCEPT !.ring = Imported(events), !.linect = l] \in Memory
  <2> DEFINE old == Imported(events)
  <2>1. old \in Seq(Entry)
    BY <1>4
  <2> HIDE DEF old
  <2>2. [r EXCEPT !.ring = old] \in Memory
    BY <1>1, <2>1 DEF Memory
  <2> DEFINE x == [r EXCEPT !.ring = old]
  <2>3. [r EXCEPT !.ring = old, !.linect = l] = [x EXCEPT !.linect = l]
    BY <1>1 DEF Memory
  <2>5. x \in Memory
    BY <2>2
  <2> HIDE DEF x, l
  <2>4. [x EXCEPT !.linect = l] \in Memory
    BY <1>5, <2>5 DEF Memory
  <2> QED
    BY <2>3, <2>4 DEF old
<1> QED
  BY <1>2, <1>4, <1>6

LEMMA SaveAppendTypes ==
    ASSUME Types, NEW s \in Shells, SaveAppend(s) PROVE Types'
<1> DEFINE r    == shell[s]
           es   == Unsaved(r.ring)
           q    == [r EXCEPT !.ring = Imported(Events(@)),
                             !.linect = @ + Len(es)]
           next == IF r.norewrite THEN "saved" ELSE "rw_read"
<1>1. r \in Memory /\ CountOK(r) /\ r.pc = "append"
  BY MemoryLemma DEF SaveAppend, At
<1>2. es \in Seq(Event) /\ q \in Memory
  BY AppendLemma DEF SaveAppend
<1>3. q.ct = r.ct /\ q.fast = r.fast
  BY <1>1 DEF Memory
<1>4. next \in {"saved", "rw_read"}
  OBVIOUS
<1>5. file \in Seq(Event) /\ written \in Seq(Event) /\ Len(file) \in Nat
      /\ now \in 0..MaxTime
  BY DEF Types
<1>6. CASE es = <<>> /\ Goto(s, next) /\ UNCHANGED <<disk, failures>>
  <2>1. next \in Pcs /\ CountOK([r EXCEPT !.pc = next])
    BY <1>1, <1>4 DEF Memory, CountOK, Pcs, Writing
  <2> HIDE DEF next
  <2>2. shell' \in [Shells -> Memory] /\ \A t \in Shells : CountOK(shell'[t])
    BY <1>6, <2>1, GotoLemma
  <2> QED
    BY <1>6, <2>2 DEF SaveAppend, Types, disk, bounds
<1> DEFINE x == es[Len(es)]
<1>7. es # <<>> => x \in Event /\ x.stim \in Nat /\ Len(es) \in Nat \ {0}
  <2>1. es # <<>> => x \in Event /\ Len(es) \in Nat \ {0}
    BY <1>2
  <2> HIDE DEF x
  <2> QED
    BY <2>1, HistoryAssumption DEF Event
<1> HIDE DEF q, es
<1>8. CASE /\ es # <<>>
           /\ file' = file \o es
           /\ mtime' = now
           /\ written' = written \o es
           /\ Put(s, [q EXCEPT !.pc = next, !.fpos = Len(file') - 1,
                               !.stim = es[Len(es)].stim,
                               !.text = es[Len(es)],
                               !.fsiz = Len(file'), !.mtim = now])
           /\ UNCHANGED <<newfile, failures>>
  <2>1. file' \in Seq(Event) /\ written' \in Seq(Event)
    BY <1>2, <1>5, <1>8
  <2>2. Len(file') = Len(file) + Len(es)
    BY <1>2, <1>5, <1>8
  <2> DEFINE n == Len(file')
             k == n - 1
             p == [q EXCEPT !.pc = next, !.fpos = k, !.stim = x.stim,
                            !.text = x, !.fsiz = n, !.mtim = now]
  <2>3. n \in Nat /\ k \in Nat
    BY <1>5, <1>7, <1>8, <2>2
  <2>4. Put(s, p)
    BY <1>8
  <2> HIDE DEF n, k, x, next
  <2>5. p \in Memory /\ p.pc = next /\ p.ct = r.ct /\ p.fast = r.fast
    BY <1>2, <1>3, <1>4, <1>5, <1>7, <1>8, <2>3 DEF Memory, Pcs, Writing
  <2> HIDE DEF p
  <2>6. CountOK(p)
    BY <1>1, <1>4, <2>5 DEF CountOK, Writing
  <2>7. shell' \in [Shells -> Memory] /\ \A t \in Shells : CountOK(shell'[t])
    BY <2>4, <2>5, <2>6, StepTypes
  <2> QED
    BY <1>8, <2>1, <2>7 DEF SaveAppend, Types, bounds
<1>9. CASE /\ es # <<>>
           /\ Put(s, [q EXCEPT !.pc = "saved",
                               !.fpos = Len(file) + Len(es) - 1,
                               !.stim = es[Len(es)].stim])
           /\ UNCHANGED disk
  <2> DEFINE k == Len(file) + Len(es) - 1
             p == [q EXCEPT !.pc = "saved", !.fpos = k, !.stim = x.stim]
  <2>1. k \in Nat
    BY <1>5, <1>7, <1>9
  <2>2. Put(s, p)
    BY <1>9
  <2> HIDE DEF k, x
  <2>3. p \in Memory /\ p.pc = "saved" /\ p.ct = r.ct /\ p.fast = r.fast
    BY <1>2, <1>3, <1>7, <1>9, <2>1 DEF Memory, Pcs, Writing
  <2> HIDE DEF p
  <2>4. CountOK(p)
    BY <1>1, <2>3 DEF CountOK, Writing
  <2>5. shell' \in [Shells -> Memory] /\ \A t \in Shells : CountOK(shell'[t])
    BY <2>2, <2>3, <2>4, StepTypes
  <2> QED
    BY <1>9, <2>5 DEF SaveAppend, Types, bounds, disk
<1> QED
  BY <1>6, <1>8, <1>9 DEF SaveAppend, es, q

LEMMA LastLemma ==
    ASSUME NEW q \in Seq(Event), NEW k \in Nat
    PROVE  /\ Last(q, k) \in Seq(Event)
           /\ Len(Last(q, k)) = IF Len(q) > k THEN k ELSE Len(q)
           /\ \A i \in 1..Len(Last(q, k)) :
                 Last(q, k)[i] = q[Len(q) - Len(Last(q, k)) + i]
<1> DEFINE n == Len(q)
           m == IF n > k THEN n - k + 1 ELSE 1
<1>1. n \in Nat /\ m \in Nat \ {0} /\ m <= n + 1
      /\ \A i \in m..n : q[i] \in Event
  OBVIOUS
<1>2. n - m + 1 = IF n > k THEN k ELSE n
  BY <1>1
<1>3. Last(q, k) = SubSeq(q, m, n)
  BY DEF Last
<1> DEFINE l == n - m + 1
           p == SubSeq(q, m, n)
<1> HIDE DEF n, m
<1>4. /\ p \in Seq(Event)
      /\ Len(p) = IF m <= n THEN n - m + 1 ELSE 0
      /\ \A i \in 1 .. n - m + 1 : p[i] = q[m + i - 1]
  BY <1>1, SubSeqProperties
<1>5. l \in Nat /\ Len(p) = l
  BY <1>1, <1>4
<1>6. \A i \in 1..l : p[i] = q[n - l + i]
  <2>1. ASSUME NEW i \in 1..l PROVE m + i - 1 = n - l + i
    BY <1>1, <1>5
  <2> QED
    BY <1>4, <2>1
<1> HIDE DEF p, l
<1>7. l = IF n > k THEN k ELSE n
  BY <1>2 DEF l
<1> QED
  BY <1>3, <1>4, <1>5, <1>6, <1>7 DEF n, p

LEMMA RewriteReadTypes ==
    ASSUME Types, NEW s \in Shells, RewriteRead(s) PROVE Types'
<1> DEFINE r == [shell[s] EXCEPT !.tmp = Last(file, SAVEHIST),
                     !.pc = IF file = <<>> THEN "saved" ELSE "rw_open"]
<1>1. shell[s] \in Memory /\ CountOK(shell[s])
  BY MemoryLemma
<1>6. Last(file, SAVEHIST) \in Seq(Event)
  BY LastLemma, HistoryAssumption DEF Types
<1>2. r \in Memory /\ CountOK(r)
  BY <1>1, <1>6 DEF RewriteRead, At, Memory, CountOK, Pcs, Writing
<1>3. Put(s, r)
  BY DEF RewriteRead
<1> HIDE DEF r
<1>4. shell' \in [Shells -> Memory] /\ \A t \in Shells : CountOK(shell'[t])
  BY <1>2, <1>3, StepTypes
<1> QED
  BY <1>4 DEF RewriteRead, Types, disk, bounds

LEMMA RewriteOpenTypes ==
    ASSUME Types, NEW s \in Shells, RewriteOpen(s) PROVE Types'
<1>1. shell[s] \in Memory /\ CountOK(shell[s])
  BY MemoryLemma
<1>2. "rw_write" \in Pcs /\ CountOK([shell[s] EXCEPT !.pc = "rw_write"])
  BY <1>1 DEF RewriteOpen, At, Memory, CountOK, Pcs, Writing
<1>3. shell' \in [Shells -> Memory] /\ \A t \in Shells : CountOK(shell'[t])
  BY <1>2, GotoLemma DEF RewriteOpen
<1>4. <<>> \in Seq(Event)
  OBVIOUS
<1> QED
  BY <1>3, <1>4 DEF RewriteOpen, Types, bounds

LEMMA RewriteWriteTypes ==
    ASSUME Types, NEW s \in Shells, RewriteWrite(s) PROVE Types'
<1> DEFINE r == [shell[s] EXCEPT !.tmp = <<>>,
                     !.pc = IF HISTSAVEBYCOPY THEN "rw_rename" ELSE "saved"]
<1>1. shell[s] \in Memory /\ CountOK(shell[s])
  BY MemoryLemma
<1>6. <<>> \in Seq(Event)
  OBVIOUS
<1>7. shell[s].tmp \in Seq(Event)
  BY <1>1 DEF Memory
<1>2. r \in Memory /\ CountOK(r)
  BY <1>1, <1>6 DEF RewriteWrite, At, Memory, CountOK, Pcs, Writing
<1>3. Put(s, r)
  BY DEF RewriteWrite
<1> HIDE DEF r
<1>4. shell' \in [Shells -> Memory] /\ \A t \in Shells : CountOK(shell'[t])
  BY <1>2, <1>3, StepTypes
<1> QED
  BY <1>4, <1>7 DEF RewriteWrite, Types, disk, bounds

LEMMA RewriteFailsTypes ==
    ASSUME Types, NEW s \in Shells, RewriteFails(s) PROVE Types'
<1> DEFINE r == [shell[s] EXCEPT !.tmp = <<>>, !.pc = "saved"]
<1>1. shell[s] \in Memory /\ CountOK(shell[s])
  BY MemoryLemma
<1>6. <<>> \in Seq(Event)
  OBVIOUS
<1>2. r \in Memory /\ CountOK(r)
  BY <1>1, <1>6 DEF RewriteFails, At, Memory, CountOK, Pcs, Writing
<1>3. Put(s, r)
  BY DEF RewriteFails
<1> HIDE DEF r
<1>4. shell' \in [Shells -> Memory] /\ \A t \in Shells : CountOK(shell'[t])
  BY <1>2, <1>3, StepTypes
<1> QED
  BY <1>4 DEF RewriteFails, Types, disk, bounds

LEMMA RewriteRenameTypes ==
    ASSUME Types, NEW s \in Shells, RewriteRename(s) PROVE Types'
<1> DEFINE p == "saved"
<1>1. shell[s] \in Memory /\ CountOK(shell[s])
  BY MemoryLemma
<1>2. p \in Pcs /\ CountOK([shell[s] EXCEPT !.pc = p])
  BY <1>1 DEF RewriteRename, At, Memory, CountOK, Pcs, Writing
<1>3. Goto(s, p)
  BY DEF RewriteRename
<1> HIDE DEF p
<1>4. shell' \in [Shells -> Memory] /\ \A t \in Shells : CountOK(shell'[t])
  BY <1>2, <1>3, GotoLemma
<1> QED
  BY <1>4 DEF RewriteRename, Types, disk, bounds, Locked

LEMMA SavedTypes ==
    ASSUME Types, NEW s \in Shells, Saved(s) PROVE Types'
<1> DEFINE m == shell[s]
           x == Released(m)
           r == IF x.fast THEN [x EXCEPT !.pc = "hend"] ELSE Fresh
<1>1. m \in Memory /\ CountOK(m)
  BY MemoryLemma
<1>2. m.ct \in {1, 2}
  BY <1>1 DEF Saved, At, CountOK, Writing
<1>3. x \in Memory /\ x.ct = (IF m.ct = 0 THEN 0 ELSE m.ct - 1) /\ x.fast = m.fast
  BY <1>1, CountLess
<1>4. Put(s, r)
  BY DEF Saved
<1> HIDE DEF x
<1>5. r \in Memory /\ CountOK(r)
  <2>1. r \in Memory
    BY <1>3, FreshLemma DEF Memory, Pcs
  <2>2. r = Fresh \/ (r.pc = "hend" /\ r.ct \in {0, 1})
    BY <1>2, <1>3 DEF Memory
  <2> HIDE DEF r
  <2> QED
    BY <2>1, <2>2, FreshLemma DEF CountOK, Writing
<1> HIDE DEF r
<1>6. shell' \in [Shells -> Memory] /\ \A t \in Shells : CountOK(shell'[t])
  BY <1>4, <1>5, StepTypes
<1>7. (lock = None \/ lock \in Locked)'
  BY LockTypes DEF Saved
<1> QED
  BY <1>6, <1>7 DEF Saved, Types, disk, bounds

LEMMA LockGivenUpTypes ==
    ASSUME Types, NEW s \in Shells, LockGivenUp(s) PROVE Types'
<1> DEFINE r == IF At(s, "exit") THEN Fresh ELSE [shell[s] EXCEPT !.pc = "idle"]
<1>1. shell[s] \in Memory /\ CountOK(shell[s])
  BY MemoryLemma
<1>2. r \in Memory /\ CountOK(r)
  BY <1>1, FreshLemma, ZenonT(60) DEF LockGivenUp, At, Memory, CountOK, Pcs, Writing, Waiting
<1>3. Put(s, r)
  BY DEF LockGivenUp
<1> HIDE DEF r
<1>4. shell' \in [Shells -> Memory] /\ \A t \in Shells : CountOK(shell'[t])
  BY <1>2, <1>3, StepTypes
<1> QED
  BY <1>4 DEF LockGivenUp, Types, disk, bounds

LEMMA LockStaleTypes ==
    ASSUME Types, NEW s \in Shells, LockStale(s) PROVE Types'
<1> DEFINE p == IF At(s, "exit") THEN "steal_exit" ELSE "steal_start"
<1>1. shell[s] \in Memory /\ CountOK(shell[s])
  BY MemoryLemma
<1>2. p \in Pcs /\ CountOK([shell[s] EXCEPT !.pc = p])
  BY <1>1 DEF LockStale, At, Memory, CountOK, Pcs, Writing, Waiting
<1>3. Goto(s, p)
  BY DEF LockStale
<1> HIDE DEF p
<1>4. shell' \in [Shells -> Memory] /\ \A t \in Shells : CountOK(shell'[t])
  BY <1>2, <1>3, GotoLemma
<1> QED
  BY <1>4 DEF LockStale, Types, disk, bounds, Locked, Waiting

LEMMA LockStealTypes ==
    ASSUME Types, NEW s \in Shells, LockSteal(s) PROVE Types'
<1> DEFINE p == IF At(s, "steal_exit") THEN "exit" ELSE "start"
<1>1. shell[s] \in Memory /\ CountOK(shell[s])
  BY MemoryLemma
<1>2. p \in Pcs /\ CountOK([shell[s] EXCEPT !.pc = p])
  BY <1>1 DEF LockSteal, At, Memory, CountOK, Pcs, Writing
<1>3. Goto(s, p)
  BY DEF LockSteal
<1> HIDE DEF p
<1>4. shell' \in [Shells -> Memory] /\ \A t \in Shells : CountOK(shell'[t])
  BY <1>2, <1>3, GotoLemma
<1> QED
  BY <1>4 DEF LockSteal, Types, disk, bounds, Locked

LEMMA CrashTypes ==
    ASSUME Types, NEW s \in Shells, Crash(s) PROVE Types'
<1> DEFINE r == Fresh
<1>1. shell[s] \in Memory /\ CountOK(shell[s])
  BY MemoryLemma
<1>2. r \in Memory /\ CountOK(r)
  BY <1>1, FreshLemma DEF Crash, At, Memory, CountOK, Pcs, Writing
<1>3. Put(s, r)
  BY DEF Crash
<1> HIDE DEF r
<1>4. shell' \in [Shells -> Memory] /\ \A t \in Shells : CountOK(shell'[t])
  BY <1>2, <1>3, StepTypes
<1> QED
  BY <1>4 DEF Crash, Types, disk, bounds

LEMMA TickTypes ==
    ASSUME Types, Tick PROVE Types'
<1>1. now' \in 0..MaxTime
  BY HistoryAssumption DEF Tick, Types
<1> QED
  BY <1>1 DEF Tick, Types, disk

LEMMA InitTypes == Init => Types
<1>1. <<>> \in Seq(Event) /\ 0 \in 0..MaxTime /\ 0 \in 0..MaxEvents
  BY HistoryAssumption
<1> QED
  BY <1>1, FreshLemma DEF Init, Types

LEMMA NextTypes == Types /\ [Next]_vars => Types'
<1> SUFFICES ASSUME Types, [Next]_vars PROVE Types'
  OBVIOUS
<1>1. ASSUME NEW s \in Shells, Start(s) PROVE Types'
  BY <1>1, StartTypes
<1>2. ASSUME NEW s \in Shells, StartRead(s) PROVE Types'
  BY <1>2, StartReadTypes
<1>3. ASSUME NEW s \in Shells, Started(s) PROVE Types'
  BY <1>3, StartedTypes
<1>4. ASSUME NEW s \in Shells, HendLocked(s) PROVE Types'
  BY <1>4, HendLockedTypes
<1>5. ASSUME NEW s \in Shells, HendUnlocked(s) PROVE Types'
  BY <1>5, HendUnlockedTypes
<1>6. ASSUME NEW s \in Shells, HendRead(s) PROVE Types'
  BY <1>6, HendReadTypes
<1>7. ASSUME NEW s \in Shells, HendAdd(s) PROVE Types'
  BY <1>7, HendAddTypes
<1>8. ASSUME NEW s \in Shells, SaveFast(s) PROVE Types'
  BY <1>8, SaveFastTypes
<1>9. ASSUME NEW s \in Shells, SaveAppend(s) PROVE Types'
  BY <1>9, SaveAppendTypes
<1>10. ASSUME NEW s \in Shells, RewriteRead(s) PROVE Types'
  BY <1>10, RewriteReadTypes
<1>11. ASSUME NEW s \in Shells, RewriteOpen(s) PROVE Types'
  BY <1>11, RewriteOpenTypes
<1>12. ASSUME NEW s \in Shells, RewriteWrite(s) PROVE Types'
  BY <1>12, RewriteWriteTypes
<1>13. ASSUME NEW s \in Shells, RewriteRename(s) PROVE Types'
  BY <1>13, RewriteRenameTypes
<1>14. ASSUME NEW s \in Shells, RewriteFails(s) PROVE Types'
  BY <1>14, RewriteFailsTypes
<1>15. ASSUME NEW s \in Shells, Saved(s) PROVE Types'
  BY <1>15, SavedTypes
<1>16. ASSUME NEW s \in Shells, HendEnd(s) PROVE Types'
  BY <1>16, HendEndTypes
<1>17. ASSUME NEW s \in Shells, Exit(s) PROVE Types'
  BY <1>17, ExitTypes
<1>18. ASSUME NEW s \in Shells, ExitLock(s) PROVE Types'
  BY <1>18, ExitLockTypes
<1>19. ASSUME NEW s \in Shells, LockGivenUp(s) PROVE Types'
  BY <1>19, LockGivenUpTypes
<1>20. ASSUME NEW s \in Shells, LockStale(s) PROVE Types'
  BY <1>20, LockStaleTypes
<1>21. ASSUME NEW s \in Shells, LockSteal(s) PROVE Types'
  BY <1>21, LockStealTypes
<1>22. ASSUME NEW s \in Shells, Crash(s) PROVE Types'
  BY <1>22, CrashTypes
<1>23. ASSUME Tick PROVE Types'
  BY <1>23, TickTypes
<1>24. ASSUME UNCHANGED vars PROVE Types'
  BY <1>24 DEF vars, Types
<1> QED
  BY <1>1, <1>2, <1>3, <1>4, <1>5, <1>6, <1>7, <1>8, <1>9, <1>10, <1>11, <1>12, <1>13, <1>14, <1>15, <1>16, <1>17, <1>18, <1>19, <1>20, <1>21, <1>22, <1>23, <1>24 DEF Next, Begin, Hend, Rewrite, Save, Lock

LEMMA Typed == Spec => []Types
  BY InitTypes, NextTypes, PTL DEF Spec

\* In every behaviour the variables keep their types, and lockhistct is at
\* most 2: hend() and the read or save it calls never lose count of the lock.
THEOREM TypesCorrect == Spec => []TypeOK
<1>1. Types => TypeOK
  <2> SUFFICES ASSUME Types PROVE TypeOK
    OBVIOUS
  <2>1. ASSUME NEW s \in Shells
        PROVE  shell[s].pc \in Pcs /\ shell[s].ct \in 0..2 /\ InRing(s) \subseteq Event
    <3>1. shell[s] \in Memory
      BY DEF Types
    <3>2. shell[s].ring \in Seq(Entry)
      BY <3>1 DEF Memory
    <3>3. Events(shell[s].ring) \in Seq(Event)
      BY <3>2, EventsLemma
    <3>4. InRing(s) \subseteq Event
      BY <3>3 DEF InRing, Elems
    <3> QED
      BY <3>1, <3>4 DEF Memory
  <2> QED
    BY <2>1 DEF Types, TypeOK
<1> QED
  BY <1>1, Typed, PTL

-----------------------------------------------------------------------------
(* What each step does to the lock, and which steps leave the files and    *)
(* the commands typed alone.                                               *)

Stealing == {"steal_exit", "steal_start"}
Copying  == {"rw_open", "rw_write", "rw_rename"}

Alone(s) == shell' \in [Shells -> Memory]
            /\ \A t \in Shells : t # s => shell'[t] = shell[t]

LockStep(s) ==
    /\ Alone(s)
    /\ shell'[s].pc \notin Stealing
    /\ \/ UNCHANGED lock /\ shell'[s].ct \in {0, shell[s].ct}
       \/ lockhistfile(s, shell[s])
       \/ /\ unlockhistfile(shell[s])
          /\ shell'[s].ct = IF shell[s].ct = 0 THEN 0 ELSE shell[s].ct - 1

Quiet(s) ==
    /\ Alone(s)
    /\ UNCHANGED <<file, newfile, written, count>>
    /\ shell'[s].pc \notin Copying
    /\ Grown(shell'[s].ring, shell[s].ring) \/ shell'[s].ring = <<>>

\* The step of s leads to the memory r.
LEMMA PutLemma ==
    ASSUME Types, Types', NEW s \in Shells, NEW r, Put(s, r)
    PROVE  Alone(s) /\ shell'[s] = r
  BY DEF Types, Put, Alone

LEMMA PutMemory ==
    ASSUME Types, NEW s \in Shells, NEW pc, Goto(s, pc)
    PROVE  Put(s, [shell[s] EXCEPT !.pc = pc])
  BY DEF Types, Put, Goto

LEMMA RingLemma ==
    ASSUME Types, NEW s \in Shells
    PROVE  /\ shell[s] \in Memory /\ CountOK(shell[s])
           /\ Grown(shell[s].ring, shell[s].ring)
<1>1. shell[s] \in Memory /\ CountOK(shell[s]) /\ shell[s].ring \in Seq(Entry)
  BY MemoryLemma DEF Memory
<1> QED
  BY <1>1, GrownSelf

LEMMA StartStep ==
    ASSUME Types, Types', NEW s \in Shells, Start(s) PROVE LockStep(s) /\ Quiet(s)
<1> DEFINE r == [shell[s] EXCEPT !.pc = IF file = <<>> THEN "idle" ELSE "start"]
<1>1. /\ shell[s] \in Memory /\ CountOK(shell[s])
      /\ Grown(shell[s].ring, shell[s].ring)
  BY RingLemma
<1>2. r.pc \notin Stealing \cup Copying /\ r.ct = shell[s].ct
      /\ r.ring = shell[s].ring
  BY <1>1 DEF Start, At, Memory, CountOK, Stealing, Copying
<1>3. Put(s, r)
  BY PutMemory DEF Start
<1> HIDE DEF r
<1>4. Alone(s) /\ shell'[s] = r
  BY <1>3, PutLemma
<1> QED
  BY <1>1, <1>2, <1>4 DEF Start, LockStep, Quiet, disk

LEMMA StartReadStep ==
    ASSUME Types, Types', NEW s \in Shells, StartRead(s) PROVE LockStep(s) /\ Quiet(s)
<1> DEFINE r == [ReadAll(shell[s]) EXCEPT !.ct = 1, !.pc = "started"]
<1>1. /\ shell[s] \in Memory /\ CountOK(shell[s])
      /\ Grown(shell[s].ring, shell[s].ring)
  BY RingLemma
<1>6. ReadAll(shell[s]) \in Memory /\ Grown(ReadAll(shell[s]).ring, shell[s].ring)
  BY <1>1, ReadAllLemma DEF ReadOf
<1>2. r.pc \notin Stealing \cup Copying /\ Grown(r.ring, shell[s].ring)
  BY <1>1, <1>6 DEF StartRead, At, Memory, CountOK, Stealing, Copying
<1>3. Put(s, r)
  BY PutMemory DEF StartRead
<1> HIDE DEF r
<1>4. Alone(s) /\ shell'[s] = r
  BY <1>3, PutLemma
<1> QED
  BY <1>1, <1>2, <1>4 DEF StartRead, LockStep, Quiet, disk

LEMMA StartedStep ==
    ASSUME Types, Types', NEW s \in Shells, Started(s) PROVE LockStep(s) /\ Quiet(s)
<1> DEFINE r == [Released(shell[s]) EXCEPT !.pc = "idle"]
<1>1. /\ shell[s] \in Memory /\ CountOK(shell[s])
      /\ Grown(shell[s].ring, shell[s].ring)
  BY RingLemma
<1>2. r.pc \notin Stealing \cup Copying
      /\ r.ct = (IF shell[s].ct = 0 THEN 0 ELSE shell[s].ct - 1)
      /\ r.ring = shell[s].ring
  BY <1>1, CountLess DEF Started, At, Memory, CountOK, Stealing, Copying
<1>3. Put(s, r)
  BY PutMemory DEF Started
<1> HIDE DEF r
<1>4. Alone(s) /\ shell'[s] = r
  BY <1>3, PutLemma
<1> QED
  BY <1>1, <1>2, <1>4 DEF Started, LockStep, Quiet, disk

LEMMA HendLockedStep ==
    ASSUME Types, Types', NEW s \in Shells, HendLocked(s) PROVE LockStep(s) /\ Quiet(s)
<1> DEFINE r == [shell[s] EXCEPT !.ct = @ + 1, !.pc = "read"]
<1>1. /\ shell[s] \in Memory /\ CountOK(shell[s])
      /\ Grown(shell[s].ring, shell[s].ring)
  BY RingLemma
<1>2. r.pc \notin Stealing \cup Copying /\ r.ring = shell[s].ring
  BY <1>1 DEF HendLocked, At, Memory, CountOK, Stealing, Copying
<1>3. Put(s, r)
  BY PutMemory DEF HendLocked
<1> HIDE DEF r
<1>4. Alone(s) /\ shell'[s] = r
  BY <1>3, PutLemma
<1> QED
  BY <1>1, <1>2, <1>4 DEF HendLocked, LockStep, Quiet, disk

LEMMA HendUnlockedStep ==
    ASSUME Types, Types', NEW s \in Shells, HendUnlocked(s) PROVE LockStep(s) /\ Quiet(s)
<1> DEFINE r == [shell[s] EXCEPT !.pc = "add"]
<1>1. /\ shell[s] \in Memory /\ CountOK(shell[s])
      /\ Grown(shell[s].ring, shell[s].ring)
  BY RingLemma
<1>2. r.pc \notin Stealing \cup Copying /\ r.ct = shell[s].ct
      /\ r.ring = shell[s].ring
  BY <1>1 DEF HendUnlocked, At, Memory, CountOK, Stealing, Copying
<1>3. Put(s, r)
  BY PutMemory DEF HendUnlocked
<1> HIDE DEF r
<1>4. Alone(s) /\ shell'[s] = r
  BY <1>3, PutLemma
<1> QED
  BY <1>1, <1>2, <1>4 DEF HendUnlocked, LockStep, Quiet, disk

LEMMA HendReadStep ==
    ASSUME Types, Types', NEW s \in Shells, HendRead(s) PROVE LockStep(s) /\ Quiet(s)
<1> DEFINE r == [ReadFast(shell[s]) EXCEPT !.pc = "add"]
<1>1. /\ shell[s] \in Memory /\ CountOK(shell[s])
      /\ Grown(shell[s].ring, shell[s].ring)
  BY RingLemma
<1>6. ReadFast(shell[s]) \in Memory /\ Grown(ReadFast(shell[s]).ring, shell[s].ring)
      /\ ReadFast(shell[s]).ct = shell[s].ct
  BY <1>1, ReadFastLemma DEF ReadOf
<1>2. r.pc \notin Stealing \cup Copying /\ Grown(r.ring, shell[s].ring)
      /\ r.ct = shell[s].ct
  BY <1>1, <1>6 DEF HendRead, At, Memory, CountOK, Stealing, Copying
<1>3. Put(s, r)
  BY PutMemory DEF HendRead
<1> HIDE DEF r
<1>4. Alone(s) /\ shell'[s] = r
  BY <1>3, PutLemma
<1> QED
  BY <1>1, <1>2, <1>4 DEF HendRead, LockStep, Quiet, disk

\* hend() adds the command that was typed, or nothing.
Typed1(s) ==
    /\ Alone(s)
    /\ UNCHANGED <<file, newfile, written>>
    /\ count[s] < MaxEvents /\ count' = [count EXCEPT ![s] = @ + 1]
    /\ shell'[s].pc \notin Copying
    /\ shell'[s].ring = Append(shell[s].ring,
                           [e |-> [sh |-> s, n |-> count[s] + 1, stim |-> now],
                            old |-> FALSE])

LEMMA HendAddStep ==
    ASSUME Types, Types', NEW s \in Shells, HendAdd(s)
    PROVE  LockStep(s) /\ (Quiet(s) \/ Typed1(s))
<1> DEFINE q == [shell[s] EXCEPT !.pc = AfterAdd(shell[s]), !.fast = TRUE,
                                 !.norewrite = FALSE]
           x == [e |-> [sh |-> s, n |-> count[s] + 1, stim |-> now],
                 old |-> FALSE]
           r == [q EXCEPT !.ring = Append(@, x)]
<1>1. shell[s] \in Memory /\ Grown(shell[s].ring, shell[s].ring)
  BY RingLemma
<1>2. q.pc \notin Stealing \cup Copying /\ q.ct = shell[s].ct /\ q.ring = shell[s].ring
  BY <1>1 DEF AfterAdd, Memory, Stealing, Copying
<1>3. r.pc = q.pc /\ r.ct = q.ct /\ r.ring = Append(shell[s].ring, x)
  BY <1>1 DEF Memory
<1>4. \/ Put(s, q) /\ UNCHANGED count
      \/ /\ count[s] < MaxEvents /\ count' = [count EXCEPT ![s] = @ + 1]
         /\ Put(s, r)
  BY DEF HendAdd
<1> HIDE DEF q, r
<1>5. CASE Put(s, q) /\ UNCHANGED count
  <2>1. Alone(s) /\ shell'[s] = q
    BY <1>5, PutLemma
  <2> QED
    BY <1>1, <1>2, <1>5, <2>1 DEF HendAdd, LockStep, Quiet, disk
<1>6. CASE /\ count[s] < MaxEvents /\ count' = [count EXCEPT ![s] = @ + 1]
           /\ Put(s, r)
  <2>1. Alone(s) /\ shell'[s] = r
    BY <1>6, PutLemma
  <2> QED
    BY <1>1, <1>2, <1>3, <1>6, <2>1 DEF HendAdd, LockStep, Typed1, disk
<1> QED
  BY <1>4, <1>5, <1>6

LEMMA HendEndStep ==
    ASSUME Types, Types', NEW s \in Shells, HendEnd(s) PROVE LockStep(s) /\ Quiet(s)
<1> DEFINE r == [Released(shell[s]) EXCEPT !.pc = "idle"]
<1>1. /\ shell[s] \in Memory /\ CountOK(shell[s])
      /\ Grown(shell[s].ring, shell[s].ring)
  BY RingLemma
<1>2. r.pc \notin Stealing \cup Copying
      /\ r.ct = (IF shell[s].ct = 0 THEN 0 ELSE shell[s].ct - 1)
      /\ r.ring = shell[s].ring
  BY <1>1, CountLess DEF HendEnd, At, Memory, CountOK, Stealing, Copying
<1>3. Put(s, r)
  BY PutMemory DEF HendEnd
<1> HIDE DEF r
<1>4. Alone(s) /\ shell'[s] = r
  BY <1>3, PutLemma
<1> QED
  BY <1>1, <1>2, <1>4 DEF HendEnd, LockStep, Quiet, disk

LEMMA SaveFastStep ==
    ASSUME Types, Types', NEW s \in Shells, SaveFast(s)
    PROVE  LockStep(s) /\ Quiet(s)
<1> DEFINE p == [shell[s] EXCEPT !.pc = "hend"]
           r == [shell[s] EXCEPT !.ct = @ + 1, !.pc = "append",
                                 !.norewrite = shell[s].linect <= Limit]
<1>1. shell[s] \in Memory /\ Grown(shell[s].ring, shell[s].ring)
  BY RingLemma
<1>2. /\ p.pc \notin Stealing \cup Copying /\ p.ring = shell[s].ring
      /\ p.ct = shell[s].ct
      /\ r.pc \notin Stealing \cup Copying /\ r.ring = shell[s].ring
  BY <1>1 DEF Memory, Stealing, Copying
<1>3. (Put(s, p) /\ UNCHANGED lock) \/ (Put(s, r) /\ lockhistfile(s, shell[s]))
  <2>1. Goto(s, "hend") => Put(s, p)
    BY PutMemory
  <2>2. SaveFast(s) => (Goto(s, "hend") /\ UNCHANGED lock)
                       \/ (Put(s, r) /\ lockhistfile(s, shell[s]))
    BY Zenon DEF SaveFast
  <2> QED
    BY <2>1, <2>2
<1> HIDE DEF p, r
<1>4. CASE Put(s, p) /\ UNCHANGED lock
  <2>1. Alone(s) /\ shell'[s] = p
    BY <1>4, PutLemma
  <2> QED
    BY <1>1, <1>2, <1>4, <2>1 DEF SaveFast, LockStep, Quiet, disk
<1>5. CASE Put(s, r) /\ lockhistfile(s, shell[s])
  <2>1. Alone(s) /\ shell'[s] = r
    BY <1>5, PutLemma
  <2> QED
    BY <1>1, <1>2, <1>5, <2>1 DEF SaveFast, LockStep, Quiet, disk
<1> QED
  BY <1>3, <1>4, <1>5

LEMMA ExitStep ==
    ASSUME Types, Types', NEW s \in Shells, Exit(s)
    PROVE  LockStep(s) /\ Quiet(s)
<1>1. PICK signalled \in BOOLEAN :
         Put(s, [shell[s] EXCEPT !.pc = "exit", !.fast = FALSE,
                                 !.norewrite = signalled])
  BY DEF Exit
<1> DEFINE r == [shell[s] EXCEPT !.pc = "exit", !.fast = FALSE,
                                 !.norewrite = signalled]
<1>2. shell[s] \in Memory /\ Grown(shell[s].ring, shell[s].ring)
  BY RingLemma
<1>3. r.pc \notin Stealing \cup Copying /\ r.ring = shell[s].ring /\ r.ct = shell[s].ct
  BY <1>2 DEF Memory, Stealing, Copying
<1>4. Alone(s) /\ shell'[s] = r
  BY <1>1, PutLemma
<1> HIDE DEF r
<1> QED
  BY <1>2, <1>3, <1>4 DEF Exit, LockStep, Quiet, disk

LEMMA ExitLockStep ==
    ASSUME Types, Types', NEW s \in Shells, ExitLock(s) PROVE LockStep(s) /\ Quiet(s)
<1> DEFINE r == [shell[s] EXCEPT !.ct = @ + 1, !.pc = "append"]
<1>1. /\ shell[s] \in Memory /\ CountOK(shell[s])
      /\ Grown(shell[s].ring, shell[s].ring)
  BY RingLemma
<1>2. r.pc \notin Stealing \cup Copying /\ r.ring = shell[s].ring
  BY <1>1 DEF ExitLock, At, Memory, CountOK, Stealing, Copying
<1>3. Put(s, r)
  BY PutMemory DEF ExitLock
<1> HIDE DEF r
<1>4. Alone(s) /\ shell'[s] = r
  BY <1>3, PutLemma
<1> QED
  BY <1>1, <1>2, <1>4 DEF ExitLock, LockStep, Quiet, disk

\* The append: the new events of the ring reach the file, or are lost.
Appended(s) ==
    /\ Alone(s)
    /\ UNCHANGED <<newfile, count>>
    /\ shell'[s].pc \in {"saved", "rw_read"}
    /\ \/ UNCHANGED <<file, written>>
       \/ /\ file' = file \o Unsaved(shell[s].ring)
          /\ written' = written \o Unsaved(shell[s].ring)
    /\ \/ UNCHANGED written /\ shell'[s].ring = shell[s].ring
       \/ \A i \in 1..Len(shell'[s].ring) : shell'[s].ring[i].old

LEMMA SaveAppendStep ==
    ASSUME Types, Types', NEW s \in Shells, SaveAppend(s)
    PROVE  LockStep(s) /\ Appended(s)
<1> DEFINE r    == shell[s]
           es   == Unsaved(r.ring)
           old  == Imported(Events(r.ring))
           q    == [r EXCEPT !.ring = Imported(Events(@)),
                             !.linect = @ + Len(es)]
           next == IF r.norewrite THEN "saved" ELSE "rw_read"
           p0   == [r EXCEPT !.pc = next]
           p1   == [q EXCEPT !.pc = next, !.fpos = Len(file') - 1,
                             !.stim = es[Len(es)].stim, !.text = es[Len(es)],
                             !.fsiz = Len(file'), !.mtim = now]
           p2   == [q EXCEPT !.pc = "saved",
                             !.fpos = Len(file) + Len(es) - 1,
                             !.stim = es[Len(es)].stim]
           G(p) == p.pc \in {"saved", "rw_read"} /\ p.ct = r.ct
<1>1. r \in Memory
  BY MemoryLemma
<1>2. q.ring = old /\ q.ct = r.ct /\ q \in Memory
      /\ \A i \in 1..Len(old) : old[i].old
  <2>1. q \in Memory /\ Len(old) = Len(r.ring)
        /\ \A i \in 1..Len(r.ring) : old[i].old
    BY AppendLemma DEF SaveAppend
  <2>2. q.ring = old /\ q.ct = r.ct
    BY <1>1 DEF Memory
  <2> QED
    BY <2>1, <2>2
<1>3. \/ Put(s, p0) /\ UNCHANGED <<disk, failures>>
      \/ /\ file' = file \o es /\ written' = written \o es
         /\ Put(s, p1) /\ UNCHANGED newfile
      \/ Put(s, p2) /\ UNCHANGED disk
  BY PutMemory DEF SaveAppend
<1>4. G(p0) /\ p0.ring = r.ring
  BY <1>1 DEF Memory
<1>5. G(p1) /\ p1.ring = old
  <2> HIDE DEF q, es, old
  <2> QED
    BY <1>2 DEF Memory
<1>6. G(p2) /\ p2.ring = old
  <2> HIDE DEF q, es, old
  <2> QED
    BY <1>2 DEF Memory
<1>7. UNCHANGED lock /\ UNCHANGED count
  BY DEF SaveAppend
<1> HIDE DEF p0, p1, p2, q, old
<1>8. CASE Put(s, p0) /\ UNCHANGED <<disk, failures>>
  <2>1. Alone(s) /\ shell'[s] = p0
    BY <1>8, PutLemma
  <2> QED
    BY <1>4, <1>7, <1>8, <2>1 DEF LockStep, Appended, disk, Stealing
<1>9. CASE /\ file' = file \o es /\ written' = written \o es
           /\ Put(s, p1) /\ UNCHANGED newfile
  <2>1. Alone(s) /\ shell'[s] = p1
    BY <1>9, PutLemma
  <2> QED
    BY <1>2, <1>5, <1>7, <1>9, <2>1 DEF LockStep, Appended, Stealing
<1>10. CASE Put(s, p2) /\ UNCHANGED disk
  <2>1. Alone(s) /\ shell'[s] = p2
    BY <1>10, PutLemma
  <2> QED
    BY <1>2, <1>6, <1>7, <1>10, <2>1 DEF LockStep, Appended, disk, Stealing
<1> QED
  BY <1>3, <1>8, <1>9, <1>10

\* The rewrite changes no ring and adds nothing to what was written.
Rewritten(s) ==
    /\ Alone(s)
    /\ UNCHANGED <<written, count>>
    /\ shell'[s].ring = shell[s].ring

LEMMA RewriteReadStep ==
    ASSUME Types, Types', NEW s \in Shells, RewriteRead(s)
    PROVE  LockStep(s) /\ Rewritten(s) /\ shell'[s] = [shell[s] EXCEPT !.tmp = Last(file, SAVEHIST),
                     !.pc = IF file = <<>> THEN "saved" ELSE "rw_open"]
<1> DEFINE r == [shell[s] EXCEPT !.tmp = Last(file, SAVEHIST),
                     !.pc = IF file = <<>> THEN "saved" ELSE "rw_open"]
<1>1. shell[s] \in Memory
  BY MemoryLemma
<1>2. r.pc \notin Stealing /\ r.ct = shell[s].ct /\ r.ring = shell[s].ring
  BY <1>1 DEF Memory, Stealing
<1>3. Put(s, r)
  BY PutMemory DEF RewriteRead
<1> HIDE DEF r
<1>4. Alone(s) /\ shell'[s] = r
  BY <1>3, PutLemma
<1>5. LockStep(s) /\ Rewritten(s)
  BY <1>1, <1>2, <1>4 DEF RewriteRead, LockStep, Rewritten, disk
<1> QED
  BY <1>4, <1>5 DEF r

LEMMA RewriteOpenStep ==
    ASSUME Types, Types', NEW s \in Shells, RewriteOpen(s)
    PROVE  LockStep(s) /\ Rewritten(s) /\ shell'[s] = [shell[s] EXCEPT !.pc = "rw_write"]
<1> DEFINE r == [shell[s] EXCEPT !.pc = "rw_write"]
<1>1. shell[s] \in Memory
  BY MemoryLemma
<1>2. r.pc \notin Stealing /\ r.ct = shell[s].ct /\ r.ring = shell[s].ring
  BY <1>1 DEF Memory, Stealing
<1>3. Put(s, r)
  BY PutMemory DEF RewriteOpen
<1> HIDE DEF r
<1>4. Alone(s) /\ shell'[s] = r
  BY <1>3, PutLemma
<1>5. LockStep(s) /\ Rewritten(s)
  BY <1>1, <1>2, <1>4 DEF RewriteOpen, LockStep, Rewritten, disk
<1> QED
  BY <1>4, <1>5 DEF r

LEMMA RewriteWriteStep ==
    ASSUME Types, Types', NEW s \in Shells, RewriteWrite(s)
    PROVE  LockStep(s) /\ Rewritten(s) /\ shell'[s] = [shell[s] EXCEPT !.tmp = <<>>,
                     !.pc = IF HISTSAVEBYCOPY THEN "rw_rename" ELSE "saved"]
<1> DEFINE r == [shell[s] EXCEPT !.tmp = <<>>,
                     !.pc = IF HISTSAVEBYCOPY THEN "rw_rename" ELSE "saved"]
<1>1. shell[s] \in Memory
  BY MemoryLemma
<1>2. r.pc \notin Stealing /\ r.ct = shell[s].ct /\ r.ring = shell[s].ring
  BY <1>1 DEF Memory, Stealing
<1>3. Put(s, r)
  BY PutMemory DEF RewriteWrite
<1> HIDE DEF r
<1>4. Alone(s) /\ shell'[s] = r
  BY <1>3, PutLemma
<1>5. LockStep(s) /\ Rewritten(s)
  BY <1>1, <1>2, <1>4 DEF RewriteWrite, LockStep, Rewritten, disk
<1> QED
  BY <1>4, <1>5 DEF r

LEMMA RewriteRenameStep ==
    ASSUME Types, Types', NEW s \in Shells, RewriteRename(s)
    PROVE  LockStep(s) /\ Rewritten(s) /\ shell'[s] = [shell[s] EXCEPT !.pc = "saved"]
<1> DEFINE r == [shell[s] EXCEPT !.pc = "saved"]
<1>1. shell[s] \in Memory
  BY MemoryLemma
<1>2. r.pc \notin Stealing /\ r.ct = shell[s].ct /\ r.ring = shell[s].ring
  BY <1>1 DEF Memory, Stealing
<1>3. Put(s, r)
  BY PutMemory DEF RewriteRename
<1> HIDE DEF r
<1>4. Alone(s) /\ shell'[s] = r
  BY <1>3, PutLemma
<1>5. LockStep(s) /\ Rewritten(s)
  BY <1>1, <1>2, <1>4 DEF RewriteRename, LockStep, Rewritten, disk
<1> QED
  BY <1>4, <1>5 DEF r

LEMMA RewriteFailsStep ==
    ASSUME Types, Types', NEW s \in Shells, RewriteFails(s) PROVE LockStep(s) /\ Quiet(s)
<1> DEFINE r == [shell[s] EXCEPT !.tmp = <<>>, !.pc = "saved"]
<1>1. /\ shell[s] \in Memory /\ CountOK(shell[s])
      /\ Grown(shell[s].ring, shell[s].ring)
  BY RingLemma
<1>2. r.pc \notin Stealing \cup Copying /\ r.ring = shell[s].ring /\ r.ct = shell[s].ct
  BY <1>1 DEF RewriteFails, At, Memory, CountOK, Stealing, Copying
<1>3. Put(s, r)
  BY PutMemory DEF RewriteFails
<1> HIDE DEF r
<1>4. Alone(s) /\ shell'[s] = r
  BY <1>3, PutLemma
<1> QED
  BY <1>1, <1>2, <1>4 DEF RewriteFails, LockStep, Quiet, disk

LEMMA SavedStep ==
    ASSUME Types, Types', NEW s \in Shells, Saved(s)
    PROVE  LockStep(s) /\ Quiet(s)
<1> DEFINE x == Released(shell[s])
           r == IF x.fast THEN [x EXCEPT !.pc = "hend"] ELSE Fresh
           c == IF shell[s].ct = 0 THEN 0 ELSE shell[s].ct - 1
<1>1. /\ shell[s] \in Memory /\ CountOK(shell[s]) /\ shell[s].pc = "saved"
      /\ Grown(shell[s].ring, shell[s].ring)
  BY RingLemma DEF Saved, At
<1>2. x \in Memory /\ x.ct = c /\ x.ring = shell[s].ring /\ x.fast = shell[s].fast
  BY <1>1, CountLess
<1>3. Put(s, r)
  BY DEF Saved
<1> HIDE DEF x
<1>4. r.pc \notin Stealing \cup Copying /\ (r.ring = shell[s].ring \/ r.ring = <<>>)
  BY <1>2 DEF Memory, Fresh, Stealing, Copying
<1>5. r.ct = c
  <2>1. CASE x.fast
    BY <1>2, <2>1 DEF Memory
  <2>2. CASE ~x.fast
    <3>1. shell[s].ct = 1
      BY <1>1, <1>2, <2>2 DEF CountOK, Writing
    <3> QED
      BY <2>2, <3>1 DEF Fresh
  <2> QED
    BY <2>1, <2>2
<1> HIDE DEF r
<1>6. Alone(s) /\ shell'[s] = r
  BY <1>3, PutLemma
<1> QED
  BY <1>1, <1>4, <1>5, <1>6 DEF Saved, LockStep, Quiet, disk

LEMMA LockGivenUpStep ==
    ASSUME Types, Types', NEW s \in Shells, LockGivenUp(s)
    PROVE  LockStep(s) /\ Quiet(s)
<1> DEFINE r == IF At(s, "exit") THEN Fresh ELSE [shell[s] EXCEPT !.pc = "idle"]
<1>1. shell[s] \in Memory /\ Grown(shell[s].ring, shell[s].ring)
  BY RingLemma
<1>2. /\ r.pc \notin Stealing \cup Copying /\ r.ct \in {0, shell[s].ct}
      /\ r.ring = shell[s].ring \/ r.ring = <<>>
  BY <1>1 DEF Memory, Fresh, Stealing, Copying
<1>3. Put(s, r)
  BY DEF LockGivenUp
<1> HIDE DEF r
<1>4. Alone(s) /\ shell'[s] = r
  BY <1>3, PutLemma
<1> QED
  BY <1>1, <1>2, <1>4 DEF LockGivenUp, LockStep, Quiet, disk

LEMMA LockStaleStep ==
    ASSUME Types, Types', NEW s \in Shells, LockStale(s) PROVE Quiet(s)
<1> DEFINE r == [shell[s] EXCEPT !.pc = (IF At(s, "exit") THEN "steal_exit" ELSE "steal_start")]
<1>1. /\ shell[s] \in Memory /\ CountOK(shell[s])
      /\ Grown(shell[s].ring, shell[s].ring)
  BY RingLemma
<1>2. r.pc \notin Copying /\ r.ct = shell[s].ct
      /\ r.ring = shell[s].ring
  BY <1>1 DEF LockStale, At, Memory, CountOK, Stealing, Copying
<1>3. Put(s, r)
  BY PutMemory DEF LockStale
<1> HIDE DEF r
<1>4. Alone(s) /\ shell'[s] = r
  BY <1>3, PutLemma
<1> QED
  BY <1>1, <1>2, <1>4 DEF LockStale, LockStep, Quiet, disk

LEMMA LockStealStep ==
    ASSUME Types, Types', NEW s \in Shells, LockSteal(s) PROVE Quiet(s)
<1> DEFINE r == [shell[s] EXCEPT !.pc = (IF At(s, "steal_exit") THEN "exit" ELSE "start")]
<1>1. /\ shell[s] \in Memory /\ CountOK(shell[s])
      /\ Grown(shell[s].ring, shell[s].ring)
  BY RingLemma
<1>2. r.pc \notin Stealing \cup Copying /\ r.ct = shell[s].ct
      /\ r.ring = shell[s].ring
  BY <1>1 DEF LockSteal, At, Memory, CountOK, Stealing, Copying
<1>3. Put(s, r)
  BY PutMemory DEF LockSteal
<1> HIDE DEF r
<1>4. Alone(s) /\ shell'[s] = r
  BY <1>3, PutLemma
<1> QED
  BY <1>1, <1>2, <1>4 DEF LockSteal, LockStep, Quiet, disk

LEMMA CrashStep ==
    ASSUME Types, Types', NEW s \in Shells, Crash(s)
    PROVE  LockStep(s) /\ Quiet(s)
<1>1. Alone(s) /\ shell'[s] = Fresh
  BY PutLemma DEF Crash
<1> QED
  BY <1>1 DEF Crash, LockStep, Quiet, disk, Fresh, Stealing, Copying

-----------------------------------------------------------------------------
(* The lock.                                                               *)

\* A shell that counts a request has the lock file; and with a clock that is
\* not that of the file system nobody ever takes a lock for stale.
LockHeld ==
    \A s \in Shells :
        /\ shell[s].pc \notin Stealing
        /\ shell[s].ct > 0 => lock # None /\ lock.owner = s

LEMMA LockStepKeeps ==
    ASSUME Types, Types', LockHeld, NEW s \in Shells, LockStep(s)
    PROVE  LockHeld'
<1> DEFINE new == [owner |-> s, time |-> now]
<1>1. new # None /\ new.owner = s
  BY NoneAssumption DEF Types, Locked
<1>2. /\ shell[s].ct \in 0..2 /\ shell'[s].ct \in 0..2
      /\ \A t \in Shells : shell[t].ct \in 0..2
  BY DEF Types, Memory
<1>3. ASSUME NEW t \in Shells, t # s
      PROVE  /\ shell'[t].pc \notin Stealing
             /\ shell'[t].ct > 0 => lock' # None /\ lock'.owner = t
  <2>1. /\ shell'[t] = shell[t] /\ shell[t].pc \notin Stealing
        /\ shell[t].ct > 0 => lock # None /\ lock.owner = t
    BY <1>3 DEF LockStep, Alone, LockHeld
  <2>2. shell[t].ct > 0 => shell[s].ct = 0
    BY <1>2, <1>3, <2>1 DEF LockHeld
  <2>3. shell[t].ct > 0 => lock' = lock
    BY <1>2, <2>1, <2>2 DEF LockStep, lockhistfile, unlockhistfile
  <2> QED
    BY <2>1, <2>3
<1>4. shell'[s].ct > 0 => lock' # None /\ lock'.owner = s
  <2> HIDE DEF new
  <2>1. shell[s].ct > 0 => lock # None /\ lock.owner = s
    BY DEF LockHeld
  <2>2. CASE UNCHANGED lock /\ shell'[s].ct \in {0, shell[s].ct}
    BY <2>1, <2>2
  <2>3. CASE lockhistfile(s, shell[s])
    BY <1>1, <2>1, <2>3 DEF lockhistfile, new
  <2>4. CASE /\ unlockhistfile(shell[s])
             /\ shell'[s].ct = IF shell[s].ct = 0 THEN 0 ELSE shell[s].ct - 1
    BY <1>2, <2>1, <2>4 DEF unlockhistfile
  <2> QED
    BY <2>2, <2>3, <2>4 DEF LockStep
<1> QED
  BY <1>3, <1>4 DEF LockHeld, LockStep

LEMMA NextLock ==
    ASSUME Monotonic PROVE Types /\ Types' /\ LockHeld /\ [Next]_vars => LockHeld'
<1> SUFFICES ASSUME Types, Types', LockHeld, [Next]_vars PROVE LockHeld'
  OBVIOUS
<1>1. ASSUME NEW s \in Shells, Start(s) PROVE LockHeld'
  BY <1>1, StartStep, LockStepKeeps
<1>2. ASSUME NEW s \in Shells, StartRead(s) PROVE LockHeld'
  BY <1>2, StartReadStep, LockStepKeeps
<1>3. ASSUME NEW s \in Shells, Started(s) PROVE LockHeld'
  BY <1>3, StartedStep, LockStepKeeps
<1>4. ASSUME NEW s \in Shells, HendLocked(s) PROVE LockHeld'
  BY <1>4, HendLockedStep, LockStepKeeps
<1>5. ASSUME NEW s \in Shells, HendUnlocked(s) PROVE LockHeld'
  BY <1>5, HendUnlockedStep, LockStepKeeps
<1>6. ASSUME NEW s \in Shells, HendRead(s) PROVE LockHeld'
  BY <1>6, HendReadStep, LockStepKeeps
<1>7. ASSUME NEW s \in Shells, HendAdd(s) PROVE LockHeld'
  BY <1>7, HendAddStep, LockStepKeeps
<1>8. ASSUME NEW s \in Shells, SaveFast(s) PROVE LockHeld'
  BY <1>8, SaveFastStep, LockStepKeeps
<1>9. ASSUME NEW s \in Shells, SaveAppend(s) PROVE LockHeld'
  BY <1>9, SaveAppendStep, LockStepKeeps
<1>10. ASSUME NEW s \in Shells, RewriteRead(s) PROVE LockHeld'
  BY <1>10, RewriteReadStep, LockStepKeeps
<1>11. ASSUME NEW s \in Shells, RewriteOpen(s) PROVE LockHeld'
  BY <1>11, RewriteOpenStep, LockStepKeeps
<1>12. ASSUME NEW s \in Shells, RewriteWrite(s) PROVE LockHeld'
  BY <1>12, RewriteWriteStep, LockStepKeeps
<1>13. ASSUME NEW s \in Shells, RewriteRename(s) PROVE LockHeld'
  BY <1>13, RewriteRenameStep, LockStepKeeps
<1>14. ASSUME NEW s \in Shells, RewriteFails(s) PROVE LockHeld'
  BY <1>14, RewriteFailsStep, LockStepKeeps
<1>15. ASSUME NEW s \in Shells, Saved(s) PROVE LockHeld'
  BY <1>15, SavedStep, LockStepKeeps
<1>16. ASSUME NEW s \in Shells, HendEnd(s) PROVE LockHeld'
  BY <1>16, HendEndStep, LockStepKeeps
<1>17. ASSUME NEW s \in Shells, Exit(s) PROVE LockHeld'
  BY <1>17, ExitStep, LockStepKeeps
<1>18. ASSUME NEW s \in Shells, ExitLock(s) PROVE LockHeld'
  BY <1>18, ExitLockStep, LockStepKeeps
<1>19. ASSUME NEW s \in Shells, LockGivenUp(s) PROVE LockHeld'
  BY <1>19, LockGivenUpStep, LockStepKeeps
<1>20. ASSUME NEW s \in Shells, LockStale(s) PROVE LockHeld'
  BY <1>20 DEF LockStale, LockHeld, At, Stealing
<1>21. ASSUME NEW s \in Shells, LockSteal(s) PROVE LockHeld'
  BY <1>21 DEF LockSteal, LockHeld, At, Stealing
<1>22. ASSUME NEW s \in Shells, Crash(s) PROVE LockHeld'
  BY <1>22, CrashStep, LockStepKeeps
<1>23. ASSUME Tick \/ UNCHANGED vars PROVE LockHeld'
  BY <1>23 DEF Tick, vars, LockHeld
<1> QED
  BY <1>1, <1>2, <1>3, <1>4, <1>5, <1>6, <1>7, <1>8, <1>9, <1>10, <1>11, <1>12, <1>13, <1>14, <1>15, <1>16, <1>17, <1>18, <1>19, <1>20, <1>21, <1>22, <1>23 DEF Next, Begin, Hend, Rewrite, Save, Lock

LEMMA InitLock == Init => LockHeld
  BY DEF Init, LockHeld, Fresh, Stealing

\* With a clock that is not that of the file system (so that no lock is taken
\* for stale while its owner may be alive) a shell that reads or writes the
\* history file owns the lock file all the time.
THEOREM LockIsHeld == ASSUME Monotonic PROVE Spec => []WriterHoldsLock
<1>1. Types /\ LockHeld => WriterHoldsLock
  <2> SUFFICES ASSUME Types, LockHeld, NEW s \in Shells,
                      shell[s].pc \in Writing \cup {"read"}
               PROVE  HoldsLock(s)
    BY DEF WriterHoldsLock
  <2>1. shell[s].ct \in 0..2 /\ CountOK(shell[s])
    BY DEF Types, Memory
  <2>2. shell[s].ct > 0
    BY <2>1 DEF CountOK
  <2> QED
    BY <2>2 DEF LockHeld, HoldsLock
<1> QED
  BY <1>1, InitLock, NextLock, Typed, PTL DEF Spec

-----------------------------------------------------------------------------
(* No event is written twice.                                              *)

\* The events of a ring that are not HIST_OLD: typed here, not yet written,
\* and each there once.
Mine(ring, s) ==
    \A i \in 1..Len(ring) :
        ~ring[i].old => ring[i].e.sh = s /\ ring[i].e.n <= count[s]

Unwritten(ring) ==
    \A i \in 1..Len(ring) :
        ~ring[i].old => \A k \in 1..Len(written) : written[k] # ring[i].e

Distinct(ring) ==
    \A i, j \in 1..Len(ring) :
        i < j /\ ~ring[i].old /\ ~ring[j].old => ring[i].e # ring[j].e

Once ==
    /\ \A s \in Shells : /\ Mine(shell[s].ring, s)
                         /\ Unwritten(shell[s].ring)
                         /\ Distinct(shell[s].ring)
    /\ \A k \in 1..Len(written) : written[k].n <= count[written[k].sh]
    /\ \A j, k \in 1..Len(written) : j < k => written[j] # written[k]

\* The same of a ring, in the next state.
After(ring, s) ==
    /\ \A i \in 1..Len(ring) :
          ~ring[i].old => /\ ring[i].e.sh = s /\ ring[i].e.n <= count'[s]
                          /\ \A k \in 1..Len(written') : written'[k] # ring[i].e
    /\ \A i, j \in 1..Len(ring) :
          i < j /\ ~ring[i].old /\ ~ring[j].old => ring[i].e # ring[j].e

\* What has to be shown of a step of s.
LEMMA OnceLemma ==
    ASSUME \A t \in Shells : After(shell'[t].ring, t),
           \A k \in 1..Len(written') : written'[k].n <= count'[written'[k].sh],
           \A j, k \in 1..Len(written') : j < k => written'[j] # written'[k]
    PROVE  Once'
<1>1. ASSUME NEW t \in Shells
      PROVE  /\ Mine(shell[t].ring, t)'
             /\ Unwritten(shell[t].ring)'
             /\ Distinct(shell[t].ring)'
  BY DEF After, Mine, Unwritten, Distinct
<1> QED
  BY <1>1 DEF Once

\* Nothing is written: a ring that keeps its new events, or some of them.
LEMMA LessOnce ==
    ASSUME Once, NEW s \in Shells, NEW b, UNCHANGED written,
           count'[s] >= count[s], count[s] \in Nat, count'[s] \in Nat,
           \A i \in 1..Len(shell[s].ring) : shell[s].ring[i].e.n \in Nat,
           \A i \in 1..Len(b) : ~b[i].old => /\ i \in 1..Len(shell[s].ring)
                                             /\ b[i] = shell[s].ring[i]
    PROVE  After(b, s)
<1> DEFINE a == shell[s].ring
<1>1. Mine(a, s) /\ Unwritten(a) /\ Distinct(a)
  BY DEF Once
<1>2. /\ \A i \in 1..Len(b) : ~b[i].old => i \in 1..Len(a) /\ b[i] = a[i]
      /\ \A i \in 1..Len(a) : a[i].e.n \in Nat
  OBVIOUS
<1> HIDE DEF a
<1>3. ASSUME NEW i \in 1..Len(b), ~b[i].old
      PROVE  /\ b[i].e.sh = s /\ b[i].e.n <= count'[s]
             /\ \A k \in 1..Len(written') : written'[k] # b[i].e
  <2>1. i \in 1..Len(a) /\ b[i] = a[i] /\ ~a[i].old
    BY <1>2, <1>3
  <2>2. a[i].e.sh = s /\ a[i].e.n <= count[s] /\ a[i].e.n \in Nat
    BY <1>1, <1>2, <2>1 DEF Mine
  <2>3. \A k \in 1..Len(written) : written[k] # a[i].e
    BY <1>1, <2>1 DEF Unwritten
  <2> QED
    BY <2>1, <2>2, <2>3
<1>4. ASSUME NEW i \in 1..Len(b), NEW j \in 1..Len(b),
             i < j, ~b[i].old, ~b[j].old
      PROVE  b[i].e # b[j].e
  BY <1>1, <1>2, <1>4 DEF Distinct
<1> QED
  BY <1>3, <1>4 DEF After

LEMMA RingTypes ==
    ASSUME Types, NEW s \in Shells
    PROVE  /\ shell[s].ring \in Seq(Entry) /\ Len(shell[s].ring) \in Nat
           /\ \A i \in 1..Len(shell[s].ring) :
                 /\ shell[s].ring[i] \in Entry
                 /\ shell[s].ring[i].e \in Event
                 /\ shell[s].ring[i].e.n \in Nat
           /\ count[s] \in Nat
<1> DEFINE a == shell[s].ring
<1>1. a \in Seq(Entry)
  BY DEF Types, Memory
<1>2. count[s] \in Nat
  BY HistoryAssumption DEF Types
<1> HIDE DEF a
<1>3. Len(a) \in Nat /\ \A i \in 1..Len(a) : a[i] \in Entry
  BY <1>1
<1>4. \A i \in 1..Len(a) : a[i].e \in Event /\ a[i].e.n \in Nat
  BY <1>3, HistoryAssumption DEF Entry, Event
<1> QED
  BY <1>1, <1>2, <1>3, <1>4 DEF a

LEMMA OtherOnce ==
    ASSUME Types, Types', Once, NEW t \in Shells, shell'[t] = shell[t],
           UNCHANGED written, count'[t] >= count[t]
    PROVE  After(shell'[t].ring, t)
<1>1. count'[t] \in Nat
  BY HistoryAssumption DEF Types
<1> QED
  BY <1>1, RingTypes, LessOnce

LEMMA QuietOnce ==
    ASSUME Types, Types', Once, NEW s \in Shells, Quiet(s) \/ Rewritten(s)
    PROVE  Once'
<1> DEFINE a == shell[s].ring
           b == shell'[s].ring
<1>1. a \in Seq(Entry) /\ b \in Seq(Entry) /\ Len(a) \in Nat /\ Len(b) \in Nat
  <2>1. shell'[s] \in Memory
    BY DEF Types
  <2>2. a \in Seq(Entry) /\ b \in Seq(Entry)
    BY <2>1, RingTypes DEF Memory
  <2> HIDE DEF a, b
  <2> QED
    BY <2>2
<1>2. UNCHANGED <<written, count>>
  BY DEF Quiet, Rewritten
<1>3. \A i \in 1..Len(b) : ~b[i].old => i \in 1..Len(a) /\ b[i] = a[i]
  <2>1. CASE Grown(b, a)
    <3> HIDE DEF a, b
    <3> QED
      BY <1>1, <2>1 DEF Grown
  <2>2. CASE b = <<>>
    BY <2>2
  <2>3. CASE b = a
    BY <1>1, <2>3
  <2> QED
    BY <2>1, <2>2, <2>3 DEF Quiet, Rewritten
<1>4. count[s] \in Nat /\ \A i \in 1..Len(a) : a[i].e.n \in Nat
  BY RingTypes
<1>5. After(b, s)
  <2> HIDE DEF b
  <2> QED
    BY <1>2, <1>3, <1>4, LessOnce
<1>6. ASSUME NEW t \in Shells PROVE After(shell'[t].ring, t)
  <2>1. CASE t = s
    BY <1>5, <2>1
  <2>2. CASE t # s
    <3>1. shell'[t] = shell[t] /\ count[t] \in Nat
      BY <2>2, RingTypes DEF Quiet, Rewritten, Alone
    <3> QED
      BY <1>2, <3>1, OtherOnce
  <2> QED
    BY <2>1, <2>2
<1>7. \A k \in 1..Len(written') : written'[k].n <= count'[written'[k].sh]
  BY <1>2 DEF Once
<1>8. \A j, k \in 1..Len(written') : j < k => written'[j] # written'[k]
  BY <1>2 DEF Once
<1> QED
  BY <1>6, <1>7, <1>8, OnceLemma

LEMMA WrittenTypes ==
    ASSUME Types
    PROVE  /\ written \in Seq(Event) /\ Len(written) \in Nat
           /\ \A k \in 1..Len(written) :
                 /\ written[k] \in Event /\ written[k].sh \in Shells
                 /\ written[k].n \in Nat
<1>1. written \in Seq(Event)
  BY DEF Types
<1>2. Len(written) \in Nat /\ \A k \in 1..Len(written) : written[k] \in Event
  BY <1>1
<1> QED
  BY <1>1, <1>2, HistoryAssumption DEF Event

LEMMA TypedOnce ==
    ASSUME Types, Types', Once, NEW s \in Shells, Typed1(s)
    PROVE  Once'
<1> DEFINE a == shell[s].ring
           b == shell'[s].ring
           x == [sh |-> s, n |-> count[s] + 1, stim |-> now]
           y == [e |-> x, old |-> FALSE]
           n == Len(a)
<1>1. /\ a \in Seq(Entry) /\ n \in Nat /\ count[s] \in Nat
      /\ \A i \in 1..n : a[i].e \in Event /\ a[i].e.n \in Nat
  BY RingTypes
<1>2. /\ written' = written /\ count'[s] = count[s] + 1
      /\ \A t \in Shells : t # s => count'[t] = count[t] /\ shell'[t] = shell[t]
  BY DEF Typed1, Types, Alone
<1>3. y \in Entry
  <2>1. count[s] + 1 \in 1..MaxEvents /\ now \in 0..MaxTime
    BY HistoryAssumption DEF Types, Typed1
  <2> QED
    BY <2>1 DEF Entry, Event
<1>4. b = Append(a, y)
  BY DEF Typed1
<1>5. x.sh = s /\ x.n = count[s] + 1 /\ y.e = x /\ ~y.old
  OBVIOUS
<1>6. Mine(a, s) /\ Unwritten(a) /\ Distinct(a)
  BY DEF Once
<1>7. \A k \in 1..Len(written) : written[k] # x
  BY <1>1, <1>5, WrittenTypes DEF Once
<1>8. \A i \in 1..n : ~a[i].old => a[i].e # x
  BY <1>1, <1>5, <1>6 DEF Mine
<1> HIDE DEF a, b, x, y
<1>9. /\ Len(b) = n + 1 /\ b[n + 1] = y
      /\ \A i \in 1..n : b[i] = a[i]
  BY <1>1, <1>3, <1>4, AppendProperties
<1> HIDE DEF n
<1>10. After(b, s)
  <2>1. ASSUME NEW i \in 1..Len(b), ~b[i].old
        PROVE  /\ b[i].e.sh = s /\ b[i].e.n <= count'[s]
               /\ \A k \in 1..Len(written') : written'[k] # b[i].e
    <3>1. CASE i = n + 1
      BY <1>1, <1>2, <1>5, <1>7, <1>9, <3>1
    <3>2. CASE i # n + 1
      <4>1. i \in 1..n /\ b[i] = a[i]
        BY <1>1, <1>9, <3>2
      <4>2. a[i].e.sh = s /\ a[i].e.n <= count[s] /\ a[i].e.n \in Nat
        BY <1>1, <1>6, <2>1, <4>1 DEF Mine, n
      <4>3. \A k \in 1..Len(written) : written[k] # a[i].e
        BY <1>6, <2>1, <4>1 DEF Unwritten, n
      <4> QED
        BY <1>1, <1>2, <4>1, <4>2, <4>3
    <3> QED
      BY <3>1, <3>2
  <2>2. ASSUME NEW i \in 1..Len(b), NEW j \in 1..Len(b),
               i < j, ~b[i].old, ~b[j].old
        PROVE  b[i].e # b[j].e
    <3>1. i \in 1..n /\ b[i] = a[i]
      BY <1>1, <1>9, <2>2
    <3>2. CASE j = n + 1
      BY <1>5, <1>8, <1>9, <2>2, <3>1, <3>2
    <3>3. CASE j # n + 1
      <4>1. j \in 1..n /\ b[j] = a[j]
        BY <1>1, <1>9, <3>3
      <4> QED
        BY <1>6, <2>2, <3>1, <4>1 DEF Distinct, n
    <3> QED
      BY <3>2, <3>3
  <2> QED
    BY <2>1, <2>2 DEF After
<1>11. ASSUME NEW t \in Shells PROVE After(shell'[t].ring, t)
  <2>1. CASE t = s
    BY <1>10, <2>1 DEF b
  <2>2. CASE t # s
    <3>1. shell'[t] = shell[t] /\ count[t] \in Nat /\ count'[t] = count[t]
      BY <1>2, <2>2, RingTypes
    <3> QED
      BY <1>2, <3>1, OtherOnce
  <2> QED
    BY <2>1, <2>2
<1>12. ASSUME NEW k \in 1..Len(written')
       PROVE  written'[k].n <= count'[written'[k].sh]
  <2>1. /\ k \in 1..Len(written) /\ written'[k] = written[k]
        /\ written[k].sh \in Shells /\ written[k].n \in Nat
    BY <1>2, WrittenTypes
  <2>2. written[k].n <= count[written[k].sh]
    BY <2>1 DEF Once
  <2> QED
    BY <1>1, <1>2, <2>1, <2>2
<1>13. \A j, k \in 1..Len(written') : j < k => written'[j] # written'[k]
  BY <1>2 DEF Once
<1> QED
  BY <1>11, <1>12, <1>13, OnceLemma

LEMMA AppendedOnce ==
    ASSUME Types, Types', Once, NEW s \in Shells, Appended(s)
    PROVE  Once'
<1> DEFINE a == shell[s].ring
           b == shell'[s].ring
           es == Unsaved(a)
           n == Len(a)
           m == Len(es)
           w == Len(written)
<1>1. /\ a \in Seq(Entry) /\ n \in Nat
      /\ \A i \in 1..n : a[i].e \in Event /\ a[i].e.n \in Nat
      /\ \A t \in Shells : count[t] \in Nat
  BY RingTypes
<1>2. UNCHANGED count /\ \A t \in Shells : t # s => shell'[t] = shell[t]
  BY DEF Appended, Alone
<1>3. Mine(a, s) /\ Unwritten(a) /\ Distinct(a)
  BY DEF Once
<1>4. CASE UNCHANGED written
  <2>1. \A i \in 1..Len(b) : ~b[i].old => i \in 1..Len(a) /\ b[i] = a[i]
    BY DEF Appended
  <2>2. After(b, s)
    <3> HIDE DEF b
    <3> QED
      BY <1>1, <1>2, <1>4, <2>1, LessOnce
  <2>3. ASSUME NEW t \in Shells PROVE After(shell'[t].ring, t)
    <3>1. CASE t = s
      BY <2>2, <3>1
    <3>2. CASE t # s
      BY <1>1, <1>2, <1>4, <3>2, OtherOnce
    <3> QED
      BY <3>1, <3>2
  <2>4. \A k \in 1..Len(written') : written'[k].n <= count'[written'[k].sh]
    BY <1>2, <1>4 DEF Once
  <2>5. \A j, k \in 1..Len(written') : j < k => written'[j] # written'[k]
    BY <1>4 DEF Once
  <2> QED
    BY <2>3, <2>4, <2>5, OnceLemma
<1>5. CASE /\ written' = written \o es
           /\ \A i \in 1..Len(b) : b[i].old
  <2>1. es \in Seq(Event) /\ \E at : Picks(at, es, a, n)
    BY <1>1, UnsavedLemma
  <2>2. PICK at : Picks(at, es, a, n)
    BY <2>1
  <2>3. /\ m \in Nat /\ w \in Nat /\ written \in Seq(Event)
        /\ \A k \in 1..w : /\ written[k] \in Event /\ written[k].sh \in Shells
                           /\ written[k].n \in Nat
    BY <2>1, WrittenTypes
  <2> HIDE DEF es
  <2>4. /\ Len(written') = w + m
        /\ \A k \in 1..(w + m) :
              written'[k] = IF k <= w THEN written[k] ELSE es[k - w]
    <3>1. /\ Len(written \o es) = Len(written) + Len(es)
          /\ \A k \in 1..(Len(written) + Len(es)) :
                (written \o es)[k] = IF k <= Len(written) THEN written[k]
                                     ELSE es[k - Len(written)]
      BY <2>1, <2>3, ConcatProperties
    <3> QED
      BY <1>5, <3>1
  <2>5. /\ at \in [1..m -> 1..n]
        /\ \A k \in 1..m : ~a[at[k]].old /\ es[k] = a[at[k]].e
        /\ \A j, k \in 1..m : j < k => at[j] < at[k]
    BY <2>2 DEF Picks
  <2>6. \A k \in 1..w : written[k].n <= count[written[k].sh]
    BY DEF Once
  <2>7. \A j, k \in 1..w : j < k => written[j] # written[k]
    BY DEF Once
  <2>8. \A t \in Shells : /\ Mine(shell[t].ring, t) /\ Unwritten(shell[t].ring)
                          /\ Distinct(shell[t].ring)
    BY DEF Once
  <2>9. \A k \in 1..m : /\ es[k].sh = s /\ es[k].n <= count[s]
                        /\ \A l \in 1..w : written[l] # es[k]
    BY <1>3, <2>5 DEF Mine, Unwritten
  <2>10. \A j, k \in 1..m : j < k => es[j] # es[k]
    BY <1>3, <2>5 DEF Distinct
  <2> DEFINE v == written'
  <2>11. ASSUME NEW k \in 1..Len(v)
         PROVE  \/ k \in 1..w /\ v[k] = written[k]
                \/ k > w /\ k - w \in 1..m /\ v[k] = es[k - w]
    BY <2>3, <2>4
  <2> HIDE DEF a, b, m, n, w
  <2>12. After(b, s)
    BY <1>5 DEF After
  <2>13. ASSUME NEW t \in Shells, t # s PROVE After(shell'[t].ring, t)
    <3> DEFINE c == shell[t].ring
    <3>1. shell'[t].ring = c
      BY <1>2, <2>13
    <3>2. Mine(c, t) /\ Unwritten(c) /\ Distinct(c)
      BY <2>8
    <3> HIDE DEF c, v
    <3>3. ASSUME NEW i \in 1..Len(c), ~c[i].old
          PROVE  /\ c[i].e.sh = t /\ c[i].e.n <= count'[t]
                 /\ \A k \in 1..Len(v) : v[k] # c[i].e
      <4>1. c[i].e.sh = t /\ c[i].e.n <= count[t]
            /\ \A k \in 1..w : written[k] # c[i].e
        BY <3>2, <3>3 DEF Mine, Unwritten, w
      <4>2. ASSUME NEW k \in 1..Len(v) PROVE v[k] # c[i].e
        BY <2>9, <2>11, <2>13, <4>1
      <4> QED
        BY <1>2, <4>1, <4>2
    <3>4. \A i, j \in 1..Len(c) :
             i < j /\ ~c[i].old /\ ~c[j].old => c[i].e # c[j].e
      BY <3>2 DEF Distinct
    <3> QED
      BY <3>1, <3>3, <3>4 DEF After, v
  <2>14. \A t \in Shells : After(shell'[t].ring, t)
    BY <2>12, <2>13 DEF b
  <2>15. ASSUME NEW k \in 1..Len(v) PROVE v[k].n <= count'[v[k].sh]
    <3> HIDE DEF v
    <3> QED
      BY <1>2, <2>6, <2>9, <2>11
  <2>16. ASSUME NEW j \in 1..Len(v), NEW k \in 1..Len(v), j < k
         PROVE  v[j] # v[k]
    <3> HIDE DEF v
    <3>0. w \in Nat /\ m \in Nat /\ j \in Nat /\ k \in Nat
      BY <2>3, <2>4, <2>16 DEF w, m, v
    <3>1. CASE k \in 1..w
      <4>1. j \in 1..w /\ v[j] = written[j] /\ v[k] = written[k]
        BY <2>11, <2>16, <3>0, <3>1
      <4> QED
        BY <2>7, <2>16, <3>1, <4>1
    <3>2. CASE k \notin 1..w
      <4>1. k > w /\ k - w \in 1..m /\ v[k] = es[k - w]
        BY <2>11, <3>2
      <4>2. CASE j \in 1..w
        <5>1. v[j] = written[j]
          BY <2>11, <3>0, <4>2
        <5> QED
          BY <2>9, <4>1, <4>2, <5>1
      <4>3. CASE j \notin 1..w
        <5>1. j - w \in 1..m /\ v[j] = es[j - w] /\ j - w < k - w
          BY <2>11, <2>16, <3>0, <4>3
        <5> DEFINE jj == j - w
                   kk == k - w
        <5>2. jj \in 1..m /\ kk \in 1..m /\ jj < kk /\ v[j] = es[jj] /\ v[k] = es[kk]
          BY <4>1, <5>1
        <5> HIDE DEF jj, kk
        <5> QED
          BY <2>10, <5>2
      <4> QED
        BY <4>2, <4>3
    <3> QED
      BY <3>1, <3>2
  <2> QED
    BY <2>14, <2>15, <2>16, OnceLemma
<1> QED
  BY <1>4, <1>5 DEF Appended

LEMMA NextOnce == Types /\ Types' /\ Once /\ [Next]_vars => Once'
<1> SUFFICES ASSUME Types, Types', Once, [Next]_vars PROVE Once'
  OBVIOUS
<1>1. ASSUME NEW s \in Shells, Start(s) PROVE Once'
  BY <1>1, StartStep, QuietOnce
<1>2. ASSUME NEW s \in Shells, StartRead(s) PROVE Once'
  BY <1>2, StartReadStep, QuietOnce
<1>3. ASSUME NEW s \in Shells, Started(s) PROVE Once'
  BY <1>3, StartedStep, QuietOnce
<1>4. ASSUME NEW s \in Shells, HendLocked(s) PROVE Once'
  BY <1>4, HendLockedStep, QuietOnce
<1>5. ASSUME NEW s \in Shells, HendUnlocked(s) PROVE Once'
  BY <1>5, HendUnlockedStep, QuietOnce
<1>6. ASSUME NEW s \in Shells, HendRead(s) PROVE Once'
  BY <1>6, HendReadStep, QuietOnce
<1>7. ASSUME NEW s \in Shells, HendAdd(s) PROVE Once'
  BY <1>7, HendAddStep, QuietOnce, TypedOnce
<1>8. ASSUME NEW s \in Shells, SaveFast(s) PROVE Once'
  BY <1>8, SaveFastStep, QuietOnce
<1>9. ASSUME NEW s \in Shells, SaveAppend(s) PROVE Once'
  BY <1>9, SaveAppendStep, AppendedOnce
<1>10. ASSUME NEW s \in Shells, RewriteRead(s) PROVE Once'
  BY <1>10, RewriteReadStep, QuietOnce
<1>11. ASSUME NEW s \in Shells, RewriteOpen(s) PROVE Once'
  BY <1>11, RewriteOpenStep, QuietOnce
<1>12. ASSUME NEW s \in Shells, RewriteWrite(s) PROVE Once'
  BY <1>12, RewriteWriteStep, QuietOnce
<1>13. ASSUME NEW s \in Shells, RewriteRename(s) PROVE Once'
  BY <1>13, RewriteRenameStep, QuietOnce
<1>14. ASSUME NEW s \in Shells, RewriteFails(s) PROVE Once'
  BY <1>14, RewriteFailsStep, QuietOnce
<1>15. ASSUME NEW s \in Shells, Saved(s) PROVE Once'
  BY <1>15, SavedStep, QuietOnce
<1>16. ASSUME NEW s \in Shells, HendEnd(s) PROVE Once'
  BY <1>16, HendEndStep, QuietOnce
<1>17. ASSUME NEW s \in Shells, Exit(s) PROVE Once'
  BY <1>17, ExitStep, QuietOnce
<1>18. ASSUME NEW s \in Shells, ExitLock(s) PROVE Once'
  BY <1>18, ExitLockStep, QuietOnce
<1>19. ASSUME NEW s \in Shells, LockGivenUp(s) PROVE Once'
  BY <1>19, LockGivenUpStep, QuietOnce
<1>20. ASSUME NEW s \in Shells, LockStale(s) PROVE Once'
  BY <1>20, LockStaleStep, QuietOnce
<1>21. ASSUME NEW s \in Shells, LockSteal(s) PROVE Once'
  BY <1>21, LockStealStep, QuietOnce
<1>22. ASSUME NEW s \in Shells, Crash(s) PROVE Once'
  BY <1>22, CrashStep, QuietOnce
<1>23. ASSUME Tick \/ UNCHANGED vars PROVE Once'
  BY <1>23 DEF Tick, vars, disk, Once, Mine, Unwritten, Distinct
<1> QED
  BY <1>1, <1>2, <1>3, <1>4, <1>5, <1>6, <1>7, <1>8, <1>9, <1>10, <1>11, <1>12, <1>13, <1>14, <1>15, <1>16, <1>17, <1>18, <1>19, <1>20, <1>21, <1>22, <1>23 DEF Next, Begin, Hend, Rewrite, Save, Lock

LEMMA InitOnce == Init => Once
  BY DEF Init, Once, Mine, Unwritten, Distinct, Fresh

\* A sequence without repetitions has as many elements as it is long.
LEMMA CountingLemma ==
    ASSUME NEW q \in Seq(Event),
           \A j, k \in 1..Len(q) : j < k => q[j] # q[k]
    PROVE  Cardinality(Elems(q)) = Len(q)
<1> DEFINE n == Len(q)
<1>1. n \in Nat
  OBVIOUS
<1>2. Elems(q) = {q[i] : i \in 1..n}
  BY DEF Elems
<1> DEFINE f == [i \in 1..n |-> q[i]]
<1>3. \A j, k \in 1..n : q[j] = q[k] => j = k
  BY <1>1
<1> HIDE DEF n
<1>4. f \in Bijection(1..n, Elems(q))
  BY <1>2, <1>3 DEF Bijection, Injection, Surjection, IsInjective
<1>5. ExistsBijection(1..n, Elems(q))
  BY <1>4 DEF ExistsBijection
<1>6. IsFiniteSet(1..n) /\ Cardinality(1..n) = n
  BY <1>1, FS_Interval
<1>7. Cardinality(Elems(q)) = Cardinality(1..n)
  BY <1>5, <1>6, FS_Bijection
<1> QED
  BY <1>6, <1>7 DEF n

\* No event is written to the history file twice, whatever the options, the
\* clock and the crashes: it is marked HIST_OLD with the first write, and so
\* is all that comes from other shells.
THEOREM NoneWrittenTwice == Spec => []WrittenOnce
<1>1. Types /\ Once => WrittenOnce
  BY CountingLemma DEF Types, Once, WrittenOnce
<1> QED
  BY <1>1, InitOnce, NextOnce, Typed, PTL DEF Spec

-----------------------------------------------------------------------------
(* Nothing saved is lost.                                                  *)

\* f is the end of w, SAVEHIST events or more if there are as many.
Kept(f, w) == /\ f = Last(w, Len(f))
              /\ Len(f) >= SAVEHIST \/ Len(f) = Len(w)

\* The copy under way is the end of the file.
Copied ==
    /\ Kept(file, written)
    /\ \A s \in Shells :
          /\ shell[s].pc \in {"rw_open", "rw_write"}
                => shell[s].tmp = Last(file, SAVEHIST)
          /\ shell[s].pc = "rw_rename" => newfile = Last(file, SAVEHIST)

\* Being the end of w, element by element.
LEMMA EndLemma ==
    ASSUME NEW f \in Seq(Event), NEW w \in Seq(Event)
    PROVE  f = Last(w, Len(f)) <=>
              /\ Len(f) <= Len(w)
              /\ \A i \in 1..Len(f) : f[i] = w[Len(w) - Len(f) + i]
<1> DEFINE n == Len(f)
           m == Len(w)
           l == Last(w, n)
<1>1. n \in Nat /\ m \in Nat
  OBVIOUS
<1>2. /\ l \in Seq(Event)
      /\ Len(l) = IF m > n THEN n ELSE m
      /\ \A i \in 1..Len(l) : l[i] = w[m - Len(l) + i]
  BY <1>1, LastLemma
<1> HIDE DEF l, n, m
<1>3. ASSUME f = l
      PROVE  n <= m /\ \A i \in 1..n : f[i] = w[m - n + i]
  <2>1. Len(l) = n
    BY <1>3 DEF n
  <2>2. n <= m
    BY <1>1, <1>2, <2>1
  <2>3. \A i \in 1..n : l[i] = w[m - n + i]
    BY <1>2, <2>1
  <2> QED
    BY <1>3, <2>2, <2>3
<1>4. ASSUME n <= m, \A i \in 1..n : f[i] = w[m - n + i]
      PROVE  f = l
  <2>1. Len(l) = n
    BY <1>1, <1>2, <1>4
  <2>2. \A i \in 1..n : f[i] = l[i]
    BY <1>2, <1>4, <2>1
  <2> QED
    BY <1>2, <2>1, <2>2, SeqEqual DEF n
<1> QED
  BY <1>3, <1>4 DEF l, n, m

\* An append to both keeps the file the end of what was written.
LEMMA KeptAppend ==
    ASSUME NEW f \in Seq(Event), NEW w \in Seq(Event), NEW es \in Seq(Event),
           Kept(f, w)
    PROVE  Kept(f \o es, w \o es)
<1> DEFINE n == Len(f)
           m == Len(w)
           k == Len(es)
           g == f \o es
           x == w \o es
<1>1. n \in Nat /\ m \in Nat /\ k \in Nat
  OBVIOUS
<1>2. n <= m /\ \A i \in 1..n : f[i] = w[m - n + i]
  BY EndLemma DEF Kept
<1>3. /\ g \in Seq(Event) /\ Len(g) = n + k
      /\ \A i \in 1..(n + k) : g[i] = IF i <= n THEN f[i] ELSE es[i - n]
  BY ConcatProperties
<1>4. /\ x \in Seq(Event) /\ Len(x) = m + k
      /\ \A i \in 1..(m + k) : x[i] = IF i <= m THEN w[i] ELSE es[i - m]
  BY ConcatProperties
<1>5. n >= SAVEHIST \/ n = m
  BY DEF Kept
<1> HIDE DEF n, m, k, g, x
<1>6. Len(g) <= Len(x)
  BY <1>1, <1>2, <1>3, <1>4
<1>7. ASSUME NEW i \in 1..Len(g) PROVE g[i] = x[Len(x) - Len(g) + i]
  <2> DEFINE j == m - n + i
  <2>1. Len(x) - Len(g) + i = j /\ j \in 1..(m + k) /\ i \in 1..(n + k)
    BY <1>1, <1>2, <1>3, <1>4
  <2>2. CASE i <= n
    <3>1. i \in 1..n /\ j <= m
      BY <1>1, <2>1, <2>2
    <3>2. f[i] = w[j]
      BY <1>2, <3>1
    <3> HIDE DEF j
    <3> QED
      BY <1>3, <1>4, <2>1, <2>2, <3>1, <3>2
  <2>3. CASE i > n
    <3>1. ~(i <= n) /\ ~(j <= m) /\ j - m = i - n
      BY <1>1, <2>1, <2>3
    <3> HIDE DEF j
    <3> QED
      BY <1>3, <1>4, <2>1, <3>1
  <2> QED
    BY <1>1, <2>1, <2>2, <2>3
<1>8. g = Last(x, Len(g))
  BY <1>3, <1>4, <1>6, <1>7, EndLemma
<1>9. Len(g) >= SAVEHIST \/ Len(g) = Len(x)
  BY <1>1, <1>3, <1>4, <1>5, HistoryAssumption
<1> QED
  BY <1>8, <1>9 DEF Kept, g, x

\* And so does trimming the file to its last SAVEHIST lines.
LEMMA KeptTrim ==
    ASSUME NEW f \in Seq(Event), NEW w \in Seq(Event), Kept(f, w)
    PROVE  Kept(Last(f, SAVEHIST), w)
<1> DEFINE n == Len(f)
           m == Len(w)
           g == Last(f, SAVEHIST)
           k == Len(g)
<1>1. n \in Nat /\ m \in Nat /\ SAVEHIST \in Nat
  BY HistoryAssumption
<1>2. n <= m /\ \A i \in 1..n : f[i] = w[m - n + i]
  BY EndLemma DEF Kept
<1>3. /\ g \in Seq(Event)
      /\ k = IF n > SAVEHIST THEN SAVEHIST ELSE n
      /\ \A i \in 1..k : g[i] = f[n - k + i]
  BY <1>1, LastLemma
<1>4. n >= SAVEHIST \/ n = m
  BY DEF Kept
<1> HIDE DEF n, m, g, k
<1>5. k \in Nat /\ k <= n /\ k <= m
  BY <1>1, <1>2, <1>3
<1>6. ASSUME NEW i \in 1..k PROVE g[i] = w[m - k + i]
  <2> DEFINE j == n - k + i
  <2>1. j \in 1..n /\ m - n + j = m - k + i
    BY <1>1, <1>5
  <2> HIDE DEF j
  <2>2. f[j] = w[m - n + j]
    BY <1>2, <2>1
  <2> QED
    BY <1>3, <2>1, <2>2 DEF j
<1>7. g = Last(w, Len(g))
  BY <1>3, <1>5, <1>6, EndLemma DEF k, m
<1>8. k >= SAVEHIST \/ k = m
  BY <1>1, <1>3, <1>4
<1> QED
  BY <1>7, <1>8 DEF Kept, g, k, m

\* While a shell is in savehistfile(), no other one is copying.
LEMMA OneCopies ==
    ASSUME Types, LockHeld, NEW s \in Shells, NEW t \in Shells, t # s,
           shell[s].pc \in Writing
    PROVE  shell[t].pc \notin Copying
<1>1. /\ shell[s].ct \in 0..2 /\ CountOK(shell[s])
      /\ shell[t].ct \in 0..2 /\ CountOK(shell[t])
  BY DEF Types, Memory
<1>2. shell[s].ct > 0 /\ lock # None /\ lock.owner = s
  BY <1>1 DEF CountOK, LockHeld
<1>3. shell[t].pc \in Writing => shell[t].ct > 0 /\ lock.owner = t
  BY <1>1 DEF CountOK, LockHeld
<1> QED
  BY <1>2, <1>3 DEF Copying, Writing

\* Steps that leave the files alone and do not go on with a copy.
LEMMA QuietCopied ==
    ASSUME Types, Copied, NEW s \in Shells, Quiet(s) \/ Typed1(s)
    PROVE  Copied'
<1>1. /\ UNCHANGED <<file, newfile, written>>
      /\ shell'[s].pc \notin Copying
      /\ \A t \in Shells : t # s => shell'[t] = shell[t]
  BY DEF Quiet, Typed1, Alone
<1>2. ASSUME NEW t \in Shells
      PROVE  /\ shell'[t].pc \in {"rw_open", "rw_write"}
                   => shell'[t].tmp = Last(file', SAVEHIST)
             /\ shell'[t].pc = "rw_rename" => newfile' = Last(file', SAVEHIST)
  <2>1. CASE t = s
    BY <1>1, <2>1 DEF Copying
  <2>2. CASE t # s
    BY <1>1, <2>2 DEF Copied
  <2> QED
    BY <2>1, <2>2
<1> QED
  BY <1>1, <1>2 DEF Copied

\* Steps of savehistfile(): no other shell is copying.
LEMMA WriterCopied ==
    ASSUME Types, LockHeld, NEW s \in Shells, shell[s].pc \in Writing, Alone(s),
           Kept(file', written'),
           shell'[s].pc \in {"rw_open", "rw_write"}
              => shell'[s].tmp = Last(file', SAVEHIST),
           shell'[s].pc = "rw_rename" => newfile' = Last(file', SAVEHIST)
    PROVE  Copied'
<1>1. ASSUME NEW t \in Shells, t # s PROVE shell'[t].pc \notin Copying
  BY <1>1, OneCopies DEF Alone
<1> QED
  BY <1>1 DEF Copied, Copying

LEMMA AppendCopied ==
    ASSUME Types, LockHeld, Copied, NEW s \in Shells, At(s, "append"), Appended(s)
    PROVE  Copied'
<1>1. shell[s].pc \in Writing
  BY DEF At, Writing
<1>2. Unsaved(shell[s].ring) \in Seq(Event) /\ file \in Seq(Event)
      /\ written \in Seq(Event)
  BY AppendLemma DEF Types
<1>3. Kept(file', written')
  BY <1>2, KeptAppend DEF Appended, Copied
<1> QED
  BY <1>1, <1>3, WriterCopied DEF Appended

LEMMA NextCopied ==
    ASSUME HISTSAVEBYCOPY
    PROVE  Types /\ Types' /\ LockHeld /\ Copied /\ [Next]_vars => Copied'
<1> SUFFICES ASSUME Types, Types', LockHeld, Copied, [Next]_vars PROVE Copied'
  OBVIOUS
<1>1. ASSUME NEW s \in Shells, Start(s) PROVE Copied'
  BY <1>1, StartStep, QuietCopied
<1>2. ASSUME NEW s \in Shells, StartRead(s) PROVE Copied'
  BY <1>2, StartReadStep, QuietCopied
<1>3. ASSUME NEW s \in Shells, Started(s) PROVE Copied'
  BY <1>3, StartedStep, QuietCopied
<1>4. ASSUME NEW s \in Shells, HendLocked(s) PROVE Copied'
  BY <1>4, HendLockedStep, QuietCopied
<1>5. ASSUME NEW s \in Shells, HendUnlocked(s) PROVE Copied'
  BY <1>5, HendUnlockedStep, QuietCopied
<1>6. ASSUME NEW s \in Shells, HendRead(s) PROVE Copied'
  BY <1>6, HendReadStep, QuietCopied
<1>7. ASSUME NEW s \in Shells, HendAdd(s) PROVE Copied'
  BY <1>7, HendAddStep, QuietCopied
<1>8. ASSUME NEW s \in Shells, SaveFast(s) PROVE Copied'
  BY <1>8, SaveFastStep, QuietCopied
<1>9. ASSUME NEW s \in Shells, SaveAppend(s) PROVE Copied'
  BY <1>9, SaveAppendStep, AppendCopied DEF SaveAppend
<1>10. ASSUME NEW s \in Shells, RewriteRead(s) PROVE Copied'
  <2>1. Rewritten(s) /\ shell'[s] = [shell[s] EXCEPT !.tmp = Last(file, SAVEHIST),
                       !.pc = IF file = <<>> THEN "saved" ELSE "rw_open"] /\ shell[s] \in Memory
    BY <1>10, RewriteReadStep, MemoryLemma
  <2>2. Kept(file', written')
    BY <1>10 DEF RewriteRead, disk, Copied
  <2>3. shell'[s].tmp = Last(file', SAVEHIST) /\ shell'[s].pc \in {"rw_open", "saved"}
    BY <1>10, <2>1 DEF RewriteRead, disk, Types, Memory
  <2>4. shell[s].pc \in Writing /\ Alone(s)
    BY <1>10, <2>1 DEF RewriteRead, At, Writing, Rewritten
  <2> QED
    BY <2>2, <2>3, <2>4, WriterCopied
<1>11. ASSUME NEW s \in Shells, RewriteOpen(s) PROVE Copied'
  <2>1. Rewritten(s) /\ shell'[s] = [shell[s] EXCEPT !.pc = "rw_write"] /\ shell[s] \in Memory
    BY <1>11, RewriteOpenStep, MemoryLemma
  <2>2. Kept(file', written')
    BY <1>11 DEF RewriteOpen, Copied
  <2>3. shell'[s].tmp = Last(file', SAVEHIST) /\ shell'[s].pc = "rw_write"
    <3>1. shell[s].tmp = Last(file, SAVEHIST) /\ shell[s].pc = "rw_open"
      BY <1>11 DEF RewriteOpen, At, Copied
    <3>2. shell'[s].tmp = shell[s].tmp /\ shell'[s].pc = "rw_write"
      BY <2>1 DEF Types, Memory
    <3> QED
      BY <1>11, <3>1, <3>2 DEF RewriteOpen
  <2>4. shell[s].pc \in Writing /\ Alone(s)
    BY <1>11, <2>1 DEF RewriteOpen, At, Writing, Rewritten
  <2> QED
    BY <2>2, <2>3, <2>4, WriterCopied
<1>12. ASSUME NEW s \in Shells, RewriteWrite(s) PROVE Copied'
  <2>1. Rewritten(s) /\ shell'[s] = [shell[s] EXCEPT !.tmp = <<>>,
                       !.pc = IF HISTSAVEBYCOPY THEN "rw_rename" ELSE "saved"] /\ shell[s] \in Memory
    BY <1>12, RewriteWriteStep, MemoryLemma
  <2>2. Kept(file', written')
    BY <1>12 DEF RewriteWrite, Copied
  <2>3. newfile' = Last(file', SAVEHIST) /\ shell'[s].pc = "rw_rename"
    <3>1. shell[s].tmp = Last(file, SAVEHIST)
      BY <1>12 DEF RewriteWrite, At, Copied
    <3>2. shell'[s].pc = "rw_rename"
      BY <2>1 DEF Types, Memory
    <3> QED
      BY <1>12, <3>1, <3>2 DEF RewriteWrite
  <2>4. shell[s].pc \in Writing /\ Alone(s)
    BY <1>12, <2>1 DEF RewriteWrite, At, Writing, Rewritten
  <2> QED
    BY <2>2, <2>3, <2>4, WriterCopied
<1>13. ASSUME NEW s \in Shells, RewriteRename(s) PROVE Copied'
  <2>1. Rewritten(s) /\ shell'[s] = [shell[s] EXCEPT !.pc = "saved"] /\ shell[s] \in Memory
    BY <1>13, RewriteRenameStep, MemoryLemma
  <2>2. Kept(file', written')
    <3>1. newfile = Last(file, SAVEHIST) /\ Kept(file, written)
      BY <1>13 DEF RewriteRename, At, Copied
    <3>2. file \in Seq(Event) /\ written \in Seq(Event)
      BY DEF Types
    <3>3. Kept(Last(file, SAVEHIST), written)
      BY <3>1, <3>2, KeptTrim
    <3> QED
      BY <1>13, <3>1, <3>3 DEF RewriteRename
  <2>3. shell'[s].pc = "saved"
    BY <2>1 DEF Types, Memory
  <2>4. shell[s].pc \in Writing /\ Alone(s)
    BY <1>13, <2>1 DEF RewriteRename, At, Writing, Rewritten
  <2> QED
    BY <2>2, <2>3, <2>4, WriterCopied
<1>14. ASSUME NEW s \in Shells, RewriteFails(s) PROVE Copied'
  BY <1>14, RewriteFailsStep, QuietCopied
<1>15. ASSUME NEW s \in Shells, Saved(s) PROVE Copied'
  BY <1>15, SavedStep, QuietCopied
<1>16. ASSUME NEW s \in Shells, HendEnd(s) PROVE Copied'
  BY <1>16, HendEndStep, QuietCopied
<1>17. ASSUME NEW s \in Shells, Exit(s) PROVE Copied'
  BY <1>17, ExitStep, QuietCopied
<1>18. ASSUME NEW s \in Shells, ExitLock(s) PROVE Copied'
  BY <1>18, ExitLockStep, QuietCopied
<1>19. ASSUME NEW s \in Shells, LockGivenUp(s) PROVE Copied'
  BY <1>19, LockGivenUpStep, QuietCopied
<1>20. ASSUME NEW s \in Shells, LockStale(s) PROVE Copied'
  BY <1>20, LockStaleStep, QuietCopied
<1>21. ASSUME NEW s \in Shells, LockSteal(s) PROVE Copied'
  BY <1>21, LockStealStep, QuietCopied
<1>22. ASSUME NEW s \in Shells, Crash(s) PROVE Copied'
  BY <1>22, CrashStep, QuietCopied
<1>23. ASSUME Tick \/ UNCHANGED vars PROVE Copied'
  BY <1>23 DEF Tick, vars, disk, Copied
<1> QED
  BY <1>1, <1>2, <1>3, <1>4, <1>5, <1>6, <1>7, <1>8, <1>9, <1>10, <1>11, <1>12, <1>13, <1>14, <1>15, <1>16, <1>17, <1>18, <1>19, <1>20, <1>21, <1>22, <1>23 DEF Next, Begin, Hend, Rewrite, Save, Lock

LEMMA InitCopied == Init => Copied
<1> SUFFICES ASSUME Init PROVE Copied
  OBVIOUS
<1>1. <<>> \in Seq(Event) /\ Len(<<>>) = 0
  OBVIOUS
<1>2. <<>> = Last(<<>>, Len(<<>>))
  <2> DEFINE q == <<>>
  <2>1. q \in Seq(Event) /\ Len(q) = 0
    BY <1>1
  <2> HIDE DEF q
  <2>2. Len(q) <= Len(q) /\ \A i \in 1..Len(q) : q[i] = q[Len(q) - Len(q) + i]
    BY <2>1
  <2>3. q = Last(q, Len(q))
    BY <2>1, <2>2, EndLemma
  <2> QED
    BY <2>3 DEF q
<1>3. Kept(file, written)
  BY <1>2 DEF Init, Kept
<1> QED
  BY <1>3 DEF Init, Copied, Fresh

\* With HIST_SAVE_BY_COPY, and a clock that is not that of the file system,
\* nothing that reached the history file is lost before its turn: not by the
\* rewrites of any number of shells, by crashes or by failed writes.
THEOREM NothingLost ==
    ASSUME Monotonic, HISTSAVEBYCOPY PROVE Spec => []SavedKept
<1>1. Copied => SavedKept
  BY DEF Copied, Kept, SavedKept
<1> QED
  BY <1>1, InitCopied, NextCopied, InitLock, NextLock, Typed, PTL DEF Spec

-----------------------------------------------------------------------------
(* What a read adds to the ring.                                           *)

\* Lines from `from` on, and nothing but lines of the file.
LEMMA ImportHas ==
    ASSUME file \in Seq(Event), NEW r \in Memory, NEW from \in Nat \ {0},
           NEW linect \in Nat, NEW shift \in Nat
    PROVE  LET ring == Import(r, from, linect, shift).ring
           IN  /\ \A i \in 1..Len(file) : i >= from => Has(ring, file[i])
               /\ \A i \in 1..Len(ring) : i > Len(r.ring) => ring[i].e \in Elems(file)
<1> DEFINE n == Len(file)
           es == SubSeq(file, from, n)
           all == AddAll(r.ring, es)
           ring == Import(r, from, linect, shift).ring
<1>1. n \in Nat /\ r.ring \in Seq(Entry) /\ Len(r.ring) \in Nat
  BY DEF Memory
<1>2. es \in Seq(Event) /\ (from > n => es = <<>>)
  BY SuffixLemma
<1>3. from <= n => /\ Len(es) = n - from + 1
                   /\ \A j \in 1..(n - from + 1) : es[j] = file[from + j - 1]
  <2>1. \A i \in from..n : file[i] \in Event
    BY <1>1
  <2> QED
    BY <1>1, <2>1, SubSeqProperties
<1>4. ring = IF es = <<>> THEN r.ring ELSE all
  BY DEF Import, Memory
<1> HIDE DEF es, ring
<1>5. Filled(all, r.ring, es, Len(es))
  BY <1>1, <1>2, AddAllFills
<1> HIDE DEF all, n
<1>6. CASE es = <<>>
  <2>1. from > n
    BY <1>1, <1>3, <1>6
  <2> QED
    BY <1>1, <1>4, <1>6, <2>1 DEF n, ring
<1>7. CASE es # <<>>
  <2>1. from <= n /\ ring = all
    BY <1>1, <1>2, <1>4, <1>7
  <2>2. ASSUME NEW i \in 1..n, i >= from PROVE Has(ring, file[i])
    <3>1. i - from + 1 \in 1..Len(es) /\ es[i - from + 1] = file[i]
      BY <1>1, <1>3, <2>1, <2>2
    <3> QED
      BY <1>5, <2>1, <3>1 DEF Filled
  <2>3. ASSUME NEW i \in 1..Len(ring), i > Len(r.ring) PROVE ring[i].e \in Elems(file)
    <3>1. PICK j \in 1..Len(es) : ring[i].e = es[j]
      BY <1>5, <2>1, <2>3 DEF Filled
    <3>2. from + j - 1 \in 1..n /\ es[j] = file[from + j - 1]
      BY <1>1, <1>3, <2>1
    <3> QED
      BY <3>1, <3>2 DEF Elems, n
  <2> QED
    BY <2>2, <2>3 DEF n, ring
<1> QED
  BY <1>6, <1>7

\* The fast read adds every line that is not older than the one seen last,
\* but for those before that one if it is where it was.
LEMMA ReadFastHas ==
    ASSUME Types, NEW r \in Memory
    PROVE  LET ring == ReadFast(r).ring
               found == r.text # None /\ r.fpos < Len(file) /\ file[r.fpos + 1] = r.text
           IN  /\ \A i \in 1..Len(ring) : i > Len(r.ring) => ring[i].e \in Elems(file)
               /\ ~ (r.fsiz = Len(file) /\ r.mtim = mtime)
                    => \A i \in 1..Len(file) :
                          file[i].stim >= r.stim /\ (found => i > r.fpos + 1)
                              => Has(ring, file[i])
<1> DEFINE q == [r EXCEPT !.fsiz = Len(file), !.mtim = mtime]
           found == r.text # None /\ r.fpos < Len(file) /\ file[r.fpos + 1] = r.text
           ring == ReadFast(r).ring
           Old(x) == \A i \in 1..Len(x) : i > Len(r.ring) => x[i].e \in Elems(file)
           New(x) == \A i \in 1..Len(file) :
                         file[i].stim >= r.stim /\ (found => i > r.fpos + 1) => Has(x, file[i])
<1>1. file \in Seq(Event) /\ Len(file) \in Nat /\ mtime \in 0..MaxTime
  BY DEF Types
<1>2. r.stim \in Nat /\ r.fpos \in Nat /\ r.linect \in Nat /\ r.ring \in Seq(Entry)
      /\ Len(r.ring) \in Nat
  BY DEF Memory
<1>3. q \in Memory /\ q.stim = r.stim /\ q.ring = r.ring
  BY <1>1 DEF Memory
<1>4. ReadFast(r) =
         IF file = <<>> \/ (r.fsiz = Len(file) /\ r.mtim = mtime) THEN r
         ELSE IF r.text = None THEN Import(q, 1, r.linect, 0)
         ELSE IF r.fpos >= Len(file) THEN Search(q, 0)
         ELSE IF file[r.fpos + 1] = r.text /\ r.text.stim = r.stim
         THEN Import(q, r.fpos + 2, r.linect, 0)
         ELSE Search(q, r.fpos + 1)
  BY DEF ReadFast
<1> HIDE DEF q
<1>5. Old(r.ring)
  BY <1>2
<1>6. ASSUME NEW from \in Nat \ {0}, NEW linect \in Nat, NEW shift \in Nat
      PROVE  LET x == Import(q, from, linect, shift).ring
             IN  Old(x) /\ \A i \in 1..Len(file) : i >= from => Has(x, file[i])
  BY <1>1, <1>3, ImportHas
<1>7. ASSUME NEW shift \in Nat
      PROVE  Old(Search(q, shift).ring) /\ New(Search(q, shift).ring)
  <2> DEFINE from == FirstNotOlder(r.stim)
             k == from - 1
  <2>1. from \in Nat \ {0}
        /\ \A i \in 1..Len(file) : file[i].stim >= r.stim => i >= from
    BY <1>1, <1>2, FirstNotOlderLemma
  <2>2. Search(q, shift) = Import(q, from, k, shift)
    BY <1>3 DEF Search
  <2> HIDE DEF from
  <2>3. k \in Nat
    BY <2>1
  <2> HIDE DEF k
  <2> DEFINE x == Import(q, from, k, shift).ring
  <2>4. Old(x) /\ \A i \in 1..Len(file) : i >= from => Has(x, file[i])
    BY <1>6, <2>1, <2>3
  <2> HIDE DEF x, Old
  <2>5. New(x)
    BY <2>1, <2>4
  <2> QED
    BY <2>2, <2>4, <2>5 DEF x
<1>8. CASE file = <<>> \/ (r.fsiz = Len(file) /\ r.mtim = mtime)
  BY <1>4, <1>5, <1>8
<1>9. CASE ~ (file = <<>> \/ (r.fsiz = Len(file) /\ r.mtim = mtime))
  <2>1. Old(ring) /\ New(ring)
    <3>1. CASE r.text = None
      <4> DEFINE from == 1
                 x == Import(q, from, r.linect, 0).ring
      <4>1. from \in Nat \ {0} /\ \A i \in 1..Len(file) : i >= from
        BY <1>1
      <4>2. ring = x
        BY <1>4, <1>9, <3>1
      <4> HIDE DEF from
      <4>3. Old(x) /\ \A i \in 1..Len(file) : i >= from => Has(x, file[i])
        BY <1>2, <1>6, <4>1
      <4> HIDE DEF x, ring, Old
      <4> QED
        BY <4>1, <4>2, <4>3
    <3>2. CASE r.text # None /\ r.fpos < Len(file) /\ file[r.fpos + 1] = r.text
               /\ r.text.stim = r.stim
      <4> DEFINE from == r.fpos + 2
                 x == Import(q, from, r.linect, 0).ring
      <4>1. from \in Nat \ {0}
        BY <1>2
      <4>2. ring = x
        BY <1>1, <1>2, <1>4, <1>9, <3>2
      <4>3. \A i \in 1..Len(file) : i > r.fpos + 1 => i >= from
        BY <1>2
      <4> HIDE DEF from
      <4>4. Old(x) /\ \A i \in 1..Len(file) : i >= from => Has(x, file[i])
        BY <1>2, <1>6, <4>1
      <4> HIDE DEF x, ring, Old
      <4>5. found
        BY <3>2
      <4> HIDE DEF found
      <4> QED
        BY <4>2, <4>3, <4>4, <4>5
    <3>3. CASE r.text # None /\ r.fpos >= Len(file)
      <4>1. ReadFast(r) = Search(q, 0)
        BY <1>4, <1>9, <3>3
      <4> HIDE DEF Old, New
      <4> QED
        BY <1>7, <4>1
    <3>4. CASE r.text # None /\ r.fpos < Len(file)
               /\ ~ (file[r.fpos + 1] = r.text /\ r.text.stim = r.stim)
      <4>1. ReadFast(r) = Search(q, r.fpos + 1)
        BY <1>1, <1>2, <1>4, <1>9, <3>4
      <4>2. r.fpos + 1 \in Nat
        BY <1>2
      <4> HIDE DEF Old, New
      <4> QED
        BY <1>7, <4>1, <4>2
    <3> QED
      BY <1>1, <1>2, <3>1, <3>2, <3>3, <3>4
  <2> QED
    BY <2>1
<1> QED
  BY <1>8, <1>9

-----------------------------------------------------------------------------
(* A read misses nothing that has come since the last.                     *)

\* A step of a shell changes its own memory only.
LEMMA OneMoves ==
    ASSUME Types, Types', NEW t \in Shells,
           Begin(t) \/ Hend(t) \/ Save(t) \/ Exit(t) \/ Lock(t) \/ Crash(t)
    PROVE  Alone(t)
<1>1. CASE Begin(t)
  BY <1>1, StartStep, StartReadStep, StartedStep DEF Begin, LockStep
<1>2. CASE Hend(t)
  BY <1>2, HendLockedStep, HendUnlockedStep, HendReadStep, HendAddStep DEF Hend, LockStep
<1>3. CASE Save(t)
  BY <1>3, SaveFastStep, SaveAppendStep, RewriteReadStep, RewriteOpenStep, RewriteWriteStep,
     RewriteRenameStep, RewriteFailsStep, SavedStep, HendEndStep
     DEF Save, Rewrite, LockStep
<1>4. CASE Lock(t)
  BY <1>4, ExitLockStep, LockGivenUpStep, LockStaleStep, LockStealStep DEF Lock, LockStep, Quiet
<1>5. CASE Exit(t) \/ Crash(t)
  BY <1>5, ExitStep, CrashStep DEF LockStep
<1> QED
  BY <1>1, <1>2, <1>3, <1>4, <1>5

LEMMA ReadStep ==
    ASSUME Types, Types', [Next]_vars, NEW s \in Shells,
           At(s, "read"), shell'[s].pc = "add"
    PROVE  HendRead(s)
<1>1. shell'[s] # shell[s]
  BY DEF At
<1>2. ~ Tick /\ ~ UNCHANGED vars
  BY <1>1 DEF Tick, vars
<1>3. PICK t \in Shells :
          Begin(t) \/ Hend(t) \/ Save(t) \/ Exit(t) \/ Lock(t) \/ Crash(t)
  BY <1>2 DEF Next
<1>4. t = s
  <2>1. Alone(t)
    BY <1>3, OneMoves
  <2> QED
    BY <1>1, <2>1 DEF Alone
<1>5. ~ Crash(s)
  BY DEF Crash, Put, Types, Fresh
<1>6. ~ Begin(s) /\ ~ Exit(s) /\ ~ Lock(s) /\ ~ Save(s)
  BY DEF Begin, Exit, Lock, Save, Rewrite, Start, StartRead, Started, ExitLock, LockGivenUp,
         LockStale, LockSteal, Waiting, SaveFast, SaveAppend, RewriteRead, RewriteOpen,
         RewriteWrite, RewriteRename, RewriteFails, Saved, HendEnd, At
<1>7. ~ HendLocked(s) /\ ~ HendUnlocked(s) /\ ~ HendAdd(s)
  BY DEF HendLocked, HendUnlocked, HendAdd, At
<1> QED
  BY <1>3, <1>4, <1>5, <1>6, <1>7 DEF Hend

\* An event is in the ring of a shell.
LEMMA HasIs ==
    ASSUME NEW ring \in Seq(Entry), NEW e
    PROVE  e \in Elems(Events(ring)) <=> Has(ring, e)
<1> DEFINE es == Events(ring)
<1>1. Len(es) = Len(ring) /\ \A i \in 1..Len(ring) : es[i] = ring[i].e
  BY EventsLemma
<1> HIDE DEF es
<1>2. e \in Elems(es) <=> Has(ring, e)
  BY <1>1 DEF Elems, Has
<1> QED
  BY <1>2 DEF es

\* The file is the end of what was written, and no line of that is there
\* twice: what has come after the line seen last is further on in the file.
LEMMA ReadSeesStep ==
    ASSUME Types, Types', Once, Kept(file, written), [Next]_vars, NEW s \in Shells,
           At(s, "read"), shell'[s].pc = "add",
           ~ (shell[s].fsiz = Len(file) /\ shell[s].mtim = mtime),
           NEW e \in Elems(file) \cap NewSince(shell[s]), e.stim >= shell[s].stim
    PROVE  e \in InRing(s)'
<1> DEFINE r == shell[s]
           n == Len(file)
           m == Len(written)
           ring == ReadFast(r).ring
           found == r.text # None /\ r.fpos < Len(file) /\ file[r.fpos + 1] = r.text
<1>1. file \in Seq(Event) /\ written \in Seq(Event) /\ n \in Nat /\ m \in Nat
  BY DEF Types
<1>2. r \in Memory /\ r.fpos \in Nat
  BY MemoryLemma DEF Memory
<1>3. shell'[s] = [ReadFast(r) EXCEPT !.pc = "add"]
  <2>1. Put(s, [ReadFast(r) EXCEPT !.pc = "add"])
    BY ReadStep DEF HendRead
  <2> QED
    BY <2>1, PutLemma
<1>4. shell'[s].ring = ring /\ ring \in Seq(Entry)
  <2>1. ReadFast(r) \in Memory
    BY <1>2, ReadFastLemma DEF ReadOf
  <2> QED
    BY <1>3, <2>1 DEF Memory
<1>5. n <= m /\ \A i \in 1..n : file[i] = written[m - n + i]
  <2>1. file = Last(written, n)
    BY DEF Kept
  <2> QED
    BY <1>1, <2>1, EndLemma
<1>6. \A j, k \in 1..m : written[j] = written[k] => j = k
  <2>1. \A j, k \in 1..m : j < k => written[j] # written[k]
    BY DEF Once
  <2> QED
    BY <1>1, <2>1
<1>7. PICK i \in 1..n : file[i] = e
  BY DEF Elems
<1>8. found => i > r.fpos + 1
  <2>1. PICK k \in 1..m : written[k] = e /\ \A j \in 1..m : written[j] = r.text => j < k
    BY DEF NewSince
  <2>2. k = m - n + i
    BY <1>1, <1>5, <1>6, <1>7, <2>1
  <2>3. SUFFICES ASSUME found PROVE i > r.fpos + 1
    OBVIOUS
  <2>4. r.fpos + 1 \in 1..n
    BY <1>1, <1>2, <2>3
  <2>5. written[m - n + (r.fpos + 1)] = r.text /\ m - n + (r.fpos + 1) \in 1..m
    BY <1>1, <1>5, <2>3, <2>4
  <2>6. m - n + (r.fpos + 1) < k
    BY <2>1, <2>5
  <2> QED
    BY <1>1, <1>2, <2>2, <2>6
<1>9. \A j \in 1..Len(file) :
          file[j].stim >= r.stim /\ (found => j > r.fpos + 1) => Has(ring, file[j])
  BY <1>2, ReadFastHas
<1> HIDE DEF ring, found
<1>10. Has(ring, e)
  BY <1>7, <1>8, <1>9
<1>11. InRing(s)' = Elems(Events(ring))
  BY <1>4 DEF InRing
<1> QED
  BY <1>4, <1>10, <1>11, HasIs

\* A shell that reads what other shells have appended misses no event that has
\* come since the line it saw last and is not older, wherever the rewrites of
\* any number of shells have moved the lines (the fast read in
\* readhistfile()), with HIST_SAVE_BY_COPY and a clock that is not that of
\* the file system.
THEOREM ReadsSeeAll ==
    ASSUME Monotonic, HISTSAVEBYCOPY PROVE Spec => ReadSees
<1>1. Types /\ Types' /\ Once /\ Copied /\ [Next]_vars
        => [\A s \in Shells :
               LET r == shell[s]
                   LooksUnchanged == r.fsiz = Len(file) /\ r.mtim = mtime
               IN  At(s, "read") /\ shell'[s].pc = "add" /\ ~LooksUnchanged =>
                     \A e \in Elems(file) \cap NewSince(r) :
                         e.stim >= r.stim => e \in InRing(s)']_vars
  BY ReadSeesStep DEF Copied
<1> QED
  BY <1>1, InitOnce, NextOnce, InitCopied, NextCopied, InitLock, NextLock, Typed, PTL
     DEF Spec, ReadSees

-----------------------------------------------------------------------------
(* A shell that exits has saved its history.                               *)

\* What is marked as saved has been written, unless a write failed.
Marked(r, w, f) ==
    f = 0 => \A i \in 1..Len(r.ring) : r.ring[i].old => r.ring[i].e \in Elems(w)

\* After the append all is marked.
Wrote == Writing \ {"append"}
AllOld(r) == r.pc \in Wrote => \A i \in 1..Len(r.ring) : r.ring[i].old

Filed ==
    /\ failures \in Nat
    /\ Elems(file) \subseteq Elems(written)
    /\ newfile # None => Elems(newfile) \subseteq Elems(written)
    /\ \A s \in Shells : /\ Elems(shell[s].tmp) \subseteq Elems(written)
                         /\ AllOld(shell[s])
                         /\ Marked(shell[s], written, failures)

\* What has to be shown of a step of s.
LEMMA FiledLemma ==
    ASSUME Filed, NEW s \in Shells, Alone(s),
           failures' \in Nat, failures' >= failures,
           Elems(written) \subseteq Elems(written'),
           Elems(file') \subseteq Elems(written'),
           newfile' # None => Elems(newfile') \subseteq Elems(written'),
           Elems(shell'[s].tmp) \subseteq Elems(written'),
           AllOld(shell'[s]), Marked(shell'[s], written', failures')
    PROVE  Filed'
<1>1. ASSUME NEW t \in Shells
      PROVE  /\ Elems(shell'[t].tmp) \subseteq Elems(written')
             /\ AllOld(shell'[t])
             /\ Marked(shell'[t], written', failures')
  <2>1. CASE t = s
    BY <2>1
  <2>2. CASE t # s
    <3>1. shell'[t] = shell[t]
      BY <2>2 DEF Alone
    <3>2. failures' = 0 => failures = 0
      BY DEF Filed
    <3>3. Marked(shell[t], written, failures) => Marked(shell[t], written', failures')
      BY <3>2 DEF Marked
    <3> QED
      BY <3>1, <3>3 DEF Filed
  <2> QED
    BY <2>1, <2>2
<1> HIDE DEF AllOld, Marked
<1> QED
  BY <1>1 DEF Filed, AllOld, Marked

\* A step that touches no file and leaves the ring as it was, or nothing.
Still(s) ==
    /\ Alone(s)
    /\ UNCHANGED <<file, newfile, written, failures>>
    /\ \/ shell'[s].ring = shell[s].ring /\ shell'[s].tmp = shell[s].tmp
       \/ shell'[s].ring = <<>> /\ shell'[s].tmp = <<>>
    /\ shell'[s].pc \notin Wrote

LEMMA StillFiled == ASSUME Filed, NEW s \in Shells, Still(s) PROVE Filed'
<1>1. /\ Elems(written) \subseteq Elems(written') /\ Elems(file') \subseteq Elems(written')
      /\ newfile' # None => Elems(newfile') \subseteq Elems(written')
      /\ failures' \in Nat /\ failures' >= failures /\ Alone(s)
  BY DEF Filed, Still
<1>2. AllOld(shell'[s])
  BY DEF Still, AllOld
<1>3. Marked(shell'[s], written', failures') /\ Elems(shell'[s].tmp) \subseteq Elems(written')
  <2>1. CASE shell'[s].ring = shell[s].ring /\ shell'[s].tmp = shell[s].tmp
    BY <2>1 DEF Still, Filed, Marked
  <2>2. CASE shell'[s].ring = <<>> /\ shell'[s].tmp = <<>>
    BY <2>2 DEF Marked, Elems
  <2> QED
    BY <2>1, <2>2 DEF Still
<1> QED
  BY <1>1, <1>2, <1>3, FiledLemma

LEMMA PutStill ==
    ASSUME Types, Types', NEW s \in Shells, NEW r, Put(s, r),
           UNCHANGED <<file, newfile, written, failures>>,
           \/ r.ring = shell[s].ring /\ r.tmp = shell[s].tmp
           \/ r.ring = <<>> /\ r.tmp = <<>>,
           r.pc \notin Wrote
    PROVE  Still(s) /\ shell'[s].pc = r.pc
<1>1. Alone(s) /\ shell'[s] = r
  BY PutLemma
<1> QED
  BY <1>1 DEF Still

LEMMA GotoStill ==
    ASSUME Types, Types', NEW s \in Shells, NEW pc, Goto(s, pc), pc \notin Wrote,
           UNCHANGED <<file, newfile, written, failures>>
    PROVE  Still(s) /\ shell'[s].pc = pc
<1> DEFINE r == [shell[s] EXCEPT !.pc = pc]
<1>1. Put(s, r)
  BY PutMemory
<1>2. r.ring = shell[s].ring /\ r.tmp = shell[s].tmp /\ r.pc = pc
  BY MemoryLemma DEF Memory
<1> HIDE DEF r
<1> QED
  BY <1>1, <1>2, PutStill

\* The steps that are Still, and which of them leave a shell off.
LEMMA StillSteps ==
    ASSUME Types, Types', NEW s \in Shells,
           \/ Start(s) \/ HendLocked(s) \/ HendUnlocked(s) \/ SaveFast(s)
           \/ Exit(s) \/ LockStale(s) \/ LockSteal(s)
    PROVE  Still(s) /\ shell'[s].pc # "off"
<1>1. shell[s] \in Memory
  BY MemoryLemma
<1>2. CASE Start(s)
  <2> DEFINE pc == IF file = <<>> THEN "idle" ELSE "start"
  <2>1. Goto(s, pc) /\ UNCHANGED <<file, newfile, written, failures>>
    BY <1>2 DEF Start, disk
  <2>2. pc \notin Wrote /\ pc # "off"
    BY DEF Wrote, Writing
  <2> HIDE DEF pc
  <2> QED
    BY <2>1, <2>2, GotoStill
<1>3. CASE HendLocked(s)
  <2> DEFINE r == [shell[s] EXCEPT !.ct = @ + 1, !.pc = "read"]
  <2>1. Put(s, r) /\ UNCHANGED <<file, newfile, written, failures>>
    BY <1>3 DEF HendLocked, disk
  <2>2. r.ring = shell[s].ring /\ r.tmp = shell[s].tmp /\ r.pc = "read"
    BY <1>1 DEF Memory
  <2> HIDE DEF r
  <2> QED
    BY <2>1, <2>2, PutStill DEF Wrote, Writing
<1>4. CASE HendUnlocked(s)
  <2>1. Goto(s, "add") /\ UNCHANGED <<file, newfile, written, failures>>
    BY <1>4 DEF HendUnlocked, disk
  <2> QED
    BY <2>1, GotoStill DEF Wrote, Writing
<1>5. CASE SaveFast(s)
  <2> DEFINE r == [shell[s] EXCEPT !.ct = @ + 1, !.pc = "append",
                                   !.norewrite = shell[s].linect <= Limit]
  <2>1. Goto(s, "hend") \/ Put(s, r)
    BY <1>5, Zenon DEF SaveFast
  <2>2. r.ring = shell[s].ring /\ r.tmp = shell[s].tmp /\ r.pc = "append"
    BY <1>1 DEF Memory
  <2>3. UNCHANGED <<file, newfile, written, failures>>
    BY <1>5 DEF SaveFast, disk
  <2> HIDE DEF r
  <2>4. CASE Goto(s, "hend")
    BY <2>3, <2>4, GotoStill DEF Wrote, Writing
  <2>5. CASE Put(s, r)
    BY <2>2, <2>3, <2>5, PutStill DEF Wrote, Writing
  <2> QED
    BY <2>1, <2>4, <2>5
<1>6. CASE Exit(s)
  <2>1. PICK signalled \in BOOLEAN :
            Put(s, [shell[s] EXCEPT !.pc = "exit", !.fast = FALSE, !.norewrite = signalled])
    BY <1>6 DEF Exit
  <2> DEFINE r == [shell[s] EXCEPT !.pc = "exit", !.fast = FALSE, !.norewrite = signalled]
  <2>2. r.ring = shell[s].ring /\ r.tmp = shell[s].tmp /\ r.pc = "exit"
    BY <1>1 DEF Memory
  <2>3. Put(s, r) /\ UNCHANGED <<file, newfile, written, failures>>
    BY <1>6, <2>1 DEF Exit, disk
  <2> HIDE DEF r
  <2> QED
    BY <2>2, <2>3, PutStill DEF Wrote, Writing
<1>7. CASE LockStale(s)
  <2> DEFINE pc == IF At(s, "exit") THEN "steal_exit" ELSE "steal_start"
  <2>1. Goto(s, pc) /\ UNCHANGED <<file, newfile, written, failures>>
    BY <1>7 DEF LockStale, disk
  <2>2. pc \notin Wrote /\ pc # "off"
    BY DEF Wrote, Writing
  <2> HIDE DEF pc
  <2> QED
    BY <2>1, <2>2, GotoStill
<1>8. CASE LockSteal(s)
  <2> DEFINE pc == IF At(s, "steal_exit") THEN "exit" ELSE "start"
  <2>1. Goto(s, pc) /\ UNCHANGED <<file, newfile, written, failures>>
    BY <1>8 DEF LockSteal, disk
  <2>2. pc \notin Wrote /\ pc # "off"
    BY DEF Wrote, Writing
  <2> HIDE DEF pc
  <2> QED
    BY <2>1, <2>2, GotoStill
<1> QED
  BY <1>2, <1>3, <1>4, <1>5, <1>6, <1>7, <1>8

LEMMA ReleaseSteps ==
    ASSUME Types, Types', NEW s \in Shells, Started(s) \/ HendEnd(s) \/ ExitLock(s)
    PROVE  Still(s) /\ shell'[s].pc # "off"
<1> DEFINE x == Released(shell[s])
<1>1. shell[s] \in Memory
  BY MemoryLemma
<1>2. x \in Memory /\ x.ring = shell[s].ring /\ x.tmp = shell[s].tmp
  BY <1>1, CountLess
<1>3. UNCHANGED <<file, newfile, written, failures>>
  BY DEF Started, HendEnd, ExitLock, disk
<1>4. CASE Started(s) \/ HendEnd(s)
  <2> DEFINE r == [x EXCEPT !.pc = "idle"]
  <2>1. Put(s, r)
    BY <1>4 DEF Started, HendEnd
  <2> HIDE DEF x
  <2>2. r.ring = shell[s].ring /\ r.tmp = shell[s].tmp /\ r.pc = "idle"
    BY <1>2 DEF Memory
  <2> HIDE DEF r
  <2> QED
    BY <1>3, <2>1, <2>2, PutStill DEF Wrote, Writing
<1>5. CASE ExitLock(s)
  <2> DEFINE r == [shell[s] EXCEPT !.ct = @ + 1, !.pc = "append"]
  <2>1. Put(s, r)
    BY <1>5 DEF ExitLock
  <2>2. r.ring = shell[s].ring /\ r.tmp = shell[s].tmp /\ r.pc = "append"
    BY <1>1 DEF Memory
  <2> HIDE DEF r
  <2> QED
    BY <1>3, <2>1, <2>2, PutStill DEF Wrote, Writing
<1> QED
  BY <1>4, <1>5

\* The steps that may leave a shell off.
LEMMA LeaveSteps ==
    ASSUME Types, Types', NEW s \in Shells, Saved(s) \/ LockGivenUp(s) \/ Crash(s)
    PROVE  Still(s)
<1> DEFINE x == Released(shell[s])
           v == IF x.fast THEN [x EXCEPT !.pc = "hend"] ELSE Fresh
           g == IF At(s, "exit") THEN Fresh ELSE [shell[s] EXCEPT !.pc = "idle"]
<1>1. shell[s] \in Memory
  BY MemoryLemma
<1>2. x \in Memory /\ x.ring = shell[s].ring /\ x.tmp = shell[s].tmp
  BY <1>1, CountLess
<1>3. Fresh.ring = <<>> /\ Fresh.tmp = <<>> /\ Fresh.pc = "off"
  BY DEF Fresh
<1>4. UNCHANGED <<file, newfile, written, failures>>
  BY DEF Saved, LockGivenUp, Crash, disk
<1>5. CASE Saved(s)
  <2>1. Put(s, v)
    BY <1>5 DEF Saved
  <2> HIDE DEF x
  <2>2. \/ v.ring = shell[s].ring /\ v.tmp = shell[s].tmp /\ v.pc = "hend"
        \/ v.ring = <<>> /\ v.tmp = <<>> /\ v.pc = "off"
    BY <1>2, <1>3 DEF Memory
  <2> HIDE DEF v
  <2> QED
    BY <1>4, <2>1, <2>2, PutStill DEF Wrote, Writing
<1>6. CASE LockGivenUp(s)
  <2>1. Put(s, g)
    BY <1>6 DEF LockGivenUp
  <2>2. \/ g.ring = shell[s].ring /\ g.tmp = shell[s].tmp /\ g.pc = "idle"
        \/ g.ring = <<>> /\ g.tmp = <<>> /\ g.pc = "off"
    BY <1>1, <1>3 DEF Memory
  <2> HIDE DEF g
  <2> QED
    BY <1>4, <2>1, <2>2, PutStill DEF Wrote, Writing
<1>7. CASE Crash(s)
  <2>1. Put(s, Fresh)
    BY <1>7 DEF Crash
  <2> QED
    BY <1>3, <1>4, <2>1, PutStill DEF Wrote, Writing
<1> QED
  BY <1>5, <1>6, <1>7

\* A step that brings events of the file into the ring.
LEMMA ReadFiled ==
    ASSUME Types, Types', Filed, NEW s \in Shells, NEW r, Put(s, r),
           UNCHANGED <<file, newfile, written, failures>>,
           r.tmp = shell[s].tmp, r.pc \notin Wrote,
           \A i \in 1..Len(shell[s].ring) : r.ring[i] = shell[s].ring[i],
           \A i \in 1..Len(r.ring) : i > Len(shell[s].ring) => r.ring[i].e \in Elems(file),
           Len(r.ring) \in Nat
    PROVE  Filed' /\ shell'[s].pc = r.pc
<1>1. Alone(s) /\ shell'[s] = r
  BY PutLemma
<1>2. /\ Elems(written) \subseteq Elems(written') /\ Elems(file') \subseteq Elems(written')
      /\ newfile' # None => Elems(newfile') \subseteq Elems(written')
      /\ failures' \in Nat /\ failures' >= failures
      /\ Elems(r.tmp) \subseteq Elems(written')
  BY DEF Filed
<1>3. AllOld(r)
  BY DEF AllOld
<1>4. Marked(r, written', failures')
  <2>1. Len(shell[s].ring) \in Nat
    BY MemoryLemma DEF Memory
  <2>2. SUFFICES ASSUME failures = 0, NEW i \in 1..Len(r.ring), r.ring[i].old
                 PROVE  r.ring[i].e \in Elems(written)
    BY DEF Marked
  <2>3. CASE i > Len(shell[s].ring)
    BY <2>3 DEF Filed
  <2>4. CASE ~ (i > Len(shell[s].ring))
    <3>1. i \in 1..Len(shell[s].ring)
      BY <2>1, <2>4
    <3>2. Marked(shell[s], written, failures)
      BY DEF Filed
    <3> QED
      BY <2>2, <3>1, <3>2 DEF Marked
  <2> QED
    BY <2>3, <2>4
<1> HIDE DEF Marked, AllOld
<1> QED
  BY <1>1, <1>2, <1>3, <1>4, FiledLemma

LEMMA StartReadFiled ==
    ASSUME Types, Types', Filed, NEW s \in Shells, StartRead(s)
    PROVE  Filed' /\ shell'[s].pc # "off"
<1> DEFINE x == ReadAll(shell[s])
           r == [x EXCEPT !.ct = 1, !.pc = "started"]
           a == shell[s].ring
           b == Imported(file)
<1>1. shell[s] \in Memory /\ a \in Seq(Entry) /\ Len(a) \in Nat
  BY MemoryLemma DEF Memory
<1>2. x \in Memory /\ x.tmp = shell[s].tmp
  BY <1>1, ReadAllLemma DEF ReadOf
<1>3. file \in Seq(Event) /\ Len(file) \in Nat
  BY DEF Types
<1>4. x.ring = IF file = <<>> THEN a ELSE a \o b
  BY <1>1 DEF ReadAll, Memory
<1>5. b \in Seq(Entry) /\ Len(b) = Len(file) /\ \A i \in 1..Len(file) : b[i].e = file[i]
  BY <1>3, ImportedLemma DEF Imported
<1>6. Put(s, r) /\ UNCHANGED <<file, newfile, written, failures>>
  BY DEF StartRead, disk
<1> HIDE DEF x
<1>7. r.ring = x.ring /\ r.tmp = shell[s].tmp /\ r.pc = "started"
  BY <1>2 DEF Memory
<1> HIDE DEF r, b
<1>8. \A i \in 1..Len(a) : r.ring[i] = a[i]
  BY <1>1, <1>4, <1>5, <1>7, ConcatProperties
<1>9. \A i \in 1..Len(r.ring) : i > Len(a) => r.ring[i].e \in Elems(file)
  <2>1. CASE file = <<>>
    BY <1>1, <1>4, <1>7, <2>1
  <2>2. CASE file # <<>>
    <3>1. Len(r.ring) = Len(a) + Len(file)
          /\ \A i \in 1..(Len(a) + Len(file)) : i > Len(a) => r.ring[i] = b[i - Len(a)]
      <4>1. r.ring = a \o b
        BY <1>4, <1>7, <2>2
      <4> HIDE DEF a
      <4>2. /\ Len(a \o b) = Len(a) + Len(b)
            /\ \A i \in 1..(Len(a) + Len(b)) :
                  (a \o b)[i] = IF i <= Len(a) THEN a[i] ELSE b[i - Len(a)]
        BY <1>1, <1>5, ConcatProperties
      <4> QED
        BY <1>1, <1>3, <1>5, <4>1, <4>2
    <3>2. ASSUME NEW i \in 1..Len(r.ring), i > Len(a) PROVE r.ring[i].e \in Elems(file)
      <4>1. i - Len(a) \in 1..Len(file) /\ r.ring[i] = b[i - Len(a)]
        BY <1>1, <1>3, <3>1, <3>2
      <4> QED
        BY <1>5, <4>1 DEF Elems
    <3> QED
      BY <3>2
  <2> QED
    BY <2>1, <2>2
<1>10. Len(r.ring) \in Nat
  BY <1>2, <1>7 DEF Memory
<1> QED
  BY <1>6, <1>7, <1>8, <1>9, <1>10, ReadFiled DEF Wrote, Writing

LEMMA HendReadFiled ==
    ASSUME Types, Types', Filed, NEW s \in Shells, HendRead(s)
    PROVE  Filed' /\ shell'[s].pc # "off"
<1> DEFINE x == ReadFast(shell[s])
           r == [x EXCEPT !.pc = "add"]
<1>1. shell[s] \in Memory
  BY MemoryLemma
<1>2. x \in Memory /\ x.tmp = shell[s].tmp /\ Grown(x.ring, shell[s].ring)
  BY <1>1, ReadFastLemma DEF ReadOf
<1>3. \A i \in 1..Len(x.ring) : i > Len(shell[s].ring) => x.ring[i].e \in Elems(file)
  BY <1>1, ReadFastHas
<1>4. Put(s, r) /\ UNCHANGED <<file, newfile, written, failures>>
  BY DEF HendRead, disk
<1> HIDE DEF x
<1>5. r.ring = x.ring /\ r.tmp = shell[s].tmp /\ r.pc = "add" /\ Len(x.ring) \in Nat
  BY <1>2 DEF Memory
<1> HIDE DEF r
<1> QED
  BY <1>2, <1>3, <1>4, <1>5, ReadFiled DEF Grown, Wrote, Writing

LEMMA HendAddFiled ==
    ASSUME Types, Types', Filed, NEW s \in Shells, HendAdd(s)
    PROVE  Filed' /\ shell'[s].pc # "off"
<1> DEFINE q == [shell[s] EXCEPT !.pc = AfterAdd(shell[s]), !.fast = TRUE,
                                 !.norewrite = FALSE]
           x == [e |-> [sh |-> s, n |-> count[s] + 1, stim |-> now], old |-> FALSE]
           r == [q EXCEPT !.ring = Append(@, x)]
           a == shell[s].ring
<1>1. shell[s] \in Memory /\ a \in Seq(Entry) /\ Len(a) \in Nat
  BY MemoryLemma DEF Memory
<1>2. /\ q.pc \notin Wrote /\ q.pc # "off"
      /\ q.ring = a /\ q.tmp = shell[s].tmp
      /\ r.pc = q.pc /\ r.ring = Append(a, x) /\ r.tmp = q.tmp
  BY <1>1 DEF AfterAdd, Memory, Wrote, Writing
<1>3. UNCHANGED <<file, newfile, written, failures>> /\ (Put(s, q) \/ Put(s, r))
  BY DEF HendAdd, disk
<1>4. ~ x.old
  OBVIOUS
<1> HIDE DEF q, r, x
<1>5. CASE Put(s, q)
  BY <1>2, <1>3, <1>5, PutStill, StillFiled
<1>6. CASE Put(s, r)
  <2>1. Alone(s) /\ shell'[s] = r
    BY <1>6, PutLemma
  <2>2. /\ Elems(written) \subseteq Elems(written') /\ Elems(file') \subseteq Elems(written')
        /\ newfile' # None => Elems(newfile') \subseteq Elems(written')
        /\ failures' \in Nat /\ failures' >= failures
        /\ Elems(r.tmp) \subseteq Elems(written')
    BY <1>2, <1>3 DEF Filed
  <2>3. AllOld(r)
    BY <1>2 DEF AllOld
  <2>4. Marked(r, written', failures')
    <3>1. /\ Len(Append(a, x)) = Len(a) + 1 /\ Append(a, x)[Len(a) + 1] = x
          /\ \A i \in 1..Len(a) : Append(a, x)[i] = a[i]
      BY <1>1, AppendProperties
    <3>2. Marked(shell[s], written, failures)
      BY DEF Filed
    <3>3. SUFFICES ASSUME failures = 0, NEW i \in 1..Len(r.ring), r.ring[i].old
                   PROVE  r.ring[i].e \in Elems(written)
      BY <1>3 DEF Marked
    <3>4. i \in 1..Len(a) /\ r.ring[i] = a[i]
      BY <1>1, <1>2, <1>4, <3>1, <3>3
    <3> QED
      BY <3>2, <3>3, <3>4 DEF Marked
  <2> HIDE DEF Marked, AllOld
  <2> QED
    BY <1>2, <2>1, <2>2, <2>3, <2>4, FiledLemma
<1> QED
  BY <1>3, <1>5, <1>6

\* A rewrite leaves the ring and goes on, or ends.
LEMMA RewriteFiled ==
    ASSUME Types, Types', Filed, NEW s \in Shells, NEW r, Put(s, r),
           shell[s].pc \in Wrote, r.ring = shell[s].ring,
           failures' \in Nat, failures' >= failures, UNCHANGED written,
           Elems(file') \subseteq Elems(written),
           newfile' # None => Elems(newfile') \subseteq Elems(written),
           Elems(r.tmp) \subseteq Elems(written)
    PROVE  Filed' /\ shell'[s].pc = r.pc
<1>1. Alone(s) /\ shell'[s] = r
  BY PutLemma
<1>2. AllOld(r)
  BY DEF Filed, AllOld
<1>3. Marked(r, written', failures')
  <2>1. failures' = 0 => failures = 0
    BY DEF Filed
  <2> QED
    BY <2>1 DEF Filed, Marked
<1> HIDE DEF Marked, AllOld
<1> QED
  BY <1>1, <1>2, <1>3, FiledLemma

LEMMA RewriteSteps ==
    ASSUME Types, Types', Filed, NEW s \in Shells, Rewrite(s)
    PROVE  Filed' /\ shell'[s].pc # "off"
<1> DEFINE m == shell[s]
           T == Elems(written)
<1>1. m \in Memory
  BY MemoryLemma
<1>2. /\ failures \in Nat /\ Elems(file) \subseteq T /\ Elems(m.tmp) \subseteq T
      /\ newfile # None => Elems(newfile) \subseteq T
  BY DEF Filed
<1>3. m.pc \in Wrote
  BY DEF Rewrite, RewriteRead, RewriteOpen, RewriteWrite, RewriteRename, RewriteFails, At,
         Wrote, Writing
<1>4. Elems(<<>>) \subseteq T
  BY DEF Elems
<1> HIDE DEF T
<1>5. CASE RewriteRead(s)
  <2> DEFINE pc == IF file = <<>> THEN "saved" ELSE "rw_open"
             tmp == Last(file, SAVEHIST)
             r == [m EXCEPT !.tmp = tmp, !.pc = pc]
  <2>1. Put(s, r) /\ UNCHANGED <<file, newfile, written, failures>>
    BY <1>5 DEF RewriteRead, disk
  <2>2. Elems(tmp) \subseteq Elems(file)
    <3>1. file \in Seq(Event) /\ SAVEHIST \in Nat /\ Len(file) \in Nat
      BY HistoryAssumption DEF Types
    <3>2. /\ Len(tmp) \in Nat /\ Len(tmp) <= Len(file)
          /\ \A i \in 1..Len(tmp) : tmp[i] = file[Len(file) - Len(tmp) + i]
      BY <3>1, LastLemma
    <3> HIDE DEF tmp
    <3>3. \A i \in 1..Len(tmp) : Len(file) - Len(tmp) + i \in 1..Len(file)
      BY <3>1, <3>2
    <3> QED
      BY <3>2, <3>3 DEF Elems
  <2>3. pc # "off"
    OBVIOUS
  <2> HIDE DEF tmp, pc
  <2>4. r.ring = m.ring /\ r.tmp = tmp /\ r.pc = pc
    BY <1>1 DEF Memory
  <2> HIDE DEF r
  <2>5. Filed' /\ shell'[s].pc = r.pc
    BY <1>2, <1>3, <2>1, <2>2, <2>4, RewriteFiled DEF T
  <2> QED
    BY <2>3, <2>4, <2>5
<1>6. CASE RewriteOpen(s)
  <2> DEFINE r == [m EXCEPT !.pc = "rw_write"]
  <2>1. Put(s, r)
    BY <1>6, PutMemory DEF RewriteOpen
  <2>2. r.ring = m.ring /\ r.tmp = m.tmp /\ r.pc = "rw_write"
    BY <1>1 DEF Memory
  <2>3. \/ newfile' = <<>> /\ file' = file
        \/ file' = <<>> /\ newfile' = newfile
    BY <1>6 DEF RewriteOpen
  <2>4. UNCHANGED <<failures, written>>
    BY <1>6 DEF RewriteOpen
  <2> HIDE DEF r
  <2>5. Elems(file') \subseteq T /\ (newfile' # None => Elems(newfile') \subseteq T)
    BY <1>2, <1>4, <2>3
  <2> QED
    BY <1>2, <1>3, <2>1, <2>2, <2>4, <2>5, RewriteFiled DEF T
<1>7. CASE RewriteWrite(s)
  <2> DEFINE pc == IF HISTSAVEBYCOPY THEN "rw_rename" ELSE "saved"
             r == [m EXCEPT !.tmp = <<>>, !.pc = pc]
  <2>1. Put(s, r)
    BY <1>7 DEF RewriteWrite
  <2>2. r.ring = m.ring /\ r.tmp = <<>> /\ r.pc # "off"
    BY <1>1 DEF Memory
  <2>3. \/ newfile' = m.tmp /\ file' = file
        \/ file' = m.tmp /\ newfile' = newfile
    BY <1>7 DEF RewriteWrite
  <2>4. UNCHANGED <<failures, written>>
    BY <1>7 DEF RewriteWrite
  <2> HIDE DEF r
  <2>5. Elems(file') \subseteq T /\ (newfile' # None => Elems(newfile') \subseteq T)
    BY <1>2, <2>3
  <2>6. Filed' /\ shell'[s].pc = r.pc
    BY <1>2, <1>3, <1>4, <2>1, <2>2, <2>4, <2>5, RewriteFiled DEF T
  <2> QED
    BY <2>2, <2>6
<1>8. CASE RewriteRename(s)
  <2> DEFINE r == [m EXCEPT !.pc = "saved"]
  <2>1. Put(s, r)
    BY <1>8, PutMemory DEF RewriteRename
  <2>2. r.ring = m.ring /\ r.tmp = m.tmp /\ r.pc = "saved"
    BY <1>1 DEF Memory
  <2>3. \/ newfile' = newfile /\ file' = file
        \/ newfile # None /\ file' = newfile /\ newfile' = None
    BY <1>8 DEF RewriteRename
  <2>4. UNCHANGED <<failures, written>>
    BY <1>8 DEF RewriteRename
  <2> HIDE DEF r
  <2>5. Elems(file') \subseteq T /\ (newfile' # None => Elems(newfile') \subseteq T)
    BY <1>2, <2>3
  <2> QED
    BY <1>2, <1>3, <2>1, <2>2, <2>4, <2>5, RewriteFiled DEF T
<1>9. CASE RewriteFails(s)
  <2> DEFINE r == [m EXCEPT !.tmp = <<>>, !.pc = "saved"]
  <2>1. Put(s, r)
    BY <1>9 DEF RewriteFails
  <2>2. r.ring = m.ring /\ r.tmp = <<>> /\ r.pc = "saved"
    BY <1>1 DEF Memory
  <2>3. UNCHANGED <<file, newfile, written>> /\ failures' = failures + 1
    BY <1>9 DEF RewriteFails, disk
  <2> HIDE DEF r
  <2>4. failures' \in Nat /\ failures' >= failures
    BY <1>2, <2>3
  <2> QED
    BY <1>2, <1>3, <1>4, <2>1, <2>2, <2>3, <2>4, RewriteFiled DEF T
<1> QED
  BY <1>5, <1>6, <1>7, <1>8, <1>9 DEF Rewrite

LEMMA ElemsConcat ==
    ASSUME NEW a \in Seq(Event), NEW b \in Seq(Event)
    PROVE  Elems(a \o b) = Elems(a) \cup Elems(b)
<1>1. /\ Len(a) \in Nat /\ Len(b) \in Nat /\ Len(a \o b) = Len(a) + Len(b)
      /\ \A i \in 1..(Len(a) + Len(b)) :
            (a \o b)[i] = IF i <= Len(a) THEN a[i] ELSE b[i - Len(a)]
  BY ConcatProperties
<1>2. Elems(a \o b) \subseteq Elems(a) \cup Elems(b)
  <2>1. SUFFICES ASSUME NEW i \in 1..(Len(a) + Len(b))
                 PROVE  (a \o b)[i] \in Elems(a) \cup Elems(b)
    BY <1>1 DEF Elems
  <2>2. CASE i <= Len(a)
    <3>1. i \in 1..Len(a) /\ (a \o b)[i] = a[i]
      BY <1>1, <2>2
    <3> QED
      BY <3>1 DEF Elems
  <2>3. CASE ~ (i <= Len(a))
    <3>1. i - Len(a) \in 1..Len(b) /\ (a \o b)[i] = b[i - Len(a)]
      BY <1>1, <2>3
    <3> QED
      BY <3>1 DEF Elems
  <2> QED
    BY <2>2, <2>3
<1>3. Elems(a) \subseteq Elems(a \o b)
  <2>1. \A i \in 1..Len(a) : i \in 1..Len(a \o b) /\ (a \o b)[i] = a[i]
    BY <1>1
  <2> QED
    BY <2>1 DEF Elems
<1>4. Elems(b) \subseteq Elems(a \o b)
  <2>1. \A i \in 1..Len(b) :
            Len(a) + i \in 1..Len(a \o b) /\ (a \o b)[Len(a) + i] = b[i]
    BY <1>1
  <2> QED
    BY <2>1 DEF Elems
<1> QED
  BY <1>2, <1>3, <1>4

\* The append marks all events, and writes those that were not marked.
LEMMA SaveAppendFiled ==
    ASSUME Types, Types', Filed, NEW s \in Shells, SaveAppend(s)
    PROVE  Filed' /\ shell'[s].pc # "off"
<1> DEFINE r    == shell[s]
           es   == Unsaved(r.ring)
           old  == Imported(Events(r.ring))
           q    == [r EXCEPT !.ring = Imported(Events(@)), !.linect = @ + Len(es)]
           next == IF r.norewrite THEN "saved" ELSE "rw_read"
           p0   == [r EXCEPT !.pc = next]
           p1   == [q EXCEPT !.pc = next, !.fpos = Len(file') - 1,
                             !.stim = es[Len(es)].stim, !.text = es[Len(es)],
                             !.fsiz = Len(file'), !.mtim = now]
           p2   == [q EXCEPT !.pc = "saved",
                             !.fpos = Len(file) + Len(es) - 1,
                             !.stim = es[Len(es)].stim]
<1>1. r \in Memory /\ r.ring \in Seq(Entry) /\ Len(r.ring) \in Nat
  BY MemoryLemma DEF Memory
<1>2. /\ Len(old) = Len(r.ring)
      /\ \A i \in 1..Len(r.ring) : old[i].old /\ old[i].e = r.ring[i].e
  <2> DEFINE v == Events(r.ring)
  <2>1. v \in Seq(Event) /\ Len(v) = Len(r.ring) /\ \A i \in 1..Len(r.ring) : v[i] = r.ring[i].e
    BY <1>1, EventsLemma
  <2> HIDE DEF v
  <2>2. Len(Imported(v)) = Len(v) /\ \A i \in 1..Len(v) : Imported(v)[i].old /\ Imported(v)[i].e = v[i]
    BY <2>1, ImportedLemma DEF Imported
  <2> QED
    BY <2>1, <2>2 DEF v
<1>3. /\ es \in Seq(Event)
      /\ \A i \in 1..Len(r.ring) : ~r.ring[i].old => r.ring[i].e \in Elems(es)
  BY <1>1, UnsavedLemma
<1>4. file \in Seq(Event) /\ written \in Seq(Event)
  BY DEF Types
<1>5. /\ failures \in Nat /\ Elems(file) \subseteq Elems(written)
      /\ newfile # None => Elems(newfile) \subseteq Elems(written)
      /\ Elems(r.tmp) \subseteq Elems(written)
      /\ failures = 0 => \A i \in 1..Len(r.ring) :
                             r.ring[i].old => r.ring[i].e \in Elems(written)
  BY DEF Filed, Marked
<1>6. q \in Memory /\ q.ring = old /\ q.tmp = r.tmp
  <2>1. q \in Memory
    BY AppendLemma DEF SaveAppend
  <2> QED
    BY <1>1, <2>1 DEF Memory
<1>7. /\ p0.ring = r.ring /\ p0.tmp = r.tmp /\ p0.pc # "off"
      /\ p1.ring = old /\ p1.tmp = r.tmp /\ p1.pc # "off"
      /\ p2.ring = old /\ p2.tmp = r.tmp /\ p2.pc # "off"
  <2>1. p0.ring = r.ring /\ p0.tmp = r.tmp /\ p0.pc # "off"
    BY <1>1 DEF Memory
  <2> HIDE DEF q, es, old
  <2>2. p1.ring = old /\ p1.tmp = r.tmp /\ p1.pc # "off"
    BY <1>6 DEF Memory
  <2>3. p2.ring = old /\ p2.tmp = r.tmp /\ p2.pc # "off"
    BY <1>6 DEF Memory
  <2> QED
    BY <2>1, <2>2, <2>3
<1>8. \/ es = <<>> /\ Put(s, p0) /\ UNCHANGED <<file, newfile, written, failures>>
      \/ /\ file' = file \o es /\ written' = written \o es
         /\ Put(s, p1) /\ UNCHANGED <<newfile, failures>>
      \/ Put(s, p2) /\ UNCHANGED <<file, newfile, written>> /\ failures' = failures + 1
  BY PutMemory DEF SaveAppend, disk
<1> HIDE DEF p0, p1, p2, q, old, es
<1>9. CASE es = <<>> /\ Put(s, p0) /\ UNCHANGED <<file, newfile, written, failures>>
  <2>1. Alone(s) /\ shell'[s] = p0
    BY <1>9, PutLemma
  <2>2. Elems(es) = {}
    BY <1>9 DEF Elems
  <2>3. AllOld(p0)
    BY <1>3, <1>7, <2>2 DEF AllOld
  <2>4. Marked(p0, written', failures')
    BY <1>5, <1>7, <1>9 DEF Marked
  <2> HIDE DEF AllOld, Marked
  <2> QED
    BY <1>5, <1>7, <1>9, <2>1, <2>3, <2>4, FiledLemma
<1>10. CASE /\ file' = file \o es /\ written' = written \o es
            /\ Put(s, p1) /\ UNCHANGED <<newfile, failures>>
  <2>1. Alone(s) /\ shell'[s] = p1
    BY <1>10, PutLemma
  <2>2. /\ Elems(file') = Elems(file) \cup Elems(es)
        /\ Elems(written') = Elems(written) \cup Elems(es)
    BY <1>3, <1>4, <1>10, ElemsConcat
  <2>3. AllOld(p1)
    BY <1>2, <1>7 DEF AllOld
  <2>4. Marked(p1, written', failures')
    <3>1. SUFFICES ASSUME failures = 0, NEW i \in 1..Len(r.ring)
                   PROVE  old[i].e \in Elems(written')
      BY <1>2, <1>7, <1>10 DEF Marked
    <3> QED
      BY <1>2, <1>3, <1>5, <2>2, <3>1
  <2> HIDE DEF AllOld, Marked
  <2> QED
    BY <1>5, <1>7, <1>10, <2>1, <2>2, <2>3, <2>4, FiledLemma
<1>11. CASE Put(s, p2) /\ UNCHANGED <<file, newfile, written>> /\ failures' = failures + 1
  <2>1. Alone(s) /\ shell'[s] = p2
    BY <1>11, PutLemma
  <2>2. AllOld(p2)
    BY <1>2, <1>7 DEF AllOld
  <2>3. failures' \in Nat /\ failures' >= failures /\ failures' # 0
    BY <1>5, <1>11
  <2>4. Marked(p2, written', failures')
    BY <2>3 DEF Marked
  <2> HIDE DEF AllOld, Marked
  <2> QED
    BY <1>5, <1>7, <1>11, <2>1, <2>2, <2>3, <2>4, FiledLemma
<1> QED
  BY <1>8, <1>9, <1>10, <1>11

LEMMA NextFiled == Types /\ Types' /\ Filed /\ [Next]_vars => Filed'
<1> SUFFICES ASSUME Types, Types', Filed, [Next]_vars PROVE Filed'
  OBVIOUS
<1>1. ASSUME NEW s \in Shells, Begin(s) PROVE Filed'
  BY <1>1, StillSteps, ReleaseSteps, StartReadFiled, StillFiled DEF Begin
<1>2. ASSUME NEW s \in Shells, Hend(s) PROVE Filed'
  BY <1>2, StillSteps, HendReadFiled, HendAddFiled, StillFiled DEF Hend
<1>3. ASSUME NEW s \in Shells, Save(s) PROVE Filed'
  BY <1>3, StillSteps, ReleaseSteps, LeaveSteps, SaveAppendFiled, RewriteSteps, StillFiled DEF Save
<1>4. ASSUME NEW s \in Shells, Exit(s) \/ Lock(s) \/ Crash(s) PROVE Filed'
  BY <1>4, StillSteps, ReleaseSteps, LeaveSteps, StillFiled DEF Lock
<1>5. CASE Tick \/ UNCHANGED vars
  BY <1>5 DEF Tick, vars, disk, Filed, AllOld, Marked
<1> QED
  BY <1>1, <1>2, <1>3, <1>4, <1>5 DEF Next

LEMMA InitFiled == Init => Filed
  BY DEF Init, Filed, Fresh, AllOld, Marked, Elems, Wrote, Writing

\* Deaths are counted.
Counted == crashes \in Nat

LEMMA NextCounted == Counted /\ [Next]_vars => Counted'
<1> SUFFICES ASSUME crashes \in Nat, [Next]_vars PROVE crashes' \in Nat
  BY DEF Counted
<1>1. ASSUME NEW s \in Shells, Begin(s) \/ Hend(s) \/ Exit(s) \/ Lock(s) PROVE crashes' = crashes
  BY <1>1 DEF Begin, Hend, Lock, Start, StartRead, Started, HendLocked, HendUnlocked, HendRead,
         HendAdd, Exit, ExitLock, LockGivenUp, LockStale, LockSteal, bounds
<1>2. ASSUME NEW s \in Shells, Save(s) PROVE crashes' = crashes
  BY <1>2 DEF Save, Rewrite, SaveFast, SaveAppend, RewriteRead, RewriteOpen, RewriteWrite,
         RewriteRename, RewriteFails, Saved, HendEnd, bounds
<1>3. ASSUME NEW s \in Shells, Crash(s) PROVE crashes' = crashes + 1
  BY <1>3 DEF Crash
<1>4. CASE Tick \/ UNCHANGED vars
  BY <1>4 DEF Tick, vars
<1> QED
  BY <1>1, <1>2, <1>3, <1>4 DEF Next

\* A shell that ends has come from the unlock of its last save, or has given
\* up a lock that is held.
LEMMA ExitStepSaved ==
    ASSUME Types, Types', Filed, Counted, [Next]_vars, NEW s \in Shells,
           Running(s), ~Running(s)', crashes' = crashes
    PROVE  Saved(s) \/ LockGivenUp(s)
<1>1. shell[s].pc # "off" /\ shell'[s].pc = "off"
  BY DEF Running, At
<1>2. ~ Tick /\ ~ UNCHANGED vars
  BY <1>1 DEF Tick, vars
<1>3. PICK t \in Shells :
          Begin(t) \/ Hend(t) \/ Save(t) \/ Exit(t) \/ Lock(t) \/ Crash(t)
  BY <1>2 DEF Next
<1>4. t = s
  <2>1. Alone(t)
    BY <1>3, OneMoves
  <2> QED
    BY <1>1, <2>1 DEF Alone
<1>5. ~ Begin(s)
  BY <1>1, StillSteps, ReleaseSteps, StartReadFiled DEF Begin
<1>6. ~ Hend(s)
  BY <1>1, StillSteps, HendReadFiled, HendAddFiled DEF Hend
<1>7. ~ Exit(s) /\ (Lock(s) => LockGivenUp(s))
  BY <1>1, StillSteps, ReleaseSteps DEF Lock
<1>8. Save(s) => Saved(s)
  BY <1>1, StillSteps, ReleaseSteps, SaveAppendFiled, RewriteSteps DEF Save
<1>9. ~ Crash(s)
  BY DEF Crash, Counted
<1> QED
  BY <1>3, <1>4, <1>5, <1>6, <1>7, <1>8, <1>9

LEMMA ExitSavesStep ==
    ASSUME Types, Types', Filed, Counted, [Next]_vars, NEW s \in Shells,
           Running(s), ~Running(s)', crashes' = crashes
    PROVE  \/ failures > 0
           \/ Monotonic /\ LockFails(shell[s])
           \/ InRing(s) \subseteq Elems(written)
<1> DEFINE ring == shell[s].ring
<1>0. LockGivenUp(s) => Monotonic /\ LockFails(shell[s])
  BY DEF LockGivenUp, Waiting
<1>1. SUFFICES ASSUME shell[s].pc = "saved"
               PROVE  failures > 0 \/ InRing(s) \subseteq Elems(written)
  BY <1>0, ExitStepSaved DEF Saved, At
<1>2. ring \in Seq(Entry)
  BY MemoryLemma DEF Memory
<1>3. \A i \in 1..Len(ring) : ring[i].old
  BY <1>1 DEF Filed, AllOld, Wrote, Writing
<1>4. failures \in Nat /\ (failures = 0 => \A i \in 1..Len(ring) : ring[i].e \in Elems(written))
  BY <1>3 DEF Filed, Marked
<1>5. InRing(s) = Elems(Events(ring))
  BY DEF InRing
<1> HIDE DEF ring
<1>6. ASSUME NEW e \in InRing(s), failures = 0 PROVE e \in Elems(written)
  <2>1. Has(ring, e)
    BY <1>2, <1>5, <1>6, HasIs
  <2> QED
    BY <1>4, <1>6, <2>1 DEF Has
<1> QED
  BY <1>4, <1>6

\* A shell that exits leaves none of its events behind: all of them have been
\* written, unless a write failed (zexit(), savehistfile()), whatever the other
\* shells do meanwhile.  With a monotonic clock there is one more exception: at
\* the step of its end the lock file of another shell, alive or not, is there.
THEOREM ExitsSave == Spec => ExitSaves
<1>1. Types /\ Types' /\ Filed /\ Counted /\ [Next]_vars
        => [\A s \in Shells :
               Running(s) /\ ~Running(s)' /\ crashes' = crashes =>
                  \/ failures > 0
                  \/ Monotonic /\ LockFails(shell[s])
                  \/ InRing(s) \subseteq Elems(written)]_vars
  BY ExitSavesStep
<1>2. Init => Counted
  BY DEF Init, Counted
<1> QED
  BY <1>1, <1>2, InitFiled, NextFiled, NextCounted, Typed, PTL DEF Spec, ExitSaves

=============================================================================
