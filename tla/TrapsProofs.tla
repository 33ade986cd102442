---------------------------- MODULE TrapsProofs ----------------------------
(***************************************************************************)
(* Proofs about Traps: the tables agree, saved traps belong to functions   *)
(* that run, and a function gives back the traps it found.                 *)
(*                                                                         *)
(* The invariant IInv says of the traps, as one value, that they are Good: *)
(* the tables agree for each signal, and agreed when a trap was saved      *)
(* (Tables); saved traps lie in the order of their levels (Scoped); and    *)
(* what took the place of a saved trap, whether it is in force or was      *)
(* saved in its turn, belongs to that level or one further inside (Later). *)
(* Later is why the loop of endtrapscope() ends with the traps of the      *)
(* outer levels alone: putting a trap back goes through removetrap(),      *)
(* which saves the trap in force if it is older than the level; by Later   *)
(* it is not, so that every turn takes one entry off savetraps and adds    *)
(* none, and what it puts back is again no older than what is saved below. *)
(* A step changes one signal at a time: Differs and the three lemmas after *)
(* it say what has to be shown of that signal.                             *)
(*                                                                         *)
(* The invariant TInv says of each function that runs what its return puts *)
(* back: for a signal, the entry of savetraps at the function's level or   *)
(* further inside that was saved first, or the trap in force if there is   *)
(* none, is what the function found (Back).  It holds because such an      *)
(* entry is made before the first change (Alters), and only the return     *)
(* takes it off (Restored).  A trap on EXIT needs more: the function's own *)
(* EXIT trap is cleared on return (Cleared, Exit), and a POSIX one is not  *)
(* put back (Plain).  While the trap of a signal runs it is ignored, and   *)
(* nothing but its end changes that (Untouched).                           *)
(***************************************************************************)
EXTENDS Traps, FiniteSetTheorems, SequenceTheorems, WellFoundedInduction, TLAPS

-----------------------------------------------------------------------------
(* The traps as one value.                                                 *)

Funcs == Bodies \cup {"none"}
Saved == [sig : AllSigs, was : Trapped, local : 1 .. MaxLevel, list : Lists, posix : BOOLEAN]
TrapsRecord ==
    [trapped : [AllSigs -> Trapped], lists : [AllSigs -> Lists], funcs : [AllSigs -> Funcs],
     saved : Seq(Saved), posix : BOOLEAN, n : Int]

\* The tables agree on the signal s, and a trap is counted if it has a body.
SigOK(t, s) ==
    LET flags == t.trapped[s].flags
    IN  /\ "FUNC" \in flags <=> t.funcs[s] # "none"
        /\ t.lists[s] # "none" <=> t.trapped[s] # Zero /\ "FUNC" \notin flags
        /\ "TRAPPED" \in flags <=> "FUNC" \in flags \/ t.lists[s] \in Bodies

\* They agreed when st was saved.
SavedOK(st) ==
    /\ st.was = Zero <=> st.list = "none"
    /\ "FUNC" \in st.was.flags => st.list \in Bodies
    /\ "TRAPPED" \in st.was.flags <=> "FUNC" \in st.was.flags \/ st.list \in Bodies

Counting(f) == {s \in AllSigs : "TRAPPED" \in f[s].flags}

Tables(t) ==
    /\ t \in TrapsRecord
    /\ \A s \in AllSigs : SigOK(t, s)
    /\ \A i \in 1 .. Len(t.saved) : SavedOK(t.saved[i])
    /\ t.n = Cardinality(Counting(t.trapped))

\* Saved traps belong to levels up to lev, the innermost in front.
Scoped(t, lev) ==
    \A i \in 1 .. Len(t.saved) :
        /\ t.saved[i].local <= lev
        /\ \A k \in 1 .. (i - 1) : t.saved[k].local >= t.saved[i].local

\* The trap v took the place of what st has saved, at its level or further
\* inside; a POSIX trap on EXIT has no level.
Replaced(v, posix, st) == v = Zero \/ v.level >= st.local \/ (st.sig = "EXIT" /\ posix)

Later(t) ==
    \A i \in 1 .. Len(t.saved) :
        /\ Replaced(t.trapped[t.saved[i].sig], t.posix, t.saved[i])
        /\ \A k \in 1 .. (i - 1) :
              t.saved[k].sig = t.saved[i].sig
                  => Replaced(t.saved[k].was, t.saved[k].posix, t.saved[i])

Good(t, lev) == Tables(t) /\ Scoped(t, lev) /\ Later(t)

-----------------------------------------------------------------------------
(* Traps and r are alike but for the signal sig.                           *)

Differs(t, r, sig) ==
    /\ r \in TrapsRecord
    /\ r.saved = t.saved
    /\ \A s \in AllSigs \ {sig} :
          /\ r.trapped[s] = t.trapped[s]
          /\ r.lists[s] = t.lists[s]
          /\ r.funcs[s] = t.funcs[s]
    /\ sig # "EXIT" => r.posix = t.posix

Counts(v) == IF "TRAPPED" \in v.flags THEN 1 ELSE 0

LEMMA AllSigsFinite == IsFiniteSet(AllSigs)
BY TrapsAssumption, FS_AddElement DEF AllSigs

\* The number of traps when that of one signal changes.
LEMMA Recount ==
    ASSUME NEW f \in [AllSigs -> Trapped], NEW g \in [AllSigs -> Trapped], NEW sig \in AllSigs,
           \A s \in AllSigs \ {sig} : g[s] = f[s]
    PROVE  /\ Cardinality(Counting(g)) \in Nat
           /\ Cardinality(Counting(g))
                = Cardinality(Counting(f)) - Counts(f[sig]) + Counts(g[sig])
<1> DEFINE R == {s \in AllSigs \ {sig} : "TRAPPED" \in f[s].flags}
<1>1. IsFiniteSet(R) /\ sig \notin R /\ Cardinality(R) \in Nat
  BY AllSigsFinite, FS_Subset, FS_CardinalityType
<1>2. Counting(f) = IF "TRAPPED" \in f[sig].flags THEN R \cup {sig} ELSE R
  BY DEF Counting
<1>3. Counting(g) = IF "TRAPPED" \in g[sig].flags THEN R \cup {sig} ELSE R
  BY DEF Counting
<1> HIDE DEF R
<1>4. Cardinality(R \cup {sig}) = Cardinality(R) + 1
  BY <1>1, FS_AddElement
<1> QED
  BY <1>1, <1>2, <1>3, <1>4 DEF Counts

\* The tables still agree if they do on the signal that has changed.
LEMMA DiffersTables ==
    ASSUME NEW t, NEW r, NEW sig \in AllSigs, Tables(t), Differs(t, r, sig), SigOK(r, sig),
           r.n = t.n - Counts(t.trapped[sig]) + Counts(r.trapped[sig])
    PROVE  Tables(r)
<1>1. r.n = Cardinality(Counting(r.trapped))
  <2>1. t.trapped \in [AllSigs -> Trapped] /\ r.trapped \in [AllSigs -> Trapped]
    BY DEF Tables, Differs, TrapsRecord
  <2>2. \A s \in AllSigs \ {sig} : r.trapped[s] = t.trapped[s]
    BY DEF Differs
  <2>3. Cardinality(Counting(r.trapped))
          = Cardinality(Counting(t.trapped)) - Counts(t.trapped[sig]) + Counts(r.trapped[sig])
    BY <2>1, <2>2, Recount
  <2> QED
    BY <2>3 DEF Tables
<1>2. \A s \in AllSigs : SigOK(r, s)
  <2>1. ASSUME NEW s \in AllSigs, s # sig PROVE SigOK(r, s)
    <3>1. r.trapped[s] = t.trapped[s] /\ r.lists[s] = t.lists[s] /\ r.funcs[s] = t.funcs[s]
      BY <2>1 DEF Differs
    <3> QED
      BY <3>1 DEF Tables, SigOK
  <2> QED
    BY <2>1
<1>3. r \in TrapsRecord /\ r.saved = t.saved
  BY DEF Differs
<1> QED
  BY <1>1, <1>2, <1>3 DEF Tables

\* A trap that is gone, or new at an inner level, is later than what was saved.
LEMMA DiffersLater ==
    ASSUME NEW t, NEW r, NEW sig \in AllSigs, Later(t), Differs(t, r, sig), t \in TrapsRecord,
           \A i \in 1 .. Len(t.saved) :
               t.saved[i].sig = sig => Replaced(r.trapped[sig], r.posix, t.saved[i])
    PROVE  Later(r)
<1>1. r.saved = t.saved
  BY DEF Differs
<1>2. SUFFICES ASSUME NEW i \in 1 .. Len(t.saved)
               PROVE  Replaced(r.trapped[t.saved[i].sig], r.posix, t.saved[i])
  BY <1>1 DEF Later
<1>3. CASE t.saved[i].sig = sig
  BY <1>3
<1>4. CASE t.saved[i].sig # sig
  <2>1. t.saved[i] \in Saved
    BY DEF TrapsRecord
  <2>2. t.saved[i].sig \in AllSigs \ {sig}
    BY <1>4, <2>1 DEF Saved
  <2>3. r.trapped[t.saved[i].sig] = t.trapped[t.saved[i].sig]
    BY <2>2 DEF Differs
  <2>4. Replaced(t.trapped[t.saved[i].sig], t.posix, t.saved[i])
    BY DEF Later
  <2>5. t.saved[i].sig = "EXIT" => r.posix = t.posix
    BY <1>4 DEF Differs
  <2> QED
    BY <2>3, <2>4, <2>5 DEF Replaced
<1> QED
  BY <1>3, <1>4

\* The entries are those there were.
LEMMA DiffersScoped ==
    ASSUME NEW t, NEW r, NEW sig, NEW lev, Scoped(t, lev), Differs(t, r, sig)
    PROVE  Scoped(r, lev)
BY DEF Scoped, Differs

-----------------------------------------------------------------------------
(* The operations.                                                         *)

LEMMA ZeroIs == Zero \in Trapped /\ Zero.flags = {} /\ Counts(Zero) = 0 /\ Zero.level = 0
BY TrapsAssumption DEF Zero, Trapped, Counts

LEMMA ClearIs ==
    ASSUME NEW t \in TrapsRecord, NEW sig \in AllSigs
    PROVE  LET r == Clear(t, sig)
               func == "FUNC" \in t.trapped[sig].flags
           IN  /\ Differs(t, r, sig)
               /\ r.trapped[sig] = Zero
               /\ r.funcs[sig] = IF func THEN "none" ELSE t.funcs[sig]
               /\ r.lists[sig] = IF func THEN t.lists[sig] ELSE "none"
               /\ r.posix = (t.posix /\ sig # "EXIT")
               /\ r.n = t.n - Counts(t.trapped[sig])
<1> DEFINE r == Clear(t, sig)
           func == "FUNC" \in t.trapped[sig].flags
           f == IF func THEN "none" ELSE t.funcs[sig]
           l == IF func THEN t.lists[sig] ELSE "none"
           n == IF "TRAPPED" \in t.trapped[sig].flags THEN t.n - 1 ELSE t.n
           posix == t.posix /\ sig # "EXIT"
<1>1. t.n \in Int /\ t.funcs \in [AllSigs -> Funcs] /\ t.lists \in [AllSigs -> Lists]
      /\ t.trapped \in [AllSigs -> Trapped]
      /\ t.saved \in Seq(Saved) /\ t.posix \in BOOLEAN
  BY DEF TrapsRecord
<1>2. f \in Funcs /\ l \in Lists /\ Zero \in Trapped
  BY <1>1, ZeroIs DEF Funcs, Lists
<1> DEFINE q == [trapped |-> [t.trapped EXCEPT ![sig] = Zero], lists |-> [t.lists EXCEPT ![sig] = l],
                 funcs |-> [t.funcs EXCEPT ![sig] = f], saved |-> t.saved,
                 posix |-> posix, n |-> n]
<1>3. r = q
  <2>1. r = [t EXCEPT !.n = IF "TRAPPED" \in t.trapped[sig].flags THEN @ - 1 ELSE @,
                      !.trapped[sig] = Zero,
                      !.posix = @ /\ sig # "EXIT",
                      !.funcs[sig] = IF func THEN "none" ELSE @,
                      !.lists[sig] = IF func THEN @ ELSE "none"]
    BY DEF Clear
  <2>2. r = [t EXCEPT !.n = n, !.trapped[sig] = Zero, !.posix = posix, !.funcs[sig] = f,
                      !.lists[sig] = l]
    BY <1>1, <2>1 DEF TrapsRecord
  <2> HIDE DEF n, posix, f, l
  <2> QED
    BY <1>1, <2>2 DEF TrapsRecord
<1>4. q \in TrapsRecord
  <2>1. n \in Int /\ posix \in BOOLEAN
    BY <1>1
  <2> HIDE DEF f, l, n, posix
  <2> QED
    BY <1>1, <1>2, <2>1 DEF TrapsRecord
<1>5. /\ q.saved = t.saved /\ q.trapped[sig] = Zero /\ q.funcs[sig] = f /\ q.lists[sig] = l
      /\ q.posix = posix /\ q.n = n
      /\ \A s \in AllSigs \ {sig} :
          /\ q.trapped[s] = t.trapped[s]
          /\ q.lists[s] = t.lists[s]
          /\ q.funcs[s] = t.funcs[s]
  <2> HIDE DEF f, l, n, posix
  <2> QED
    BY <1>1
<1>6. sig # "EXIT" => q.posix = t.posix
  BY <1>1, <1>5
<1>7. n = t.n - Counts(t.trapped[sig])
  BY <1>1 DEF Counts
<1> HIDE DEF q, n
<1> QED
  BY <1>3, <1>4, <1>5, <1>6, <1>7 DEF Differs

\* What settrap() makes of the traps t.
Ignored(func, l) == ~func /\ l = "empty"
PosixNow(opts, sig, posix) == IF sig = "EXIT" THEN "POSIXTRAPS" \in opts ELSE posix

IsSet(t, opts, sig, l, func, lev, r) ==
    /\ Differs(t, r, sig)
    /\ r.funcs = t.funcs
    /\ r.lists[sig] = l
    /\ r.trapped[sig].flags = (IF Ignored(func, l) THEN {"IGNORED"} ELSE {"TRAPPED"})
                                  \cup (IF func THEN {"FUNC"} ELSE {})
    /\ r.trapped[sig].level = IF sig = "EXIT" /\ "POSIXTRAPS" \in opts THEN 0 ELSE lev
    /\ r.posix = PosixNow(opts, sig, t.posix)
    /\ r.n = IF Ignored(func, l) THEN t.n ELSE t.n + 1

LEMMA SetIs ==
    ASSUME NEW t \in TrapsRecord, NEW opts, NEW sig \in AllSigs, NEW l \in Lists,
           NEW func \in BOOLEAN, NEW lev \in 0 .. MaxLevel
    PROVE  IsSet(t, opts, sig, l, func, lev, Set(t, opts, sig, l, func, lev))
<1> DEFINE r == Set(t, opts, sig, l, func, lev)
           ignored == Ignored(func, l)
           flags == (IF ignored THEN {"IGNORED"} ELSE {"TRAPPED"})
                        \cup (IF func THEN {"FUNC"} ELSE {})
           level == IF sig = "EXIT" /\ "POSIXTRAPS" \in opts THEN 0 ELSE lev
           v == [flags |-> flags, level |-> level]
           posix == PosixNow(opts, sig, t.posix)
           n == IF ignored THEN t.n ELSE t.n + 1
           q == [trapped |-> [t.trapped EXCEPT ![sig] = v], lists |-> [t.lists EXCEPT ![sig] = l],
                 funcs |-> t.funcs, saved |-> t.saved, posix |-> posix, n |-> n]
<1>1. t.n \in Int /\ t.funcs \in [AllSigs -> Funcs] /\ t.lists \in [AllSigs -> Lists]
      /\ t.trapped \in [AllSigs -> Trapped]
      /\ t.saved \in Seq(Saved) /\ t.posix \in BOOLEAN
  BY DEF TrapsRecord
<1>2. r = q
  <2> HIDE DEF flags, level, ignored
  <2>1. r = [t EXCEPT !.lists[sig] = l, !.n = IF ignored THEN @ ELSE @ + 1,
                      !.trapped[sig] = [flags |-> flags, level |-> level],
                      !.posix = IF sig = "EXIT" THEN "POSIXTRAPS" \in opts ELSE @]
    BY DEF Set, flags, level, ignored, Ignored
  <2>2. r = [t EXCEPT !.lists[sig] = l, !.n = n, !.trapped[sig] = v, !.posix = posix]
    BY <1>1, <2>1 DEF TrapsRecord, PosixNow
  <2> HIDE DEF n, v, posix
  <2> QED
    BY <1>1, <2>2 DEF TrapsRecord
<1>3. v \in Trapped /\ n \in Int /\ posix \in BOOLEAN
  <2>1. flags \in SUBSET Flags
    BY DEF Flags
  <2>2. level \in 0 .. MaxLevel
    BY TrapsAssumption
  <2>3. n \in Int
    BY <1>1
  <2>4. posix \in BOOLEAN
    <3>1. ("POSIXTRAPS" \in opts) \in BOOLEAN
      OBVIOUS
    <3>2. CASE sig = "EXIT"
      BY <3>1, <3>2, Zenon DEF PosixNow
    <3>3. CASE sig # "EXIT"
      BY <1>1, <3>3, Zenon DEF PosixNow
    <3> QED
      BY <3>2, <3>3
  <2> HIDE DEF flags, level
  <2> QED
    BY <2>1, <2>2, <2>3, <2>4 DEF Trapped
<1>4. v.flags = flags /\ v.level = level
  OBVIOUS
<1> HIDE DEF v, n, posix
<1>5. q \in TrapsRecord
  BY <1>1, <1>3 DEF TrapsRecord
<1>6. /\ q.saved = t.saved /\ q.trapped[sig] = v /\ q.funcs = t.funcs /\ q.lists[sig] = l
      /\ q.posix = posix /\ q.n = n
      /\ \A s \in AllSigs \ {sig} :
          /\ q.trapped[s] = t.trapped[s]
          /\ q.lists[s] = t.lists[s]
          /\ q.funcs[s] = t.funcs[s]
  BY <1>1
<1>7. sig # "EXIT" => q.posix = t.posix
  BY <1>6 DEF posix, PosixNow
<1> HIDE DEF q
<1>8. Differs(t, q, sig)
  BY <1>5, <1>6, <1>7 DEF Differs
<1> QED
  BY <1>2, <1>4, <1>6, <1>8 DEF n, posix, IsSet

\* An entry enters in front of the others.
Entry(t, sig, lev) ==
    [sig |-> sig, was |-> t.trapped[sig], local |-> lev,
     list |-> IF "FUNC" \in t.trapped[sig].flags THEN t.funcs[sig] ELSE t.lists[sig],
     posix |-> sig = "EXIT" /\ t.posix]

LEMMA EntryIs ==
    ASSUME NEW t \in TrapsRecord, NEW sig \in AllSigs, NEW lev \in 1 .. MaxLevel
    PROVE  LET st == Entry(t, sig, lev)
           IN  /\ st \in Saved
               /\ SigOK(t, sig) => SavedOK(st)
<1> DEFINE list == IF "FUNC" \in t.trapped[sig].flags THEN t.funcs[sig] ELSE t.lists[sig]
           posix == sig = "EXIT" /\ t.posix
<1>1. list \in Lists /\ posix \in BOOLEAN /\ t.trapped[sig] \in Trapped
  BY DEF TrapsRecord, Funcs, Lists
<1>2. Entry(t, sig, lev) = [sig |-> sig, was |-> t.trapped[sig], local |-> lev, list |-> list,
                            posix |-> posix]
  BY DEF Entry
<1>3. SigOK(t, sig) => /\ t.trapped[sig] = Zero <=> list = "none"
                       /\ "FUNC" \in t.trapped[sig].flags => list \in Bodies
                       /\ "TRAPPED" \in t.trapped[sig].flags
                            <=> "FUNC" \in t.trapped[sig].flags \/ list \in Bodies
  BY ZeroIs, TrapsAssumption DEF SigOK, TrapsRecord, Funcs, Lists
<1> HIDE DEF list, posix
<1> QED
  BY <1>1, <1>2, <1>3 DEF Saved, SavedOK

LEMMA dosavetrapIs ==
    ASSUME NEW t \in TrapsRecord, NEW sig \in AllSigs, NEW lev \in 1 .. MaxLevel
    PROVE  LET r == dosavetrap(t, sig, lev)
           IN  /\ r \in TrapsRecord
               /\ r.trapped = t.trapped /\ r.lists = t.lists /\ r.funcs = t.funcs
               /\ r.posix = t.posix /\ r.n = t.n
               /\ Len(r.saved) = Len(t.saved) + 1
               /\ r.saved[1] = Entry(t, sig, lev)
               /\ \A i \in 1 .. Len(t.saved) : r.saved[i + 1] = t.saved[i]
<1> DEFINE r == dosavetrap(t, sig, lev)
           st == Entry(t, sig, lev)
           q == <<st>> \o t.saved
<1>1. r = [t EXCEPT !.saved = <<Entry(t, sig, lev)>> \o @]
  BY DEF dosavetrap, Entry
<1>2. st \in Saved /\ t.saved \in Seq(Saved)
  BY EntryIs DEF TrapsRecord
<1> HIDE DEF st
<1>3. /\ q \in Seq(Saved) /\ Len(q) = Len(t.saved) + 1 /\ q[1] = st
      /\ \A i \in 1 .. Len(t.saved) : q[i + 1] = t.saved[i]
  BY <1>2
<1>4. r = [t EXCEPT !.saved = q]
  BY <1>1 DEF st, TrapsRecord
<1> HIDE DEF q, r
<1>5. /\ r \in TrapsRecord
      /\ r.trapped = t.trapped /\ r.lists = t.lists /\ r.funcs = t.funcs
      /\ r.posix = t.posix /\ r.n = t.n /\ r.saved = q
  BY <1>3, <1>4 DEF TrapsRecord
<1> QED
  BY <1>3, <1>5 DEF r, st

\* Saving a trap of the level lev that is then removed.
LEMMA SaveGood ==
    ASSUME NEW t, NEW sig \in AllSigs, NEW lev \in 1 .. MaxLevel, Good(t, lev),
           NEW r, Differs(dosavetrap(t, sig, lev), r, sig), r.trapped[sig] = Zero
    PROVE  Scoped(r, lev) /\ Later(r)
<1> DEFINE a == dosavetrap(t, sig, lev)
           n == Len(t.saved)
           st == Entry(t, sig, lev)
<1>0. t \in TrapsRecord /\ lev \in Nat
  BY TrapsAssumption DEF Good, Tables
<1>1. /\ a \in TrapsRecord
      /\ a.trapped = t.trapped /\ a.lists = t.lists /\ a.funcs = t.funcs
      /\ a.posix = t.posix /\ a.n = t.n
      /\ Len(a.saved) = n + 1 /\ a.saved[1] = st
      /\ \A i \in 1 .. n : a.saved[i + 1] = t.saved[i]
  BY <1>0, dosavetrapIs
<1>2. st \in Saved /\ st.local = lev /\ st.sig = sig /\ st.was = t.trapped[sig]
      /\ st.posix = (sig = "EXIT" /\ t.posix)
  BY <1>0, EntryIs DEF Entry
<1>3. n \in Nat /\ \A i \in 1 .. n : t.saved[i] \in Saved /\ t.saved[i].local \in Nat
  <2>1. t.saved \in Seq(Saved)
    BY <1>0 DEF TrapsRecord
  <2>2. n \in Nat /\ \A i \in 1 .. n : t.saved[i] \in Saved
    BY <2>1
  <2>3. \A e \in Saved : e.local \in Nat
    BY TrapsAssumption DEF Saved
  <2> QED
    BY <2>2, <2>3
<1> HIDE DEF a, n, st
<1>4. r.saved = a.saved /\ Len(r.saved) = n + 1 /\ r.saved[1] = st
      /\ \A i \in 2 .. (n + 1) : i - 1 \in 1 .. n /\ r.saved[i] = t.saved[i - 1]
  <2>1. r.saved = a.saved
    BY DEF Differs, a
  <2>2. ASSUME NEW i \in 2 .. (n + 1)
        PROVE  i - 1 \in 1 .. n /\ a.saved[i] = t.saved[i - 1]
    <3>1. i - 1 \in 1 .. n /\ (i - 1) + 1 = i
      BY <1>3
    <3>2. a.saved[(i - 1) + 1] = t.saved[i - 1]
      BY <1>1, <3>1, Zenon
    <3> QED
      BY <3>1, <3>2
  <2> QED
    BY <1>1, <2>1, <2>2
<1>5. \A i \in 1 .. n : /\ t.saved[i].local <= lev
                        /\ \A k \in 1 .. (i - 1) : t.saved[k].local >= t.saved[i].local
  BY DEF Good, Scoped, n
<1>6. \A i \in 1 .. n :
        /\ Replaced(t.trapped[t.saved[i].sig], t.posix, t.saved[i])
        /\ \A k \in 1 .. (i - 1) :
              t.saved[k].sig = t.saved[i].sig
                  => Replaced(t.saved[k].was, t.saved[k].posix, t.saved[i])
  BY DEF Good, Later, n
<1>7. ASSUME NEW i \in 1 .. (n + 1)
      PROVE  /\ r.saved[i].local <= lev
             /\ \A k \in 1 .. (i - 1) : r.saved[k].local >= r.saved[i].local
  <2>1. CASE i = 1
    BY <1>0, <1>2, <1>4, <2>1
  <2>2. CASE i # 1
    <3>1. i \in 2 .. (n + 1) /\ i - 1 \in 1 .. n
      BY <1>3, <2>2
    <3>2. r.saved[i] = t.saved[i - 1] /\ r.saved[i].local <= lev
      BY <1>4, <1>5, <3>1
    <3>3. ASSUME NEW k \in 1 .. (i - 1) PROVE r.saved[k].local >= r.saved[i].local
      <4>1. CASE k = 1
        BY <1>0, <1>2, <1>3, <1>4, <3>1, <3>2, <4>1
      <4>2. CASE k # 1
        <5>1. k \in 2 .. (n + 1) /\ k - 1 \in 1 .. ((i - 1) - 1)
          BY <1>3, <4>2
        <5> QED
          BY <1>4, <1>5, <3>1, <3>2, <5>1
      <4> QED
        BY <4>1, <4>2
    <3> QED
      BY <3>2, <3>3
  <2> QED
    BY <2>1, <2>2
<1>8. ASSUME NEW i \in 1 .. (n + 1)
      PROVE  /\ Replaced(r.trapped[r.saved[i].sig], r.posix, r.saved[i])
             /\ \A k \in 1 .. (i - 1) :
                   r.saved[k].sig = r.saved[i].sig
                       => Replaced(r.saved[k].was, r.saved[k].posix, r.saved[i])
  <2>1. CASE i = 1
    BY <1>2, <1>4, <2>1 DEF Replaced
  <2>2. CASE i # 1
    <3> DEFINE e == t.saved[i - 1]
    <3>1. i \in 2 .. (n + 1) /\ i - 1 \in 1 .. n
      BY <1>3, <2>2
    <3>2. r.saved[i] = e /\ e.sig \in AllSigs
      BY <1>3, <1>4, <3>1 DEF Saved
    <3>3. Replaced(t.trapped[e.sig], t.posix, e)
      BY <1>6, <3>1
    <3> HIDE DEF e
    <3>4. Replaced(r.trapped[e.sig], r.posix, e)
      <4>1. CASE e.sig = sig
        BY <4>1 DEF Replaced
      <4>2. CASE e.sig # sig
        <5>1. r.trapped[e.sig] = a.trapped[e.sig] /\ (e.sig = "EXIT" => r.posix = a.posix)
          BY <3>2, <4>2 DEF Differs, a
        <5> QED
          BY <1>1, <3>3, <5>1 DEF Replaced
      <4> QED
        BY <4>1, <4>2
    <3>5. ASSUME NEW k \in 1 .. (i - 1), r.saved[k].sig = e.sig
          PROVE  Replaced(r.saved[k].was, r.saved[k].posix, e)
      <4>1. CASE k = 1
        <5>1. e.sig = sig /\ r.saved[k] = st
          BY <1>2, <1>4, <3>5, <4>1
        <5> QED
          BY <1>2, <3>3, <5>1 DEF Replaced
      <4>2. CASE k # 1
        <5>1. k \in 2 .. (n + 1) /\ k - 1 \in 1 .. ((i - 1) - 1)
          BY <1>3, <4>2
        <5>2. r.saved[k] = t.saved[k - 1]
          BY <1>4, <5>1
        <5> QED
          BY <1>6, <3>1, <3>5, <5>1, <5>2 DEF e
      <4> QED
        BY <4>1, <4>2
    <3> QED
      BY <3>2, <3>4, <3>5
  <2> QED
    BY <2>1, <2>2
<1> QED
  BY <1>4, <1>7, <1>8 DEF Scoped, Later

\* The trap of sig is gone, and saved if the scope asks for it.
LEMMA removetrapGood ==
    ASSUME NEW t, NEW opts, NEW sig \in AllSigs, NEW lev \in 0 .. MaxLevel, Good(t, lev)
    PROVE  LET r == removetrap(t, opts, sig, lev)
           IN  /\ Good(r, lev)
               /\ r.trapped[sig] = Zero /\ r.lists[sig] = "none" /\ r.funcs[sig] = "none"
               /\ ~MustSave(t, opts, sig, lev) => r.saved = t.saved
<1> DEFINE save == MustSave(t, opts, sig, lev)
           a == IF save THEN dosavetrap(t, sig, lev) ELSE t
           r == Clear(a, sig)
           func == "FUNC" \in a.trapped[sig].flags
<1>0. t \in TrapsRecord /\ Tables(t) /\ Scoped(t, lev) /\ Later(t) /\ SigOK(t, sig)
  BY DEF Good, Tables
<1>1. save => lev \in 1 .. MaxLevel
  BY TrapsAssumption DEF MustSave
<1>2. a \in TrapsRecord /\ a.trapped = t.trapped /\ a.lists = t.lists /\ a.funcs = t.funcs
      /\ a.posix = t.posix /\ a.n = t.n
  BY <1>0, <1>1, dosavetrapIs
<1>3. Tables(a)
  <2>1. \A s \in AllSigs : SigOK(a, s)
    BY <1>0, <1>2 DEF Tables, SigOK
  <2>2. \A i \in 1 .. Len(a.saved) : SavedOK(a.saved[i])
    <3>1. CASE ~save
      BY <1>0, <3>1 DEF Tables
    <3>2. CASE save
      <4>1. SavedOK(Entry(t, sig, lev))
        BY <1>0, <1>1, <3>2, EntryIs
      <4>2. /\ a = dosavetrap(t, sig, lev)
            /\ Len(a.saved) = Len(t.saved) + 1
            /\ a.saved[1] = Entry(t, sig, lev)
            /\ \A i \in 1 .. Len(t.saved) : a.saved[i + 1] = t.saved[i]
        BY <1>0, <1>1, <3>2, dosavetrapIs
      <4>3. Len(t.saved) \in Nat
        BY <1>0 DEF TrapsRecord
      <4>4. ASSUME NEW i \in 1 .. Len(a.saved), i # 1 PROVE SavedOK(a.saved[i])
        <5>1. i - 1 \in 1 .. Len(t.saved) /\ (i - 1) + 1 = i
          BY <4>2, <4>3, <4>4
        <5>2. a.saved[i] = t.saved[i - 1]
          BY <4>2, <5>1
        <5> QED
          BY <1>0, <5>1, <5>2 DEF Tables
      <4> QED
        BY <4>1, <4>2, <4>4
    <3> QED
      BY <3>1, <3>2
  <2>3. a.n = Cardinality(Counting(a.trapped))
    BY <1>0, <1>2 DEF Tables
  <2> QED
    BY <1>2, <2>1, <2>2, <2>3 DEF Tables
<1> HIDE DEF a
<1>4. /\ Differs(a, r, sig)
      /\ r.trapped[sig] = Zero
      /\ r.funcs[sig] = IF func THEN "none" ELSE a.funcs[sig]
      /\ r.lists[sig] = IF func THEN a.lists[sig] ELSE "none"
      /\ r.posix = (a.posix /\ sig # "EXIT")
      /\ r.n = a.n - Counts(a.trapped[sig])
  BY <1>2, ClearIs
<1> HIDE DEF r
<1>5. r.lists[sig] = "none" /\ r.funcs[sig] = "none"
  BY <1>3, <1>4 DEF Tables, SigOK
<1>6. Tables(r)
  <2>1. SigOK(r, sig)
    BY <1>4, <1>5, ZeroIs, TrapsAssumption DEF SigOK
  <2>2. r.n = a.n - Counts(a.trapped[sig]) + Counts(r.trapped[sig])
    <3>1. a.n - Counts(a.trapped[sig]) \in Int
      BY <1>2 DEF TrapsRecord, Counts
    <3> QED
      BY <1>4, <3>1, ZeroIs
  <2> QED
    BY <1>3, <1>4, <2>1, <2>2, DiffersTables
<1>7. Scoped(r, lev) /\ Later(r)
  <2>1. CASE save
    <3>1. Differs(dosavetrap(t, sig, lev), r, sig)
      BY <1>4, <2>1 DEF a
    <3> QED
      BY <1>1, <1>4, <2>1, <3>1, SaveGood
  <2>2. CASE ~save
    <3>1. a = t /\ Differs(t, r, sig)
      BY <1>4, <2>2 DEF a
    <3>2. Scoped(r, lev)
      BY <1>0, <3>1, DiffersScoped
    <3>3. \A i \in 1 .. Len(t.saved) : Replaced(r.trapped[sig], r.posix, t.saved[i])
      BY <1>4 DEF Replaced
    <3> QED
      BY <1>0, <3>1, <3>2, <3>3, DiffersLater
  <2> QED
    BY <2>1, <2>2
<1>8. ~save => r.saved = t.saved
  BY <1>4 DEF a, Differs
<1> QED
  BY <1>4, <1>5, <1>6, <1>7, <1>8 DEF Good, removetrap, r, a

\* What settrap() does once the trap there was is removed (r), with the
\* function b that enters the table (q).
Gone(t, sig) == t.trapped[sig] = Zero /\ t.lists[sig] = "none" /\ t.funcs[sig] = "none"
Body(func, l, b) == IF func THEN l = "none" /\ b \in Bodies
                            ELSE l \in Bodies \cup {"empty"} /\ b = "none"
Entered(r, q, sig, b) ==
    /\ q \in TrapsRecord
    /\ q.trapped = r.trapped /\ q.lists = r.lists /\ q.posix = r.posix
    /\ q.n = r.n /\ q.saved = r.saved
    /\ q.funcs = [r.funcs EXCEPT ![sig] = b]

LEMMA SetGood ==
    ASSUME NEW t, NEW opts, NEW sig \in AllSigs, NEW lev \in 0 .. MaxLevel, Good(t, lev),
           Gone(t, sig), NEW func \in BOOLEAN, NEW l, NEW b, Body(func, l, b),
           NEW q, Entered(Set(t, opts, sig, l, func, lev), q, sig, b)
    PROVE  Good(q, lev)
<1> DEFINE r == Set(t, opts, sig, l, func, lev)
           ignored == Ignored(func, l)
<1>00. l \in Lists /\ b \in Funcs
  BY TrapsAssumption DEF Body, Lists, Funcs
<1>0. t \in TrapsRecord /\ Tables(t) /\ Scoped(t, lev) /\ Later(t)
  BY DEF Good, Tables
<1>1. IsSet(t, opts, sig, l, func, lev, r)
  BY <1>0, <1>00, SetIs
<1>2. /\ q \in TrapsRecord
      /\ q.trapped = r.trapped /\ q.lists = r.lists /\ q.posix = r.posix
      /\ q.n = r.n /\ q.saved = r.saved
      /\ q.funcs = [r.funcs EXCEPT ![sig] = b]
  BY DEF Entered
<1> HIDE DEF r
<1>3. q.funcs[sig] = b /\ \A s \in AllSigs \ {sig} : q.funcs[s] = t.funcs[s]
  <2>1. r.funcs \in [AllSigs -> Funcs]
    BY <1>1 DEF IsSet, Differs, TrapsRecord
  <2> QED
    BY <1>00, <1>1, <1>2, <2>1 DEF IsSet
<1>4. Differs(t, q, sig)
  BY <1>1, <1>2, <1>3 DEF IsSet, Differs
<1>5. l = "empty" <=> l \notin Bodies \cup {"none"}
  BY <1>00, TrapsAssumption DEF Lists
<1>6. "FUNC" \in r.trapped[sig].flags <=> func
  BY <1>1 DEF IsSet
<1>7. "TRAPPED" \in r.trapped[sig].flags <=> ~ignored
  BY <1>1 DEF IsSet
<1>8. r.trapped[sig] # Zero
  BY <1>1, ZeroIs DEF IsSet
<1>9. SigOK(q, sig)
  <2>1. "none" \notin Bodies /\ (func => b # "none") /\ (~func => b = "none")
    BY TrapsAssumption DEF Body
  <2>2. l # "none" <=> ~func
    BY TrapsAssumption DEF Body
  <2>3. func \/ l \in Bodies <=> ~ignored
    BY TrapsAssumption DEF Ignored, Body
  <2> HIDE DEF ignored
  <2> QED
    BY <1>1, <1>2, <1>3, <1>6, <1>7, <1>8, <2>1, <2>2, <2>3 DEF SigOK, IsSet
<1>10. q.n = t.n - Counts(t.trapped[sig]) + Counts(q.trapped[sig])
  <2>1. t.n \in Int
    BY <1>0 DEF TrapsRecord
  <2> QED
    BY <1>1, <1>2, <1>7, <2>1, ZeroIs DEF Counts, IsSet, Gone
<1>11. Tables(q)
  BY <1>0, <1>4, <1>9, <1>10, DiffersTables
<1>12. Scoped(q, lev)
  BY <1>0, <1>4, DiffersScoped
<1>13. \A i \in 1 .. Len(t.saved) :
         t.saved[i].sig = sig => Replaced(q.trapped[sig], q.posix, t.saved[i])
  <2>1. SUFFICES ASSUME NEW i \in 1 .. Len(t.saved), t.saved[i].sig = sig
                 PROVE  Replaced(q.trapped[sig], q.posix, t.saved[i])
    OBVIOUS
  <2>2. t.saved[i].local <= lev
    BY <1>0 DEF Scoped
  <2>3. CASE sig = "EXIT" /\ "POSIXTRAPS" \in opts
    BY <1>1, <1>2, <2>1, <2>3 DEF Replaced, IsSet, PosixNow
  <2>4. CASE ~(sig = "EXIT" /\ "POSIXTRAPS" \in opts)
    <3>1. q.trapped[sig].level = lev /\ lev >= t.saved[i].local
      <4>1. t.saved[i] \in Saved
        BY <1>0 DEF TrapsRecord
      <4>2. t.saved[i].local \in Nat /\ lev \in Nat
        BY <4>1, TrapsAssumption DEF Saved
      <4> QED
        BY <1>1, <1>2, <2>2, <2>4, <4>2 DEF IsSet
    <3> QED
      BY <3>1 DEF Replaced
  <2> QED
    BY <2>3, <2>4
<1>14. Later(q)
  BY <1>0, <1>4, <1>13, DiffersLater
<1> QED
  BY <1>11, <1>12, <1>14 DEF Good

\* trap list sig
LEMMA settrapGood ==
    ASSUME NEW t, NEW opts, NEW sig \in AllSigs, NEW lev \in 0 .. MaxLevel, Good(t, lev),
           NEW l \in Bodies \cup {"empty"}
    PROVE  Good(settrap(t, opts, sig, l, FALSE, lev), lev)
<1> DEFINE a == removetrap(t, opts, sig, lev)
           r == Set(a, opts, sig, l, FALSE, lev)
<1>1. Good(a, lev) /\ Gone(a, sig)
  BY removetrapGood DEF Gone
<1> HIDE DEF a
<1>2. FALSE \in BOOLEAN /\ Body(FALSE, l, "none") /\ l \in Lists /\ a \in TrapsRecord
  BY <1>1, TrapsAssumption DEF Lists, Good, Tables, Body
<1>3. Entered(r, r, sig, "none")
  <2>1. IsSet(a, opts, sig, l, FALSE, lev, r)
    BY <1>2, SetIs, Zenon
  <2> HIDE DEF r
  <2>2. r \in TrapsRecord /\ r.funcs = a.funcs /\ r.funcs[sig] = "none"
    BY <1>1, <2>1 DEF IsSet, Differs, Gone
  <2>3. r.funcs = [r.funcs EXCEPT ![sig] = "none"]
    BY <2>2 DEF TrapsRecord
  <2> QED
    BY <2>2, <2>3 DEF Entered
<1>4. Good(r, lev)
  BY <1>1, <1>2, <1>3, SetGood, Zenon
<1> QED
  BY <1>4 DEF settrap, a

\* TRAPsig() { ... }
LEMMA FuncGood ==
    ASSUME NEW t, NEW opts, NEW sig \in AllSigs, NEW lev \in 0 .. MaxLevel, Good(t, lev),
           NEW b \in Bodies
    PROVE  Good([settrap(t, opts, sig, "none", TRUE, lev) EXCEPT !.funcs[sig] = b], lev)
<1> DEFINE a == removetrap(t, opts, sig, lev)
           r == Set(a, opts, sig, "none", TRUE, lev)
           q == [r EXCEPT !.funcs[sig] = b]
<1>1. Good(a, lev) /\ Gone(a, sig)
  BY removetrapGood DEF Gone
<1> HIDE DEF a
<1>2. TRUE \in BOOLEAN /\ Body(TRUE, "none", b) /\ "none" \in Lists /\ a \in TrapsRecord
  BY <1>1, TrapsAssumption DEF Lists, Good, Tables, Body
<1>3. Entered(r, q, sig, b)
  <2>1. IsSet(a, opts, sig, "none", TRUE, lev, r)
    BY <1>2, SetIs, Zenon
  <2> HIDE DEF r
  <2>2. r \in TrapsRecord /\ b \in Funcs
    BY <2>1 DEF IsSet, Differs, Funcs
  <2> QED
    BY <2>2 DEF Entered, TrapsRecord
<1> HIDE DEF q
<1>4. Good(q, lev)
  BY <1>1, <1>2, <1>3, SetGood, Zenon
<1> QED
  BY <1>4 DEF settrap, a, r, q

\* The entry in front is put back: nothing is saved meanwhile.
LEMMA RestoreGood ==
    ASSUME NEW t, NEW opts, NEW top \in 0 .. MaxLevel, NEW lev \in 0 .. MaxLevel, Good(t, top),
           t.saved # <<>>, Head(t.saved).local > lev
    PROVE  LET r == Restore(t, opts, lev)
           IN  Good(r, top) /\ r.saved = Tail(t.saved)
<1> DEFINE st == Head(t.saved)
           sig == st.sig
           rest == [t EXCEPT !.saved = Tail(@)]
           func == "FUNC" \in st.was.flags
           a == Clear(rest, sig)
           l == IF func THEN "none" ELSE st.list
           set == Set(a, opts, sig, l, func, lev)
           q == [set EXCEPT !.trapped[sig] = st.was,
                            !.posix = IF sig = "EXIT" THEN st.posix ELSE @,
                            !.funcs[sig] = IF func THEN st.list ELSE @]
           n == Len(t.saved)
           v == t.trapped[sig]
<1>0. t \in TrapsRecord /\ Tables(t) /\ Scoped(t, top) /\ Later(t) /\ t.saved \in Seq(Saved)
  BY DEF Good, Tables, TrapsRecord
<1>1. /\ st = t.saved[1] /\ st \in Saved /\ n \in Nat /\ 1 \in 1 .. n
      /\ Tail(t.saved) \in Seq(Saved) /\ Len(Tail(t.saved)) = n - 1
      /\ \A i \in 1 .. (n - 1) : Tail(t.saved)[i] = t.saved[i + 1]
  BY <1>0
<1>2. sig \in AllSigs /\ st.was \in Trapped /\ st.list \in Lists /\ st.posix \in BOOLEAN
      /\ st.local \in Nat /\ lev \in Nat
  BY <1>1, TrapsAssumption DEF Saved
<1>3. SavedOK(st)
  BY <1>0, <1>1 DEF Tables
<1> HIDE DEF st
<1>4. /\ rest \in TrapsRecord /\ rest.trapped = t.trapped /\ rest.lists = t.lists
      /\ rest.funcs = t.funcs /\ rest.posix = t.posix /\ rest.n = t.n
      /\ rest.saved = Tail(t.saved)
  BY <1>0, <1>1 DEF TrapsRecord
<1> HIDE DEF rest
<1>5. \A i \in 1 .. Len(rest.saved) : i + 1 \in 1 .. n /\ rest.saved[i] = t.saved[i + 1]
  BY <1>1, <1>4
<1>6. Tables(rest)
  <2>1. \A s \in AllSigs : SigOK(rest, s)
    BY <1>0, <1>4 DEF Tables, SigOK
  <2>2. \A i \in 1 .. Len(rest.saved) : SavedOK(rest.saved[i])
    BY <1>0, <1>5 DEF Tables
  <2> QED
    BY <1>0, <1>4, <2>1, <2>2 DEF Tables
<1>7. Scoped(rest, top) /\ Later(rest)
  <2>1. SUFFICES ASSUME NEW i \in 1 .. Len(rest.saved)
                 PROVE  /\ rest.saved[i].local <= top
                        /\ Replaced(rest.trapped[rest.saved[i].sig], rest.posix, rest.saved[i])
                        /\ \A k \in 1 .. (i - 1) :
                             /\ rest.saved[k].local >= rest.saved[i].local
                             /\ rest.saved[k].sig = rest.saved[i].sig
                                  => Replaced(rest.saved[k].was, rest.saved[k].posix, rest.saved[i])
    BY DEF Scoped, Later
  <2>2. i + 1 \in 1 .. n /\ rest.saved[i] = t.saved[i + 1]
    BY <1>5
  <2>3. ASSUME NEW k \in 1 .. (i - 1)
        PROVE  k + 1 \in 1 .. ((i + 1) - 1) /\ rest.saved[k] = t.saved[k + 1]
    <3>1. k \in 1 .. Len(rest.saved) /\ k + 1 \in 1 .. ((i + 1) - 1)
      BY <1>1, <1>4
    <3> QED
      BY <1>5, <3>1
  <2> QED
    BY <1>0, <1>4, <2>2, <2>3 DEF Scoped, Later
\* What was saved earlier for the same signal is older.
<1>8. \A i \in 1 .. Len(rest.saved) :
        rest.saved[i].sig = sig => Replaced(st.was, st.posix, rest.saved[i])
  <2>1. \A i \in 1 .. Len(rest.saved) : 1 \in 1 .. ((i + 1) - 1)
    BY <1>1, <1>4
  <2> QED
    BY <1>0, <1>1, <1>5, <2>1 DEF Later
<1>9. Replaced(v, t.posix, st)
  BY <1>0, <1>1 DEF Later
<1>10. CASE st.was # Zero /\ st.list # "none"
  <2>1. /\ Differs(rest, a, sig) /\ a.trapped[sig] = Zero
        /\ a.funcs[sig] = IF "FUNC" \in rest.trapped[sig].flags THEN "none" ELSE rest.funcs[sig]
        /\ a.lists[sig] = IF "FUNC" \in rest.trapped[sig].flags THEN rest.lists[sig] ELSE "none"
        /\ a.posix = (rest.posix /\ sig # "EXIT")
        /\ a.n = rest.n - Counts(rest.trapped[sig])
    BY <1>2, <1>4, ClearIs
  <2>2. Gone(a, sig)
    BY <1>2, <1>6, <2>1 DEF Gone, Tables, SigOK
  <2> HIDE DEF a
  <2>3. l \in Lists /\ func \in BOOLEAN /\ a \in TrapsRecord
    BY <1>2, <2>1 DEF Lists, Differs
  <2> HIDE DEF l, func
  <2>4. IsSet(a, opts, sig, l, func, lev, set)
    BY <1>2, <2>3, SetIs
  <2> HIDE DEF set
  <2>5. "none" \notin Bodies /\ "empty" \notin Bodies /\ (func => st.list \in Bodies)
    BY <1>3, TrapsAssumption DEF SavedOK, func
  <2> DEFINE f == IF func THEN st.list ELSE "none"
             posix == IF sig = "EXIT" THEN st.posix ELSE rest.posix
  <2>6. f \in Funcs /\ posix \in BOOLEAN
    BY <1>2, <1>4, <2>5 DEF Funcs, TrapsRecord
  <2>7. set \in TrapsRecord /\ set.funcs[sig] = "none" /\ (sig # "EXIT" => set.posix = rest.posix)
    BY <1>2, <2>1, <2>2, <2>4 DEF IsSet, Differs, Gone, PosixNow
  <2>8. q = [set EXCEPT !.trapped[sig] = st.was, !.posix = posix, !.funcs[sig] = f]
    BY <1>2, <2>7 DEF TrapsRecord
  <2> HIDE DEF f, posix, q
  <2>9. /\ q \in TrapsRecord /\ q.trapped = [set.trapped EXCEPT ![sig] = st.was]
        /\ q.posix = posix /\ q.funcs = [set.funcs EXCEPT ![sig] = f]
        /\ q.lists = set.lists /\ q.saved = set.saved /\ q.n = set.n
    BY <1>2, <2>6, <2>7, <2>8 DEF TrapsRecord
  <2>10. /\ q.trapped[sig] = st.was /\ q.funcs[sig] = f
         /\ \A s \in AllSigs \ {sig} : q.trapped[s] = set.trapped[s] /\ q.funcs[s] = set.funcs[s]
    BY <1>2, <2>7, <2>9 DEF TrapsRecord
  <2>11. Differs(rest, q, sig)
    <3>1. \A s \in AllSigs \ {sig} :
            /\ q.trapped[s] = rest.trapped[s] /\ q.funcs[s] = rest.funcs[s]
            /\ q.lists[s] = rest.lists[s]
      BY <2>1, <2>4, <2>9, <2>10 DEF IsSet, Differs
    <3>2. q.saved = rest.saved
      BY <2>1, <2>4, <2>9 DEF IsSet, Differs
    <3>3. sig # "EXIT" => q.posix = rest.posix
      BY <2>9 DEF posix
    <3> QED
      BY <2>9, <3>1, <3>2, <3>3 DEF Differs
  <2>12. q.lists[sig] = l
    BY <2>4, <2>9 DEF IsSet
  <2>13. SigOK(q, sig)
    <3>1. l # "none" <=> ~func
      BY <1>10 DEF l
    <3>2. "FUNC" \in q.trapped[sig].flags <=> func
      BY <2>10 DEF func
    <3>3. f # "none" <=> func
      BY <2>5 DEF f
    <3>4. "TRAPPED" \in st.was.flags <=> func \/ l \in Bodies
      BY <1>3, <2>5 DEF SavedOK, func, l
    <3> QED
      BY <1>10, <2>10, <2>12, <3>1, <3>2, <3>3, <3>4 DEF SigOK
  <2>14. q.n = rest.n - Counts(rest.trapped[sig]) + Counts(q.trapped[sig])
    <3>1. rest.n - Counts(rest.trapped[sig]) \in Int
      BY <1>4 DEF TrapsRecord, Counts
    <3>2. "TRAPPED" \in st.was.flags <=> ~Ignored(func, l)
      BY <1>2, <1>3, <1>10, <2>5 DEF SavedOK, func, l, Ignored, Lists
    <3> QED
      BY <2>1, <2>4, <2>9, <2>10, <3>1, <3>2 DEF IsSet, Counts
  <2>15. Tables(q)
    BY <1>2, <1>6, <2>11, <2>13, <2>14, DiffersTables
  <2>16. Scoped(q, top)
    BY <1>7, <2>11, DiffersScoped
  <2>17. \A i \in 1 .. Len(rest.saved) :
           rest.saved[i].sig = sig => Replaced(q.trapped[sig], q.posix, rest.saved[i])
    <3>1. sig = "EXIT" => q.posix = st.posix
      BY <2>9 DEF posix
    <3> QED
      BY <1>8, <2>10, <3>1 DEF Replaced
  <2>18. Later(q)
    BY <1>2, <1>4, <1>7, <2>11, <2>17, DiffersLater
  <2>19. Restore(t, opts, lev) = q
    BY <1>10 DEF Restore, q, set, a, l, func, rest, st
  <2> QED
    BY <1>4, <2>11, <2>15, <2>16, <2>18, <2>19 DEF Good, Differs
<1>11. CASE ~(st.was # Zero /\ st.list # "none")
  <2>1. st.was = Zero
    BY <1>3, <1>11 DEF SavedOK
  <2>2. CASE v # Zero /\ (sig = "EXIT" => ~t.posix)
    <3> DEFINE r == removetrap(rest, opts, sig, lev)
    <3>1. ~MustSave(rest, opts, sig, lev)
      <4>1. v.level >= st.local
        BY <1>9, <2>2 DEF Replaced
      <4>2. v.level \in Nat /\ ~(lev > v.level)
        <5>1. v \in Trapped
          BY <1>0, <1>2 DEF TrapsRecord
        <5>2. v.level \in Nat
          BY <5>1, TrapsAssumption DEF Trapped
        <5>3. st.local > lev
          BY DEF st
        <5> QED
          BY <1>2, <4>1, <5>2, <5>3
      <4> QED
        BY <1>4, <2>2, <4>2 DEF MustSave
    <3>2. /\ r = Clear(rest, sig)
      BY <3>1 DEF removetrap
    <3>3. /\ Differs(rest, r, sig) /\ r.trapped[sig] = Zero
          /\ r.funcs[sig] = IF "FUNC" \in rest.trapped[sig].flags THEN "none" ELSE rest.funcs[sig]
          /\ r.lists[sig] = IF "FUNC" \in rest.trapped[sig].flags THEN rest.lists[sig] ELSE "none"
          /\ r.posix = (rest.posix /\ sig # "EXIT")
          /\ r.n = rest.n - Counts(rest.trapped[sig])
      BY <1>2, <1>4, <3>2, ClearIs
    <3> HIDE DEF r
    <3>4. r.lists[sig] = "none" /\ r.funcs[sig] = "none"
      BY <1>2, <1>6, <3>3 DEF Tables, SigOK
    <3>5. SigOK(r, sig)
      BY <3>3, <3>4, ZeroIs, TrapsAssumption DEF SigOK
    <3>6. r.n = rest.n - Counts(rest.trapped[sig]) + Counts(r.trapped[sig])
      <4>1. rest.n - Counts(rest.trapped[sig]) \in Int
        BY <1>4 DEF TrapsRecord, Counts
      <4> QED
        BY <3>3, <4>1, ZeroIs
    <3>7. Tables(r)
      BY <1>2, <1>6, <3>3, <3>5, <3>6, DiffersTables
    <3>8. Scoped(r, top)
      BY <1>7, <3>3, DiffersScoped
    <3>9. \A i \in 1 .. Len(rest.saved) : Replaced(r.trapped[sig], r.posix, rest.saved[i])
      BY <3>3 DEF Replaced
    <3>10. Later(r)
      BY <1>2, <1>4, <1>7, <3>3, <3>9, DiffersLater
    <3>11. Restore(t, opts, lev) = r
      BY <1>11, <2>2 DEF Restore, r, rest, st
    <3> QED
      BY <1>4, <3>3, <3>7, <3>8, <3>10, <3>11 DEF Good, Differs
  <2>3. CASE ~(v # Zero /\ (sig = "EXIT" => ~t.posix))
    <3>1. Restore(t, opts, lev) = rest
      BY <1>11, <2>3 DEF Restore, rest, st
    <3> QED
      BY <1>4, <1>6, <1>7, <3>1 DEF Good
  <2> QED
    BY <2>2, <2>3
<1> QED
  BY <1>10, <1>11

-----------------------------------------------------------------------------
(* Induction and recursion.                                                *)

\* A set of naturals closed under successor has every natural.
LEMMA Induction ==
    ASSUME NEW S, 0 \in S, \A i \in Nat : i \in S => i + 1 \in S
    PROVE  \A i \in Nat : i \in S
<1>1. SUFFICES ASSUME {i \in Nat : i \notin S} # {} PROVE FALSE
  OBVIOUS
<1> DEFINE T == {i \in Nat : i \notin S}
<1> HIDE DEF T
<1>2. T \subseteq Nat /\ T # {}
  BY <1>1 DEF T
<1>3. PICK m \in T : \A k \in T : ~ (k < m)
  <2>1. IsWellFoundedOn(OpToRel(<, Nat), Nat)
    BY NatLessThanWellFounded
  <2>2. PICK x \in T : \A y \in T : ~ (<<y, x>> \in OpToRel(<, Nat))
    BY <1>2, <2>1, WFMin
  <2>3. ASSUME NEW y \in T, y < x PROVE FALSE
    <3>1. <<y, x>> \in OpToRel(<, Nat)
      BY <1>2, <2>3, Zenon DEF OpToRel
    <3> QED
      BY <2>2, <3>1, Zenon
  <2> QED
    BY <2>3
<1>4. m \in Nat /\ m \notin S
  BY DEF T
<1>5. m - 1 \in Nat /\ m - 1 < m
  BY <1>4
<1>6. m - 1 \in S
  BY <1>3, <1>5 DEF T
<1> QED
  BY <1>4, <1>5, <1>6

\* f is defined by recursion from a with the step next.
Recursive(f, V, a, n, next) ==
    /\ f \in [0..n -> V]
    /\ f[0] = a
    /\ \A i \in 1..n : f[i] = next[<<i, f[i - 1]>>]

\* A recursive definition on 0 .. n whose step is a function has a solution.
LEMMA Recursion ==
    ASSUME NEW V, NEW a \in V, NEW n \in Nat, NEW next \in [(1..n) \X V -> V]
    PROVE  \E f : Recursive(f, V, a, n, next)
<1> DEFINE Solves(f, k) ==
              /\ f \in [0..k -> V]
              /\ f[0] = a
              /\ \A i \in 1..k : f[i] = next[<<i, f[i - 1]>>]
           S == {k \in Nat : k <= n => \E f : Solves(f, k)}
<1>1. 0 \in S
  <2>1. Solves([i \in 0..0 |-> a], 0)
    OBVIOUS
  <2> QED
    BY <2>1
<1>2. ASSUME NEW k \in Nat, k \in S PROVE k + 1 \in S
  <2>1. SUFFICES ASSUME k + 1 <= n PROVE \E f : Solves(f, k + 1)
    OBVIOUS
  <2>2. PICK f : Solves(f, k)
    BY <1>2, <2>1
  <2> DEFINE v == next[<<k + 1, f[k]>>]
             g == [i \in 0..(k + 1) |-> IF i = k + 1 THEN v ELSE f[i]]
  <2>3. v \in V
    <3>1. f[k] \in V /\ k + 1 \in 1..n
      BY <2>1, <2>2
    <3> QED
      BY <3>1
  <2> HIDE DEF v
  <2>4. g \in [0..(k + 1) -> V] /\ g[0] = a /\ g[k + 1] = v
    BY <2>2, <2>3
  <2>5. ASSUME NEW i \in 1..(k + 1) PROVE g[i] = next[<<i, g[i - 1]>>]
    <3>1. CASE i = k + 1
      <4>1. g[i - 1] = f[k] /\ g[i] = v
        BY <3>1
      <4> QED
        BY <3>1, <4>1 DEF v
    <3>2. CASE i # k + 1
      <4>1. i \in 1..k /\ g[i] = f[i] /\ g[i - 1] = f[i - 1]
        BY <3>2
      <4> QED
        BY <4>1, <2>2
    <3> QED
      BY <3>1, <3>2
  <2> HIDE DEF g
  <2> QED
    BY <2>4, <2>5
<1> HIDE DEF S
<1>3. n \in S
  BY <1>1, <1>2, Induction
<1> QED
  BY <1>3 DEF S, Recursive

-----------------------------------------------------------------------------
(* The loop of endtrapscope().                                             *)

Closed(P, opts, lev) == \A r \in P : Turn(r, opts, lev) \in P

\* The states it goes through.
After(f, P, t, opts, lev) ==
    /\ f \in [0 .. Len(t.saved) -> P]
    /\ f[0] = t
    /\ \A i \in 1 .. Len(t.saved) : f[i] = Turn(f[i - 1], opts, lev)
    /\ RestoreAll(t, opts, lev) = f[Len(t.saved)]

LEMMA RestoreAllIs ==
    ASSUME NEW P, NEW t \in P, NEW opts, NEW lev, Closed(P, opts, lev), Len(t.saved) \in Nat
    PROVE  \E f : After(f, P, t, opts, lev)
<1> DEFINE n == Len(t.saved)
           step(r) == Turn(r, opts, lev)
           next == [p \in (1..n) \X P |-> step(p[2])]
           Sol(f) == f = [i \in 0..n |-> IF i = 0 THEN t ELSE step(f[i - 1])]
           F == CHOOSE f : Sol(f)
<1>1. n \in Nat
  OBVIOUS
<1>2. \A p \in (1..n) \X P : step(p[2]) \in P
  BY DEF Closed
<1>3. next \in [(1..n) \X P -> P]
  BY <1>2, Zenon
<1>4. \A p \in (1..n) \X P : next[p] = step(p[2])
  BY Zenon
<1>0. RestoreAll(t, opts, lev) = F[n]
  BY Zenon DEF RestoreAll
<1> HIDE DEF n, step, next
<1>5. \E f : Recursive(f, P, t, n, next)
  BY <1>1, <1>3, Recursion
<1>6. PICK f : Recursive(f, P, t, n, next)
  BY <1>5
<1>7. f \in [0..n -> P] /\ f[0] = t /\ \A i \in 1..n : f[i] = next[<<i, f[i - 1]>>]
  BY <1>6 DEF Recursive
<1>8. \A i \in 1..n : f[i] = step(f[i - 1])
  <2>1. SUFFICES ASSUME NEW i \in 1..n PROVE f[i] = step(f[i - 1])
    OBVIOUS
  <2>2. i - 1 \in 0..n
    BY <1>1
  <2>3. f[i - 1] \in P
    BY <1>7, <2>2
  <2>4. <<i, f[i - 1]>> \in (1..n) \X P
    BY <2>3
  <2> QED
    BY <1>4, <1>7, <2>4
<1>9. Sol(f)
  <2>1. \A i \in 0..n : i # 0 => i \in 1..n
    BY <1>1
  <2>2. \A i \in 0..n : f[i] = IF i = 0 THEN t ELSE step(f[i - 1])
    BY <1>7, <1>8, <2>1
  <2> QED
    BY <1>7, <2>2
<1>10. Sol(F)
  BY <1>9, Zenon
<1>11. F = [i \in 0..n |-> IF i = 0 THEN t ELSE step(F[i - 1])]
  BY <1>10
<1>12. \A i \in 0..n : F[i] = IF i = 0 THEN t ELSE step(F[i - 1])
  BY <1>11, Zenon
<1> HIDE DEF F, Sol
<1>13. F[0] = t /\ \A i \in 1..n : F[i] = step(F[i - 1])
  <2>1. 0 \in 0..n /\ \A i \in 1..n : i \in 0..n /\ i # 0
    BY <1>1
  <2> QED
    BY <1>12, <2>1
<1>14. \A i \in 0..n : F[i] \in P
  <2> DEFINE S == {i \in Nat : i \in 0..n => F[i] \in P}
  <2>1. 0 \in S
    BY <1>13
  <2>2. ASSUME NEW i \in Nat, i \in S PROVE i + 1 \in S
    <3>1. i + 1 \in 0..n => i \in 0..n /\ i + 1 \in 1..n /\ (i + 1) - 1 = i
      BY <1>1
    <3>2. i + 1 \in 0..n => F[i] \in P /\ F[i + 1] = step(F[i])
      BY <1>13, <2>2, <3>1
    <3> QED
      BY <3>2 DEF step, Closed
  <2> HIDE DEF S
  <2>3. \A i \in Nat : i \in S
    BY <2>1, <2>2, Induction
  <2>4. ASSUME NEW i \in 0..n PROVE F[i] \in P
    <3>1. i \in Nat
      BY <1>1
    <3>2. i \in S
      BY <2>3, <3>1
    <3> QED
      BY <3>2 DEF S
  <2> QED
    BY <2>4
<1>15. F \in [0..n -> P]
  BY <1>11, <1>14
<1> QED
  BY <1>0, <1>13, <1>15 DEF After, n, step

\* All that was saved further inside is put back.
LEMMA RestoreAllGood ==
    ASSUME NEW t, NEW opts, NEW top \in 0 .. MaxLevel, NEW lev \in 0 .. MaxLevel,
           lev <= top, Good(t, top)
    PROVE  Good(RestoreAll(t, opts, lev), lev)
<1> DEFINE P == {r \in TrapsRecord : Good(r, top)}
           n == Len(t.saved)
           Stop(r) == r.saved = <<>> \/ ~(Head(r.saved).local > lev)
<1>1. t \in P /\ n \in Nat
  BY DEF Good, Tables, TrapsRecord
<1>2. ASSUME NEW r \in P
      PROVE  /\ Turn(r, opts, lev) \in P
             /\ Stop(r) => Turn(r, opts, lev) = r
             /\ ~Stop(r) => Len(Turn(r, opts, lev).saved) = Len(r.saved) - 1
  <2>1. CASE Stop(r)
    BY <2>1 DEF Turn
  <2>2. CASE ~Stop(r)
    <3>1. Good(Restore(r, opts, lev), top) /\ Restore(r, opts, lev).saved = Tail(r.saved)
      BY <2>2, RestoreGood
    <3>2. Turn(r, opts, lev) = Restore(r, opts, lev)
      BY <2>2 DEF Turn
    <3>3. Len(Tail(r.saved)) = Len(r.saved) - 1
      <4>1. r.saved \in Seq(Saved) /\ r.saved # <<>>
        BY <2>2 DEF TrapsRecord
      <4> QED
        BY <4>1
    <3> QED
      BY <2>2, <3>1, <3>2, <3>3 DEF Good, Tables
  <2> QED
    BY <2>1, <2>2
<1>3. Closed(P, opts, lev)
  BY <1>2 DEF Closed
<1>4. PICK f : After(f, P, t, opts, lev)
  <2> HIDE DEF P
  <2> QED
    BY <1>1, <1>3, RestoreAllIs
<1>5. /\ f \in [0 .. n -> P] /\ f[0] = t
      /\ \A i \in 1 .. n : f[i] = Turn(f[i - 1], opts, lev)
      /\ RestoreAll(t, opts, lev) = f[n]
  BY <1>4 DEF After
<1>6. \A r \in P : Len(r.saved) \in Nat
  BY DEF TrapsRecord
<1> HIDE DEF P, Stop
<1> DEFINE S == {i \in Nat : i <= n => Stop(f[i]) \/ Len(f[i].saved) <= n - i}
<1>7. 0 \in S
  BY <1>1, <1>5
<1>8. ASSUME NEW i \in Nat, i \in S PROVE i + 1 \in S
  <2>1. SUFFICES ASSUME i + 1 <= n PROVE Stop(f[i + 1]) \/ Len(f[i + 1].saved) <= n - (i + 1)
    OBVIOUS
  <2>2. f[i] \in P /\ f[i + 1] = Turn(f[i], opts, lev)
    <3>1. i \in 0 .. n /\ i + 1 \in 1 .. n /\ (i + 1) - 1 = i
      BY <1>1, <2>1
    <3> QED
      BY <1>5, <3>1
  <2>3. CASE Stop(f[i])
    BY <1>2, <2>2, <2>3
  <2>4. CASE ~Stop(f[i])
    <3>1. Len(f[i].saved) <= n - i
      BY <1>1, <1>8, <2>1, <2>4
    <3>2. Len(f[i + 1].saved) = Len(f[i].saved) - 1 /\ Len(f[i].saved) \in Nat
      BY <1>2, <1>6, <2>2, <2>4
    <3> QED
      BY <1>1, <3>1, <3>2
  <2> QED
    BY <2>3, <2>4
<1> HIDE DEF S
<1>9. n \in S
  BY <1>1, <1>7, <1>8, Induction
<1> DEFINE r == f[n]
<1>10. r \in P
  BY <1>1, <1>5
<1>11. Good(r, top) /\ r.saved \in Seq(Saved)
  BY <1>10 DEF P, TrapsRecord
<1>12. Stop(r)
  <2>1. Stop(r) \/ Len(r.saved) <= n - n
    BY <1>1, <1>9 DEF S
  <2>2. CASE Len(r.saved) <= n - n
    <3>1. Len(r.saved) = 0
      BY <1>1, <1>11, <2>2
    <3>2. r.saved = <<>>
      BY <1>11, <3>1
    <3> QED
      BY <3>2 DEF Stop
  <2> QED
    BY <2>1, <2>2
<1> HIDE DEF r
<1>13. Scoped(r, lev)
  <2>1. ASSUME NEW i \in 1 .. Len(r.saved) PROVE r.saved[i].local <= lev
    <3>1. \A k \in 1 .. Len(r.saved) : r.saved[k] \in Saved
      BY <1>11
    <3>2. 1 \in 1 .. Len(r.saved) /\ Head(r.saved) = r.saved[1] /\ r.saved # <<>>
      BY <1>11, <2>1
    <3>3. r.saved[1].local \in Nat /\ r.saved[i].local \in Nat /\ lev \in Nat
      BY <3>1, <3>2, TrapsAssumption DEF Saved
    <3>4. ~(r.saved[1].local > lev)
      BY <1>12, <3>2 DEF Stop
    <3>5. i = 1 \/ r.saved[1].local >= r.saved[i].local
      BY <1>11 DEF Good, Scoped
    <3> QED
      BY <3>3, <3>4, <3>5
  <2> QED
    BY <1>11, <2>1 DEF Good, Scoped
<1> QED
  BY <1>5, <1>11, <1>13 DEF Good, r

-----------------------------------------------------------------------------
(* Functions and traps that run.                                           *)

Trio == Trapped \X Lists \X Funcs
Founds == UNION {[D -> Trio] : D \in SUBSET AllSigs}
Frame == [kind : {"func", "trap"}, sig : AllSigs, inplace : BOOLEAN,
          options : SUBSET Options, found : Founds]

FuncSet(fs) == {i \in DOMAIN fs : fs[i].kind = "func"}
Level(fs) == Cardinality(FuncSet(fs))
Levels(f) == IF f.kind = "func" THEN 1 ELSE 0

LEMMA LevelAppend ==
    ASSUME NEW fs \in Seq(Frame), NEW f \in Frame
    PROVE  /\ Append(fs, f) \in Seq(Frame)
           /\ Level(fs) \in Nat
           /\ Level(Append(fs, f)) = Level(fs) + Levels(f)
<1> DEFINE n == Len(fs)
           g == Append(fs, f)
<1>1. n \in Nat /\ DOMAIN fs = 1 .. n
  OBVIOUS
<1>2. g \in Seq(Frame) /\ DOMAIN g = 1 .. (n + 1) /\ g[n + 1] = f /\ \A i \in 1 .. n : g[i] = fs[i]
  OBVIOUS
<1> HIDE DEF g, n
<1>3. IsFiniteSet(FuncSet(fs)) /\ n + 1 \notin FuncSet(fs)
  <2>1. IsFiniteSet(1 .. n)
    BY <1>1, FS_Interval
  <2>2. FuncSet(fs) \subseteq 1 .. n /\ n + 1 \notin 1 .. n
    BY <1>1 DEF FuncSet
  <2> QED
    BY <2>1, <2>2, FS_Subset
<1>4. FuncSet(g) = IF f.kind = "func" THEN FuncSet(fs) \cup {n + 1} ELSE FuncSet(fs)
  <2>1. \A i : i \in 1 .. (n + 1) <=> i \in 1 .. n \/ i = n + 1
    BY <1>1
  <2>2. \A i \in 1 .. n : i # n + 1
    BY <1>1
  <2> QED
    BY <1>1, <1>2, <2>1, <2>2 DEF FuncSet
<1>5. Cardinality(FuncSet(fs)) \in Nat
      /\ Cardinality(FuncSet(fs) \cup {n + 1}) = Cardinality(FuncSet(fs)) + 1
  BY <1>3, FS_AddElement, FS_CardinalityType
<1>6. Level(g) = Level(fs) + Levels(f)
  <2>1. CASE f.kind = "func"
    BY <1>4, <1>5, <2>1 DEF Level, Levels
  <2>2. CASE f.kind # "func"
    BY <1>4, <1>5, <2>2 DEF Level, Levels
  <2> QED
    BY <2>1, <2>2
<1> QED
  BY <1>2, <1>5, <1>6 DEF Level, g

LEMMA LevelBelow ==
    ASSUME NEW fs \in Seq(Frame), fs # <<>>
    PROVE  LET b == SubSeq(fs, 1, Len(fs) - 1)
               f == fs[Len(fs)]
           IN  b \in Seq(Frame) /\ f \in Frame /\ Level(b) \in Nat /\ Level(fs) = Level(b) + Levels(f)
<1> DEFINE b == SubSeq(fs, 1, Len(fs) - 1)
           f == fs[Len(fs)]
<1>1. b \in Seq(Frame) /\ f \in Frame /\ Len(fs) \in 1 .. Len(fs)
  OBVIOUS
<1>2. fs = Append(b, f)
  <2>1. Len(b) = Len(fs) - 1 /\ \A i \in 1 .. (Len(fs) - 1) : b[i] = fs[i]
    OBVIOUS
  <2>2. Append(b, f) \in Seq(Frame) /\ Len(Append(b, f)) = Len(fs)
    BY <1>1, <2>1
  <2>3. ASSUME NEW i \in 1 .. Len(fs) PROVE Append(b, f)[i] = fs[i]
    <3>1. CASE i = Len(fs)
      BY <1>1, <2>1, <3>1
    <3>2. CASE i # Len(fs)
      BY <1>1, <2>1, <3>2
    <3> QED
      BY <3>1, <3>2
  <2> HIDE DEF b, f
  <2> QED
    BY <2>2, <2>3, SeqEqual
<1> HIDE DEF b, f
<1>3. Level(Append(b, f)) = Level(b) + Levels(f) /\ Level(b) \in Nat
  BY <1>1, LevelAppend
<1> QED
  BY <1>1, <1>2, <1>3 DEF b, f

LEMMA WatchIs ==
    ASSUME NEW fs \in Seq(Frame), NEW opts
    PROVE  /\ Watch(fs, opts) \in Seq(Frame)
           /\ DOMAIN Watch(fs, opts) = DOMAIN fs
           /\ \A i \in DOMAIN fs : /\ Watch(fs, opts)[i].kind = fs[i].kind
                                   /\ Watch(fs, opts)[i].sig = fs[i].sig
                                   /\ Watch(fs, opts)[i].inplace = fs[i].inplace
                                   /\ Watch(fs, opts)[i].options = fs[i].options
           /\ Level(Watch(fs, opts)) = Level(fs)
<1> DEFINE n == Len(fs)
           cut(f) == [f EXCEPT !.found = Restrict(@, DOMAIN @ \cap Kept(opts))]
           w == Watch(fs, opts)
<1>1. n \in Nat /\ DOMAIN fs = 1 .. n /\ \A i \in 1 .. n : fs[i] \in Frame
  OBVIOUS
<1>2. ASSUME NEW f \in Frame
      PROVE  /\ cut(f) \in Frame /\ cut(f).kind = f.kind /\ cut(f).sig = f.sig
             /\ cut(f).inplace = f.inplace /\ cut(f).options = f.options
  <2> DEFINE found == Restrict(f.found, DOMAIN f.found \cap Kept(opts))
  <2>1. PICK D \in SUBSET AllSigs : f.found \in [D -> Trio]
    BY DEF Frame, Founds
  <2>2. found \in [D \cap Kept(opts) -> Trio]
    BY <2>1 DEF Restrict
  <2>3. found \in Founds
    BY <2>2 DEF Founds
  <2> HIDE DEF found
  <2>4. cut(f) = [f EXCEPT !.found = found]
    BY DEF Frame, found
  <2> QED
    BY <2>3, <2>4 DEF Frame
<1>3. w = [i \in 1 .. n |-> cut(fs[i])]
  BY <1>1 DEF Watch
<1> HIDE DEF cut
<1>4. w \in [1 .. n -> Frame] /\ DOMAIN w = 1 .. n /\ \A i \in 1 .. n : w[i] = cut(fs[i])
  BY <1>1, <1>2, <1>3
<1>5. w \in Seq(Frame)
  BY <1>1, <1>4
<1>6. \A i \in 1 .. n : /\ w[i].kind = fs[i].kind /\ w[i].sig = fs[i].sig
                        /\ w[i].inplace = fs[i].inplace /\ w[i].options = fs[i].options
  BY <1>1, <1>2, <1>4
<1> HIDE DEF w
<1>7. FuncSet(w) = FuncSet(fs)
  BY <1>1, <1>4, <1>6 DEF FuncSet
<1> QED
  BY <1>1, <1>4, <1>5, <1>6, <1>7 DEF Level, w

LEMMA FuncFrameIs ==
    ASSUME NEW t \in TrapsRecord, NEW opts \in SUBSET Options
    PROVE  FuncFrame(t, opts) \in Frame /\ FuncFrame(t, opts).kind = "func"
<1> DEFINE D == Kept(opts) \ (IF t.posix THEN {"EXIT"} ELSE {})
           found == Restrict(Found(t), D)
<1>1. D \in SUBSET AllSigs
  BY DEF Kept, AllSigs
<1>2. \A s \in AllSigs : Found(t)[s] \in Trio
  BY DEF Found, Trio, TrapsRecord
<1> HIDE DEF D
<1>3. found = [s \in D |-> Found(t)[s]]
  BY DEF Restrict
<1>4. found \in [D -> Trio]
  BY <1>1, <1>2, <1>3
<1>5. found \in Founds /\ "EXIT" \in AllSigs
  BY <1>1, <1>4 DEF Founds, AllSigs
<1> HIDE DEF found
<1>6. FuncFrame(t, opts) = [kind |-> "func", sig |-> "EXIT", inplace |-> FALSE, options |-> opts,
                            found |-> found]
  BY DEF FuncFrame, found, D
<1> QED
  BY <1>5, <1>6 DEF Frame

LEMMA TrapFrameIs ==
    ASSUME NEW sig \in AllSigs, NEW inplace \in BOOLEAN
    PROVE  TrapFrame(sig, inplace) \in Frame /\ TrapFrame(sig, inplace).kind = "trap"
<1>1. <<>> \in Founds
  <2>1. <<>> \in Seq(Trio) /\ Len(<<>>) = 0
    OBVIOUS
  <2>2. <<>> \in [1 .. 0 -> Trio]
    BY <2>1
  <2>3. 1 .. 0 \in SUBSET AllSigs
    OBVIOUS
  <2> QED
    BY <2>2, <2>3 DEF Founds
<1>2. {} \in SUBSET Options
  OBVIOUS
<1> QED
  BY <1>1, <1>2 DEF TrapFrame, Frame

LEMMA RunTrapIs ==
    ASSUME NEW fs \in Seq(Frame), NEW t \in TrapsRecord, NEW opts \in SUBSET Options,
           NEW sig \in AllSigs, NEW inplace \in BOOLEAN, NEW func \in BOOLEAN
    PROVE  LET r == RunTrap(fs, t, opts, sig, inplace, func)
           IN  /\ r \in Seq(Frame)
               /\ Level(r) = Level(fs) + (IF func THEN 1 ELSE 0)
<1> DEFINE a == Append(fs, TrapFrame(sig, inplace))
           b == Append(a, FuncFrame(t, opts))
<1>1. a \in Seq(Frame) /\ Level(a) = Level(fs) /\ Level(fs) \in Nat
  <2>1. Level(fs) + 0 = Level(fs) /\ Levels(TrapFrame(sig, inplace)) = 0
    <3>1. Level(fs) \in Nat
      BY TrapFrameIs, LevelAppend
    <3> QED
      BY <3>1, TrapFrameIs DEF Levels
  <2> QED
    BY <2>1, TrapFrameIs, LevelAppend
<1> HIDE DEF a
<1>2. FuncFrame(t, opts) \in Frame /\ Levels(FuncFrame(t, opts)) = 1
  BY FuncFrameIs DEF Levels
<1>3. b \in Seq(Frame) /\ Level(b) = Level(a) + 1
  BY <1>1, <1>2, LevelAppend
<1>4. CASE func
  <2>1. a \o <<FuncFrame(t, opts)>> = b
    BY <1>1, <1>2
  <2> QED
    BY <1>1, <1>3, <1>4, <2>1 DEF RunTrap, a
<1>5. CASE ~func
  <2>1. a \o <<>> = a
    BY <1>1
  <2> QED
    BY <1>1, <1>5, <2>1 DEF RunTrap, a
<1> QED
  BY <1>4, <1>5

-----------------------------------------------------------------------------
(* The inductive invariant.                                                *)

IInv ==
    /\ frames \in Seq(Frame)
    /\ options \in SUBSET Options
    /\ locallevel \in 0 .. MaxLevel
    /\ Good(Traps, locallevel)

LEMMA Levelled == locallevel = Level(frames) /\ locallevel' = Level(frames')
BY DEF locallevel, Level, FuncSet

\* A state of the tables is what it is made of.
LEMMA Becomes ==
    ASSUME NEW t \in TrapsRecord, NEW lev, Become(t), Good(t, lev)
    PROVE  Good(Traps', lev)
<1>1. Traps' = [trapped |-> t.trapped, lists |-> t.lists, funcs |-> t.funcs,
                saved |-> t.saved, posix |-> t.posix, n |-> t.n]
  BY DEF Traps, Become
<1>2. Traps' = t
  BY <1>1 DEF TrapsRecord
<1> QED
  BY <1>2

\* A step that changes traps only.
LEMMA TrapStep ==
    ASSUME IInv, NEW t, Become(t), Good(t, locallevel), UNCHANGED <<options, frames>>
    PROVE  IInv'
<1>1. t \in TrapsRecord /\ locallevel' = locallevel
  BY DEF Good, Tables, locallevel
<1>2. Good(Traps', locallevel')
  BY <1>1, Becomes
<1> QED
  BY <1>1, <1>2 DEF IInv

LEMMA ChangeKeeps == IInv /\ Change => IInv'
<1> SUFFICES ASSUME IInv, Change PROVE IInv'
  OBVIOUS
<1>1. Good(Traps, locallevel) /\ locallevel \in 0 .. MaxLevel
  BY DEF IInv
<1>2. PICK sig \in AllSigs : \/ \E l \in Bodies \cup {"empty"} : trap(sig, l)
                             \/ unsettrap(sig)
                             \/ \E b \in Bodies : execfuncdef(sig, b)
                             \/ removeshfuncnode(sig)
  BY DEF Change
<1>3. ASSUME NEW l \in Bodies \cup {"empty"}, trap(sig, l) PROVE IInv'
  BY <1>1, <1>3, settrapGood, TrapStep DEF trap
<1>4. CASE unsettrap(sig) \/ removeshfuncnode(sig)
  <2>1. Good(removetrap(Traps, options, sig, locallevel), locallevel)
    BY <1>1, removetrapGood
  <2>2. Become(removetrap(Traps, options, sig, locallevel)) /\ UNCHANGED <<options, frames>>
    BY <1>4 DEF unsettrap, removeshfuncnode
  <2> QED
    BY <2>1, <2>2, TrapStep
<1>5. ASSUME NEW b \in Bodies, execfuncdef(sig, b) PROVE IInv'
  BY <1>1, <1>5, FuncGood, TrapStep DEF execfuncdef
<1> QED
  BY <1>2, <1>3, <1>4, <1>5

\* Frames that are watched.
LEMMA setoptKeeps == ASSUME NEW opt \in Options, IInv, setopt(opt) PROVE IInv'
<1>1. /\ options' \in SUBSET Options
      /\ frames' = Watch(frames, options')
      /\ UNCHANGED trapVars
  BY DEF setopt, IInv
<1>2. frames' \in Seq(Frame) /\ locallevel' = locallevel
  BY <1>1, WatchIs, Levelled DEF IInv
<1>3. Traps' = Traps
  BY <1>1 DEF Traps, trapVars
<1>4. Good(Traps', locallevel')
  BY <1>2, <1>3 DEF IInv
<1> QED
  BY <1>1, <1>2, <1>4 DEF IInv

\* Entries of a level are entries up to the next one.
LEMMA GoodHigher ==
    ASSUME NEW t, NEW lev \in 0 .. MaxLevel, NEW top \in 0 .. MaxLevel, lev <= top, Good(t, lev)
    PROVE  Good(t, top)
<1>1. t \in TrapsRecord
  BY DEF Good, Tables
<1>2. ASSUME NEW i \in 1 .. Len(t.saved) PROVE t.saved[i].local <= top
  <2>1. t.saved[i] \in Saved
    BY <1>1 DEF TrapsRecord
  <2>2. t.saved[i].local \in Nat /\ lev \in Nat /\ top \in Nat
    BY <2>1, TrapsAssumption DEF Saved
  <2> QED
    BY <2>2 DEF Good, Scoped
<1> QED
  BY <1>2 DEF Good, Scoped

LEMMA CallKeeps == IInv /\ Call => IInv'
<1> SUFFICES ASSUME IInv, Call PROVE IInv'
  OBVIOUS
<1> DEFINE t == starttrapscope(Traps, options)
           lev == locallevel + 1
<1>1. lev \in 0 .. MaxLevel /\ locallevel \in 0 .. MaxLevel /\ locallevel <= lev
  BY TrapsAssumption DEF IInv, Call
<1>2. Good(Traps, lev) /\ Traps \in TrapsRecord
  BY <1>1, GoodHigher DEF IInv, Good, Tables
<1>3. Good(t, lev)
  <2>1. "EXIT" \in AllSigs
    BY DEF AllSigs
  <2>2. Good(removetrap(Traps, options, "EXIT", lev), lev)
    BY <1>1, <1>2, <2>1, removetrapGood
  <2> QED
    BY <1>2, <2>2 DEF starttrapscope
<1>4. frames' \in Seq(Frame) /\ locallevel' = lev
  <2>1. frames \in Seq(Frame) /\ options \in SUBSET Options
        /\ frames' = Append(frames, FuncFrame(Traps, options))
    BY DEF IInv, Call
  <2>2. FuncFrame(Traps, options) \in Frame /\ Levels(FuncFrame(Traps, options)) = 1
    BY <1>2, <2>1, FuncFrameIs DEF Levels
  <2>3. Append(frames, FuncFrame(Traps, options)) \in Seq(Frame)
        /\ Level(Append(frames, FuncFrame(Traps, options))) = Level(frames) + 1
    BY <2>1, <2>2, LevelAppend
  <2> QED
    BY <2>1, <2>3, Levelled
<1> HIDE DEF t, lev
<1>5. Become(t) /\ options' = options
  BY DEF Call, t
<1>6. t \in TrapsRecord
  BY <1>3 DEF Good, Tables
<1>7. Good(Traps', lev)
  BY <1>3, <1>5, <1>6, Becomes
<1> QED
  BY <1>1, <1>4, <1>5, <1>7 DEF IInv

-----------------------------------------------------------------------------
(* Returns, and traps that run.                                            *)

\* A trap is gone without being saved.
LEMMA ClearGood ==
    ASSUME NEW t, NEW sig \in AllSigs, NEW lev, Good(t, lev)
    PROVE  Good(Clear(t, sig), lev)
<1> DEFINE r == Clear(t, sig)
           func == "FUNC" \in t.trapped[sig].flags
<1>0. t \in TrapsRecord /\ Tables(t) /\ Scoped(t, lev) /\ Later(t) /\ SigOK(t, sig)
  BY DEF Good, Tables
<1>1. /\ Differs(t, r, sig)
      /\ r.trapped[sig] = Zero
      /\ r.funcs[sig] = IF func THEN "none" ELSE t.funcs[sig]
      /\ r.lists[sig] = IF func THEN t.lists[sig] ELSE "none"
      /\ r.posix = (t.posix /\ sig # "EXIT")
      /\ r.n = t.n - Counts(t.trapped[sig])
  BY <1>0, ClearIs
<1> HIDE DEF r
<1>2. SigOK(r, sig)
  BY <1>0, <1>1, ZeroIs, TrapsAssumption DEF SigOK
<1>3. r.n = t.n - Counts(t.trapped[sig]) + Counts(r.trapped[sig])
  <2>1. t.n - Counts(t.trapped[sig]) \in Int
    BY <1>0 DEF TrapsRecord, Counts
  <2> QED
    BY <1>1, <2>1, ZeroIs
<1>4. \A i \in 1 .. Len(t.saved) : Replaced(r.trapped[sig], r.posix, t.saved[i])
  BY <1>1 DEF Replaced
<1> QED
  BY <1>0, <1>1, <1>2, <1>3, <1>4, DiffersTables, DiffersScoped, DiffersLater DEF Good, r

LEMMA endtrapscopeGood ==
    ASSUME NEW t, NEW opts, NEW top \in 0 .. MaxLevel, NEW lev \in 0 .. MaxLevel,
           lev <= top, Good(t, top)
    PROVE  Good(endtrapscope(t, opts, lev), lev)
<1> DEFINE a == IF exittr = Zero THEN t ELSE Clear(t, "EXIT")
<1>1. "EXIT" \in AllSigs
  BY DEF AllSigs
<1>2. Good(a, top)
  BY <1>1, ClearGood
<1> HIDE DEF a
<1>3. Good(RestoreAll(a, opts, lev), lev)
  BY <1>2, RestoreAllGood
<1> QED
  BY <1>3 DEF endtrapscope, a

LEMMA ReturnKeeps == IInv /\ Return => IInv'
<1> SUFFICES ASSUME IInv, Return PROVE IInv'
  OBVIOUS
<1> DEFINE t == endtrapscope(Traps, options', locallevel - 1)
           func == "FUNC" \in exittr.flags
           exitfn == IF func THEN shfunctab["EXIT"] ELSE siglists["EXIT"]
           runs == exittr # Zero /\ "IGNORED" \notin exittr.flags /\ exitfn # "none"
           callers == Watch(Below, options')
           ran == RunTrap(callers, t, options', "EXIT", FALSE, func)
           lev == locallevel - 1
<1>1. /\ frames \in Seq(Frame) /\ options \in SUBSET Options
      /\ locallevel \in 0 .. MaxLevel /\ Good(Traps, locallevel)
      /\ frames # <<>> /\ Top.kind = "func" /\ MaxLevel \in Nat
  BY TrapsAssumption DEF IInv, Return
<1>2. /\ Below \in Seq(Frame) /\ Top \in Frame /\ Level(Below) \in Nat
      /\ Level(frames) = Level(Below) + Levels(Top)
  BY <1>1, LevelBelow DEF Below, Top
<1>3. lev \in 0 .. MaxLevel /\ lev <= locallevel /\ Level(Below) = lev
  BY <1>1, <1>2, Levelled DEF Levels
<1>4. options' \in SUBSET Options
  BY <1>1, <1>2 DEF Return, Frame
<1>5. Good(t, lev)
  BY <1>1, <1>3, endtrapscopeGood
<1>6. callers \in Seq(Frame) /\ Level(callers) = lev
  BY <1>2, <1>3, WatchIs
<1> HIDE DEF callers, t
<1>7. t \in TrapsRecord
  BY <1>5 DEF Good, Tables
<1>8. ran \in Seq(Frame) /\ Level(ran) = lev + (IF func THEN 1 ELSE 0)
  <2>1. "EXIT" \in AllSigs /\ FALSE \in BOOLEAN /\ func \in BOOLEAN
    BY DEF AllSigs
  <2> HIDE DEF func
  <2>2. /\ RunTrap(callers, t, options', "EXIT", FALSE, func) \in Seq(Frame)
        /\ Level(RunTrap(callers, t, options', "EXIT", FALSE, func))
             = Level(callers) + (IF func THEN 1 ELSE 0)
    BY <1>4, <1>6, <1>7, <2>1, RunTrapIs, ZenonT(60)
  <2> QED
    BY <1>6, <2>2
<1> HIDE DEF ran, lev
<1>9. Become(t) /\ frames' = IF runs THEN ran ELSE callers
  BY DEF Return, t, callers, ran, lev
<1> HIDE DEF runs, func
<1>10. Good(Traps', lev)
  BY <1>5, <1>7, <1>9, Becomes
<1>11. frames' \in Seq(Frame) /\ locallevel' \in {lev, lev + 1}
  <2>1. lev \in Int
    BY <1>3
  <2> QED
    BY <1>6, <1>8, <1>9, <2>1, Levelled
<1>12. lev \in 0 .. MaxLevel /\ lev + 1 \in 0 .. MaxLevel /\ lev <= lev + 1
  BY <1>1, <1>3 DEF lev
<1>13. Good(Traps', lev + 1)
  BY <1>10, <1>12, GoodHigher
<1> QED
  BY <1>4, <1>10, <1>11, <1>12, <1>13 DEF IInv

\* The flag ZSIG_IGNORED of a trap is set or cleared.
LEMMA FlagGood ==
    ASSUME NEW t, NEW lev, Good(t, lev), NEW sig \in AllSigs, NEW flags \in SUBSET Flags,
           flags \cup {"IGNORED"} = t.trapped[sig].flags \cup {"IGNORED"},
           [flags |-> flags, level |-> t.trapped[sig].level] = Zero <=> t.trapped[sig] = Zero
    PROVE  Good([t EXCEPT !.trapped[sig].flags = flags], lev)
<1> DEFINE v == [flags |-> flags, level |-> t.trapped[sig].level]
           r == [t EXCEPT !.trapped[sig].flags = flags]
<1>1. t \in TrapsRecord /\ Tables(t) /\ Scoped(t, lev) /\ Later(t) /\ SigOK(t, sig)
      /\ t.trapped \in [AllSigs -> Trapped] /\ t.trapped[sig] \in Trapped
  BY DEF Good, Tables, TrapsRecord
<1>2. v \in Trapped /\ [t.trapped[sig] EXCEPT !.flags = flags] = v
  BY <1>1 DEF Trapped
<1>3. /\ "FUNC" \in v.flags <=> "FUNC" \in t.trapped[sig].flags
      /\ "TRAPPED" \in v.flags <=> "TRAPPED" \in t.trapped[sig].flags
      /\ v.level = t.trapped[sig].level
      /\ v = Zero <=> t.trapped[sig] = Zero
  OBVIOUS
<1>4. r = [t EXCEPT !.trapped = [t.trapped EXCEPT ![sig] = v]]
  BY <1>1, <1>2 DEF TrapsRecord
<1> HIDE DEF v, r
<1>5. /\ r \in TrapsRecord /\ r.trapped = [t.trapped EXCEPT ![sig] = v] /\ r.lists = t.lists
      /\ r.funcs = t.funcs /\ r.saved = t.saved /\ r.posix = t.posix /\ r.n = t.n
  BY <1>1, <1>2, <1>4 DEF TrapsRecord
<1>6. r.trapped[sig] = v /\ \A s \in AllSigs \ {sig} : r.trapped[s] = t.trapped[s]
  BY <1>1, <1>5
<1>7. Differs(t, r, sig)
  BY <1>5, <1>6 DEF Differs
<1>8. SigOK(r, sig)
  BY <1>1, <1>3, <1>5, <1>6 DEF SigOK
<1>9. r.n = t.n - Counts(t.trapped[sig]) + Counts(r.trapped[sig])
  BY <1>1, <1>3, <1>5, <1>6 DEF Counts, TrapsRecord
<1>10. \A i \in 1 .. Len(t.saved) :
         t.saved[i].sig = sig => Replaced(r.trapped[sig], r.posix, t.saved[i])
  BY <1>1, <1>3, <1>5, <1>6 DEF Replaced, Later
<1> QED
  BY <1>1, <1>7, <1>8, <1>9, <1>10, DiffersTables, DiffersScoped, DiffersLater DEF Good, r

LEMMA dotrapKeeps == ASSUME NEW sig \in Sigs, IInv, dotrap(sig) PROVE IInv'
<1> DEFINE flags == sigtrapped[sig].flags \cup {"IGNORED"}
           t == [Traps EXCEPT !.trapped[sig].flags = flags]
           func == "FUNC" \in sigtrapped[sig].flags
           ran == RunTrap(frames, t, options, sig, TRUE, func)
<1>1. /\ frames \in Seq(Frame) /\ options \in SUBSET Options
      /\ locallevel \in 0 .. MaxLevel /\ Good(Traps, locallevel) /\ MaxLevel \in Nat
      /\ sig \in AllSigs /\ Traps.trapped = sigtrapped
  BY TrapsAssumption DEF IInv, AllSigs, Traps
<1>2. sigtrapped[sig] \in Trapped /\ sigtrapped[sig] # Zero
  BY <1>1 DEF Good, Tables, TrapsRecord, dotrap
<1>3. flags \in SUBSET Flags
  BY <1>2 DEF Trapped, Flags
<1>4. flags # Zero.flags
  BY ZeroIs
<1>5. [flags |-> flags, level |-> Traps.trapped[sig].level] # Zero
  BY <1>4 DEF Zero
<1>6. Good(t, locallevel)
  <2>1. flags \cup {"IGNORED"} = Traps.trapped[sig].flags \cup {"IGNORED"}
    BY <1>1
  <2> HIDE DEF flags
  <2> QED
    BY <1>1, <1>2, <1>3, <1>5, <2>1, FlagGood
<1>7. Become(t) /\ frames' = ran /\ UNCHANGED options
      /\ (func => locallevel < MaxLevel)
  <2>1. t = [Traps EXCEPT !.trapped[sig].flags = @ \cup {"IGNORED"}]
    BY DEF Traps
  <2> QED
    BY <2>1 DEF dotrap
<1> HIDE DEF t
<1>8. t \in TrapsRecord
  BY <1>6 DEF Good, Tables
<1>9. frames' \in Seq(Frame) /\ locallevel' = locallevel + (IF func THEN 1 ELSE 0)
  <2>1. func \in BOOLEAN /\ TRUE \in BOOLEAN
    OBVIOUS
  <2> HIDE DEF func
  <2>2. ran \in Seq(Frame) /\ Level(ran) = Level(frames) + (IF func THEN 1 ELSE 0)
    BY <1>1, <1>8, <2>1, RunTrapIs
  <2> QED
    BY <1>7, <2>2, Levelled
<1>10. Good(Traps', locallevel)
  BY <1>6, <1>7, <1>8, Becomes
<1>11. locallevel' \in 0 .. MaxLevel /\ locallevel <= locallevel'
  BY <1>1, <1>7, <1>9
<1>12. Good(Traps', locallevel')
  BY <1>1, <1>10, <1>11, GoodHigher
<1> QED
  BY <1>1, <1>7, <1>9, <1>11, <1>12 DEF IInv

LEMMA TrapEndKeeps == IInv /\ TrapEnd => IInv'
<1> SUFFICES ASSUME IInv, TrapEnd PROVE IInv'
  OBVIOUS
<1> DEFINE sig == Top.sig
           flags == sigtrapped[sig].flags \ {"IGNORED"}
           clears == Top.inplace /\ sigtrapped[Top.sig] # [flags |-> {"IGNORED"}, level |-> 0]
           a == [Traps EXCEPT !.trapped[Top.sig].flags = @ \ {"IGNORED"}]
           t == IF clears THEN a ELSE Traps
<1>1. /\ frames \in Seq(Frame) /\ options \in SUBSET Options
      /\ locallevel \in 0 .. MaxLevel /\ Good(Traps, locallevel) /\ MaxLevel \in Nat
      /\ frames # <<>> /\ Top.kind = "trap" /\ Traps.trapped = sigtrapped
  BY TrapsAssumption DEF IInv, TrapEnd, Traps
<1>2. /\ Below \in Seq(Frame) /\ Top \in Frame /\ Level(Below) \in Nat
      /\ Level(frames) = Level(Below) + Levels(Top)
  BY <1>1, LevelBelow DEF Below, Top
<1>3. sig \in AllSigs /\ Level(Below) = locallevel
  BY <1>1, <1>2, Levelled DEF Levels, Frame
<1>4. Good(t, locallevel)
  <2>1. CASE clears
    <3>1. sigtrapped[sig] \in Trapped
      BY <1>1, <1>3 DEF Good, Tables, TrapsRecord
    <3>2. flags \in SUBSET Flags
      BY <3>1 DEF Trapped
    <3>3. [flags |-> flags, level |-> sigtrapped[sig].level] = Zero <=> sigtrapped[sig] = Zero
      <4>1. sigtrapped[sig] = [flags |-> sigtrapped[sig].flags, level |-> sigtrapped[sig].level]
        BY <3>1 DEF Trapped
      <4>2. flags = {} => sigtrapped[sig].flags = {} \/ sigtrapped[sig].flags = {"IGNORED"}
        OBVIOUS
      <4>3. sigtrapped[sig] # [flags |-> {"IGNORED"}, level |-> 0]
        BY <2>1
      <4>4. sigtrapped[sig].flags = {} => flags = {}
        OBVIOUS
      <4> HIDE DEF flags, sig
      <4> QED
        BY <4>1, <4>2, <4>3, <4>4 DEF Zero
    <3>4. flags \cup {"IGNORED"} = Traps.trapped[sig].flags \cup {"IGNORED"}
      BY <1>1
    <3>5. a = [Traps EXCEPT !.trapped[sig].flags = flags]
      BY DEF Traps
    <3> HIDE DEF flags, sig, a
    <3>6. Good(a, locallevel)
      BY <1>1, <1>3, <3>2, <3>3, <3>4, <3>5, FlagGood
    <3> QED
      BY <2>1, <3>6
  <2>2. CASE ~clears
    BY <1>1, <2>2
  <2> QED
    BY <2>1, <2>2
<1>5. Become(t) /\ frames' = Below /\ UNCHANGED options
  BY DEF TrapEnd
<1> HIDE DEF t
<1>6. Good(Traps', locallevel)
  <2>1. t \in TrapsRecord
    BY <1>4 DEF Good, Tables
  <2> QED
    BY <1>4, <1>5, <2>1, Becomes
<1>7. locallevel' = locallevel
  BY <1>3, <1>5, Levelled
<1> QED
  BY <1>1, <1>2, <1>5, <1>6, <1>7 DEF IInv

-----------------------------------------------------------------------------
(* The theorems.                                                           *)

LEMMA InitKeeps == Init => IInv
<1> SUFFICES ASSUME Init PROVE IInv
  OBVIOUS
<1>1. frames = <<>> /\ frames \in Seq(Frame)
  BY DEF Init
<1>2. locallevel = 0
  <2>1. {i \in DOMAIN frames : frames[i].kind = "func"} = {}
    BY <1>1
  <2> QED
    BY <2>1, FS_EmptySet DEF locallevel
<1>3. locallevel \in 0 .. MaxLevel
  BY <1>2, TrapsAssumption
<1> DEFINE t == Traps
<1>4. /\ t.trapped = [s \in AllSigs |-> Zero] /\ t.lists = [s \in AllSigs |-> "none"]
      /\ t.funcs = [s \in AllSigs |-> "none"] /\ t.saved = <<>> /\ t.n = 0
  BY DEF Init, Traps
<1>5. t \in TrapsRecord
  <2>1. /\ sigtrapped \in [AllSigs -> Trapped] /\ siglists \in [AllSigs -> Lists]
        /\ shfunctab \in [AllSigs -> Funcs]
    BY ZeroIs DEF Init, Lists, Funcs
  <2>2. savetraps \in Seq(Saved)
    BY DEF Init
  <2>3. exit_trap_posix \in BOOLEAN
    BY Zenon DEF Init
  <2>4. nsigtrapped \in Int
    BY DEF Init
  <2> QED
    BY <2>1, <2>2, <2>3, <2>4, Zenon DEF Traps, TrapsRecord
<1>6. \A s \in AllSigs : SigOK(t, s)
  BY <1>4, ZeroIs, TrapsAssumption DEF SigOK
<1>7. t.n = Cardinality(Counting(t.trapped))
  <2>1. Counting(t.trapped) = {}
    BY <1>4, ZeroIs DEF Counting
  <2> QED
    BY <1>4, <2>1, FS_EmptySet
<1>8. 1 .. Len(t.saved) = {}
  BY <1>4
<1> HIDE DEF t
<1>9. Good(t, locallevel)
  BY <1>5, <1>6, <1>7, <1>8 DEF Good, Tables, Scoped, Later
<1> QED
  BY <1>1, <1>3, <1>9 DEF IInv, t, Init

LEMMA NextKeeps == IInv /\ [Next]_vars => IInv'
<1> SUFFICES ASSUME IInv, [Next]_vars PROVE IInv'
  OBVIOUS
<1>1. CASE Change
  BY <1>1, ChangeKeeps
<1>2. ASSUME NEW opt \in Options, setopt(opt) PROVE IInv'
  BY <1>2, setoptKeeps
<1>3. CASE Call
  BY <1>3, CallKeeps
<1>4. CASE Return
  BY <1>4, ReturnKeeps
<1>5. ASSUME NEW sig \in Sigs, dotrap(sig) PROVE IInv'
  BY <1>5, dotrapKeeps
<1>6. CASE TrapEnd
  BY <1>6, TrapEndKeeps
<1>7. CASE UNCHANGED vars
  <2>1. Traps' = Traps /\ frames' = frames /\ options' = options
    BY <1>7 DEF vars, trapVars, Traps
  <2>2. locallevel' = locallevel
    BY <2>1 DEF locallevel
  <2> QED
    BY <2>1, <2>2 DEF IInv
<1> QED
  BY <1>1, <1>2, <1>3, <1>4, <1>5, <1>6, <1>7 DEF Next

LEMMA Invariance == Spec => []IInv
<1>1. Init => IInv
  BY InitKeeps
<1>2. IInv /\ [Next]_vars => IInv'
  BY NextKeeps
<1> QED
  BY <1>1, <1>2, PTL DEF Spec

LEMMA InvTypeOK == IInv => TypeOK
<1> SUFFICES ASSUME IInv PROVE TypeOK
  OBVIOUS
<1> DEFINE t == Traps
<1>1. /\ t \in TrapsRecord /\ t.n = Cardinality(Counting(t.trapped))
      /\ options \in SUBSET Options /\ locallevel \in 0 .. MaxLevel
  BY DEF IInv, Good, Tables
<1>2. /\ t.trapped = sigtrapped /\ t.lists = siglists /\ t.funcs = shfunctab
      /\ t.saved = savetraps /\ t.posix = exit_trap_posix /\ t.n = nsigtrapped
  BY DEF Traps
<1> HIDE DEF t
<1>3. /\ sigtrapped \in [AllSigs -> Trapped] /\ siglists \in [AllSigs -> Lists]
      /\ shfunctab \in [AllSigs -> Funcs] /\ savetraps \in Seq(Saved)
      /\ exit_trap_posix \in BOOLEAN
  BY <1>1, <1>2 DEF TrapsRecord
<1>4. nsigtrapped \in 0 .. Cardinality(AllSigs)
  <2>1. Counting(sigtrapped) \subseteq AllSigs
    BY DEF Counting
  <2>2. /\ Cardinality(AllSigs) \in Nat /\ IsFiniteSet(Counting(sigtrapped))
        /\ Cardinality(Counting(sigtrapped)) <= Cardinality(AllSigs)
    BY <2>1, AllSigsFinite, FS_Subset, FS_CardinalityType
  <2>3. Cardinality(Counting(sigtrapped)) \in Nat
    BY <2>2, FS_CardinalityType
  <2> QED
    BY <1>1, <1>2, <2>2, <2>3
<1>5. ASSUME NEW i \in DOMAIN savetraps PROVE savetraps[i] \in Saved
  BY <1>3
<1>6. locallevel <= MaxLevel
  BY <1>1, TrapsAssumption
<1> QED
  BY <1>1, <1>3, <1>4, <1>5, <1>6 DEF TypeOK, Funcs, Saved

\* Every trap and every saved trap is well formed, whatever traps are set,
\* saved, put back and run (Src/signals.c).
THEOREM TypesCorrect == Spec => []TypeOK
BY Invariance, InvTypeOK, PTL

LEMMA InvTables == IInv => TrapTablesAgree
<1> SUFFICES ASSUME IInv PROVE TrapTablesAgree
  OBVIOUS
<1>1. /\ \A s \in AllSigs : SigOK(Traps, s)
      /\ Traps.n = Cardinality(Counting(Traps.trapped))
  BY DEF IInv, Good, Tables
<1>2. /\ Traps.trapped = sigtrapped /\ Traps.lists = siglists /\ Traps.funcs = shfunctab
      /\ Traps.n = nsigtrapped
  BY DEF Traps
<1> QED
  BY <1>1, <1>2 DEF TrapTablesAgree, SigOK, Counting

\* The assertions "BUG: ..." of settrap(), unsettrap() and endtrapscope()
\* (Src/signals.c) never fail: flags, lists, functions and the number of
\* trapped signals agree, though a trap may be changed while it runs.
THEOREM TablesAgree == Spec => []TrapTablesAgree
BY Invariance, InvTables, PTL

LEMMA InvScope == IInv => SavedTrapsInScope
<1> SUFFICES ASSUME IInv, NEW i \in DOMAIN savetraps
             PROVE  /\ savetraps[i].local \in 1 .. locallevel
                    /\ \A k \in DOMAIN savetraps :
                          k < i => savetraps[k].local >= savetraps[i].local
  BY DEF SavedTrapsInScope
<1>1. /\ Scoped(Traps, locallevel) /\ Traps.saved = savetraps /\ locallevel \in 0 .. MaxLevel
      /\ MaxLevel \in Nat
  BY TrapsAssumption DEF IInv, Good, Traps
<1>2. savetraps \in Seq(Saved)
  BY DEF IInv, Good, Tables, TrapsRecord, Traps
<1>3. DOMAIN savetraps = 1 .. Len(savetraps) /\ savetraps[i] \in Saved
  BY <1>2
<1>4. savetraps[i].local \in 1 .. MaxLevel
  BY <1>3 DEF Saved
<1>5. \A k \in 1 .. Len(savetraps) : k < i => k \in 1 .. (i - 1)
  BY <1>2, <1>3
<1> QED
  BY <1>1, <1>3, <1>4, <1>5 DEF Scoped

\* endtrapscope() (Src/signals.c) puts back every trap saved for the level
\* that ends, and none is left outside all functions: saved traps belong to
\* functions that still run, the innermost in front.
THEOREM SavedInScope == Spec => []SavedTrapsInScope
BY Invariance, InvScope, PTL

-----------------------------------------------------------------------------
(* What a function found, and what its return puts back.                   *)

\* What an entry of savetraps stands for, as Found() has it.
Value(st) ==
    IF st.was = Zero THEN <<Zero, "none", "none">>
    ELSE IF "FUNC" \in st.was.flags THEN <<st.was, "none", st.list>>
    ELSE <<st.was, st.list, "none">>

\* The trap of s in force; while it runs it is ignored.
Now(t, s, runs) ==
    <<IF runs THEN [t.trapped[s] EXCEPT !.flags = @ \ {"IGNORED"}] ELSE t.trapped[s],
      t.lists[s], t.funcs[s]>>

\* The entries for s of the level d or further inside: the last of them is
\* the first that was saved.
Own(t, s, d) == {i \in 1 .. Len(t.saved) : t.saved[i].sig = s /\ t.saved[i].local >= d}

\* The return to the level before d leaves v as the trap of s.
Back(t, s, d, v, runs) ==
    /\ Own(t, s, d) = {} => Now(t, s, runs) = v
    /\ \A i \in Own(t, s, d) : (\A k \in Own(t, s, d) : k <= i) => Value(t.saved[i]) = v

\* The trap on EXIT and those saved have been set without POSIX_TRAPS.
Plain(t, d) == ~t.posix /\ \A i \in Own(t, "EXIT", d) : ~t.saved[i].posix

\* A trap on EXIT with a level has taken the place of one saved there, or
\* further inside.
Further(t, d, i) == \E k \in Own(t, "EXIT", d) : k > i
Above(t, level, i) == level > 0 => Further(t, level, i)
AboveAll(t) ==
    \A i \in Own(t, "EXIT", 1) : /\ t.saved[i].posix => t.saved[i].was.level = 0
                                /\ Above(t, t.saved[i].was.level, i)
Exit(t) ==
    /\ t.posix => t.trapped["EXIT"].level = 0
    /\ Above(t, t.trapped["EXIT"].level, 0)
    /\ AboveAll(t)

\* The trap on EXIT that a function at the level d clears as it returns is
\* its own: what it found has been saved.
ClearedAll(t, d) ==
    \A i \in Own(t, "EXIT", d + 1) :
        t.saved[i].was = Zero \/ t.saved[i].posix \/ Further(t, d, i)
Cleared(t, d) ==
    /\ t.trapped["EXIT"] = Zero \/ t.posix \/ Further(t, d, 0)
    /\ ClearedAll(t, d)

\* A function at the level d, the traps it found, those that run further
\* inside, and whether it is called outside of traps.
Holds(t, found, d, over) ==
    /\ "EXIT" \in DOMAIN found => Plain(t, d)
    /\ \A s \in DOMAIN found : s = "EXIT" \/ found[s][1].level < d
                                   => Back(t, s, d, found[s], s \in over)
Tied(t, opts, found, d, over, outside) ==
    /\ DOMAIN found \subseteq Kept(opts)
    /\ Holds(t, found, d, over)
    /\ outside => Cleared(t, d)

\* A trap that runs with the flags of sigtrapped[] is not touched.
Untouched(t, s, d) ==
    /\ "IGNORED" \in t.trapped[s].flags
    /\ t.trapped[s] # [flags |-> {"IGNORED"}, level |-> 0]
    /\ Own(t, s, d + 1) = {}

Depth(fs, j) == Cardinality({i \in 1 .. j : fs[i].kind = "func"})
InPlace(fs, k) == fs[k].kind = "trap" /\ fs[k].inplace
Over(fs, j) == {fs[k].sig : k \in {i \in (j + 1) .. Len(fs) : InPlace(fs, i)}}
Outside(fs, j) == \A i \in 1 .. j : fs[i].kind # "trap"

\* The frames fs, with traps on the signals more that run further inside.
Ties(t, opts, fs, more) ==
    /\ \A j \in 1 .. Len(fs) : fs[j].kind = "func"
           => Tied(t, opts, fs[j].found, Depth(fs, j), Over(fs, j) \cup more, Outside(fs, j))
    /\ \A k \in 1 .. Len(fs) : InPlace(fs, k)
           => fs[k].sig \in Sigs /\ fs[k].sig \notin Over(fs, k) \cup more
              /\ Untouched(t, fs[k].sig, Depth(fs, k))

TInv == Exit(Traps) /\ Ties(Traps, options, frames, {})

-----------------------------------------------------------------------------
(* An entry more, or one less.                                             *)

\* b has the entry st in front of those of a.
Pushed(a, b, st) ==
    /\ Len(b.saved) = Len(a.saved) + 1
    /\ b.saved[1] = st
    /\ \A i \in 1 .. Len(a.saved) : b.saved[i + 1] = a.saved[i]

LEMMA OwnIs ==
    ASSUME NEW t \in TrapsRecord, NEW s, NEW d
    PROVE  /\ Own(t, s, d) \subseteq 1 .. Len(t.saved)
           /\ Len(t.saved) \in Nat
           /\ \A i \in 1 .. Len(t.saved) : t.saved[i] \in Saved
BY DEF Own, TrapsRecord

LEMMA OwnPushed ==
    ASSUME NEW a \in TrapsRecord, NEW b \in TrapsRecord, NEW st, Pushed(a, b, st), NEW s, NEW d
    PROVE  /\ 1 \in Own(b, s, d) <=> st.sig = s /\ st.local >= d
           /\ \A i \in Own(a, s, d) :
                 i \in Nat /\ i >= 1 /\ i + 1 \in Own(b, s, d) /\ b.saved[i + 1] = a.saved[i]
           /\ \A i \in Own(b, s, d) :
                 i \in Nat /\ (i # 1 => /\ i - 1 \in Own(a, s, d) /\ i - 1 >= 1
                                        /\ b.saved[i] = a.saved[i - 1])
<1>1. /\ Len(a.saved) \in Nat /\ Len(b.saved) = Len(a.saved) + 1 /\ b.saved[1] = st
      /\ \A i \in 1 .. Len(a.saved) : b.saved[i + 1] = a.saved[i]
  BY OwnIs DEF Pushed
<1>2. 1 \in 1 .. Len(b.saved)
  BY <1>1
<1>3. ASSUME NEW i \in Own(a, s, d)
      PROVE  i \in Nat /\ i >= 1 /\ i + 1 \in Own(b, s, d) /\ b.saved[i + 1] = a.saved[i]
  <2>1. i \in 1 .. Len(a.saved) /\ a.saved[i].sig = s /\ a.saved[i].local >= d
    BY DEF Own
  <2>2. i \in Nat /\ i >= 1 /\ i + 1 \in 1 .. Len(b.saved) /\ b.saved[i + 1] = a.saved[i]
    BY <1>1, <2>1
  <2> QED
    BY <2>1, <2>2 DEF Own
<1>4. ASSUME NEW i \in Own(b, s, d)
      PROVE  i \in Nat /\ (i # 1 => /\ i - 1 \in Own(a, s, d) /\ i - 1 >= 1
                                    /\ b.saved[i] = a.saved[i - 1])
  <2>1. i \in 1 .. Len(b.saved) /\ b.saved[i].sig = s /\ b.saved[i].local >= d
    BY DEF Own
  <2>2. i \in Nat
    BY <2>1
  <2>3. ASSUME i # 1
        PROVE  i - 1 \in 1 .. Len(a.saved) /\ i - 1 >= 1 /\ b.saved[i] = a.saved[i - 1]
    <3>1. i - 1 \in 1 .. Len(a.saved) /\ (i - 1) + 1 = i /\ i - 1 >= 1
      BY <1>1, <2>1, <2>3
    <3>2. b.saved[(i - 1) + 1] = a.saved[i - 1]
      BY <1>1, <3>1
    <3> QED
      BY <3>1, <3>2
  <2> QED
    BY <2>1, <2>2, <2>3 DEF Own
<1>5. 1 \in Own(b, s, d) <=> st.sig = s /\ st.local >= d
  BY <1>1, <1>2 DEF Own
<1> QED
  BY <1>3, <1>4, <1>5

\* What the entry in front says when the trap in force is saved there.
LEMMA ValueEntry ==
    ASSUME NEW t \in TrapsRecord, NEW s \in AllSigs, SigOK(t, s), NEW lev
    PROVE  Value(Entry(t, s, lev)) = Now(t, s, FALSE)
<1> DEFINE st == Entry(t, s, lev)
           func == "FUNC" \in t.trapped[s].flags
<1>1. st.was = t.trapped[s] /\ st.list = IF func THEN t.funcs[s] ELSE t.lists[s]
  BY DEF Entry
<1> HIDE DEF st
<1>2. Now(t, s, FALSE) = <<t.trapped[s], t.lists[s], t.funcs[s]>>
  BY DEF Now
<1>3. CASE t.trapped[s] = Zero
  <2>1. t.lists[s] = "none" /\ t.funcs[s] = "none"
    BY <1>3, ZeroIs DEF SigOK
  <2> QED
    BY <1>1, <1>2, <1>3, <2>1 DEF Value, st
<1>4. CASE t.trapped[s] # Zero /\ func
  <2>1. t.lists[s] = "none"
    BY <1>4 DEF SigOK
  <2> QED
    BY <1>1, <1>2, <1>4, <2>1 DEF Value, st
<1>5. CASE t.trapped[s] # Zero /\ ~func
  <2>1. t.funcs[s] = "none"
    BY <1>5 DEF SigOK
  <2> QED
    BY <1>1, <1>2, <1>5, <2>1 DEF Value, st
<1> QED
  BY <1>3, <1>4, <1>5

\* An entry is put in front: either it is the one that counts now, and holds
\* what there was, or the trap of s has not changed.
LEMMA PushBack ==
    ASSUME NEW t \in TrapsRecord, NEW r \in TrapsRecord, NEW st, Pushed(t, r, st),
           NEW s, NEW d, NEW v, NEW runs, Back(t, s, d, v, runs),
           st.sig = s /\ st.local >= d => Value(st) = Now(t, s, runs),
           ~(st.sig = s /\ st.local >= d) => Now(r, s, runs) = Now(t, s, runs)
    PROVE  Back(r, s, d, v, runs)
<1>1. ASSUME Own(r, s, d) = {} PROVE Now(r, s, runs) = v
  <2>1. Own(t, s, d) = {} /\ 1 \notin Own(r, s, d)
    BY <1>1, OwnPushed
  <2> QED
    BY <2>1, OwnPushed DEF Back
<1>2. ASSUME NEW i \in Own(r, s, d), \A k \in Own(r, s, d) : k <= i
      PROVE  Value(r.saved[i]) = v
  <2>1. CASE i = 1
    <3>1. Own(t, s, d) = {}
      <4>1. ASSUME NEW k \in Own(t, s, d) PROVE FALSE
        <5>1. k + 1 \in Own(r, s, d) /\ k \in Nat /\ k >= 1
          BY OwnPushed
        <5>2. k + 1 <= 1
          BY <1>2, <2>1, <5>1
        <5> QED
          BY <5>1, <5>2
      <4> QED
        BY <4>1
    <3>2. st.sig = s /\ st.local >= d /\ r.saved[i] = st
      BY <2>1, OwnPushed DEF Pushed
    <3> QED
      BY <3>1, <3>2 DEF Back
  <2>2. CASE i # 1
    <3>1. i - 1 \in Own(t, s, d) /\ r.saved[i] = t.saved[i - 1] /\ i \in Nat
      BY <2>2, OwnPushed
    <3>2. ASSUME NEW k \in Own(t, s, d) PROVE k <= i - 1
      <4>1. k + 1 \in Own(r, s, d) /\ k \in Nat
        BY OwnPushed
      <4>2. k + 1 <= i
        BY <1>2, <4>1
      <4> QED
        BY <3>1, <4>1, <4>2
    <3> QED
      BY <3>1, <3>2 DEF Back
  <2> QED
    BY <2>1, <2>2
<1> QED
  BY <1>1, <1>2 DEF Back

\* The entries are those there were.
LEMMA SameBack ==
    ASSUME NEW t, NEW r, r.saved = t.saved, NEW s, NEW d, NEW v, NEW runs, NEW goes,
           Back(t, s, d, v, runs),
           Own(t, s, d) = {} /\ Now(t, s, runs) = v => Now(r, s, goes) = v
    PROVE  Back(r, s, d, v, goes)
BY DEF Back, Own

-----------------------------------------------------------------------------
(* A change of the trap of one signal.                                     *)

\* What removetrap() and settrap() make of t at the level lev.
Alters(t, r, opts, sig, lev) ==
    /\ r \in TrapsRecord
    /\ IF MustSave(t, opts, sig, lev) THEN Pushed(t, r, Entry(t, sig, lev))
                                      ELSE r.saved = t.saved
    /\ \A s \in AllSigs \ {sig} : /\ r.trapped[s] = t.trapped[s]
                                  /\ r.lists[s] = t.lists[s]
                                  /\ r.funcs[s] = t.funcs[s]
    /\ sig # "EXIT" => r.posix = t.posix
    /\ sig = "EXIT" =>
          \/ r.trapped[sig] = Zero /\ r.posix = FALSE
          \/ /\ r.trapped[sig].level = IF "POSIXTRAPS" \in opts THEN 0 ELSE lev
             /\ r.posix = ("POSIXTRAPS" \in opts)

LEMMA removetrapAlters ==
    ASSUME NEW t \in TrapsRecord, NEW opts, NEW sig \in AllSigs, NEW lev \in 0 .. MaxLevel
    PROVE  LET r == removetrap(t, opts, sig, lev)
           IN  /\ Alters(t, r, opts, sig, lev)
               /\ r.trapped[sig] = Zero
<1> DEFINE save == MustSave(t, opts, sig, lev)
           a == IF save THEN dosavetrap(t, sig, lev) ELSE t
           r == Clear(a, sig)
<1>1. save => lev \in 1 .. MaxLevel
  BY TrapsAssumption DEF MustSave
<1>2. a \in TrapsRecord /\ a.trapped = t.trapped /\ a.lists = t.lists /\ a.funcs = t.funcs
      /\ a.posix = t.posix
  BY <1>1, dosavetrapIs
<1>3. save => Pushed(t, a, Entry(t, sig, lev))
  BY <1>1, dosavetrapIs DEF Pushed
<1>4. ~save => a.saved = t.saved
  OBVIOUS
<1> HIDE DEF a
<1>5. /\ Differs(a, r, sig) /\ r.trapped[sig] = Zero /\ r.posix = (a.posix /\ sig # "EXIT")
  BY <1>2, ClearIs
<1> HIDE DEF r
<1>6. r \in TrapsRecord /\ r.saved = a.saved
  BY <1>5 DEF Differs
<1>7. IF save THEN Pushed(t, r, Entry(t, sig, lev)) ELSE r.saved = t.saved
  BY <1>3, <1>4, <1>6 DEF Pushed
<1>8. \A s \in AllSigs \ {sig} : /\ r.trapped[s] = t.trapped[s]
                                 /\ r.lists[s] = t.lists[s]
                                 /\ r.funcs[s] = t.funcs[s]
  BY <1>2, <1>5 DEF Differs
<1>9. (sig # "EXIT" => r.posix = t.posix) /\ (sig = "EXIT" => r.posix = FALSE)
  <2>1. sig # "EXIT" => r.posix = a.posix
    BY <1>5 DEF Differs
  <2>2. sig = "EXIT" => r.posix = FALSE
    BY <1>5
  <2> QED
    BY <1>2, <2>1, <2>2
<1>10. Alters(t, r, opts, sig, lev)
  <2> HIDE DEF save
  <2> QED
    BY <1>5, <1>6, <1>7, <1>8, <1>9 DEF Alters, save
<1> QED
  BY <1>5, <1>10 DEF removetrap, r, a

LEMMA SetAlters ==
    ASSUME NEW t \in TrapsRecord, NEW opts, NEW sig \in AllSigs, NEW lev \in 0 .. MaxLevel,
           NEW l \in Lists, NEW func \in BOOLEAN,
           NEW b \in Funcs, NEW q,
           Entered(settrap(t, opts, sig, l, func, lev), q, sig, b)
    PROVE  Alters(t, q, opts, sig, lev)
<1> DEFINE a == removetrap(t, opts, sig, lev)
           r == Set(a, opts, sig, l, func, lev)
<1>1. Alters(t, a, opts, sig, lev)
  BY removetrapAlters
<1> HIDE DEF a
<1>2. a \in TrapsRecord
  BY <1>1 DEF Alters
<1>3. IsSet(a, opts, sig, l, func, lev, r)
  BY <1>2, SetIs
<1>4. r = settrap(t, opts, sig, l, func, lev)
  BY DEF settrap, a
<1> HIDE DEF r
<1>5. /\ q \in TrapsRecord /\ q.saved = a.saved
      /\ q.trapped = r.trapped /\ q.lists = r.lists /\ q.posix = r.posix
      /\ q.funcs = [r.funcs EXCEPT ![sig] = b]
  BY <1>3, <1>4 DEF Entered, IsSet, Differs
<1>6. \A s \in AllSigs \ {sig} : /\ q.trapped[s] = t.trapped[s]
                                 /\ q.lists[s] = t.lists[s]
                                 /\ q.funcs[s] = t.funcs[s]
  <2> SUFFICES ASSUME NEW s \in AllSigs \ {sig}
               PROVE  /\ q.trapped[s] = t.trapped[s] /\ q.lists[s] = t.lists[s]
                      /\ q.funcs[s] = t.funcs[s]
    OBVIOUS
  <2>1. r.trapped[s] = a.trapped[s] /\ r.lists[s] = a.lists[s] /\ r.funcs[s] = a.funcs[s]
        /\ r.funcs \in [AllSigs -> Funcs]
    BY <1>3 DEF IsSet, Differs, TrapsRecord
  <2>2. a.trapped[s] = t.trapped[s] /\ a.lists[s] = t.lists[s] /\ a.funcs[s] = t.funcs[s]
    BY <1>1 DEF Alters
  <2>3. q.funcs[s] = r.funcs[s]
    BY <1>5, <2>1
  <2> QED
    BY <1>5, <2>1, <2>2, <2>3
<1>7. sig # "EXIT" => q.posix = t.posix
  BY <1>1, <1>3, <1>5 DEF IsSet, Differs, Alters
<1>8. ASSUME sig = "EXIT"
      PROVE  /\ q.trapped[sig].level = IF "POSIXTRAPS" \in opts THEN 0 ELSE lev
             /\ q.posix = ("POSIXTRAPS" \in opts)
  BY <1>3, <1>5, <1>8 DEF IsSet, PosixNow
<1>9. IF MustSave(t, opts, sig, lev) THEN Pushed(t, q, Entry(t, sig, lev))
                                     ELSE q.saved = t.saved
  <2>1. IF MustSave(t, opts, sig, lev) THEN Pushed(t, a, Entry(t, sig, lev))
                                       ELSE a.saved = t.saved
    BY <1>1 DEF Alters
  <2>2. Pushed(t, a, Entry(t, sig, lev)) => Pushed(t, q, Entry(t, sig, lev))
    BY <1>5 DEF Pushed
  <2> QED
    BY <1>5, <2>1, <2>2
<1> QED
  BY <1>5, <1>6, <1>7, <1>8, <1>9 DEF Alters

-----------------------------------------------------------------------------
(* The trap on EXIT.                                                       *)

LEMMA FurtherShift ==
    ASSUME NEW a \in TrapsRecord, NEW b \in TrapsRecord, NEW st, Pushed(a, b, st), NEW d,
           NEW i \in Nat
    PROVE  Further(b, d, i + 1) <=> Further(a, d, i)
<1>1. ASSUME NEW k \in Own(b, "EXIT", d), k > i + 1 PROVE Further(a, d, i)
  <2>1. k \in Nat /\ k # 1
    BY <1>1, OwnPushed
  <2>2. k - 1 \in Own(a, "EXIT", d) /\ k - 1 > i
    BY <1>1, <2>1, OwnPushed
  <2> QED
    BY <2>2 DEF Further
<1>2. ASSUME NEW k \in Own(a, "EXIT", d), k > i PROVE Further(b, d, i + 1)
  <2>1. k \in Nat /\ k + 1 \in Own(b, "EXIT", d)
    BY OwnPushed
  <2>2. k + 1 > i + 1
    BY <1>2, <2>1
  <2> QED
    BY <2>1, <2>2 DEF Further
<1> QED
  BY <1>1, <1>2 DEF Further

\* Some entry counts for more levels, and from the front.
LEMMA FurtherLess ==
    ASSUME NEW t \in TrapsRecord, NEW d \in Int, NEW e \in Int, d <= e, NEW i \in Nat,
           NEW j \in Nat, j <= i, Further(t, e, i)
    PROVE  Further(t, d, j)
<1>1. PICK k \in Own(t, "EXIT", e) : k > i
  BY DEF Further
<1>2. k \in 1 .. Len(t.saved) /\ t.saved[k].sig = "EXIT" /\ t.saved[k].local >= e
      /\ t.saved[k] \in Saved /\ Len(t.saved) \in Nat
  BY OwnIs DEF Own
<1>3. t.saved[k].local \in Int
  BY <1>2, TrapsAssumption DEF Saved
<1>4. k > j /\ t.saved[k].local >= d
  BY <1>1, <1>2, <1>3
<1> QED
  BY <1>2, <1>4 DEF Further, Own

LEMMA FurtherSame ==
    ASSUME NEW t, NEW r, r.saved = t.saved
    PROVE  /\ \A s, d : Own(r, s, d) = Own(t, s, d)
           /\ \A d, i : Further(r, d, i) <=> Further(t, d, i)
           /\ \A level, i : Above(r, level, i) <=> Above(t, level, i)
           /\ AboveAll(r) <=> AboveAll(t)
           /\ \A d : ClearedAll(r, d) <=> ClearedAll(t, d)
<1>1. \A s, d : Own(r, s, d) = Own(t, s, d)
  BY DEF Own
<1>2. \A d, i : Further(r, d, i) <=> Further(t, d, i)
  BY <1>1 DEF Further
<1>3. \A level, i : Above(r, level, i) <=> Above(t, level, i)
  BY <1>2 DEF Above
<1>4. AboveAll(r) <=> AboveAll(t)
  BY <1>1, <1>3 DEF AboveAll
<1>5. \A d : ClearedAll(r, d) <=> ClearedAll(t, d)
  BY <1>1, <1>2 DEF ClearedAll
<1> QED
  BY <1>1, <1>2, <1>3, <1>4, <1>5

LEMMA AboveShift ==
    ASSUME NEW a \in TrapsRecord, NEW b \in TrapsRecord, NEW st, Pushed(a, b, st), NEW level,
           NEW i \in Nat
    PROVE  Above(b, level, i + 1) <=> Above(a, level, i)
BY FurtherShift DEF Above

\* What holds of the entries of b holds of those of a, and of st.
LEMMA AllShift ==
    ASSUME NEW a \in TrapsRecord, NEW b \in TrapsRecord, NEW st \in Saved, Pushed(a, b, st)
    PROVE  /\ AboveAll(b) <=> /\ AboveAll(a)
                              /\ st.sig = "EXIT" => /\ st.posix => st.was.level = 0
                                                    /\ Above(a, st.was.level, 0)
           /\ \A d : ClearedAll(b, d) <=>
                 /\ ClearedAll(a, d)
                 /\ st.sig = "EXIT" /\ st.local >= d + 1
                       => st.was = Zero \/ st.posix \/ Further(a, d, 0)
<1> DEFINE One(t, i) == /\ t.saved[i].posix => t.saved[i].was.level = 0
                        /\ Above(t, t.saved[i].was.level, i)
           Two(t, d, i) == t.saved[i].was = Zero \/ t.saved[i].posix \/ Further(t, d, i)
<1>1. b.saved[1] = st /\ st.local \in Int /\ st.local >= 1
  BY TrapsAssumption DEF Pushed, Saved
<1>2. ASSUME NEW e, NEW i \in Own(a, "EXIT", e)
      PROVE  /\ i + 1 \in Own(b, "EXIT", e)
             /\ One(b, i + 1) <=> One(a, i)
             /\ \A d : Two(b, d, i + 1) <=> Two(a, d, i)
  <2>1. i \in Nat /\ i + 1 \in Own(b, "EXIT", e) /\ b.saved[i + 1] = a.saved[i]
    BY OwnPushed
  <2>2. \A level : Above(b, level, i + 1) <=> Above(a, level, i)
    BY <2>1, AboveShift
  <2>3. \A d : Further(b, d, i + 1) <=> Further(a, d, i)
    BY <2>1, FurtherShift
  <2> QED
    BY <2>1, <2>2, <2>3
<1>3. ASSUME NEW e, NEW i \in Own(b, "EXIT", e), i # 1
      PROVE  i - 1 \in Own(a, "EXIT", e) /\ (i - 1) + 1 = i
  BY <1>3, OwnPushed
<1>4. One(b, 1) <=> /\ st.posix => st.was.level = 0
                    /\ Above(a, st.was.level, 0)
  <2>1. Above(b, st.was.level, 0 + 1) <=> Above(a, st.was.level, 0)
    BY AboveShift
  <2> QED
    BY <1>1, <2>1
<1>5. \A d : Two(b, d, 1) <=> (st.was = Zero \/ st.posix \/ Further(a, d, 0))
  <2>1. \A d : Further(b, d, 0 + 1) <=> Further(a, d, 0)
    BY FurtherShift
  <2> QED
    BY <1>1, <2>1
<1>6. AboveAll(b) <=> \A i \in Own(b, "EXIT", 1) : One(b, i)
  BY DEF AboveAll
<1>7. AboveAll(a) <=> \A i \in Own(a, "EXIT", 1) : One(a, i)
  BY DEF AboveAll
<1>8. \A d : ClearedAll(b, d) <=> \A i \in Own(b, "EXIT", d + 1) : Two(b, d, i)
  BY DEF ClearedAll
<1>9. \A d : ClearedAll(a, d) <=> \A i \in Own(a, "EXIT", d + 1) : Two(a, d, i)
  BY DEF ClearedAll
<1>10. \A e : 1 \in Own(b, "EXIT", e) <=> st.sig = "EXIT" /\ st.local >= e
  BY OwnPushed
<1> HIDE DEF One, Two
<1>11. (\A i \in Own(b, "EXIT", 1) : One(b, i))
         <=> (\A i \in Own(a, "EXIT", 1) : One(a, i)) /\ (st.sig = "EXIT" => One(b, 1))
  <2>1. ASSUME \A i \in Own(b, "EXIT", 1) : One(b, i)
        PROVE  (\A i \in Own(a, "EXIT", 1) : One(a, i)) /\ (st.sig = "EXIT" => One(b, 1))
    BY <1>1, <1>2, <1>10, <2>1
  <2>2. ASSUME (\A i \in Own(a, "EXIT", 1) : One(a, i)) /\ (st.sig = "EXIT" => One(b, 1)),
               NEW i \in Own(b, "EXIT", 1)
        PROVE  One(b, i)
    <3>1. CASE i = 1
      BY <1>10, <2>2, <3>1
    <3>2. CASE i # 1
      <4>1. i - 1 \in Own(a, "EXIT", 1) /\ (i - 1) + 1 = i
        BY <1>3, <3>2
      <4>2. One(b, (i - 1) + 1)
        BY <1>2, <2>2, <4>1
      <4> QED
        BY <4>1, <4>2
    <3> QED
      BY <3>1, <3>2
  <2> QED
    BY <2>1, <2>2
<1>12. ASSUME NEW d
       PROVE  (\A i \in Own(b, "EXIT", d + 1) : Two(b, d, i))
                <=> /\ \A i \in Own(a, "EXIT", d + 1) : Two(a, d, i)
                    /\ st.sig = "EXIT" /\ st.local >= d + 1 => Two(b, d, 1)
  <2> DEFINE e == d + 1
  <2> HIDE DEF e
  <2>1. ASSUME \A i \in Own(b, "EXIT", e) : Two(b, d, i)
        PROVE  /\ \A i \in Own(a, "EXIT", e) : Two(a, d, i)
               /\ st.sig = "EXIT" /\ st.local >= e => Two(b, d, 1)
    BY <1>2, <1>10, <2>1
  <2>2. ASSUME /\ \A i \in Own(a, "EXIT", e) : Two(a, d, i)
               /\ st.sig = "EXIT" /\ st.local >= e => Two(b, d, 1),
               NEW i \in Own(b, "EXIT", e)
        PROVE  Two(b, d, i)
    <3>1. CASE i = 1
      BY <1>10, <2>2, <3>1
    <3>2. CASE i # 1
      <4>1. i - 1 \in Own(a, "EXIT", e) /\ (i - 1) + 1 = i
        BY <1>3, <3>2
      <4>2. Two(b, d, (i - 1) + 1)
        BY <1>2, <2>2, <4>1
      <4> QED
        BY <4>1, <4>2
    <3> QED
      BY <3>1, <3>2
  <2> QED
    BY <2>1, <2>2 DEF e
<1> QED
  BY <1>4, <1>5, <1>6, <1>7, <1>8, <1>9, <1>11, <1>12

-----------------------------------------------------------------------------
(* What functions have found stands whatever is done to a trap.            *)

\* The level of a trap that is not saved is not below lev: nothing is saved
\* that belongs to an outer level.
LEMMA NotSaved ==
    ASSUME NEW t \in TrapsRecord, NEW opts, NEW sig \in AllSigs, NEW lev \in 1 .. MaxLevel,
           sig \in Kept(opts), ~MustSave(t, opts, sig, lev)
    PROVE  t.trapped[sig] # Zero /\ t.trapped[sig].level \in Nat /\ t.trapped[sig].level >= lev
<1>1. IF sig = "EXIT" THEN "POSIXTRAPS" \notin opts ELSE "LOCALTRAPS" \in opts
  BY TrapsAssumption DEF Kept, AllSigs
<1>2. lev > 0 /\ lev \in Nat
  BY TrapsAssumption
<1>3. t.trapped[sig] # Zero /\ ~(lev > t.trapped[sig].level)
  BY <1>1, <1>2 DEF MustSave
<1>4. t.trapped[sig] \in Trapped
  BY DEF TrapsRecord
<1>5. t.trapped[sig].level \in Nat
  BY <1>4, TrapsAssumption DEF Trapped
<1> QED
  BY <1>2, <1>3, <1>5

LEMMA SavingIs ==
    ASSUME NEW t \in TrapsRecord, NEW opts, NEW sig \in AllSigs, NEW lev \in 0 .. MaxLevel,
           NEW r, Alters(t, r, opts, sig, lev)
    PROVE  /\ MustSave(t, opts, sig, lev)
                 => /\ Entry(t, sig, lev) \in Saved
                    /\ Pushed(t, r, Entry(t, sig, lev))
                    /\ lev \in 1 .. MaxLevel
           /\ ~MustSave(t, opts, sig, lev) => r.saved = t.saved
           /\ Entry(t, sig, lev).sig = sig
           /\ Entry(t, sig, lev).local = lev
           /\ Entry(t, sig, lev).was = t.trapped[sig]
           /\ Entry(t, sig, lev).posix <=> sig = "EXIT" /\ t.posix
<1>1. MustSave(t, opts, sig, lev) => lev \in 1 .. MaxLevel
  BY TrapsAssumption DEF MustSave
<1> QED
  BY <1>1, EntryIs DEF Alters, Entry

LEMMA AltersExit ==
    ASSUME NEW t \in TrapsRecord, NEW opts, NEW sig \in AllSigs, NEW lev \in 0 .. MaxLevel,
           NEW r, Alters(t, r, opts, sig, lev), Exit(t)
    PROVE  Exit(r)
<1> DEFINE save == MustSave(t, opts, sig, lev)
           st == Entry(t, sig, lev)
<1>1. /\ save => st \in Saved /\ Pushed(t, r, st) /\ lev \in 1 .. MaxLevel
      /\ ~save => r.saved = t.saved
      /\ st.sig = sig /\ st.local = lev /\ st.was = t.trapped[sig]
      /\ st.posix <=> sig = "EXIT" /\ t.posix
  BY SavingIs
<1>2. r \in TrapsRecord /\ "EXIT" \in AllSigs /\ lev \in Nat
  BY TrapsAssumption DEF Alters, AllSigs
<1>3. t.posix => t.trapped["EXIT"].level = 0
  BY DEF Exit
<1> HIDE DEF save, st
<1>4. \A level : Above(t, level, 0) => Above(r, level, 0)
  <2>1. CASE save
    <3>1. ASSUME NEW level, Above(t, level, 0), level > 0 PROVE Further(r, level, 0)
      <4>1. Further(r, level, 0 + 1)
        BY <1>1, <1>2, <2>1, <3>1, FurtherShift DEF Above
      <4>2. PICK k \in Own(r, "EXIT", level) : k > 1
        BY <4>1 DEF Further
      <4>3. k \in Nat
        BY <1>1, <1>2, <2>1, OwnPushed
      <4> QED
        BY <4>2, <4>3 DEF Further
    <3> QED
      BY <3>1 DEF Above
  <2>2. CASE ~save
    BY <1>1, <2>2, FurtherSame
  <2> QED
    BY <2>1, <2>2
<1>5. AboveAll(r)
  <2>1. CASE save
    <3>1. st.sig = "EXIT" => /\ st.posix => st.was.level = 0
                             /\ Above(t, st.was.level, 0)
      BY <1>1 DEF Exit
    <3> QED
      BY <1>1, <1>2, <2>1, <3>1, AllShift DEF Exit
  <2>2. CASE ~save
    BY <1>1, <2>2, FurtherSame DEF Exit
  <2> QED
    BY <2>1, <2>2
<1>6. CASE sig # "EXIT"
  <2>1. r.trapped["EXIT"] = t.trapped["EXIT"] /\ r.posix = t.posix
    BY <1>2, <1>6 DEF Alters
  <2> QED
    BY <1>3, <1>4, <1>5, <2>1 DEF Exit
<1>7. CASE sig = "EXIT"
  <2>1. CASE r.trapped["EXIT"] = Zero /\ r.posix = FALSE
    BY <1>5, <2>1, ZeroIs DEF Exit, Above
  <2>2. CASE /\ r.trapped["EXIT"].level = IF "POSIXTRAPS" \in opts THEN 0 ELSE lev
             /\ r.posix = ("POSIXTRAPS" \in opts)
    <3>1. r.posix => r.trapped["EXIT"].level = 0
      BY <2>2
    <3>2. ASSUME r.trapped["EXIT"].level > 0 PROVE Further(r, r.trapped["EXIT"].level, 0)
      <4>1. "POSIXTRAPS" \notin opts /\ r.trapped["EXIT"].level = lev /\ lev \in 1 .. MaxLevel
        BY <1>2, <2>2, <3>2
      <4>2. CASE save
        <5>1. 1 \in Own(r, "EXIT", lev)
          BY <1>1, <1>2, <1>7, <4>2, OwnPushed
        <5> QED
          BY <4>1, <5>1 DEF Further
      <4>3. CASE ~save
        <5>1. t.trapped["EXIT"].level \in Nat /\ t.trapped["EXIT"].level >= lev
          BY <1>7, <4>1, <4>3, NotSaved DEF Kept, save
        <5>2. Further(t, t.trapped["EXIT"].level, 0)
          BY <4>1, <5>1 DEF Exit, Above
        <5>3. Further(t, lev, 0)
          BY <1>2, <5>1, <5>2, FurtherLess
        <5> QED
          BY <1>1, <4>1, <4>3, <5>3, FurtherSame
      <4> QED
        BY <4>2, <4>3
    <3> QED
      BY <1>5, <3>1, <3>2 DEF Exit, Above
  <2> QED
    BY <1>7, <2>1, <2>2 DEF Alters
<1> QED
  BY <1>6, <1>7

LEMMA FoundIs ==
    ASSUME NEW found \in Founds
    PROVE  /\ DOMAIN found \subseteq AllSigs
           /\ \A s \in DOMAIN found : found[s] \in Trio /\ found[s][1].level \in Nat
<1>1. PICK D \in SUBSET AllSigs : found \in [D -> Trio]
  BY DEF Founds
<1>2. \A s \in D : found[s] \in Trio
  BY <1>1
<1>3. \A v \in Trio : v[1].level \in Nat
  BY TrapsAssumption DEF Trio, Trapped
<1> QED
  BY <1>1, <1>2, <1>3

LEMMA AltersCleared ==
    ASSUME NEW t \in TrapsRecord, NEW opts, NEW sig \in AllSigs, NEW lev \in 0 .. MaxLevel,
           NEW r, Alters(t, r, opts, sig, lev), Exit(t), NEW d \in Nat, 1 <= d, d <= lev,
           Cleared(t, d)
    PROVE  Cleared(r, d)
<1> DEFINE save == MustSave(t, opts, sig, lev)
           st == Entry(t, sig, lev)
<1>1. /\ save => st \in Saved /\ Pushed(t, r, st) /\ lev \in 1 .. MaxLevel
      /\ ~save => r.saved = t.saved
      /\ st.sig = sig /\ st.local = lev /\ st.was = t.trapped[sig]
      /\ st.posix <=> sig = "EXIT" /\ t.posix
  BY SavingIs
<1>2. r \in TrapsRecord /\ "EXIT" \in AllSigs /\ lev \in Nat
  BY TrapsAssumption DEF Alters, AllSigs
<1> HIDE DEF save, st
<1>3. ClearedAll(r, d)
  <2>1. CASE save
    <3>1. st.sig = "EXIT" => st.was = Zero \/ st.posix \/ Further(t, d, 0)
      BY <1>1 DEF Cleared
    <3> QED
      BY <1>1, <1>2, <2>1, <3>1, AllShift DEF Cleared
  <2>2. CASE ~save
    BY <1>1, <2>2, FurtherSame DEF Cleared
  <2> QED
    BY <2>1, <2>2
<1>4. Further(t, d, 0) => Further(r, d, 0)
  <2>1. ASSUME save, Further(t, d, 0) PROVE Further(r, d, 0)
    <3>1. Further(r, d, 0 + 1)
      BY <1>1, <1>2, <2>1, FurtherShift
    <3>2. PICK k \in Own(r, "EXIT", d) : k > 1
      BY <3>1 DEF Further
    <3>3. k \in Nat
      BY <1>1, <1>2, <2>1, OwnPushed
    <3> QED
      BY <3>2, <3>3 DEF Further
  <2>2. CASE ~save
    BY <1>1, <2>2, FurtherSame
  <2> QED
    BY <2>1, <2>2
<1>5. r.trapped["EXIT"] = Zero \/ r.posix \/ Further(r, d, 0)
  <2>1. CASE sig # "EXIT"
    <3>1. r.trapped["EXIT"] = t.trapped["EXIT"] /\ r.posix = t.posix
      BY <1>2, <2>1 DEF Alters
    <3> QED
      BY <1>4, <3>1 DEF Cleared
  <2>2. CASE sig = "EXIT" /\ save
    <3>1. 1 \in Own(r, "EXIT", d)
      BY <1>1, <1>2, <2>2, OwnPushed
    <3> QED
      BY <3>1 DEF Further
  <2>3. CASE sig = "EXIT" /\ ~save
    <3>1. CASE r.trapped["EXIT"] = Zero \/ r.posix
      BY <3>1
    <3>2. CASE "POSIXTRAPS" \notin opts
      <4>1. lev \in 1 .. MaxLevel
        BY <1>2
      <4>2. t.trapped["EXIT"].level \in Nat /\ t.trapped["EXIT"].level >= lev
        BY <2>3, <3>2, <4>1, NotSaved DEF Kept, save
      <4>3. Further(t, t.trapped["EXIT"].level, 0)
        BY <4>1, <4>2 DEF Exit, Above
      <4>4. Further(t, d, 0)
        BY <4>1, <4>2, <4>3, FurtherLess
      <4> QED
        BY <1>4, <4>4
    <3> QED
      BY <2>3, <3>1, <3>2 DEF Alters
  <2> QED
    BY <2>1, <2>2, <2>3
<1> QED
  BY <1>3, <1>5 DEF Cleared

LEMMA AltersTied ==
    ASSUME NEW t \in TrapsRecord, NEW opts, NEW sig \in AllSigs, NEW lev \in 0 .. MaxLevel,
           NEW r, Alters(t, r, opts, sig, lev), Exit(t), SigOK(t, sig),
           NEW d \in Nat, 1 <= d, d <= lev, NEW found \in Founds, NEW over, sig \notin over,
           NEW outside \in BOOLEAN, Tied(t, opts, found, d, over, outside)
    PROVE  Tied(r, opts, found, d, over, outside)
<1> DEFINE save == MustSave(t, opts, sig, lev)
           st == Entry(t, sig, lev)
<1>1. /\ save => st \in Saved /\ Pushed(t, r, st) /\ lev \in 1 .. MaxLevel
      /\ ~save => r.saved = t.saved
      /\ st.sig = sig /\ st.local = lev /\ st.was = t.trapped[sig]
      /\ st.posix <=> sig = "EXIT" /\ t.posix
  BY SavingIs
<1>2. r \in TrapsRecord /\ lev \in 1 .. MaxLevel /\ DOMAIN found \subseteq Kept(opts)
  BY TrapsAssumption DEF Alters, Tied
<1>3. Value(st) = Now(t, sig, FALSE)
  BY ValueEntry
<1> HIDE DEF save, st
<1>4. ASSUME "EXIT" \in DOMAIN found PROVE Plain(r, d)
  <2>1. "POSIXTRAPS" \notin opts /\ Plain(t, d)
    BY <1>2, <1>4, TrapsAssumption DEF Kept, Tied, Holds
  <2>2. ~t.posix /\ ~r.posix
    BY <2>1 DEF Plain, Alters
  <2>3. CASE save
    <3>1. ASSUME NEW i \in Own(r, "EXIT", d) PROVE ~r.saved[i].posix
      <4>1. CASE i = 1
        <5>1. r.saved[1] = st
          BY <1>1, <2>3 DEF Pushed
        <5> QED
          BY <1>1, <2>2, <4>1, <5>1
      <4>2. CASE i # 1
        <5>1. i - 1 \in Own(t, "EXIT", d) /\ r.saved[i] = t.saved[i - 1]
          BY <1>1, <1>2, <2>3, <4>2, OwnPushed
        <5> QED
          BY <2>1, <5>1 DEF Plain
      <4> QED
        BY <4>1, <4>2
    <3> QED
      BY <2>2, <3>1 DEF Plain
  <2>4. CASE ~save
    <3>1. r.saved = t.saved /\ Own(r, "EXIT", d) = Own(t, "EXIT", d)
      BY <1>1, <2>4, FurtherSame
    <3> QED
      BY <2>1, <2>2, <3>1 DEF Plain
  <2> QED
    BY <2>3, <2>4
<1>5. ASSUME NEW s \in DOMAIN found, s = "EXIT" \/ found[s][1].level < d
      PROVE  Back(r, s, d, found[s], s \in over)
  <2>1. Back(t, s, d, found[s], s \in over) /\ s \in AllSigs /\ found[s][1].level \in Nat
    BY <1>5, FoundIs DEF Tied, Holds
  <2> DEFINE runs == s \in over
             v == found[s]
  <2>2. s # sig => Now(r, s, runs) = Now(t, s, runs)
    BY <2>1 DEF Alters, Now
  <2>3. s = sig => runs = FALSE
    OBVIOUS
  <2> HIDE DEF runs
  <2>4. CASE save
    <3>1. st.sig = s /\ st.local >= d => Value(st) = Now(t, s, runs)
      BY <1>1, <1>3, <2>3
    <3>2. ~(st.sig = s /\ st.local >= d) => Now(r, s, runs) = Now(t, s, runs)
      BY <1>1, <2>2
    <3>3. Back(t, s, d, v, runs) /\ Pushed(t, r, st)
      BY <1>1, <2>1, <2>4 DEF runs
    <3>4. Back(r, s, d, v, runs)
      BY <1>2, <3>1, <3>2, <3>3, PushBack
    <3> QED
      BY <3>4 DEF runs
  <2>5. CASE ~save
    <3>1. ASSUME Own(t, s, d) = {}, Now(t, s, runs) = v PROVE s # sig
      <4>1. SUFFICES ASSUME s = sig PROVE FALSE
        OBVIOUS
      <4>2. t.trapped[s] = v[1]
        BY <2>3, <3>1, <4>1 DEF Now
      <4>3. t.trapped[s].level \in Nat /\ t.trapped[s].level >= lev
        BY <1>2, <2>5, <4>1, NotSaved DEF save
      <4>4. CASE s = "EXIT"
        <5>1. Further(t, t.trapped[s].level, 0)
          BY <1>2, <4>3, <4>4 DEF Exit, Above
        <5>2. Further(t, d, 0)
          BY <1>2, <4>3, <5>1, FurtherLess
        <5> QED
          BY <3>1, <4>4, <5>2 DEF Further
      <4>5. CASE v[1].level < d
        BY <1>2, <2>1, <4>2, <4>3, <4>5
      <4> QED
        BY <1>5, <4>4, <4>5
    <3>2. Back(t, s, d, v, runs) /\ r.saved = t.saved
      BY <1>1, <2>1, <2>5 DEF runs
    <3>3. Own(t, s, d) = {} /\ Now(t, s, runs) = v => Now(r, s, runs) = v
      BY <2>2, <3>1
    <3>4. Back(r, s, d, v, runs)
      BY <3>2, <3>3, SameBack
    <3> QED
      BY <3>4 DEF runs
  <2> QED
    BY <2>4, <2>5
<1>6. outside => Cleared(r, d)
  BY AltersCleared DEF Tied
<1> QED
  BY <1>2, <1>4, <1>5, <1>6 DEF Tied, Holds

LEMMA AltersUntouched ==
    ASSUME NEW t \in TrapsRecord, NEW opts, NEW sig \in AllSigs, NEW lev \in 0 .. MaxLevel,
           NEW r, Alters(t, r, opts, sig, lev), NEW s \in AllSigs, s # sig, NEW d,
           Untouched(t, s, d)
    PROVE  Untouched(r, s, d)
<1> DEFINE save == MustSave(t, opts, sig, lev)
           st == Entry(t, sig, lev)
           e == d + 1
<1>1. /\ save => Pushed(t, r, st)
      /\ ~save => r.saved = t.saved
      /\ st.sig = sig
  BY SavingIs
<1>2. r \in TrapsRecord /\ r.trapped[s] = t.trapped[s]
  BY DEF Alters
<1> HIDE DEF save, st, e
<1>3. Own(t, s, e) = {}
  BY DEF Untouched, e
<1>4. Own(r, s, e) = {}
  <2>1. CASE save
    <3>1. 1 \notin Own(r, s, e)
      BY <1>1, <1>2, <2>1, OwnPushed
    <3> QED
      BY <1>1, <1>2, <1>3, <2>1, <3>1, OwnPushed
  <2>2. CASE ~save
    BY <1>1, <1>3, <2>2, FurtherSame
  <2> QED
    BY <2>1, <2>2
<1> QED
  BY <1>2, <1>4 DEF Untouched, e

-----------------------------------------------------------------------------
(* One trap is put back.                                                   *)

\* What endtrapscope() makes of t with the entry st.
Restored(t, r, st) ==
    /\ r \in TrapsRecord
    /\ st \in Saved
    /\ Pushed(r, t, st)
    /\ \A s \in AllSigs \ {st.sig} : /\ r.trapped[s] = t.trapped[s]
                                     /\ r.lists[s] = t.lists[s]
                                     /\ r.funcs[s] = t.funcs[s]
    /\ st.sig # "EXIT" => r.posix = t.posix
    /\ \/ /\ r.trapped[st.sig] = st.was
          /\ Now(r, st.sig, FALSE) = Value(st)
          /\ st.sig = "EXIT" => r.posix = st.posix
       \/ /\ r.trapped[st.sig] = Zero
          /\ Now(r, st.sig, FALSE) = Value(st)
          /\ st.sig = "EXIT" => r.posix = FALSE \/ r.posix = t.posix
       \/ /\ st.sig = "EXIT" /\ t.posix /\ r.posix
          /\ r.trapped["EXIT"] = t.trapped["EXIT"]

LEMMA RestoreIs ==
    ASSUME NEW t, NEW opts, NEW top \in 0 .. MaxLevel, NEW lev \in 0 .. MaxLevel, Good(t, top),
           t.saved # <<>>, Head(t.saved).local > lev
    PROVE  Restored(t, Restore(t, opts, lev), Head(t.saved))
<1> DEFINE st == Head(t.saved)
           sig == st.sig
           rest == [t EXCEPT !.saved = Tail(@)]
           func == "FUNC" \in st.was.flags
           a == Clear(rest, sig)
           l == IF func THEN "none" ELSE st.list
           set == Set(a, opts, sig, l, func, lev)
           q == [set EXCEPT !.trapped[sig] = st.was,
                            !.posix = IF sig = "EXIT" THEN st.posix ELSE @,
                            !.funcs[sig] = IF func THEN st.list ELSE @]
           n == Len(t.saved)
           r == Restore(t, opts, lev)
<1>0. t \in TrapsRecord /\ Tables(t) /\ t.saved \in Seq(Saved)
  BY DEF Good, Tables, TrapsRecord
<1>1. /\ st = t.saved[1] /\ st \in Saved /\ n \in Nat /\ 1 \in 1 .. n
      /\ Tail(t.saved) \in Seq(Saved) /\ Len(Tail(t.saved)) = n - 1
      /\ \A i \in 1 .. (n - 1) : Tail(t.saved)[i] = t.saved[i + 1]
  BY <1>0
<1>2. sig \in AllSigs /\ st.was \in Trapped /\ st.list \in Lists /\ st.posix \in BOOLEAN
  BY <1>1, TrapsAssumption DEF Saved
<1>3. SavedOK(st) /\ SigOK(t, sig)
  BY <1>0, <1>1, <1>2 DEF Tables
<1>4. Good(r, top) /\ r.saved = Tail(t.saved)
  BY RestoreGood
<1>5. Pushed(r, t, st) /\ r \in TrapsRecord
  BY <1>1, <1>4 DEF Pushed, Good, Tables
<1> HIDE DEF st
<1>6. /\ rest \in TrapsRecord /\ rest.trapped = t.trapped /\ rest.lists = t.lists
      /\ rest.funcs = t.funcs /\ rest.posix = t.posix
  BY <1>0, <1>1 DEF TrapsRecord
<1>7. SigOK(rest, sig)
  BY <1>3, <1>6 DEF SigOK
<1> HIDE DEF rest, r
<1>8. CASE st.was # Zero /\ st.list # "none"
  <2>1. /\ Differs(rest, a, sig) /\ a.trapped[sig] = Zero
        /\ a.funcs[sig] = IF "FUNC" \in rest.trapped[sig].flags THEN "none" ELSE rest.funcs[sig]
        /\ a.lists[sig] = IF "FUNC" \in rest.trapped[sig].flags THEN rest.lists[sig] ELSE "none"
    BY <1>2, <1>6, ClearIs
  <2>2. Gone(a, sig)
    BY <1>7, <2>1 DEF Gone, SigOK
  <2> HIDE DEF a
  <2>3. l \in Lists /\ func \in BOOLEAN /\ a \in TrapsRecord
    BY <1>2, <2>1 DEF Lists, Differs
  <2> HIDE DEF l, func
  <2>4. IsSet(a, opts, sig, l, func, lev, set)
    BY <1>2, <2>3, SetIs
  <2> HIDE DEF set
  <2>5. func => st.list \in Bodies
    BY <1>3 DEF SavedOK, func
  <2> DEFINE f == IF func THEN st.list ELSE "none"
             posix == IF sig = "EXIT" THEN st.posix ELSE rest.posix
  <2>6. f \in Funcs /\ posix \in BOOLEAN
    BY <1>2, <1>6, <2>5 DEF Funcs, TrapsRecord
  <2>7. set \in TrapsRecord /\ set.funcs[sig] = "none" /\ (sig # "EXIT" => set.posix = rest.posix)
    BY <1>2, <2>1, <2>2, <2>4 DEF IsSet, Differs, Gone, PosixNow
  <2>8. q = [set EXCEPT !.trapped[sig] = st.was, !.posix = posix, !.funcs[sig] = f]
    BY <1>2, <2>7 DEF TrapsRecord
  <2> HIDE DEF f, posix, q
  <2>9. /\ q.trapped = [set.trapped EXCEPT ![sig] = st.was]
        /\ q.posix = posix /\ q.funcs = [set.funcs EXCEPT ![sig] = f]
        /\ q.lists = set.lists
    BY <1>2, <2>6, <2>7, <2>8 DEF TrapsRecord
  <2>10. /\ q.trapped[sig] = st.was /\ q.funcs[sig] = f
         /\ \A s \in AllSigs \ {sig} : q.trapped[s] = set.trapped[s] /\ q.funcs[s] = set.funcs[s]
    BY <1>2, <2>7, <2>9 DEF TrapsRecord
  <2>11. \A s \in AllSigs \ {sig} : /\ q.trapped[s] = t.trapped[s]
                                    /\ q.lists[s] = t.lists[s]
                                    /\ q.funcs[s] = t.funcs[s]
    BY <1>6, <2>1, <2>4, <2>9, <2>10 DEF IsSet, Differs
  <2>12. q.lists[sig] = l
    BY <2>4, <2>9 DEF IsSet
  <2>13. Now(q, sig, FALSE) = Value(st)
    <3>1. Now(q, sig, FALSE) = <<st.was, l, f>>
      BY <2>10, <2>12 DEF Now
    <3> QED
      BY <1>8, <3>1 DEF Value, l, f, func
  <2>14. (sig # "EXIT" => q.posix = t.posix) /\ (sig = "EXIT" => q.posix = st.posix)
    BY <1>6, <2>9 DEF posix
  <2>15. r = q
    BY <1>8 DEF Restore, q, set, a, l, func, rest, st, r
  <2> QED
    BY <1>1, <1>5, <2>10, <2>11, <2>13, <2>14, <2>15 DEF Restored, st, r
<1>9. CASE ~(st.was # Zero /\ st.list # "none")
  <2>1. st.was = Zero /\ Value(st) = <<Zero, "none", "none">>
    BY <1>3, <1>9 DEF SavedOK, Value
  <2>2. CASE t.trapped[sig] # Zero /\ (sig = "EXIT" => ~t.posix)
    <3> DEFINE p == removetrap(rest, opts, sig, lev)
    <3>1. r = p
      BY <1>9, <2>2 DEF Restore, rest, st, r
    <3>2. Alters(rest, p, opts, sig, lev) /\ p.trapped[sig] = Zero
      BY <1>2, <1>6, removetrapAlters
    <3>3. SigOK(r, sig)
      BY <1>2, <1>4 DEF Good, Tables
    <3> HIDE DEF p
    <3>4. \A s \in AllSigs \ {sig} : /\ p.trapped[s] = t.trapped[s]
                                     /\ p.lists[s] = t.lists[s]
                                     /\ p.funcs[s] = t.funcs[s]
      BY <1>6, <3>2 DEF Alters
    <3>5. p.lists[sig] = "none" /\ p.funcs[sig] = "none"
      BY <3>1, <3>2, <3>3, ZeroIs DEF SigOK
    <3>6. Now(p, sig, FALSE) = Value(st)
      BY <2>1, <3>2, <3>5 DEF Now
    <3>7. sig # "EXIT" => p.posix = t.posix
      BY <1>6, <3>2 DEF Alters
    <3>8. sig = "EXIT" => p.posix = FALSE
      <4>1. ASSUME sig = "EXIT" PROVE p.posix = FALSE
        <5>1. rest.posix = FALSE
          BY <1>6, <2>2, <4>1 DEF TrapsRecord
        <5>2. p = Clear(IF MustSave(rest, opts, sig, lev) THEN dosavetrap(rest, sig, lev)
                        ELSE rest, sig)
          BY DEF p, removetrap
        <5> DEFINE z == IF MustSave(rest, opts, sig, lev) THEN dosavetrap(rest, sig, lev)
                        ELSE rest
        <5>3. z \in TrapsRecord
          <6>1. MustSave(rest, opts, sig, lev) => lev \in 1 .. MaxLevel
            BY TrapsAssumption DEF MustSave
          <6> QED
            BY <1>2, <1>6, <6>1, dosavetrapIs
        <5> HIDE DEF z
        <5>4. Clear(z, sig).posix = (z.posix /\ sig # "EXIT")
          BY <1>2, <5>3, ClearIs
        <5> QED
          BY <4>1, <5>2, <5>4 DEF z
      <4> QED
        BY <4>1
    <3> QED
      BY <1>1, <1>5, <3>1, <3>2, <3>4, <3>6, <3>7, <3>8 DEF Restored, st, r
  <2>3. CASE ~(t.trapped[sig] # Zero /\ (sig = "EXIT" => ~t.posix))
    <3>1. r = rest
      BY <1>9, <2>3 DEF Restore, rest, st, r
    <3>2. CASE t.trapped[sig] = Zero
      <4>1. t.lists[sig] = "none" /\ t.funcs[sig] = "none"
        BY <1>3, <3>2, ZeroIs DEF SigOK
      <4>2. Now(rest, sig, FALSE) = Value(st)
        BY <1>6, <2>1, <3>2, <4>1 DEF Now
      <4> QED
        BY <1>1, <1>5, <1>6, <3>1, <3>2, <4>2 DEF Restored, st, r
    <3>3. CASE sig = "EXIT" /\ t.posix
      BY <1>1, <1>5, <1>6, <3>1, <3>3 DEF Restored, st, r
    <3> QED
      BY <2>3, <3>2, <3>3
  <2> QED
    BY <2>2, <2>3
<1> QED
  BY <1>8, <1>9

LEMMA RestoredExit ==
    ASSUME NEW t \in TrapsRecord, NEW r, NEW st, Restored(t, r, st), Exit(t)
    PROVE  Exit(r)
<1>1. r \in TrapsRecord /\ st \in Saved /\ Pushed(r, t, st) /\ "EXIT" \in AllSigs
  BY DEF Restored, AllSigs
<1>2. /\ AboveAll(r)
      /\ st.sig = "EXIT" => /\ st.posix => st.was.level = 0
                            /\ Above(r, st.was.level, 0)
  BY <1>1, AllShift DEF Exit
<1>3. CASE st.sig # "EXIT"
  <2>1. r.trapped["EXIT"] = t.trapped["EXIT"] /\ r.posix = t.posix
    BY <1>1, <1>3 DEF Restored
  <2>2. ASSUME NEW level, Further(t, level, 0) PROVE Further(r, level, 0)
    <3>1. PICK k \in Own(t, "EXIT", level) : k > 0
      BY <2>2 DEF Further
    <3>2. k # 1
      BY <1>1, <1>3, OwnPushed
    <3>3. k - 1 \in Own(r, "EXIT", level) /\ k - 1 >= 1 /\ k \in Nat
      BY <1>1, <3>2, OwnPushed
    <3>4. k - 1 > 0
      BY <3>3
    <3> QED
      BY <3>3, <3>4 DEF Further
  <2> QED
    BY <1>2, <2>1, <2>2 DEF Exit, Above
<1>4. CASE st.sig = "EXIT"
  <2>1. CASE r.trapped["EXIT"] = st.was /\ r.posix = st.posix
    BY <1>2, <1>4, <2>1 DEF Exit
  <2>2. CASE r.trapped["EXIT"] = Zero
    BY <1>2, <2>2, ZeroIs DEF Exit, Above
  <2>3. CASE t.posix /\ r.posix /\ r.trapped["EXIT"] = t.trapped["EXIT"]
    BY <1>2, <2>3 DEF Exit, Above
  <2> QED
    BY <1>4, <2>1, <2>2, <2>3 DEF Restored
<1> QED
  BY <1>3, <1>4

LEMMA RestoredCleared ==
    ASSUME NEW t \in TrapsRecord, NEW r, NEW st, Restored(t, r, st), NEW d \in Nat,
           st.local >= d + 1, Cleared(t, d)
    PROVE  Cleared(r, d)
<1>1. r \in TrapsRecord /\ st \in Saved /\ Pushed(r, t, st) /\ "EXIT" \in AllSigs
  BY DEF Restored, AllSigs
<1>2. /\ ClearedAll(r, d)
      /\ st.sig = "EXIT" => st.was = Zero \/ st.posix \/ Further(r, d, 0)
  BY <1>1, AllShift DEF Cleared
<1>3. CASE st.sig # "EXIT"
  <2>1. r.trapped["EXIT"] = t.trapped["EXIT"] /\ r.posix = t.posix
    BY <1>1, <1>3 DEF Restored
  <2>2. ASSUME Further(t, d, 0) PROVE Further(r, d, 0)
    <3>1. PICK k \in Own(t, "EXIT", d) : k > 0
      BY <2>2 DEF Further
    <3>2. k # 1
      BY <1>1, <1>3, OwnPushed
    <3>3. k - 1 \in Own(r, "EXIT", d) /\ k - 1 >= 1 /\ k \in Nat
      BY <1>1, <3>2, OwnPushed
    <3>4. k - 1 > 0
      BY <3>3
    <3> QED
      BY <3>3, <3>4 DEF Further
  <2> QED
    BY <1>2, <2>1, <2>2 DEF Cleared
<1>4. CASE st.sig = "EXIT"
  <2>1. CASE r.trapped["EXIT"] = st.was /\ r.posix = st.posix
    BY <1>2, <1>4, <2>1 DEF Cleared
  <2>2. CASE r.trapped["EXIT"] = Zero
    BY <1>2, <2>2 DEF Cleared
  <2>3. CASE r.posix
    BY <1>2, <2>3 DEF Cleared
  <2> QED
    BY <1>4, <2>1, <2>2, <2>3 DEF Restored
<1> QED
  BY <1>3, <1>4

LEMMA RestoredPlain ==
    ASSUME NEW t \in TrapsRecord, NEW r, NEW st, Restored(t, r, st), NEW d,
           st.local >= d, Plain(t, d)
    PROVE  Plain(r, d)
<1>1. r \in TrapsRecord /\ st \in Saved /\ Pushed(r, t, st) /\ t.saved[1] = st
  BY DEF Restored, Pushed
<1>2. ~t.posix
  BY DEF Plain
<1>3. ~r.posix
  <2>1. CASE st.sig = "EXIT"
    <3>1. 1 \in Own(t, "EXIT", d)
      BY <1>1, <2>1, OwnPushed
    <3>2. ~st.posix
      BY <1>1, <3>1 DEF Plain
    <3> QED
      BY <1>2, <2>1, <3>2 DEF Restored
  <2>2. CASE st.sig # "EXIT"
    BY <1>2, <2>2 DEF Restored
  <2> QED
    BY <2>1, <2>2
<1>4. \A i \in Own(r, "EXIT", d) : i + 1 \in Own(t, "EXIT", d) /\ t.saved[i + 1] = r.saved[i]
  BY <1>1, OwnPushed
<1> QED
  BY <1>3, <1>4 DEF Plain

LEMMA RestoredBack ==
    ASSUME NEW t \in TrapsRecord, NEW r, NEW st, Restored(t, r, st), NEW d,
           st.local >= d, NEW s \in AllSigs, NEW v, NEW runs \in BOOLEAN, runs => st.sig # s,
           s = "EXIT" => ~t.posix,
           Back(t, s, d, v, runs)
    PROVE  Back(r, s, d, v, runs)
<1>1. r \in TrapsRecord /\ st \in Saved /\ Pushed(r, t, st) /\ t.saved[1] = st
  BY DEF Restored, Pushed
<1>2. ASSUME NEW i \in Own(r, s, d), \A k \in Own(r, s, d) : k <= i
      PROVE  Value(r.saved[i]) = v
  <2>1. i + 1 \in Own(t, s, d) /\ t.saved[i + 1] = r.saved[i] /\ i \in Nat /\ i >= 1
    BY <1>1, OwnPushed
  <2>2. ASSUME NEW k \in Own(t, s, d) PROVE k <= i + 1
    <3>1. k \in Nat
      BY <1>1, OwnPushed
    <3>2. CASE k = 1
      BY <2>1, <3>2
    <3>3. CASE k # 1
      <4>1. k - 1 \in Own(r, s, d)
        BY <1>1, <3>3, OwnPushed
      <4>2. k - 1 <= i
        BY <1>2, <4>1
      <4> QED
        BY <2>1, <3>1, <4>2
    <3> QED
      BY <3>2, <3>3
  <2> QED
    BY <2>1, <2>2 DEF Back
<1>3. ASSUME Own(r, s, d) = {} PROVE Now(r, s, runs) = v
  <2>1. \A k \in Own(t, s, d) : k = 1
    BY <1>1, <1>3, OwnPushed
  <2>2. CASE st.sig # s
    <3>1. Own(t, s, d) = {}
      BY <1>1, <2>1, <2>2, OwnPushed
    <3>2. Now(r, s, runs) = Now(t, s, runs)
      BY <2>2 DEF Restored, Now
    <3> QED
      BY <3>1, <3>2 DEF Back
  <2>3. CASE st.sig = s
    <3>1. 1 \in Own(t, s, d)
      BY <1>1, <2>3, OwnPushed
    <3>2. \A k \in Own(t, s, d) : k <= 1
      BY <2>1
    <3>3. Value(st) = v
      BY <1>1, <3>1, <3>2 DEF Back
    <3>4. runs = FALSE
      BY <2>3
    <3>5. Now(r, s, FALSE) = Value(st)
      BY <2>3 DEF Restored
    <3> QED
      BY <3>3, <3>4, <3>5
  <2> QED
    BY <2>2, <2>3
<1> QED
  BY <1>2, <1>3 DEF Back

LEMMA RestoredUntouched ==
    ASSUME NEW t \in TrapsRecord, NEW r, NEW st, Restored(t, r, st), NEW s \in AllSigs,
           NEW d, st.local >= d + 1, Untouched(t, s, d)
    PROVE  Untouched(r, s, d)
<1> DEFINE e == d + 1
<1>1. r \in TrapsRecord /\ Pushed(r, t, st) /\ st.local >= e /\ Own(t, s, e) = {}
  BY DEF Restored, Untouched
<1> HIDE DEF e
<1>2. st.sig # s
  BY <1>1, OwnPushed
<1>3. Own(r, s, e) = {}
  BY <1>1, OwnPushed
<1>4. r.trapped[s] = t.trapped[s]
  BY <1>2 DEF Restored
<1> QED
  BY <1>3, <1>4 DEF Untouched, e

-----------------------------------------------------------------------------
(* All traps are put back.                                                 *)

LEMMA RestoreAllKeeps ==
    ASSUME NEW opts, NEW top \in 0 .. MaxLevel, NEW lev \in 0 .. MaxLevel, NEW P,
           \A r \in P : Good(r, top),
           \A r \in P : r.saved # <<>> /\ Head(r.saved).local > lev => Restore(r, opts, lev) \in P,
           NEW t \in P
    PROVE  RestoreAll(t, opts, lev) \in P
<1> DEFINE n == Len(t.saved)
<1>1. n \in Nat
  BY DEF Good, Tables, TrapsRecord
<1>2. Closed(P, opts, lev)
  BY DEF Closed, Turn
<1>3. PICK f : After(f, P, t, opts, lev)
  BY <1>1, <1>2, RestoreAllIs
<1>4. f \in [0 .. n -> P] /\ RestoreAll(t, opts, lev) = f[n]
  BY <1>3 DEF After
<1>5. n \in 0 .. n
  BY <1>1
<1> QED
  BY <1>4, <1>5

LEMMA RestoreStep ==
    ASSUME NEW t, NEW opts, NEW top \in 0 .. MaxLevel, NEW lev \in 0 .. MaxLevel, Good(t, top),
           t.saved # <<>>, Head(t.saved).local > lev
    PROVE  LET r == Restore(t, opts, lev)
               st == Head(t.saved)
           IN  /\ Good(r, top) /\ r \in TrapsRecord /\ t \in TrapsRecord
               /\ Restored(t, r, st) /\ Pushed(r, t, st)
               /\ st.local \in Nat /\ st.local >= lev + 1
<1>1. t \in TrapsRecord /\ lev \in Nat
  BY TrapsAssumption DEF Good, Tables
<1>2. Head(t.saved) \in Saved
  BY <1>1 DEF TrapsRecord
<1>3. Head(t.saved).local \in Nat
  BY <1>2, TrapsAssumption DEF Saved
<1>4. Head(t.saved).local >= lev + 1
  BY <1>1, <1>3
<1>5. Restored(t, Restore(t, opts, lev), Head(t.saved))
  BY RestoreIs
<1>6. Good(Restore(t, opts, lev), top)
  BY RestoreGood
<1> QED
  BY <1>1, <1>3, <1>4, <1>5, <1>6 DEF Restored

LEMMA RestoreAllExit ==
    ASSUME NEW t, NEW opts, NEW top \in 0 .. MaxLevel, NEW lev \in 0 .. MaxLevel, Good(t, top),
           Exit(t)
    PROVE  Exit(RestoreAll(t, opts, lev))
<1> DEFINE P == {r \in TrapsRecord : Good(r, top) /\ Exit(r)}
<1>1. t \in P /\ \A r \in P : Good(r, top)
  BY DEF Good, Tables
<1>2. ASSUME NEW r \in P, r.saved # <<>>, Head(r.saved).local > lev
      PROVE  Restore(r, opts, lev) \in P
  BY <1>2, RestoreStep, RestoredExit
<1> HIDE DEF P
<1>3. RestoreAll(t, opts, lev) \in P
  BY <1>1, <1>2, RestoreAllKeeps
<1> QED
  BY <1>3 DEF P

LEMMA RestoreAllCleared ==
    ASSUME NEW t, NEW opts, NEW top \in 0 .. MaxLevel, NEW lev \in 0 .. MaxLevel, Good(t, top),
           NEW d \in Nat, d <= lev, Cleared(t, d)
    PROVE  Cleared(RestoreAll(t, opts, lev), d)
<1> DEFINE P == {r \in TrapsRecord : Good(r, top) /\ Cleared(r, d)}
<1>1. t \in P /\ \A r \in P : Good(r, top)
  BY DEF Good, Tables
<1>2. ASSUME NEW r \in P, r.saved # <<>>, Head(r.saved).local > lev
      PROVE  Restore(r, opts, lev) \in P
  <2>1. /\ Good(Restore(r, opts, lev), top) /\ Restore(r, opts, lev) \in TrapsRecord
        /\ Restored(r, Restore(r, opts, lev), Head(r.saved))
        /\ Head(r.saved).local \in Nat /\ Head(r.saved).local >= lev + 1
    BY <1>2, RestoreStep
  <2>2. Head(r.saved).local >= d + 1
    BY <2>1
  <2>3. Cleared(Restore(r, opts, lev), d)
    BY <2>1, <2>2, RestoredCleared
  <2> QED
    BY <2>1, <2>3
<1> HIDE DEF P
<1>3. RestoreAll(t, opts, lev) \in P
  BY <1>1, <1>2, RestoreAllKeeps
<1> QED
  BY <1>3 DEF P

LEMMA RestoreAllUntouched ==
    ASSUME NEW t, NEW opts, NEW top \in 0 .. MaxLevel, NEW lev \in 0 .. MaxLevel, Good(t, top),
           NEW d \in Nat, d <= lev, NEW s \in AllSigs, Untouched(t, s, d)
    PROVE  Untouched(RestoreAll(t, opts, lev), s, d)
<1> DEFINE P == {r \in TrapsRecord : Good(r, top) /\ Untouched(r, s, d)}
<1>1. t \in P /\ \A r \in P : Good(r, top)
  BY DEF Good, Tables
<1>2. ASSUME NEW r \in P, r.saved # <<>>, Head(r.saved).local > lev
      PROVE  Restore(r, opts, lev) \in P
  <2>1. /\ Good(Restore(r, opts, lev), top) /\ Restore(r, opts, lev) \in TrapsRecord
        /\ Restored(r, Restore(r, opts, lev), Head(r.saved))
        /\ Head(r.saved).local \in Nat /\ Head(r.saved).local >= lev + 1
    BY <1>2, RestoreStep
  <2>2. Head(r.saved).local >= d + 1
    BY <2>1
  <2>3. Untouched(Restore(r, opts, lev), s, d)
    BY <2>1, <2>2, RestoredUntouched
  <2> QED
    BY <2>1, <2>3
<1> HIDE DEF P
<1>3. RestoreAll(t, opts, lev) \in P
  BY <1>1, <1>2, RestoreAllKeeps
<1> QED
  BY <1>3 DEF P

LEMMA RestoreAllHolds ==
    ASSUME NEW t, NEW opts, NEW top \in 0 .. MaxLevel, NEW lev \in 0 .. MaxLevel, Good(t, top),
           NEW d \in Nat, d <= lev + 1, NEW found \in Founds, NEW over, Holds(t, found, d, over),
           \A s \in over : Own(t, s, lev + 1) = {}
    PROVE  Holds(RestoreAll(t, opts, lev), found, d, over)
<1> DEFINE Still(r) == \A s \in over : Own(r, s, lev + 1) = {}
           P == {r \in TrapsRecord : Good(r, top) /\ Holds(r, found, d, over) /\ Still(r)}
<1>1. t \in P /\ \A r \in P : Good(r, top)
  BY DEF Good, Tables
<1>2. ASSUME NEW r \in P, r.saved # <<>>, Head(r.saved).local > lev
      PROVE  Restore(r, opts, lev) \in P
  <2> DEFINE q == Restore(r, opts, lev)
             st == Head(r.saved)
  <2>1. /\ Good(q, top) /\ q \in TrapsRecord /\ r \in TrapsRecord
        /\ Restored(r, q, st) /\ Pushed(q, r, st)
        /\ st.local \in Nat /\ st.local >= lev + 1
    BY <1>2, RestoreStep
  <2>2. Still(r) /\ Holds(r, found, d, over)
    OBVIOUS
  <2> HIDE DEF q, st
  <2>3. st.local >= d
    BY <2>1
  <2>4. Still(q) /\ st.sig \notin over
    <3>1. \A s : st.sig = s => 1 \in Own(r, s, lev + 1)
      BY <2>1, OwnPushed
    <3>2. \A s : Own(r, s, lev + 1) = {} => Own(q, s, lev + 1) = {}
      BY <2>1, OwnPushed
    <3> QED
      BY <2>2, <3>1, <3>2
  <2>5. "EXIT" \in DOMAIN found => Plain(q, d) /\ ~r.posix
    BY <2>1, <2>2, <2>3, RestoredPlain DEF Holds, Plain
  <2>6. ASSUME NEW s \in DOMAIN found, s = "EXIT" \/ found[s][1].level < d
        PROVE  Back(q, s, d, found[s], s \in over)
    <3> DEFINE runs == s \in over
               v == found[s]
    <3>1. s \in AllSigs /\ runs \in BOOLEAN /\ (runs => st.sig # s) /\ (s = "EXIT" => ~r.posix)
      BY <2>4, <2>5, FoundIs
    <3>2. Back(r, s, d, v, runs)
      BY <2>2, <2>6 DEF Holds
    <3> HIDE DEF runs, v
    <3>3. Back(q, s, d, v, runs)
      BY <2>1, <2>3, <3>1, <3>2, RestoredBack
    <3> QED
      BY <3>3 DEF runs, v
  <2>7. Holds(q, found, d, over)
    BY <2>5, <2>6 DEF Holds
  <2> QED
    BY <2>1, <2>4, <2>7 DEF q
<1> HIDE DEF P, Still
<1>3. RestoreAll(t, opts, lev) \in P
  BY <1>1, <1>2, RestoreAllKeeps
<1> QED
  BY <1>3 DEF P

-----------------------------------------------------------------------------
(* A function that is called.                                              *)

LEMMA FoundNow ==
    ASSUME NEW t \in TrapsRecord, NEW opts \in SUBSET Options
    PROVE  LET found == FuncFrame(t, opts).found
           IN  /\ found \in Founds
               /\ DOMAIN found \subseteq Kept(opts)
               /\ "EXIT" \in DOMAIN found => ~t.posix
               /\ \A s \in DOMAIN found : s \in AllSigs /\ found[s] = Now(t, s, FALSE)
<1> DEFINE D == Kept(opts) \ (IF t.posix THEN {"EXIT"} ELSE {})
           found == FuncFrame(t, opts).found
<1>1. FuncFrame(t, opts) \in Frame
  BY FuncFrameIs
<1>2. found \in Founds
  BY <1>1 DEF Frame
<1>3. found = Restrict(Found(t), D)
  BY DEF FuncFrame
<1>4. D \subseteq AllSigs
  BY DEF Kept, AllSigs
<1>5. found = [s \in D |-> Found(t)[s]]
  BY <1>3 DEF Restrict
<1>6. DOMAIN found = D /\ \A s \in D : found[s] = Found(t)[s]
  BY <1>5
<1>7. \A s \in AllSigs : Found(t)[s] = Now(t, s, FALSE)
  BY DEF Found, Now
<1> QED
  BY <1>2, <1>4, <1>6, <1>7

\* Nothing has been saved further inside than the level of the shell.
LEMMA NoneInside ==
    ASSUME NEW t, NEW lev \in Nat, Good(t, lev), NEW s, NEW d \in Nat, d > lev
    PROVE  Own(t, s, d) = {}
<1>1. t \in TrapsRecord /\ Scoped(t, lev)
  BY DEF Good, Tables
<1>2. ASSUME NEW i \in 1 .. Len(t.saved), t.saved[i].local >= d PROVE FALSE
  <2>1. t.saved[i] \in Saved
    BY <1>1, OwnIs
  <2>2. t.saved[i].local \in Nat
    BY <2>1, TrapsAssumption DEF Saved
  <2>3. t.saved[i].local <= lev
    BY <1>1 DEF Scoped
  <2> QED
    BY <1>2, <2>2, <2>3
<1> QED
  BY <1>2 DEF Own

\* Without a scope for the traps, or inside a trap.
LEMMA NewSame ==
    ASSUME NEW t, NEW opts \in SUBSET Options, NEW lev \in Nat, Good(t, lev),
           NEW outside \in BOOLEAN,
           outside => t.trapped["EXIT"] = Zero \/ t.posix
    PROVE  Tied(t, opts, FuncFrame(t, opts).found, lev + 1, {}, outside)
<1> DEFINE found == FuncFrame(t, opts).found
           d == lev + 1
<1>1. t \in TrapsRecord
  BY DEF Good, Tables
<1>2. /\ DOMAIN found \subseteq Kept(opts)
      /\ "EXIT" \in DOMAIN found => ~t.posix
      /\ \A s \in DOMAIN found : s \in AllSigs /\ found[s] = Now(t, s, FALSE)
  BY <1>1, FoundNow
<1>3. \A s : Own(t, s, d) = {} /\ Own(t, s, d + 1) = {}
  BY NoneInside
<1> HIDE DEF found, d
<1>4. ASSUME NEW s \in DOMAIN found PROVE Back(t, s, d, found[s], s \in {})
  <2>1. Back(t, s, d, found[s], FALSE)
    BY <1>2, <1>3 DEF Back
  <2>2. (s \in {}) = FALSE
    OBVIOUS
  <2> QED
    BY <2>1, <2>2, Zenon
<1>5. "EXIT" \in DOMAIN found => Plain(t, d)
  BY <1>2, <1>3 DEF Plain
<1>6. Holds(t, found, d, {})
  BY <1>4, <1>5 DEF Holds
<1>7. outside => Cleared(t, d)
  BY <1>3 DEF Cleared, ClearedAll
<1> QED
  BY <1>2, <1>6, <1>7 DEF Tied, found, d

\* With a scope: the trap on EXIT is saved and removed.
LEMMA NewScope ==
    ASSUME NEW t, NEW opts \in SUBSET Options, NEW lev \in Nat, lev + 1 <= MaxLevel, Good(t, lev),
           Exit(t), t.trapped["EXIT"] # Zero, NEW outside \in BOOLEAN
    PROVE  Tied(removetrap(t, opts, "EXIT", lev + 1), opts, FuncFrame(t, opts).found, lev + 1, {},
                outside)
<1> DEFINE found == FuncFrame(t, opts).found
           d == lev + 1
           r == removetrap(t, opts, "EXIT", d)
           save == MustSave(t, opts, "EXIT", d)
           st == Entry(t, "EXIT", d)
<1>1. t \in TrapsRecord /\ "EXIT" \in AllSigs /\ d \in 0 .. MaxLevel /\ d \in Nat /\ d > lev
      /\ d + 1 \in Nat /\ d + 1 > lev
  BY TrapsAssumption DEF Good, Tables, AllSigs
<1>2. /\ DOMAIN found \subseteq Kept(opts)
      /\ "EXIT" \in DOMAIN found => ~t.posix
      /\ \A s \in DOMAIN found : s \in AllSigs /\ found[s] = Now(t, s, FALSE)
  BY <1>1, FoundNow
<1>3. \A s : Own(t, s, d) = {} /\ Own(t, s, d + 1) = {}
  BY <1>1, NoneInside
<1> HIDE DEF d
<1>4. Alters(t, r, opts, "EXIT", d) /\ r.trapped["EXIT"] = Zero
  BY <1>1, removetrapAlters
<1> HIDE DEF r, found
<1>5. /\ save => st \in Saved /\ Pushed(t, r, st)
      /\ ~save => r.saved = t.saved
      /\ st.sig = "EXIT" /\ st.local = d
      /\ st.posix <=> t.posix
  BY <1>1, <1>4, SavingIs
<1>6. r \in TrapsRecord
      /\ \A s \in AllSigs \ {"EXIT"} : /\ r.trapped[s] = t.trapped[s]
                                       /\ r.lists[s] = t.lists[s]
                                       /\ r.funcs[s] = t.funcs[s]
  BY <1>4 DEF Alters
<1>7. Value(st) = Now(t, "EXIT", FALSE)
  BY <1>1, ValueEntry DEF Good, Tables
<1>8. "EXIT" \in DOMAIN found => save /\ ~r.posix
  <2>1. ASSUME "EXIT" \in DOMAIN found PROVE save /\ ~r.posix
    <3>1. "POSIXTRAPS" \notin opts
      BY <1>2, <2>1, TrapsAssumption DEF Kept
    <3>2. d > t.trapped["EXIT"].level
      <4> DEFINE level == t.trapped["EXIT"].level
      <4>1. level \in Nat
        <5>1. t.trapped["EXIT"] \in Trapped
          BY <1>1 DEF TrapsRecord
        <5> QED
          BY <5>1, TrapsAssumption DEF Trapped
      <4>2. Above(t, level, 0)
        BY DEF Exit
      <4> HIDE DEF level
      <4>3. ASSUME level >= d PROVE FALSE
        <5>1. Further(t, level, 0)
          BY <1>1, <4>1, <4>2, <4>3 DEF Above
        <5>2. Further(t, d, 0)
          BY <1>1, <4>1, <4>3, <5>1, FurtherLess
        <5> QED
          BY <1>3, <5>2 DEF Further
      <4> QED
        BY <1>1, <4>1, <4>3 DEF level
    <3>3. save
      BY <1>1, <3>1, <3>2 DEF MustSave
    <3>4. ~r.posix
      BY <1>4, <3>1 DEF Alters
    <3> QED
      BY <3>3, <3>4
  <2> QED
    BY <2>1
<1> HIDE DEF save, st
<1>9. \A s : \A i \in Own(r, s, d) : i = 1 /\ save /\ s = "EXIT" /\ r.saved[1] = st
  <2> TAKE s
  <2>1. CASE save
    BY <1>1, <1>3, <1>5, <1>6, <2>1, OwnPushed DEF Pushed
  <2>2. CASE ~save
    BY <1>3, <1>5, <2>2, FurtherSame
  <2> QED
    BY <2>1, <2>2
<1>10. Own(r, "EXIT", d + 1) = {}
  <2> DEFINE e == d + 1
  <2>1. ~(st.local >= e) /\ Own(t, "EXIT", e) = {}
    BY <1>1, <1>3, <1>5
  <2> HIDE DEF e
  <2>2. ASSUME save PROVE Own(r, "EXIT", e) = {}
    BY <1>1, <1>5, <1>6, <2>1, <2>2, OwnPushed
  <2>3. ASSUME ~save PROVE Own(r, "EXIT", e) = {}
    BY <1>5, <2>1, <2>3, FurtherSame
  <2> QED
    BY <2>2, <2>3 DEF e
<1>11. save => 1 \in Own(r, "EXIT", d)
  <2>1. st.local >= d
    BY <1>1, <1>5
  <2> QED
    BY <1>1, <1>5, <1>6, <2>1, OwnPushed
<1>12. "EXIT" \in DOMAIN found => Plain(r, d)
  BY <1>2, <1>5, <1>8, <1>9 DEF Plain
<1>13. ASSUME NEW s \in DOMAIN found PROVE Back(r, s, d, found[s], FALSE)
  <2>1. CASE s = "EXIT"
    <3>1. Value(st) = found[s]
      BY <1>2, <1>7, <2>1
    <3>2. Own(r, s, d) # {}
      BY <1>8, <1>11, <2>1
    <3> QED
      BY <1>9, <3>1, <3>2 DEF Back
  <2>2. CASE s # "EXIT"
    <3>1. Own(r, s, d) = {}
      BY <1>9, <2>2
    <3>2. Now(r, s, FALSE) = found[s]
      BY <1>2, <1>6, <2>2 DEF Now
    <3> QED
      BY <3>1, <3>2 DEF Back
  <2> QED
    BY <2>1, <2>2
<1>14. Holds(r, found, d, {})
  <2>1. \A s : (s \in {}) = FALSE
    OBVIOUS
  <2>2. \A s \in DOMAIN found : Back(r, s, d, found[s], s \in {})
    BY <1>13, <2>1, Zenon
  <2> QED
    BY <1>12, <2>2 DEF Holds
<1>15. Cleared(r, d)
  BY <1>4, <1>10 DEF Cleared, ClearedAll
<1> QED
  BY <1>2, <1>14, <1>15 DEF Tied, r, found, d

-----------------------------------------------------------------------------
(* Frames.                                                                 *)

\* The signal of a trap that runs in place.
Held(f) == IF f.kind = "trap" /\ f.inplace THEN {f.sig} ELSE {}

LEMMA DepthIs ==
    ASSUME NEW fs \in Seq(Frame), NEW j \in 1 .. Len(fs)
    PROVE  /\ Depth(fs, j) \in Nat
           /\ Depth(fs, j) <= Level(fs)
           /\ fs[j].kind = "func" => 1 <= Depth(fs, j)
<1> DEFINE D == {i \in 1 .. j : fs[i].kind = "func"}
<1>1. Len(fs) \in Nat /\ DOMAIN fs = 1 .. Len(fs)
  OBVIOUS
<1>2. IsFiniteSet(FuncSet(fs)) /\ D \subseteq FuncSet(fs)
  <2>1. IsFiniteSet(1 .. Len(fs))
    BY <1>1, FS_Interval
  <2>2. FuncSet(fs) \subseteq 1 .. Len(fs)
    BY <1>1 DEF FuncSet
  <2>3. D \subseteq FuncSet(fs)
    BY <1>1 DEF FuncSet
  <2> QED
    BY <2>1, <2>2, <2>3, FS_Subset
<1>3. IsFiniteSet(D) /\ Cardinality(D) <= Cardinality(FuncSet(fs)) /\ Cardinality(D) \in Nat
  BY <1>2, FS_Subset, FS_CardinalityType
<1>4. fs[j].kind = "func" => D # {}
  <2>1. j \in 1 .. j
    OBVIOUS
  <2> QED
    BY <2>1
<1> HIDE DEF D
<1>5. D # {} => 1 <= Cardinality(D)
  BY <1>3, FS_EmptySet
<1> QED
  BY <1>3, <1>4, <1>5 DEF Depth, Level, D

LEMMA AppendIs ==
    ASSUME NEW fs \in Seq(Frame), NEW f \in Frame
    PROVE  LET g == Append(fs, f)
               n == Len(fs)
           IN  /\ n \in Nat /\ Len(g) = n + 1
               /\ g[n + 1] = f
               /\ Depth(g, n + 1) = Level(fs) + Levels(f)
               /\ Over(g, n + 1) = {}
               /\ Outside(g, n + 1) <=> Outside(fs, n) /\ f.kind # "trap"
               /\ \A j \in 1 .. n : /\ g[j] = fs[j]
                                    /\ Depth(g, j) = Depth(fs, j)
                                    /\ Over(g, j) = Over(fs, j) \cup Held(f)
                                    /\ Outside(g, j) <=> Outside(fs, j)
<1> DEFINE g == Append(fs, f)
           n == Len(fs)
<1>1. n \in Nat /\ Len(g) = n + 1 /\ DOMAIN g = 1 .. (n + 1) /\ g[n + 1] = f
      /\ \A j \in 1 .. n : g[j] = fs[j]
  OBVIOUS
<1>2. Level(g) = Level(fs) + Levels(f)
  BY LevelAppend
<1> HIDE DEF g, n
<1>3. Depth(g, n + 1) = Level(g)
  BY <1>1 DEF Depth, Level, FuncSet
<1>4. Over(g, n + 1) = {}
  BY <1>1 DEF Over
<1>5. Outside(g, n + 1) <=> Outside(fs, n) /\ f.kind # "trap"
  <2>1. \A i : i \in 1 .. (n + 1) <=> i \in 1 .. n \/ i = n + 1
    BY <1>1
  <2> QED
    BY <1>1, <2>1 DEF Outside
<1>6. ASSUME NEW j \in 1 .. n
      PROVE  /\ Depth(g, j) = Depth(fs, j)
             /\ Over(g, j) = Over(fs, j) \cup Held(f)
             /\ Outside(g, j) <=> Outside(fs, j)
  <2>1. \A i \in 1 .. j : g[i] = fs[i]
    BY <1>1
  <2>2. {i \in 1 .. j : g[i].kind = "func"} = {i \in 1 .. j : fs[i].kind = "func"}
    BY <2>1
  <2>3. \A i : i \in (j + 1) .. (n + 1) <=> i \in (j + 1) .. n \/ i = n + 1
    BY <1>1
  <2>4. \A i \in (j + 1) .. n : g[i] = fs[i]
    BY <1>1
  <2>5. {g[i].sig : i \in {k \in (j + 1) .. (n + 1) : InPlace(g, k)}}
          = {fs[i].sig : i \in {k \in (j + 1) .. n : InPlace(fs, k)}} \cup Held(f)
    <3> DEFINE A == {k \in (j + 1) .. (n + 1) : InPlace(g, k)}
               B == {k \in (j + 1) .. n : InPlace(fs, k)}
    <3>1. ASSUME NEW i \in A PROVE (i \in B /\ g[i] = fs[i]) \/ (i = n + 1 /\ Held(f) = {g[i].sig})
      <4>1. CASE i = n + 1
        BY <1>1, <3>1, <4>1 DEF InPlace, Held
      <4>2. CASE i # n + 1
        <5>1. i \in (j + 1) .. n /\ InPlace(g, i)
          BY <2>3, <4>2
        <5>2. g[i] = fs[i]
          BY <2>4, <5>1
        <5>3. InPlace(fs, i)
          BY <5>1, <5>2 DEF InPlace
        <5> QED
          BY <5>1, <5>2, <5>3
      <4> QED
        BY <4>1, <4>2
    <3>2. ASSUME NEW i \in B PROVE i \in A /\ g[i].sig = fs[i].sig
      BY <2>3, <2>4 DEF InPlace
    <3>3. ASSUME NEW s \in Held(f) PROVE n + 1 \in A /\ g[n + 1].sig = s
      <4>1. f.kind = "trap" /\ f.inplace /\ s = f.sig
        BY DEF Held
      <4> QED
        BY <1>1, <2>3, <4>1 DEF InPlace
    <3> HIDE DEF A, B
    <3>4. {g[i].sig : i \in A} \subseteq {fs[i].sig : i \in B} \cup Held(f)
      BY <3>1
    <3>5. {fs[i].sig : i \in B} \cup Held(f) \subseteq {g[i].sig : i \in A}
      BY <3>2, <3>3
    <3>6. {g[i].sig : i \in A} = {fs[i].sig : i \in B} \cup Held(f)
      BY <3>4, <3>5
    <3> QED
      BY <3>6 DEF A, B
  <2> QED
    BY <1>1, <2>1, <2>2, <2>5 DEF Depth, Over, Outside, n
<1> QED
  BY <1>1, <1>2, <1>3, <1>4, <1>5, <1>6 DEF g, n

\* What has to hold of the frame that is pushed.
Pushable(t, opts, fs, f) ==
    /\ f.kind = "func"
          => Tied(t, opts, f.found, Level(fs) + 1, {}, Outside(fs, Len(fs)))
    /\ f.kind = "trap" /\ f.inplace
          => f.sig \in Sigs /\ Untouched(t, f.sig, Level(fs))

LEMMA PushTies ==
    ASSUME NEW t, NEW opts, NEW fs \in Seq(Frame), NEW f \in Frame
    PROVE  Ties(t, opts, Append(fs, f), {})
             <=> Ties(t, opts, fs, Held(f)) /\ Pushable(t, opts, fs, f)
<1> DEFINE g == Append(fs, f)
           n == Len(fs)
           One(h, j, more) ==
               h[j].kind = "func"
                   => Tied(t, opts, h[j].found, Depth(h, j), Over(h, j) \cup more, Outside(h, j))
           Two(h, k, more) ==
               InPlace(h, k) => h[k].sig \in Sigs /\ h[k].sig \notin Over(h, k) \cup more
                                /\ Untouched(t, h[k].sig, Depth(h, k))
<1>1. /\ n \in Nat /\ Len(g) = n + 1
      /\ g[n + 1] = f
      /\ Depth(g, n + 1) = Level(fs) + Levels(f)
      /\ Over(g, n + 1) = {}
      /\ Outside(g, n + 1) <=> Outside(fs, n) /\ f.kind # "trap"
      /\ \A j \in 1 .. n : /\ g[j] = fs[j]
                           /\ Depth(g, j) = Depth(fs, j)
                           /\ Over(g, j) = Over(fs, j) \cup Held(f)
                           /\ Outside(g, j) <=> Outside(fs, j)
  BY AppendIs
<1>2. Level(fs) \in Nat
  BY LevelAppend
<1>3. \A j : j \in 1 .. (n + 1) <=> j \in 1 .. n \/ j = n + 1
  BY <1>1
<1> HIDE DEF g
<1>4. ASSUME NEW j \in 1 .. n PROVE One(g, j, {}) <=> One(fs, j, Held(f))
  <2>1. g[j] = fs[j] /\ Depth(g, j) = Depth(fs, j) /\ Over(g, j) \cup {} = Over(fs, j) \cup Held(f)
        /\ Outside(g, j) = Outside(fs, j)
    BY <1>1 DEF Outside
  <2> QED
    BY <2>1, Zenon
<1>5. ASSUME NEW j \in 1 .. n PROVE Two(g, j, {}) <=> Two(fs, j, Held(f))
  <2>1. g[j] = fs[j] /\ Depth(g, j) = Depth(fs, j) /\ Over(g, j) \cup {} = Over(fs, j) \cup Held(f)
    BY <1>1
  <2>2. InPlace(g, j) <=> InPlace(fs, j)
    BY <2>1 DEF InPlace
  <2> QED
    BY <2>1, <2>2, Zenon
<1>6. One(g, n + 1, {}) <=> (f.kind = "func"
          => Tied(t, opts, f.found, Level(fs) + 1, {}, Outside(fs, n)))
  <2>1. CASE f.kind = "func"
    <3>1. Depth(g, n + 1) = Level(fs) + 1 /\ Over(g, n + 1) \cup {} = {}
          /\ Outside(g, n + 1) = Outside(fs, n)
      BY <1>1, <2>1 DEF Levels, Outside
    <3> QED
      BY <1>1, <3>1, Zenon
  <2>2. CASE f.kind # "func"
    BY <1>1, <2>2
  <2> QED
    BY <2>1, <2>2
<1>7. Two(g, n + 1, {}) <=> (f.kind = "trap" /\ f.inplace
          => f.sig \in Sigs /\ Untouched(t, f.sig, Level(fs)))
  <2>1. CASE f.kind = "trap" /\ f.inplace
    <3>1. Depth(g, n + 1) = Level(fs) /\ Over(g, n + 1) \cup {} = {} /\ InPlace(g, n + 1)
      BY <1>1, <1>2, <2>1 DEF Levels, InPlace
    <3>2. Two(g, n + 1, {}) <=> f.sig \in Sigs /\ Untouched(t, f.sig, Level(fs))
      BY <1>1, <3>1
    <3> HIDE DEF Two
    <3> QED
      BY <2>1, <3>2
  <2>2. CASE ~(f.kind = "trap" /\ f.inplace)
    BY <1>1, <2>2 DEF InPlace
  <2> QED
    BY <2>1, <2>2
<1>8. Ties(t, opts, g, {}) <=> /\ \A j \in 1 .. (n + 1) : One(g, j, {})
                               /\ \A j \in 1 .. (n + 1) : Two(g, j, {})
  BY <1>1 DEF Ties
<1>9. Ties(t, opts, fs, Held(f)) <=> /\ \A j \in 1 .. n : One(fs, j, Held(f))
                                     /\ \A j \in 1 .. n : Two(fs, j, Held(f))
  BY DEF Ties
<1>10. Pushable(t, opts, fs, f)
         <=> One(g, n + 1, {}) /\ Two(g, n + 1, {})
  BY <1>6, <1>7 DEF Pushable
<1> HIDE DEF One, Two, n
<1> QED
  BY <1>3, <1>4, <1>5, <1>8, <1>9, <1>10 DEF g

\* Without a trap in place more or less.
LEMMA PushPlain ==
    ASSUME NEW t, NEW opts, NEW fs \in Seq(Frame), NEW f \in Frame,
           ~(f.kind = "trap" /\ f.inplace)
    PROVE  Ties(t, opts, Append(fs, f), {})
             <=> Ties(t, opts, fs, {}) /\ Pushable(t, opts, fs, f)
<1>1. Held(f) = {}
  BY DEF Held
<1> QED
  BY <1>1, PushTies, Zenon

LEMMA SplitTop ==
    ASSUME NEW fs \in Seq(Frame), fs # <<>>
    PROVE  LET b == SubSeq(fs, 1, Len(fs) - 1)
           IN  fs = Append(b, fs[Len(fs)]) /\ Len(b) + 1 = Len(fs)
<1> DEFINE b == SubSeq(fs, 1, Len(fs) - 1)
           f == fs[Len(fs)]
<1>1. b \in Seq(Frame) /\ f \in Frame /\ Len(fs) \in 1 .. Len(fs)
  OBVIOUS
<1>2. Len(b) = Len(fs) - 1 /\ \A i \in 1 .. (Len(fs) - 1) : b[i] = fs[i]
  OBVIOUS
<1>3. Append(b, f) \in Seq(Frame) /\ Len(Append(b, f)) = Len(fs)
  BY <1>1, <1>2
<1>4. ASSUME NEW i \in 1 .. Len(fs) PROVE Append(b, f)[i] = fs[i]
  <2>1. CASE i = Len(fs)
    BY <1>1, <1>2, <2>1
  <2>2. CASE i # Len(fs)
    BY <1>1, <1>2, <2>2
  <2> QED
    BY <2>1, <2>2
<1>5. Len(b) + 1 = Len(fs)
  BY <1>1, <1>2
<1> HIDE DEF b, f
<1>6. fs = Append(b, f)
  BY <1>3, <1>4, SeqEqual
<1> QED
  BY <1>5, <1>6 DEF b, f

LEMMA BelowTop ==
    ASSUME frames \in Seq(Frame), frames # <<>>
    PROVE  /\ Below \in Seq(Frame) /\ Top \in Frame
           /\ frames = Append(Below, Top)
           /\ Len(Below) + 1 = Len(frames)
           /\ Level(frames) = Level(Below) + Levels(Top)
           /\ Level(Below) \in Nat
BY LevelBelow, SplitTop DEF Below, Top

LEMMA WatchFound ==
    ASSUME NEW fs \in Seq(Frame), NEW opts
    PROVE  LET w == Watch(fs, opts)
           IN  /\ Len(w) = Len(fs)
               /\ \A j \in 1 .. Len(fs) :
                     /\ w[j].kind = fs[j].kind /\ w[j].sig = fs[j].sig
                     /\ w[j].inplace = fs[j].inplace
                     /\ DOMAIN w[j].found = DOMAIN fs[j].found \cap Kept(opts)
                     /\ \A s \in DOMAIN w[j].found : w[j].found[s] = fs[j].found[s]
                     /\ Depth(w, j) = Depth(fs, j)
                     /\ Over(w, j) = Over(fs, j)
                     /\ Outside(w, j) <=> Outside(fs, j)
<1> DEFINE w == Watch(fs, opts)
           n == Len(fs)
<1>1. n \in Nat /\ DOMAIN fs = 1 .. n /\ \A i \in 1 .. n : fs[i] \in Frame
  OBVIOUS
<1>2. w \in Seq(Frame) /\ DOMAIN w = 1 .. n
      /\ \A i \in 1 .. n : /\ w[i].kind = fs[i].kind /\ w[i].sig = fs[i].sig
                           /\ w[i].inplace = fs[i].inplace
  BY <1>1, WatchIs
<1>3. ASSUME NEW i \in 1 .. n
      PROVE  w[i].found = Restrict(fs[i].found, DOMAIN fs[i].found \cap Kept(opts))
  BY <1>1 DEF Watch, Frame
<1> HIDE DEF w
<1>4. Len(w) = n
  BY <1>1, <1>2
<1> HIDE DEF n
<1>5. ASSUME NEW i \in 1 .. n
      PROVE  /\ DOMAIN w[i].found = DOMAIN fs[i].found \cap Kept(opts)
             /\ \A s \in DOMAIN w[i].found : w[i].found[s] = fs[i].found[s]
  BY <1>3 DEF Restrict
<1>6. ASSUME NEW j \in 1 .. n
      PROVE  /\ Depth(w, j) = Depth(fs, j)
             /\ Over(w, j) = Over(fs, j)
             /\ Outside(w, j) <=> Outside(fs, j)
  <2>1. \A i \in 1 .. j : i \in 1 .. n
    BY <1>1
  <2>2. {i \in 1 .. j : w[i].kind = "func"} = {i \in 1 .. j : fs[i].kind = "func"}
    BY <1>2, <2>1
  <2>3. \A i \in (j + 1) .. n : i \in 1 .. n
    BY <1>1
  <2>4. {k \in (j + 1) .. n : InPlace(w, k)} = {k \in (j + 1) .. n : InPlace(fs, k)}
    BY <1>2, <2>3 DEF InPlace
  <2>5. Over(w, j) = {w[k].sig : k \in {i \in (j + 1) .. n : InPlace(fs, i)}}
    BY <1>4, <2>4 DEF Over
  <2>6. Over(w, j) = Over(fs, j)
    <3>1. Over(fs, j) = {fs[k].sig : k \in {i \in (j + 1) .. n : InPlace(fs, i)}}
      BY DEF Over, n
    <3>2. \A k \in {i \in (j + 1) .. n : InPlace(fs, i)} : w[k].sig = fs[k].sig
      BY <1>2, <2>3
    <3> QED
      BY <2>5, <3>1, <3>2
  <2>7. Outside(w, j) <=> Outside(fs, j)
    BY <1>2, <2>1 DEF Outside
  <2> QED
    BY <2>2, <2>6, <2>7 DEF Depth
<1> QED
  BY <1>2, <1>4, <1>5, <1>6 DEF w, n

\* The frames found less, and go on with other options.
LEMMA WatchTied ==
    ASSUME NEW t, NEW found, NEW kept, NEW opts,
           DOMAIN kept = DOMAIN found \cap Kept(opts),
           \A s \in DOMAIN kept : kept[s] = found[s],
           NEW d, NEW over, NEW outside, Holds(t, found, d, over), outside => Cleared(t, d)
    PROVE  Tied(t, opts, kept, d, over, outside)
BY DEF Tied, Holds

LEMMA WatchTies ==
    ASSUME NEW t, NEW fs \in Seq(Frame), NEW opts,
           \A j \in 1 .. Len(fs) : fs[j].kind = "func"
               => /\ Holds(t, fs[j].found, Depth(fs, j), Over(fs, j))
                  /\ Outside(fs, j) => Cleared(t, Depth(fs, j)),
           \A k \in 1 .. Len(fs) : InPlace(fs, k)
               => fs[k].sig \in Sigs /\ fs[k].sig \notin Over(fs, k)
                  /\ Untouched(t, fs[k].sig, Depth(fs, k))
    PROVE  Ties(t, opts, Watch(fs, opts), {})
<1> DEFINE w == Watch(fs, opts)
<1>1. /\ Len(w) = Len(fs)
      /\ \A j \in 1 .. Len(fs) :
            /\ w[j].kind = fs[j].kind /\ w[j].sig = fs[j].sig
            /\ w[j].inplace = fs[j].inplace
            /\ DOMAIN w[j].found = DOMAIN fs[j].found \cap Kept(opts)
            /\ \A s \in DOMAIN w[j].found : w[j].found[s] = fs[j].found[s]
            /\ Depth(w, j) = Depth(fs, j)
            /\ Over(w, j) = Over(fs, j)
            /\ Outside(w, j) <=> Outside(fs, j)
  BY WatchFound
<1> HIDE DEF w
<1>2. ASSUME NEW j \in 1 .. Len(w), w[j].kind = "func"
      PROVE  Tied(t, opts, w[j].found, Depth(w, j), Over(w, j) \cup {}, Outside(w, j))
  <2>1. /\ Holds(t, fs[j].found, Depth(w, j), Over(w, j))
        /\ Outside(w, j) => Cleared(t, Depth(w, j))
    BY <1>1, <1>2
  <2>2. /\ DOMAIN w[j].found = DOMAIN fs[j].found \cap Kept(opts)
        /\ \A s \in DOMAIN w[j].found : w[j].found[s] = fs[j].found[s]
    BY <1>1
  <2>3. Tied(t, opts, w[j].found, Depth(w, j), Over(w, j), Outside(w, j))
    BY <2>1, <2>2, WatchTied
  <2>4. Over(w, j) \cup {} = Over(w, j)
    OBVIOUS
  <2> QED
    BY <2>3, <2>4, Zenon
<1>3. ASSUME NEW k \in 1 .. Len(w), InPlace(w, k)
      PROVE  w[k].sig \in Sigs /\ w[k].sig \notin Over(w, k) \cup {}
             /\ Untouched(t, w[k].sig, Depth(w, k))
  <2>1. InPlace(fs, k)
    BY <1>1, <1>3 DEF InPlace
  <2> QED
    BY <1>1, <2>1
<1> QED
  BY <1>2, <1>3 DEF Ties, w

-----------------------------------------------------------------------------
(* The steps.                                                              *)

LEMMA BecomesIs ==
    ASSUME NEW t \in TrapsRecord, Become(t)
    PROVE  Traps' = t
<1>1. Traps' = [trapped |-> t.trapped, lists |-> t.lists, funcs |-> t.funcs,
                saved |-> t.saved, posix |-> t.posix, n |-> t.n]
  BY DEF Traps, Become
<1> QED
  BY <1>1 DEF TrapsRecord

LEMMA InvIs ==
    ASSUME IInv
    PROVE  /\ Traps \in TrapsRecord /\ Good(Traps, locallevel)
           /\ \A s \in AllSigs : SigOK(Traps, s)
           /\ frames \in Seq(Frame) /\ options \in SUBSET Options
           /\ locallevel \in 0 .. MaxLevel /\ locallevel \in Nat /\ MaxLevel \in Nat
           /\ locallevel = Level(frames)
BY TrapsAssumption, Levelled DEF IInv, Good, Tables

\* A trap that runs further inside is that of a frame.
LEMMA OverIs ==
    ASSUME NEW fs \in Seq(Frame), NEW j \in 1 .. Len(fs), NEW s \in Over(fs, j)
    PROVE  \E k \in 1 .. Len(fs) : k > j /\ InPlace(fs, k) /\ fs[k].sig = s
<1>1. PICK k \in (j + 1) .. Len(fs) : InPlace(fs, k) /\ fs[k].sig = s
  BY DEF Over
<1>2. k \in 1 .. Len(fs) /\ k > j
  OBVIOUS
<1> QED
  BY <1>1, <1>2

\* The trap of a signal that does not run is changed.
LEMMA AltersTies ==
    ASSUME NEW t \in TrapsRecord, NEW opts, NEW sig \in AllSigs, NEW lev \in 0 .. MaxLevel,
           NEW r, Alters(t, r, opts, sig, lev), Exit(t), SigOK(t, sig),
           NEW fs \in Seq(Frame), Level(fs) <= lev, Ties(t, opts, fs, {}),
           \A k \in 1 .. Len(fs) : InPlace(fs, k) => fs[k].sig # sig
    PROVE  Ties(r, opts, fs, {})
<1>1. ASSUME NEW j \in 1 .. Len(fs), fs[j].kind = "func"
      PROVE  Tied(r, opts, fs[j].found, Depth(fs, j), Over(fs, j) \cup {}, Outside(fs, j))
  <2> DEFINE found == fs[j].found
             d == Depth(fs, j)
             over == Over(fs, j) \cup {}
             outside == Outside(fs, j)
  <2>1. d \in Nat /\ 1 <= d /\ d <= lev
    <3>1. d \in Nat /\ d <= Level(fs) /\ 1 <= d
      BY <1>1, DepthIs
    <3>2. lev \in Nat /\ Level(fs) \in Nat
      BY TrapsAssumption, LevelAppend, TrapFrameIs
    <3> QED
      BY <3>1, <3>2
  <2>2. found \in Founds
    <3>1. fs[j] \in Frame
      OBVIOUS
    <3> QED
      BY <3>1 DEF Frame
  <2>3. sig \notin over
    BY OverIs
  <2>4. outside \in BOOLEAN
    BY DEF Outside
  <2>5. Tied(t, opts, found, d, over, outside)
    BY <1>1 DEF Ties
  <2> HIDE DEF found, d, over, outside
  <2>6. Tied(r, opts, found, d, over, outside)
    BY <2>1, <2>2, <2>3, <2>4, <2>5, AltersTied
  <2> QED
    BY <2>6 DEF found, d, over, outside
<1>2. ASSUME NEW k \in 1 .. Len(fs), InPlace(fs, k)
      PROVE  fs[k].sig \in Sigs /\ fs[k].sig \notin Over(fs, k) \cup {}
             /\ Untouched(r, fs[k].sig, Depth(fs, k))
  <2>1. fs[k].sig \in Sigs /\ fs[k].sig \notin Over(fs, k) \cup {}
        /\ Untouched(t, fs[k].sig, Depth(fs, k)) /\ fs[k].sig # sig
    BY <1>2 DEF Ties
  <2>2. fs[k].sig \in AllSigs
    BY <2>1 DEF AllSigs
  <2> QED
    BY <2>1, <2>2, AltersUntouched
<1> QED
  BY <1>1, <1>2 DEF Ties

\* A command changes a trap.
LEMMA AltersStep ==
    ASSUME IInv, TInv, NEW sig \in AllSigs, NEW r, sig \notin Running,
           Alters(Traps, r, options, sig, locallevel), Become(r), UNCHANGED <<options, frames>>
    PROVE  TInv'
<1>1. Traps' = r
  BY BecomesIs DEF Alters
<1>2. \A k \in 1 .. Len(frames) : InPlace(frames, k) => frames[k].sig # sig
  <2>1. DOMAIN frames = 1 .. Len(frames)
    BY InvIs
  <2> QED
    BY <2>1 DEF Running, InPlace
<1>3. Exit(r)
  BY InvIs, AltersExit DEF TInv
<1>4. Ties(r, options, frames, {})
  <2>1. Level(frames) <= locallevel
    BY InvIs
  <2> QED
    BY <1>2, <2>1, InvIs, AltersTies DEF TInv
<1> QED
  BY <1>1, <1>3, <1>4 DEF TInv

LEMMA ChangeTied == ASSUME ~SelfChange PROVE IInv /\ TInv /\ Change => TInv'
<1> SUFFICES ASSUME IInv, TInv, Change PROVE TInv'
  OBVIOUS
<1>1. Traps \in TrapsRecord /\ locallevel \in 0 .. MaxLevel /\ Good(Traps, locallevel)
  BY InvIs
<1>2. PICK sig \in AllSigs : \/ \E l \in Bodies \cup {"empty"} : trap(sig, l)
                             \/ unsettrap(sig)
                             \/ \E b \in Bodies : execfuncdef(sig, b)
                             \/ removeshfuncnode(sig)
  BY DEF Change
<1>3. sig \notin Running
  BY <1>2 DEF trap, unsettrap, execfuncdef, removeshfuncnode, MayChange
<1>4. ASSUME NEW l \in Bodies \cup {"empty"}, trap(sig, l) PROVE TInv'
  <2> DEFINE r == settrap(Traps, options, sig, l, FALSE, locallevel)
  <2>1. Become(r) /\ UNCHANGED <<options, frames>>
    BY <1>4 DEF trap
  <2>2. l \in Lists /\ FALSE \in BOOLEAN
    BY DEF Lists
  <2>3. removetrap(Traps, options, sig, locallevel) \in TrapsRecord
    BY <1>1, removetrapGood DEF Good, Tables
  <2>4. IsSet(removetrap(Traps, options, sig, locallevel), options, sig, l, FALSE, locallevel, r)
    BY <1>1, <2>2, <2>3, SetIs DEF settrap
  <2>5. r \in TrapsRecord
    BY <2>4 DEF IsSet, Differs
  <2> HIDE DEF r
  <2>6. r.funcs[sig] \in Funcs /\ r.funcs = [r.funcs EXCEPT ![sig] = r.funcs[sig]]
    BY <2>5 DEF TrapsRecord
  <2>7. Entered(r, r, sig, r.funcs[sig])
    BY <2>5, <2>6 DEF Entered
  <2>8. Alters(Traps, r, options, sig, locallevel)
    BY <1>1, <2>2, <2>6, <2>7, SetAlters DEF r
  <2> QED
    BY <1>3, <2>1, <2>8, AltersStep
<1>5. CASE unsettrap(sig) \/ removeshfuncnode(sig)
  <2>1. Alters(Traps, removetrap(Traps, options, sig, locallevel), options, sig, locallevel)
    BY <1>1, removetrapAlters
  <2>2. Become(removetrap(Traps, options, sig, locallevel)) /\ UNCHANGED <<options, frames>>
    BY <1>5 DEF unsettrap, removeshfuncnode
  <2> QED
    BY <1>3, <2>1, <2>2, AltersStep
<1>6. ASSUME NEW b \in Bodies, execfuncdef(sig, b) PROVE TInv'
  <2> DEFINE r == settrap(Traps, options, sig, "none", TRUE, locallevel)
             q == [r EXCEPT !.funcs[sig] = b]
  <2>1. Become(q) /\ UNCHANGED <<options, frames>>
    BY <1>6 DEF execfuncdef
  <2>2. "none" \in Lists /\ TRUE \in BOOLEAN /\ b \in Funcs
    BY DEF Lists, Funcs
  <2>3. removetrap(Traps, options, sig, locallevel) \in TrapsRecord
    BY <1>1, removetrapGood DEF Good, Tables
  <2>4. IsSet(removetrap(Traps, options, sig, locallevel), options, sig, "none", TRUE,
              locallevel, r)
    BY <1>1, <2>2, <2>3, SetIs DEF settrap
  <2>5. r \in TrapsRecord
    BY <2>4 DEF IsSet, Differs
  <2> HIDE DEF r
  <2>6. Entered(r, q, sig, b)
    BY <2>2, <2>5 DEF Entered, TrapsRecord
  <2> HIDE DEF q
  <2>7. Alters(Traps, q, options, sig, locallevel)
    BY <1>1, <2>2, <2>6, SetAlters DEF r
  <2> QED
    BY <1>3, <2>1, <2>7, AltersStep
<1> QED
  BY <1>2, <1>4, <1>5, <1>6

LEMMA setoptTied == ASSUME NEW opt \in Options, IInv, TInv, setopt(opt) PROVE TInv'
<1>1. frames' = Watch(frames, options') /\ Traps' = Traps
  BY DEF setopt, Traps, trapVars
<1>2. ASSUME NEW j \in 1 .. Len(frames), frames[j].kind = "func"
      PROVE  /\ Holds(Traps, frames[j].found, Depth(frames, j), Over(frames, j))
             /\ Outside(frames, j) => Cleared(Traps, Depth(frames, j))
  <2>1. Tied(Traps, options, frames[j].found, Depth(frames, j), Over(frames, j) \cup {},
             Outside(frames, j))
    BY <1>2 DEF TInv, Ties
  <2>2. Over(frames, j) \cup {} = Over(frames, j)
    OBVIOUS
  <2>3. Tied(Traps, options, frames[j].found, Depth(frames, j), Over(frames, j),
             Outside(frames, j))
    BY <2>1, <2>2, Zenon
  <2> QED
    BY <2>3 DEF Tied
<1>3. ASSUME NEW k \in 1 .. Len(frames), InPlace(frames, k)
      PROVE  frames[k].sig \in Sigs /\ frames[k].sig \notin Over(frames, k)
             /\ Untouched(Traps, frames[k].sig, Depth(frames, k))
  BY <1>3 DEF TInv, Ties
<1>4. Ties(Traps, options', Watch(frames, options'), {})
  BY <1>2, <1>3, InvIs, WatchTies
<1> QED
  BY <1>1, <1>4 DEF TInv

\* No trap runs.
LEMMA NoTrap ==
    ASSUME frames \in Seq(Frame)
    PROVE  intrap > 0 <=> ~Outside(frames, Len(frames))
<1> DEFINE D == {i \in DOMAIN frames : frames[i].kind = "trap"}
<1>1. DOMAIN frames = 1 .. Len(frames) /\ Len(frames) \in Nat
  OBVIOUS
<1>2. IsFiniteSet(D)
  <2>1. IsFiniteSet(1 .. Len(frames)) /\ D \subseteq 1 .. Len(frames)
    BY <1>1, FS_Interval
  <2> QED
    BY <2>1, FS_Subset
<1>3. D = {} <=> Outside(frames, Len(frames))
  BY <1>1 DEF Outside
<1> HIDE DEF D
<1>4. Cardinality(D) \in Nat /\ (Cardinality(D) = 0 <=> D = {})
  BY <1>2, FS_EmptySet, FS_CardinalityType
<1> QED
  BY <1>3, <1>4 DEF intrap, D

LEMMA CallTied == IInv /\ TInv /\ Call => TInv'
<1> SUFFICES ASSUME IInv, TInv, Call PROVE TInv'
  OBVIOUS
<1> DEFINE t == starttrapscope(Traps, options)
           lev == locallevel + 1
           f == FuncFrame(Traps, options)
           outside == Outside(frames, Len(frames))
<1>1. /\ Traps \in TrapsRecord /\ Good(Traps, locallevel)
      /\ frames \in Seq(Frame) /\ options \in SUBSET Options
      /\ locallevel \in Nat /\ MaxLevel \in Nat /\ locallevel = Level(frames)
      /\ lev \in 0 .. MaxLevel /\ lev <= MaxLevel /\ Level(frames) <= lev
  BY InvIs DEF Call
<1>2. Become(t) /\ frames' = Append(frames, f) /\ options' = options
  BY DEF Call
<1>3. f \in Frame /\ f.kind = "func"
  BY <1>1, FuncFrameIs
<1>4. Exit(Traps) /\ Ties(Traps, options, frames, {})
  BY DEF TInv
<1>5. outside \in BOOLEAN /\ (intrap > 0 <=> ~outside)
  BY <1>1, NoTrap DEF Outside
<1> HIDE DEF outside
<1>6. CASE intrap > 0 \/ sigtrapped["EXIT"] = Zero \/ exit_trap_posix
  <2>1. t = Traps /\ (outside => Traps.trapped["EXIT"] = Zero \/ Traps.posix)
    BY <1>5, <1>6 DEF starttrapscope, Traps
  <2>2. Tied(Traps, options, f.found, locallevel + 1, {}, outside)
    BY <1>1, <1>5, <2>1, NewSame
  <2>3. Pushable(Traps, options, frames, f)
    BY <1>1, <1>3, <2>2 DEF Pushable, outside
  <2> HIDE DEF f, t
  <2>4. Ties(Traps, options, Append(frames, f), {})
    BY <1>1, <1>3, <1>4, <2>3, PushPlain
  <2>5. Traps' = Traps
    BY <1>1, <1>2, <2>1, BecomesIs
  <2> QED
    BY <1>2, <1>4, <2>4, <2>5 DEF TInv
<1>7. CASE ~(intrap > 0 \/ sigtrapped["EXIT"] = Zero \/ exit_trap_posix)
  <2>1. t = removetrap(Traps, options, "EXIT", lev) /\ Traps.trapped["EXIT"] # Zero
    BY <1>7 DEF starttrapscope, Traps
  <2>2. "EXIT" \in AllSigs
    BY DEF AllSigs
  <2>3. Alters(Traps, t, options, "EXIT", lev)
    BY <1>1, <2>1, <2>2, removetrapAlters
  <2>4. Tied(t, options, f.found, locallevel + 1, {}, outside)
    BY <1>1, <1>4, <1>5, <2>1, NewScope
  <2> HIDE DEF t, f
  <2>5. \A k \in 1 .. Len(frames) : InPlace(frames, k) => frames[k].sig # "EXIT"
    BY <1>4, TrapsAssumption DEF Ties
  <2>6. SigOK(Traps, "EXIT")
    BY <2>2, InvIs
  <2>7. Ties(t, options, frames, {})
    BY <1>1, <1>4, <2>2, <2>3, <2>5, <2>6, AltersTies
  <2>8. Pushable(t, options, frames, f)
    BY <1>1, <1>3, <2>4 DEF Pushable, outside
  <2>9. Ties(t, options, Append(frames, f), {})
    BY <1>1, <1>3, <2>7, <2>8, PushPlain
  <2>10. Exit(t)
    BY <1>1, <1>4, <2>2, <2>3, AltersExit
  <2>11. Traps' = t
    BY <1>2, <2>3, BecomesIs DEF Alters
  <2> QED
    BY <1>2, <2>9, <2>10, <2>11 DEF TInv
<1> QED
  BY <1>6, <1>7

-----------------------------------------------------------------------------
(* Returns.                                                                *)

\* The trap on EXIT of the function that ends is gone before others are put
\* back: no function had found it.
LEMMA ClearKeeps ==
    ASSUME NEW t \in TrapsRecord, NEW lev \in Nat, Cleared(t, lev), ~t.posix,
           t.trapped["EXIT"] # Zero
    PROVE  LET r == Clear(t, "EXIT")
           IN  /\ Exit(t) => Exit(r)
               /\ \A d : Cleared(t, d) => Cleared(r, d)
               /\ \A d : \A s \in Sigs : Untouched(t, s, d) => Untouched(r, s, d)
               /\ \A over : \A found \in Founds : \A d \in Nat :
                     d <= lev /\ Holds(t, found, d, over) => Holds(r, found, d, over)
<1> DEFINE r == Clear(t, "EXIT")
<1>1. "EXIT" \in AllSigs /\ "EXIT" \notin Sigs /\ Sigs \subseteq AllSigs
  BY TrapsAssumption DEF AllSigs
<1>2. Differs(t, r, "EXIT") /\ r.trapped["EXIT"] = Zero /\ r.posix = (t.posix /\ "EXIT" # "EXIT")
  BY <1>1, ClearIs
<1> HIDE DEF r
<1>3. /\ r \in TrapsRecord /\ r.saved = t.saved /\ ~r.posix
      /\ \A s \in AllSigs \ {"EXIT"} : Now(r, s, FALSE) = Now(t, s, FALSE)
                                       /\ Now(r, s, TRUE) = Now(t, s, TRUE)
                                       /\ r.trapped[s] = t.trapped[s]
  BY <1>2 DEF Differs, Now
<1>4. /\ \A s, d : Own(r, s, d) = Own(t, s, d)
      /\ AboveAll(r) <=> AboveAll(t)
      /\ \A d : ClearedAll(r, d) <=> ClearedAll(t, d)
  BY <1>3, FurtherSame
<1>5. Exit(t) => Exit(r)
  BY <1>2, <1>3, <1>4, ZeroIs DEF Exit, Above
<1>6. \A d : Cleared(t, d) => Cleared(r, d)
  BY <1>2, <1>4 DEF Cleared
<1>7. ASSUME NEW s \in Sigs, NEW d, Untouched(t, s, d) PROVE Untouched(r, s, d)
  BY <1>1, <1>3, <1>4, <1>7 DEF Untouched
<1>8. ASSUME NEW found \in Founds, NEW over, NEW d \in Nat, d <= lev, Holds(t, found, d, over)
      PROVE  Holds(r, found, d, over)
  <2>1. "EXIT" \in DOMAIN found => Plain(r, d)
    BY <1>3, <1>4, <1>8 DEF Holds, Plain
  <2>2. ASSUME NEW s \in DOMAIN found, s = "EXIT" \/ found[s][1].level < d
        PROVE  Back(r, s, d, found[s], s \in over)
    <3> DEFINE runs == s \in over
               v == found[s]
    <3>1. Back(t, s, d, v, runs) /\ s \in AllSigs /\ runs \in BOOLEAN
      BY <1>8, <2>2, FoundIs DEF Holds
    <3>2. CASE s = "EXIT"
      <4>1. Further(t, lev, 0)
        BY DEF Cleared
      <4>2. Further(t, d, 0)
        BY <1>8, <4>1, FurtherLess
      <4>3. Own(t, s, d) # {}
        BY <3>2, <4>2 DEF Further
      <4> HIDE DEF runs, v
      <4>4. Back(r, s, d, v, runs)
        BY <1>3, <3>1, <4>3, SameBack
      <4> QED
        BY <4>4 DEF runs, v
    <3>3. CASE s # "EXIT"
      <4> HIDE DEF runs, v
      <4>1. Now(r, s, runs) = Now(t, s, runs)
        BY <1>3, <3>1, <3>3
      <4>2. Back(r, s, d, v, runs)
        BY <1>3, <3>1, <4>1, SameBack
      <4> QED
        BY <4>2 DEF runs, v
    <3> QED
      BY <3>2, <3>3
  <2> QED
    BY <2>1, <2>2 DEF Holds
<1> QED
  BY <1>5, <1>6, <1>7, <1>8 DEF r

\* What the return keeps of the frames below, and of what the function that
\* returns has found.
Stand(t, fs) ==
    /\ \A j \in 1 .. Len(fs) : fs[j].kind = "func"
           => /\ Holds(t, fs[j].found, Depth(fs, j), Over(fs, j))
              /\ Outside(fs, j) => Cleared(t, Depth(fs, j))
    /\ \A k \in 1 .. Len(fs) : InPlace(fs, k)
           => fs[k].sig \in Sigs /\ fs[k].sig \notin Over(fs, k)
              /\ Untouched(t, fs[k].sig, Depth(fs, k))

LEMMA StandTies ==
    ASSUME NEW t, NEW opts, NEW fs, Ties(t, opts, fs, {})
    PROVE  Stand(t, fs)
<1>1. \A over : over \cup {} = over
  OBVIOUS
<1>2. ASSUME NEW j \in 1 .. Len(fs), fs[j].kind = "func"
      PROVE  /\ Holds(t, fs[j].found, Depth(fs, j), Over(fs, j))
             /\ Outside(fs, j) => Cleared(t, Depth(fs, j))
  <2>1. Tied(t, opts, fs[j].found, Depth(fs, j), Over(fs, j) \cup {}, Outside(fs, j))
    BY <1>2 DEF Ties
  <2>2. Tied(t, opts, fs[j].found, Depth(fs, j), Over(fs, j), Outside(fs, j))
    BY <1>1, <2>1, Zenon
  <2> QED
    BY <2>2 DEF Tied
<1>3. ASSUME NEW k \in 1 .. Len(fs), InPlace(fs, k)
      PROVE  fs[k].sig \in Sigs /\ fs[k].sig \notin Over(fs, k)
             /\ Untouched(t, fs[k].sig, Depth(fs, k))
  BY <1>3 DEF Ties
<1> QED
  BY <1>2, <1>3 DEF Stand

LEMMA StandClear ==
    ASSUME NEW t \in TrapsRecord, NEW lev \in Nat, Cleared(t, lev), ~t.posix,
           t.trapped["EXIT"] # Zero, NEW fs \in Seq(Frame), Level(fs) <= lev, Stand(t, fs)
    PROVE  Stand(Clear(t, "EXIT"), fs)
<1> DEFINE r == Clear(t, "EXIT")
<1>1. /\ \A d : Cleared(t, d) => Cleared(r, d)
      /\ \A d : \A s \in Sigs : Untouched(t, s, d) => Untouched(r, s, d)
      /\ \A over : \A found \in Founds : \A d \in Nat :
             d <= lev /\ Holds(t, found, d, over) => Holds(r, found, d, over)
  BY ClearKeeps
<1> HIDE DEF r
<1>2. ASSUME NEW j \in 1 .. Len(fs)
      PROVE  fs[j].found \in Founds /\ Depth(fs, j) \in Nat /\ Depth(fs, j) <= lev
  <2>1. fs[j] \in Frame
    OBVIOUS
  <2>2. Level(fs) \in Nat
    BY <2>1, LevelAppend
  <2>3. Depth(fs, j) \in Nat /\ Depth(fs, j) <= Level(fs)
    BY DepthIs
  <2> QED
    BY <2>1, <2>2, <2>3 DEF Frame
<1> QED
  BY <1>1, <1>2 DEF Stand, r

LEMMA StandRestore ==
    ASSUME NEW t, NEW opts, NEW lev \in Nat, lev + 1 \in 0 .. MaxLevel, Good(t, lev + 1),
           NEW fs \in Seq(Frame), Level(fs) = lev, Stand(t, fs)
    PROVE  Stand(RestoreAll(t, opts, lev), fs)
<1> DEFINE r == RestoreAll(t, opts, lev)
           top == lev + 1
<1>1. top \in 0 .. MaxLevel /\ lev \in 0 .. MaxLevel /\ Good(t, top) /\ t \in TrapsRecord
  BY TrapsAssumption DEF Good, Tables
<1>2. ASSUME NEW j \in 1 .. Len(fs)
      PROVE  fs[j].found \in Founds /\ Depth(fs, j) \in Nat /\ Depth(fs, j) <= lev
             /\ Depth(fs, j) <= lev + 1
  <2>1. fs[j] \in Frame
    OBVIOUS
  <2>2. Depth(fs, j) \in Nat /\ Depth(fs, j) <= Level(fs)
    BY DepthIs
  <2> QED
    BY <2>1, <2>2 DEF Frame
<1>3. ASSUME NEW s, NEW d \in Nat, d <= lev, Own(t, s, d + 1) = {}
      PROVE  Own(t, s, lev + 1) = {}
  <2>1. ASSUME NEW i \in 1 .. Len(t.saved), t.saved[i].local >= lev + 1
        PROVE  t.saved[i].local >= d + 1
    <3>1. t.saved[i] \in Saved
      BY <1>1, OwnIs
    <3>2. t.saved[i].local \in Nat
      BY <3>1, TrapsAssumption DEF Saved
    <3> QED
      BY <1>3, <2>1, <3>2
  <2> QED
    BY <1>3, <2>1 DEF Own
<1> HIDE DEF r, top
<1>4. ASSUME NEW j \in 1 .. Len(fs), fs[j].kind = "func"
      PROVE  /\ Holds(r, fs[j].found, Depth(fs, j), Over(fs, j))
             /\ Outside(fs, j) => Cleared(r, Depth(fs, j))
  <2>1. \A s \in Over(fs, j) : Own(t, s, lev + 1) = {}
    <3> TAKE s \in Over(fs, j)
    <3>1. PICK k \in 1 .. Len(fs) : InPlace(fs, k) /\ fs[k].sig = s
      BY OverIs
    <3>2. Untouched(t, s, Depth(fs, k))
      BY <3>1 DEF Stand
    <3> QED
      BY <1>2, <1>3, <3>2 DEF Untouched
  <2>2. Holds(t, fs[j].found, Depth(fs, j), Over(fs, j))
        /\ (Outside(fs, j) => Cleared(t, Depth(fs, j)))
    BY <1>4 DEF Stand
  <2>3. Holds(r, fs[j].found, Depth(fs, j), Over(fs, j))
    BY <1>1, <1>2, <2>1, <2>2, RestoreAllHolds DEF r
  <2>4. ASSUME Outside(fs, j) PROVE Cleared(r, Depth(fs, j))
    BY <1>1, <1>2, <2>2, <2>4, RestoreAllCleared DEF r
  <2> QED
    BY <2>3, <2>4
<1>5. ASSUME NEW k \in 1 .. Len(fs), InPlace(fs, k)
      PROVE  fs[k].sig \in Sigs /\ fs[k].sig \notin Over(fs, k)
             /\ Untouched(r, fs[k].sig, Depth(fs, k))
  <2>1. fs[k].sig \in Sigs /\ fs[k].sig \notin Over(fs, k)
        /\ Untouched(t, fs[k].sig, Depth(fs, k))
    BY <1>5 DEF Stand
  <2>2. fs[k].sig \in AllSigs
    BY <2>1 DEF AllSigs
  <2>3. Untouched(r, fs[k].sig, Depth(fs, k))
    BY <1>1, <1>2, <2>1, <2>2, RestoreAllUntouched DEF r
  <2> QED
    BY <2>1, <2>3
<1> QED
  BY <1>4, <1>5 DEF Stand, r

\* What a return leaves: the traps that the function found, and the rest of
\* the invariant for those who called it.
LEMMA ReturnIs ==
    ASSUME IInv, TInv, Return
    PROVE  LET t == endtrapscope(Traps, options', locallevel - 1)
           IN  /\ locallevel - 1 \in Nat /\ Level(Below) = locallevel - 1
               /\ Good(t, locallevel - 1) /\ Exit(t) /\ Stand(t, Below)
               /\ Holds(t, Top.found, locallevel, {})
               /\ Below \in Seq(Frame) /\ Top \in Frame
<1> DEFINE a == IF exittr = Zero THEN Traps ELSE Clear(Traps, "EXIT")
           t == endtrapscope(Traps, options', locallevel - 1)
           lev == locallevel - 1
           outside == Outside(Below, Len(Below))
<1>1. /\ Traps \in TrapsRecord /\ Good(Traps, locallevel)
      /\ frames \in Seq(Frame)
      /\ locallevel \in 0 .. MaxLevel /\ locallevel \in Nat /\ MaxLevel \in Nat
      /\ locallevel = Level(frames)
  BY InvIs
<1>2. frames # <<>> /\ Top.kind = "func" /\ t = RestoreAll(a, options', lev)
  BY DEF Return, endtrapscope
<1>3. /\ Below \in Seq(Frame) /\ Top \in Frame
      /\ frames = Append(Below, Top)
      /\ Len(Below) + 1 = Len(frames)
      /\ Level(frames) = Level(Below) + Levels(Top)
      /\ Level(Below) \in Nat
  BY <1>1, <1>2, BelowTop
<1>4. lev \in Nat /\ Level(Below) = lev /\ lev + 1 = locallevel /\ lev <= locallevel
      /\ lev \in 0 .. MaxLevel /\ lev + 1 \in 0 .. MaxLevel /\ Level(Below) <= locallevel
  BY <1>1, <1>2, <1>3 DEF Levels
<1>5. Ties(Traps, options, Below, {}) /\ Pushable(Traps, options, Below, Top)
  <2>1. Ties(Traps, options, Append(Below, Top), {})
    BY <1>3 DEF TInv
  <2> QED
    BY <1>2, <1>3, <2>1, PushPlain
<1>6. Tied(Traps, options, Top.found, locallevel, {}, outside)
  BY <1>2, <1>4, <1>5 DEF Pushable
<1>7. Stand(Traps, Below)
  BY <1>5, StandTies
<1>8. Holds(Traps, Top.found, locallevel, {}) /\ (outside => Cleared(Traps, locallevel))
  BY <1>6 DEF Tied
<1>9. Top.found \in Founds
  BY <1>3 DEF Frame
<1> HIDE DEF t, lev, outside
<1>10. Good(a, locallevel) /\ Exit(a) /\ Stand(a, Below) /\ Holds(a, Top.found, locallevel, {})
  <2>1. CASE exittr = Zero
    BY <1>1, <1>7, <1>8, <2>1 DEF TInv
  <2>2. CASE exittr # Zero
    <3>1. ~(intrap > 0) /\ ~exit_trap_posix /\ sigtrapped["EXIT"] # Zero
      BY <2>2 DEF exittr
    <3>2. Outside(frames, Len(frames))
      BY <1>1, <3>1, NoTrap
    <3>3. outside
      <4>1. /\ Len(Below) \in Nat
            /\ Outside(Append(Below, Top), Len(Below) + 1) <=> Outside(Below, Len(Below)) /\ Top.kind # "trap"
        BY <1>3, AppendIs
      <4> QED
        BY <1>3, <3>2, <4>1 DEF outside
    <3>4. Cleared(Traps, locallevel) /\ ~Traps.posix /\ Traps.trapped["EXIT"] # Zero
      BY <1>8, <3>1, <3>3 DEF Traps
    <3>5. "EXIT" \in AllSigs
      BY DEF AllSigs
    <3>6. Good(Clear(Traps, "EXIT"), locallevel)
      BY <1>1, <3>5, ClearGood
    <3>7. Exit(Clear(Traps, "EXIT"))
      BY <1>1, <3>4, ClearKeeps DEF TInv
    <3>8. Stand(Clear(Traps, "EXIT"), Below)
      BY <1>1, <1>3, <1>4, <1>7, <3>4, StandClear
    <3>9. Holds(Clear(Traps, "EXIT"), Top.found, locallevel, {})
      <4>1. \A over : \A found \in Founds : \A d \in Nat :
                d <= locallevel /\ Holds(Traps, found, d, over)
                    => Holds(Clear(Traps, "EXIT"), found, d, over)
        BY <1>1, <3>4, ClearKeeps
      <4>2. locallevel <= locallevel
        BY <1>1
      <4> QED
        BY <1>1, <1>8, <1>9, <4>1, <4>2
    <3> QED
      BY <2>2, <3>6, <3>7, <3>8, <3>9
  <2> QED
    BY <2>1, <2>2
<1> HIDE DEF a
<1>11. Good(t, lev)
  BY <1>1, <1>2, <1>4, <1>10, RestoreAllGood
<1>12. Exit(t)
  BY <1>1, <1>2, <1>4, <1>10, RestoreAllExit
<1>13. Stand(t, Below)
  <2>1. Good(a, lev + 1)
    BY <1>4, <1>10
  <2>2. Stand(RestoreAll(a, options', lev), Below)
    BY <1>3, <1>4, <1>10, <2>1, StandRestore
  <2> QED
    BY <1>2, <2>2
<1>14. Holds(t, Top.found, locallevel, {})
  <2>1. locallevel <= lev + 1
    BY <1>4
  <2>2. \A s \in {} : Own(a, s, lev + 1) = {}
    OBVIOUS
  <2>3. Holds(RestoreAll(a, options', lev), Top.found, locallevel, {})
    BY <1>1, <1>4, <1>9, <1>10, <2>1, <2>2, RestoreAllHolds
  <2> QED
    BY <1>2, <2>3
<1> QED
  BY <1>3, <1>4, <1>11, <1>12, <1>13, <1>14 DEF t, lev

LEMMA ReturnTied == IInv /\ TInv /\ Return => TInv'
<1> SUFFICES ASSUME IInv, TInv, Return PROVE TInv'
  OBVIOUS
<1> DEFINE t == endtrapscope(Traps, options', locallevel - 1)
           func == "FUNC" \in exittr.flags
           exitfn == IF func THEN shfunctab["EXIT"] ELSE siglists["EXIT"]
           runs == exittr # Zero /\ "IGNORED" \notin exittr.flags /\ exitfn # "none"
           callers == Watch(Below, options')
           lev == locallevel - 1
           f == TrapFrame("EXIT", FALSE)
           g == FuncFrame(t, options')
           ran == Append(callers, f)
           called == Append(ran, g)
<1>1. /\ lev \in Nat /\ Level(Below) = lev
      /\ Good(t, lev) /\ Exit(t) /\ Stand(t, Below)
      /\ Below \in Seq(Frame) /\ Top \in Frame
  BY ReturnIs
<1>2. /\ Become(t)
      /\ frames' = IF runs THEN RunTrap(callers, t, options', "EXIT", FALSE, func) ELSE callers
  BY DEF Return
<1>3. options' \in SUBSET Options
  BY <1>1, InvIs DEF Return, Frame
<1> HIDE DEF t, runs, func, lev
<1>4. callers \in Seq(Frame) /\ Level(callers) = lev
  BY <1>1, WatchIs
<1>5. Ties(t, options', callers, {})
  BY <1>1, WatchTies DEF Stand
<1> HIDE DEF callers
<1>6. t \in TrapsRecord /\ Traps' = t
  <2>1. t \in TrapsRecord
    BY <1>1 DEF Good, Tables
  <2> QED
    BY <1>2, <2>1, BecomesIs
<1>7. f \in Frame /\ f.kind = "trap" /\ ~f.inplace
  <2>1. "EXIT" \in AllSigs /\ FALSE \in BOOLEAN
    BY DEF AllSigs
  <2>2. f \in Frame /\ f.kind = "trap"
    BY <2>1, TrapFrameIs
  <2>3. f.inplace = FALSE
    BY DEF TrapFrame
  <2> QED
    BY <2>2, <2>3
<1> HIDE DEF f
<1>8. ran \in Seq(Frame) /\ Level(ran) = lev /\ Ties(t, options', ran, {})
      /\ ~Outside(ran, Len(ran))
  <2>1. ran \in Seq(Frame) /\ Level(ran) = Level(callers) + Levels(f) /\ Levels(f) = 0
    BY <1>4, <1>7, LevelAppend DEF Levels
  <2>2. Pushable(t, options', callers, f)
    BY <1>7 DEF Pushable
  <2>3. Ties(t, options', ran, {})
    BY <1>4, <1>5, <1>7, <2>2, PushPlain
  <2>4. /\ Len(ran) = Len(callers) + 1
        /\ Outside(ran, Len(callers) + 1) <=> Outside(callers, Len(callers)) /\ f.kind # "trap"
    BY <1>4, <1>7, AppendIs
  <2> QED
    BY <1>1, <1>4, <1>7, <2>1, <2>3, <2>4
<1> HIDE DEF ran
<1>9. g \in Frame /\ g.kind = "func"
  BY <1>3, <1>6, FuncFrameIs
<1>10. Ties(t, options', called, {})
  <2>1. Outside(ran, Len(ran)) \in BOOLEAN
    BY DEF Outside
  <2> DEFINE outside == Outside(ran, Len(ran))
  <2>2. outside \in BOOLEAN /\ (outside => t.trapped["EXIT"] = Zero \/ t.posix)
    BY <1>8, <2>1
  <2> HIDE DEF outside
  <2>3. Tied(t, options', g.found, lev + 1, {}, outside)
    BY <1>1, <1>3, <2>2, NewSame
  <2> HIDE DEF g
  <2>4. Pushable(t, options', ran, g)
    BY <1>8, <1>9, <2>3 DEF Pushable, outside
  <2> QED
    BY <1>8, <1>9, <2>4, PushPlain
<1>11. RunTrap(callers, t, options', "EXIT", FALSE, func) = IF func THEN called ELSE ran
  <2>1. ran \o <<g>> = Append(ran, g) /\ ran \o <<>> = ran
    BY <1>8, <1>9
  <2> QED
    BY <2>1 DEF RunTrap, ran, f
<1>12. Ties(t, options', frames', {})
  BY <1>2, <1>5, <1>8, <1>10, <1>11
<1> QED
  BY <1>1, <1>6, <1>12 DEF TInv

-----------------------------------------------------------------------------
(* Traps that run.                                                         *)

LEMMA FlagIs ==
    ASSUME NEW t \in TrapsRecord, NEW sig \in AllSigs, NEW flags \in SUBSET Flags
    PROVE  LET r == [t EXCEPT !.trapped[sig].flags = flags]
           IN  /\ r \in TrapsRecord /\ r.saved = t.saved /\ r.posix = t.posix
               /\ r.lists = t.lists /\ r.funcs = t.funcs
               /\ r.trapped[sig] = [t.trapped[sig] EXCEPT !.flags = flags]
               /\ \A s \in AllSigs \ {sig} : r.trapped[s] = t.trapped[s]
<1> DEFINE v == [t.trapped[sig] EXCEPT !.flags = flags]
           r == [t EXCEPT !.trapped[sig].flags = flags]
<1>1. t.trapped \in [AllSigs -> Trapped] /\ v \in Trapped
  BY DEF TrapsRecord, Trapped
<1>2. r = [t EXCEPT !.trapped = [t.trapped EXCEPT ![sig] = v]]
  BY DEF TrapsRecord
<1> HIDE DEF v, r
<1>3. /\ r \in TrapsRecord /\ r.trapped = [t.trapped EXCEPT ![sig] = v] /\ r.lists = t.lists
      /\ r.funcs = t.funcs /\ r.saved = t.saved /\ r.posix = t.posix
  BY <1>1, <1>2 DEF TrapsRecord
<1>4. r.trapped[sig] = v /\ \A s \in AllSigs \ {sig} : r.trapped[s] = t.trapped[s]
  BY <1>1, <1>3
<1> QED
  BY <1>3, <1>4 DEF v, r

\* The flag of a trap that runs changes: what was found is what there is but
\* for that flag.
Flagged(t, r, sig) ==
    /\ r \in TrapsRecord /\ r.saved = t.saved /\ r.posix = t.posix
    /\ r.lists = t.lists /\ r.funcs = t.funcs
    /\ \A s \in AllSigs \ {sig} : r.trapped[s] = t.trapped[s]

LEMMA FlagTied ==
    ASSUME NEW t \in TrapsRecord, NEW r, NEW sig \in Sigs, Flagged(t, r, sig),
           NEW opts, NEW found \in Founds, NEW d, NEW outside, NEW over, NEW more,
           \A s : s # sig => (s \in over <=> s \in more),
           Now(r, sig, sig \in more) = Now(t, sig, sig \in over),
           Tied(t, opts, found, d, over, outside)
    PROVE  Tied(r, opts, found, d, more, outside)
<1>1. sig # "EXIT" /\ "EXIT" \in AllSigs
  BY TrapsAssumption DEF AllSigs
<1>2. r.saved = t.saved /\ r.posix = t.posix /\ r.trapped["EXIT"] = t.trapped["EXIT"]
  BY <1>1 DEF Flagged
<1>3. /\ \A s, e : Own(r, s, e) = Own(t, s, e)
      /\ \A e, i : Further(r, e, i) <=> Further(t, e, i)
      /\ \A e : ClearedAll(r, e) <=> ClearedAll(t, e)
  BY <1>2, FurtherSame
<1>4. outside => Cleared(r, d)
  BY <1>2, <1>3 DEF Tied, Cleared
<1>5. "EXIT" \in DOMAIN found => Plain(r, d)
  BY <1>2, <1>3 DEF Tied, Holds, Plain
<1>6. ASSUME NEW s \in DOMAIN found, s = "EXIT" \/ found[s][1].level < d
      PROVE  Back(r, s, d, found[s], s \in more)
  <2> DEFINE runs == s \in over
             goes == s \in more
             v == found[s]
  <2>1. Back(t, s, d, v, runs) /\ s \in AllSigs
    BY <1>6, FoundIs DEF Tied, Holds
  <2>2. Now(r, s, goes) = Now(t, s, runs)
    <3>1. CASE s = sig
      BY <3>1, Zenon
    <3>2. CASE s # sig
      <4>1. goes = runs
        BY <3>2
      <4>2. r.trapped[s] = t.trapped[s] /\ r.lists = t.lists /\ r.funcs = t.funcs
        BY <2>1, <3>2 DEF Flagged
      <4> HIDE DEF goes, runs
      <4> QED
        BY <4>1, <4>2 DEF Now
    <3> QED
      BY <3>1, <3>2
  <2> HIDE DEF runs, goes, v
  <2>3. Back(r, s, d, v, goes)
    BY <1>2, <2>1, <2>2, SameBack
  <2> QED
    BY <2>3 DEF goes, v
<1> QED
  BY <1>4, <1>5, <1>6 DEF Tied, Holds

LEMMA FlagTies ==
    ASSUME NEW t \in TrapsRecord, NEW r, NEW sig \in Sigs, Flagged(t, r, sig),
           NEW opts, NEW fs \in Seq(Frame), NEW A \in SUBSET {sig}, NEW B \in SUBSET {sig},
           Ties(t, opts, fs, A),
           \A k \in 1 .. Len(fs) : InPlace(fs, k) => fs[k].sig # sig,
           Now(r, sig, sig \in B) = Now(t, sig, sig \in A)
    PROVE  Ties(r, opts, fs, B)
<1>1. ASSUME NEW j \in 1 .. Len(fs), fs[j].kind = "func"
      PROVE  Tied(r, opts, fs[j].found, Depth(fs, j), Over(fs, j) \cup B, Outside(fs, j))
  <2> DEFINE over == Over(fs, j) \cup A
             more == Over(fs, j) \cup B
             found == fs[j].found
  <2>1. sig \notin Over(fs, j)
    BY OverIs
  <2>2. \A s : s # sig => (s \in over <=> s \in more)
    OBVIOUS
  <2>3. (sig \in over) = (sig \in A) /\ (sig \in more) = (sig \in B)
    BY <2>1
  <2>4. Now(r, sig, sig \in more) = Now(t, sig, sig \in over)
    BY <2>3, Zenon
  <2>5. found \in Founds
    <3>1. fs[j] \in Frame
      OBVIOUS
    <3> QED
      BY <3>1 DEF Frame
  <2>6. Tied(t, opts, found, Depth(fs, j), over, Outside(fs, j))
    BY <1>1 DEF Ties
  <2> HIDE DEF over, more, found
  <2>7. Tied(r, opts, found, Depth(fs, j), more, Outside(fs, j))
    BY <2>2, <2>4, <2>5, <2>6, FlagTied
  <2> QED
    BY <2>7 DEF more, found
<1>2. ASSUME NEW k \in 1 .. Len(fs), InPlace(fs, k)
      PROVE  fs[k].sig \in Sigs /\ fs[k].sig \notin Over(fs, k) \cup B
             /\ Untouched(r, fs[k].sig, Depth(fs, k))
  <2>1. fs[k].sig \in Sigs /\ fs[k].sig \notin Over(fs, k) \cup A
        /\ Untouched(t, fs[k].sig, Depth(fs, k)) /\ fs[k].sig # sig
    BY <1>2 DEF Ties
  <2>2. fs[k].sig \in AllSigs \ {sig}
    BY <2>1 DEF AllSigs
  <2>3. r.trapped[fs[k].sig] = t.trapped[fs[k].sig] /\ r.saved = t.saved
    BY <2>2 DEF Flagged
  <2>4. Untouched(r, fs[k].sig, Depth(fs, k))
    BY <2>1, <2>3, FurtherSame DEF Untouched
  <2> QED
    BY <2>1, <2>4
<1> QED
  BY <1>1, <1>2 DEF Ties

LEMMA FlagExit ==
    ASSUME NEW t \in TrapsRecord, NEW r, NEW sig \in Sigs, Flagged(t, r, sig), Exit(t)
    PROVE  Exit(r)
<1>1. sig # "EXIT" /\ "EXIT" \in AllSigs
  BY TrapsAssumption DEF AllSigs
<1>2. r.saved = t.saved /\ r.posix = t.posix /\ r.trapped["EXIT"] = t.trapped["EXIT"]
  BY <1>1 DEF Flagged
<1> QED
  BY <1>2, FurtherSame DEF Exit

LEMMA dotrapTied == ASSUME NEW sig \in Sigs, IInv, TInv, dotrap(sig) PROVE TInv'
<1> DEFINE flags == sigtrapped[sig].flags \cup {"IGNORED"}
           t == [Traps EXCEPT !.trapped[sig].flags = flags]
           func == "FUNC" \in sigtrapped[sig].flags
           f == TrapFrame(sig, TRUE)
           g == FuncFrame(t, options)
           ran == Append(frames, f)
           called == Append(ran, g)
           v == sigtrapped[sig]
<1>1. /\ Traps \in TrapsRecord /\ Good(Traps, locallevel)
      /\ frames \in Seq(Frame) /\ options \in SUBSET Options
      /\ locallevel \in 0 .. MaxLevel /\ locallevel \in Nat /\ locallevel = Level(frames)
      /\ sig \in AllSigs /\ Traps.trapped = sigtrapped
  BY InvIs DEF AllSigs, Traps
<1>2. v \in Trapped /\ v # Zero /\ "IGNORED" \notin v.flags
  BY <1>1 DEF TrapsRecord, dotrap
<1>3. flags \in SUBSET Flags /\ flags # Zero.flags
  BY <1>2, ZeroIs DEF Trapped, Flags
<1>4. Good(t, locallevel)
  <2>1. flags \cup {"IGNORED"} = Traps.trapped[sig].flags \cup {"IGNORED"}
    BY <1>1
  <2>2. [flags |-> flags, level |-> Traps.trapped[sig].level] # Zero
    BY <1>3 DEF Zero
  <2> HIDE DEF flags, v
  <2>3. Traps.trapped[sig] # Zero
    BY <1>1, <1>2 DEF v
  <2> QED
    BY <1>1, <1>3, <2>1, <2>2, <2>3, FlagGood
<1>5. Become(t) /\ frames' = RunTrap(frames, t, options, sig, TRUE, func) /\ options' = options
  <2>1. t = [Traps EXCEPT !.trapped[sig].flags = @ \cup {"IGNORED"}]
    BY DEF Traps
  <2> QED
    BY <2>1 DEF dotrap
<1>6. /\ t \in TrapsRecord /\ t.saved = Traps.saved /\ t.posix = Traps.posix
      /\ t.lists = Traps.lists /\ t.funcs = Traps.funcs
      /\ t.trapped[sig] = [Traps.trapped[sig] EXCEPT !.flags = flags]
      /\ \A s \in AllSigs \ {sig} : t.trapped[s] = Traps.trapped[s]
  <2>1. flags \in SUBSET Flags
    BY <1>3
  <2> HIDE DEF flags
  <2>2. LET r == [Traps EXCEPT !.trapped[sig].flags = flags]
        IN  /\ r \in TrapsRecord /\ r.saved = Traps.saved /\ r.posix = Traps.posix
            /\ r.lists = Traps.lists /\ r.funcs = Traps.funcs
            /\ r.trapped[sig] = [Traps.trapped[sig] EXCEPT !.flags = flags]
            /\ \A s \in AllSigs \ {sig} : r.trapped[s] = Traps.trapped[s]
    BY <1>1, <2>1, FlagIs, Zenon
  <2> QED
    BY <2>2
<1> HIDE DEF t
<1>7. t.trapped[sig] = [v EXCEPT !.flags = flags]
  BY <1>1, <1>6
<1>8. /\ [t.trapped[sig] EXCEPT !.flags = @ \ {"IGNORED"}] = v
      /\ "IGNORED" \in t.trapped[sig].flags
      /\ t.trapped[sig] # [flags |-> {"IGNORED"}, level |-> 0]
  <2>1. v = [flags |-> v.flags, level |-> v.level]
    BY <1>2 DEF Trapped
  <2>2. t.trapped[sig] = [flags |-> flags, level |-> v.level]
    BY <1>7, <2>1
  <2>3. flags \ {"IGNORED"} = v.flags
    BY <1>2
  <2>4. "IGNORED" \in flags
    OBVIOUS
  <2>5. ASSUME flags = {"IGNORED"}, v.level = 0 PROVE FALSE
    <3>1. v.flags = {}
      BY <1>2, <2>5
    <3> QED
      BY <1>2, <2>1, <2>5, <3>1 DEF Zero
  <2> HIDE DEF flags, v
  <2>6. [t.trapped[sig] EXCEPT !.flags = @ \ {"IGNORED"}]
          = [flags |-> flags \ {"IGNORED"}, level |-> v.level]
    BY <2>2
  <2> QED
    BY <2>1, <2>2, <2>3, <2>4, <2>5, <2>6
<1>9. Flagged(Traps, t, sig)
  BY <1>6 DEF Flagged
<1>10. Traps' = t
  BY <1>5, <1>6, BecomesIs
<1>11. Exit(t)
  BY <1>1, <1>9, FlagExit DEF TInv
<1> HIDE DEF flags, func
<1>12. Ties(t, options, frames, {sig})
  <2>1. \A k \in 1 .. Len(frames) : InPlace(frames, k) => frames[k].sig # sig
    BY <1>1, <1>2 DEF TInv, Ties, Untouched
  <2>2. Now(t, sig, TRUE) = Now(Traps, sig, FALSE)
    BY <1>1, <1>6, <1>8 DEF Now
  <2>3. (sig \in {sig}) = TRUE /\ (sig \in {}) = FALSE
    OBVIOUS
  <2>4. Now(t, sig, sig \in {sig}) = Now(Traps, sig, sig \in {})
    BY <2>2, <2>3, Zenon
  <2>5. {sig} \in SUBSET {sig} /\ {} \in SUBSET {sig}
    OBVIOUS
  <2>6. Ties(Traps, options, frames, {})
    BY DEF TInv
  <2> QED
    BY <1>1, <1>9, <2>1, <2>4, <2>5, <2>6, FlagTies
<1>13. f \in Frame /\ f.kind = "trap" /\ f.inplace /\ f.sig = sig
  <2>1. f \in Frame /\ f.kind = "trap"
    BY <1>1, TrapFrameIs
  <2>2. f.inplace = TRUE /\ f.sig = sig
    BY DEF TrapFrame
  <2> QED
    BY <2>1, <2>2
<1> HIDE DEF f
<1>14. ran \in Seq(Frame) /\ Level(ran) = locallevel /\ Ties(t, options, ran, {})
       /\ ~Outside(ran, Len(ran))
  <2>1. ran \in Seq(Frame) /\ Level(ran) = Level(frames) + Levels(f) /\ Levels(f) = 0
    BY <1>1, <1>13, LevelAppend DEF Levels
  <2>2. Untouched(t, sig, locallevel)
    <3>1. locallevel + 1 \in Nat /\ locallevel + 1 > locallevel
      BY <1>1
    <3>2. Own(t, sig, locallevel + 1) = {}
      BY <1>1, <1>4, <3>1, NoneInside
    <3> QED
      BY <1>8, <3>2 DEF Untouched
  <2>3. Pushable(t, options, frames, f)
    BY <1>1, <1>13, <2>2 DEF Pushable
  <2>4. Held(f) = {sig}
    BY <1>13 DEF Held
  <2>5. Ties(t, options, ran, {})
    BY <1>1, <1>12, <1>13, <2>3, <2>4, PushTies
  <2>6. /\ Len(ran) = Len(frames) + 1
        /\ Outside(ran, Len(frames) + 1) <=> Outside(frames, Len(frames)) /\ f.kind # "trap"
    BY <1>1, <1>13, AppendIs
  <2> QED
    BY <1>1, <1>13, <2>1, <2>5, <2>6
<1> HIDE DEF ran
<1>15. g \in Frame /\ g.kind = "func"
  BY <1>1, <1>6, FuncFrameIs
<1>16. Ties(t, options, called, {})
  <2> DEFINE outside == Outside(ran, Len(ran))
  <2>1. outside \in BOOLEAN /\ (outside => t.trapped["EXIT"] = Zero \/ t.posix)
    BY <1>14 DEF Outside
  <2> HIDE DEF outside
  <2>2. Tied(t, options, g.found, locallevel + 1, {}, outside)
    BY <1>1, <1>4, <2>1, NewSame
  <2> HIDE DEF g
  <2>3. Pushable(t, options, ran, g)
    BY <1>14, <1>15, <2>2 DEF Pushable, outside
  <2> QED
    BY <1>14, <1>15, <2>3, PushPlain
<1>17. RunTrap(frames, t, options, sig, TRUE, func) = IF func THEN called ELSE ran
  <2>1. ran \o <<g>> = Append(ran, g) /\ ran \o <<>> = ran
    BY <1>14, <1>15
  <2> QED
    BY <2>1 DEF RunTrap, ran, f
<1>18. Ties(t, options, frames', {})
  BY <1>5, <1>14, <1>16, <1>17
<1> QED
  BY <1>5, <1>10, <1>11, <1>18 DEF TInv

LEMMA TrapEndTied == IInv /\ TInv /\ TrapEnd => TInv'
<1> SUFFICES ASSUME IInv, TInv, TrapEnd PROVE TInv'
  OBVIOUS
<1> DEFINE sig == Top.sig
           v == sigtrapped[sig]
           flags == v.flags \ {"IGNORED"}
           clears == Top.inplace /\ sigtrapped[Top.sig] # [flags |-> {"IGNORED"}, level |-> 0]
           a == [Traps EXCEPT !.trapped[Top.sig].flags = @ \ {"IGNORED"}]
<1>1. /\ Traps \in TrapsRecord /\ frames \in Seq(Frame) /\ Traps.trapped = sigtrapped
      /\ frames # <<>> /\ Top.kind = "trap"
  BY InvIs DEF TrapEnd, Traps
<1>2. /\ Below \in Seq(Frame) /\ Top \in Frame
      /\ frames = Append(Below, Top)
  BY <1>1, BelowTop
<1>3. Become(IF clears THEN a ELSE Traps) /\ frames' = Below /\ options' = options
  BY DEF TrapEnd
<1>4. Ties(Traps, options, Append(Below, Top), {}) /\ Exit(Traps)
  BY <1>2 DEF TInv
<1>5. CASE ~Top.inplace
  <2>1. Ties(Traps, options, Below, {})
    BY <1>2, <1>4, <1>5, PushPlain
  <2>2. Traps' = Traps
    BY <1>1, <1>3, <1>5, BecomesIs
  <2> QED
    BY <1>3, <1>4, <2>1, <2>2 DEF TInv
<1>6. CASE Top.inplace
  <2>1. Ties(Traps, options, Below, Held(Top)) /\ Pushable(Traps, options, Below, Top)
    BY <1>2, <1>4, PushTies
  <2>2. Held(Top) = {sig}
    BY <1>1, <1>6 DEF Held
  <2>3. sig \in Sigs /\ Untouched(Traps, sig, Level(Below))
    BY <1>1, <1>6, <2>1 DEF Pushable
  <2>4. clears
    BY <1>1, <1>6, <2>3 DEF Untouched
  <2>5. sig \in AllSigs /\ v \in Trapped
    BY <1>1, <2>3 DEF AllSigs, TrapsRecord
  <2>6. flags \in SUBSET Flags
    BY <2>5 DEF Trapped
  <2>7. a = [Traps EXCEPT !.trapped[sig].flags = flags]
    BY DEF Traps
  <2> HIDE DEF a, flags, clears, sig
  <2>8. /\ a \in TrapsRecord /\ a.saved = Traps.saved /\ a.posix = Traps.posix
        /\ a.lists = Traps.lists /\ a.funcs = Traps.funcs
        /\ a.trapped[sig] = [Traps.trapped[sig] EXCEPT !.flags = flags]
        /\ \A s \in AllSigs \ {sig} : a.trapped[s] = Traps.trapped[s]
    <3>1. sig \in AllSigs
      BY <2>5
    <3>2. LET r == [Traps EXCEPT !.trapped[sig].flags = flags]
          IN  /\ r \in TrapsRecord /\ r.saved = Traps.saved /\ r.posix = Traps.posix
              /\ r.lists = Traps.lists /\ r.funcs = Traps.funcs
              /\ r.trapped[sig] = [Traps.trapped[sig] EXCEPT !.flags = flags]
              /\ \A s \in AllSigs \ {sig} : r.trapped[s] = Traps.trapped[s]
      BY <1>1, <2>6, <3>1, FlagIs, Zenon
    <3> QED
      BY <2>7, <3>2
  <2>9. Flagged(Traps, a, sig)
    BY <2>8 DEF Flagged
  <2>10. Traps' = a
    BY <1>3, <2>4, <2>8, BecomesIs
  <2>11. \A k \in 1 .. Len(Below) : InPlace(Below, k) => Below[k].sig # sig
    BY <2>1, <2>2 DEF Ties
  <2>12. Now(a, sig, FALSE) = Now(Traps, sig, TRUE)
    <3>1. [Traps.trapped[sig] EXCEPT !.flags = @ \ {"IGNORED"}]
            = [Traps.trapped[sig] EXCEPT !.flags = flags]
      BY <1>1 DEF flags, v
    <3> QED
      BY <2>8, <3>1 DEF Now
  <2>13. Now(a, sig, sig \in {}) = Now(Traps, sig, sig \in {sig})
    <3>1. (sig \in {sig}) = TRUE /\ (sig \in {}) = FALSE
      OBVIOUS
    <3> QED
      BY <2>12, <3>1, Zenon
  <2>14. Ties(Traps, options, Below, {sig})
    BY <2>1, <2>2
  <2>15. {sig} \in SUBSET {sig} /\ {} \in SUBSET {sig}
    OBVIOUS
  <2>16. Ties(a, options, Below, {})
    BY <1>1, <1>2, <2>3, <2>9, <2>11, <2>13, <2>14, <2>15, FlagTies
  <2>17. Exit(a)
    BY <1>1, <1>4, <2>3, <2>9, FlagExit
  <2> QED
    BY <1>3, <2>10, <2>16, <2>17 DEF TInv
<1> QED
  BY <1>5, <1>6

-----------------------------------------------------------------------------
(* What functions do to traps is undone.                                   *)

LEMMA InitTied == Init => TInv
<1> SUFFICES ASSUME Init PROVE TInv
  OBVIOUS
<1>1. frames = <<>> /\ Len(frames) = 0 /\ Traps.saved = <<>> /\ Traps.posix = FALSE
      /\ Traps.trapped["EXIT"] = Zero
  BY DEF Init, Traps, AllSigs
<1>2. \A s, d : Own(Traps, s, d) = {}
  BY <1>1 DEF Own
<1>3. Exit(Traps)
  BY <1>1, <1>2, ZeroIs DEF Exit, Above, AboveAll
<1>4. Ties(Traps, options, frames, {})
  BY <1>1 DEF Ties
<1> QED
  BY <1>3, <1>4 DEF TInv

LEMMA NextTied == ASSUME ~SelfChange PROVE IInv /\ TInv /\ [Next]_vars => TInv'
<1> SUFFICES ASSUME IInv, TInv, [Next]_vars PROVE TInv'
  OBVIOUS
<1>1. CASE Change
  BY <1>1, ChangeTied
<1>2. ASSUME NEW opt \in Options, setopt(opt) PROVE TInv'
  BY <1>2, setoptTied
<1>3. CASE Call
  BY <1>3, CallTied
<1>4. CASE Return
  BY <1>4, ReturnTied
<1>5. ASSUME NEW sig \in Sigs, dotrap(sig) PROVE TInv'
  BY <1>5, dotrapTied
<1>6. CASE TrapEnd
  BY <1>6, TrapEndTied
<1>7. CASE UNCHANGED vars
  <2>1. Traps' = Traps /\ frames' = frames /\ options' = options
    BY <1>7 DEF vars, trapVars, Traps
  <2> QED
    BY <2>1 DEF TInv
<1> QED
  BY <1>1, <1>2, <1>3, <1>4, <1>5, <1>6, <1>7 DEF Next

LEMMA TiedInvariance == ASSUME ~SelfChange PROVE Spec => [](IInv /\ TInv)
<1>1. Init => IInv /\ TInv
  BY InitKeeps, InitTied
<1>2. IInv /\ TInv /\ [Next]_vars => (IInv /\ TInv)'
  BY NextKeeps, NextTied
<1> QED
  BY <1>1, <1>2, PTL DEF Spec

\* What a function found is what is there once all that was saved at its
\* level is put back.
LEMMA ReturnRestores ==
    ASSUME IInv, TInv, Return, NEW s \in DOMAIN Top.found,
           s = "EXIT" \/ Top.found[s][1].level < locallevel
    PROVE  Found(Traps)'[s] = Top.found[s]
<1> DEFINE t == endtrapscope(Traps, options', locallevel - 1)
           v == Top.found[s]
<1>1. /\ locallevel - 1 \in Nat /\ Good(t, locallevel - 1)
      /\ Holds(t, Top.found, locallevel, {}) /\ Top \in Frame
  BY ReturnIs
<1>2. Become(t)
  BY DEF Return
<1> HIDE DEF t
<1>3. t \in TrapsRecord /\ Traps' = t
  <2>1. t \in TrapsRecord
    BY <1>1 DEF Good, Tables
  <2> QED
    BY <1>2, <2>1, BecomesIs
<1>4. s \in AllSigs
  <2>1. Top.found \in Founds
    BY <1>1 DEF Frame
  <2> QED
    BY <2>1, FoundIs
<1>5. Own(t, s, locallevel) = {}
  <2>1. locallevel \in Nat /\ locallevel > locallevel - 1
    BY InvIs
  <2> QED
    BY <1>1, <2>1, NoneInside
<1>6. Now(t, s, FALSE) = v
  <2>1. Back(t, s, locallevel, v, s \in {})
    BY <1>1 DEF Holds
  <2>2. (s \in {}) = FALSE
    OBVIOUS
  <2>3. Back(t, s, locallevel, v, FALSE)
    BY <2>1, <2>2, Zenon
  <2> QED
    BY <1>5, <2>3 DEF Back
<1>7. Found(Traps)'[s] = <<t.trapped[s], t.lists[s], t.funcs[s]>>
  BY <1>3, <1>4 DEF Found
<1> QED
  BY <1>6, <1>7 DEF Now

\* With LOCAL_TRAPS set from the call of a function on, its return leaves the
\* traps on signals as the call found them, whatever it, the functions it
\* calls and the traps that run meanwhile did to them, but for those that an
\* earlier function of its depth has left; with POSIX_TRAPS unset, so does
\* the trap on EXIT: endtrapscope() (Src/signals.c) takes off savetraps all
\* that was put there at the level of the function and further inside, and
\* each trap is put back last by the entry that was saved first.  The body of
\* a trap does not change that very trap.
THEOREM FunctionsRestoreTraps == ASSUME ~SelfChange PROVE Spec => TrapsRestored
<1>1. IInv /\ TInv /\ [Next]_vars
        => [Return => \A s \in DOMAIN Top.found :
                          s = "EXIT" \/ Top.found[s][1].level < locallevel
                              => Found(Traps)'[s] = Top.found[s]]_vars
  BY ReturnRestores
<1>2. Spec => [](IInv /\ TInv)
  BY TiedInvariance
<1> QED
  BY <1>1, <1>2, PTL DEF Spec, TrapsRestored

=============================================================================
