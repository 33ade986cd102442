-------------------------- MODULE JobControlProofs --------------------------
EXTENDS JobControl, FiniteSetTheorems, SequenceTheorems, WellFoundedInduction, TLAPS

(* Proofs about JobControl.                                                *)
(*                                                                         *)
(* JInv says which job the main program's step is about (Control) and what *)
(* an entry of the table looks like, whether a pipeline or a builtin holds *)
(* it or not (Shape).  It is inductive for all values of the constants,    *)
(* and gives TypesCorrect and EntryIsKept.                                 *)
(*                                                                         *)
(* TInv adds the kernel's view: the processes that have not ended, in the  *)
(* table, are the children that live, one entry each, with the status that *)
(* was reported last.  It needs Numbers: findproc() takes an ended process *)
(* for a stopped one that has its number again, so either the kernel does  *)
(* not give out numbers again or nothing is stopped.  It gives             *)
(* NoChildLost, StatusIsCurrent and ReportsFindTheirProcess.               *)
(*                                                                         *)
(* BInv adds the statuses kept for `wait pid' and needs ~PidReuse: the     *)
(* list is not told of a new process with an old number.  It gives         *)
(* StatusesAreRight.                                                       *)
(*                                                                         *)
(* UInv says that a builtin never finds an unusable current job:           *)
(* setcurjob() looks twice, which is enough. CInv says which jobs the      *)
(* current and the previous job may miss: CurOK. It needs ~NOTIFY:         *)
(* setprevjob() passes over the job that runs in the foreground even if it *)
(* has just stopped, so a report printed at once of another job may leave  *)
(* the stopped one without either title. The two give                      *)
(* CurrentJobIsThere.                                                      *)
(*                                                                         *)
(* FInv says what has become of the last process of a foreground pipeline: *)
(* LastOK.  Of the kernel it needs only that what has not been reported is *)
(* still there (Kids), so it holds with numbers given out again, with what *)
(* can be stopped and for all settings.  It gives PipelineStatus.          *)

-----------------------------------------------------------------------------
(* The job table and the steps of the main program.                        *)

Pipes    == {"sync", "async", "disown"}
Builtins == {"builtin", "fg", "wait", "wait_all", "wait_pid"}
Waits    == {"enter", "test", "suspend", "suspended", "after"}
Building == pc \in {"build", "subst", "last"} \/ (pc = "enter" /\ op = "sync")

\* Which job is meant by thisjob and target.
Control ==
    /\ pc \in {"idle", "full"} => op = "none" /\ thisjob = 0
    /\ pc \in {"build", "subst", "last"} => op \in Pipes
    /\ pc \in {"subst", "last"} => op = "sync"
    /\ pc \in Waits => op \in {"sync", "fg", "wait", "wait_all", "wait_pid"}
    /\ pc \in {"bin_reap", "bin"} => op = "builtin"
    /\ pc \in {"bin_end", "bin_exit"} => op \in Builtins
    /\ op \in Pipes => thisjob \in Slots
    /\ op \in Builtins <=> binslot # 0
    /\ op \in Builtins => thisjob = IF op = "fg" /\ pc \in Waits THEN target ELSE binslot
    /\ pc \in Waits /\ op = "sync" => target = thisjob
    /\ pc \in Waits /\ op \in {"fg", "wait", "wait_all"} => target \in Slots /\ target # binslot
    /\ pc \in Waits /\ op = "wait_pid" => fglast \in Pids
    /\ pc \in {"bin_reap", "bin"} => queueing
    /\ pc = "bin" => ~reaping

Ended(job) == \A i \in DOMAIN job.procs : Terminated(job.procs[i].st)

\* An entry of the table; one that a pipeline or a builtin does not hold.
JobOK(job) ==
    /\ job.stat = {} => job.procs = <<>>
    /\ job.stat # {} => "INUSE" \in job.stat
    /\ "DONE" \in job.stat => "CHANGED" \in job.stat /\ Ended(job)
Listable(job) == job.stat # {} => "LOCKED" \in job.stat /\ job.procs # <<>>

BuiltinJob == [stat |-> {"INUSE", "BUILTIN"}, procs |-> <<>>]

\* own is the job of the builtin that runs; this, when it is held, is built.
ShapeOf(tab, this, own, held) ==
    /\ \A j \in Slots : JobOK(tab[j]) /\ Len(tab[j].procs) <= MaxProcs
    /\ \A j \in Slots : j = own \/ (held /\ j = this) \/ Listable(tab[j])
    /\ held => "INUSE" \in tab[this].stat /\ "LOCKED" \notin tab[this].stat
    /\ own # 0 => tab[own] = BuiltinJob

Shape ==
    /\ ShapeOf(jobtab, thisjob, binslot, Building)
    /\ Building /\ pc # "build" => jobtab[thisjob].procs # <<>>

JInv == TypeOK /\ Control /\ Shape

-----------------------------------------------------------------------------
(* The kernel's children and the processes of the table.                   *)

Kids ==
    \A p \in Pids :
        /\ child[p].st = "zombie" <=> child[p].ev = "exit"
        /\ child[p].ev = "stop" => child[p].st = "stop"
        /\ child[p].ev = "cont" => child[p].st = "run"
        /\ p \notin Stoppable => child[p].st # "stop" /\ child[p].ev \notin {"stop", "cont"}

Numbers == ~PidReuse \/ Stoppable = {}

Places(tab) == {e \in Slots \X (1 .. MaxProcs) : e[2] <= Len(tab[e[1]].procs)}
At(tab, e) == tab[e[1]].procs[e[2]]
Live(tab) == {e \in Places(tab) : ~Terminated(At(tab, e).st)}
Lives(ch, p) == ch[p].st \in {"run", "stop", "zombie"}

TrackOK(tab, ch, given) ==
    /\ \A e \in Live(tab) : Lives(ch, At(tab, e).pid)
    /\ \A d, e \in Live(tab) : At(tab, d).pid = At(tab, e).pid => d = e
    /\ \A p \in Pids \ given : Lives(ch, p) => \E e \in Live(tab) : At(tab, e).pid = p
    /\ \A e \in Live(tab) :
          ch[At(tab, e).pid].ev = "none" => At(tab, e).st = ch[At(tab, e).pid].st
    /\ Stoppable = {} => \A e \in Places(tab) : At(tab, e).st # "stop"
    /\ ~PidReuse =>
          /\ \A e \in Places(tab) : ch[At(tab, e).pid].st # "new"
          /\ \A d, e \in Places(tab) : At(tab, d).pid = At(tab, e).pid => d = e
          /\ \A e \in Places(tab) \ Live(tab) : ~Lives(ch, At(tab, e).pid)

Track == Kids /\ TrackOK(jobtab, child, disowned)

-----------------------------------------------------------------------------
(* Induction and recursion.                                                *)

\* A set of naturals closed under successor has every natural.
LEMMA Induction ==
    ASSUME NEW S, 0 \in S, \A i \in Nat : i \in S => i + 1 \in S
    PROVE  \A i \in Nat : i \in S
<1>1. SUFFICES ASSUME {i \in Nat : i \notin S} # {} PROVE FALSE
  OBVIOUS
<1> DEFINE T == {i \in Nat : i \notin S}
<1> HIDE DEF T
<1>2. T \subseteq Nat /\ T # {}
  BY <1>1 DEF T
<1>3. PICK m \in T : \A k \in T : ~ (k < m)
  <2>1. IsWellFoundedOn(OpToRel(<, Nat), Nat)
    BY NatLessThanWellFounded
  <2>2. PICK x \in T : \A y \in T : ~ (<<y, x>> \in OpToRel(<, Nat))
    BY <1>2, <2>1, WFMin
  <2>3. ASSUME NEW y \in T, y < x PROVE FALSE
    <3>1. <<y, x>> \in OpToRel(<, Nat)
      BY <1>2, <2>3, Zenon DEF OpToRel
    <3> QED
      BY <2>2, <3>1, Zenon
  <2> QED
    BY <2>3
<1>4. m \in Nat /\ m \notin S
  BY DEF T
<1>5. m - 1 \in Nat /\ m - 1 < m
  BY <1>4
<1>6. m - 1 \in S
  BY <1>3, <1>5 DEF T
<1> QED
  BY <1>4, <1>5, <1>6

\* f is defined by recursion from a with the step next.
Recursive(f, V, a, n, next) ==
    /\ f \in [0..n -> V]
    /\ f[0] = a
    /\ \A i \in 1..n : f[i] = next[<<i, f[i - 1]>>]

\* A recursive definition on 0 .. n whose step is a function has a solution.
LEMMA Recursion ==
    ASSUME NEW V, NEW a \in V, NEW n \in Nat, NEW next \in [(1..n) \X V -> V]
    PROVE  \E f : Recursive(f, V, a, n, next)
<1> DEFINE Solves(f, k) ==
              /\ f \in [0..k -> V]
              /\ f[0] = a
              /\ \A i \in 1..k : f[i] = next[<<i, f[i - 1]>>]
           S == {k \in Nat : k <= n => \E f : Solves(f, k)}
<1>1. 0 \in S
  <2>1. Solves([i \in 0..0 |-> a], 0)
    OBVIOUS
  <2> QED
    BY <2>1
<1>2. ASSUME NEW k \in Nat, k \in S PROVE k + 1 \in S
  <2>1. SUFFICES ASSUME k + 1 <= n PROVE \E f : Solves(f, k + 1)
    OBVIOUS
  <2>2. PICK f : Solves(f, k)
    BY <1>2, <2>1
  <2> DEFINE v == next[<<k + 1, f[k]>>]
             g == [i \in 0..(k + 1) |-> IF i = k + 1 THEN v ELSE f[i]]
  <2>3. v \in V
    <3>1. f[k] \in V /\ k + 1 \in 1..n
      BY <2>1, <2>2
    <3> QED
      BY <3>1
  <2> HIDE DEF v
  <2>4. g \in [0..(k + 1) -> V] /\ g[0] = a /\ g[k + 1] = v
    BY <2>2, <2>3
  <2>5. ASSUME NEW i \in 1..(k + 1) PROVE g[i] = next[<<i, g[i - 1]>>]
    <3>1. CASE i = k + 1
      <4>1. g[i - 1] = f[k] /\ g[i] = v
        BY <3>1
      <4> QED
        BY <3>1, <4>1 DEF v
    <3>2. CASE i # k + 1
      <4>1. i \in 1..k /\ g[i] = f[i] /\ g[i - 1] = f[i - 1]
        BY <3>2
      <4> QED
        BY <4>1, <2>2
    <3> QED
      BY <3>1, <3>2
  <2> HIDE DEF g
  <2> QED
    BY <2>4, <2>5
<1> HIDE DEF S
<1>3. n \in S
  BY <1>1, <1>2, Induction
<1> QED
  BY <1>3 DEF S, Recursive

\* A set of numbers up to n that is not empty has a greatest element, and a least.
LEMMA HasGreatest ==
    ASSUME NEW n \in Nat, NEW T \in SUBSET (1..n), T # {}
    PROVE  \E i \in T : \A j \in T : j <= i
<1> DEFINE Goal(k) == \A U \in SUBSET (1..k) : U # {} => \E i \in U : \A j \in U : j <= i
           S == {k \in Nat : Goal(k)}
<1>1. 0 \in S
  <2>1. ASSUME NEW U \in SUBSET (1..0), NEW i \in U PROVE FALSE
    <3>1. i \in 1..0
      OBVIOUS
    <3> QED
      BY <3>1
  <2> QED
    BY <2>1, Zenon
<1>2. ASSUME NEW k \in Nat, k \in S PROVE k + 1 \in S
  <2>1. ASSUME NEW U \in SUBSET (1..(k + 1)), U # {}
        PROVE  \E i \in U : \A j \in U : j <= i
    <3>1. CASE k + 1 \in U
      BY <3>1
    <3>2. CASE k + 1 \notin U
      <4>1. U \in SUBSET (1..k)
        BY <3>2
      <4> QED
        BY <1>2, <2>1, <4>1
    <3> QED
      BY <3>1, <3>2
  <2> QED
    BY <2>1
<1> HIDE DEF S
<1>3. \A k \in Nat : k \in S
  BY <1>1, <1>2, Induction
<1> QED
  BY <1>3 DEF S

LEMMA HasLeast ==
    ASSUME NEW n \in Nat, NEW T \in SUBSET (1..n), T # {}
    PROVE  \E i \in T : \A j \in T : i <= j
<1> DEFINE U == {i \in 1..n : n + 1 - i \in T}
<1>1. U \in SUBSET (1..n)
  OBVIOUS
<1>2. U # {}
  <2>1. PICK j \in T : TRUE
    OBVIOUS
  <2>2. n + 1 - j \in 1..n /\ n + 1 - (n + 1 - j) = j
    BY <2>1
  <2> QED
    BY <2>1, <2>2
<1> HIDE DEF U
<1>3. PICK i \in U : \A j \in U : j <= i
  BY <1>1, <1>2, HasGreatest
<1>4. n + 1 - i \in T /\ i \in 1..n
  BY DEF U
<1>5. ASSUME NEW j \in T PROVE n + 1 - i <= j
  <2>1. n + 1 - j \in 1..n /\ n + 1 - (n + 1 - j) = j
    BY <1>5
  <2>2. n + 1 - j \in U
    BY <2>1 DEF U
  <2>3. n + 1 - j <= i
    BY <1>3, <2>2
  <2> QED
    BY <1>4, <2>1, <2>3
<1> QED
  BY <1>4, <1>5

LEMMA MaxIs ==
    ASSUME NEW S \in SUBSET Slots, S # {}
    PROVE  Max(S) \in S
<1>1. NJobs \in Nat
  BY JobControlAssumption
<1>2. \E i \in S : \A j \in S : j <= i
  BY <1>1, HasGreatest DEF Slots
<1>3. \E i \in S : \A j \in S : i >= j
  BY <1>1, <1>2 DEF Slots
<1> QED
  BY <1>3 DEF Max

LEMMA MinIs ==
    ASSUME NEW n \in Nat, NEW S \in SUBSET (1..n), S # {}
    PROVE  Min(S) \in S /\ \A i \in S : Min(S) <= i
<1>1. \E i \in S : \A j \in S : i <= j
  BY HasLeast
<1> QED
  BY <1>1 DEF Min

\* initjob is a free entry, if it is not 0.
LEMMA InitjobIs ==
    initjob \in 0..NJobs /\ (initjob # 0 => initjob \in Slots /\ jobtab[initjob].stat = {})
<1> DEFINE F == {j \in Slots : jobtab[j].stat = {}}
           S == F \cup {NJobs + 1}
<1>1. NJobs \in Nat /\ NJobs + 1 \in Nat
  BY JobControlAssumption
<1>2. S \in SUBSET (1..(NJobs + 1)) /\ S # {}
  BY <1>1 DEF Slots
<1>3. Min(S) \in S
  BY <1>1, <1>2, MinIs
<1>4. initjob = Min(S) % (NJobs + 1)
  BY DEF initjob
<1> HIDE DEF S
<1>5. CASE Min(S) = NJobs + 1
  <2>1. (NJobs + 1) % (NJobs + 1) = 0
    BY <1>1
  <2> QED
    BY <1>1, <1>4, <1>5, <2>1
<1>6. CASE Min(S) \in F
  <2>1. Min(S) \in 1..NJobs
    BY <1>6 DEF Slots
  <2>2. \A k \in 1..NJobs : k % (NJobs + 1) = k
    BY <1>1
  <2> QED
    BY <1>1, <1>4, <1>6, <2>1, <2>2
<1> QED
  BY <1>3, <1>5, <1>6 DEF S

-----------------------------------------------------------------------------
(* What the operations on the table return.                                *)

Table == [Slots -> Job]
JobsRecord == [tab : Table, cur : 0..NJobs, prev : 0..NJobs]

\* A job that has been reported: it is gone if it was done.
Kept(a, b) ==
    \/ b = a
    \/ "DONE" \in a.stat /\ b = FreeJob
    \/ "DONE" \notin a.stat /\ b.stat = a.stat \ {"CHANGED"} /\ b.procs = a.procs
Tidied(t, u) == \A j \in Slots : Kept(t[j], u[j])

LEMMA FreeIsJob == FreeJob \in Job
<1>1. <<>> \in Seq(Proc)
  OBVIOUS
<1> QED
  BY <1>1 DEF FreeJob, Job

LEMMA JobsIs == TypeOK => Jobs \in JobsRecord /\ Jobs.tab = jobtab /\ Jobs.cur = curjob /\ Jobs.prev = prevjob
BY DEF TypeOK, Jobs, JobsRecord, Table

LEMMA KeptTwice ==
    ASSUME NEW a \in Job, NEW b \in Job, NEW c \in Job, Kept(a, b), Kept(b, c)
    PROVE  Kept(a, c)
<1>1. FreeJob.stat = {} /\ FreeJob = [stat |-> {}, procs |-> <<>>]
  BY DEF FreeJob
<1>2. CASE b = a \/ c = b
  BY <1>2
<1>3. CASE "DONE" \in a.stat /\ b = FreeJob /\ c # b
  <2>1. c.stat = {} /\ c.procs = <<>>
    BY <1>1, <1>3 DEF Kept
  <2>2. c = [stat |-> c.stat, procs |-> c.procs]
    BY DEF Job
  <2> QED
    BY <1>1, <1>3, <2>1, <2>2 DEF Kept
<1>4. CASE "DONE" \notin a.stat /\ b.stat = a.stat \ {"CHANGED"} /\ b.procs = a.procs /\ c # b
  BY <1>4 DEF Kept
<1> QED
  BY <1>2, <1>3, <1>4 DEF Kept

LEMMA setprevjobIs ==
    ASSUME NEW js \in JobsRecord, NEW this
    PROVE  LET r == setprevjob(js, this)
           IN  /\ r \in JobsRecord /\ r.tab = js.tab /\ r.cur = js.cur
               /\ r.prev = 0 => \A j \in Slots : InUse(js.tab, j) => j \in {js.cur, this}
<1> DEFINE other == {j \in Slots : InUse(js.tab, j) /\ j # js.cur /\ j # this}
           stopped == {j \in other : "STOPPED" \in js.tab[j].stat}
           k == IF stopped # {} THEN Max(stopped) ELSE IF other # {} THEN Max(other) ELSE 0
           r == setprevjob(js, this)
<1>1. r = [js EXCEPT !.prev = k]
  BY DEF setprevjob
<1>2. k \in 0..NJobs /\ (k = 0 => other = {})
  <2>1. stopped \in SUBSET Slots /\ other \in SUBSET Slots
    OBVIOUS
  <2>2. stopped # {} => Max(stopped) \in stopped
    BY <2>1, MaxIs
  <2>3. other # {} => Max(other) \in other
    BY <2>1, MaxIs
  <2>4. 0 \notin Slots /\ Slots \subseteq 0..NJobs /\ 0 \in 0..NJobs
    BY JobControlAssumption DEF Slots
  <2> HIDE DEF stopped, other
  <2>5. stopped # {} => other # {}
    BY DEF stopped
  <2> QED
    BY <2>1, <2>2, <2>3, <2>4, <2>5
<1> HIDE DEF k
<1>3. r \in JobsRecord /\ r.tab = js.tab /\ r.cur = js.cur /\ r.prev = k
  BY <1>1, <1>2 DEF JobsRecord
<1> QED
  BY <1>2, <1>3

LEMMA deletejobIs ==
    ASSUME NEW js \in JobsRecord, NEW j \in Slots
    PROVE  LET r == deletejob(js, j)
           IN  /\ r \in JobsRecord /\ r.cur = js.cur /\ r.prev = js.prev
               /\ r.tab[j] = FreeJob
               /\ \A i \in Slots : i # j => r.tab[i] = js.tab[i]
BY FreeIsJob DEF deletejob, JobsRecord, Table

\* printjob() tidies the entry it is given and leaves the others.
LEMMA printjobIs ==
    ASSUME NEW js \in JobsRecord, NEW j \in Slots, NEW this
    PROVE  LET r == printjob(js, j, this)
           IN  /\ r \in JobsRecord
               /\ Kept(js.tab[j], r.tab[j]) /\ "DONE" \notin r.tab[j].stat
               /\ \A i \in Slots : i # j => r.tab[i] = js.tab[i]
<1> DEFINE r == printjob(js, j, this)
<1>1. CASE "DONE" \notin js.tab[j].stat
  <2>1. r = [js EXCEPT !.tab[j].stat = @ \ {"CHANGED"}]
    BY <1>1 DEF printjob
  <2>2. js.tab \in [Slots -> Job] /\ js.tab[j] \in Job /\ js.tab[j].stat \ {"CHANGED"} \in SUBSET Flags
    BY DEF JobsRecord, Table, Job
  <2>3. r.tab = [js.tab EXCEPT ![j] = [js.tab[j] EXCEPT !.stat = js.tab[j].stat \ {"CHANGED"}]]
        /\ r.cur = js.cur /\ r.prev = js.prev
        /\ r = [tab |-> r.tab, cur |-> js.cur, prev |-> js.prev]
    BY <2>1, <2>2 DEF JobsRecord, Table
  <2>4. [js.tab[j] EXCEPT !.stat = js.tab[j].stat \ {"CHANGED"}] \in Job
    BY <2>2 DEF Job
  <2>5. r.tab \in [Slots -> Job]
    BY <2>2, <2>3, <2>4
  <2>6. r \in JobsRecord
    BY <2>3, <2>5 DEF JobsRecord, Table
  <2>7. r.tab[j].stat = js.tab[j].stat \ {"CHANGED"} /\ r.tab[j].procs = js.tab[j].procs
    BY <2>2, <2>3 DEF Job
  <2>8. \A i \in Slots : i # j => r.tab[i] = js.tab[i]
    BY <2>2, <2>3
  <2> QED
    BY <1>1, <2>6, <2>7, <2>8 DEF Kept
<1>2. CASE "DONE" \in js.tab[j].stat
  <2> DEFINE gone == deletejob(js, j)
             left == IF j = js.cur THEN [gone EXCEPT !.cur = js.prev, !.prev = j] ELSE gone
  <2>1. gone \in JobsRecord /\ gone.tab[j] = FreeJob
        /\ \A i \in Slots : i # j => gone.tab[i] = js.tab[i]
    BY deletejobIs
  <2>2. js.prev \in 0..NJobs /\ j \in 0..NJobs
    BY JobControlAssumption DEF JobsRecord, Slots
  <2> HIDE DEF gone
  <2>3. left \in JobsRecord /\ left.tab = gone.tab
    BY <2>1, <2>2 DEF JobsRecord
  <2> HIDE DEF left
  <2>4. r = IF j = left.prev THEN setprevjob(left, this) ELSE left
    BY <1>2 DEF printjob, left, gone
  <2>5. r \in JobsRecord /\ r.tab = gone.tab
    BY <2>3, <2>4, setprevjobIs
  <2>6. "DONE" \notin FreeJob.stat
    BY DEF FreeJob
  <2> QED
    BY <1>2, <2>1, <2>5, <2>6 DEF Kept
<1> QED
  BY <1>1, <1>2

\* What every printjob() keeps, printing all of them keeps.
LEMMA printjobsIs ==
    ASSUME NEW P, NEW js \in P, NEW this, NEW all \in BOOLEAN,
           \A r \in P : \A j \in Slots : printjob(r, j, this) \in P
    PROVE  printjobs(js, this, all) \in P
<1> DEFINE n == NJobs
           step(r, j) == IF Listed(r, j, this, all) THEN printjob(r, j, this) ELSE r
           next == [p \in (1..n) \X P |-> step(p[2], p[1])]
           Sol(f) == f = [j \in 0..n |-> IF j = 0 THEN js ELSE step(f[j - 1], j)]
           F == CHOOSE f : Sol(f)
<1>1. n \in Nat
  BY JobControlAssumption
<1>2. \A p \in (1..n) \X P : step(p[2], p[1]) \in P
  BY DEF Slots
<1>3. next \in [(1..n) \X P -> P]
  BY <1>2, Zenon
<1>4. \A p \in (1..n) \X P : next[p] = step(p[2], p[1])
  BY Zenon
<1> HIDE DEF n, step, next
<1>5. \E f : Recursive(f, P, js, n, next)
  BY <1>1, <1>3, Recursion
<1>6. PICK f : Recursive(f, P, js, n, next)
  BY <1>5
<1>7. f \in [0..n -> P] /\ f[0] = js /\ \A j \in 1..n : f[j] = next[<<j, f[j - 1]>>]
  BY <1>6 DEF Recursive
<1>8. \A j \in 1..n : f[j] = step(f[j - 1], j)
  <2>1. SUFFICES ASSUME NEW j \in 1..n PROVE f[j] = step(f[j - 1], j)
    OBVIOUS
  <2>2. j - 1 \in 0..n
    BY <1>1
  <2>3. f[j - 1] \in P
    BY <1>7, <2>2
  <2>4. <<j, f[j - 1]>> \in (1..n) \X P
    BY <2>3
  <2> QED
    BY <1>4, <1>7, <2>4
<1>9. Sol(f)
  <2>1. \A j \in 0..n : j # 0 => j \in 1..n
    BY <1>1
  <2>2. \A j \in 0..n : f[j] = IF j = 0 THEN js ELSE step(f[j - 1], j)
    BY <1>7, <1>8, <2>1
  <2> QED
    BY <1>7, <2>2
<1> HIDE DEF Sol
<1>10. Sol(F)
  BY <1>9
<1> HIDE DEF F
<1>11. printjobs(js, this, all) = F[n]
  BY DEF printjobs, F, Sol, n, step
<1>12. F[0] = js /\ \A j \in 1..n : F[j] = step(F[j - 1], j)
  <2>1. ASSUME NEW j \in 0..n
        PROVE  F[j] = IF j = 0 THEN js ELSE step(F[j - 1], j)
    BY <1>10, Zenon DEF Sol
  <2>2. 0 \in 0..n /\ \A j \in 1..n : j \in 0..n /\ j # 0
    BY <1>1
  <2> QED
    BY <2>1, <2>2
<1> DEFINE S == {k \in Nat : k <= n => F[k] \in P}
<1>13. 0 \in S
  BY <1>12
<1>14. ASSUME NEW k \in Nat, k \in S PROVE k + 1 \in S
  <2>1. SUFFICES ASSUME k + 1 <= n PROVE F[k + 1] \in P
    OBVIOUS
  <2>2. F[k] \in P /\ k + 1 \in 1..n /\ (k + 1) - 1 = k
    BY <1>1, <1>14, <2>1
  <2>3. F[k + 1] = step(F[k], k + 1)
    BY <1>12, <2>2
  <2>4. <<k + 1, F[k]>> \in (1..n) \X P
    BY <2>2
  <2>5. step(F[k], k + 1) \in P
    BY <1>2, <2>4
  <2> QED
    BY <2>3, <2>5
<1> HIDE DEF S
<1>15. \A k \in Nat : k \in S
  BY <1>13, <1>14, Induction
<1> QED
  BY <1>1, <1>11, <1>15 DEF S

LEMMA scanjobsIs ==
    ASSUME NEW js \in JobsRecord, NEW this, NEW all \in BOOLEAN
    PROVE  LET r == printjobs(js, this, all)
           IN  r \in JobsRecord /\ Tidied(js.tab, r.tab)
<1> DEFINE P == {r \in JobsRecord : Tidied(js.tab, r.tab)}
<1>1. js \in P
  BY DEF Tidied, Kept
<1>2. ASSUME NEW r \in P, NEW j \in Slots PROVE printjob(r, j, this) \in P
  <2> DEFINE s == printjob(r, j, this)
  <2>1. r \in JobsRecord /\ Tidied(js.tab, r.tab)
    OBVIOUS
  <2>2. s \in JobsRecord /\ Kept(r.tab[j], s.tab[j])
        /\ \A i \in Slots : i # j => s.tab[i] = r.tab[i]
    BY <2>1, printjobIs
  <2> HIDE DEF s
  <2>3. ASSUME NEW i \in Slots PROVE Kept(js.tab[i], s.tab[i])
    <3>1. js.tab[i] \in Job /\ r.tab[i] \in Job /\ s.tab[i] \in Job
      BY <2>1, <2>2 DEF JobsRecord, Table
    <3>2. Kept(js.tab[i], r.tab[i])
      BY <2>1 DEF Tidied
    <3>3. Kept(r.tab[i], s.tab[i])
      BY <2>2 DEF Kept
    <3> QED
      BY <3>1, <3>2, <3>3, KeptTwice
  <2> QED
    BY <2>2, <2>3 DEF Tidied, s
<1> HIDE DEF P
<1>3. printjobs(js, this, all) \in P
  BY <1>1, <1>2, printjobsIs
<1> QED
  BY <1>3 DEF P

\* setcurjob() moves the pointers only.
LEMMA setcurjobIs ==
    ASSUME NEW js \in JobsRecord, NEW this
    PROVE  setcurjob(js, this) \in JobsRecord /\ setcurjob(js, this).tab = js.tab
<1> DEFINE shift(x) == setprevjob([x EXCEPT !.cur = x.prev], this)
<1>1. ASSUME NEW x \in JobsRecord PROVE shift(x) \in JobsRecord /\ shift(x).tab = x.tab
  <2>1. [x EXCEPT !.cur = x.prev] \in JobsRecord /\ [x EXCEPT !.cur = x.prev].tab = x.tab
    BY DEF JobsRecord
  <2> QED
    BY <2>1, setprevjobIs
<1> HIDE DEF shift
<1>2. shift(js) \in JobsRecord /\ shift(js).tab = js.tab
  BY <1>1
<1>3. shift(shift(js)) \in JobsRecord /\ shift(shift(js)).tab = js.tab
  BY <1>1, <1>2
<1>4. setcurjob(js, this) \in {js, shift(js), shift(shift(js))}
  BY DEF setcurjob, shift
<1> QED
  BY <1>2, <1>3, <1>4

\* shuffle() too.
LEMMA shuffleIs ==
    ASSUME NEW js \in JobsRecord, NEW j \in Slots, NEW func
    PROVE  shuffle(js, j, func) \in JobsRecord /\ shuffle(js, j, func).tab = js.tab
<1> DEFINE a == IF js.cur = j
                THEN [js EXCEPT !.cur = js.prev, !.prev = IF func = "bg" THEN 0 ELSE j]
                ELSE js
           b == IF a.prev \in {j, 0} THEN setprevjob(a, thisjob) ELSE a
           c == [b EXCEPT !.cur = b.prev]
<1>1. a \in JobsRecord /\ a.tab = js.tab
  <2>1. j \in 0..NJobs /\ 0 \in 0..NJobs
    BY JobControlAssumption DEF Slots
  <2> QED
    BY <2>1 DEF JobsRecord
<1> HIDE DEF a
<1>2. b \in JobsRecord /\ b.tab = js.tab
  BY <1>1, setprevjobIs
<1> HIDE DEF b
<1>3. c \in JobsRecord /\ c.tab = js.tab
  BY <1>2 DEF JobsRecord
<1> HIDE DEF c
<1>4. setprevjob(c, thisjob) \in JobsRecord /\ setprevjob(c, thisjob).tab = js.tab
  BY <1>3, setprevjobIs
<1>5. shuffle(js, j, func) = IF b.cur = 0 THEN setprevjob(c, thisjob) ELSE b
  BY DEF shuffle, a, b, c
<1> QED
  BY <1>2, <1>4, <1>5

Resume(q) == IF q.st = "stop" THEN [q EXCEPT !.st = "run"] ELSE q

LEMMA makerunningIs ==
    ASSUME NEW js \in JobsRecord, NEW j \in Slots
    PROVE  LET r == makerunning(js, j)
           IN  /\ r \in JobsRecord /\ r.cur = js.cur /\ r.prev = js.prev
               /\ r.tab[j].stat = js.tab[j].stat \ {"STOPPED"}
               /\ Len(r.tab[j].procs) = Len(js.tab[j].procs)
               /\ \A i \in 1..Len(js.tab[j].procs) :
                     r.tab[j].procs[i] = Resume(js.tab[j].procs[i])
               /\ \A i \in Slots : i # j => r.tab[i] = js.tab[i]
<1> DEFINE r == makerunning(js, j)
           a == js.tab[j]
           ps == [i \in DOMAIN a.procs |-> Resume(a.procs[i])]
           b == [a EXCEPT !.stat = a.stat \ {"STOPPED"}, !.procs = ps]
<1>1. a \in Job /\ js.tab \in [Slots -> Job] /\ a.procs \in Seq(Proc)
  BY DEF JobsRecord, Table, Job
<1>2. ps \in Seq(Proc) /\ Len(ps) = Len(a.procs)
      /\ \A i \in 1..Len(a.procs) : ps[i] = Resume(a.procs[i])
  <2>1. ASSUME NEW i \in 1..Len(a.procs) PROVE Resume(a.procs[i]) \in Proc
    <3>1. ASSUME NEW q \in Proc PROVE Resume(q) \in Proc
      BY DEF Resume, Proc, Statuses
    <3>2. a.procs[i] \in Proc
      BY <1>1
    <3> QED
      BY <3>1, <3>2
  <2> QED
    BY <1>1, <2>1
<1> HIDE DEF ps
<1>3. b \in Job /\ b.stat = a.stat \ {"STOPPED"} /\ b.procs = ps
  BY <1>1, <1>2 DEF Job
<1>4. r = [js EXCEPT !.tab = [js.tab EXCEPT ![j] = b]]
  BY <1>1 DEF makerunning, ps, Resume, Job, JobsRecord, Table
<1> HIDE DEF b
<1>5. r \in JobsRecord /\ r.cur = js.cur /\ r.prev = js.prev /\ r.tab = [js.tab EXCEPT ![j] = b]
  BY <1>1, <1>3, <1>4 DEF JobsRecord, Table
<1>6. r.tab[j] = b /\ \A i \in Slots : i # j => r.tab[i] = js.tab[i]
  BY <1>1, <1>5
<1> HIDE DEF r
<1> QED
  BY <1>2, <1>3, <1>5, <1>6 DEF r

LEMMA addprocIs ==
    ASSUME NEW js \in JobsRecord, NEW j \in Slots, NEW p \in Pids
    PROVE  LET r == addproc(js, j, p)
           IN  /\ r \in JobsRecord /\ r.cur = js.cur /\ r.prev = js.prev
               /\ r.tab[j].stat = js.tab[j].stat \ {"DONE"}
               /\ r.tab[j].procs = Append(js.tab[j].procs, [pid |-> p, st |-> "run"])
               /\ \A i \in Slots : i # j => r.tab[i] = js.tab[i]
<1> DEFINE r == addproc(js, j, p)
           a == js.tab[j]
           ps == Append(a.procs, [pid |-> p, st |-> "run"])
           b == [a EXCEPT !.stat = a.stat \ {"DONE"}, !.procs = ps]
<1>1. a \in Job /\ js.tab \in [Slots -> Job] /\ a.procs \in Seq(Proc)
  BY DEF JobsRecord, Table, Job
<1>2. ps \in Seq(Proc)
  <2>1. [pid |-> p, st |-> "run"] \in Proc
    BY DEF Proc, Statuses
  <2> QED
    BY <1>1, <2>1
<1> HIDE DEF ps
<1>3. b \in Job /\ b.stat = a.stat \ {"DONE"} /\ b.procs = ps
  BY <1>1, <1>2 DEF Job
<1>4. r = [js EXCEPT !.tab = [js.tab EXCEPT ![j] = b]]
  BY <1>1 DEF addproc, ps, Job, JobsRecord, Table
<1> HIDE DEF b
<1>5. r \in JobsRecord /\ r.cur = js.cur /\ r.prev = js.prev /\ r.tab = [js.tab EXCEPT ![j] = b]
  BY <1>1, <1>3, <1>4 DEF JobsRecord, Table
<1>6. r.tab[j] = b /\ \A i \in Slots : i # j => r.tab[i] = js.tab[i]
  BY <1>1, <1>5
<1> HIDE DEF r
<1> QED
  BY <1>3, <1>5, <1>6 DEF r, ps

\* A change of the status of one entry.
LEMMA StatusSet ==
    ASSUME NEW js \in JobsRecord, NEW j \in Slots, NEW s \in SUBSET Flags
    PROVE  LET r == [js EXCEPT !.tab[j].stat = s]
           IN  /\ r \in JobsRecord /\ r.cur = js.cur /\ r.prev = js.prev
               /\ r.tab[j].stat = s /\ r.tab[j].procs = js.tab[j].procs
               /\ \A i \in Slots : i # j => r.tab[i] = js.tab[i]
<1> DEFINE r == [js EXCEPT !.tab[j].stat = s]
           a == js.tab[j]
           b == [a EXCEPT !.stat = s]
<1>1. a \in Job /\ js.tab \in [Slots -> Job]
  BY DEF JobsRecord, Table
<1>2. b \in Job /\ b.stat = s /\ b.procs = a.procs
  BY <1>1 DEF Job
<1>3. r = [js EXCEPT !.tab = [js.tab EXCEPT ![j] = b]]
  BY <1>1 DEF Job, JobsRecord, Table
<1> HIDE DEF b
<1>4. r \in JobsRecord /\ r.cur = js.cur /\ r.prev = js.prev /\ r.tab = [js.tab EXCEPT ![j] = b]
  BY <1>1, <1>2, <1>3 DEF JobsRecord, Table
<1>5. r.tab[j] = b /\ \A i \in Slots : i # j => r.tab[i] = js.tab[i]
  BY <1>1, <1>4
<1> HIDE DEF r
<1> QED
  BY <1>2, <1>4, <1>5 DEF r

\* update_job() of a job that is not done yet.
LEMMA update_jobIs ==
    ASSUME NEW js \in JobsRecord, NEW j \in Slots, NEW this, "DONE" \notin js.tab[j].stat
    PROVE  LET a == js.tab[j]
               r == update_job(js, j, this)
               b == r.tab[j]
               stops == SomeStopped(a)
               notes == (NOTIFY \/ j = this) /\ "LOCKED" \in a.stat
           IN  /\ r \in JobsRecord
               /\ \A i \in Slots : i # j => r.tab[i] = js.tab[i]
               /\ \/ ~Ends(a) /\ r = js
                  \/ /\ Ends(a) /\ stops /\ b.procs = a.procs
                     /\ b.stat = IF notes THEN (a.stat \cup {"STOPPED"}) \ {"CHANGED"}
                                 ELSE a.stat \cup {"CHANGED", "STOPPED"}
                  \/ /\ Ends(a) /\ ~stops /\ notes /\ b = FreeJob
                  \/ /\ Ends(a) /\ ~stops /\ ~notes /\ b.procs = a.procs
                     /\ b.stat = a.stat \cup {"CHANGED", "DONE"}
<1> DEFINE a == js.tab[j]
           r == update_job(js, j, this)
           stops == SomeStopped(a)
           notes == (NOTIFY \/ j = this) /\ "LOCKED" \in a.stat
           s == a.stat \cup {"CHANGED", IF stops THEN "STOPPED" ELSE "DONE"}
           marked == [js EXCEPT !.tab[j].stat = s]
           shuffled == IF stops THEN [marked EXCEPT !.prev = js.cur, !.cur = j] ELSE marked
<1>1. CASE ~Ends(a)
  BY <1>1 DEF update_job
<1>2. CASE Ends(a)
  <2>1. r = IF notes THEN printjob(shuffled, j, this) ELSE shuffled
    BY <1>2 DEF update_job
  <2>2. s \in SUBSET Flags
    BY DEF JobsRecord, Table, Job, Flags
  <2> HIDE DEF s
  <2>3. /\ marked \in JobsRecord /\ marked.tab[j].stat = s /\ marked.tab[j].procs = a.procs
        /\ \A i \in Slots : i # j => marked.tab[i] = js.tab[i]
    BY <2>2, StatusSet
  <2> HIDE DEF marked
  <2>4. /\ shuffled \in JobsRecord /\ shuffled.tab = marked.tab
    <3>1. js.cur \in 0..NJobs /\ j \in 0..NJobs
      BY JobControlAssumption DEF JobsRecord, Slots
    <3> QED
      BY <2>3, <3>1 DEF JobsRecord
  <2> HIDE DEF shuffled
  <2>5. CASE ~notes
    BY <1>2, <2>1, <2>3, <2>4, <2>5 DEF s
  <2>6. CASE notes
    <3>1. r = printjob(shuffled, j, this)
      BY <2>1, <2>6
    <3>2. /\ r \in JobsRecord
          /\ Kept(shuffled.tab[j], r.tab[j]) /\ "DONE" \notin r.tab[j].stat
          /\ \A i \in Slots : i # j => r.tab[i] = shuffled.tab[i]
      BY <2>4, <3>1, printjobIs
    <3> HIDE DEF r
    <3>3. CASE stops
      <4>1. s = a.stat \cup {"CHANGED", "STOPPED"} /\ "DONE" \notin s
        BY <3>3 DEF s
      <4>2. \/ r.tab[j] = shuffled.tab[j]
            \/ r.tab[j].stat = s \ {"CHANGED"} /\ r.tab[j].procs = a.procs
        BY <2>3, <2>4, <3>2, <4>1 DEF Kept
      <4>3. r.tab[j].stat = s \ {"CHANGED"} /\ r.tab[j].procs = a.procs
        <5>1. r = [shuffled EXCEPT !.tab[j].stat = shuffled.tab[j].stat \ {"CHANGED"}]
          BY <2>3, <2>4, <3>1, <4>1 DEF printjob
        <5>2. shuffled.tab[j].stat \ {"CHANGED"} \in SUBSET Flags
          BY <2>2, <2>3, <2>4
        <5> DEFINE t == shuffled.tab[j].stat \ {"CHANGED"}
        <5>3. t \in SUBSET Flags
          BY <5>2
        <5>4. t = s \ {"CHANGED"}
          BY <2>3, <2>4
        <5> HIDE DEF t
        <5>5. /\ [shuffled EXCEPT !.tab[j].stat = t].tab[j].stat = t
              /\ [shuffled EXCEPT !.tab[j].stat = t].tab[j].procs = shuffled.tab[j].procs
          BY <2>4, <5>3, StatusSet
        <5> QED
          BY <2>3, <2>4, <5>1, <5>4, <5>5 DEF t
      <4> QED
        BY <1>2, <2>3, <2>4, <2>6, <3>2, <3>3, <4>1, <4>3 DEF r
    <3>4. CASE ~stops
      <4>1. "DONE" \in s
        BY <3>4 DEF s
      <4>2. r.tab[j] = FreeJob
        BY <2>3, <2>4, <3>2, <4>1 DEF Kept
      <4> QED
        BY <1>2, <2>3, <2>4, <2>6, <3>2, <3>4, <4>2 DEF r
    <3> QED
      BY <3>3, <3>4
  <2> QED
    BY <2>5, <2>6
<1> QED
  BY <1>1, <1>2

LEMMA TidyJob ==
    ASSUME NEW a \in Job, NEW b \in Job, Kept(a, b)
    PROVE  /\ JobOK(a) => JobOK(b)
           /\ Listable(a) => Listable(b)
           /\ Len(a.procs) <= MaxProcs => Len(b.procs) <= MaxProcs
           /\ a = BuiltinJob => b = BuiltinJob
           /\ JobOK(a) => b.procs = a.procs \/ (b = FreeJob /\ Ended(a))
<1>1. FreeJob.stat = {} /\ FreeJob.procs = <<>> /\ Len(<<>>) = 0 /\ DOMAIN <<>> = {} /\ 0 <= MaxProcs
  BY JobControlAssumption DEF FreeJob
<1>2. CASE b = a
  BY <1>2
<1>3. CASE "DONE" \in a.stat /\ b = FreeJob
  <2>1. a # BuiltinJob
    BY <1>3 DEF BuiltinJob
  <2> QED
    BY <1>1, <1>3, <2>1 DEF JobOK, Listable
<1>4. CASE "DONE" \notin a.stat /\ b.stat = a.stat \ {"CHANGED"} /\ b.procs = a.procs
  <2>1. a = BuiltinJob => b = BuiltinJob
    <3>1. b = [stat |-> b.stat, procs |-> b.procs]
      BY DEF Job
    <3> QED
      BY <1>4, <3>1 DEF BuiltinJob
  <2>2. JobOK(a) => JobOK(b)
    BY <1>4 DEF JobOK
  <2>3. Listable(a) => Listable(b)
    BY <1>4 DEF Listable
  <2> QED
    BY <1>4, <2>1, <2>2, <2>3
<1> QED
  BY <1>2, <1>3, <1>4 DEF Kept

LEMMA TidyShape ==
    ASSUME NEW t \in Table, NEW u \in Table, Tidied(t, u), NEW this, NEW own \in 0..NJobs,
           ShapeOf(t, this, own, FALSE)
    PROVE  ShapeOf(u, this, own, FALSE)
<1>1. ASSUME NEW j \in Slots
      PROVE  /\ JobOK(u[j]) /\ Len(u[j].procs) <= MaxProcs
             /\ j = own \/ Listable(u[j])
             /\ t[j] = BuiltinJob => u[j] = BuiltinJob
  <2>1. t[j] \in Job /\ u[j] \in Job /\ Kept(t[j], u[j])
    BY DEF Table, Tidied
  <2>2. JobOK(t[j]) /\ Len(t[j].procs) <= MaxProcs /\ (j = own \/ Listable(t[j]))
    BY DEF ShapeOf
  <2> QED
    BY <2>1, <2>2, TidyJob
<1>2. own # 0 => own \in Slots
  BY JobControlAssumption DEF Slots
<1> QED
  BY <1>1, <1>2 DEF ShapeOf

\* The first and the last of some entries.
LEMMA HasFirstLast ==
    ASSUME NEW E \in SUBSET (Slots \X (1..MaxProcs)), E # {}
    PROVE  /\ \E e \in E : \A d \in E \ {e} : Before(e, d)
           /\ \E e \in E : \A d \in E \ {e} : Before(d, e)
<1> DEFINE A == {e[1] : e \in E}
           B(a) == {k \in 1..MaxProcs : <<a, k>> \in E}
<1>1. NJobs \in Nat /\ MaxProcs \in Nat
  BY JobControlAssumption
<1>2. A \in SUBSET (1..NJobs) /\ A # {}
  BY DEF Slots
<1>3. ASSUME NEW a \in A PROVE B(a) \in SUBSET (1..MaxProcs) /\ B(a) # {}
  <2>1. PICK e \in E : e[1] = a
    BY <1>3
  <2>2. e = <<a, e[2]>> /\ e[2] \in 1..MaxProcs
    BY <2>1
  <2> QED
    BY <2>2
<1>4. \A e \in E : e = <<e[1], e[2]>> /\ e[1] \in A /\ e[2] \in B(e[1])
  OBVIOUS
<1>5. A \subseteq Nat /\ \A a \in A : B(a) \subseteq Nat
  BY <1>1, <1>2
<1> DEFINE C(a) == B(a)
<1>6. \A a \in A : \A k \in C(a) : <<a, k>> \in E
  OBVIOUS
<1> HIDE DEF A
<1>7. \E e \in E : \A d \in E \ {e} : Before(e, d)
  <2>1. PICK a \in A : \A c \in A : a <= c
    BY <1>1, <1>2, HasLeast
  <2> DEFINE Ba == B(a)
  <2>2. Ba \in SUBSET (1..MaxProcs) /\ Ba # {}
    BY <1>3
  <2> HIDE DEF Ba
  <2>3. PICK b \in Ba : \A c \in Ba : b <= c
    BY <1>1, <2>2, HasLeast
  <2>4. <<a, b>> \in E
    BY <1>6, <2>3 DEF Ba
  <2>5. ASSUME NEW d \in E, d # <<a, b>> PROVE Before(<<a, b>>, d)
    <3>1. d = <<d[1], d[2]>> /\ d[1] \in A /\ (d[1] = a => d[2] \in Ba)
      BY <1>4 DEF Ba
    <3>2. a <= d[1] /\ (d[1] = a => b <= d[2] /\ b # d[2])
      BY <2>1, <2>3, <2>5, <3>1
    <3>3. a \in Nat /\ d[1] \in Nat /\ (d[1] = a => d[2] \in Nat) /\ b \in Nat
      BY <1>1, <1>5, <2>2, <2>3, <3>1 DEF Ba
    <3> QED
      BY <3>2, <3>3 DEF Before
  <2> QED
    BY <2>4, <2>5
<1>8. \E e \in E : \A d \in E \ {e} : Before(d, e)
  <2>1. PICK a \in A : \A c \in A : c <= a
    BY <1>1, <1>2, HasGreatest
  <2> DEFINE Ba == B(a)
  <2>2. Ba \in SUBSET (1..MaxProcs) /\ Ba # {}
    BY <1>3
  <2> HIDE DEF Ba
  <2>3. PICK b \in Ba : \A c \in Ba : c <= b
    BY <1>1, <2>2, HasGreatest
  <2>4. <<a, b>> \in E
    BY <1>6, <2>3 DEF Ba
  <2>5. ASSUME NEW d \in E, d # <<a, b>> PROVE Before(d, <<a, b>>)
    <3>1. d = <<d[1], d[2]>> /\ d[1] \in A /\ (d[1] = a => d[2] \in Ba)
      BY <1>4 DEF Ba
    <3>2. d[1] <= a /\ (d[1] = a => d[2] <= b /\ b # d[2])
      BY <2>1, <2>3, <2>5, <3>1
    <3>3. a \in Nat /\ d[1] \in Nat /\ (d[1] = a => d[2] \in Nat) /\ b \in Nat
      BY <1>1, <1>5, <2>2, <2>3, <3>1 DEF Ba
    <3> QED
      BY <3>2, <3>3 DEF Before
  <2> QED
    BY <2>4, <2>5
<1> QED
  BY <1>7, <1>8

\* findproc() returns an entry of that process, a running one if there is one.
LEMMA findprocIs ==
    ASSUME NEW tab, NEW p, Entries(tab, p) # {}
    PROVE  LET e == findproc(tab, p)
           IN  /\ e \in Entries(tab, p) /\ e[1] \in Slots /\ e[2] \in 1..MaxProcs
               /\ (\E d \in Entries(tab, p) : tab[d[1]].procs[d[2]].st = "run")
                     => tab[e[1]].procs[e[2]].st = "run"
<1> DEFINE E == Entries(tab, p)
           L == {e \in E : tab[e[1]].procs[e[2]].st = "run"}
           f == findproc(tab, p)
<1>1. E \in SUBSET (Slots \X (1..MaxProcs)) /\ E # {}
  BY DEF Entries
<1>2. L \in SUBSET (Slots \X (1..MaxProcs))
  BY <1>1
<1>3. f = IF L # {} THEN CHOOSE e \in L : \A d \in L \ {e} : Before(e, d)
          ELSE CHOOSE e \in E : \A d \in E \ {e} : Before(d, e)
  BY DEF findproc
<1> HIDE DEF E, f
<1>4. CASE L # {}
  <2> DEFINE K == L
  <2>1. K \in SUBSET (Slots \X (1..MaxProcs)) /\ K # {}
    BY <1>2, <1>4
  <2> HIDE DEF K
  <2>2. \E e \in K : \A d \in K \ {e} : Before(e, d)
    BY <2>1, HasFirstLast
  <2>3. f = CHOOSE e \in K : \A d \in K \ {e} : Before(e, d)
    BY <1>3, <1>4 DEF K
  <2>4. f \in K
    BY <2>2, <2>3
  <2>5. f \in E /\ tab[f[1]].procs[f[2]].st = "run"
    BY <2>4 DEF K
  <2> QED
    BY <1>1, <2>5 DEF E, f
<1>5. CASE L = {}
  <2>1. \E e \in E : \A d \in E \ {e} : Before(d, e)
    BY <1>1, HasFirstLast
  <2>2. f \in E
    BY <1>3, <1>5, <2>1
  <2> QED
    BY <1>1, <1>5, <2>2 DEF E, f
<1> QED
  BY <1>4, <1>5

\* A list without its k-th element.
LEMMA RemoveAtIs ==
    ASSUME NEW S, NEW s \in Seq(S), NEW k \in 1..Len(s)
    PROVE  /\ RemoveAt(s, k) \in Seq(S) /\ Len(RemoveAt(s, k)) = Len(s) - 1
           /\ \A i \in 1..(Len(s) - 1) : RemoveAt(s, k)[i] = IF i < k THEN s[i] ELSE s[i + 1]
<1> DEFINE a == SubSeq(s, 1, k - 1)
           b == SubSeq(s, k + 1, Len(s))
<1>1. /\ a \in Seq(S) /\ Len(a) = k - 1 /\ \A i \in 1..(k - 1) : a[i] = s[i]
  BY SubSeqProperties
<1>2. /\ b \in Seq(S) /\ Len(b) = Len(s) - k /\ \A i \in 1..(Len(s) - k) : b[i] = s[k + i]
  BY SubSeqProperties
<1>3. RemoveAt(s, k) = a \o b
  BY DEF RemoveAt
<1> HIDE DEF a, b
<1>4. a \o b \in Seq(S) /\ Len(a \o b) = Len(s) - 1
  <2>1. a \in Seq(S) /\ b \in Seq(S)
    BY <1>1, <1>2
  <2>2. a \o b \in Seq(S) /\ Len(a \o b) = Len(a) + Len(b)
    BY <2>1, ConcatProperties
  <2> QED
    BY <1>1, <1>2, <2>2
<1>5. ASSUME NEW i \in 1..(Len(s) - 1) PROVE (a \o b)[i] = IF i < k THEN s[i] ELSE s[i + 1]
  <2>1. i \in 1..(Len(a) + Len(b))
    BY <1>1, <1>2
  <2>2. (a \o b)[i] = IF i <= Len(a) THEN a[i] ELSE b[i - Len(a)]
    <3>1. \A n \in 1..(Len(a) + Len(b)) : (a \o b)[n] = IF n <= Len(a) THEN a[n] ELSE b[n - Len(a)]
      BY <1>1, <1>2
    <3> QED
      BY <2>1, <3>1
  <2>3. CASE i < k
    BY <1>1, <2>2, <2>3
  <2>4. CASE ~(i < k)
    <3>1. i - Len(a) \in 1..(Len(s) - k) /\ k + (i - Len(a)) = i + 1 /\ ~(i <= Len(a))
      BY <1>1, <2>4
    <3> QED
      BY <1>2, <2>2, <2>4, <3>1
  <2> QED
    BY <2>3, <2>4
<1> QED
  BY <1>3, <1>4, <1>5

-----------------------------------------------------------------------------
(* Types, Control and Shape: initially, and over each action.              *)

LEMMA Facts ==
    ASSUME JInv
    PROVE  /\ Jobs \in JobsRecord /\ Jobs.tab = jobtab /\ Jobs.cur = curjob /\ Jobs.prev = prevjob
           /\ jobtab \in Table /\ \A j \in Slots : jobtab[j] \in Job
           /\ 0 \notin Slots /\ Slots \subseteq 0..NJobs
           /\ curjob \in 0..NJobs /\ prevjob \in 0..NJobs /\ thisjob \in 0..NJobs
           /\ binslot \in 0..NJobs /\ target \in 0..NJobs
           /\ binslot # 0 => binslot \in Slots
           /\ ShapeOf(jobtab, thisjob, binslot, Building)
           /\ Building => thisjob \in Slots /\ binslot = 0
<1>1. TypeOK /\ Control /\ Shape
  BY DEF JInv
<1>2. 0 \notin Slots /\ Slots \subseteq 0..NJobs /\ Slots = (0..NJobs) \ {0}
  BY JobControlAssumption DEF Slots
<1>3. curjob \in 0..NJobs /\ prevjob \in 0..NJobs /\ thisjob \in 0..NJobs
      /\ binslot \in 0..NJobs /\ target \in 0..NJobs
  BY <1>1 DEF TypeOK
<1>4. Building => thisjob \in Slots /\ binslot = 0
  BY <1>1 DEF Building, Control, Pipes, Builtins
<1>5. jobtab \in Table /\ \A j \in Slots : jobtab[j] \in Job
  BY <1>1 DEF TypeOK, Table
<1> QED
  BY <1>1, <1>2, <1>3, <1>4, <1>5, JobsIs DEF Shape

LEMMA InitHolds == Init => JInv
<1> SUFFICES ASSUME Init PROVE JInv
  OBVIOUS
<1>1. NJobs \in Nat /\ MaxProcs \in Nat /\ ChildMax \in Nat /\ "ok" \in Codes /\ 0 \in 0..NJobs
      /\ 0 \in 0..MaxProcs
  BY JobControlAssumption
<1>2. jobtab = [j \in Slots |-> FreeJob] /\ \A j \in Slots : jobtab[j] = FreeJob
  BY DEF Init
<1>3. FreeJob.stat = {} /\ FreeJob.procs = <<>> /\ Len(FreeJob.procs) <= MaxProcs
  BY <1>1 DEF FreeJob
<1>4. TypeOK
  <2>1. jobtab \in [Slots -> Job] /\ \A j \in Slots : Len(jobtab[j].procs) <= MaxProcs
    BY <1>2, <1>3, FreeIsJob
  <2>2. child \in [Pids -> [st : {"new", "run", "stop", "zombie", "gone"},
                           ev : {"none", "exit", "stop", "cont"}, code : Codes]]
    BY <1>1 DEF Init
  <2>3. bgstatus_list \in Seq([pid : Pids, status : Codes]) /\ Len(bgstatus_list) <= ChildMax
    BY <1>1 DEF Init
  <2> QED
    BY <1>1, <2>1, <2>2, <2>3 DEF Init, TypeOK, Steps, Ops, Statuses
<1>5. Control
  BY DEF Init, Control, Pipes, Builtins, Waits
<1>6. Shape
  <2>1. ~Building /\ binslot = 0
    BY DEF Init, Building
  <2>2. \A j \in Slots : JobOK(jobtab[j]) /\ Listable(jobtab[j])
    BY <1>2, <1>3 DEF JobOK, Listable
  <2> QED
    BY <1>2, <1>3, <2>1, <2>2 DEF Shape, ShapeOf
<1> QED
  BY <1>4, <1>5, <1>6 DEF JInv

\* The kernel, the delivery of SIGCHLD and the end of the handler.
LEMMA KernelKeeps ==
    ASSUME JInv, KernelStep \/ Deliver \/ ReapDone
    PROVE  JInv'
<1>1. UNCHANGED <<jobVars, thisjob, statusVars, op, target, fglast, binslot, disowned>>
  BY DEF KernelStep, Exit, Stop, Continue, Report, Deliver, ReapDone, mainVars
<1>2. /\ pc' = pc \/ (pc = "suspended" /\ pc' = "test")
      /\ queueing' = queueing
      /\ pc = "bin" => reaping' = reaping
  <2>1. CASE KernelStep
    BY <2>1 DEF KernelStep, Exit, Stop, Continue, Report, mainVars, signalVars
  <2>2. CASE Deliver
    BY <2>2 DEF JInv, Control, Deliver, mainVars
  <2>3. CASE ReapDone
    BY <2>3 DEF JInv, Control, ReapDone
  <2> QED
    BY <2>1, <2>2, <2>3
<1>3. /\ child' \in [Pids -> [st : {"new", "run", "stop", "zombie", "gone"},
                             ev : {"none", "exit", "stop", "cont"}, code : Codes]]
      /\ {pending', blocked', queueing', queued', reaping'} \subseteq BOOLEAN
  <2>1. CASE KernelStep
    <3>1. PICK p \in Pids, st \in {"run", "stop", "zombie"}, ev \in {"exit", "stop", "cont"},
               c \in Codes :
             child' = [child EXCEPT ![p] = [st |-> st, ev |-> ev, code |-> c]]
      BY <2>1 DEF JInv, TypeOK, KernelStep, Exit, Stop, Continue, Report
    <3>2. pending' = TRUE /\ UNCHANGED signalVars
      BY <2>1 DEF KernelStep, Exit, Stop, Continue, Report
    <3> QED
      BY <3>1, <3>2 DEF JInv, TypeOK, signalVars
  <2>2. CASE Deliver
    BY <2>2 DEF JInv, TypeOK, Deliver
  <2>3. CASE ReapDone
    BY <2>3 DEF JInv, TypeOK, ReapDone, kernelVars
  <2> QED
    BY <2>1, <2>2, <2>3
<1>4. TypeOK'
  BY <1>1, <1>2, <1>3 DEF JInv, TypeOK, jobVars, statusVars, Steps
<1>5. Control'
  BY <1>1, <1>2 DEF JInv, Control, Waits
<1>6. Shape'
  BY <1>1, <1>2 DEF JInv, Shape, ShapeOf, Building, jobVars
<1> QED
  BY <1>4, <1>5, <1>6 DEF JInv

\* Steps of the main program that leave the table alone.
LEMMA SubstKeeps ==
    ASSUME JInv, SubstBegin \/ SubstEnd
    PROVE  JInv'
<1>1. /\ UNCHANGED <<kernelVars, jobVars, thisjob, statusVars, op, target, binslot, disowned>>
      /\ pc \in {"build", "subst"} /\ pc' \in {"subst", "last"} /\ op = "sync"
      /\ jobtab[thisjob].procs # <<>>
  <2>1. CASE SubstBegin
    BY <2>1, Facts DEF SubstBegin, MainAt, Table, Job, Building
  <2>2. CASE SubstEnd
    BY <2>2 DEF SubstEnd, MainAt, JInv, Shape, Control, Building
  <2> QED
    BY <2>1, <2>2
<1>2. {pending', blocked', queueing', queued', reaping'} \subseteq BOOLEAN
  BY DEF JInv, TypeOK, SubstBegin, SubstEnd, Unqueue, kernelVars
<1>3. fglast' \in Pids \cup 0..MaxProcs
  <2>1. CASE SubstBegin
    BY <2>1 DEF SubstBegin, JInv, TypeOK
  <2>2. CASE SubstEnd
    <3>1. thisjob \in Slots
      BY <1>1, Facts DEF Building
    <3>2. Len(jobtab[thisjob].procs) \in 0..MaxProcs
      BY <3>1, Facts, JobControlAssumption DEF ShapeOf, Job
    <3> QED
      BY <2>2, <3>2 DEF SubstEnd
  <2> QED
    BY <2>1, <2>2
<1>4. TypeOK'
  BY <1>1, <1>2, <1>3 DEF JInv, TypeOK, kernelVars, jobVars, statusVars, Steps
<1>5. Control'
  BY <1>1 DEF JInv, Control, Waits, Pipes, Builtins
<1>6. Shape'
  BY <1>1 DEF JInv, Shape, ShapeOf, Building, jobVars
<1> QED
  BY <1>4, <1>5, <1>6 DEF JInv

\* Waiting begins for job j.
LEMMA BeginWaitKeeps ==
    ASSUME JInv, NEW j, NEW last, BeginWait(j, last),
           j \in 0..NJobs, last \in Pids \cup 0..MaxProcs, op' \in {"sync", "fg", "wait", "wait_all", "wait_pid"},
           op = "sync" <=> op' = "sync", op' = "sync" => j = thisjob /\ Building /\ jobtab[thisjob].procs # <<>>,
           op' # "sync" => op \in Builtins /\ ~Building,
           op' \in {"fg", "wait", "wait_all"} => j \in Slots /\ j # binslot,
           op' = "wait_pid" => last \in Pids,
           op' \in Builtins => thisjob' = IF op' = "fg" THEN j ELSE binslot,
           op' = "sync" => thisjob' = thisjob,
           binslot' = binslot
    PROVE  /\ Control' /\ {blocked', queueing', queued', reaping'} \subseteq BOOLEAN
           /\ pc' \in Steps /\ op' \in Ops /\ target' \in 0..NJobs /\ thisjob' \in 0..NJobs
           /\ fglast' \in Pids \cup 0..MaxProcs
           /\ Building' <=> op' = "sync"
           /\ pc' # "build" /\ (Building' <=> Building) /\ (Building' => thisjob' = thisjob)
<1>1. pc' = "enter" /\ target' = j /\ fglast' = last
      /\ {blocked', queueing', queued', reaping'} \subseteq BOOLEAN
  BY DEF BeginWait, Unqueue, JInv, TypeOK
<1>2. op' \in Builtins <=> binslot' # 0
  BY DEF JInv, Control, Builtins
<1>3. thisjob' \in 0..NJobs /\ (op' = "sync" => thisjob' \in Slots)
  BY Facts DEF Builtins
<1>4. Control'
  BY <1>1, <1>2, <1>3 DEF Control, Waits, Pipes, Builtins
<1>5. Building' <=> op' = "sync"
  BY <1>1 DEF Building
<1> QED
  BY <1>1, <1>3, <1>4, <1>5 DEF Steps, Ops

\* Test and sleep.
LEMMA SleepKeeps ==
    ASSUME JInv, TestWait \/ Suspend
    PROVE  JInv'
<1>1. /\ UNCHANGED <<kernelVars, queueing, queued, reaping, jobVars, thisjob, statusVars,
                   op, target, fglast, binslot, disowned>>
      /\ pc \in {"test", "suspend"} /\ pc' \in {"suspend", "suspended", "after"}
  BY DEF TestWait, Suspend, MainAt
<1>2. blocked' \in BOOLEAN
  BY DEF TestWait, Suspend, JInv, TypeOK
<1>3. TypeOK'
  BY <1>1, <1>2 DEF JInv, TypeOK, kernelVars, jobVars, statusVars, Steps
<1>4. Control'
  BY <1>1 DEF JInv, Control, Waits
<1>5. Shape'
  BY <1>1 DEF JInv, Shape, ShapeOf, Building, jobVars
<1> QED
  BY <1>3, <1>4, <1>5 DEF JInv

\* The last process of a job.
LEMMA LastIs ==
    ASSUME NEW job \in Job, job.procs # <<>>
    PROVE  /\ Len(job.procs) \in 1..Len(job.procs) /\ Last(job.procs) = job.procs[Len(job.procs)]
           /\ Last(job.procs) \in Proc /\ Last(job.procs).pid \in Pids
<1>1. job.procs \in Seq(Proc)
  BY DEF Job
<1>2. Len(job.procs) \in 1..Len(job.procs)
  BY <1>1
<1>3. Last(job.procs) = job.procs[Len(job.procs)]
  BY DEF Last
<1>4. Last(job.procs) \in Proc
  BY <1>1, <1>2, <1>3
<1> QED
  BY <1>2, <1>3, <1>4 DEF Proc

\* The processes of a job.
LEMMA ProcsIs ==
    ASSUME NEW job \in Job
    PROVE  /\ job.procs \in Seq(Proc) /\ Len(job.procs) \in Nat /\ DOMAIN job.procs = 1..Len(job.procs)
           /\ \A i \in 1..Len(job.procs) : /\ job.procs[i] \in Proc /\ job.procs[i].pid \in Pids
                                            /\ job.procs[i].st \in Statuses
           /\ ToSet(job.procs) = {job.procs[i] : i \in 1..Len(job.procs)}
           /\ \A q \in ToSet(job.procs) : q \in Proc
<1>1. job.procs \in Seq(Proc)
  BY DEF Job
<1>2. \A i \in 1..Len(job.procs) : job.procs[i] \in Proc
  BY <1>1
<1>3. \A q \in Proc : q.pid \in Pids /\ q.st \in Statuses
  BY DEF Proc
<1>4. DOMAIN job.procs = 1..Len(job.procs) /\ Len(job.procs) \in Nat
  BY <1>1
<1>5. ToSet(job.procs) = {job.procs[i] : i \in 1..Len(job.procs)}
  BY <1>4 DEF ToSet
<1> QED
  BY <1>1, <1>2, <1>3, <1>4, <1>5

LEMMA NamedIs ==
    ASSUME JInv, ~Building, NEW j \in Named, thisjob = binslot
    PROVE  /\ j \in Slots /\ j # binslot /\ Listable(jobtab[j]) /\ jobtab[j].stat # {}
           /\ jobtab[j].procs # <<>> /\ Last(jobtab[j].procs).pid \in Pids
<1>1. j \in Slots /\ j # binslot /\ jobtab[j].stat # {} /\ jobtab[j] \in Job
  BY Facts DEF Named
<1>2. Listable(jobtab[j])
  BY <1>1, Facts DEF ShapeOf
<1>3. jobtab[j].procs # <<>>
  BY <1>1, <1>2 DEF Listable
<1> QED
  BY <1>1, <1>2, <1>3, LastIs

Bg == [pid : Pids, status : Codes]

\* getbgstatus() returns a kept status, which it removes, or the default.
LEMMA TakeBgStatusIs ==
    ASSUME TypeOK, NEW p, NEW default, TakeBgStatus(p, default)
    PROVE  /\ lastval' = default \/ lastval' \in Codes
           /\ bgstatus_list' \in Seq(Bg) /\ Len(bgstatus_list') <= ChildMax
           /\ \/ bgstatus_list' = bgstatus_list
              \/ \E k \in 1..Len(bgstatus_list) : bgstatus_list' = RemoveAt(bgstatus_list, k)
<1> DEFINE B == BgEntries(p)
           n == Len(bgstatus_list)
<1>1. bgstatus_list \in Seq(Bg) /\ n <= ChildMax /\ n \in Nat /\ ChildMax \in Nat
  BY JobControlAssumption DEF TypeOK, Bg
<1>2. CASE B = {}
  BY <1>1, <1>2 DEF TakeBgStatus
<1>3. CASE B # {}
  <2>1. B \in SUBSET (1..n)
    BY <1>1 DEF BgEntries
  <2> DEFINE k == Min(B)
  <2>2. k \in B
    BY <1>1, <1>3, <2>1, MinIs
  <2>3. lastval' = bgstatus_list[k].status /\ bgstatus_list' = RemoveAt(bgstatus_list, k)
    BY <1>3 DEF TakeBgStatus
  <2> HIDE DEF k, B, n
  <2>4. k \in 1..Len(bgstatus_list)
    BY <2>1, <2>2 DEF n
  <2>5. bgstatus_list[k] \in Bg
    BY <1>1, <2>4
  <2>6. RemoveAt(bgstatus_list, k) \in Seq(Bg) /\ Len(RemoveAt(bgstatus_list, k)) = Len(bgstatus_list) - 1
    BY <1>1, <2>4, RemoveAtIs
  <2> QED
    BY <1>1, <2>3, <2>4, <2>5, <2>6 DEF Bg, n
<1> QED
  BY <1>2, <1>3

LEMMA ShapeStays ==
    ASSUME JInv, jobtab' = jobtab, binslot' = binslot, Building' <=> Building,
           Building' => thisjob' = thisjob /\ (pc = "build" /\ pc' # "build" => jobtab[thisjob].procs # <<>>)
                        /\ (pc' = "build" => pc = "build")
    PROVE  Shape'
BY DEF JInv, Shape, ShapeOf

LEMMA WaitPipelineKeeps ==
    ASSUME JInv, WaitPipeline
    PROVE  JInv'
<1> DEFINE last == Last(jobtab[thisjob].procs).pid
<1>1. /\ UNCHANGED <<kernelVars, jobVars, thisjob, statusVars, op, binslot, disowned>>
      /\ op = "sync" /\ pc \in {"build", "last"} /\ jobtab[thisjob].procs # <<>>
      /\ BeginWait(thisjob, last)
  BY DEF WaitPipeline, Complete, MainAt
<1>2. Building
  BY <1>1 DEF Building
<1>3. thisjob \in Slots /\ thisjob \in 0..NJobs /\ jobtab[thisjob] \in Job
  BY <1>2, Facts
<1>4. last \in Pids
  BY <1>1, <1>3, LastIs
<1> HIDE DEF last
<1>5. /\ Control' /\ {blocked', queueing', queued', reaping'} \subseteq BOOLEAN
      /\ pc' \in Steps /\ op' \in Ops /\ target' \in 0..NJobs /\ thisjob' \in 0..NJobs
      /\ fglast' \in Pids \cup 0..MaxProcs
      /\ Building' /\ pc' # "build"
  BY <1>1, <1>2, <1>3, <1>4, BeginWaitKeeps DEF Builtins
<1>6. TypeOK'
  BY <1>1, <1>5 DEF JInv, TypeOK, kernelVars, jobVars, statusVars
<1>7. Shape'
  BY <1>1, <1>2, <1>5, ShapeStays DEF jobVars
<1> QED
  BY <1>5, <1>6, <1>7 DEF JInv

\* wait without an argument goes on to a job, or is over.
LEMMA WaitAllKeeps ==
    ASSUME JInv, wait_all \/ WaitAllEnds \/ (WaitInterrupted /\ op = "wait_all")
    PROVE  JInv'
<1>1. /\ UNCHANGED <<kernelVars, jobVars, thisjob, lastval2, bgstatus_list, binslot, disowned>>
      /\ pc = "bin" \/ (pc \in {"after", "suspended"} /\ op = "wait_all")
  BY DEF wait_all, WaitAllEnds, WaitInterrupted, MainAt
<1>2. ~Building /\ thisjob = binslot /\ op \in Builtins
  BY <1>1 DEF JInv, Control, Building, Builtins
<1>3. \/ /\ op' = "wait_all" /\ lastval' = lastval
         /\ \E j \in Named : /\ pc' = "enter" /\ target' = j /\ fglast' = 0
                             /\ queueing' = FALSE /\ queued' = FALSE /\ reaping' = queued
                             /\ blocked' \in BOOLEAN
      \/ /\ op' = op /\ pc' = "bin_end" /\ lastval' \in {"ok", "trap"}
         /\ UNCHANGED <<queued, reaping, target, fglast>>
         /\ queueing' \in BOOLEAN /\ blocked' \in BOOLEAN
  <2>1. NJobs \in Nat /\ Named \in SUBSET (1..NJobs)
        /\ After(target) \in SUBSET (1..NJobs) /\ After(target) \subseteq Named
    BY JobControlAssumption DEF Named, After, Slots
  <2>2. Named # {} => Min(Named) \in Named
    BY <2>1, MinIs
  <2>3. After(target) # {} => Min(After(target)) \in Named
    BY <2>1, MinIs
  <2>4. CASE wait_all
    BY <2>2, <2>4 DEF wait_all, Finish, BeginWait, Unqueue, signalVars, JInv, TypeOK
  <2>5. CASE WaitAllEnds \/ (WaitInterrupted /\ op = "wait_all")
    <3>1. NextOfAll("ok") \/ NextOfAll("trap")
      BY <2>5 DEF WaitAllEnds, WaitInterrupted
    <3>2. op' = op /\ op = "wait_all"
      BY <2>5 DEF WaitAllEnds, WaitInterrupted
    <3>3. blocked' \in BOOLEAN
      BY <2>5, <3>1 DEF WaitAllEnds, WaitInterrupted, NextOfAll, BeginWait
    <3> QED
      BY <2>3, <3>1, <3>2, <3>3 DEF NextOfAll, Finish, BeginWait, Unqueue
  <2> QED
    BY <2>4, <2>5
<1>4. CASE pc' = "enter"
  <2>1. PICK j \in Named : pc' = "enter" /\ target' = j /\ fglast' = 0 /\ op' = "wait_all"
            /\ queueing' = FALSE /\ queued' = FALSE /\ reaping' = queued
            /\ blocked' \in BOOLEAN
    BY <1>3, <1>4
  <2>2. j \in Slots /\ j # binslot /\ j \in 0..NJobs
    BY <1>2, NamedIs, Facts
  <2>3. 0 \in 0..MaxProcs
    BY JobControlAssumption
  <2>4. TypeOK'
    BY <1>1, <1>3, <2>1, <2>2, <2>3 DEF JInv, TypeOK, kernelVars, jobVars, Steps, Ops
  <2>5. Control'
    BY <1>1, <1>2, <2>1, <2>2 DEF JInv, Control, Waits, Pipes, Builtins
  <2>6. ~Building'
    BY <2>1 DEF Building
  <2>7. Shape'
    BY <1>1, <1>2, <2>6, ShapeStays DEF jobVars
  <2> QED
    BY <2>4, <2>5, <2>7 DEF JInv
<1>5. CASE pc' # "enter"
  <2>5. /\ op' = op /\ pc' = "bin_end" /\ lastval' \in {"ok", "trap"}
        /\ UNCHANGED <<queued, reaping, target, fglast>>
        /\ queueing' \in BOOLEAN /\ blocked' \in BOOLEAN
    BY <1>3, <1>5
  <2>6. lastval' \in Statuses \cup {"fail", "none", "trap"}
    BY <2>5, JobControlAssumption DEF Statuses
  <2>1. TypeOK'
    BY <1>1, <2>5, <2>6 DEF JInv, TypeOK, kernelVars, jobVars, Steps
  <2>2. Control'
    BY <1>1, <1>2, <1>3, <1>5 DEF JInv, Control, Waits, Pipes, Builtins
  <2>3. ~Building'
    BY <1>3, <1>5 DEF Building
  <2>4. Shape'
    BY <1>1, <1>2, <2>3, ShapeStays DEF jobVars
  <2> QED
    BY <2>1, <2>2, <2>4 DEF JInv
<1> QED
  BY <1>4, <1>5

\* The builtin is over.
LEMMA WaitOverKeeps ==
    ASSUME JInv, WaitEnds \/ WaitPidEnds \/ BuiltinUnqueue \/ (WaitInterrupted /\ op # "wait_all")
    PROVE  JInv'
<1>1. /\ UNCHANGED <<kernelVars, jobVars, lastval2, binslot, disowned, op, target, fglast>>
      /\ op \in Builtins
      /\ pc \in {"after", "suspended", "bin_end"} /\ pc' \in {"bin_end", "bin_exit"}
      /\ ~Building /\ ~Building'
  <2>1. CASE WaitEnds
    BY <2>1 DEF WaitEnds, MainAt, Finish, Building, Builtins
  <2>2. CASE WaitPidEnds
    BY <2>2 DEF WaitPidEnds, MainAt, Building, Builtins
  <2>3. CASE BuiltinUnqueue
    BY <2>3 DEF BuiltinUnqueue, MainAt, Building, Builtins, statusVars, JInv, Control
  <2>4. CASE WaitInterrupted /\ op # "wait_all"
    BY <2>4 DEF WaitInterrupted, MainAt, Finish, Building, Builtins
  <2> QED
    BY <2>1, <2>2, <2>3, <2>4
<1>2. {blocked', queueing', queued', reaping'} \subseteq BOOLEAN
  BY DEF JInv, TypeOK, WaitEnds, WaitPidEnds, BuiltinUnqueue, WaitInterrupted, LeaveWait, Unqueue
<1>3. thisjob' = binslot
  <2>1. CASE WaitEnds
    BY <2>1 DEF WaitEnds
  <2>2. CASE ~WaitEnds
    <3>1. thisjob' = thisjob /\ ~(op = "fg" /\ pc \in Waits)
      BY <2>2 DEF WaitPidEnds, BuiltinUnqueue, WaitInterrupted, MainAt, Waits
    <3> QED
      BY <1>1, <3>1 DEF JInv, Control
  <2> QED
    BY <2>1, <2>2
<1>4. /\ lastval' \in Statuses \cup {"fail", "none", "trap"}
      /\ bgstatus_list' \in Seq(Bg) /\ Len(bgstatus_list') <= ChildMax
  <2>1. CASE WaitPidEnds
    <3>1. TypeOK /\ TakeBgStatus(fglast, lastval2) /\ lastval2 \in Statuses
      BY <2>1 DEF WaitPidEnds, JInv, TypeOK
    <3> QED
      BY <3>1, TakeBgStatusIs DEF Statuses
  <2>2. CASE ~WaitPidEnds
    BY <2>2 DEF WaitEnds, BuiltinUnqueue, WaitInterrupted, Finish, JInv, TypeOK, statusVars, Bg
  <2> QED
    BY <2>1, <2>2
<1>5. TypeOK'
  BY <1>1, <1>2, <1>3, <1>4, Facts DEF JInv, TypeOK, kernelVars, jobVars, Steps, Bg
<1>6. Control'
  BY <1>1, <1>3 DEF JInv, Control, Waits, Pipes, Builtins
<1>7. Shape'
  BY <1>1, ShapeStays DEF jobVars
<1> QED
  BY <1>5, <1>6, <1>7 DEF JInv

LEMMA WaitPipelineEndsKeeps ==
    ASSUME JInv, WaitPipelineEnds
    PROVE  JInv'
<1>1. /\ UNCHANGED <<kernelVars, jobVars, statusVars, binslot, disowned>>
      /\ pc = "after" /\ op = "sync" /\ thisjob' = 0 /\ pc' = "idle" /\ op' = "none" /\ target' = 0
      /\ fglast' = 0 /\ {blocked', queueing', queued', reaping'} \subseteq BOOLEAN
  BY DEF WaitPipelineEnds, EndPipeline, Unqueue, MainAt, JInv, TypeOK
<1>2. 0 \in 0..NJobs /\ 0 \in 0..MaxProcs
  BY JobControlAssumption
<1>3. TypeOK'
  BY <1>1, <1>2 DEF JInv, TypeOK, kernelVars, jobVars, statusVars, Steps, Ops
<1>4. Control'
  BY <1>1 DEF JInv, Control, Waits, Pipes, Builtins
<1>5. ~Building /\ ~Building'
  BY <1>1 DEF Building
<1>6. Shape'
  BY <1>1, <1>5, ShapeStays DEF jobVars
<1> QED
  BY <1>3, <1>4, <1>6 DEF JInv

\* The table is changed to js.
LEMMA TableTypes ==
    ASSUME TypeOK, NEW js \in JobsRecord, BecomeJobs(js),
           \A j \in Slots : Len(js.tab[j].procs) <= MaxProcs
    PROVE  /\ jobtab' \in [Slots -> Job] /\ \A j \in Slots : Len(jobtab'[j].procs) <= MaxProcs
           /\ curjob' \in 0..NJobs /\ prevjob' \in 0..NJobs
BY DEF BecomeJobs, JobsRecord, Table

\* A free entry is taken.
LEMMA TakeSlot ==
    ASSUME JInv, initjob # 0, NEW s \in SUBSET Flags, "INUSE" \in s, "DONE" \notin s,
           jobtab' = [jobtab EXCEPT ![initjob].stat = s]
    PROVE  /\ initjob \in Slots /\ jobtab[initjob].stat = {} /\ jobtab' \in Table
           /\ jobtab'[initjob] = [stat |-> s, procs |-> <<>>]
           /\ \A j \in Slots : j # initjob => jobtab'[j] = jobtab[j]
           /\ \A j \in Slots : JobOK(jobtab'[j]) /\ Len(jobtab'[j].procs) <= MaxProcs
<1> DEFINE k == initjob
           a == jobtab[k]
<1>1. k \in Slots /\ a.stat = {}
  BY InitjobIs
<1>2. jobtab \in Table /\ a \in Job /\ a = [stat |-> a.stat, procs |-> a.procs]
  BY <1>1, Facts DEF Job
<1>3. \A j \in Slots : JobOK(jobtab[j]) /\ Len(jobtab[j].procs) <= MaxProcs
  BY Facts DEF ShapeOf
<1>4. a.procs = <<>>
  BY <1>1, <1>3 DEF JobOK
<1> HIDE DEF k
<1>5. jobtab' = [jobtab EXCEPT ![k] = [a EXCEPT !.stat = s]]
  BY <1>1, <1>2 DEF Table, k
<1>6. [a EXCEPT !.stat = s] = [stat |-> s, procs |-> <<>>] /\ [a EXCEPT !.stat = s] \in Job
  BY <1>2, <1>4 DEF Job
<1>7. jobtab' \in Table /\ jobtab'[k] = [stat |-> s, procs |-> <<>>]
      /\ \A j \in Slots : j # k => jobtab'[j] = jobtab[j]
  BY <1>1, <1>2, <1>5, <1>6 DEF Table
<1>8. JobOK(jobtab'[k]) /\ Len(jobtab'[k].procs) <= MaxProcs
  BY <1>7, JobControlAssumption DEF JobOK
<1>9. \A j \in Slots : JobOK(jobtab'[j]) /\ Len(jobtab'[j].procs) <= MaxProcs
  BY <1>3, <1>7, <1>8
<1> QED
  BY <1>1, <1>7, <1>9 DEF k

LEMMA StartPipelineKeeps ==
    ASSUME JInv, NEW how \in Pipes, StartPipeline(how)
    PROVE  JInv'
<1>1. /\ UNCHANGED <<kernelVars, queued, reaping, curjob, prevjob, statusVars,
                   target, fglast, binslot, disowned>>
      /\ pc = "idle" /\ initjob # 0 /\ thisjob' = initjob /\ blocked' = TRUE /\ queueing' = TRUE
      /\ pc' = "build" /\ op' = how /\ jobtab' = [jobtab EXCEPT ![initjob].stat = {"INUSE"}]
  BY DEF StartPipeline, MainAt
<1>2. {"INUSE"} \in SUBSET Flags /\ "INUSE" \in {"INUSE"} /\ "DONE" \notin {"INUSE"}
  BY DEF Flags
<1>3. /\ initjob \in Slots /\ jobtab' \in Table
      /\ jobtab'[initjob] = [stat |-> {"INUSE"}, procs |-> <<>>]
      /\ \A j \in Slots : j # initjob => jobtab'[j] = jobtab[j]
      /\ \A j \in Slots : JobOK(jobtab'[j]) /\ Len(jobtab'[j].procs) <= MaxProcs
  BY <1>1, <1>2, TakeSlot
<1>4. binslot = 0 /\ ~Building
  BY <1>1 DEF JInv, Control, Building, Builtins
<1>5. TypeOK'
  BY <1>1, <1>3, Facts DEF JInv, TypeOK, kernelVars, statusVars, Steps, Ops, Pipes, Table
<1>6. Control'
  BY <1>1, <1>3, <1>4 DEF JInv, Control, Waits, Pipes, Builtins
<1>7. Building'
  BY <1>1 DEF Building
<1>8. \A j \in Slots : j # initjob => Listable(jobtab'[j])
  BY <1>3, <1>4, Facts DEF ShapeOf
<1>9. "INUSE" \in jobtab'[initjob].stat /\ "LOCKED" \notin jobtab'[initjob].stat
  BY <1>3
<1>10. Shape'
  BY <1>1, <1>3, <1>4, <1>7, <1>8, <1>9 DEF Shape, ShapeOf
<1> QED
  BY <1>5, <1>6, <1>10 DEF JInv

LEMMA PipelineFailsKeeps ==
    ASSUME JInv, PipelineFails \/ PipelineFailed
    PROVE  JInv'
<1>1. /\ UNCHANGED <<kernelVars, jobVars, statusVars, op, target, fglast, binslot, disowned>>
      /\ thisjob' \in {0, thisjob} /\ {pc, pc'} = {"idle", "full"}
      /\ blocked' \in BOOLEAN /\ queueing' \in BOOLEAN /\ queued' \in {queued, FALSE}
      /\ reaping' \in {reaping, queued}
  BY DEF PipelineFails, PipelineFailed, MainAt, Unqueue
<1>2. thisjob = 0 /\ thisjob' = 0 /\ op = "none"
  BY <1>1 DEF JInv, Control
<1>3. ~Building /\ ~Building'
  BY <1>1 DEF Building
<1>4. TypeOK'
  BY <1>1, <1>2, Facts DEF JInv, TypeOK, kernelVars, jobVars, statusVars, Steps
<1>5. Control'
  BY <1>1, <1>2 DEF JInv, Control, Waits, Pipes, Builtins
<1>6. Shape'
  BY <1>1, <1>3, ShapeStays DEF jobVars
<1> QED
  BY <1>4, <1>5, <1>6 DEF JInv

LEMMA BuiltinStartKeeps ==
    ASSUME JInv, BuiltinStart
    PROVE  JInv'
<1>1. /\ UNCHANGED <<kernelVars, queued, curjob, prevjob, statusVars, target, fglast, disowned>>
      /\ pc = "idle" /\ initjob # 0 /\ thisjob' = initjob /\ binslot' = initjob
      /\ blocked' = TRUE /\ queueing' = TRUE /\ reaping' = TRUE
      /\ pc' = "bin_reap" /\ op' = "builtin"
      /\ jobtab' = [jobtab EXCEPT ![initjob].stat = {"INUSE", "BUILTIN"}]
  BY DEF BuiltinStart, MainAt
<1> DEFINE s == {"INUSE", "BUILTIN"}
<1>2. s \in SUBSET Flags /\ "INUSE" \in s /\ "DONE" \notin s
  BY DEF Flags
<1>20. jobtab' = [jobtab EXCEPT ![initjob].stat = s]
  BY <1>1
<1> HIDE DEF s
<1>3. /\ initjob \in Slots /\ jobtab' \in Table
      /\ jobtab'[initjob] = [stat |-> s, procs |-> <<>>]
      /\ \A j \in Slots : j # initjob => jobtab'[j] = jobtab[j]
      /\ \A j \in Slots : JobOK(jobtab'[j]) /\ Len(jobtab'[j].procs) <= MaxProcs
  BY <1>1, <1>2, <1>20, TakeSlot
<1>4. binslot = 0 /\ ~Building /\ initjob \in 0..NJobs /\ initjob # 0
  BY <1>1, <1>3, Facts DEF JInv, Control, Building, Builtins
<1>5. TypeOK'
  BY <1>1, <1>3, <1>4 DEF JInv, TypeOK, kernelVars, statusVars, Steps, Ops, Table
<1>6. Control'
  BY <1>1, <1>3, <1>4 DEF JInv, Control, Waits, Pipes, Builtins
<1>7. ~Building'
  BY <1>1 DEF Building
<1>8. \A j \in Slots : j # initjob => Listable(jobtab'[j])
  BY <1>3, <1>4, Facts DEF ShapeOf
<1>9. jobtab'[initjob] = BuiltinJob
  BY <1>3 DEF BuiltinJob, s
<1>10. Shape'
  BY <1>1, <1>3, <1>4, <1>7, <1>8, <1>9 DEF Shape, ShapeOf
<1> QED
  BY <1>5, <1>6, <1>10 DEF JInv

LEMMA ForkKeeps ==
    ASSUME JInv, NEW p \in Pids, Fork(p)
    PROVE  JInv'
<1> DEFINE js == addproc(Jobs, thisjob, p)
<1>1. /\ UNCHANGED <<pending, queueing, queued, reaping, thisjob, statusVars, mainVars, disowned>>
      /\ pc \in {"build", "last"} /\ blocked' = TRUE
      /\ child' = [child EXCEPT ![p].st = "run", ![p].code = "ok"]
      /\ Len(jobtab[thisjob].procs) < MaxProcs
      /\ BecomeJobs(js)
  BY DEF Fork, MainAt
<1>2. Building /\ thisjob \in Slots /\ jobtab[thisjob] \in Job
  BY <1>1, Facts DEF Building
<1>3. /\ js \in JobsRecord /\ js.cur = curjob /\ js.prev = prevjob
      /\ js.tab[thisjob].stat = jobtab[thisjob].stat \ {"DONE"}
      /\ js.tab[thisjob].procs = Append(jobtab[thisjob].procs, [pid |-> p, st |-> "run"])
      /\ \A i \in Slots : i # thisjob => js.tab[i] = jobtab[i]
  <2>1. Jobs \in JobsRecord /\ Jobs.tab = jobtab /\ Jobs.cur = curjob /\ Jobs.prev = prevjob
    BY Facts
  <2>2. /\ js \in JobsRecord /\ js.cur = Jobs.cur /\ js.prev = Jobs.prev
        /\ js.tab[thisjob].stat = Jobs.tab[thisjob].stat \ {"DONE"}
        /\ js.tab[thisjob].procs = Append(Jobs.tab[thisjob].procs, [pid |-> p, st |-> "run"])
        /\ \A i \in Slots : i # thisjob => js.tab[i] = Jobs.tab[i]
    BY <1>2, <2>1, addprocIs
  <2> QED
    BY <2>1, <2>2
<1>4. jobtab' = js.tab
  BY <1>1 DEF BecomeJobs
<1> HIDE DEF js
<1>5. Len(js.tab[thisjob].procs) = Len(jobtab[thisjob].procs) + 1 /\ js.tab[thisjob].procs # <<>>
      /\ Len(jobtab[thisjob].procs) + 1 <= MaxProcs
  <2> DEFINE ps == jobtab[thisjob].procs
             q == [pid |-> p, st |-> "run"]
  <2>1. ps \in Seq(Proc) /\ q \in Proc
    BY <1>2 DEF Job, Proc, Statuses
  <2>2. Len(ps) < MaxProcs /\ js.tab[thisjob].procs = Append(ps, q)
    BY <1>1, <1>3
  <2> HIDE DEF ps, q
  <2>3. Len(Append(ps, q)) = Len(ps) + 1 /\ Append(ps, q) # <<>> /\ Len(ps) + 1 <= MaxProcs
    BY <2>1, <2>2, JobControlAssumption
  <2> QED
    BY <2>2, <2>3 DEF ps
<1>6. /\ "INUSE" \in js.tab[thisjob].stat /\ "LOCKED" \notin js.tab[thisjob].stat
      /\ JobOK(js.tab[thisjob])
  BY <1>2, <1>3, Facts DEF ShapeOf, JobOK
<1>7. \A j \in Slots : JobOK(js.tab[j]) /\ Len(js.tab[j].procs) <= MaxProcs
  BY <1>3, <1>5, <1>6, Facts DEF ShapeOf
<1>8. TypeOK'
  <2>1. child' \in [Pids -> [st : {"new", "run", "stop", "zombie", "gone"},
                             ev : {"none", "exit", "stop", "cont"}, code : Codes]]
    BY <1>1, JobControlAssumption DEF JInv, TypeOK
  <2>2. TypeOK
    BY DEF JInv
  <2>3. /\ jobtab' \in [Slots -> Job] /\ \A j \in Slots : Len(jobtab'[j].procs) <= MaxProcs
        /\ curjob' \in 0..NJobs /\ prevjob' \in 0..NJobs
    BY <1>1, <1>3, <1>7, <2>2, TableTypes
  <2> QED
    BY <1>1, <2>1, <2>3 DEF JInv, TypeOK, statusVars, mainVars
<1>9. Control'
  BY <1>1 DEF JInv, Control, mainVars
<1>10. Building' /\ binslot' = binslot /\ binslot = 0
  BY <1>1, <1>2, Facts DEF Building, mainVars
<1>11. \A j \in Slots : j # thisjob => Listable(js.tab[j])
  BY <1>2, <1>3, <1>10, Facts DEF ShapeOf
<1>12. Shape'
  BY <1>1, <1>2, <1>4, <1>5, <1>6, <1>7, <1>10, <1>11 DEF Shape, ShapeOf, mainVars
<1> QED
  BY <1>8, <1>9, <1>12 DEF JInv

\* spawnjob() locks the entry of the pipeline.
LEMMA spawnjobIs ==
    ASSUME JInv, thisjob \in Slots
    PROVE  /\ spawnjob \in JobsRecord
           /\ spawnjob.tab[thisjob].stat = jobtab[thisjob].stat \cup {"LOCKED"}
           /\ spawnjob.tab[thisjob].procs = jobtab[thisjob].procs
           /\ \A i \in Slots : i # thisjob => spawnjob.tab[i] = jobtab[i]
<1> DEFINE js == IF curjob = 0 \/ "STOPPED" \notin jobtab[curjob].stat
                 THEN setprevjob([Jobs EXCEPT !.cur = thisjob], thisjob)
                 ELSE IF prevjob = 0 \/ "STOPPED" \notin jobtab[prevjob].stat
                 THEN [Jobs EXCEPT !.prev = thisjob]
                 ELSE Jobs
           s == jobtab[thisjob].stat \cup {"LOCKED"}
<1>1. [Jobs EXCEPT !.cur = thisjob] \in JobsRecord /\ [Jobs EXCEPT !.cur = thisjob].tab = jobtab
  BY Facts DEF JobsRecord
<1>2. [Jobs EXCEPT !.prev = thisjob] \in JobsRecord /\ [Jobs EXCEPT !.prev = thisjob].tab = jobtab
  BY Facts DEF JobsRecord
<1>3. js \in JobsRecord /\ js.tab = jobtab
  BY <1>1, <1>2, Facts, setprevjobIs
<1>4. spawnjob = [js EXCEPT !.tab[thisjob].stat = js.tab[thisjob].stat \cup {"LOCKED"}]
  BY DEF spawnjob
<1> HIDE DEF js
<1>5. spawnjob = [js EXCEPT !.tab[thisjob].stat = s]
  BY <1>3, <1>4
<1>6. s \in SUBSET Flags
  BY Facts DEF Job, Flags
<1> HIDE DEF s
<1>7. LET r == [js EXCEPT !.tab[thisjob].stat = s]
      IN  /\ r \in JobsRecord
          /\ r.tab[thisjob].stat = s /\ r.tab[thisjob].procs = js.tab[thisjob].procs
          /\ \A i \in Slots : i # thisjob => r.tab[i] = js.tab[i]
  BY <1>3, <1>6, StatusSet
<1> QED
  BY <1>3, <1>5, <1>7 DEF s

LEMMA EndPipelineKeeps ==
    ASSUME JInv, EndPipeline, Building, NEW js \in JobsRecord, BecomeJobs(js),
           \A j \in Slots : /\ JobOK(js.tab[j]) /\ Len(js.tab[j].procs) <= MaxProcs
                            /\ Listable(js.tab[j]),
           lastval' \in Statuses \cup {"fail", "none", "trap"}, UNCHANGED <<lastval2, bgstatus_list>>,
           disowned' \subseteq Pids
    PROVE  JInv'
<1>1. /\ UNCHANGED <<kernelVars, binslot>>
      /\ thisjob' = 0 /\ pc' = "idle" /\ op' = "none" /\ target' = 0 /\ fglast' = 0
      /\ {blocked', queueing', queued', reaping'} \subseteq BOOLEAN
  BY DEF EndPipeline, Unqueue, JInv, TypeOK
<1>2. binslot = 0 /\ 0 \in 0..NJobs /\ 0 \in 0..MaxProcs
  BY Facts, JobControlAssumption
<1>3. TypeOK'
  <2>1. TypeOK
    BY DEF JInv
  <2>2. /\ jobtab' \in [Slots -> Job] /\ \A j \in Slots : Len(jobtab'[j].procs) <= MaxProcs
        /\ curjob' \in 0..NJobs /\ prevjob' \in 0..NJobs
    BY <2>1, TableTypes
  <2> QED
    BY <1>1, <1>2, <2>1, <2>2 DEF TypeOK, kernelVars, Steps, Ops
<1>4. Control'
  BY <1>1, <1>2 DEF Control, Waits, Pipes, Builtins
<1>5. ~Building' /\ jobtab' = js.tab
  BY <1>1 DEF Building, BecomeJobs
<1>6. Shape'
  BY <1>1, <1>2, <1>5 DEF Shape, ShapeOf
<1> QED
  BY <1>3, <1>4, <1>6 DEF JInv

LEMMA RunKeeps ==
    ASSUME JInv, RunInBackground \/ RunDisowned
    PROVE  JInv'
<1>1. /\ jobtab[thisjob].procs # <<>> /\ pc \in {"build", "last"} /\ EndPipeline
      /\ lastval' = "ok" /\ UNCHANGED <<lastval2, bgstatus_list>>
  BY DEF RunInBackground, RunDisowned, Complete, MainAt
<1>2. Building /\ thisjob \in Slots /\ binslot = 0
  BY <1>1, Facts DEF Building
<1>3. lastval' \in Statuses \cup {"fail", "none", "trap"}
  BY <1>1, JobControlAssumption DEF Statuses
<1>4. \A j \in Slots : /\ JobOK(jobtab[j]) /\ Len(jobtab[j].procs) <= MaxProcs
                       /\ j # thisjob => Listable(jobtab[j])
  BY <1>2, Facts DEF ShapeOf
<1>5. CASE RunInBackground
  <2>1. BecomeJobs(spawnjob) /\ disowned' = disowned
    BY <1>5 DEF RunInBackground
  <2>2. spawnjob \in JobsRecord
    BY <1>2, spawnjobIs
  <2>3. /\ spawnjob.tab[thisjob].stat = jobtab[thisjob].stat \cup {"LOCKED"}
        /\ spawnjob.tab[thisjob].procs = jobtab[thisjob].procs
    BY <1>2, spawnjobIs
  <2>4. "INUSE" \in jobtab[thisjob].stat
    BY <1>2, Facts DEF ShapeOf
  <2>5. /\ JobOK(spawnjob.tab[thisjob]) /\ Len(spawnjob.tab[thisjob].procs) <= MaxProcs
        /\ Listable(spawnjob.tab[thisjob])
    BY <1>1, <1>2, <1>4, <2>3, <2>4 DEF JobOK, Listable, Ended
  <2>6. \A i \in Slots : i # thisjob => spawnjob.tab[i] = jobtab[i]
    BY <1>2, spawnjobIs
  <2>7. \A j \in Slots : /\ JobOK(spawnjob.tab[j]) /\ Len(spawnjob.tab[j].procs) <= MaxProcs
                         /\ Listable(spawnjob.tab[j])
    BY <1>4, <2>5, <2>6
  <2>8. disowned' \subseteq Pids
    BY <2>1 DEF JInv, TypeOK
  <2> QED
    BY <1>1, <1>2, <1>3, <2>1, <2>2, <2>7, <2>8, EndPipelineKeeps
<1>6. CASE RunDisowned
  <2> DEFINE js == deletejob(Jobs, thisjob)
  <2>1. BecomeJobs(js) /\ disowned' = disowned \cup {q.pid : q \in ToSet(jobtab[thisjob].procs)}
    BY <1>6 DEF RunDisowned
  <2>2. js \in JobsRecord /\ js.tab[thisjob] = FreeJob
        /\ \A i \in Slots : i # thisjob => js.tab[i] = jobtab[i]
    BY <1>2, Facts, deletejobIs
  <2>3. JobOK(FreeJob) /\ Listable(FreeJob) /\ Len(FreeJob.procs) <= MaxProcs
    BY JobControlAssumption DEF FreeJob, JobOK, Listable
  <2> HIDE DEF js
  <2>4. \A j \in Slots : /\ JobOK(js.tab[j]) /\ Len(js.tab[j].procs) <= MaxProcs
                         /\ Listable(js.tab[j])
    BY <1>4, <2>2, <2>3
  <2>5. disowned' \subseteq Pids
    <3>1. jobtab[thisjob] \in Job
      BY <1>2, Facts
    <3>2. \A q \in ToSet(jobtab[thisjob].procs) : q.pid \in Pids
      BY <3>1, ProcsIs DEF Proc
    <3> QED
      BY <2>1, <3>2 DEF JInv, TypeOK
  <2> QED
    BY <1>1, <1>2, <1>3, <2>1, <2>2, <2>4, <2>5, EndPipelineKeeps
<1> QED
  BY <1>5, <1>6

\* A process of an entry is given a status.
LEMMA RecordIs ==
    ASSUME NEW js \in JobsRecord, NEW j \in Slots, NEW k \in 1..Len(js.tab[j].procs),
           NEW st \in Statuses
    PROVE  LET r == [js EXCEPT !.tab[j].procs[k].st = st]
           IN  /\ r \in JobsRecord /\ r.cur = js.cur /\ r.prev = js.prev
               /\ r.tab[j].stat = js.tab[j].stat
               /\ Len(r.tab[j].procs) = Len(js.tab[j].procs)
               /\ \A i \in 1..Len(js.tab[j].procs) :
                     r.tab[j].procs[i] = IF i = k THEN [pid |-> js.tab[j].procs[k].pid, st |-> st]
                                         ELSE js.tab[j].procs[i]
               /\ \A i \in Slots : i # j => r.tab[i] = js.tab[i]
<1> DEFINE r == [js EXCEPT !.tab[j].procs[k].st = st]
           a == js.tab[j]
           q == [pid |-> a.procs[k].pid, st |-> st]
           ps == [a.procs EXCEPT ![k] = q]
           b == [a EXCEPT !.procs = ps]
<1>1. a \in Job /\ js.tab \in [Slots -> Job] /\ a.procs \in Seq(Proc) /\ a.procs[k] \in Proc
  BY ProcsIs DEF JobsRecord, Table
<1>2. [a.procs[k] EXCEPT !.st = st] = q /\ q \in Proc
  BY <1>1 DEF Proc
<1> HIDE DEF q
<1>3. ps \in Seq(Proc) /\ Len(ps) = Len(a.procs)
      /\ \A i \in 1..Len(a.procs) : ps[i] = IF i = k THEN q ELSE a.procs[i]
  BY <1>1, <1>2
<1>4. [a.procs EXCEPT ![k].st = st] = ps
  BY <1>1, <1>2
<1> HIDE DEF ps
<1>5. b \in Job /\ b.stat = a.stat /\ b.procs = ps
  BY <1>1, <1>3 DEF Job
<1>6. r = [js EXCEPT !.tab = [js.tab EXCEPT ![j] = b]]
  BY <1>1, <1>4 DEF Job, JobsRecord, Table
<1> HIDE DEF b
<1>7. r \in JobsRecord /\ r.cur = js.cur /\ r.prev = js.prev /\ r.tab = [js.tab EXCEPT ![j] = b]
  BY <1>1, <1>5, <1>6 DEF JobsRecord, Table
<1>8. r.tab[j] = b /\ \A i \in Slots : i # j => r.tab[i] = js.tab[i]
  BY <1>1, <1>7
<1> HIDE DEF r
<1> QED
  BY <1>3, <1>5, <1>7, <1>8 DEF r, q

\* A status is added to the list, and the oldest one may leave it.
LEMMA addbgstatusIs ==
    ASSUME NEW list \in Seq(Bg), Len(list) <= ChildMax, NEW p \in Pids, NEW st \in Codes
    PROVE  LET r == addbgstatus(list, p, st)
           IN  /\ r \in Seq(Bg) /\ Len(r) <= ChildMax
               /\ r[Len(r)] = [pid |-> p, status |-> st]
               /\ \E d \in {0, 1} : /\ Len(r) = Len(list) + 1 - d
                                    /\ \A i \in 1..(Len(r) - 1) : i + d \in 1..Len(list) /\ r[i] = list[i + d]
<1> DEFINE kept == IF Len(list) = ChildMax THEN Tail(list) ELSE list
           b == [pid |-> p, status |-> st]
           r == addbgstatus(list, p, st)
<1>1. ChildMax \in Nat /\ ChildMax > 0 /\ b \in Bg /\ Len(list) \in Nat
  BY JobControlAssumption DEF Bg
<1>2. r = Append(kept, b)
  BY DEF addbgstatus
<1> HIDE DEF b, r
<1>3. CASE Len(list) = ChildMax
  <2>1. /\ Tail(list) \in Seq(Bg) /\ Len(Tail(list)) = Len(list) - 1
        /\ \A i \in 1..(Len(list) - 1) : Tail(list)[i] = list[i + 1]
    <3>1. list # <<>>
      BY <1>1, <1>3
    <3> QED
      BY <3>1, HeadTailProperties
  <2> DEFINE t == Tail(list)
  <2>2. r = Append(t, b) /\ t \in Seq(Bg)
    BY <1>2, <1>3, <2>1
  <2>3. Len(t) = Len(list) - 1 /\ \A i \in 1..(Len(list) - 1) : t[i] = list[i + 1]
    BY <2>1
  <2> HIDE DEF t
  <2>4. /\ r \in Seq(Bg) /\ Len(r) = Len(t) + 1 /\ r[Len(t) + 1] = b
        /\ \A i \in 1..Len(t) : r[i] = t[i]
    BY <1>1, <2>2
  <2>5. Len(r) = Len(list) + 1 - 1 /\ Len(r) <= ChildMax
    BY <1>1, <2>3, <2>4
  <2>6. \A i \in 1..(Len(r) - 1) : i + 1 \in 1..Len(list) /\ r[i] = list[i + 1]
    BY <1>1, <2>3, <2>4
  <2> QED
    BY <2>3, <2>4, <2>5, <2>6 DEF r, b
<1>4. CASE Len(list) # ChildMax
  <2>1. r = Append(list, b)
    BY <1>2, <1>4
  <2>2. /\ r \in Seq(Bg) /\ Len(r) = Len(list) + 1 /\ r[Len(list) + 1] = b
        /\ \A i \in 1..Len(list) : r[i] = list[i]
    BY <1>1, <2>1
  <2>3. Len(r) = Len(list) + 1 - 0 /\ Len(r) <= ChildMax
    BY <1>1, <1>4, <2>2
  <2>4. \A i \in 1..(Len(r) - 1) : i + 0 \in 1..Len(list) /\ r[i] = list[i + 0]
    BY <1>1, <2>2
  <2> QED
    BY <2>2, <2>3, <2>4 DEF r, b
<1> QED
  BY <1>3, <1>4

\* A job of a table that is not held is made running.
LEMMA RunningShape ==
    ASSUME NEW js \in JobsRecord, NEW j \in Slots, NEW this, NEW own \in 0..NJobs,
           ShapeOf(js.tab, this, own, FALSE), j # own
    PROVE  ShapeOf(makerunning(js, j).tab, this, own, FALSE)
<1> DEFINE r == makerunning(js, j)
           a == js.tab[j]
           b == r.tab[j]
<1>1. /\ r \in JobsRecord
      /\ b.stat = a.stat \ {"STOPPED"} /\ Len(b.procs) = Len(a.procs)
      /\ \A i \in 1..Len(a.procs) : b.procs[i] = Resume(a.procs[i])
      /\ \A i \in Slots : i # j => r.tab[i] = js.tab[i]
  BY makerunningIs
<1>2. a \in Job /\ b \in Job
  BY <1>1 DEF JobsRecord, Table
<1>3. JobOK(a) /\ Len(a.procs) <= MaxProcs /\ Listable(a)
  BY DEF ShapeOf
<1> HIDE DEF a, b, r
<1>4. a.procs \in Seq(Proc) /\ b.procs \in Seq(Proc)
  BY <1>2 DEF Job
<1>5. a.procs = <<>> <=> b.procs = <<>>
  BY <1>1, <1>4
<1>6. Ended(a) => Ended(b)
  <2>1. SUFFICES ASSUME Ended(a), NEW i \in 1..Len(a.procs) PROVE Terminated(b.procs[i].st)
    BY <1>1, <1>4 DEF Ended
  <2>2. Terminated(a.procs[i].st)
    BY <1>4, <2>1 DEF Ended
  <2>3. b.procs[i] = a.procs[i]
    BY <1>1, <2>1, <2>2, JobControlAssumption DEF Resume, Terminated
  <2> QED
    BY <2>2, <2>3
<1>7. JobOK(b) /\ Listable(b) /\ Len(b.procs) <= MaxProcs
  BY <1>1, <1>3, <1>5, <1>6 DEF JobOK, Listable
<1>8. own # 0 => own \in Slots
  BY JobControlAssumption DEF Slots
<1> QED
  BY <1>1, <1>7, <1>8 DEF ShapeOf, b, r

\* A step of a builtin that leaves it at the table js.
LEMMA TableKeeps ==
    ASSUME JInv, ~Building, ~Building', NEW js \in JobsRecord, BecomeJobs(js),
           ShapeOf(js.tab, thisjob, binslot, FALSE), binslot' = binslot
    PROVE  /\ Shape' /\ jobtab' \in [Slots -> Job] /\ \A j \in Slots : Len(jobtab'[j].procs) <= MaxProcs
           /\ curjob' \in 0..NJobs /\ prevjob' \in 0..NJobs
<1>1. jobtab' = js.tab /\ TypeOK
  BY DEF BecomeJobs, JInv
<1>2. \A j \in Slots : Len(js.tab[j].procs) <= MaxProcs
  BY DEF ShapeOf
<1>3. Shape'
  BY <1>1 DEF Shape, ShapeOf
<1> QED
  BY <1>1, <1>2, <1>3, TableTypes

\* An entry is deleted.
OthersOK(tab, j, own) ==
    /\ \A i \in Slots : i # j => /\ JobOK(tab[i]) /\ Len(tab[i].procs) <= MaxProcs
                                 /\ i = own \/ Listable(tab[i])
    /\ own # 0 => own \in Slots /\ own # j /\ tab[own] = BuiltinJob

LEMMA DeletedShape ==
    ASSUME NEW tab, NEW own, NEW j \in Slots, OthersOK(tab, j, own), NEW u, u[j] = FreeJob,
           \A i \in Slots : i # j => u[i] = tab[i], NEW this
    PROVE  ShapeOf(u, this, own, FALSE)
<1>1. JobOK(FreeJob) /\ Listable(FreeJob) /\ Len(FreeJob.procs) <= MaxProcs
  BY JobControlAssumption DEF FreeJob, JobOK, Listable
<1>2. ASSUME NEW i \in Slots
      PROVE  JobOK(u[i]) /\ Len(u[i].procs) <= MaxProcs /\ (i = own \/ Listable(u[i]))
  <2>1. CASE i = j
    BY <1>1, <2>1
  <2>2. CASE i # j
    BY <2>2 DEF OthersOK
  <2> QED
    BY <2>1, <2>2
<1>3. own # 0 => u[own] = BuiltinJob
  BY DEF OthersOK
<1> QED
  BY <1>2, <1>3 DEF ShapeOf

LEMMA FreeShape == ASSUME JInv, ~Building PROVE ShapeOf(jobtab, thisjob, binslot, FALSE)
BY Facts DEF ShapeOf

LEMMA EnterWaitKeeps ==
    ASSUME JInv, EnterWait
    PROVE  JInv'
<1>1. /\ UNCHANGED <<kernelVars, signalVars, thisjob, statusVars, op, target, fglast, binslot, disowned>>
      /\ pc = "enter" /\ pc' \in {"test", "after"} /\ ~Building'
  BY DEF EnterWait, MainAt, Building
<1>2. Control'
  BY <1>1 DEF JInv, Control, Waits, signalVars
<1>3. ASSUME jobtab' \in [Slots -> Job], \A j \in Slots : Len(jobtab'[j].procs) <= MaxProcs,
             curjob' \in 0..NJobs, prevjob' \in 0..NJobs
      PROVE  TypeOK'
  BY <1>1, <1>3 DEF JInv, TypeOK, kernelVars, signalVars, statusVars, Steps
<1>4. CASE op = "wait_pid"
  <2>1. UNCHANGED jobVars /\ ~Building
    BY <1>1, <1>4 DEF EnterWait, Building
  <2>2. Shape'
    BY <1>1, <2>1, ShapeStays DEF jobVars
  <2> QED
    BY <1>2, <1>3, <2>1, <2>2 DEF JInv, TypeOK, jobVars
<1>5. CASE op # "wait_pid"
  <2>1. target \in Slots /\ (binslot # 0 => target # binslot) /\ (Building => target = thisjob /\ binslot = 0)
    BY <1>1, <1>5, Facts DEF JInv, Control, Building, Waits, Pipes, Builtins
  <2>2. JobOK(jobtab[target]) /\ jobtab[target] \in Job /\ Len(jobtab[target].procs) <= MaxProcs
    BY <2>1, Facts DEF ShapeOf
  <2>3. ASSUME NEW js \in JobsRecord, BecomeJobs(js), ShapeOf(js.tab, thisjob, binslot, FALSE)
        PROVE  JInv'
    <3>1. jobtab' = js.tab /\ TypeOK
      BY <2>3 DEF BecomeJobs, JInv
    <3>2. Shape'
      BY <1>1, <2>3, <3>1 DEF Shape, ShapeOf
    <3>3. \A j \in Slots : Len(js.tab[j].procs) <= MaxProcs
      BY <2>3 DEF ShapeOf
    <3>4. /\ jobtab' \in [Slots -> Job] /\ \A j \in Slots : Len(jobtab'[j].procs) <= MaxProcs
          /\ curjob' \in 0..NJobs /\ prevjob' \in 0..NJobs
      BY <2>3, <3>1, <3>3, TableTypes
    <3> QED
      BY <1>2, <1>3, <3>2, <3>4 DEF JInv
  <2>4. CASE HasProcs(jobtab, target)
    <3> DEFINE s == jobtab[target].stat \cup {"LOCKED"}
               js == [Jobs EXCEPT !.tab[target].stat = s]
               r == IF "CHANGED" \in jobtab[target].stat THEN printjob(js, target, thisjob) ELSE js
    <3>1. BecomeJobs(r)
      <4>1. [Jobs EXCEPT !.tab[target].stat = @ \cup {"LOCKED"}] = js
        BY Facts
      <4> QED
        BY <1>5, <2>4, <4>1 DEF EnterWait
    <3>2. s \in SUBSET Flags
      BY <2>2 DEF Job, Flags
    <3> HIDE DEF s
    <3>3. /\ js \in JobsRecord
          /\ js.tab[target].stat = s /\ js.tab[target].procs = jobtab[target].procs
          /\ \A i \in Slots : i # target => js.tab[i] = jobtab[i]
      BY <2>1, <3>2, Facts, StatusSet
    <3> HIDE DEF js
    <3>4. JobOK(js.tab[target]) /\ Listable(js.tab[target]) /\ Len(js.tab[target].procs) <= MaxProcs
      <4>1. "INUSE" \in jobtab[target].stat
        BY <2>2, <2>4 DEF JobOK, HasProcs
      <4>2. "DONE" \in js.tab[target].stat => "DONE" \in jobtab[target].stat
        BY <3>3 DEF s
      <4>3. "INUSE" \in js.tab[target].stat /\ "LOCKED" \in js.tab[target].stat
            /\ ("CHANGED" \in jobtab[target].stat => "CHANGED" \in js.tab[target].stat)
        BY <3>3, <4>1 DEF s
      <4> QED
        BY <2>2, <2>4, <3>3, <4>2, <4>3 DEF JobOK, Listable, Ended, HasProcs
    <3>5. r \in JobsRecord /\ Kept(js.tab[target], r.tab[target])
          /\ \A i \in Slots : i # target => r.tab[i] = js.tab[i]
      BY <2>1, <3>3, printjobIs DEF Kept
    <3> HIDE DEF r
    <3>6. JobOK(r.tab[target]) /\ Listable(r.tab[target]) /\ Len(r.tab[target].procs) <= MaxProcs
      <4>1. js.tab[target] \in Job /\ r.tab[target] \in Job
        BY <2>1, <3>3, <3>5 DEF JobsRecord, Table
      <4> QED
        BY <3>4, <3>5, <4>1, TidyJob
    <3>7. ShapeOf(r.tab, thisjob, binslot, FALSE)
      <4>1. \A i \in Slots : i # target => r.tab[i] = jobtab[i]
        BY <3>3, <3>5
      <4> QED
        BY <2>1, <3>6, <4>1, Facts DEF ShapeOf
    <3> QED
      BY <2>3, <3>1, <3>5, <3>7
  <2>5. CASE ~HasProcs(jobtab, target)
    <3> DEFINE r == deletejob(Jobs, target)
    <3>1. BecomeJobs(r)
      BY <1>5, <2>5 DEF EnterWait
    <3>2. r \in JobsRecord /\ r.tab[target] = FreeJob
          /\ \A i \in Slots : i # target => r.tab[i] = jobtab[i]
      BY <2>1, Facts, deletejobIs
    <3> HIDE DEF r
    <3>3. OthersOK(jobtab, target, binslot)
      BY <2>1, Facts DEF ShapeOf, OthersOK
    <3>5. ShapeOf(r.tab, thisjob, binslot, FALSE)
      BY <2>1, <3>2, <3>3, DeletedShape
    <3> QED
      BY <2>3, <3>1, <3>2, <3>5
  <2> QED
    BY <2>4, <2>5
<1> QED
  BY <1>4, <1>5

\* The jobs that have changed are printed.
LEMMA PrintsKeep ==
    ASSUME JInv, preprompt \/ BuiltinReady \/ jobs
    PROVE  JInv'
<1>1. /\ UNCHANGED <<kernelVars, signalVars, thisjob, lastval2, bgstatus_list, op, target, fglast,
                     binslot, disowned>>
      /\ <<pc, pc'>> \in {<<"idle", "idle">>, <<"bin_reap", "bin">>, <<"bin", "bin_end">>}
      /\ ~reaping /\ lastval' \in {lastval, "ok"}
  BY DEF preprompt, BuiltinReady, jobs, MainAt, mainVars, statusVars, Finish
<1>2. ~Building /\ ~Building'
  BY <1>1 DEF Building
<1>3. ShapeOf(jobtab, thisjob, binslot, FALSE) /\ binslot \in 0..NJobs
  BY <1>2, Facts, FreeShape
<1>4. PICK js \in JobsRecord : BecomeJobs(js) /\ Tidied(jobtab, js.tab)
  <2>1. Tidied(jobtab, jobtab)
    BY DEF Tidied, Kept
  <2>2. CASE preprompt
    <3>1. BecomeJobs(printjobs(Jobs, thisjob, FALSE))
      BY <2>2 DEF preprompt, scanjobs
    <3> QED
      BY <3>1, Facts, scanjobsIs
  <2>3. CASE jobs
    <3>1. BecomeJobs(printjobs(Jobs, thisjob, TRUE))
      BY <2>3 DEF jobs
    <3> QED
      BY <3>1, Facts, scanjobsIs
  <2>4. CASE BuiltinReady
    <3> DEFINE js == IF NOTIFY THEN Jobs ELSE printjobs(Jobs, thisjob, FALSE)
    <3>1. BecomeJobs(setcurjob(js, thisjob))
      BY <2>4 DEF BuiltinReady, scanjobs
    <3>2. js \in JobsRecord /\ Tidied(jobtab, js.tab)
      BY <2>1, Facts, scanjobsIs
    <3> HIDE DEF js
    <3>3. setcurjob(js, thisjob) \in JobsRecord /\ setcurjob(js, thisjob).tab = js.tab
      BY <3>2, setcurjobIs
    <3> QED
      BY <3>1, <3>2, <3>3
  <2> QED
    BY <2>2, <2>3, <2>4
<1>5. ShapeOf(js.tab, thisjob, binslot, FALSE)
  <2>1. js.tab \in Table /\ jobtab \in Table
    BY <1>4, Facts DEF JobsRecord
  <2> QED
    BY <1>3, <1>4, <2>1, TidyShape
<1>6. /\ Shape' /\ jobtab' \in [Slots -> Job] /\ \A j \in Slots : Len(jobtab'[j].procs) <= MaxProcs
      /\ curjob' \in 0..NJobs /\ prevjob' \in 0..NJobs
  BY <1>1, <1>2, <1>4, <1>5, TableKeeps
<1>7. lastval' \in Statuses \cup {"fail", "none", "trap"}
  BY <1>1, JobControlAssumption DEF JInv, TypeOK, Statuses
<1>8. TypeOK'
  BY <1>1, <1>6, <1>7 DEF JInv, TypeOK, kernelVars, signalVars, Steps
<1>9. Control'
  BY <1>1 DEF JInv, Control, signalVars, Waits, Pipes, Builtins
<1> QED
  BY <1>6, <1>8, <1>9 DEF JInv

LEMMA disownKeeps ==
    ASSUME JInv, NEW j \in Named, disown(j)
    PROVE  JInv'
<1> DEFINE js == deletejob(Jobs, j)
<1>1. /\ UNCHANGED <<kernelVars, signalVars, thisjob, lastval2, bgstatus_list, op, target, fglast, binslot>>
      /\ pc = "bin" /\ pc' = "bin_end" /\ lastval' = "ok" /\ BecomeJobs(js)
      /\ disowned' = disowned \cup {q.pid : q \in {r \in ToSet(jobtab[j].procs) : ~Terminated(r.st)}}
  BY DEF disown, MainAt, Finish
<1>2. ~Building /\ ~Building' /\ thisjob = binslot
  BY <1>1 DEF Building, JInv, Control, Builtins
<1>3. j \in Slots /\ j # binslot /\ jobtab[j] \in Job
  BY <1>2, NamedIs, Facts
<1>4. js \in JobsRecord /\ js.tab[j] = FreeJob
      /\ \A i \in Slots : i # j => js.tab[i] = jobtab[i]
  BY <1>3, Facts, deletejobIs
<1> HIDE DEF js
<1>6. ShapeOf(js.tab, thisjob, binslot, FALSE)
  <2>1. OthersOK(jobtab, j, binslot)
    BY <1>2, <1>3, Facts, FreeShape DEF ShapeOf, OthersOK
  <2> QED
    BY <1>3, <1>4, <2>1, DeletedShape
<1>7. /\ Shape' /\ jobtab' \in [Slots -> Job] /\ \A i \in Slots : Len(jobtab'[i].procs) <= MaxProcs
      /\ curjob' \in 0..NJobs /\ prevjob' \in 0..NJobs
  BY <1>1, <1>2, <1>4, <1>6, TableKeeps
<1>8. lastval' \in Statuses \cup {"fail", "none", "trap"}
  BY <1>1, JobControlAssumption DEF Statuses
<1>9. disowned' \subseteq Pids
  <2>1. \A q \in ToSet(jobtab[j].procs) : q.pid \in Pids
    BY <1>3, ProcsIs DEF Proc
  <2> QED
    BY <1>1, <2>1 DEF JInv, TypeOK
<1>10. TypeOK'
  BY <1>1, <1>7, <1>8, <1>9 DEF JInv, TypeOK, kernelVars, signalVars, Steps
<1>11. Control'
  BY <1>1 DEF JInv, Control, signalVars, Waits, Pipes, Builtins
<1> QED
  BY <1>7, <1>10, <1>11 DEF JInv

LEMMA BuiltinExitKeeps ==
    ASSUME JInv, BuiltinExit
    PROVE  JInv'
<1> DEFINE js == deletejob(Jobs, binslot)
<1>1. /\ UNCHANGED <<kernelVars, queueing, queued, reaping, statusVars, disowned>>
      /\ thisjob' = 0 /\ binslot' = 0 /\ blocked' = FALSE /\ pc' = "idle" /\ op' = "none"
      /\ target' = 0 /\ fglast' = 0 /\ pc = "bin_exit" /\ BecomeJobs(js)
  BY DEF BuiltinExit, MainAt
<1>2. ~Building /\ ~Building' /\ binslot # 0 /\ 0 \in 0..NJobs /\ 0 \in 0..MaxProcs
  BY <1>1, JobControlAssumption DEF Building, JInv, Control
<1>3. binslot \in Slots
  BY <1>2, Facts
<1>4. js \in JobsRecord /\ js.tab[binslot] = FreeJob
      /\ \A i \in Slots : i # binslot => js.tab[i] = jobtab[i]
  BY <1>3, Facts, deletejobIs
<1> HIDE DEF js
<1>6. ShapeOf(js.tab, 0, 0, FALSE)
  <2>1. OthersOK(jobtab, binslot, 0)
    BY <1>2, <1>3, Facts, FreeShape DEF ShapeOf, OthersOK
  <2> QED
    BY <1>3, <1>4, <2>1, DeletedShape
<1>7. /\ jobtab' \in [Slots -> Job] /\ \A i \in Slots : Len(jobtab'[i].procs) <= MaxProcs
      /\ curjob' \in 0..NJobs /\ prevjob' \in 0..NJobs
  <2>1. TypeOK /\ \A j \in Slots : Len(js.tab[j].procs) <= MaxProcs
    BY <1>6 DEF JInv, ShapeOf
  <2> QED
    BY <1>1, <1>4, <2>1, TableTypes
<1>8. TypeOK'
  BY <1>1, <1>2, <1>7 DEF JInv, TypeOK, kernelVars, statusVars, Steps, Ops
<1>9. Control'
  BY <1>1 DEF Control, Waits, Pipes, Builtins
<1>10. Shape'
  BY <1>1, <1>2, <1>6 DEF Shape, ShapeOf, BecomeJobs
<1> QED
  BY <1>8, <1>9, <1>10 DEF JInv

\* A job that is stopped is continued.
LEMMA ContinueIs ==
    ASSUME TypeOK, NEW j \in Slots, ContinueIfStopped(j)
    PROVE  /\ child' \in [Pids -> [st : {"new", "run", "stop", "zombie", "gone"},
                             ev : {"none", "exit", "stop", "cont"}, code : Codes]]
           /\ pending' \in BOOLEAN
<1>1. CASE UNCHANGED kernelVars
  BY <1>1 DEF TypeOK, kernelVars
<1>2. CASE killjb(j)
  <2>1. PICK ps : child' = Continued(ps) /\ pending' = (pending \/ Continued(ps) # child)
    BY <1>2 DEF killjb
  <2>2. child' = [p \in Pids |-> IF p \in ps /\ child[p].st = "stop"
                                 THEN [child[p] EXCEPT !.st = "run", !.ev = "cont"] ELSE child[p]]
    BY <2>1 DEF Continued
  <2>3. pending' \in BOOLEAN
    BY <2>1 DEF TypeOK
  <2> QED
    BY <2>2, <2>3 DEF TypeOK
<1> QED
  BY <1>1, <1>2 DEF ContinueIfStopped

\* A job that fg, bg or wait takes up.
LEMMA ResumedIs ==
    ASSUME JInv, ~Building, NEW j \in Slots, j # binslot, NEW func
    PROVE  LET r == Resumed(j, func)
           IN  /\ r \in JobsRecord
               /\ r.tab = IF "STOPPED" \in jobtab[j].stat THEN makerunning(Jobs, j).tab ELSE jobtab
               /\ ShapeOf(r.tab, thisjob, binslot, FALSE)
<1> DEFINE js == IF "STOPPED" \in jobtab[j].stat THEN makerunning(Jobs, j) ELSE Jobs
<1>1. Jobs \in JobsRecord /\ Jobs.tab = jobtab /\ ShapeOf(Jobs.tab, thisjob, binslot, FALSE)
      /\ binslot \in 0..NJobs
  BY Facts, FreeShape
<1>2. makerunning(Jobs, j) \in JobsRecord
  BY <1>1, makerunningIs
<1>3. ShapeOf(makerunning(Jobs, j).tab, thisjob, binslot, FALSE)
  BY <1>1, RunningShape
<1>4. js \in JobsRecord /\ ShapeOf(js.tab, thisjob, binslot, FALSE)
      /\ js.tab = IF "STOPPED" \in jobtab[j].stat THEN makerunning(Jobs, j).tab ELSE jobtab
  BY <1>1, <1>2, <1>3
<1>5. Resumed(j, func) = shuffle(js, j, func)
  BY DEF Resumed
<1> HIDE DEF js
<1>6. shuffle(js, j, func) \in JobsRecord /\ shuffle(js, j, func).tab = js.tab
  BY <1>4, shuffleIs
<1> QED
  BY <1>4, <1>5, <1>6

LEMMA PrintedShape ==
    ASSUME NEW js \in JobsRecord, NEW j \in Slots, NEW this, NEW that, NEW own \in 0..NJobs,
           ShapeOf(js.tab, that, own, FALSE)
    PROVE  printjob(js, j, this) \in JobsRecord /\ ShapeOf(printjob(js, j, this).tab, that, own, FALSE)
<1> DEFINE r == printjob(js, j, this)
<1>1. r \in JobsRecord /\ Kept(js.tab[j], r.tab[j]) /\ \A i \in Slots : i # j => r.tab[i] = js.tab[i]
  BY printjobIs
<1> HIDE DEF r
<1>2. Tidied(js.tab, r.tab) /\ js.tab \in Table /\ r.tab \in Table
  BY <1>1 DEF Tidied, Kept, JobsRecord
<1>3. ShapeOf(r.tab, that, own, FALSE)
  BY <1>2, TidyShape
<1> QED
  BY <1>1, <1>3 DEF r

\* fg and wait, with a job or a process.
LEMMA ResumeKeeps ==
    ASSUME JInv, NEW j \in Named, fg(j) \/ wait(j)
    PROVE  JInv'
<1>2. fg(j) \/ wait(j)
  OBVIOUS
<1> DEFINE last == Last(jobtab[j].procs).pid
<1>3. /\ pc = "bin" /\ ContinueIfStopped(j) /\ UNCHANGED <<statusVars, binslot, disowned>>
      /\ BeginWait(j, last) /\ op' \in {"fg", "wait"} /\ thisjob' = IF op' = "fg" THEN j ELSE thisjob
  BY <1>2 DEF fg, wait, MainAt
<1>4. ~Building /\ thisjob = binslot /\ op \in Builtins /\ op # "sync"
  BY <1>3 DEF Building, JInv, Control, Builtins
<1>5. j \in Slots /\ j # binslot /\ last \in Pids /\ j \in 0..NJobs
  BY <1>4, NamedIs, Facts
<1> HIDE DEF last
<1>6. PICK js \in JobsRecord : BecomeJobs(js) /\ ShapeOf(js.tab, thisjob, binslot, FALSE)
  <2>1. \A func : Resumed(j, func) \in JobsRecord /\ ShapeOf(Resumed(j, func).tab, thisjob, binslot, FALSE)
    BY <1>4, <1>5, ResumedIs
  <2>2. CASE wait(j)
    BY <2>1, <2>2 DEF wait
  <2>3. CASE fg(j)
    <3> DEFINE r == Resumed(j, "fg")
    <3>1. BecomeJobs(printjob(r, j, thisjob))
      BY <2>3 DEF fg
    <3>2. r \in JobsRecord /\ ShapeOf(r.tab, thisjob, binslot, FALSE) /\ binslot \in 0..NJobs
      BY <2>1, Facts
    <3> HIDE DEF r
    <3>3. printjob(r, j, thisjob) \in JobsRecord
          /\ ShapeOf(printjob(r, j, thisjob).tab, thisjob, binslot, FALSE)
      BY <1>5, <3>2, PrintedShape
    <3> QED
      BY <3>1, <3>3
  <2> QED
    BY <1>2, <2>2, <2>3
<1>7. /\ Control' /\ {blocked', queueing', queued', reaping'} \subseteq BOOLEAN
      /\ pc' \in Steps /\ op' \in Ops /\ target' \in 0..NJobs /\ thisjob' \in 0..NJobs
      /\ fglast' \in Pids \cup 0..MaxProcs /\ ~Building'
  <2>1. /\ op' \in {"sync", "fg", "wait", "wait_all", "wait_pid"} /\ last \in Pids \cup 0..MaxProcs
        /\ op' # "sync" /\ op' # "wait_pid" /\ op' \in Builtins
        /\ thisjob' = IF op' = "fg" THEN j ELSE binslot
    BY <1>3, <1>4, <1>5 DEF Builtins
  <2> QED
    BY <1>3, <1>4, <1>5, <2>1, BeginWaitKeeps
<1>8. /\ Shape' /\ jobtab' \in [Slots -> Job] /\ \A i \in Slots : Len(jobtab'[i].procs) <= MaxProcs
      /\ curjob' \in 0..NJobs /\ prevjob' \in 0..NJobs
  BY <1>3, <1>4, <1>6, <1>7, TableKeeps
<1>9. TypeOK'
  <2>1. TypeOK
    BY DEF JInv
  <2>2. /\ child' \in [Pids -> [st : {"new", "run", "stop", "zombie", "gone"},
                             ev : {"none", "exit", "stop", "cont"}, code : Codes]]
        /\ pending' \in BOOLEAN
    BY <1>3, <1>5, <2>1, ContinueIs
  <2> QED
    BY <1>3, <1>7, <1>8, <2>1, <2>2 DEF TypeOK, statusVars
<1> QED
  BY <1>7, <1>8, <1>9 DEF JInv

LEMMA bgKeeps ==
    ASSUME JInv, NEW j \in Named, bg(j)
    PROVE  JInv'
<1>1. /\ UNCHANGED <<signalVars, thisjob, lastval2, bgstatus_list, op, target, fglast, binslot, disowned>>
      /\ pc = "bin" /\ pc' = "bin_end" /\ lastval' \in {"ok", "fail"} /\ ContinueIfStopped(j)
  BY DEF bg, MainAt, Finish
<1>2. ~Building /\ ~Building' /\ thisjob = binslot
  BY <1>1 DEF Building, JInv, Control, Builtins
<1>3. j \in Slots /\ j # binslot
  BY <1>2, NamedIs
<1>4. PICK js \in JobsRecord : BecomeJobs(js) /\ ShapeOf(js.tab, thisjob, binslot, FALSE)
  <2>1. CASE "STOPPED" \in jobtab[j].stat
    <3> DEFINE r == Resumed(j, "bg")
    <3>1. BecomeJobs(printjob(r, j, thisjob))
      BY <2>1 DEF bg
    <3>2. r \in JobsRecord /\ ShapeOf(r.tab, thisjob, binslot, FALSE) /\ binslot \in 0..NJobs
      BY <1>2, <1>3, ResumedIs, Facts
    <3> HIDE DEF r
    <3>3. printjob(r, j, thisjob) \in JobsRecord
          /\ ShapeOf(printjob(r, j, thisjob).tab, thisjob, binslot, FALSE)
      BY <1>3, <3>2, PrintedShape
    <3> QED
      BY <3>1, <3>3
  <2>2. CASE "STOPPED" \notin jobtab[j].stat
    <3>1. UNCHANGED jobVars
      BY <2>2 DEF bg
    <3>2. BecomeJobs(Jobs)
      BY <3>1, Facts DEF BecomeJobs, jobVars
    <3> QED
      BY <1>2, <3>2, Facts, FreeShape
  <2> QED
    BY <2>1, <2>2
<1>5. /\ Shape' /\ jobtab' \in [Slots -> Job] /\ \A i \in Slots : Len(jobtab'[i].procs) <= MaxProcs
      /\ curjob' \in 0..NJobs /\ prevjob' \in 0..NJobs
  BY <1>1, <1>2, <1>4, TableKeeps
<1>6. TypeOK'
  <2>1. TypeOK
    BY DEF JInv
  <2>2. /\ child' \in [Pids -> [st : {"new", "run", "stop", "zombie", "gone"},
                             ev : {"none", "exit", "stop", "cont"}, code : Codes]]
        /\ pending' \in BOOLEAN
    BY <1>1, <1>3, <2>1, ContinueIs
  <2>3. lastval' \in Statuses \cup {"fail", "none", "trap"}
    BY <1>1, JobControlAssumption DEF Statuses
  <2> QED
    BY <1>1, <1>5, <2>1, <2>2, <2>3 DEF TypeOK, signalVars, Steps
<1>7. Control'
  BY <1>1 DEF JInv, Control, signalVars, Waits, Pipes, Builtins
<1> QED
  BY <1>5, <1>6, <1>7 DEF JInv

LEMMA wait_pidKeeps ==
    ASSUME JInv, NEW p \in Pids, wait_pid(p)
    PROVE  JInv'
<1>1. pc = "bin" /\ UNCHANGED <<thisjob, lastval2, binslot, disowned>> /\ ~reaping
  BY DEF wait_pid, MainAt
<1>2. ~Building /\ thisjob = binslot /\ op \in Builtins /\ op # "sync"
  BY <1>1 DEF Building, JInv, Control, Builtins
<1>3. CASE Entries(jobtab, p) # {}
  <2> DEFINE j == findproc(jobtab, p)[1]
  <2>1. /\ ContinueIfStopped(j) /\ op' = "wait_pid" /\ BeginWait(0, p)
        /\ UNCHANGED <<lastval, bgstatus_list>>
        /\ BecomeJobs(IF "STOPPED" \in jobtab[j].stat THEN makerunning(Jobs, j) ELSE Jobs)
    BY <1>3 DEF wait_pid
  <2>2. j \in Slots /\ jobtab[j].procs # <<>>
    <3> DEFINE e == findproc(jobtab, p)
    <3>1. e \in Entries(jobtab, p) /\ e[1] \in Slots /\ e[2] \in 1..MaxProcs
      BY <1>3, findprocIs
    <3>2. e[2] <= Len(jobtab[e[1]].procs) /\ jobtab[e[1]] \in Job
      BY <3>1, Facts DEF Entries
    <3> HIDE DEF e
    <3>3. jobtab[e[1]].procs # <<>>
      BY <3>1, <3>2, JobControlAssumption
    <3> QED
      BY <3>1, <3>3 DEF e
  <2> HIDE DEF j
  <2>3. j # binslot
    BY <2>2, Facts DEF ShapeOf, BuiltinJob
  <2>4. PICK js \in JobsRecord : BecomeJobs(js) /\ ShapeOf(js.tab, thisjob, binslot, FALSE)
    <3>1. Jobs \in JobsRecord /\ ShapeOf(Jobs.tab, thisjob, binslot, FALSE) /\ binslot \in 0..NJobs
      BY <1>2, Facts, FreeShape
    <3>2. makerunning(Jobs, j) \in JobsRecord
      BY <2>2, <3>1, makerunningIs
    <3>3. ShapeOf(makerunning(Jobs, j).tab, thisjob, binslot, FALSE)
      BY <2>2, <2>3, <3>1, RunningShape
    <3> QED
      BY <2>1, <3>1, <3>2, <3>3
  <2>5. /\ Control' /\ {blocked', queueing', queued', reaping'} \subseteq BOOLEAN
        /\ pc' \in Steps /\ op' \in Ops /\ target' \in 0..NJobs /\ thisjob' \in 0..NJobs
        /\ fglast' \in Pids \cup 0..MaxProcs /\ ~Building'
    <3>1. /\ 0 \in 0..NJobs /\ p \in Pids \cup 0..MaxProcs
          /\ op' \in {"sync", "fg", "wait", "wait_all", "wait_pid"}
          /\ op' # "sync" /\ op' \notin {"fg", "wait", "wait_all"} /\ op' \in Builtins
          /\ thisjob' = IF op' = "fg" THEN 0 ELSE binslot
      BY <1>1, <1>2, <2>1, JobControlAssumption DEF Builtins
    <3> QED
      BY <1>1, <1>2, <2>1, <3>1, BeginWaitKeeps
  <2>6. /\ Shape' /\ jobtab' \in [Slots -> Job] /\ \A i \in Slots : Len(jobtab'[i].procs) <= MaxProcs
        /\ curjob' \in 0..NJobs /\ prevjob' \in 0..NJobs
    BY <1>1, <1>2, <2>4, <2>5, TableKeeps
  <2>7. TypeOK'
    <3>1. TypeOK
      BY DEF JInv
    <3>2. /\ child' \in [Pids -> [st : {"new", "run", "stop", "zombie", "gone"},
                               ev : {"none", "exit", "stop", "cont"}, code : Codes]]
          /\ pending' \in BOOLEAN
      BY <2>1, <2>2, <3>1, ContinueIs
    <3> QED
      BY <1>1, <2>1, <2>5, <2>6, <3>1, <3>2 DEF TypeOK
  <2> QED
    BY <2>5, <2>6, <2>7 DEF JInv
<1>4. CASE Entries(jobtab, p) = {}
  <2>1. /\ TakeBgStatus(p, "none") /\ pc' = "bin_end"
        /\ UNCHANGED <<kernelVars, signalVars, jobVars, op, target, fglast>>
    BY <1>4 DEF wait_pid
  <2>2. TypeOK
    BY DEF JInv
  <2>3. /\ lastval' = "none" \/ lastval' \in Codes
        /\ bgstatus_list' \in Seq(Bg) /\ Len(bgstatus_list') <= ChildMax
    BY <2>1, <2>2, TakeBgStatusIs
  <2>4. TypeOK'
    BY <1>1, <2>1, <2>2, <2>3 DEF TypeOK, kernelVars, signalVars, jobVars, Steps, Statuses, Bg
  <2>5. Control'
    BY <1>1, <2>1 DEF JInv, Control, signalVars, Waits, Pipes, Builtins
  <2>6. ~Building'
    BY <2>1 DEF Building
  <2>7. Shape'
    BY <1>1, <1>2, <2>1, <2>6, ShapeStays DEF jobVars
  <2> QED
    BY <2>4, <2>5, <2>7 DEF JInv
<1> QED
  BY <1>3, <1>4

\* The types that the record of a report gets.
LEMMA ReportIs ==
    ASSUME JInv, NEW p \in Pids, child[p].ev # "none"
    PROVE  /\ StatusOf(p) \in Statuses
           /\ child[p].ev = "exit" => StatusOf(p) = child[p].code /\ StatusOf(p) \in Codes
           /\ child[p].ev = "stop" => StatusOf(p) = "stop"
           /\ child[p].ev = "cont" => StatusOf(p) = "run"
<1>1. child[p].ev \in {"exit", "stop", "cont"} /\ child[p].code \in Codes
  BY DEF JInv, TypeOK
<1>2. CASE child[p].ev = "exit"
  BY <1>1, <1>2 DEF StatusOf, Statuses
<1>3. CASE child[p].ev = "stop"
  BY <1>3 DEF StatusOf, Statuses
<1>4. CASE child[p].ev = "cont"
  BY <1>4 DEF StatusOf, Statuses
<1> QED
  BY <1>1, <1>2, <1>3, <1>4

\* The entry that is found for a report, and the table with the report in it.
Found(p) == findproc(jobtab, p)
Recorded(p) == [Jobs EXCEPT !.tab[Found(p)[1]].procs[Found(p)[2]].st = StatusOf(p)]

LEMMA RecordedIs ==
    ASSUME JInv, NEW p \in Pids, child[p].ev # "none", Entries(jobtab, p) # {}
    PROVE  LET j == Found(p)[1]
               k == Found(p)[2]
               js == Recorded(p)
           IN  /\ j \in Slots /\ k \in 1..Len(jobtab[j].procs) /\ k \in 1..MaxProcs
               /\ jobtab[j].procs[k].pid = p /\ "DONE" \notin jobtab[j].stat
               /\ js \in JobsRecord /\ js.cur = curjob /\ js.prev = prevjob
               /\ js.tab[j].stat = jobtab[j].stat
               /\ Len(js.tab[j].procs) = Len(jobtab[j].procs)
               /\ \A i \in 1..Len(jobtab[j].procs) :
                     js.tab[j].procs[i] = IF i = k THEN [pid |-> p, st |-> StatusOf(p)]
                                          ELSE jobtab[j].procs[i]
               /\ \A i \in Slots : i # j => js.tab[i] = jobtab[i]
<1> DEFINE e == Found(p)
           j == e[1]
           k == e[2]
<1>1. e \in Entries(jobtab, p) /\ j \in Slots /\ k \in 1..MaxProcs
  BY findprocIs DEF Found
<1>2. k <= Len(jobtab[j].procs) /\ jobtab[j].procs[k].pid = p /\ "DONE" \notin jobtab[j].stat
  BY <1>1 DEF Entries
<1>3. jobtab[j].procs \in Seq(Proc)
  BY <1>1, Facts, ProcsIs
<1> HIDE DEF e
<1>4. k \in 1..Len(jobtab[j].procs)
  BY <1>1, <1>2, <1>3, JobControlAssumption
<1>5. StatusOf(p) \in Statuses
  BY ReportIs
<1>6. Jobs \in JobsRecord /\ Jobs.tab = jobtab /\ Jobs.cur = curjob /\ Jobs.prev = prevjob
  BY Facts
<1> DEFINE r == [Jobs EXCEPT !.tab[j].procs[k].st = StatusOf(p)]
<1>7. /\ r \in JobsRecord /\ r.cur = Jobs.cur /\ r.prev = Jobs.prev
      /\ r.tab[j].stat = Jobs.tab[j].stat
      /\ Len(r.tab[j].procs) = Len(Jobs.tab[j].procs)
      /\ \A i \in 1..Len(Jobs.tab[j].procs) :
            r.tab[j].procs[i] = IF i = k THEN [pid |-> Jobs.tab[j].procs[k].pid, st |-> StatusOf(p)]
                                ELSE Jobs.tab[j].procs[i]
      /\ \A i \in Slots : i # j => r.tab[i] = Jobs.tab[i]
  <2>1. k \in 1..Len(Jobs.tab[j].procs)
    BY <1>4, <1>6
  <2> QED
    BY <1>1, <1>5, <1>6, <2>1, RecordIs, ZenonT(60)
<1>8. Recorded(p) = r
  BY DEF Recorded, e
<1> HIDE DEF r
<1> QED
  BY <1>1, <1>2, <1>4, <1>6, <1>7, <1>8 DEF e

\* What is recorded makes of the entry.
LEMMA UpdatedJob ==
    ASSUME NEW js \in JobsRecord, NEW j \in Slots, NEW this,
           "DONE" \notin js.tab[j].stat, js.tab[j].procs # <<>>, JobOK(js.tab[j]),
           Len(js.tab[j].procs) <= MaxProcs
    PROVE  LET a == js.tab[j]
               r == update_job(js, j, this)
               b == r.tab[j]
           IN  /\ r \in JobsRecord
               /\ \A i \in Slots : i # j => r.tab[i] = js.tab[i]
               /\ JobOK(b) /\ Len(b.procs) <= MaxProcs
               /\ Listable(a) => Listable(b)
               /\ "LOCKED" \notin a.stat => "LOCKED" \notin b.stat /\ "INUSE" \in b.stat
               /\ b.procs = a.procs \/ (b = FreeJob /\ Ended(a))
<1> DEFINE a == js.tab[j]
           r == update_job(js, j, this)
           b == r.tab[j]
           stops == SomeStopped(a)
           notes == (NOTIFY \/ j = this) /\ "LOCKED" \in a.stat
<1>0. a \in Job /\ "DONE" \notin a.stat /\ a.procs # <<>> /\ JobOK(a) /\ Len(a.procs) <= MaxProcs
  BY DEF JobsRecord, Table
<1>1. /\ r \in JobsRecord
      /\ \A i \in Slots : i # j => r.tab[i] = js.tab[i]
      /\ \/ ~Ends(a) /\ r = js
         \/ /\ Ends(a) /\ stops /\ b.procs = a.procs
            /\ b.stat = IF notes THEN (a.stat \cup {"STOPPED"}) \ {"CHANGED"}
                        ELSE a.stat \cup {"CHANGED", "STOPPED"}
         \/ /\ Ends(a) /\ ~stops /\ notes /\ b = FreeJob
         \/ /\ Ends(a) /\ ~stops /\ ~notes /\ b.procs = a.procs
            /\ b.stat = a.stat \cup {"CHANGED", "DONE"}
  BY update_jobIs, ZenonT(60)
<1>2. Ends(a) /\ ~stops => Ended(a)
  <2>1. SUFFICES ASSUME Ends(a), ~stops, NEW i \in DOMAIN a.procs PROVE Terminated(a.procs[i].st)
    BY DEF Ended
  <2>2. a.procs[i].st \in Statuses /\ a.procs[i].st # "run" /\ a.procs[i].st # "stop"
    BY <1>0, <2>1, ProcsIs DEF Ends, Settled, SomeStopped
  <2> QED
    BY <2>2 DEF Statuses, Terminated
<1>3. "INUSE" \in a.stat
  BY <1>0 DEF JobOK
<1> HIDE DEF a, r, b, stops, notes
<1>4. CASE ~Ends(a) /\ r = js
  BY <1>0, <1>1, <1>3, <1>4 DEF a, r, b
<1>5. CASE /\ Ends(a) /\ stops /\ b.procs = a.procs
           /\ b.stat = IF notes THEN (a.stat \cup {"STOPPED"}) \ {"CHANGED"}
                       ELSE a.stat \cup {"CHANGED", "STOPPED"}
  <2>1. "DONE" \notin b.stat /\ "INUSE" \in b.stat /\ ("LOCKED" \in b.stat <=> "LOCKED" \in a.stat)
    BY <1>0, <1>3, <1>5
  <2> QED
    BY <1>0, <1>1, <1>5, <2>1 DEF a, r, b, JobOK, Listable
<1>6. CASE Ends(a) /\ ~stops /\ notes /\ b = FreeJob
  <2>1. JobOK(FreeJob) /\ Listable(FreeJob) /\ Len(FreeJob.procs) <= MaxProcs
    BY JobControlAssumption DEF FreeJob, JobOK, Listable
  <2> QED
    BY <1>0, <1>1, <1>2, <1>6, <2>1 DEF a, r, b, notes
<1>7. CASE /\ Ends(a) /\ ~stops /\ ~notes /\ b.procs = a.procs
           /\ b.stat = a.stat \cup {"CHANGED", "DONE"}
  <2>1. "DONE" \in b.stat /\ "CHANGED" \in b.stat /\ "INUSE" \in b.stat
        /\ ("LOCKED" \in b.stat <=> "LOCKED" \in a.stat)
    BY <1>0, <1>3, <1>7
  <2>2. Ended(b)
    BY <1>2, <1>7 DEF Ended
  <2> QED
    BY <1>0, <1>1, <1>7, <2>1, <2>2 DEF a, r, b, JobOK, Listable
<1> QED
  BY <1>1, <1>4, <1>5, <1>6, <1>7

LEMMA ReapKeeps ==
    ASSUME JInv, NEW p \in Pids, Reap(p)
    PROVE  JInv'
<1>1. /\ UNCHANGED <<pending, signalVars, thisjob, mainVars>> /\ child[p].ev # "none"
      /\ child' = [child EXCEPT ![p].ev = "none",
                    ![p].st = IF @ # "zombie" THEN @ ELSE IF PidReuse THEN "new" ELSE "gone"]
      /\ disowned' \subseteq disowned
  BY DEF Reap
<1>2. Control'
  BY <1>1 DEF JInv, Control, signalVars, mainVars
<1>3. Building' <=> Building
  BY <1>1 DEF Building, mainVars
<1>4. child' \in [Pids -> [st : {"new", "run", "stop", "zombie", "gone"},
                           ev : {"none", "exit", "stop", "cont"}, code : Codes]]
  BY <1>1, ZenonT(60) DEF JInv, TypeOK
<1>5. ASSUME jobtab' \in [Slots -> Job], \A j \in Slots : Len(jobtab'[j].procs) <= MaxProcs,
             curjob' \in 0..NJobs, prevjob' \in 0..NJobs,
             lastval' \in Statuses \cup {"fail", "none", "trap"}, lastval2' \in Statuses,
             bgstatus_list' \in Seq(Bg), Len(bgstatus_list') <= ChildMax
      PROVE  TypeOK'
  BY <1>1, <1>4, <1>5 DEF JInv, TypeOK, signalVars, mainVars, Bg
<1>6. CASE Entries(jobtab, p) = {}
  <2>1. UNCHANGED <<jobVars, statusVars>>
    BY <1>6 DEF Reap
  <2>2. TypeOK'
    BY <1>5, <2>1 DEF JInv, TypeOK, jobVars, statusVars, Bg
  <2>3. Shape'
    BY <1>1, <1>3, <2>1, ShapeStays DEF jobVars, mainVars
  <2> QED
    BY <1>2, <2>2, <2>3 DEF JInv
<1>7. CASE Entries(jobtab, p) # {}
  <2> DEFINE j == Found(p)[1]
             k == Found(p)[2]
             js == Recorded(p)
             r == update_job(js, j, thisjob)
             val == Last(js.tab[j].procs).st
  <2>1. /\ bgstatus_list' = IF j # thisjob /\ child[p].ev = "exit"
                            THEN addbgstatus(bgstatus_list, p, StatusOf(p)) ELSE bgstatus_list
        /\ BecomeJobs(r)
        /\ lastval2' \in {val, lastval2} /\ lastval' \in {val, lastval}
    BY <1>7 DEF Reap, RecordStatus, Found, Recorded
  <2>2. /\ j \in Slots /\ k \in 1..Len(jobtab[j].procs)
        /\ jobtab[j].procs[k].pid = p /\ "DONE" \notin jobtab[j].stat
        /\ js \in JobsRecord
        /\ js.tab[j].stat = jobtab[j].stat
        /\ Len(js.tab[j].procs) = Len(jobtab[j].procs)
        /\ \A i \in Slots : i # j => js.tab[i] = jobtab[i]
    BY <1>1, <1>7, RecordedIs
  <2> HIDE DEF j, k, js
  <2> DEFINE a == js.tab[j]
  <2>3. a \in Job /\ jobtab[j] \in Job
    BY <2>2, Facts DEF JobsRecord, Table
  <2>4. a.procs # <<>> /\ jobtab[j].procs # <<>>
    BY <2>2, <2>3 DEF Job
  <2>5. JobOK(jobtab[j]) /\ Len(jobtab[j].procs) <= MaxProcs
    BY <2>2, Facts DEF ShapeOf
  <2>6. JobOK(a) /\ Len(a.procs) <= MaxProcs /\ (Listable(jobtab[j]) => Listable(a)) /\ "DONE" \notin a.stat
    BY <2>2, <2>4, <2>5 DEF JobOK, Listable
  <2> DEFINE b == r.tab[j]
  <2>7. /\ r \in JobsRecord
        /\ \A i \in Slots : i # j => r.tab[i] = js.tab[i]
        /\ JobOK(b) /\ Len(b.procs) <= MaxProcs
        /\ Listable(a) => Listable(b)
        /\ "LOCKED" \notin a.stat => "LOCKED" \notin b.stat /\ "INUSE" \in b.stat
        /\ b.procs = a.procs \/ (b = FreeJob /\ Ended(a))
    BY <2>2, <2>3, <2>4, <2>6, UpdatedJob
  <2> HIDE DEF a, b, r
  <2>8. r.tab[j] = b
    BY DEF b
  <2>9. j # binslot
    BY <2>2, <2>4, Facts DEF ShapeOf, BuiltinJob
  <2>10. \A i \in Slots : i # j => r.tab[i] = jobtab[i]
    BY <2>2, <2>7
  <2>11. \A i \in Slots : JobOK(r.tab[i]) /\ Len(r.tab[i].procs) <= MaxProcs
    BY <2>7, <2>8, <2>10, Facts DEF ShapeOf
  <2>12. jobtab' = r.tab
    BY <2>1 DEF BecomeJobs
  <2>13. ShapeOf(r.tab, thisjob, binslot, Building)
    <3>1. \A i \in Slots : i = binslot \/ (Building /\ i = thisjob) \/ Listable(r.tab[i])
      BY <2>6, <2>7, <2>8, <2>9, <2>10, Facts DEF ShapeOf
    <3>2. Building => "INUSE" \in r.tab[thisjob].stat /\ "LOCKED" \notin r.tab[thisjob].stat
      BY <2>2, <2>7, <2>8, <2>10, Facts DEF ShapeOf, a
    <3>3. binslot # 0 => r.tab[binslot] = BuiltinJob
      BY <2>9, <2>10, Facts DEF ShapeOf
    <3> QED
      BY <2>11, <3>1, <3>2, <3>3 DEF ShapeOf
  <2>14. Building /\ pc # "build" => r.tab[thisjob].procs # <<>>
    <3>1. SUFFICES ASSUME Building, pc # "build" PROVE r.tab[thisjob].procs # <<>>
      OBVIOUS
    <3>2. jobtab[thisjob].procs # <<>> /\ thisjob \in Slots /\ "LOCKED" \notin jobtab[thisjob].stat
      BY <3>1, Facts DEF JInv, Shape, ShapeOf
    <3>3. CASE j = thisjob
      <4>1. "INUSE" \in b.stat
        BY <2>2, <2>7, <3>2, <3>3 DEF a
      <4>2. b # FreeJob
        BY <4>1 DEF FreeJob
      <4> QED
        BY <2>4, <2>7, <2>8, <3>3, <4>2
    <3>4. CASE j # thisjob
      BY <2>10, <3>2, <3>4
    <3> QED
      BY <3>3, <3>4
  <2>15. Shape'
    BY <1>1, <1>3, <2>12, <2>13, <2>14 DEF Shape, ShapeOf, mainVars
  <2>16. val \in Statuses
    BY <2>3, <2>4, LastIs DEF a, Proc
  <2> HIDE DEF val
  <2>17. bgstatus_list' \in Seq(Bg) /\ Len(bgstatus_list') <= ChildMax
    <3>1. bgstatus_list \in Seq(Bg) /\ Len(bgstatus_list) <= ChildMax
      BY DEF JInv, TypeOK, Bg
    <3>2. child[p].ev = "exit" => StatusOf(p) \in Codes
      BY <1>1, ReportIs
    <3> QED
      BY <2>1, <3>1, <3>2, addbgstatusIs
  <2>18. /\ jobtab' \in [Slots -> Job] /\ \A i \in Slots : Len(jobtab'[i].procs) <= MaxProcs
         /\ curjob' \in 0..NJobs /\ prevjob' \in 0..NJobs
    <3>1. TypeOK /\ \A i \in Slots : Len(r.tab[i].procs) <= MaxProcs
      BY <2>11 DEF JInv
    <3> QED
      BY <2>1, <2>7, <3>1, TableTypes
  <2>19. lastval' \in Statuses \cup {"fail", "none", "trap"} /\ lastval2' \in Statuses
    BY <2>1, <2>16 DEF JInv, TypeOK
  <2> QED
    BY <1>2, <1>5, <2>15, <2>17, <2>18, <2>19 DEF JInv
<1> QED
  BY <1>6, <1>7

LEMMA NextKeeps == JInv /\ [Next]_vars => JInv'
<1> SUFFICES ASSUME JInv, [Next]_vars PROVE JInv'
  OBVIOUS
<1>1. CASE UNCHANGED vars
  BY <1>1 DEF vars, JInv, TypeOK, Control, Shape, ShapeOf, Building, kernelVars, signalVars,
              jobVars, statusVars, mainVars
<1>2. CASE KernelStep
  BY <1>2, KernelKeeps
<1>3. CASE Handler
  BY <1>3, KernelKeeps, ReapKeeps DEF Handler
<1>4. CASE Pipeline
  <2>1. CASE \E how \in {"sync", "async", "disown"} : StartPipeline(how)
    BY <2>1, StartPipelineKeeps DEF Pipes
  <2>2. CASE \E p \in Pids : Fork(p)
    BY <2>2, ForkKeeps
  <2>3. CASE SubstBegin \/ SubstEnd
    BY <2>3, SubstKeeps
  <2>4. CASE RunInBackground \/ RunDisowned
    BY <2>4, RunKeeps
  <2>5. CASE WaitPipeline
    BY <2>5, WaitPipelineKeeps
  <2>6. CASE WaitPipelineEnds
    BY <2>6, WaitPipelineEndsKeeps
  <2>7. CASE preprompt
    BY <2>7, PrintsKeep
  <2>8. CASE PipelineFails \/ PipelineFailed
    BY <2>8, PipelineFailsKeeps
  <2> QED
    BY <1>4, <2>1, <2>2, <2>3, <2>4, <2>5, <2>6, <2>7, <2>8 DEF Pipeline
<1>5. CASE Builtin
  <2>1. CASE BuiltinStart
    BY <2>1, BuiltinStartKeeps
  <2>2. CASE BuiltinReady \/ jobs
    BY <2>2, PrintsKeep
  <2>3. CASE wait_all \/ WaitAllEnds
    BY <2>3, WaitAllKeeps
  <2>4. CASE \E j \in Named : fg(j) \/ bg(j) \/ wait(j) \/ disown(j)
    <3>1. PICK j \in Named : fg(j) \/ bg(j) \/ wait(j) \/ disown(j)
      BY <2>4
    <3>2. j \in Slots
      BY DEF Named
    <3>3. CASE fg(j) \/ wait(j)
      BY <3>2, <3>3, ResumeKeeps
    <3>4. CASE bg(j)
      BY <3>4, bgKeeps
    <3>5. CASE disown(j)
      BY <3>5, disownKeeps
    <3> QED
      BY <3>1, <3>3, <3>4, <3>5
  <2>5. CASE \E p \in Pids : wait_pid(p)
    BY <2>5, wait_pidKeeps
  <2>6. CASE WaitInterrupted
    BY <2>6, WaitAllKeeps, WaitOverKeeps
  <2>7. CASE WaitEnds \/ WaitPidEnds \/ BuiltinUnqueue
    BY <2>7, WaitOverKeeps
  <2>8. CASE BuiltinExit
    BY <2>8, BuiltinExitKeeps
  <2> QED
    BY <1>5, <2>1, <2>2, <2>3, <2>4, <2>5, <2>6, <2>7, <2>8 DEF Builtin
<1>6. CASE Waiting
  BY <1>6, EnterWaitKeeps, SleepKeeps DEF Waiting
<1> QED
  BY <1>1, <1>2, <1>3, <1>4, <1>5, <1>6 DEF Next

\* The table, the pointers into it and the steps of the main program fit
\* together, always.
THEOREM Inductive == Spec => []JInv
<1> QED
  BY InitHolds, NextKeeps, PTL DEF Spec

\* The job table and the variables around it are well formed.
THEOREM TypesCorrect == Spec => []TypeOK
<1>1. JInv => TypeOK
  BY DEF JInv
<1> QED
  BY <1>1, Inductive, PTL

\* What the handler reaps while a pipeline is built, or a builtin runs, does
\* not give the entry of the table away that they fill.
THEOREM EntryIsKept == Spec => []JobKeptWhileBuilt
<1>1. JInv => JobKeptWhileBuilt
  <2>1. SUFFICES ASSUME JInv PROVE JobKeptWhileBuilt
    OBVIOUS
  <2>2. pc \in {"build", "subst", "last", "enter"} /\ op \in {"sync", "async", "disown"} => Building
    BY <2>1 DEF JInv, Control, Building, Waits
  <2> QED
    BY <2>1, <2>2, Facts DEF JobKeptWhileBuilt, ShapeOf, InUse, BuiltinJob
<1> QED
  BY <1>1, Inductive, PTL

-----------------------------------------------------------------------------
(* Every child that lives has its entry.                                   *)

\* The processes stay in the table, but for those of jobs that have ended.
Trimmed(t, u) ==
    \A j \in Slots : u[j].procs = t[j].procs \/ (u[j].procs = <<>> /\ Ended(t[j]))

LEMMA PlaceIs ==
    ASSUME NEW tab \in Table, NEW e \in Places(tab)
    PROVE  /\ e[1] \in Slots /\ e[2] \in 1..Len(tab[e[1]].procs) /\ e = <<e[1], e[2]>>
           /\ At(tab, e) \in Proc /\ At(tab, e).pid \in Pids /\ At(tab, e).st \in Statuses
<1>1. e[1] \in Slots /\ e[2] \in 1..MaxProcs /\ e[2] <= Len(tab[e[1]].procs) /\ e = <<e[1], e[2]>>
  BY DEF Places
<1>2. tab[e[1]] \in Job
  BY <1>1 DEF Table
<1>3. Len(tab[e[1]].procs) \in Nat
  BY <1>2, ProcsIs
<1>4. e[2] \in 1..Len(tab[e[1]].procs)
  BY <1>1, <1>3, JobControlAssumption
<1> QED
  BY <1>1, <1>2, <1>4, ProcsIs DEF At

LEMMA TrimKeeps ==
    ASSUME NEW t \in Table, NEW u \in Table, NEW ch, NEW given,
           TrackOK(t, ch, given), Trimmed(t, u)
    PROVE  TrackOK(u, ch, given)
<1>1. ASSUME NEW e \in Places(u) PROVE e \in Places(t) /\ At(u, e) = At(t, e)
  <2>1. e[1] \in Slots /\ e[2] \in 1..Len(u[e[1]].procs) /\ e \in Slots \X (1..MaxProcs)
        /\ e[2] <= Len(u[e[1]].procs)
    BY PlaceIs DEF Places
  <2>2. u[e[1]].procs # <<>>
    BY <2>1
  <2>3. u[e[1]].procs = t[e[1]].procs
    BY <2>1, <2>2 DEF Trimmed
  <2> QED
    BY <2>1, <2>3 DEF Places, At
<1>2. ASSUME NEW e \in Live(t) PROVE e \in Live(u) /\ At(u, e) = At(t, e)
  <2>1. e \in Places(t) /\ ~Terminated(At(t, e).st)
    BY DEF Live
  <2>2. e[1] \in Slots /\ e[2] \in 1..Len(t[e[1]].procs) /\ t[e[1]] \in Job
    BY <2>1, PlaceIs DEF Table
  <2>3. ~Ended(t[e[1]])
    BY <2>1, <2>2, ProcsIs DEF Ended, At
  <2>4. u[e[1]].procs = t[e[1]].procs
    BY <2>2, <2>3 DEF Trimmed
  <2> QED
    BY <2>1, <2>4 DEF Live, Places, At
<1>3. Live(u) \subseteq Live(t) /\ Live(t) \subseteq Live(u) /\ Places(u) \subseteq Places(t)
      /\ Live(u) \subseteq Places(u) /\ Live(t) \subseteq Places(t)
  BY <1>1, <1>2 DEF Live
<1>4. \A e \in Places(u) : At(u, e) = At(t, e)
  BY <1>1
<1>5. Places(u) \ Live(u) \subseteq Places(t) \ Live(t)
  BY <1>3
<1> QED
  BY <1>3, <1>4, <1>5 DEF TrackOK

\* Reports that the kernel has to make do not change who lives.
LEMMA ChildMoves ==
    ASSUME NEW tab \in Table, NEW ch, NEW ch2, NEW given, TrackOK(tab, ch, given),
           \A p \in Pids : Lives(ch2, p) <=> Lives(ch, p),
           \A p \in Pids : ch2[p].st = "new" => ch[p].st = "new",
           \A p \in Pids : ch2[p].ev = "none" => ch2[p] = ch[p]
    PROVE  TrackOK(tab, ch2, given)
<1>1. \A e \in Places(tab) : At(tab, e).pid \in Pids
  BY PlaceIs
<1>2. Live(tab) \subseteq Places(tab)
  BY DEF Live
<1>3. \A e \in Live(tab) : At(tab, e).pid \in Pids
  BY <1>1, <1>2
<1> QED
  BY <1>1, <1>3 DEF TrackOK

\* A live process is in a job that is not done.
LEMMA LiveEntry ==
    ASSUME JInv, NEW e \in Live(jobtab), NEW p, At(jobtab, e).pid = p
    PROVE  e \in Entries(jobtab, p)
<1>1. e \in Places(jobtab) /\ ~Terminated(At(jobtab, e).st)
  BY DEF Live
<1>2. e[1] \in Slots /\ e[2] \in 1..Len(jobtab[e[1]].procs) /\ jobtab \in Table
  BY <1>1, PlaceIs, Facts
<1>3. JobOK(jobtab[e[1]]) /\ jobtab[e[1]] \in Job
  BY <1>2, Facts DEF ShapeOf
<1>4. ~Ended(jobtab[e[1]])
  BY <1>1, <1>2, <1>3, ProcsIs DEF Ended, At
<1>5. "DONE" \notin jobtab[e[1]].stat
  BY <1>3, <1>4 DEF JobOK
<1> QED
  BY <1>1, <1>5 DEF Entries, Places, At

LEMMA EntryPlace ==
    ASSUME NEW tab, NEW p, NEW e \in Entries(tab, p)
    PROVE  e \in Places(tab) /\ At(tab, e).pid = p
BY DEF Entries, Places, At

\* findproc() finds the entry of a process that lives.
LEMMA FindsLive ==
    ASSUME JInv, Track, Numbers, NEW d \in Live(jobtab), NEW p \in Pids, At(jobtab, d).pid = p
    PROVE  Entries(jobtab, p) # {} /\ findproc(jobtab, p) = d
<1> DEFINE f == findproc(jobtab, p)
<1>1. d \in Entries(jobtab, p)
  BY LiveEntry
<1>2. f \in Entries(jobtab, p)
  BY <1>1, findprocIs
<1>3. f \in Places(jobtab) /\ At(jobtab, f).pid = p
  BY <1>2, EntryPlace
<1>4. d \in Places(jobtab)
  BY DEF Live
<1>5. CASE ~PidReuse
  <2>1. \A x, e \in Places(jobtab) : At(jobtab, x).pid = At(jobtab, e).pid => x = e
    BY <1>5 DEF Track, TrackOK
  <2> HIDE DEF f
  <2>2. f = d
    BY <1>3, <1>4, <2>1
  <2> QED
    BY <1>1, <2>2 DEF f
<1>6. CASE Stoppable = {}
  <2>1. At(jobtab, d).st # "stop" /\ At(jobtab, d).st \in Statuses /\ At(jobtab, d).st \notin Codes
    BY <1>4, <1>6, PlaceIs, Facts DEF Track, TrackOK, Live, Terminated
  <2>2. jobtab[d[1]].procs[d[2]].st = "run"
    BY <2>1 DEF Statuses, At
  <2>3. jobtab[f[1]].procs[f[2]].st = "run"
    BY <1>1, <2>2, findprocIs
  <2> HIDE DEF f
  <2>4. f \in Live(jobtab)
    BY <1>3, <2>3, JobControlAssumption DEF Live, At, Terminated
  <2>5. f = d
    BY <1>3, <2>4 DEF Track, TrackOK
  <2> QED
    BY <1>1, <2>5 DEF f
<1> QED
  BY <1>5, <1>6 DEF Numbers

TInv == JInv /\ Track

ChildSet == [st : {"new", "run", "stop", "zombie", "gone"},
             ev : {"none", "exit", "stop", "cont"}, code : Codes]

LEMMA ChildIs ==
    ASSUME JInv
    PROVE  child \in [Pids -> ChildSet]
BY DEF JInv, TypeOK, ChildSet

Moved(p, st, ev, c) ==
    /\ child' = [child EXCEPT ![p] = [st |-> st, ev |-> ev, code |-> c]]
    /\ Lives(child, p) /\ st \in {"run", "stop", "zombie"} /\ ev # "none"
    /\ st = "zombie" <=> ev = "exit"
    /\ ev = "stop" => st = "stop" /\ p \in Stoppable
    /\ ev = "cont" => st = "run" /\ p \in Stoppable
    /\ st = "stop" => p \in Stoppable

\* A child ends, is stopped or goes on.
LEMMA KernelTracks ==
    ASSUME TInv, KernelStep
    PROVE  Track'
<1>1. JInv /\ Kids /\ TrackOK(jobtab, child, disowned) /\ child \in [Pids -> ChildSet]
  BY ChildIs DEF TInv, Track
<1>2. jobtab' = jobtab /\ disowned' = disowned
  BY DEF KernelStep, Exit, Stop, Continue, Report, jobVars
<1>3. PICK p \in Pids : Exit(p) \/ Stop(p) \/ Continue(p)
  BY DEF KernelStep
<1>40. \E st, ev, c : Moved(p, st, ev, c)
  <2>1. CASE Exit(p)
    <3>1. PICK c \in Codes : Report(p, "zombie", "exit", c) /\ child[p].st \in {"run", "stop"}
      BY <2>1 DEF Exit
    <3>2. Moved(p, "zombie", "exit", c)
      BY <3>1 DEF Report, Lives, Moved
    <3> QED
      BY <3>2
  <2>2. CASE Stop(p)
    <3>1. Moved(p, "stop", "stop", child[p].code)
      BY <2>2 DEF Stop, Report, Lives, Moved
    <3> QED
      BY <3>1
  <2>3. CASE Continue(p)
    <3>1. Moved(p, "run", "cont", child[p].code)
      BY <1>1, <2>3 DEF Continue, Report, Lives, Moved, Kids
    <3> QED
      BY <3>1
  <2> QED
    BY <1>3, <2>1, <2>2, <2>3
<1>4. PICK st, ev, c : Moved(p, st, ev, c)
  BY <1>40
<1>5. /\ child'[p] = [st |-> st, ev |-> ev, code |-> c]
      /\ \A q \in Pids : q # p => child'[q] = child[q]
  BY <1>1, <1>4 DEF Moved
<1>6. Kids'
  BY <1>1, <1>4, <1>5 DEF Kids, Moved
<1>7. /\ \A q \in Pids : Lives(child', q) <=> Lives(child, q)
      /\ \A q \in Pids : child'[q].st = "new" => child[q].st = "new"
      /\ \A q \in Pids : child'[q].ev = "none" => child'[q] = child[q]
  BY <1>4, <1>5 DEF Lives, Moved
<1>8. jobtab \in Table
  BY <1>1, Facts
<1> DEFINE ch2 == child'
<1>9. /\ \A q \in Pids : Lives(ch2, q) <=> Lives(child, q)
      /\ \A q \in Pids : ch2[q].st = "new" => child[q].st = "new"
      /\ \A q \in Pids : ch2[q].ev = "none" => ch2[q] = child[q]
  BY <1>7
<1> HIDE DEF ch2
<1>10. TrackOK(jobtab, ch2, disowned)
  BY <1>1, <1>8, <1>9, ChildMoves
<1> QED
  BY <1>2, <1>6, <1>10 DEF Track, ch2, TrackOK

\* Nothing but jobs that have ended leave the table.
LEMMA TrimTracks ==
    ASSUME TInv, child' = child, disowned' = disowned, NEW u \in Table, jobtab' = u, Trimmed(jobtab, u)
    PROVE  Track'
<1>1. JInv /\ Kids /\ TrackOK(jobtab, child, disowned) /\ jobtab \in Table
  BY Facts DEF TInv, Track
<1>2. TrackOK(u, child, disowned)
  BY <1>1, TrimKeeps
<1>3. Kids'
  BY <1>1 DEF Kids
<1> QED
  BY <1>2, <1>3 DEF Track, TrackOK

\* A stopped job and its processes are continued.
LEMMA ResumeTracks ==
    ASSUME TInv, NEW j \in Slots, killjb(j)
    PROVE  Kids' /\ TrackOK(makerunning(Jobs, j).tab, child', disowned)
<1> DEFINE ps == {q.pid : q \in {r \in ToSet(jobtab[j].procs) : ~Terminated(r.st)}}
           u == makerunning(Jobs, j).tab
<1>1. JInv /\ Kids /\ TrackOK(jobtab, child, disowned) /\ child \in [Pids -> ChildSet]
      /\ jobtab \in Table /\ jobtab[j] \in Job
  BY ChildIs, Facts DEF TInv, Track
<1>2. child' = [p \in Pids |-> IF p \in ps /\ child[p].st = "stop"
                               THEN [child[p] EXCEPT !.st = "run", !.ev = "cont"] ELSE child[p]]
  BY DEF killjb, Continued
<1>3. \A e \in Live(jobtab) : e[1] = j => At(jobtab, e).pid \in ps
  <2>1. SUFFICES ASSUME NEW e \in Live(jobtab), e[1] = j PROVE At(jobtab, e).pid \in ps
    OBVIOUS
  <2>2. e[2] \in 1..Len(jobtab[j].procs) /\ ~Terminated(jobtab[j].procs[e[2]].st)
    BY <1>1, <2>1, PlaceIs DEF Live, At
  <2>3. jobtab[j].procs[e[2]] \in ToSet(jobtab[j].procs)
    BY <1>1, <2>2, ProcsIs
  <2> QED
    BY <2>1, <2>2, <2>3 DEF At
<1> HIDE DEF ps
<1>4. /\ u \in Table
      /\ Len(u[j].procs) = Len(jobtab[j].procs)
      /\ \A i \in 1..Len(jobtab[j].procs) : u[j].procs[i] = Resume(jobtab[j].procs[i])
      /\ \A i \in Slots : i # j => u[i] = jobtab[i]
  <2>1. Jobs \in JobsRecord /\ Jobs.tab = jobtab
    BY <1>1, Facts
  <2> DEFINE r == makerunning(Jobs, j)
  <2>2. /\ r \in JobsRecord /\ r.cur = Jobs.cur /\ r.prev = Jobs.prev
        /\ r.tab[j].stat = Jobs.tab[j].stat \ {"STOPPED"}
        /\ Len(r.tab[j].procs) = Len(Jobs.tab[j].procs)
        /\ \A i \in 1..Len(Jobs.tab[j].procs) :
              r.tab[j].procs[i] = Resume(Jobs.tab[j].procs[i])
        /\ \A i \in Slots : i # j => r.tab[i] = Jobs.tab[i]
    BY <2>1, makerunningIs
  <2>3. u = r.tab
    OBVIOUS
  <2> HIDE DEF r, u
  <2> QED
    BY <2>1, <2>2, <2>3 DEF JobsRecord
<1> HIDE DEF u
<1>6. Places(u) = Places(jobtab)
  BY <1>4 DEF Places
<1>7. ASSUME NEW e \in Places(jobtab)
      PROVE  /\ At(u, e).pid = At(jobtab, e).pid
             /\ Terminated(At(u, e).st) <=> Terminated(At(jobtab, e).st)
             /\ At(u, e).st = At(jobtab, e).st \/ (At(jobtab, e).st = "stop" /\ e[1] = j)
             /\ e[1] = j => At(u, e).st # "stop"
             /\ At(u, e).st = "stop" => At(jobtab, e).st = "stop"
  <2>1. e[1] \in Slots /\ e[2] \in 1..Len(jobtab[e[1]].procs) /\ At(jobtab, e) \in Proc
    BY <1>1, PlaceIs
  <2>2. CASE e[1] = j
    <3>1. At(u, e) = Resume(At(jobtab, e))
      BY <1>4, <2>1, <2>2 DEF At
    <3> QED
      BY <2>1, <2>2, <3>1, JobControlAssumption DEF Resume, Terminated, Proc
  <2>3. CASE e[1] # j
    BY <1>4, <2>1, <2>3 DEF At
  <2> QED
    BY <2>2, <2>3
<1>8. Live(u) = Live(jobtab) /\ Live(jobtab) \subseteq Places(jobtab)
  BY <1>6, <1>7 DEF Live
<1>9. Kids'
  <2>1. SUFFICES ASSUME NEW p \in Pids
                 PROVE  /\ child'[p].st = "zombie" <=> child'[p].ev = "exit"
                        /\ child'[p].ev = "stop" => child'[p].st = "stop"
                        /\ child'[p].ev = "cont" => child'[p].st = "run"
                        /\ p \notin Stoppable => child'[p].st # "stop" /\ child'[p].ev \notin {"stop", "cont"}
    BY DEF Kids
  <2>2. CASE p \in ps /\ child[p].st = "stop"
    BY <1>1, <1>2, <2>2 DEF Kids, ChildSet
  <2>3. CASE ~(p \in ps /\ child[p].st = "stop")
    BY <1>1, <1>2, <2>3 DEF Kids
  <2> QED
    BY <2>2, <2>3
<1> DEFINE ch2 == child'
<1>10. /\ \A p \in Pids : Lives(ch2, p) <=> Lives(child, p)
       /\ \A p \in Pids : ch2[p].st = "new" => child[p].st = "new"
       /\ \A p \in Pids : ch2[p].ev = "none" => ch2[p] = child[p] /\ ~(p \in ps /\ child[p].st = "stop")
  BY <1>1, <1>2 DEF Lives, ChildSet
<1> HIDE DEF ch2
<1>11. TrackOK(jobtab, ch2, disowned)
  BY <1>1, <1>10, ChildMoves
<1>12. \A e \in Live(u) :
          ch2[At(u, e).pid].ev = "none" => At(u, e).st = ch2[At(u, e).pid].st
  <2>1. SUFFICES ASSUME NEW e \in Live(jobtab), ch2[At(jobtab, e).pid].ev = "none"
                 PROVE  At(u, e).st = ch2[At(jobtab, e).pid].st
    BY <1>7, <1>8
  <2> DEFINE p == At(jobtab, e).pid
  <2>2. p \in Pids
    BY <1>1, <1>8, PlaceIs
  <2>3. At(jobtab, e).st = ch2[p].st
    BY <1>11, <2>1 DEF TrackOK
  <2>4. ~(e[1] = j /\ ch2[p].st = "stop")
    BY <1>3, <1>10, <2>1, <2>2
  <2> QED
    BY <1>7, <1>8, <2>3, <2>4
<1>13. TrackOK(u, ch2, disowned)
  <2>1. \A e \in Places(jobtab) : At(u, e).pid = At(jobtab, e).pid
    BY <1>7
  <2>2. /\ \A e \in Live(u) : Lives(ch2, At(u, e).pid)
        /\ \A d, e \in Live(u) : At(u, d).pid = At(u, e).pid => d = e
        /\ \A p \in Pids \ disowned : Lives(ch2, p) => \E e \in Live(u) : At(u, e).pid = p
    BY <1>8, <1>11, <2>1 DEF TrackOK
  <2>3. Stoppable = {} => \A e \in Places(u) : At(u, e).st # "stop"
    BY <1>6, <1>7, <1>11 DEF TrackOK
  <2>4. ~PidReuse =>
          /\ \A e \in Places(u) : ch2[At(u, e).pid].st # "new"
          /\ \A d, e \in Places(u) : At(u, d).pid = At(u, e).pid => d = e
          /\ \A e \in Places(u) \ Live(u) : ~Lives(ch2, At(u, e).pid)
    BY <1>6, <1>8, <1>11, <2>1 DEF TrackOK
  <2> QED
    BY <1>12, <2>2, <2>3, <2>4 DEF TrackOK
<1> QED
  BY <1>9, <1>13 DEF ch2, u

\* A process is forked.
LEMMA ForkTracks ==
    ASSUME TInv, NEW q \in Pids, Fork(q)
    PROVE  Track'
<1> DEFINE u == addproc(Jobs, thisjob, q).tab
           n == Len(jobtab[thisjob].procs) + 1
           d == <<thisjob, n>>
<1>1. JInv /\ Kids /\ TrackOK(jobtab, child, disowned) /\ child \in [Pids -> ChildSet] /\ jobtab \in Table
  BY ChildIs, Facts DEF TInv, Track
<1>2. /\ child' = [child EXCEPT ![q].st = "run", ![q].code = "ok"] /\ child[q].st = "new"
      /\ jobtab' = u /\ disowned' = disowned /\ pc \in {"build", "last"}
      /\ Len(jobtab[thisjob].procs) < MaxProcs
  BY DEF Fork, BecomeJobs, MainAt
<1>3. thisjob \in Slots /\ jobtab[thisjob] \in Job
  BY <1>1, <1>2, Facts DEF Building
<1>4. /\ u \in Table
      /\ u[thisjob].procs = Append(jobtab[thisjob].procs, [pid |-> q, st |-> "run"])
      /\ \A i \in Slots : i # thisjob => u[i] = jobtab[i]
  <2>1. Jobs \in JobsRecord /\ Jobs.tab = jobtab
    BY <1>1, Facts
  <2>2. addproc(Jobs, thisjob, q) \in JobsRecord
    BY <1>3, <2>1, addprocIs
  <2> QED
    BY <1>3, <2>1, <2>2, addprocIs, SMTT(30) DEF JobsRecord
<1> HIDE DEF u
<1>5. /\ Len(u[thisjob].procs) = n /\ u[thisjob].procs[n] = [pid |-> q, st |-> "run"]
      /\ \A i \in 1..Len(jobtab[thisjob].procs) : u[thisjob].procs[i] = jobtab[thisjob].procs[i]
  <2> DEFINE s == jobtab[thisjob].procs
             x == [pid |-> q, st |-> "run"]
  <2>1. s \in Seq(Proc) /\ x \in Proc
    BY <1>3, ProcsIs DEF Proc, Statuses
  <2>2. u[thisjob].procs = Append(s, x)
    BY <1>4
  <2> HIDE DEF s, x
  <2>3. Len(Append(s, x)) = Len(s) + 1 /\ Append(s, x)[Len(s) + 1] = x
        /\ \A i \in 1..Len(s) : Append(s, x)[i] = s[i]
    BY <2>1
  <2> QED
    BY <2>2, <2>3 DEF s, x
<1>6. n \in 1..MaxProcs /\ Len(jobtab[thisjob].procs) \in Nat
  <2>1. Len(jobtab[thisjob].procs) \in Nat
    BY <1>3, ProcsIs
  <2> QED
    BY <1>2, <2>1, JobControlAssumption
<1>7. d \in Places(u) /\ At(u, d).pid = q /\ At(u, d).st = "run"
  BY <1>3, <1>5, <1>6 DEF Places, At
<1>8. ASSUME NEW e \in Places(u), e # d
      PROVE  e \in Places(jobtab) /\ At(u, e) = At(jobtab, e)
  <2>1. e[1] \in Slots /\ e[2] \in 1..Len(u[e[1]].procs) /\ e = <<e[1], e[2]>>
        /\ e \in Slots \X (1..MaxProcs)
    BY <1>4, PlaceIs DEF Places
  <2>2. CASE e[1] = thisjob
    <3>1. e[2] # n /\ e[2] \in 1..n
      BY <1>5, <1>8, <2>1, <2>2
    <3>2. e[2] \in 1..Len(jobtab[thisjob].procs) /\ e[2] <= Len(jobtab[thisjob].procs)
      BY <1>6, <3>1
    <3> QED
      BY <1>5, <2>1, <2>2, <3>2 DEF Places, At
  <2>3. CASE e[1] # thisjob
    BY <1>4, <2>1, <2>3 DEF Places, At
  <2> QED
    BY <2>2, <2>3
<1>9. ASSUME NEW e \in Places(jobtab)
      PROVE  e \in Places(u) /\ e # d /\ At(u, e) = At(jobtab, e)
  <2>1. e[1] \in Slots /\ e[2] \in 1..Len(jobtab[e[1]].procs) /\ e = <<e[1], e[2]>>
        /\ e \in Slots \X (1..MaxProcs)
    BY <1>1, PlaceIs DEF Places
  <2>2. CASE e[1] = thisjob
    <3>1. e[2] <= n /\ e[2] # n
      BY <1>6, <2>1, <2>2
    <3> QED
      BY <1>5, <2>1, <2>2, <3>1 DEF Places, At
  <2>3. CASE e[1] # thisjob
    <3>1. e # d
      BY <2>1, <2>3
    <3> QED
      BY <1>4, <1>9, <2>1, <2>3, <3>1 DEF Places, At
  <2> QED
    BY <2>2, <2>3
<1> HIDE DEF d, n
<1>10. /\ Places(u) = Places(jobtab) \cup {d} /\ d \notin Places(jobtab)
       /\ \A e \in Places(jobtab) : At(u, e) = At(jobtab, e)
  BY <1>7, <1>8, <1>9
<1>11. Live(u) = Live(jobtab) \cup {d} /\ Live(jobtab) \subseteq Places(jobtab)
       /\ Places(u) \ Live(u) = Places(jobtab) \ Live(jobtab)
  BY <1>7, <1>10, JobControlAssumption DEF Live, Terminated
<1>12. /\ child'[q].st = "run" /\ child'[q].ev = "none"
       /\ \A p \in Pids : p # q => child'[p] = child[p]
  <2>1. child[q].ev = "none"
    BY <1>1, <1>2 DEF Kids, ChildSet
  <2> QED
    BY <1>1, <1>2, <2>1 DEF ChildSet
<1>13. Kids'
  BY <1>1, <1>12 DEF Kids
<1> DEFINE ch2 == child'
<1>14. /\ ch2[q].st = "run" /\ ch2[q].ev = "none"
       /\ \A p \in Pids : p # q => ch2[p] = child[p]
  BY <1>12
<1> HIDE DEF ch2
<1>15. \A e \in Live(jobtab) : At(jobtab, e).pid \in Pids /\ At(jobtab, e).pid # q
  <2>1. ~Lives(child, q)
    BY <1>2 DEF Lives
  <2> QED
    BY <1>1, <1>11, <2>1, PlaceIs DEF TrackOK
<1>16. \A p \in Pids : p # q => (Lives(ch2, p) <=> Lives(child, p))
  BY <1>14 DEF Lives
<1>17. Lives(ch2, q)
  BY <1>14 DEF Lives
<1>18. TrackOK(u, ch2, disowned)
  <2>1. \A e \in Live(u) : Lives(ch2, At(u, e).pid)
    BY <1>1, <1>7, <1>10, <1>11, <1>15, <1>16, <1>17 DEF TrackOK
  <2>2. \A x, e \in Live(u) : At(u, x).pid = At(u, e).pid => x = e
    BY <1>1, <1>7, <1>10, <1>11, <1>15 DEF TrackOK
  <2>3. \A p \in Pids \ disowned : Lives(ch2, p) => \E e \in Live(u) : At(u, e).pid = p
    <3>1. SUFFICES ASSUME NEW p \in Pids \ disowned, Lives(ch2, p)
                   PROVE  \E e \in Live(u) : At(u, e).pid = p
      OBVIOUS
    <3>2. CASE p = q
      BY <1>7, <1>11, <3>2
    <3>3. CASE p # q
      <4>1. PICK e \in Live(jobtab) : At(jobtab, e).pid = p
        BY <1>1, <1>16, <3>1, <3>3 DEF TrackOK
      <4> QED
        BY <1>10, <1>11, <4>1
    <3> QED
      BY <3>2, <3>3
  <2>4. \A e \in Live(u) : ch2[At(u, e).pid].ev = "none" => At(u, e).st = ch2[At(u, e).pid].st
    BY <1>1, <1>7, <1>10, <1>11, <1>14, <1>15 DEF TrackOK
  <2>5. Stoppable = {} => \A e \in Places(u) : At(u, e).st # "stop"
    BY <1>1, <1>7, <1>10 DEF TrackOK
  <2>6. ASSUME ~PidReuse
        PROVE  /\ \A e \in Places(u) : ch2[At(u, e).pid].st # "new"
               /\ \A x, e \in Places(u) : At(u, x).pid = At(u, e).pid => x = e
               /\ \A e \in Places(u) \ Live(u) : ~Lives(ch2, At(u, e).pid)
    <3>1. \A e \in Places(jobtab) : At(jobtab, e).pid # q /\ At(jobtab, e).pid \in Pids
      BY <1>1, <1>2, <2>6, PlaceIs DEF TrackOK
    <3> QED
      BY <1>1, <1>7, <1>10, <1>11, <1>14, <1>16, <2>6, <3>1 DEF TrackOK
  <2> QED
    BY <2>1, <2>2, <2>3, <2>4, <2>5, <2>6 DEF TrackOK
<1> QED
  BY <1>2, <1>13, <1>18 DEF Track, ch2, TrackOK

\* A job is given up with its processes.
LEMMA DropTracks ==
    ASSUME TInv, NEW j \in Slots, NEW given, child' = child, disowned' = disowned \cup given,
           \A e \in Live(jobtab) : e[1] = j => At(jobtab, e).pid \in given,
           jobtab' = deletejob(Jobs, j).tab
    PROVE  Track'
<1> DEFINE u == deletejob(Jobs, j).tab
           d2 == disowned \cup given
<1>1. JInv /\ Kids /\ TrackOK(jobtab, child, disowned) /\ jobtab \in Table
  BY Facts DEF TInv, Track
<1>2. u \in Table /\ u[j] = FreeJob /\ \A i \in Slots : i # j => u[i] = jobtab[i]
  <2>1. Jobs \in JobsRecord /\ Jobs.tab = jobtab
    BY <1>1, Facts
  <2>2. deletejob(Jobs, j) \in JobsRecord
    BY <2>1, deletejobIs
  <2> QED
    BY <2>1, <2>2, deletejobIs DEF JobsRecord
<1>3. jobtab' = u /\ disowned' = d2
  OBVIOUS
<1> HIDE DEF u, d2
<1>4. ASSUME NEW e \in Places(u) PROVE e \in Places(jobtab) /\ At(u, e) = At(jobtab, e) /\ e[1] # j
  <2>1. e[1] \in Slots /\ e[2] \in 1..Len(u[e[1]].procs) /\ e \in Slots \X (1..MaxProcs)
        /\ e[2] <= Len(u[e[1]].procs)
    BY <1>2, PlaceIs DEF Places
  <2>2. e[1] # j
    BY <1>2, <2>1 DEF FreeJob
  <2>3. u[e[1]] = jobtab[e[1]]
    BY <1>2, <2>1, <2>2
  <2> QED
    BY <2>1, <2>2, <2>3 DEF Places, At
<1>5. ASSUME NEW e \in Places(jobtab), e[1] # j PROVE e \in Places(u) /\ At(u, e) = At(jobtab, e)
  <2>1. e[1] \in Slots
    BY DEF Places
  <2> QED
    BY <1>2, <1>5, <2>1 DEF Places, At
<1>6. /\ Places(u) \subseteq Places(jobtab) /\ \A e \in Places(u) : At(u, e) = At(jobtab, e)
      /\ Live(u) \subseteq Live(jobtab) /\ Places(u) \ Live(u) \subseteq Places(jobtab) \ Live(jobtab)
      /\ \A e \in Live(jobtab) : e[1] # j => e \in Live(u)
      /\ Live(u) \subseteq Places(u)
  BY <1>4, <1>5 DEF Live
<1>7. ASSUME NEW p \in Pids \ d2, Lives(child, p)
      PROVE  \E e \in Live(u) : At(u, e).pid = p
  <2>1. PICK e \in Live(jobtab) : At(jobtab, e).pid = p
    BY <1>1, <1>7 DEF TrackOK, d2
  <2>2. e[1] # j
    BY <1>7, <2>1 DEF d2
  <2> QED
    BY <1>6, <2>1, <2>2
<1>8. TrackOK(u, child, d2)
  BY <1>1, <1>6, <1>7 DEF TrackOK
<1> QED
  BY <1>1, <1>3, <1>8 DEF Track, Kids, TrackOK

LEMMA DisownTracks ==
    ASSUME TInv, RunDisowned \/ \E j \in Named : disown(j)
    PROVE  Track'
<1>1. JInv /\ jobtab \in Table /\ \A j \in Slots : jobtab[j] \in Job
  BY Facts DEF TInv
<1>2. ASSUME NEW e \in Live(jobtab)
      PROVE  At(jobtab, e) \in {r \in ToSet(jobtab[e[1]].procs) : ~Terminated(r.st)}
  <2>1. e \in Places(jobtab) /\ ~Terminated(At(jobtab, e).st)
    BY DEF Live
  <2>2. e[1] \in Slots /\ e[2] \in 1..Len(jobtab[e[1]].procs)
    BY <1>1, <2>1, PlaceIs
  <2>3. At(jobtab, e) \in ToSet(jobtab[e[1]].procs)
    BY <1>1, <2>2, ProcsIs DEF At
  <2> QED
    BY <2>1, <2>3
<1>3. CASE RunDisowned
  <2> DEFINE given == {q.pid : q \in ToSet(jobtab[thisjob].procs)}
  <2>1. jobtab' = deletejob(Jobs, thisjob).tab /\ child' = child /\ disowned' = disowned \cup given
        /\ pc \in {"build", "last"}
    BY <1>3 DEF RunDisowned, BecomeJobs, EndPipeline, kernelVars, Complete, MainAt
  <2>2. thisjob \in Slots
    BY <1>1, <2>1, Facts DEF Building
  <2>3. \A e \in Live(jobtab) : e[1] = thisjob => At(jobtab, e).pid \in given
    BY <1>2
  <2> HIDE DEF given
  <2> QED
    BY <2>1, <2>2, <2>3, DropTracks
<1>4. ASSUME NEW j \in Named, disown(j) PROVE Track'
  <2> DEFINE given == {q.pid : q \in {r \in ToSet(jobtab[j].procs) : ~Terminated(r.st)}}
  <2>1. jobtab' = deletejob(Jobs, j).tab /\ child' = child /\ disowned' = disowned \cup given
    BY <1>4 DEF disown, BecomeJobs, kernelVars
  <2>2. j \in Slots
    BY DEF Named
  <2>3. \A e \in Live(jobtab) : e[1] = j => At(jobtab, e).pid \in given
    BY <1>2
  <2> HIDE DEF given
  <2> QED
    BY <2>1, <2>2, <2>3, DropTracks
<1> QED
  BY <1>3, <1>4

\* A report about p is taken.
Reaped(p, ch) ==
    /\ \A q \in Pids : q # p => ch[q] = child[q]
    /\ ch[p].ev = "none" /\ ch[p].code = child[p].code
    /\ child[p].st # "zombie" => ch[p].st = child[p].st
    /\ child[p].st = "zombie" => ch[p].st = IF PidReuse THEN "new" ELSE "gone"

LEMMA ReapedIs ==
    ASSUME JInv, Kids, NEW p \in Pids, Reap(p)
    PROVE  Reaped(p, child') /\ Kids' /\ child[p].ev # "none"
           /\ disowned' = IF child[p].ev = "exit" THEN disowned \ {p} ELSE disowned
<1>1. child \in [Pids -> ChildSet]
  BY ChildIs
<1>2. /\ child' = [child EXCEPT ![p].ev = "none",
                    ![p].st = IF @ # "zombie" THEN @ ELSE IF PidReuse THEN "new" ELSE "gone"]
      /\ child[p].ev # "none"
      /\ disowned' = IF child[p].ev = "exit" THEN disowned \ {p} ELSE disowned
  BY DEF Reap
<1>3. Reaped(p, child')
  BY <1>1, <1>2 DEF Reaped, ChildSet
<1>4. Kids'
  BY <1>3 DEF Kids, Reaped
<1> QED
  BY <1>2, <1>3, <1>4

\* ... and recorded at the place e.
LEMMA ReportTracks ==
    ASSUME TInv, Numbers, NEW p \in Pids, child[p].ev # "none", NEW ch, Reaped(p, ch),
           NEW e \in Places(jobtab), At(jobtab, e).pid = p,
           \A x \in Live(jobtab) : At(jobtab, x).pid = p => x = e,
           NEW u, Places(u) = Places(jobtab), At(u, e) = [pid |-> p, st |-> StatusOf(p)],
           \A x \in Places(jobtab) : x # e => At(u, x) = At(jobtab, x)
    PROVE  TrackOK(u, ch, IF child[p].ev = "exit" THEN disowned \ {p} ELSE disowned)
<1> DEFINE L == Live(jobtab)
           P == Places(jobtab)
<1>1. JInv /\ Kids /\ TrackOK(jobtab, child, disowned) /\ jobtab \in Table
      /\ child \in [Pids -> ChildSet]
  BY ChildIs, Facts DEF TInv, Track
<1>2. L \subseteq P /\ \A x \in P : At(jobtab, x).pid \in Pids
  BY <1>1, PlaceIs DEF Live
<1>3. \A x \in P : At(u, x).pid = At(jobtab, x).pid
  OBVIOUS
<1>4. \A x \in L : x # e => At(jobtab, x).pid # p
  OBVIOUS
<1>5. \A q \in Pids : q # p => (Lives(ch, q) <=> Lives(child, q))
  BY DEF Lives, Reaped
<1>6. StatusOf(p) \in Statuses
      /\ (child[p].ev = "exit" => StatusOf(p) = child[p].code /\ StatusOf(p) \in Codes)
      /\ (child[p].ev = "stop" => StatusOf(p) = "stop")
      /\ (child[p].ev = "cont" => StatusOf(p) = "run")
  BY <1>1, ReportIs
<1>7. Live(u) = {x \in P : ~Terminated(At(u, x).st)} /\ L = {x \in P : ~Terminated(At(jobtab, x).st)}
  BY DEF Live
<1>8. child[p].ev \in {"exit", "stop", "cont"}
  BY <1>1 DEF ChildSet
<1>9. "stop" \notin Codes /\ "run" \notin Codes
  BY JobControlAssumption
<1>10. CASE child[p].ev = "exit"
  <2> DEFINE given == disowned \ {p}
  <2>1. child[p].st = "zombie" /\ ~Lives(ch, p) /\ (~PidReuse => ch[p].st # "new")
    BY <1>1, <1>10 DEF Kids, Reaped, Lives
  <2>2. Live(u) = L \ {e}
    BY <1>6, <1>7, <1>10 DEF Terminated
  <2> HIDE DEF L
  <2>3. \A x \in Live(u) : x \in L /\ x \in P /\ At(u, x) = At(jobtab, x) /\ At(jobtab, x).pid # p
                           /\ At(jobtab, x).pid \in Pids
    BY <1>2, <1>4, <2>2
  <2>4. /\ \A x \in L : Lives(child, At(jobtab, x).pid)
        /\ \A d, x \in L : At(jobtab, d).pid = At(jobtab, x).pid => d = x
        /\ \A q \in Pids \ disowned : Lives(child, q) => \E x \in L : At(jobtab, x).pid = q
        /\ \A x \in L :
              child[At(jobtab, x).pid].ev = "none" => At(jobtab, x).st = child[At(jobtab, x).pid].st
        /\ Stoppable = {} => \A x \in P : At(jobtab, x).st # "stop"
        /\ ~PidReuse =>
              /\ \A x \in P : child[At(jobtab, x).pid].st # "new"
              /\ \A d, x \in P : At(jobtab, d).pid = At(jobtab, x).pid => d = x
              /\ \A x \in P \ L : ~Lives(child, At(jobtab, x).pid)
    BY <1>1 DEF TrackOK, L
  <2> HIDE DEF P
  <2>5. \A x \in Live(u) : Lives(ch, At(u, x).pid)
    BY <1>5, <2>3, <2>4
  <2>6. \A d, x \in Live(u) : At(u, d).pid = At(u, x).pid => d = x
    BY <2>3, <2>4
  <2>7. \A q \in Pids \ given : Lives(ch, q) => \E x \in Live(u) : At(u, x).pid = q
    <3>1. SUFFICES ASSUME NEW q \in Pids \ given, Lives(ch, q)
                   PROVE  \E x \in Live(u) : At(u, x).pid = q
      OBVIOUS
    <3>2. q # p /\ q \in Pids \ disowned /\ Lives(child, q)
      BY <1>5, <2>1, <3>1
    <3>3. PICK x \in L : At(jobtab, x).pid = q
      BY <2>4, <3>2
    <3>4. x \in Live(u)
      BY <2>2, <3>2, <3>3
    <3> QED
      BY <2>3, <3>3, <3>4
  <2>8. \A x \in Live(u) : ch[At(u, x).pid].ev = "none" => At(u, x).st = ch[At(u, x).pid].st
    BY <2>3, <2>4 DEF Reaped
  <2>9. Stoppable = {} => \A x \in P : At(u, x).st # "stop"
    BY <1>6, <1>9, <1>10, <2>4 DEF P
  <2>10. ~PidReuse =>
           /\ \A x \in P : ch[At(u, x).pid].st # "new"
           /\ \A d, x \in P : At(u, d).pid = At(u, x).pid => d = x
           /\ \A x \in P \ Live(u) : ~Lives(ch, At(u, x).pid)
    <3>1. SUFFICES ASSUME ~PidReuse
          PROVE /\ \A x \in P : ch[At(u, x).pid].st # "new"
                /\ \A d, x \in P : At(u, d).pid = At(u, x).pid => d = x
                /\ \A x \in P \ Live(u) : ~Lives(ch, At(u, x).pid)
      OBVIOUS
    <3>2. \A x \in P : ch[At(u, x).pid].st # "new"
      BY <1>2, <1>3, <2>1, <2>4, <3>1 DEF Reaped
    <3>3. \A d, x \in P : At(u, d).pid = At(u, x).pid => d = x
      BY <1>3, <2>4, <3>1
    <3>4. \A x \in P \ Live(u) : ~Lives(ch, At(u, x).pid)
      <4>1. SUFFICES ASSUME NEW x \in P \ Live(u) PROVE ~Lives(ch, At(jobtab, x).pid)
        BY <1>3
      <4>2. CASE x = e
        BY <2>1, <4>2
      <4>3. CASE x # e
        <5>1. x \in P \ L
          BY <2>2, <4>1, <4>3
        <5>2. ~Lives(child, At(jobtab, x).pid) /\ At(jobtab, x).pid \in Pids
          BY <1>2, <2>4, <3>1, <5>1
        <5> QED
          BY <1>5, <2>1, <5>2
      <4> QED
        BY <4>2, <4>3
    <3> QED
      BY <3>2, <3>3, <3>4
  <2>11. TrackOK(u, ch, given)
    BY <2>5, <2>6, <2>7, <2>8, <2>9, <2>10 DEF TrackOK, P
  <2> QED
    BY <1>10, <2>11
<1>11. CASE child[p].ev \in {"stop", "cont"}
  <2>1. Stoppable # {} /\ ~PidReuse
    BY <1>1, <1>11 DEF Kids, Numbers
  <2>2. child[p].st \in {"run", "stop"} /\ Lives(child, p) /\ Lives(ch, p)
        /\ ch[p].st = child[p].st /\ ch[p].st = StatusOf(p) /\ StatusOf(p) \notin Codes
    BY <1>1, <1>6, <1>9, <1>11 DEF Kids, Reaped, Lives
  <2>3. e \in L
    BY <1>1, <2>1, <2>2 DEF TrackOK
  <2>4. Live(u) = L
    BY <1>7, <2>2, <2>3 DEF Terminated
  <2> HIDE DEF L
  <2>5. /\ \A x \in L : Lives(child, At(jobtab, x).pid)
        /\ \A d, x \in L : At(jobtab, d).pid = At(jobtab, x).pid => d = x
        /\ \A q \in Pids \ disowned : Lives(child, q) => \E x \in L : At(jobtab, x).pid = q
        /\ \A x \in L :
              child[At(jobtab, x).pid].ev = "none" => At(jobtab, x).st = child[At(jobtab, x).pid].st
        /\ \A x \in P : child[At(jobtab, x).pid].st # "new"
        /\ \A d, x \in P : At(jobtab, d).pid = At(jobtab, x).pid => d = x
        /\ \A x \in P \ L : ~Lives(child, At(jobtab, x).pid)
    BY <1>1, <2>1 DEF TrackOK, L
  <2>6. \A q \in Pids : /\ Lives(ch, q) <=> Lives(child, q)
                        /\ ch[q].st = child[q].st
    BY <1>5, <2>2 DEF Reaped
  <2>7. \A x \in L : ch[At(u, x).pid].ev = "none" => At(u, x).st = ch[At(u, x).pid].st
    <3>1. SUFFICES ASSUME NEW x \in L, ch[At(jobtab, x).pid].ev = "none"
                   PROVE  At(u, x).st = ch[At(jobtab, x).pid].st
      BY <1>2, <1>3
    <3>2. CASE x = e
      BY <2>2, <3>2
    <3>3. CASE x # e
      <4>1. At(u, x) = At(jobtab, x) /\ At(jobtab, x).pid # p /\ At(jobtab, x).pid \in Pids
        BY <1>2, <1>4, <3>3
      <4> QED
        BY <2>5, <3>1, <4>1 DEF Reaped
    <3> QED
      BY <3>2, <3>3
  <2>8. /\ \A x \in L : Lives(ch, At(u, x).pid)
        /\ \A d, x \in L : At(u, d).pid = At(u, x).pid => d = x
        /\ \A q \in Pids \ disowned : Lives(ch, q) => \E x \in L : At(u, x).pid = q
    BY <1>2, <1>3, <2>5, <2>6
  <2>9. /\ \A x \in P : ch[At(u, x).pid].st # "new"
        /\ \A d, x \in P : At(u, d).pid = At(u, x).pid => d = x
        /\ \A x \in P \ L : ~Lives(ch, At(u, x).pid)
    BY <1>2, <1>3, <2>5, <2>6
  <2>10. TrackOK(u, ch, disowned)
    BY <2>1, <2>4, <2>7, <2>8, <2>9 DEF TrackOK
  <2> QED
    BY <1>11, <2>10
<1> QED
  BY <1>8, <1>10, <1>11

\* A report about a process that is in no job.
LEMMA UnknownTracks ==
    ASSUME TInv, Numbers, NEW p \in Pids, child[p].ev # "none", NEW ch, Reaped(p, ch),
           \A x \in Live(jobtab) : At(jobtab, x).pid # p
    PROVE  TrackOK(jobtab, ch, IF child[p].ev = "exit" THEN disowned \ {p} ELSE disowned)
<1> DEFINE L == Live(jobtab)
           P == Places(jobtab)
           given == IF child[p].ev = "exit" THEN disowned \ {p} ELSE disowned
<1>1. JInv /\ Kids /\ TrackOK(jobtab, child, disowned) /\ jobtab \in Table
      /\ child \in [Pids -> ChildSet]
  BY ChildIs, Facts DEF TInv, Track
<1>2. L \subseteq P /\ \A x \in P : At(jobtab, x).pid \in Pids
  BY <1>1, PlaceIs DEF Live
<1>3. \A x \in L : At(jobtab, x).pid # p
  OBVIOUS
<1>4. \A q \in Pids : q # p => (Lives(ch, q) <=> Lives(child, q))
  BY DEF Lives, Reaped
<1>5. Lives(ch, p) => child[p].ev # "exit" /\ Lives(child, p)
  BY <1>1 DEF Kids, Reaped, Lives
<1>6. ~PidReuse => (ch[p].st = "new" => child[p].st = "new")
  BY DEF Reaped
<1> HIDE DEF L
<1>7. /\ \A x \in L : Lives(child, At(jobtab, x).pid)
      /\ \A d, x \in L : At(jobtab, d).pid = At(jobtab, x).pid => d = x
      /\ \A q \in Pids \ disowned : Lives(child, q) => \E x \in L : At(jobtab, x).pid = q
      /\ \A x \in L :
            child[At(jobtab, x).pid].ev = "none" => At(jobtab, x).st = child[At(jobtab, x).pid].st
      /\ Stoppable = {} => \A x \in P : At(jobtab, x).st # "stop"
      /\ ~PidReuse =>
            /\ \A x \in P : child[At(jobtab, x).pid].st # "new"
            /\ \A d, x \in P : At(jobtab, d).pid = At(jobtab, x).pid => d = x
            /\ \A x \in P \ L : ~Lives(child, At(jobtab, x).pid)
  BY <1>1 DEF TrackOK, L
<1> HIDE DEF P, given
<1>8. \A x \in L : Lives(ch, At(jobtab, x).pid)
  BY <1>2, <1>3, <1>4, <1>7
<1>9. \A q \in Pids \ given : Lives(ch, q) => \E x \in L : At(jobtab, x).pid = q
  <2>1. SUFFICES ASSUME NEW q \in Pids \ given, Lives(ch, q) PROVE \E x \in L : At(jobtab, x).pid = q
    OBVIOUS
  <2>2. q \in Pids \ disowned /\ Lives(child, q)
    BY <1>4, <1>5, <2>1 DEF given
  <2> QED
    BY <1>7, <2>2
<1>10. \A x \in L : ch[At(jobtab, x).pid].ev = "none" => At(jobtab, x).st = ch[At(jobtab, x).pid].st
  BY <1>2, <1>3, <1>7 DEF Reaped
<1>11. ~PidReuse =>
          /\ \A x \in P : ch[At(jobtab, x).pid].st # "new"
          /\ \A x \in P \ L : ~Lives(ch, At(jobtab, x).pid)
  BY <1>2, <1>4, <1>5, <1>6, <1>7 DEF Reaped
<1> QED
  BY <1>7, <1>8, <1>9, <1>10, <1>11 DEF TrackOK, L, P, given

\* The processes of the table once a report is recorded.
LEMMA RecordedAt ==
    ASSUME JInv, NEW p \in Pids, child[p].ev # "none", Entries(jobtab, p) # {}
    PROVE  /\ Found(p) \in Places(jobtab) /\ At(jobtab, Found(p)).pid = p
           /\ Recorded(p).tab \in Table /\ Places(Recorded(p).tab) = Places(jobtab)
           /\ At(Recorded(p).tab, Found(p)) = [pid |-> p, st |-> StatusOf(p)]
           /\ \A x \in Places(jobtab) : x # Found(p) => At(Recorded(p).tab, x) = At(jobtab, x)
<1> DEFINE e == Found(p)
           j == e[1]
           k == e[2]
           u == Recorded(p).tab
<1>1. /\ j \in Slots /\ k \in 1..Len(jobtab[j].procs)
      /\ Recorded(p) \in JobsRecord
      /\ Len(u[j].procs) = Len(jobtab[j].procs)
      /\ \A i \in 1..Len(jobtab[j].procs) :
            u[j].procs[i] = IF i = k THEN [pid |-> p, st |-> StatusOf(p)] ELSE jobtab[j].procs[i]
      /\ \A i \in Slots : i # j => u[i] = jobtab[i]
  BY RecordedIs
<1>2. e \in Entries(jobtab, p)
  BY findprocIs DEF Found
<1>3. e \in Places(jobtab) /\ At(jobtab, e).pid = p
  BY <1>2, EntryPlace
<1>4. e = <<j, k>> /\ jobtab \in Table
  BY <1>3, Facts, PlaceIs
<1> HIDE DEF e, u
<1>5. Places(u) = Places(jobtab)
  BY <1>1 DEF Places
<1>6. At(u, e) = [pid |-> p, st |-> StatusOf(p)]
  BY <1>1 DEF At
<1>7. ASSUME NEW x \in Places(jobtab), x # e PROVE At(u, x) = At(jobtab, x)
  <2>1. x[1] \in Slots /\ x[2] \in 1..Len(jobtab[x[1]].procs) /\ x = <<x[1], x[2]>>
    BY <1>4, PlaceIs
  <2>2. CASE x[1] = j
    <3>1. x[2] # k
      BY <1>4, <1>7, <2>1, <2>2
    <3> QED
      BY <1>1, <2>1, <2>2, <3>1 DEF At
  <2>3. CASE x[1] # j
    BY <1>1, <2>1, <2>3 DEF At
  <2> QED
    BY <2>2, <2>3
<1>8. u \in Table
  BY <1>1 DEF JobsRecord, u
<1> QED
  BY <1>3, <1>5, <1>6, <1>7, <1>8 DEF e, u

LEMMA ReapTracks ==
    ASSUME TInv, Numbers, NEW p \in Pids, Reap(p)
    PROVE  Track'
<1> DEFINE ch == child'
           given == IF child[p].ev = "exit" THEN disowned \ {p} ELSE disowned
<1>1. JInv /\ Track /\ Kids /\ jobtab \in Table
  BY Facts DEF TInv, Track
<1>2. Reaped(p, ch) /\ Kids' /\ child[p].ev # "none" /\ disowned' = given
  BY <1>1, ReapedIs
<1> HIDE DEF ch
<1>3. CASE Entries(jobtab, p) = {}
  <2>1. \A x \in Live(jobtab) : At(jobtab, x).pid # p
    BY <1>1, <1>3, LiveEntry
  <2>2. TrackOK(jobtab, ch, given)
    BY <1>2, <2>1, UnknownTracks
  <2>3. jobtab' = jobtab
    BY <1>3 DEF Reap, jobVars
  <2> QED
    BY <1>2, <2>2, <2>3 DEF Track, ch, TrackOK
<1>4. CASE Entries(jobtab, p) # {}
  <2> DEFINE e == Found(p)
             u == Recorded(p).tab
  <2>1. /\ e \in Places(jobtab) /\ At(jobtab, e).pid = p
        /\ u \in Table /\ Places(u) = Places(jobtab)
        /\ At(u, e) = [pid |-> p, st |-> StatusOf(p)]
        /\ \A x \in Places(jobtab) : x # e => At(u, x) = At(jobtab, x)
    BY <1>1, <1>2, <1>4, RecordedAt
  <2>2. \A x \in Live(jobtab) : At(jobtab, x).pid = p => x = e
    BY <1>1, FindsLive DEF Found
  <2>3. jobtab' \in Table /\ Trimmed(u, jobtab')
    <3> DEFINE j == e[1]
               js == Recorded(p)
               r == update_job(js, j, thisjob)
    <3>1. /\ j \in Slots /\ e[2] \in 1..Len(jobtab[j].procs) /\ "DONE" \notin jobtab[j].stat
          /\ js \in JobsRecord
          /\ js.tab[j].stat = jobtab[j].stat
          /\ Len(js.tab[j].procs) = Len(jobtab[j].procs)
      BY <1>1, <1>2, <1>4, RecordedIs
    <3>2. BecomeJobs(r)
      BY <1>4 DEF Reap, RecordStatus, Found, Recorded
    <3> HIDE DEF e, js
    <3>3. JobOK(jobtab[j]) /\ Len(jobtab[j].procs) <= MaxProcs /\ jobtab[j] \in Job /\ js.tab[j] \in Job
      BY <1>1, <3>1, Facts DEF ShapeOf, JobsRecord, Table
    <3>4. js.tab[j].procs # <<>>
      BY <3>1, <3>3, ProcsIs
    <3>5. "DONE" \notin js.tab[j].stat /\ JobOK(js.tab[j]) /\ Len(js.tab[j].procs) <= MaxProcs
      BY <3>1, <3>3, <3>4, ProcsIs DEF JobOK
    <3>6. /\ r \in JobsRecord
          /\ \A i \in Slots : i # j => r.tab[i] = js.tab[i]
          /\ r.tab[j].procs = js.tab[j].procs \/ (r.tab[j] = FreeJob /\ Ended(js.tab[j]))
      BY <3>1, <3>4, <3>5, UpdatedJob
    <3>7. jobtab' = r.tab
      BY <3>2 DEF BecomeJobs
    <3> HIDE DEF r
    <3>8. FreeJob.procs = <<>>
      BY DEF FreeJob
    <3>9. u = js.tab
      BY DEF js
    <3> QED
      BY <3>6, <3>7, <3>8, <3>9 DEF Trimmed, JobsRecord
  <2> HIDE DEF e, u
  <2>4. TrackOK(u, ch, given)
    BY <1>2, <2>1, <2>2, ReportTracks
  <2> DEFINE v == jobtab'
             g == given
  <2>5. v \in Table /\ Trimmed(u, v) /\ TrackOK(u, ch, g)
    BY <2>3, <2>4
  <2>50. disowned' = g
    BY <1>2
  <2> HIDE DEF v, g
  <2>6. TrackOK(v, ch, g)
    BY <2>1, <2>5, TrimKeeps
  <2> QED
    BY <1>2, <2>6, <2>50 DEF Track, ch, TrackOK, v
<1> QED
  BY <1>3, <1>4

TrackStays(u) == child' = child /\ disowned' = disowned /\ jobtab' = u /\ u \in Table /\ Trimmed(jobtab, u)

LEMMA StaysTracks ==
    ASSUME TInv, NEW u, TrackStays(u)
    PROVE  Track'
BY TrimTracks DEF TrackStays

\* Steps that leave the table alone.
LEMMA SameTracks ==
    ASSUME TInv, child' = child, disowned' = disowned, jobtab' = jobtab
    PROVE  Track'
<1>1. jobtab \in Table
  BY Facts DEF TInv
<1>2. TrackStays(jobtab)
  BY <1>1 DEF TrackStays, Trimmed
<1> QED
  BY <1>2, StaysTracks

\* An entry is taken for a pipeline or a builtin.
LEMMA TakeTracks ==
    ASSUME TInv, BuiltinStart \/ \E how \in Pipes : StartPipeline(how)
    PROVE  Track'
<1>1. PICK s \in {{"INUSE"}, {"INUSE", "BUILTIN"}} :
         jobtab' = [jobtab EXCEPT ![initjob].stat = s] /\ initjob # 0
  BY DEF BuiltinStart, StartPipeline
<1>2. s \in SUBSET Flags /\ "INUSE" \in s /\ "DONE" \notin s
  BY DEF Flags
<1>3. JInv /\ child' = child /\ disowned' = disowned
  BY DEF TInv, BuiltinStart, StartPipeline, kernelVars
<1>4. /\ initjob \in Slots /\ jobtab[initjob].stat = {} /\ jobtab' \in Table
      /\ jobtab'[initjob] = [stat |-> s, procs |-> <<>>]
      /\ \A j \in Slots : j # initjob => jobtab'[j] = jobtab[j]
  BY <1>1, <1>2, <1>3, TakeSlot
<1>5. jobtab[initjob].procs = <<>>
  BY <1>3, <1>4, Facts DEF ShapeOf, JobOK
<1>6. Trimmed(jobtab, jobtab')
  BY <1>4, <1>5 DEF Trimmed
<1> QED
  BY <1>3, <1>4, <1>6, StaysTracks DEF TrackStays

\* Printing jobs.
LEMMA PrintTracks ==
    ASSUME TInv, preprompt \/ BuiltinReady \/ jobs
    PROVE  Track'
<1>1. JInv /\ child' = child /\ disowned' = disowned /\ jobtab \in Table
  BY Facts DEF TInv, preprompt, BuiltinReady, jobs, kernelVars
<1>2. PICK js \in JobsRecord : BecomeJobs(js) /\ Tidied(jobtab, js.tab)
  <2>1. Tidied(jobtab, jobtab)
    BY DEF Tidied, Kept
  <2>2. CASE preprompt
    <3>1. BecomeJobs(printjobs(Jobs, thisjob, FALSE))
      BY <2>2 DEF preprompt, scanjobs
    <3> QED
      BY <1>1, <3>1, Facts, scanjobsIs
  <2>3. CASE jobs
    <3>1. BecomeJobs(printjobs(Jobs, thisjob, TRUE))
      BY <2>3 DEF jobs
    <3> QED
      BY <1>1, <3>1, Facts, scanjobsIs
  <2>4. CASE BuiltinReady
    <3> DEFINE js == IF NOTIFY THEN Jobs ELSE printjobs(Jobs, thisjob, FALSE)
    <3>1. BecomeJobs(setcurjob(js, thisjob))
      BY <2>4 DEF BuiltinReady, scanjobs
    <3>2. js \in JobsRecord /\ Tidied(jobtab, js.tab)
      BY <1>1, <2>1, Facts, scanjobsIs
    <3> HIDE DEF js
    <3>3. setcurjob(js, thisjob) \in JobsRecord /\ setcurjob(js, thisjob).tab = js.tab
      BY <3>2, setcurjobIs
    <3> QED
      BY <3>1, <3>2, <3>3
  <2> QED
    BY <2>2, <2>3, <2>4
<1>3. jobtab' = js.tab /\ js.tab \in Table
  BY <1>2 DEF BecomeJobs, JobsRecord
<1>4. Trimmed(jobtab, js.tab)
  <2>1. ASSUME NEW j \in Slots
        PROVE  js.tab[j].procs = jobtab[j].procs \/ (js.tab[j].procs = <<>> /\ Ended(jobtab[j]))
    <3>1. jobtab[j] \in Job /\ js.tab[j] \in Job /\ Kept(jobtab[j], js.tab[j]) /\ JobOK(jobtab[j])
      BY <1>1, <1>2, <1>3, Facts DEF Tidied, Table, ShapeOf
    <3>2. FreeJob.procs = <<>>
      BY DEF FreeJob
    <3> QED
      BY <3>1, <3>2, TidyJob
  <2> QED
    BY <2>1 DEF Trimmed
<1> QED
  BY <1>1, <1>3, <1>4, StaysTracks DEF TrackStays

\* A pipeline goes to the background, a wait begins, a builtin ends.
LEMMA MoreTracks ==
    ASSUME TInv, RunInBackground \/ EnterWait \/ BuiltinExit
    PROVE  Track'
<1>1. JInv /\ child' = child /\ disowned' = disowned /\ jobtab \in Table
  BY Facts DEF TInv, RunInBackground, EnterWait, BuiltinExit, EndPipeline, kernelVars
<1>2. FreeJob.procs = <<>>
  BY DEF FreeJob
<1>3. CASE RunInBackground
  <2>1. thisjob \in Slots /\ jobtab' = spawnjob.tab
    BY <1>1, <1>3, Facts DEF RunInBackground, Complete, MainAt, BecomeJobs, Building
  <2>2. spawnjob \in JobsRecord /\ spawnjob.tab[thisjob].procs = jobtab[thisjob].procs
        /\ \A i \in Slots : i # thisjob => spawnjob.tab[i] = jobtab[i]
    BY <1>1, <2>1, spawnjobIs
  <2>3. TrackStays(spawnjob.tab)
    BY <1>1, <2>1, <2>2 DEF TrackStays, Trimmed, JobsRecord
  <2> QED
    BY <2>3, StaysTracks
<1>4. CASE BuiltinExit
  <2>1. binslot \in Slots /\ jobtab[binslot] = BuiltinJob
    BY <1>1, <1>4, Facts DEF BuiltinExit, MainAt, JInv, Control, ShapeOf
  <2> DEFINE r == deletejob(Jobs, binslot)
  <2>2. r \in JobsRecord /\ r.tab[binslot] = FreeJob
        /\ \A i \in Slots : i # binslot => r.tab[i] = jobtab[i]
    BY <1>1, <2>1, Facts, deletejobIs
  <2>3. jobtab' = r.tab
    BY <1>4 DEF BuiltinExit, BecomeJobs
  <2> HIDE DEF r
  <2>4. TrackStays(r.tab)
    BY <1>1, <1>2, <2>1, <2>2, <2>3 DEF TrackStays, Trimmed, JobsRecord, BuiltinJob
  <2> QED
    BY <2>4, StaysTracks
<1>5. CASE EnterWait /\ op = "wait_pid"
  BY <1>1, <1>5, SameTracks DEF EnterWait, jobVars
<1>6. CASE EnterWait /\ op # "wait_pid"
  <2>1. target \in Slots
    BY <1>1, <1>6, Facts DEF EnterWait, MainAt, JInv, Control, Building, Waits
  <2>2. JobOK(jobtab[target]) /\ jobtab[target] \in Job
    BY <1>1, <2>1, Facts DEF ShapeOf
  <2>3. CASE HasProcs(jobtab, target)
    <3> DEFINE s == jobtab[target].stat \cup {"LOCKED"}
               js == [Jobs EXCEPT !.tab[target].stat = s]
               r == IF "CHANGED" \in jobtab[target].stat THEN printjob(js, target, thisjob) ELSE js
    <3>1. BecomeJobs(r)
      <4>1. [Jobs EXCEPT !.tab[target].stat = @ \cup {"LOCKED"}] = js
        BY <1>1, Facts
      <4> QED
        BY <1>6, <2>3, <4>1 DEF EnterWait
    <3>2. s \in SUBSET Flags
      BY <2>2 DEF Job, Flags
    <3>20. "DONE" \in s => "DONE" \in jobtab[target].stat
      OBVIOUS
    <3> HIDE DEF s
    <3>3. /\ js \in JobsRecord
          /\ js.tab[target].stat = s /\ js.tab[target].procs = jobtab[target].procs
          /\ \A i \in Slots : i # target => js.tab[i] = jobtab[i]
      BY <1>1, <2>1, <3>2, Facts, StatusSet
    <3> HIDE DEF js
    <3>5. r \in JobsRecord /\ Kept(js.tab[target], r.tab[target])
          /\ \A i \in Slots : i # target => r.tab[i] = js.tab[i]
      BY <2>1, <3>3, printjobIs DEF Kept
    <3>6. jobtab' = r.tab
      BY <3>1 DEF BecomeJobs
    <3> HIDE DEF r
    <3>7. r.tab[target].procs = jobtab[target].procs
          \/ (r.tab[target].procs = <<>> /\ Ended(jobtab[target]))
      BY <1>2, <2>2, <3>3, <3>5, <3>20 DEF Kept, JobOK
    <3>8. TrackStays(r.tab)
      BY <1>1, <3>3, <3>5, <3>6, <3>7 DEF TrackStays, Trimmed, JobsRecord
    <3> QED
      BY <3>8, StaysTracks
  <2>4. CASE ~HasProcs(jobtab, target)
    <3> DEFINE r == deletejob(Jobs, target)
    <3>1. BecomeJobs(r)
      BY <1>6, <2>4 DEF EnterWait
    <3>2. r \in JobsRecord /\ r.tab[target] = FreeJob
          /\ \A i \in Slots : i # target => r.tab[i] = jobtab[i]
      BY <1>1, <2>1, Facts, deletejobIs
    <3> HIDE DEF r
    <3>3. jobtab' = r.tab /\ jobtab[target].procs = <<>>
      BY <2>4, <3>1 DEF BecomeJobs, HasProcs
    <3>4. TrackStays(r.tab)
      BY <1>1, <1>2, <3>2, <3>3 DEF TrackStays, Trimmed, JobsRecord
    <3> QED
      BY <3>4, StaysTracks
  <2> QED
    BY <2>3, <2>4
<1> QED
  BY <1>3, <1>4, <1>5, <1>6

\* fg, bg and wait; wait for a process.
LEMMA ContinueTracks ==
    ASSUME TInv, NEW j \in Slots, j # binslot, ~Building, killjb(j), disowned' = disowned,
           NEW func, BecomeJobs(makerunning(Jobs, j)) \/ BecomeJobs(Resumed(j, func))
                     \/ BecomeJobs(printjob(Resumed(j, func), j, thisjob)),
           "STOPPED" \in jobtab[j].stat
    PROVE  Track'
<1> DEFINE u == makerunning(Jobs, j).tab
           r == Resumed(j, func)
           v == jobtab'
           ch == child'
<1>1. JInv /\ binslot \in 0..NJobs
  BY Facts DEF TInv
<1>2. Kids' /\ TrackOK(u, ch, disowned)
  BY ResumeTracks
<1>3. r \in JobsRecord /\ r.tab = u /\ ShapeOf(u, thisjob, binslot, FALSE)
  BY <1>1, ResumedIs
<1>4. u \in Table
  BY <1>3 DEF JobsRecord
<1>40. /\ printjob(r, j, thisjob) \in JobsRecord /\ Kept(r.tab[j], printjob(r, j, thisjob).tab[j])
       /\ \A i \in Slots : i # j => printjob(r, j, thisjob).tab[i] = r.tab[i]
  <2> HIDE DEF r
  <2> QED
    BY <1>3, printjobIs
<1>41. v = u \/ v = printjob(r, j, thisjob).tab
  BY <1>3 DEF BecomeJobs
<1> HIDE DEF u, r, v, ch
<1>5. v \in Table /\ Trimmed(u, v)
  <2>1. CASE v = u
    BY <1>4, <2>1 DEF Trimmed
  <2>2. CASE v = printjob(r, j, thisjob).tab
    <3>1. v \in Table /\ Kept(u[j], v[j]) /\ \A i \in Slots : i # j => v[i] = u[i]
      BY <1>3, <1>40, <2>2 DEF JobsRecord
    <3>2. u[j] \in Job /\ v[j] \in Job /\ JobOK(u[j])
      BY <1>3, <1>4, <3>1 DEF Table, ShapeOf
    <3>3. v[j].procs = u[j].procs \/ (v[j].procs = <<>> /\ Ended(u[j]))
      <4>1. FreeJob.procs = <<>>
        BY DEF FreeJob
      <4> QED
        BY <3>1, <3>2, <4>1, TidyJob
    <3> QED
      BY <3>1, <3>3 DEF Trimmed
  <2> QED
    BY <1>41, <2>1, <2>2
<1>6. TrackOK(v, ch, disowned)
  BY <1>2, <1>4, <1>5, TrimKeeps
<1> QED
  BY <1>2, <1>6 DEF Track, TrackOK, v, ch

LEMMA TakeUpTracks ==
    ASSUME TInv, \/ \E j \in Named : fg(j) \/ bg(j) \/ wait(j)
                 \/ \E p \in Pids : wait_pid(p)
    PROVE  Track'
<1>1. JInv /\ disowned' = disowned /\ pc = "bin"
  BY DEF TInv, fg, bg, wait, wait_pid, MainAt
<1>2. ~Building /\ thisjob = binslot
  BY <1>1 DEF Building, JInv, Control, Builtins
<1>3. ASSUME NEW j \in Slots, j # binslot, ContinueIfStopped(j), NEW func,
             \/ "STOPPED" \notin jobtab[j].stat /\ BecomeJobs(Jobs)
             \/ "STOPPED" \in jobtab[j].stat /\ BecomeJobs(makerunning(Jobs, j))
             \/ BecomeJobs(Resumed(j, func))
             \/ BecomeJobs(printjob(Resumed(j, func), j, thisjob))
      PROVE  Track'
  <2>1. CASE "STOPPED" \in jobtab[j].stat
    <3>1. killjb(j)
      BY <1>3, <2>1 DEF ContinueIfStopped
    <3> QED
      BY <1>1, <1>2, <1>3, <2>1, <3>1, ContinueTracks
  <2>2. CASE "STOPPED" \notin jobtab[j].stat
    <3>1. child' = child /\ jobtab \in Table
      BY <1>1, <1>3, <2>2, Facts DEF ContinueIfStopped, kernelVars
    <3> DEFINE r == Resumed(j, func)
    <3>2. r \in JobsRecord /\ r.tab = jobtab
      BY <1>1, <1>2, <1>3, <2>2, ResumedIs
    <3> HIDE DEF r
    <3>3. /\ printjob(r, j, thisjob) \in JobsRecord /\ Kept(r.tab[j], printjob(r, j, thisjob).tab[j])
          /\ \A i \in Slots : i # j => printjob(r, j, thisjob).tab[i] = r.tab[i]
      BY <1>3, <3>2, printjobIs
    <3>4. jobtab' = jobtab \/ jobtab' = printjob(r, j, thisjob).tab
      BY <1>1, <1>3, <2>2, <3>2, Facts DEF BecomeJobs, r
    <3>5. CASE jobtab' = jobtab
      BY <1>1, <3>1, <3>5, SameTracks
    <3>6. CASE jobtab' = printjob(r, j, thisjob).tab
      <4> DEFINE v == printjob(r, j, thisjob).tab
      <4>1. v \in Table /\ Kept(jobtab[j], v[j]) /\ \A i \in Slots : i # j => v[i] = jobtab[i]
        BY <3>2, <3>3 DEF JobsRecord
      <4>2. jobtab' = v
        BY <3>6
      <4> HIDE DEF v
      <4>3. jobtab[j] \in Job /\ v[j] \in Job /\ JobOK(jobtab[j])
        BY <1>1, <1>3, <4>1, Facts DEF Table, ShapeOf
      <4>4. v[j].procs = jobtab[j].procs \/ (v[j].procs = <<>> /\ Ended(jobtab[j]))
        <5>1. FreeJob.procs = <<>>
          BY DEF FreeJob
        <5> QED
          BY <4>1, <4>3, <5>1, TidyJob
      <4>5. TrackStays(v)
        BY <1>1, <3>1, <4>1, <4>2, <4>4 DEF TrackStays, Trimmed
      <4> QED
        BY <4>5, StaysTracks
    <3> QED
      BY <3>4, <3>5, <3>6
  <2> QED
    BY <2>1, <2>2
<1>4. CASE \E j \in Named : fg(j) \/ bg(j) \/ wait(j)
  <2>1. PICK j \in Named : fg(j) \/ bg(j) \/ wait(j)
    BY <1>4
  <2>2. j \in Slots /\ j # binslot
    BY <1>1, <1>2, NamedIs
  <2>3. ContinueIfStopped(j)
    BY <2>1 DEF fg, bg, wait
  <2>4. CASE fg(j)
    <3>1. BecomeJobs(printjob(Resumed(j, "fg"), j, thisjob))
      BY <2>4 DEF fg
    <3> QED
      BY <1>3, <2>2, <2>3, <3>1
  <2>5. CASE wait(j)
    <3>1. BecomeJobs(Resumed(j, "wait"))
      BY <2>5 DEF wait
    <3> QED
      BY <1>3, <2>2, <2>3, <3>1
  <2>6. CASE bg(j) /\ "STOPPED" \in jobtab[j].stat
    <3>1. BecomeJobs(printjob(Resumed(j, "bg"), j, thisjob))
      BY <2>6 DEF bg
    <3> QED
      BY <1>3, <2>2, <2>3, <3>1
  <2>7. CASE bg(j) /\ "STOPPED" \notin jobtab[j].stat
    <3>1. UNCHANGED jobVars
      BY <2>7 DEF bg
    <3>2. BecomeJobs(Jobs)
      BY <1>1, <3>1, Facts DEF BecomeJobs, jobVars
    <3> QED
      BY <1>3, <2>2, <2>3, <2>7, <3>2
  <2> QED
    BY <2>1, <2>4, <2>5, <2>6, <2>7
<1>5. CASE \E p \in Pids : wait_pid(p)
  <2>1. PICK p \in Pids : wait_pid(p)
    BY <1>5
  <2>2. CASE Entries(jobtab, p) = {}
    BY <1>1, <2>1, <2>2, SameTracks DEF wait_pid, kernelVars, jobVars
  <2>3. CASE Entries(jobtab, p) # {}
    <3> DEFINE e == findproc(jobtab, p)
               j == e[1]
    <3>1. e \in Entries(jobtab, p) /\ j \in Slots
      BY <2>3, findprocIs
    <3>2. ContinueIfStopped(j)
          /\ BecomeJobs(IF "STOPPED" \in jobtab[j].stat THEN makerunning(Jobs, j) ELSE Jobs)
      BY <2>1, <2>3 DEF wait_pid
    <3> HIDE DEF e
    <3>3. e[2] \in 1..Len(jobtab[j].procs)
      <4>1. e \in Places(jobtab) /\ jobtab \in Table
        BY <1>1, <3>1, EntryPlace, Facts
      <4> QED
        BY <4>1, PlaceIs
    <3>4. j # binslot
      BY <1>1, <3>1, <3>3, Facts DEF ShapeOf, BuiltinJob
    <3>5. \/ "STOPPED" \notin jobtab[j].stat /\ BecomeJobs(Jobs)
          \/ "STOPPED" \in jobtab[j].stat /\ BecomeJobs(makerunning(Jobs, j))
      BY <3>2
    <3> HIDE DEF j
    <3> QED
      BY <1>3, <3>1, <3>2, <3>4, <3>5
  <2> QED
    BY <2>2, <2>3
<1> QED
  BY <1>4, <1>5

LEMMA TrackKept == Numbers /\ TInv /\ [Next]_vars => TInv'
<1> SUFFICES ASSUME Numbers, TInv, [Next]_vars PROVE Track'
  BY NextKeeps DEF TInv
<1>1. CASE UNCHANGED vars
  BY <1>1, SameTracks DEF vars, kernelVars, jobVars
<1>2. CASE KernelStep
  BY <1>2, KernelTracks
<1>3. CASE Handler
  <2>1. CASE \E p \in Pids : Reap(p)
    BY <2>1, ReapTracks
  <2>2. CASE Deliver \/ ReapDone
    BY <2>2, SameTracks DEF Deliver, ReapDone, kernelVars, jobVars
  <2> QED
    BY <1>3, <2>1, <2>2 DEF Handler
<1>4. CASE Pipeline
  <2>1. CASE \E how \in {"sync", "async", "disown"} : StartPipeline(how)
    BY <2>1, TakeTracks DEF Pipes
  <2>2. CASE \E p \in Pids : Fork(p)
    BY <2>2, ForkTracks
  <2>3. CASE \/ PipelineFails \/ PipelineFailed
             \/ SubstBegin \/ SubstEnd \/ WaitPipeline \/ WaitPipelineEnds
    BY <2>3, SameTracks DEF PipelineFails, PipelineFailed, SubstBegin, SubstEnd, WaitPipeline,
                            WaitPipelineEnds, EndPipeline, kernelVars, jobVars
  <2>4. CASE RunInBackground
    BY <2>4, MoreTracks
  <2>5. CASE RunDisowned
    BY <2>5, DisownTracks
  <2>6. CASE preprompt
    BY <2>6, PrintTracks
  <2> QED
    BY <1>4, <2>1, <2>2, <2>3, <2>4, <2>5, <2>6 DEF Pipeline
<1>5. CASE Builtin
  <2>1. CASE BuiltinStart
    BY <2>1, TakeTracks
  <2>2. CASE BuiltinReady \/ jobs
    BY <2>2, PrintTracks
  <2>3. CASE wait_all \/ WaitAllEnds \/ WaitInterrupted \/ WaitEnds \/ WaitPidEnds \/ BuiltinUnqueue
    BY <2>3, SameTracks DEF wait_all, WaitAllEnds, WaitInterrupted, WaitEnds, WaitPidEnds,
                            BuiltinUnqueue, kernelVars, jobVars
  <2>4. CASE \E j \in Named : fg(j) \/ bg(j) \/ wait(j) \/ disown(j)
    BY <2>4, TakeUpTracks, DisownTracks
  <2>5. CASE \E p \in Pids : wait_pid(p)
    BY <2>5, TakeUpTracks
  <2>6. CASE BuiltinExit
    BY <2>6, MoreTracks
  <2> QED
    BY <1>5, <2>1, <2>2, <2>3, <2>4, <2>5, <2>6 DEF Builtin
<1>6. CASE Waiting
  BY <1>6, MoreTracks, SameTracks DEF Waiting, TestWait, Suspend, kernelVars, jobVars
<1> QED
  BY <1>1, <1>2, <1>3, <1>4, <1>5, <1>6 DEF Next

LEMMA TrackInit == Init => TInv
<1> SUFFICES ASSUME Init PROVE Track
  BY InitHolds DEF TInv
<1>1. \A p \in Pids : child[p].st = "new" /\ child[p].ev = "none"
  BY DEF Init
<1>2. Places(jobtab) = {} /\ Live(jobtab) = {}
  <2>1. \A j \in Slots : Len(jobtab[j].procs) = 0
    BY DEF Init, FreeJob
  <2>2. ASSUME NEW e \in Places(jobtab) PROVE FALSE
    <3>1. e[1] \in Slots /\ e[2] \in 1..MaxProcs /\ e[2] <= Len(jobtab[e[1]].procs)
      BY DEF Places
    <3> QED
      BY <2>1, <3>1, JobControlAssumption
  <2> QED
    BY <2>2 DEF Live
<1> QED
  BY <1>1, <1>2 DEF Track, Kids, TrackOK, Lives

\* The shell's entries and the kernel's children fit together, always, where
\* the kernel does not give out numbers again or no child is ever stopped.
THEOREM InductiveTrack ==
    ASSUME Numbers
    PROVE  Spec => []TInv
<1>1. Init => TInv
  BY TrackInit
<1>2. TInv /\ [Next]_vars => TInv'
  BY TrackKept
<1> QED
  BY <1>1, <1>2, PTL DEF Spec

LEMMA TrackedIs ==
    ASSUME TInv, NEW p \in Pids
    PROVE  Tracked(p) = {e \in Live(jobtab) : At(jobtab, e).pid = p}
<1>1. JInv
  BY DEF TInv
<1>2. ASSUME NEW e \in Tracked(p) PROVE e \in Live(jobtab) /\ At(jobtab, e).pid = p
  <2>1. e \in Entries(jobtab, p) /\ ~Terminated(jobtab[e[1]].procs[e[2]].st)
    BY DEF Tracked
  <2> QED
    BY <2>1, EntryPlace DEF Live, At
<1>3. ASSUME NEW e \in Live(jobtab), At(jobtab, e).pid = p PROVE e \in Tracked(p)
  <2>1. e \in Entries(jobtab, p)
    BY <1>1, <1>3, LiveEntry
  <2> QED
    BY <2>1 DEF Live, At, Tracked
<1> QED
  BY <1>2, <1>3

\* The shell never loses sight of a child.
THEOREM NoChildLost ==
    ASSUME Numbers
    PROVE  Spec => []LiveProcsTracked
<1>1. TInv => LiveProcsTracked
  <2>1. SUFFICES ASSUME TInv, NEW p \in Pids \ disowned, Alive(p)
                 PROVE  Cardinality(Tracked(p)) = 1
    BY DEF LiveProcsTracked
  <2>2. TrackOK(jobtab, child, disowned) /\ Lives(child, p)
    BY <2>1 DEF TInv, Track, Alive, Lives
  <2>3. PICK e \in Live(jobtab) : At(jobtab, e).pid = p
    BY <2>2 DEF TrackOK
  <2>4. \A d \in Live(jobtab) : At(jobtab, d).pid = p => d = e
    BY <2>2, <2>3 DEF TrackOK
  <2>5. Tracked(p) = {d \in Live(jobtab) : At(jobtab, d).pid = p}
    BY <2>1, TrackedIs
  <2>6. Tracked(p) = {e}
    BY <2>3, <2>4, <2>5
  <2> QED
    BY <2>6, FS_Singleton
<1> QED
  BY <1>1, InductiveTrack, PTL

\* What the shell knows of a child is what the child does, once all reports
\* about it are in.
THEOREM StatusIsCurrent ==
    ASSUME Numbers
    PROVE  Spec => []StatusCurrent
<1>1. TInv => StatusCurrent
  <2>1. SUFFICES ASSUME TInv, NEW p \in Pids, NEW e \in Tracked(p), child[p].ev = "none"
                 PROVE  jobtab[e[1]].procs[e[2]].st = child[p].st
    BY DEF StatusCurrent
  <2>2. e \in Live(jobtab) /\ At(jobtab, e).pid = p
    BY <2>1, TrackedIs
  <2>3. At(jobtab, e).st = child[p].st
    BY <2>1, <2>2 DEF TInv, Track, TrackOK
  <2> QED
    BY <2>3 DEF At
<1> QED
  BY <1>1, InductiveTrack, PTL

\* A report about a child is recorded at the entry of that child, not at one
\* of an ended process that had the same number.
THEOREM ReportsFindTheirProcess ==
    ASSUME Numbers
    PROVE  Spec => []LiveProcFound
<1>1. TInv => LiveProcFound
  <2>1. SUFFICES ASSUME TInv, NEW p \in Pids \ disowned, Alive(p)
                 PROVE  ~Terminated(At(jobtab, findproc(jobtab, p)).st)
    BY DEF LiveProcFound, At
  <2>2. JInv /\ Track /\ TrackOK(jobtab, child, disowned) /\ Lives(child, p)
    BY <2>1 DEF TInv, Track, Alive, Lives
  <2>3. PICK e \in Live(jobtab) : At(jobtab, e).pid = p
    BY <2>2 DEF TrackOK
  <2>4. findproc(jobtab, p) = e
    BY <2>2, <2>3, FindsLive
  <2> QED
    BY <2>3, <2>4 DEF Live
<1> QED
  BY <1>1, InductiveTrack, PTL

-----------------------------------------------------------------------------
(* The statuses that are kept for `wait pid'.                              *)

\* The steps that change the kernel's children, or the list.
LEMMA ChildSteps ==
    ASSUME JInv, [Next]_vars
    PROVE  \/ child' = child
           \/ KernelStep
           \/ \E p \in Pids : Reap(p) \/ Fork(p)
           \/ \E ps : child' = Continued(ps)
<1>1. CASE UNCHANGED vars
  BY <1>1 DEF vars, kernelVars
<1>2. CASE Handler
  BY <1>2 DEF Handler, Deliver, ReapDone, kernelVars
<1>3. CASE Pipeline
  BY <1>3 DEF Pipeline, StartPipeline, PipelineFails, PipelineFailed, SubstBegin, SubstEnd, RunInBackground, RunDisowned,
              WaitPipeline, WaitPipelineEnds, EndPipeline, preprompt, kernelVars
<1>4. CASE Builtin
  <2>1. ASSUME NEW j, ContinueIfStopped(j) PROVE child' = child \/ \E ps : child' = Continued(ps)
    BY <2>1 DEF ContinueIfStopped, killjb, kernelVars
  <2>2. CASE \E j \in Named : fg(j) \/ bg(j) \/ wait(j) \/ disown(j)
    <3>1. PICK j \in Named : fg(j) \/ bg(j) \/ wait(j) \/ disown(j)
      BY <2>2
    <3>2. ContinueIfStopped(j) \/ child' = child
      BY <3>1 DEF fg, bg, wait, disown, kernelVars
    <3> QED
      BY <2>1, <3>2
  <2>3. CASE \E p \in Pids : wait_pid(p)
    <3>1. PICK p \in Pids : wait_pid(p)
      BY <2>3
    <3>2. ContinueIfStopped(findproc(jobtab, p)[1]) \/ child' = child
      BY <3>1 DEF wait_pid, kernelVars
    <3> QED
      BY <2>1, <3>2
  <2>4. CASE \/ BuiltinStart \/ BuiltinReady \/ jobs \/ wait_all
             \/ WaitEnds \/ WaitPidEnds \/ WaitAllEnds \/ WaitInterrupted
             \/ BuiltinUnqueue \/ BuiltinExit
    BY <2>4 DEF BuiltinStart, BuiltinReady, jobs, wait_all, WaitEnds, WaitPidEnds, WaitAllEnds,
                WaitInterrupted, BuiltinUnqueue, BuiltinExit, kernelVars
  <2> QED
    BY <1>4, <2>2, <2>3, <2>4 DEF Builtin
<1>5. CASE Waiting
  BY <1>5 DEF Waiting, EnterWait, TestWait, Suspend, kernelVars
<1> QED
  BY <1>1, <1>2, <1>3, <1>4, <1>5 DEF Next

LEMMA BgSteps ==
    ASSUME JInv, [Next]_vars
    PROVE  \/ bgstatus_list' = bgstatus_list
           \/ \E k \in 1..Len(bgstatus_list) : bgstatus_list' = RemoveAt(bgstatus_list, k)
           \/ \E p \in Pids : Reap(p)
<1>1. CASE UNCHANGED vars
  BY <1>1 DEF vars, statusVars
<1>2. CASE Handler
  BY <1>2 DEF Handler, Deliver, ReapDone, statusVars
<1>3. CASE Pipeline
  BY <1>3 DEF Pipeline, StartPipeline, PipelineFails, PipelineFailed, Fork, SubstBegin, SubstEnd, RunInBackground, RunDisowned,
              WaitPipeline, WaitPipelineEnds, preprompt, statusVars
<1>4. CASE Builtin
  <2>1. ASSUME NEW p, NEW d, TakeBgStatus(p, d)
        PROVE  \/ bgstatus_list' = bgstatus_list
               \/ \E k \in 1..Len(bgstatus_list) : bgstatus_list' = RemoveAt(bgstatus_list, k)
    BY <2>1, TakeBgStatusIs DEF JInv
  <2>2. CASE \E j \in Named : fg(j) \/ bg(j) \/ wait(j) \/ disown(j)
    BY <2>2 DEF fg, bg, wait, disown, statusVars
  <2>3. CASE \E p \in Pids : wait_pid(p)
    <3>1. PICK p \in Pids : wait_pid(p)
      BY <2>3
    <3>2. TakeBgStatus(p, "none") \/ bgstatus_list' = bgstatus_list
      BY <3>1 DEF wait_pid
    <3> QED
      BY <2>1, <3>2
  <2>4. CASE WaitPidEnds
    BY <2>1, <2>4 DEF WaitPidEnds
  <2>5. CASE \/ BuiltinStart \/ BuiltinReady \/ jobs \/ wait_all
             \/ WaitEnds \/ WaitAllEnds \/ WaitInterrupted
             \/ BuiltinUnqueue \/ BuiltinExit
    BY <2>5 DEF BuiltinStart, BuiltinReady, jobs, wait_all, WaitEnds, WaitAllEnds,
                WaitInterrupted, BuiltinUnqueue, BuiltinExit, statusVars
  <2> QED
    BY <1>4, <2>2, <2>3, <2>4, <2>5 DEF Builtin
<1>5. CASE Waiting
  BY <1>5 DEF Waiting, EnterWait, TestWait, Suspend, statusVars
<1>6. CASE KernelStep
  BY <1>6 DEF KernelStep, Exit, Stop, Continue, Report, statusVars
<1> QED
  BY <1>1, <1>2, <1>3, <1>4, <1>5, <1>6 DEF Next

\* A child that has been reaped for good stays as it is.
LEMMA GoneStays ==
    ASSUME TInv, [Next]_vars, NEW q \in Pids, child[q].st = "gone"
    PROVE  child'[q] = child[q]
<1>1. JInv /\ Kids /\ child \in [Pids -> ChildSet]
  BY ChildIs DEF TInv, Track
<1>2. child[q].ev = "none"
  BY <1>1 DEF Kids, ChildSet
<1>3. CASE KernelStep
  BY <1>1, <1>3 DEF KernelStep, Exit, Stop, Continue, Report
<1>4. ASSUME NEW p \in Pids, Reap(p) PROVE child'[q] = child[q]
  <2>1. Reaped(p, child') /\ child[p].ev # "none"
    BY <1>1, <1>4, ReapedIs
  <2> QED
    BY <1>2, <2>1 DEF Reaped
<1>5. ASSUME NEW p \in Pids, Fork(p) PROVE child'[q] = child[q]
  BY <1>1, <1>5 DEF Fork
<1>6. ASSUME NEW ps, child' = Continued(ps) PROVE child'[q] = child[q]
  BY <1>6 DEF Continued
<1> QED
  BY <1>1, <1>3, <1>4, <1>5, <1>6, ChildSteps

BgListOK(list, ch) ==
    /\ \A i \in 1..Len(list) : ch[list[i].pid].st = "gone" /\ list[i].status = ch[list[i].pid].code
    /\ \A i, k \in 1..Len(list) : list[i].pid = list[k].pid => i = k

BInv == TInv /\ BgListOK(bgstatus_list, child)

LEMMA BgKept == ~PidReuse /\ BInv /\ [Next]_vars => BInv'
<1> SUFFICES ASSUME ~PidReuse, BInv, [Next]_vars PROVE BgListOK(bgstatus_list', child')
  BY TrackKept DEF BInv, Numbers, BgListOK
<1> DEFINE list == bgstatus_list
           new == bgstatus_list'
           ch == child'
           n == Len(list)
<1>1. TInv /\ JInv /\ Kids /\ child \in [Pids -> ChildSet] /\ list \in Seq(Bg) /\ Len(list) <= ChildMax
  BY ChildIs DEF BInv, TInv, Track, JInv, TypeOK, Bg
<1>2. \A i \in 1..n : list[i] \in Bg
  BY <1>1
<1>3. \A i \in 1..n : list[i].pid \in Pids
  BY <1>2 DEF Bg
<1>4. /\ \A i \in 1..n : child[list[i].pid].st = "gone" /\ list[i].status = child[list[i].pid].code
      /\ \A i, k \in 1..n : list[i].pid = list[k].pid => i = k
  BY DEF BInv, BgListOK
<1>5. \A i \in 1..n : child'[list[i].pid] = child[list[i].pid]
  BY <1>1, <1>3, <1>4, GoneStays
<1>6. \A i \in 1..n : ch[list[i].pid].st = "gone" /\ list[i].status = ch[list[i].pid].code
  BY <1>4, <1>5
<1>7. n \in Nat
  BY <1>1
<1>8. CASE new = list
  BY <1>4, <1>6, <1>8 DEF BgListOK
<1>9. ASSUME NEW k \in 1..n, new = RemoveAt(list, k) PROVE BgListOK(new, ch)
  <2>1. /\ Len(new) = n - 1
        /\ \A i \in 1..(n - 1) : new[i] = IF i < k THEN list[i] ELSE list[i + 1]
    BY <1>1, <1>9, RemoveAtIs
  <2> HIDE DEF new, list, n, ch
  <2>2. \A i \in 1..(n - 1) : i \in 1..n /\ i + 1 \in 1..n
    BY <1>7
  <2>3. \A i \in 1..(n - 1) : ch[new[i].pid].st = "gone" /\ new[i].status = ch[new[i].pid].code
    BY <1>6, <2>1, <2>2
  <2>4. ASSUME NEW i \in 1..(n - 1), NEW j \in 1..(n - 1), new[i].pid = new[j].pid PROVE i = j
    BY <1>4, <1>7, <2>1, <2>2, <2>4
  <2> QED
    BY <2>1, <2>3, <2>4 DEF BgListOK
<1>10. ASSUME NEW p \in Pids, Reap(p) PROVE BgListOK(new, ch)
  <2>1. Reaped(p, ch) /\ child[p].ev # "none"
    BY <1>1, <1>10, ReapedIs
  <2>2. new = list \/ (child[p].ev = "exit" /\ new = addbgstatus(list, p, StatusOf(p)))
    BY <1>10 DEF Reap, RecordStatus, statusVars
  <2>3. CASE child[p].ev = "exit" /\ new = addbgstatus(list, p, StatusOf(p))
    <3>1. StatusOf(p) = child[p].code /\ StatusOf(p) \in Codes /\ child[p].st = "zombie"
      BY <1>1, <2>1, <2>3, ReportIs DEF Kids
    <3>2. ch[p].st = "gone" /\ ch[p].code = StatusOf(p)
      BY <2>1, <3>1 DEF Reaped
    <3>3. \A i \in 1..n : list[i].pid # p
      BY <1>4, <3>1
    <3>4. /\ new \in Seq(Bg)
          /\ new[Len(new)] = [pid |-> p, status |-> StatusOf(p)]
          /\ \E d \in {0, 1} : /\ Len(new) = Len(list) + 1 - d
                               /\ \A i \in 1..(Len(new) - 1) : i + d \in 1..Len(list) /\ new[i] = list[i + d]
      BY <1>1, <2>3, <3>1, addbgstatusIs
    <3> HIDE DEF new, list, ch
    <3>5. PICK d \in {0, 1} : /\ Len(new) = Len(list) + 1 - d
                              /\ \A i \in 1..(Len(new) - 1) : i + d \in 1..Len(list) /\ new[i] = list[i + d]
      BY <3>4
    <3> DEFINE m == Len(new)
    <3>6. m \in Nat /\ \A i \in 1..m : i = m \/ i \in 1..(m - 1)
      BY <3>4
    <3>7. new[m].pid = p /\ new[m].status = StatusOf(p)
      BY <3>4
    <3>8. \A i \in 1..(m - 1) : i + d \in 1..n /\ new[i] = list[i + d]
      BY <3>5
    <3> HIDE DEF m, n
    <3>9. \A i \in 1..m : ch[new[i].pid].st = "gone" /\ new[i].status = ch[new[i].pid].code
      BY <1>6, <3>2, <3>6, <3>7, <3>8
    <3>10. ASSUME NEW i \in 1..m, NEW j \in 1..m, new[i].pid = new[j].pid PROVE i = j
      <4>1. CASE i = m \/ j = m
        BY <3>3, <3>6, <3>7, <3>8, <3>10, <4>1
      <4>2. CASE i \in 1..(m - 1) /\ j \in 1..(m - 1)
        <5>1. i + d = j + d
          BY <1>4, <3>8, <3>10, <4>2
        <5> QED
          BY <3>6, <4>2, <5>1
      <4> QED
        BY <3>6, <4>1, <4>2
    <3> QED
      BY <3>9, <3>10 DEF BgListOK, m
  <2> QED
    BY <1>8, <2>2, <2>3
<1> QED
  BY <1>1, <1>8, <1>9, <1>10, BgSteps

\* The status kept for `wait pid' is the one the process ended with, and it
\* is kept once, where the kernel does not give out numbers again.
THEOREM StatusesAreRight ==
    ASSUME ~PidReuse
    PROVE  Spec => []BgStatusRight
<1>1. Init => BInv
  BY TrackInit DEF Init, BInv, BgListOK
<1>2. BInv /\ [Next]_vars => BInv'
  BY BgKept
<1>3. BInv => BgStatusRight
  <2>1. SUFFICES ASSUME BInv PROVE BgStatusRight
    OBVIOUS
  <2>2. bgstatus_list \in Seq(Bg)
    BY <2>1 DEF BInv, TInv, JInv, TypeOK, Bg
  <2>3. DOMAIN bgstatus_list = 1..Len(bgstatus_list)
    BY <2>2
  <2>4. ASSUME NEW p \in Pids PROVE Cardinality(BgEntries(p)) <= 1
    <3>1. CASE BgEntries(p) = {}
      <4>1. Cardinality({}) = 0
        BY FS_EmptySet
      <4> QED
        BY <3>1, <4>1
    <3>2. CASE BgEntries(p) # {}
      <4>1. PICK i \in BgEntries(p) : TRUE
        BY <3>2
      <4>2. \A k \in BgEntries(p) : k = i
        BY <2>1, <2>3, <4>1 DEF BgEntries, BInv, BgListOK
      <4>3. BgEntries(p) = {i}
        BY <4>1, <4>2
      <4>4. Cardinality({i}) = 1
        BY FS_Singleton
      <4> QED
        BY <4>3, <4>4
    <3> QED
      BY <3>1, <3>2
  <2> QED
    BY <2>1, <2>3, <2>4 DEF BInv, BgListOK, BgStatusRight
<1> QED
  BY <1>1, <1>2, <1>3, PTL DEF Spec


-----------------------------------------------------------------------------
(* The current and the previous job.                                       *)

\* The jobs that can be current: not the one that runs, nor the builtin's own.
Offered(tab, this, own) ==
    {j \in Slots : /\ InUse(tab, j) /\ j # own
                   /\ j = this => "STOPPED" \in tab[j].stat}
CurOK(js, this, own) ==
    /\ js.prev = 0 => Offered(js.tab, this, own) \subseteq {js.cur}
    /\ js.cur = 0 => Offered(js.tab, this, own) = {}

\* A job that is waited for in the foreground is not done; it has stopped or
\* has left the table when waiting is over.
Waited == op \in {"sync", "fg"} /\ pc \in {"test", "suspend", "suspended", "after"}
WaitedOK ==
    /\ Waited => "DONE" \notin jobtab[thisjob].stat
    /\ Waited /\ pc = "after" =>
          jobtab[thisjob].stat = {} \/ "STOPPED" \in jobtab[thisjob].stat

Usable(js, this) == js.cur = 0 \/ (js.cur # this /\ js.cur \in Slots /\ InUse(js.tab, js.cur))

CInv ==
    /\ JInv
    /\ CurOK(Jobs, thisjob, binslot)
    /\ WaitedOK
    /\ pc = "bin" => Usable(Jobs, thisjob)

\* A change that offers no other jobs.
LEMMA CurStays ==
    ASSUME NEW a, NEW b, NEW this, NEW own, NEW that, NEW mine, CurOK(a, this, own),
           b.cur = a.cur, b.prev = a.prev,
           Offered(b.tab, that, mine) \subseteq Offered(a.tab, this, own)
    PROVE  CurOK(b, that, mine)
BY DEF CurOK

LEMMA setprevjobFinds ==
    ASSUME NEW js \in JobsRecord, NEW this
    PROVE  LET r == setprevjob(js, this)
           IN  r.prev = 0 \/ /\ r.prev \in Slots /\ InUse(js.tab, r.prev)
                             /\ r.prev # js.cur /\ r.prev # this
<1> DEFINE other == {j \in Slots : InUse(js.tab, j) /\ j # js.cur /\ j # this}
           stopped == {j \in other : "STOPPED" \in js.tab[j].stat}
           k == IF stopped # {} THEN Max(stopped) ELSE IF other # {} THEN Max(other) ELSE 0
           r == setprevjob(js, this)
<1>1. r = [js EXCEPT !.prev = k]
  BY DEF setprevjob
<1>2. k = 0 \/ k \in other
  <2>1. stopped \in SUBSET Slots /\ other \in SUBSET Slots /\ stopped \subseteq other
    OBVIOUS
  <2>2. stopped # {} => Max(stopped) \in stopped
    BY <2>1, MaxIs
  <2>3. other # {} => Max(other) \in other
    BY <2>1, MaxIs
  <2> HIDE DEF stopped, other
  <2> QED
    BY <2>1, <2>2, <2>3
<1> HIDE DEF k
<1>3. r.prev = k
  BY <1>1 DEF JobsRecord
<1> QED
  BY <1>2, <1>3

\* What setprevjob() leaves is right for all jobs but this one.
LEMMA setprevjobCur ==
    ASSUME NEW js \in JobsRecord, NEW this, NEW that, NEW own,
           \A j \in Slots : j = this => j \notin Offered(js.tab, that, own),
           js.cur = 0 => Offered(js.tab, that, own) = {}
    PROVE  CurOK(setprevjob(js, this), that, own)
<1> DEFINE r == setprevjob(js, this)
<1>1. /\ r.tab = js.tab /\ r.cur = js.cur
      /\ r.prev = 0 => \A j \in Slots : InUse(js.tab, j) => j \in {js.cur, this}
  BY setprevjobIs
<1> HIDE DEF r
<1> QED
  BY <1>1 DEF CurOK, Offered, r

LEMMA printjobCur ==
    ASSUME NEW js \in JobsRecord, NEW j \in Slots, NEW own, NEW this \in {0, own, j},
           CurOK(js, this, own)
    PROVE  CurOK(printjob(js, j, this), this, own)
<1> DEFINE r == printjob(js, j, this)
<1>1. CASE "DONE" \notin js.tab[j].stat
  <2> DEFINE s == js.tab[j].stat \ {"CHANGED"}
  <2>1. r = [js EXCEPT !.tab[j].stat = s]
    BY <1>1 DEF printjob
  <2>2. s \in SUBSET Flags
    BY DEF JobsRecord, Table, Job
  <2>3. /\ ("INUSE" \in s <=> "INUSE" \in js.tab[j].stat)
        /\ ("STOPPED" \in s <=> "STOPPED" \in js.tab[j].stat)
    OBVIOUS
  <2> HIDE DEF s, r
  <2>4. /\ r.cur = js.cur /\ r.prev = js.prev /\ r.tab[j].stat = s
        /\ \A i \in Slots : i # j => r.tab[i] = js.tab[i]
    BY <2>1, <2>2, StatusSet
  <2>5. Offered(r.tab, this, own) \subseteq Offered(js.tab, this, own)
    BY <2>3, <2>4 DEF Offered, InUse
  <2> QED
    BY <2>4, <2>5, CurStays DEF r
<1>2. CASE "DONE" \in js.tab[j].stat
  <2> DEFINE gone == deletejob(js, j)
             left == IF j = js.cur THEN [gone EXCEPT !.cur = js.prev, !.prev = j] ELSE gone
  <2>1. /\ gone \in JobsRecord /\ gone.tab[j] = FreeJob /\ gone.cur = js.cur /\ gone.prev = js.prev
        /\ \A i \in Slots : i # j => gone.tab[i] = js.tab[i]
    BY deletejobIs
  <2>2. js.prev \in 0..NJobs /\ j \in 0..NJobs /\ 0 \notin Slots
    BY JobControlAssumption DEF JobsRecord, Slots
  <2> HIDE DEF gone
  <2>3. /\ left \in JobsRecord /\ left.tab = gone.tab
        /\ left.cur = IF j = js.cur THEN js.prev ELSE js.cur
        /\ left.prev = IF j = js.cur THEN j ELSE js.prev
    BY <2>1, <2>2 DEF JobsRecord
  <2> HIDE DEF left
  <2>4. r = IF j = left.prev THEN setprevjob(left, this) ELSE left
    BY <1>2 DEF printjob, left, gone
  <2>5. "INUSE" \notin FreeJob.stat
    BY DEF FreeJob
  <2>6. Offered(left.tab, this, own) \subseteq Offered(js.tab, this, own) \ {j}
    BY <2>1, <2>3, <2>5 DEF Offered, InUse
  <2>7. left.cur = 0 => Offered(left.tab, this, own) = {}
    BY <2>3, <2>6 DEF CurOK
  <2>8. CASE j = left.prev
    <3>1. \A i \in Slots : i = this => i \notin Offered(left.tab, this, own)
      BY <2>2, <2>6 DEF Offered
    <3> QED
      BY <2>3, <2>4, <2>7, <2>8, <3>1, setprevjobCur
  <2>9. CASE j # left.prev
    <3>1. left.cur = js.cur /\ left.prev = js.prev
      BY <2>3, <2>9
    <3> QED
      BY <2>4, <2>6, <2>9, <3>1, CurStays
  <2> QED
    BY <2>8, <2>9
<1> QED
  BY <1>1, <1>2

LEMMA printjobsCur ==
    ASSUME NEW js \in JobsRecord, NEW own, NEW this \in {0, own}, NEW all \in BOOLEAN,
           CurOK(js, this, own)
    PROVE  CurOK(printjobs(js, this, all), this, own)
<1> DEFINE P == {r \in JobsRecord : CurOK(r, this, own)}
<1>1. js \in P
  OBVIOUS
<1>2. ASSUME NEW r \in P, NEW j \in Slots PROVE printjob(r, j, this) \in P
  <2>1. r \in JobsRecord /\ CurOK(r, this, own) /\ this \in {0, own, j}
    OBVIOUS
  <2>2. printjob(r, j, this) \in JobsRecord
    BY <2>1, printjobIs
  <2>3. CurOK(printjob(r, j, this), this, own)
    BY <2>1, printjobCur
  <2> QED
    BY <2>2, <2>3
<1> HIDE DEF P
<1>3. printjobs(js, this, all) \in P
  BY <1>1, <1>2, printjobsIs
<1> QED
  BY <1>3 DEF P

\* A report on the job j.
LEMMA update_jobCur ==
    ASSUME ~NOTIFY, NEW js \in JobsRecord, NEW j \in Slots, NEW this, NEW own,
           "DONE" \notin js.tab[j].stat, CurOK(js, this, own)
    PROVE  CurOK(update_job(js, j, this), this, own)
<1> DEFINE a == js.tab[j]
           r == update_job(js, j, this)
           stops == SomeStopped(a)
           notes == j = this /\ "LOCKED" \in a.stat
           s == a.stat \cup {"CHANGED", IF stops THEN "STOPPED" ELSE "DONE"}
           marked == [js EXCEPT !.tab[j].stat = s]
           shuffled == IF stops THEN [marked EXCEPT !.prev = js.cur, !.cur = j] ELSE marked
<1>1. CASE ~Ends(a)
  BY <1>1 DEF update_job
<1>2. CASE Ends(a)
  <2>1. r = IF notes THEN printjob(shuffled, j, this) ELSE shuffled
    BY <1>2 DEF update_job
  <2>2. s \in SUBSET Flags
    BY DEF JobsRecord, Table, Job, Flags
  <2>3. /\ "INUSE" \in s <=> "INUSE" \in a.stat
        /\ ~stops => ("STOPPED" \in s <=> "STOPPED" \in a.stat)
    OBVIOUS
  <2> HIDE DEF s
  <2>4. /\ marked \in JobsRecord /\ marked.tab[j].stat = s /\ marked.cur = js.cur /\ marked.prev = js.prev
        /\ \A i \in Slots : i # j => marked.tab[i] = js.tab[i]
    BY <2>2, StatusSet
  <2> HIDE DEF marked
  <2>5. /\ shuffled \in JobsRecord /\ shuffled.tab = marked.tab
        /\ stops => shuffled.cur = j /\ shuffled.prev = js.cur
        /\ ~stops => shuffled.cur = js.cur /\ shuffled.prev = js.prev
    <3>1. js.cur \in 0..NJobs /\ j \in 0..NJobs
      BY JobControlAssumption DEF JobsRecord, Slots
    <3> QED
      BY <2>4, <3>1 DEF JobsRecord
  <2> HIDE DEF shuffled
  <2>6. CurOK(shuffled, this, own)
    <3>1. CASE stops
      <4>1. Offered(shuffled.tab, this, own) \subseteq Offered(js.tab, this, own) \cup {j}
        BY <2>3, <2>4, <2>5 DEF Offered, InUse
      <4>2. j # 0
        BY JobControlAssumption DEF Slots
      <4> QED
        BY <2>5, <3>1, <4>1, <4>2 DEF CurOK
    <3>2. CASE ~stops
      <4>1. Offered(shuffled.tab, this, own) \subseteq Offered(js.tab, this, own)
        BY <2>3, <2>4, <2>5, <3>2 DEF Offered, InUse
      <4> QED
        BY <2>5, <3>2, <4>1, CurStays
    <3> QED
      BY <3>1, <3>2
  <2>7. CASE notes
    <3>1. this \in {0, own, j}
      BY <2>7
    <3>2. CurOK(printjob(shuffled, j, this), this, own)
      BY <2>5, <2>6, <3>1, printjobCur
    <3> QED
      BY <2>1, <2>7, <3>2
  <2>8. CASE ~notes
    BY <2>1, <2>6, <2>8
  <2> QED
    BY <2>7, <2>8
<1> QED
  BY <1>1, <1>2

\* Whatever the pointers were, fg, bg and wait leave them right.
LEMMA shuffleCur ==
    ASSUME NEW js \in JobsRecord, NEW j \in Slots, NEW func
    PROVE  CurOK(shuffle(js, j, func), thisjob, thisjob)
<1> DEFINE a == IF js.cur = j
                THEN [js EXCEPT !.cur = js.prev, !.prev = IF func = "bg" THEN 0 ELSE j]
                ELSE js
           b == IF a.prev \in {j, 0} THEN setprevjob(a, thisjob) ELSE a
           c == [b EXCEPT !.cur = b.prev]
           others(x) == Offered(x.tab, thisjob, thisjob)
<1>1. a \in JobsRecord
  <2>1. j \in 0..NJobs /\ 0 \in 0..NJobs
    BY JobControlAssumption DEF Slots
  <2> QED
    BY <2>1 DEF JobsRecord
<1> HIDE DEF a
<1>2. b \in JobsRecord /\ (b.prev = 0 => others(b) \subseteq {b.cur})
  <2>1. CASE a.prev \in {j, 0}
    BY <1>1, <2>1, setprevjobIs DEF Offered
  <2>2. CASE a.prev \notin {j, 0}
    BY <1>1, <2>2
  <2> QED
    BY <2>1, <2>2
<1> HIDE DEF b
<1>3. shuffle(js, j, func) = IF b.cur = 0 THEN setprevjob(c, thisjob) ELSE b
  BY DEF shuffle, a, b, c
<1>4. CASE b.cur # 0
  BY <1>2, <1>3, <1>4 DEF CurOK
<1>5. CASE b.cur = 0
  <2>1. c \in JobsRecord /\ c.tab = b.tab /\ c.cur = b.prev
    BY <1>2 DEF JobsRecord
  <2>2. 0 \notin others(b)
    BY JobControlAssumption DEF Offered, Slots
  <2>3. c.cur = 0 => others(c) = {}
    BY <1>2, <1>5, <2>1, <2>2
  <2>4. \A i \in Slots : i = thisjob => i \notin others(c)
    BY DEF Offered
  <2> HIDE DEF c
  <2>5. CurOK(setprevjob(c, thisjob), thisjob, thisjob)
    BY <2>1, <2>3, <2>4, setprevjobCur
  <2> QED
    BY <1>3, <1>5, <2>5
<1> QED
  BY <1>4, <1>5

\* setcurjob() finds a job that a builtin can be given, if there is one.
LEMMA setcurjobCur ==
    ASSUME NEW js \in JobsRecord, NEW this \in Slots, CurOK(js, this, this)
    PROVE  CurOK(setcurjob(js, this), this, this) /\ Usable(setcurjob(js, this), this)
<1> DEFINE bad(x) == x.cur # 0 /\ (x.cur = this \/ ~InUse(x.tab, x.cur))
           moved(x) == [x EXCEPT !.cur = x.prev]
           shift(x) == setprevjob(moved(x), this)
           others(x) == Offered(x.tab, this, this)
           fine(x) == x \in JobsRecord /\ CurOK(x, this, this)
<1>0. \A x \in JobsRecord : x.cur # 0 => x.cur \in Slots
  BY JobControlAssumption DEF JobsRecord, Slots
<1>1. ASSUME NEW x, fine(x), bad(x)
      PROVE  /\ fine(shift(x)) /\ shift(x).tab = x.tab /\ shift(x).cur = x.prev
             /\ shift(x).prev = 0 \/ /\ InUse(x.tab, shift(x).prev) /\ shift(x).prev # this
  <2>1. moved(x) \in JobsRecord /\ moved(x).tab = x.tab /\ moved(x).cur = x.prev
    BY <1>1 DEF JobsRecord
  <2>2. x.cur \notin others(x)
    BY <1>1 DEF Offered
  <2>3. moved(x).cur = 0 => others(moved(x)) = {}
    BY <1>1, <2>1, <2>2 DEF CurOK
  <2>4. \A j \in Slots : j = this => j \notin others(moved(x))
    BY DEF Offered
  <2> DEFINE y == moved(x)
  <2> HIDE DEF moved, y
  <2>5. y \in JobsRecord /\ y.tab = x.tab /\ y.cur = x.prev
    BY <2>1 DEF y
  <2>6. CurOK(setprevjob(y, this), this, this)
    BY <2>3, <2>4, <2>5, setprevjobCur DEF y
  <2>7. LET r == setprevjob(y, this)
        IN  /\ r \in JobsRecord /\ r.tab = y.tab /\ r.cur = y.cur
    BY <2>5, setprevjobIs
  <2>8. LET r == setprevjob(y, this)
        IN  r.prev = 0 \/ (InUse(y.tab, r.prev) /\ r.prev # this)
    BY <2>5, setprevjobFinds
  <2> QED
    BY <2>5, <2>6, <2>7, <2>8 DEF y
<1> HIDE DEF shift
<1>2. setcurjob(js, this) =
        IF ~bad(js) THEN js ELSE IF ~bad(shift(js)) THEN shift(js) ELSE shift(shift(js))
  BY DEF setcurjob, shift
<1>3. ASSUME NEW x, fine(x), ~bad(x) PROVE CurOK(x, this, this) /\ Usable(x, this)
  BY <1>0, <1>3 DEF Usable
<1>4. fine(js)
  OBVIOUS
<1>5. CASE ~bad(js)
  BY <1>2, <1>3, <1>4, <1>5
<1>6. CASE bad(js) /\ ~bad(shift(js))
  <2>1. fine(shift(js))
    BY <1>1, <1>4, <1>6
  <2> DEFINE y == shift(js)
  <2>2. fine(y) /\ ~bad(y)
    BY <1>6, <2>1
  <2> HIDE DEF y
  <2>3. CurOK(y, this, this) /\ Usable(y, this)
    BY <1>3, <2>2
  <2> QED
    BY <1>2, <1>6, <2>3 DEF y
<1>7. CASE bad(js) /\ bad(shift(js))
  <2>1. /\ fine(shift(js)) /\ shift(js).tab = js.tab
        /\ shift(js).prev = 0 \/ (InUse(js.tab, shift(js).prev) /\ shift(js).prev # this)
    BY <1>1, <1>4, <1>7
  <2> DEFINE y == shift(js)
  <2>2. fine(y) /\ bad(y) /\ y.tab = js.tab /\ (y.prev = 0 \/ (InUse(js.tab, y.prev) /\ y.prev # this))
    BY <1>7, <2>1
  <2> HIDE DEF y
  <2>3. fine(shift(y)) /\ shift(y).tab = y.tab /\ shift(y).cur = y.prev
    BY <1>1, <2>2
  <2>4. ~bad(shift(y))
    BY <2>2, <2>3
  <2> DEFINE z == shift(y)
  <2>5. fine(z) /\ ~bad(z)
    BY <2>3, <2>4
  <2> HIDE DEF z
  <2>6. CurOK(z, this, this) /\ Usable(z, this)
    BY <1>3, <2>5
  <2> QED
    BY <1>2, <1>7, <2>6 DEF y, z
<1> QED
  BY <1>5, <1>6, <1>7

\* Looking twice is enough, whatever the two were.
LEMMA setcurjobUsable ==
    ASSUME NEW js \in JobsRecord, NEW this \in Slots
    PROVE  Usable(setcurjob(js, this), this)
<1> DEFINE bad(x) == x.cur # 0 /\ (x.cur = this \/ ~InUse(x.tab, x.cur))
           moved(x) == [x EXCEPT !.cur = x.prev]
           shift(x) == setprevjob(moved(x), this)
<1>0. \A x \in JobsRecord : x.cur # 0 => x.cur \in Slots
  BY JobControlAssumption DEF JobsRecord, Slots
<1>1. ASSUME NEW x \in JobsRecord
      PROVE  /\ shift(x) \in JobsRecord /\ shift(x).tab = x.tab /\ shift(x).cur = x.prev
             /\ shift(x).prev = 0 \/ /\ InUse(x.tab, shift(x).prev) /\ shift(x).prev # this
  <2> DEFINE y == moved(x)
  <2>1. y \in JobsRecord /\ y.tab = x.tab /\ y.cur = x.prev
    BY DEF JobsRecord
  <2> HIDE DEF moved, y
  <2>2. LET r == setprevjob(y, this)
        IN  /\ r \in JobsRecord /\ r.tab = y.tab /\ r.cur = y.cur
    BY <2>1, setprevjobIs
  <2>3. LET r == setprevjob(y, this)
        IN  r.prev = 0 \/ (InUse(y.tab, r.prev) /\ r.prev # this)
    BY <2>1, setprevjobFinds
  <2> QED
    BY <2>1, <2>2, <2>3 DEF y
<1> HIDE DEF shift
<1>2. setcurjob(js, this) =
        IF ~bad(js) THEN js ELSE IF ~bad(shift(js)) THEN shift(js) ELSE shift(shift(js))
  BY DEF setcurjob, shift
<1>3. ASSUME NEW x \in JobsRecord, ~bad(x) PROVE Usable(x, this)
  BY <1>0, <1>3 DEF Usable
<1>4. shift(js) \in JobsRecord
  BY <1>1
<1>5. shift(shift(js)) \in JobsRecord /\ ~bad(shift(shift(js)))
  <2> DEFINE y == shift(js)
  <2>1. y \in JobsRecord /\ y.tab = js.tab /\ (y.prev = 0 \/ (InUse(y.tab, y.prev) /\ y.prev # this))
    BY <1>1
  <2> HIDE DEF y
  <2>2. shift(y) \in JobsRecord /\ shift(y).tab = y.tab /\ shift(y).cur = y.prev
    BY <1>1, <2>1
  <2>3. ~bad(shift(y))
    BY <2>1, <2>2
  <2> QED
    BY <2>2, <2>3 DEF y
<1> DEFINE z == setcurjob(js, this)
<1>6. z \in JobsRecord /\ ~bad(z)
  BY <1>2, <1>4, <1>5
<1> HIDE DEF z
<1>7. Usable(z, this)
  BY <1>3, <1>6
<1> QED
  BY <1>7 DEF z

-----------------------------------------------------------------------------
(* The steps.                                                              *)

LEMMA BecomesIs ==
    ASSUME NEW js, BecomeJobs(js)
    PROVE  Jobs'.tab = js.tab /\ Jobs'.cur = js.cur /\ Jobs'.prev = js.prev
BY DEF BecomeJobs, Jobs

\* The pointers after a step, given the table that it makes.
LEMMA CurBecomes ==
    ASSUME NEW js, BecomeJobs(js), CurOK(js, thisjob', binslot')
    PROVE  CurOK(Jobs', thisjob', binslot')
BY BecomesIs DEF CurOK

Quiet == UNCHANGED <<jobVars, thisjob, binslot>>

LEMMA QuietCur ==
    ASSUME CInv, Quiet
    PROVE  CurOK(Jobs', thisjob', binslot')
BY DEF CInv, Quiet, jobVars, Jobs

LEMMA ReapCur ==
    ASSUME ~NOTIFY, CInv, NEW p \in Pids, Reap(p)
    PROVE  CurOK(Jobs', thisjob', binslot')
<1>1. JInv /\ CurOK(Jobs, thisjob, binslot) /\ child[p].ev # "none"
      /\ thisjob' = thisjob /\ binslot' = binslot
  BY DEF CInv, Reap, mainVars
<1>2. CASE Entries(jobtab, p) = {}
  <2>1. Quiet
    BY <1>1, <1>2 DEF Reap, Quiet
  <2> QED
    BY <2>1, QuietCur
<1>3. CASE Entries(jobtab, p) # {}
  <2> DEFINE j == Found(p)[1]
             js == Recorded(p)
             r == update_job(js, j, thisjob)
  <2>1. BecomeJobs(r)
    BY <1>3 DEF Reap, RecordStatus, Found, Recorded
  <2>2. /\ j \in Slots /\ "DONE" \notin jobtab[j].stat
        /\ js \in JobsRecord /\ js.cur = curjob /\ js.prev = prevjob
        /\ js.tab[j].stat = jobtab[j].stat
        /\ \A i \in Slots : i # j => js.tab[i] = jobtab[i]
    BY <1>1, <1>3, RecordedIs
  <2> HIDE DEF j, js
  <2>3. Jobs.cur = curjob /\ Jobs.prev = prevjob /\ Jobs.tab = jobtab
    BY DEF Jobs
  <2>4. Offered(js.tab, thisjob, binslot) \subseteq Offered(Jobs.tab, thisjob, binslot)
    BY <2>2, <2>3 DEF Offered, InUse
  <2>5. CurOK(js, thisjob, binslot)
    BY <1>1, <2>2, <2>3, <2>4, CurStays
  <2>6. "DONE" \notin js.tab[j].stat
    BY <2>2
  <2>7. CurOK(r, thisjob, binslot)
    BY <2>2, <2>5, <2>6, update_jobCur
  <2> HIDE DEF r
  <2> QED
    BY <1>1, <2>1, <2>7, CurBecomes
<1> QED
  BY <1>2, <1>3

\* A pipeline or a builtin takes a free entry, which is not offered.
LEMMA StartCur ==
    ASSUME CInv, StartPipeline("sync") \/ StartPipeline("async") \/ StartPipeline("disown") \/ BuiltinStart
    PROVE  CurOK(Jobs', thisjob', binslot')
<1>1. /\ pc = "idle" /\ initjob # 0 /\ thisjob' = initjob /\ binslot' \in {binslot, initjob}
      /\ UNCHANGED <<curjob, prevjob>>
      /\ \E s : s \in {{"INUSE"}, {"INUSE", "BUILTIN"}} /\ jobtab' = [jobtab EXCEPT ![initjob].stat = s]
  BY DEF StartPipeline, BuiltinStart, MainAt
<1>2. initjob \in Slots /\ JInv
  BY <1>1, InitjobIs DEF CInv
<1>3. binslot = 0 /\ thisjob = 0 /\ jobtab \in Table
  BY <1>1, <1>2, Facts DEF JInv, Control, Builtins
<1>4. PICK s \in {{"INUSE"}, {"INUSE", "BUILTIN"}} : jobtab' = [jobtab EXCEPT ![initjob].stat = s]
  BY <1>1
<1>5. /\ jobtab'[initjob].stat = s /\ "STOPPED" \notin s
      /\ \A i \in Slots : i # initjob => jobtab'[i] = jobtab[i]
  BY <1>2, <1>3, <1>4 DEF Table, Job
<1>6. 0 \notin Slots
  BY <1>2, Facts
<1>7. Offered(jobtab', thisjob', binslot') \subseteq Offered(jobtab, thisjob, binslot)
  BY <1>1, <1>3, <1>5, <1>6 DEF Offered, InUse
<1> QED
  BY <1>1, <1>7 DEF CInv, CurOK, Jobs

LEMMA ForkCur ==
    ASSUME CInv, NEW p \in Pids, Fork(p)
    PROVE  CurOK(Jobs', thisjob', binslot')
<1>1. /\ BecomeJobs(addproc(Jobs, thisjob, p)) /\ thisjob' = thisjob /\ binslot' = binslot
      /\ Building /\ JInv
  BY DEF Fork, MainAt, mainVars, Building, CInv
<1>2. thisjob \in Slots /\ Jobs \in JobsRecord /\ Jobs.tab = jobtab
  BY <1>1, Facts
<1> DEFINE r == addproc(Jobs, thisjob, p)
<1>3. /\ r \in JobsRecord /\ r.cur = Jobs.cur /\ r.prev = Jobs.prev
      /\ r.tab[thisjob].stat = Jobs.tab[thisjob].stat \ {"DONE"}
      /\ r.tab[thisjob].procs = Append(Jobs.tab[thisjob].procs, [pid |-> p, st |-> "run"])
      /\ \A i \in Slots : i # thisjob => r.tab[i] = Jobs.tab[i]
  BY <1>2, addprocIs
<1>4. BecomeJobs(r)
  BY <1>1
<1> HIDE DEF r
<1>5. Offered(r.tab, thisjob', binslot') \subseteq Offered(Jobs.tab, thisjob, binslot)
  BY <1>1, <1>3 DEF Offered, InUse
<1>6. CurOK(r, thisjob', binslot')
  BY <1>3, <1>5, CurStays DEF CInv
<1> QED
  BY <1>4, <1>6, CurBecomes

\* spawnjob() makes the new job the current or the previous one, unless
\* there are stopped jobs for both.
LEMMA RunCur ==
    ASSUME CInv, RunInBackground \/ RunDisowned
    PROVE  CurOK(Jobs', thisjob', binslot')
<1>1. /\ thisjob' = 0 /\ binslot' = binslot /\ Building /\ JInv
  BY DEF RunInBackground, RunDisowned, EndPipeline, Complete, MainAt, Building, CInv
<1>2. thisjob \in Slots /\ binslot = 0 /\ Jobs \in JobsRecord /\ Jobs.tab = jobtab /\ 0 \notin Slots
      /\ Jobs.cur = curjob /\ Jobs.prev = prevjob /\ thisjob \in 0..NJobs
  BY <1>1, Facts
<1>3. CASE RunInBackground
  <2> DEFINE first == [Jobs EXCEPT !.cur = thisjob]
             js == IF curjob = 0 \/ "STOPPED" \notin jobtab[curjob].stat
                   THEN setprevjob(first, thisjob)
                   ELSE IF prevjob = 0 \/ "STOPPED" \notin jobtab[prevjob].stat
                   THEN [Jobs EXCEPT !.prev = thisjob]
                   ELSE Jobs
             s == js.tab[thisjob].stat \cup {"LOCKED"}
             r == [js EXCEPT !.tab[thisjob].stat = s]
  <2>1. spawnjob = r
    BY DEF spawnjob
  <2>2. BecomeJobs(spawnjob)
    BY <1>3 DEF RunInBackground
  <2>3. first \in JobsRecord /\ first.tab = jobtab /\ first.cur = thisjob
    BY <1>2 DEF JobsRecord
  <2> HIDE DEF first
  <2>4. LET q == setprevjob(first, thisjob)
        IN  /\ q \in JobsRecord /\ q.tab = jobtab /\ q.cur = thisjob
            /\ q.prev = 0 => \A j \in Slots : InUse(jobtab, j) => j = thisjob
    BY <2>3, setprevjobIs
  <2>5. [Jobs EXCEPT !.prev = thisjob] \in JobsRecord /\ [Jobs EXCEPT !.prev = thisjob].tab = jobtab
        /\ [Jobs EXCEPT !.prev = thisjob].prev = thisjob /\ [Jobs EXCEPT !.prev = thisjob].cur = curjob
    BY <1>2 DEF JobsRecord
  <2>6. /\ js \in JobsRecord /\ js.tab = jobtab /\ js.cur # 0
        /\ js.prev = 0 => \A j \in Slots : InUse(jobtab, j) => j = js.cur
    BY <1>2, <2>4, <2>5
  <2> HIDE DEF js
  <2>7. s \in SUBSET Flags
    <3>1. js.tab[thisjob] \in Job
      BY <1>2, <2>6 DEF JobsRecord, Table
    <3> QED
      BY <3>1 DEF Job, Flags
  <2>8. "INUSE" \in s => "INUSE" \in js.tab[thisjob].stat
    OBVIOUS
  <2> HIDE DEF s
  <2>9. /\ r.cur = js.cur /\ r.prev = js.prev /\ r.tab[thisjob].stat = s
        /\ \A i \in Slots : i # thisjob => r.tab[i] = js.tab[i]
    BY <1>2, <2>6, <2>7, StatusSet, ZenonT(60)
  <2> HIDE DEF r
  <2>10. CurOK(r, thisjob', binslot')
    BY <2>6, <2>8, <2>9 DEF CurOK, Offered, InUse
  <2> QED
    BY <2>1, <2>2, <2>10, CurBecomes
<1>4. CASE RunDisowned
  <2> DEFINE r == deletejob(Jobs, thisjob)
  <2>1. BecomeJobs(r)
    BY <1>4 DEF RunDisowned
  <2>2. /\ r.cur = Jobs.cur /\ r.prev = Jobs.prev /\ r.tab[thisjob] = FreeJob
        /\ \A i \in Slots : i # thisjob => r.tab[i] = Jobs.tab[i]
    BY <1>2, deletejobIs
  <2> HIDE DEF r
  <2>3. Offered(r.tab, thisjob', binslot') \subseteq Offered(Jobs.tab, thisjob, binslot)
    <3>1. "INUSE" \notin FreeJob.stat
      BY DEF FreeJob
    <3> QED
      BY <1>1, <1>2, <2>2, <3>1 DEF Offered, InUse
  <2>4. CurOK(r, thisjob', binslot')
    BY <2>2, <2>3, CurStays DEF CInv
  <2> QED
    BY <2>1, <2>4, CurBecomes
<1> QED
  BY <1>3, <1>4

\* Waiting in the foreground is over: the job is offered like any other.
LEMMA WaitOverCur ==
    ASSUME CInv, WaitPipelineEnds \/ WaitEnds
    PROVE  CurOK(Jobs', thisjob', binslot')
<1>1. /\ UNCHANGED <<jobVars, binslot>> /\ pc = "after" /\ op \in {"sync", "fg", "wait"}
      /\ op = "sync" => thisjob' = 0
      /\ op # "sync" => thisjob' = binslot
  BY DEF WaitPipelineEnds, WaitEnds, EndPipeline, MainAt
<1>2. JInv /\ WaitedOK /\ CurOK(Jobs, thisjob, binslot)
  BY DEF CInv
<1>3. 0 \notin Slots
  BY <1>2, Facts
<1>4. op = "wait" => thisjob = binslot
  BY <1>1, <1>2 DEF JInv, Control, Builtins
<1>5. op # "wait" => jobtab[thisjob].stat = {} \/ "STOPPED" \in jobtab[thisjob].stat
  BY <1>1, <1>2 DEF WaitedOK, Waited
<1>6. Offered(jobtab, thisjob', binslot') \subseteq Offered(jobtab, thisjob, binslot)
  BY <1>1, <1>3, <1>4, <1>5 DEF Offered, InUse
<1> QED
  BY <1>1, <1>2, <1>6 DEF CurOK, Jobs, jobVars

\* A free entry that is deleted again.
LEMMA FreeAgain ==
    ASSUME NEW js \in JobsRecord, NEW j \in Slots, NEW this, NEW own, NEW that, NEW mine,
           CurOK(js, this, own),
           \A i \in Slots : i # j /\ i # mine => i # own,
           \A i \in Slots : i # j /\ i = this => i = that \/ i = mine
    PROVE  CurOK(deletejob(js, j), that, mine)
<1> DEFINE r == deletejob(js, j)
<1>1. /\ r \in JobsRecord /\ r.cur = js.cur /\ r.prev = js.prev /\ r.tab[j] = FreeJob
      /\ \A i \in Slots : i # j => r.tab[i] = js.tab[i]
  BY deletejobIs
<1> HIDE DEF r
<1>2. "INUSE" \notin FreeJob.stat
  BY DEF FreeJob
<1>3. Offered(r.tab, that, mine) \subseteq Offered(js.tab, this, own)
  BY <1>1, <1>2 DEF Offered, InUse
<1> QED
  BY <1>1, <1>3, CurStays DEF r

LEMMA EnterWaitCur ==
    ASSUME CInv, EnterWait
    PROVE  CurOK(Jobs', thisjob', binslot')
<1>1. /\ thisjob' = thisjob /\ binslot' = binslot /\ pc = "enter" /\ JInv
      /\ CurOK(Jobs, thisjob, binslot)
  BY DEF EnterWait, MainAt, CInv
<1>2. CASE op = "wait_pid"
  <2>1. Quiet
    BY <1>1, <1>2 DEF EnterWait, Quiet
  <2> QED
    BY <2>1, QuietCur
<1>3. CASE op # "wait_pid"
  <2>1. target \in Slots /\ thisjob \in {0, binslot, target}
    BY <1>1, <1>3, Facts DEF JInv, Control, Building, Waits, Pipes, Builtins
  <2>2. Jobs \in JobsRecord /\ Jobs.tab = jobtab /\ jobtab[target] \in Job
    BY <1>1, <2>1, Facts
  <2>3. CASE HasProcs(jobtab, target)
    <3> DEFINE s == jobtab[target].stat \cup {"LOCKED"}
               js == [Jobs EXCEPT !.tab[target].stat = s]
               r == IF "CHANGED" \in jobtab[target].stat THEN printjob(js, target, thisjob) ELSE js
    <3>1. BecomeJobs(r)
      <4>1. [Jobs EXCEPT !.tab[target].stat = @ \cup {"LOCKED"}] = js
        BY <2>2
      <4> QED
        BY <1>3, <2>3, <4>1 DEF EnterWait
    <3>2. s \in SUBSET Flags
      BY <2>2 DEF Job, Flags
    <3>3. /\ "INUSE" \in s <=> "INUSE" \in jobtab[target].stat
          /\ "STOPPED" \in s <=> "STOPPED" \in jobtab[target].stat
      OBVIOUS
    <3> HIDE DEF s
    <3>4. /\ js \in JobsRecord /\ js.cur = Jobs.cur /\ js.prev = Jobs.prev
          /\ js.tab[target].stat = s
          /\ \A i \in Slots : i # target => js.tab[i] = jobtab[i]
      BY <2>1, <2>2, <3>2, StatusSet
    <3> HIDE DEF js
    <3>5. Offered(js.tab, thisjob, binslot) \subseteq Offered(Jobs.tab, thisjob, binslot)
      BY <2>2, <3>3, <3>4 DEF Offered, InUse
    <3>6. CurOK(js, thisjob, binslot)
      BY <1>1, <3>4, <3>5, CurStays
    <3>7. CurOK(printjob(js, target, thisjob), thisjob, binslot)
      BY <2>1, <3>4, <3>6, printjobCur
    <3>8. CurOK(r, thisjob', binslot')
      BY <1>1, <3>6, <3>7
    <3> HIDE DEF r
    <3> QED
      BY <3>1, <3>8, CurBecomes
  <2>4. CASE ~HasProcs(jobtab, target)
    <3>1. BecomeJobs(deletejob(Jobs, target))
      BY <1>3, <2>4 DEF EnterWait
    <3>2. CurOK(deletejob(Jobs, target), thisjob, binslot)
      BY <1>1, <2>1, <2>2, FreeAgain
    <3> QED
      BY <1>1, <3>1, <3>2, CurBecomes
  <2> QED
    BY <2>3, <2>4
<1> QED
  BY <1>2, <1>3

LEMMA PrintsCur ==
    ASSUME ~NOTIFY, CInv, preprompt \/ BuiltinReady \/ jobs
    PROVE  CurOK(Jobs', thisjob', binslot') /\ (pc' = "bin" => Usable(Jobs', thisjob'))
<1>1. /\ thisjob' = thisjob /\ binslot' = binslot /\ JInv /\ CurOK(Jobs, thisjob, binslot)
      /\ BuiltinReady => pc = "bin_reap"
      /\ jobs => pc = "bin" /\ pc' = "bin_end"
      /\ preprompt => pc = "idle" /\ pc' = "idle"
  BY DEF preprompt, BuiltinReady, jobs, MainAt, mainVars, CInv, Finish
<1>2. /\ Jobs \in JobsRecord /\ thisjob \in {0, binslot}
      /\ BuiltinReady => thisjob = binslot /\ binslot \in Slots
  BY <1>1, Facts DEF JInv, Control, Builtins, Waits
<1>3. CASE preprompt
  <2>1. BecomeJobs(printjobs(Jobs, thisjob, FALSE))
    BY <1>3 DEF preprompt, scanjobs
  <2>2. CurOK(printjobs(Jobs, thisjob, FALSE), thisjob, binslot)
    BY <1>1, <1>2, printjobsCur
  <2> QED
    BY <1>1, <1>3, <2>1, <2>2, CurBecomes
<1>4. CASE jobs
  <2>1. BecomeJobs(printjobs(Jobs, thisjob, TRUE))
    BY <1>4 DEF jobs
  <2>2. CurOK(printjobs(Jobs, thisjob, TRUE), thisjob, binslot)
    BY <1>1, <1>2, printjobsCur
  <2> QED
    BY <1>1, <1>4, <2>1, <2>2, CurBecomes
<1>5. CASE BuiltinReady
  <2> DEFINE js == printjobs(Jobs, thisjob, FALSE)
             r == setcurjob(js, thisjob)
  <2>1. BecomeJobs(r)
    BY <1>5 DEF BuiltinReady, scanjobs
  <2>2. js \in JobsRecord
    BY <1>2, scanjobsIs
  <2>3. CurOK(js, thisjob, binslot)
    BY <1>1, <1>2, printjobsCur
  <2> HIDE DEF js
  <2>4. CurOK(js, thisjob, thisjob) /\ thisjob \in Slots
    BY <1>2, <1>5, <2>3
  <2>5. CurOK(r, thisjob, thisjob) /\ Usable(r, thisjob)
    BY <2>2, <2>4, setcurjobCur
  <2> HIDE DEF r
  <2>6. CurOK(r, thisjob', binslot')
    BY <1>1, <1>2, <1>5, <2>5
  <2>7. CurOK(Jobs', thisjob', binslot')
    BY <2>1, <2>6, CurBecomes
  <2>8. Usable(Jobs', thisjob')
    BY <1>1, <2>1, <2>5, BecomesIs DEF Usable
  <2> QED
    BY <2>7, <2>8
<1> QED
  BY <1>3, <1>4, <1>5

LEMMA disownCur ==
    ASSUME CInv, pc = "bin", NEW j \in Named, disown(j)
    PROVE  CurOK(Jobs', thisjob', binslot')
<1>1. /\ thisjob' = thisjob /\ binslot' = binslot /\ JInv /\ CurOK(Jobs, thisjob, binslot)
      /\ BecomeJobs(deletejob(Jobs, j)) /\ j \in Slots
  BY DEF disown, CInv, Named
<1>2. Jobs \in JobsRecord
  BY <1>1, Facts
<1>3. CurOK(deletejob(Jobs, j), thisjob, binslot)
  BY <1>1, <1>2, FreeAgain
<1> QED
  BY <1>1, <1>3, CurBecomes

LEMMA BuiltinExitCur ==
    ASSUME CInv, BuiltinExit
    PROVE  CurOK(Jobs', thisjob', binslot')
<1>1. /\ thisjob' = 0 /\ binslot' = 0 /\ JInv /\ CurOK(Jobs, thisjob, binslot)
      /\ BecomeJobs(deletejob(Jobs, binslot)) /\ pc = "bin_exit"
  BY DEF BuiltinExit, CInv, MainAt
<1>2. Jobs \in JobsRecord /\ binslot \in Slots /\ thisjob = binslot
  BY <1>1, Facts DEF JInv, Control, Waits
<1>3. CurOK(deletejob(Jobs, binslot), 0, 0)
  BY <1>1, <1>2, FreeAgain
<1> QED
  BY <1>1, <1>3, CurBecomes

LEMMA ResumedCur ==
    ASSUME JInv, ~Building, NEW j \in Slots, NEW func
    PROVE  Resumed(j, func) \in JobsRecord /\ CurOK(Resumed(j, func), thisjob, thisjob)
<1> DEFINE js == IF "STOPPED" \in jobtab[j].stat THEN makerunning(Jobs, j) ELSE Jobs
<1>1. Jobs \in JobsRecord
  BY Facts
<1>2. makerunning(Jobs, j) \in JobsRecord
  BY <1>1, makerunningIs
<1>3. js \in JobsRecord
  BY <1>1, <1>2
<1>4. Resumed(j, func) = shuffle(js, j, func)
  BY DEF Resumed
<1> HIDE DEF js
<1>5. shuffle(js, j, func) \in JobsRecord
  BY <1>3, shuffleIs
<1>6. CurOK(shuffle(js, j, func), thisjob, thisjob)
  BY <1>3, shuffleCur
<1> QED
  BY <1>4, <1>5, <1>6

\* fg, bg and wait.
LEMMA ResumeCur ==
    ASSUME CInv, pc = "bin", NEW j \in Named, fg(j) \/ bg(j) \/ wait(j)
    PROVE  CurOK(Jobs', thisjob', binslot')
<1>1. /\ JInv /\ CurOK(Jobs, thisjob, binslot) /\ binslot' = binslot /\ j \in Slots /\ ~Building
      /\ thisjob' \in {thisjob, j} /\ j # thisjob
  BY DEF fg, bg, wait, CInv, Named, Building
<1>2. thisjob = binslot
  BY <1>1 DEF JInv, Control, Waits, Builtins
<1>3. ASSUME NEW func
      PROVE  CurOK(printjob(Resumed(j, func), j, thisjob), thisjob, thisjob)
             /\ CurOK(Resumed(j, func), thisjob, thisjob)
  <2> DEFINE r == Resumed(j, func)
  <2>1. r \in JobsRecord /\ CurOK(r, thisjob, thisjob)
    BY <1>1, ResumedCur
  <2> HIDE DEF r
  <2>2. thisjob \in {0, thisjob, j}
    OBVIOUS
  <2>3. CurOK(printjob(r, j, thisjob), thisjob, thisjob)
    BY <1>1, <2>1, <2>2, printjobCur
  <2> QED
    BY <2>1, <2>3 DEF r
<1>4. CASE fg(j)
  <2> DEFINE r == printjob(Resumed(j, "fg"), j, thisjob)
  <2>1. BecomeJobs(r) /\ thisjob' = j
    BY <1>4 DEF fg
  <2>2. CurOK(r, thisjob, thisjob)
    BY <1>3
  <2> HIDE DEF r
  <2>3. Offered(r.tab, thisjob', binslot') \subseteq Offered(r.tab, thisjob, thisjob)
    BY <1>1, <1>2 DEF Offered
  <2>4. CurOK(r, thisjob', binslot')
    BY <2>2, <2>3, CurStays
  <2> QED
    BY <2>1, <2>4, CurBecomes
<1>5. CASE bg(j)
  <2>1. thisjob' = thisjob
    BY <1>5 DEF bg
  <2>2. CASE "STOPPED" \in jobtab[j].stat
    <3>1. BecomeJobs(printjob(Resumed(j, "bg"), j, thisjob))
      BY <1>5, <2>2 DEF bg
    <3>2. CurOK(printjob(Resumed(j, "bg"), j, thisjob), thisjob', binslot')
      BY <1>1, <1>2, <1>3, <2>1
    <3> QED
      BY <3>1, <3>2, CurBecomes
  <2>3. CASE "STOPPED" \notin jobtab[j].stat
    <3>1. Quiet
      BY <1>1, <1>5, <2>1, <2>3 DEF bg, Quiet
    <3> QED
      BY <3>1, QuietCur
  <2> QED
    BY <2>2, <2>3
<1>6. CASE wait(j)
  <2>1. thisjob' = thisjob /\ BecomeJobs(Resumed(j, "wait"))
    BY <1>6 DEF wait
  <2>2. CurOK(Resumed(j, "wait"), thisjob', binslot')
    BY <1>1, <1>2, <1>3, <2>1
  <2> QED
    BY <2>1, <2>2, CurBecomes
<1> QED
  BY <1>4, <1>5, <1>6

LEMMA wait_pidCur ==
    ASSUME CInv, NEW p \in Pids, wait_pid(p)
    PROVE  CurOK(Jobs', thisjob', binslot')
<1>1. /\ JInv /\ CurOK(Jobs, thisjob, binslot) /\ binslot' = binslot /\ thisjob' = thisjob
      /\ pc = "bin"
  BY DEF wait_pid, CInv, MainAt
<1>2. thisjob = binslot /\ Jobs \in JobsRecord
  BY <1>1, Facts DEF JInv, Control, Waits, Builtins
<1>3. CASE Entries(jobtab, p) = {}
  <2>1. Quiet
    BY <1>1, <1>3 DEF wait_pid, Quiet
  <2> QED
    BY <2>1, QuietCur
<1>4. CASE Entries(jobtab, p) # {}
  <2> DEFINE j == Found(p)[1]
             r == IF "STOPPED" \in jobtab[j].stat THEN makerunning(Jobs, j) ELSE Jobs
  <2>1. BecomeJobs(r)
    BY <1>4 DEF wait_pid, Found
  <2>2. j \in Slots
    BY <1>1, <1>4, findprocIs DEF Found
  <2> HIDE DEF j
  <2> DEFINE m == makerunning(Jobs, j)
  <2>3. /\ m.cur = Jobs.cur /\ m.prev = Jobs.prev
        /\ m.tab[j].stat = Jobs.tab[j].stat \ {"STOPPED"}
        /\ \A i \in Slots : i # j => m.tab[i] = Jobs.tab[i]
    BY <1>2, <2>2, makerunningIs
  <2> HIDE DEF m
  <2>4. Offered(m.tab, thisjob, binslot) \subseteq Offered(Jobs.tab, thisjob, binslot)
    BY <1>2, <2>3 DEF Offered, InUse
  <2>5. CurOK(m, thisjob, binslot)
    BY <1>1, <2>3, <2>4, CurStays
  <2>6. CurOK(r, thisjob', binslot')
    BY <1>1, <2>5 DEF m
  <2> HIDE DEF r
  <2> QED
    BY <2>1, <2>6, CurBecomes
<1> QED
  BY <1>3, <1>4

\* The other steps leave the job table and the current jobs alone.
LEMMA QuietSteps ==
    ASSUME \/ KernelStep \/ Deliver \/ ReapDone \/ PipelineFailed \/ SubstBegin \/ SubstEnd \/ WaitPipeline
           \/ wait_all \/ WaitPidEnds \/ WaitAllEnds \/ WaitInterrupted \/ BuiltinUnqueue
           \/ TestWait \/ Suspend \/ UNCHANGED vars
    PROVE  Quiet
<1>1. CASE KernelStep \/ Deliver \/ ReapDone \/ UNCHANGED vars
  BY <1>1 DEF Quiet, KernelStep, Exit, Stop, Continue, Report, Deliver, ReapDone, vars, jobVars, mainVars
<1>2. CASE \/ PipelineFailed \/ SubstBegin \/ SubstEnd \/ WaitPipeline \/ TestWait
           \/ Suspend \/ BuiltinUnqueue
  BY <1>2 DEF Quiet, PipelineFailed, SubstBegin, SubstEnd, WaitPipeline, TestWait, Suspend, BuiltinUnqueue, jobVars
<1>3. CASE wait_all \/ WaitPidEnds \/ WaitAllEnds \/ WaitInterrupted
  BY <1>3 DEF Quiet, wait_all, WaitPidEnds, WaitAllEnds, WaitInterrupted, jobVars
<1> QED
  BY <1>1, <1>2, <1>3

LEMMA ReapWaited ==
    ASSUME ~NOTIFY, CInv, NEW p \in Pids, Reap(p)
    PROVE  WaitedOK'
<1>1. JInv /\ WaitedOK /\ child[p].ev # "none" /\ thisjob' = thisjob /\ UNCHANGED mainVars
  BY DEF CInv, Reap
<1>2. Waited' <=> Waited
  BY <1>1 DEF Waited, mainVars
<1>3. pc' = pc
  BY <1>1 DEF mainVars
<1>4. CASE Entries(jobtab, p) = {}
  <2>1. jobtab' = jobtab
    BY <1>4 DEF Reap, jobVars
  <2> QED
    BY <1>1, <1>2, <1>3, <2>1 DEF WaitedOK
<1>5. CASE Entries(jobtab, p) # {}
  <2> DEFINE j == Found(p)[1]
             js == Recorded(p)
             r == update_job(js, j, thisjob)
  <2>1. jobtab' = r.tab
    BY <1>5 DEF Reap, RecordStatus, Found, Recorded, BecomeJobs
  <2>2. /\ j \in Slots /\ "DONE" \notin jobtab[j].stat /\ js \in JobsRecord
        /\ Found(p)[2] \in 1..Len(jobtab[j].procs)
        /\ js.tab[j].stat = jobtab[j].stat
        /\ \A i \in Slots : i # j => js.tab[i] = jobtab[i]
    BY <1>1, <1>5, RecordedIs
  <2> HIDE DEF j, js
  <2> DEFINE a == js.tab[j]
             b == r.tab[j]
             stops == SomeStopped(a)
             notes == (NOTIFY \/ j = thisjob) /\ "LOCKED" \in a.stat
  <2>3. "DONE" \notin js.tab[j].stat
    BY <2>2
  <2>4. /\ r \in JobsRecord
        /\ \A i \in Slots : i # j => r.tab[i] = js.tab[i]
        /\ \/ ~Ends(a) /\ r = js
           \/ /\ Ends(a) /\ stops /\ b.procs = a.procs
              /\ b.stat = IF notes THEN (a.stat \cup {"STOPPED"}) \ {"CHANGED"}
                          ELSE a.stat \cup {"CHANGED", "STOPPED"}
           \/ /\ Ends(a) /\ ~stops /\ notes /\ b = FreeJob
           \/ /\ Ends(a) /\ ~stops /\ ~notes /\ b.procs = a.procs
              /\ b.stat = a.stat \cup {"CHANGED", "DONE"}
    BY <2>2, <2>3, update_jobIs, ZenonT(60)
  <2> HIDE DEF r
  <2>5. SUFFICES ASSUME Waited PROVE WaitedOK'
    BY <1>2 DEF WaitedOK
  <2>6. ~Building /\ thisjob \in Slots /\ thisjob # binslot
    BY <1>1, <2>5, Facts DEF Waited, Building, JInv, Control, Pipes, Builtins, Waits
  <2>7. CASE j # thisjob
    BY <1>1, <1>2, <1>3, <2>1, <2>2, <2>4, <2>6, <2>7 DEF WaitedOK
  <2>8. CASE j = thisjob
    <3>1. jobtab[j] \in Job /\ Listable(jobtab[j]) /\ JobOK(jobtab[j])
      BY <1>1, <2>6, <2>8, Facts DEF ShapeOf
    <3>2. jobtab[j].procs # <<>>
      BY <2>2
    <3>3. "LOCKED" \in jobtab[j].stat
      BY <3>1, <3>2 DEF Listable, JobOK
    <3>4. notes
      BY <2>2, <2>8, <3>3
    <3>5. FreeJob.stat = {}
      BY DEF FreeJob
    <3>6. pc = "after" => "STOPPED" \in a.stat
      BY <1>1, <2>2, <2>5, <2>8, <3>3 DEF WaitedOK
    <3> HIDE DEF notes
    <3>7. "DONE" \notin b.stat /\ (pc = "after" => b.stat = {} \/ "STOPPED" \in b.stat)
      BY <2>2, <2>4, <3>4, <3>5, <3>6
    <3>8. jobtab'[thisjob'] = b
      BY <1>1, <2>1, <2>8
    <3> QED
      BY <1>3, <3>7, <3>8 DEF WaitedOK
  <2> QED
    BY <2>7, <2>8
<1> QED
  BY <1>4, <1>5

LEMMA EnterWaitWaited ==
    ASSUME CInv, EnterWait
    PROVE  WaitedOK'
<1>1. /\ thisjob' = thisjob /\ op' = op /\ pc = "enter" /\ JInv
  BY DEF EnterWait, MainAt, CInv
<1>2. SUFFICES ASSUME op \in {"sync", "fg"} PROVE WaitedOK'
  BY <1>1 DEF WaitedOK, Waited
<1>3. target \in Slots /\ target = thisjob /\ target # binslot
  BY <1>1, <1>2, Facts DEF JInv, Control, Building, Waits, Pipes, Builtins
<1>4. Jobs \in JobsRecord /\ Jobs.tab = jobtab /\ jobtab[target] \in Job /\ JobOK(jobtab[target])
  BY <1>1, <1>3, Facts DEF ShapeOf
<1>5. CASE HasProcs(jobtab, target)
  <2> DEFINE s == jobtab[target].stat \cup {"LOCKED"}
             js == [Jobs EXCEPT !.tab[target].stat = s]
             r == IF "CHANGED" \in jobtab[target].stat THEN printjob(js, target, thisjob) ELSE js
  <2>1. jobtab' = r.tab /\ pc' = "test"
    <3>1. [Jobs EXCEPT !.tab[target].stat = @ \cup {"LOCKED"}] = js
      BY <1>4
    <3> QED
      BY <1>2, <1>5, <3>1 DEF EnterWait, BecomeJobs
  <2>2. s \in SUBSET Flags
    BY <1>4 DEF Job, Flags
  <2>3. "DONE" \in s => "CHANGED" \in jobtab[target].stat
    BY <1>4 DEF JobOK
  <2> HIDE DEF s
  <2>4. js \in JobsRecord /\ js.tab[target].stat = s
    BY <1>3, <1>4, <2>2, StatusSet
  <2> HIDE DEF js
  <2>5. "DONE" \notin printjob(js, target, thisjob).tab[target].stat
    BY <1>3, <2>4, printjobIs
  <2>6. "DONE" \notin r.tab[target].stat
    BY <2>3, <2>4, <2>5
  <2> QED
    BY <1>1, <1>3, <2>1, <2>6 DEF WaitedOK
<1>6. CASE ~HasProcs(jobtab, target)
  <2>1. jobtab' = deletejob(Jobs, target).tab /\ pc' = "after"
    BY <1>2, <1>6 DEF EnterWait, BecomeJobs
  <2>2. deletejob(Jobs, target).tab[target] = FreeJob
    BY <1>3, <1>4, deletejobIs
  <2>3. FreeJob.stat = {}
    BY DEF FreeJob
  <2> QED
    BY <1>1, <1>3, <2>1, <2>2, <2>3 DEF WaitedOK
<1> QED
  BY <1>5, <1>6

LEMMA SleepWaited ==
    ASSUME CInv, TestWait \/ Suspend
    PROVE  WaitedOK'
<1>1. /\ UNCHANGED <<jobtab, thisjob, op>>
      /\ TestWait => pc = "test" /\ pc' = IF MustWait THEN "suspend" ELSE "after"
      /\ Suspend => pc = "suspend" /\ pc' = "suspended"
      /\ JInv /\ WaitedOK
  BY DEF TestWait, Suspend, MainAt, jobVars, CInv
<1>2. CASE Suspend
  BY <1>1, <1>2 DEF WaitedOK, Waited
<1>3. CASE TestWait
  <2>1. SUFFICES ASSUME op \in {"sync", "fg"} PROVE WaitedOK'
    BY <1>1 DEF WaitedOK, Waited
  <2>2. "DONE" \notin jobtab[thisjob].stat
    BY <1>1, <1>3, <2>1 DEF WaitedOK, Waited
  <2>3. target = thisjob
    BY <1>1, <1>3, <2>1 DEF JInv, Control, Waits, Builtins
  <2>4. ~MustWait => jobtab[thisjob].stat = {} \/ "STOPPED" \in jobtab[thisjob].stat
    BY <2>1, <2>2, <2>3 DEF MustWait
  <2> QED
    BY <1>1, <1>3, <2>2, <2>4 DEF WaitedOK
<1> QED
  BY <1>1, <1>2, <1>3

\* Nothing else goes on while a job is waited for in the foreground.
LEMMA WaitedSteps ==
    ASSUME JInv, [Next]_vars
    PROVE  \/ ~Waited'
           \/ UNCHANGED <<jobtab, thisjob, op>> /\ <<pc, pc'>> = <<"suspended", "test">>
           \/ UNCHANGED <<jobtab, thisjob, op, pc>>
           \/ \E p \in Pids : Reap(p)
           \/ EnterWait \/ TestWait \/ Suspend
<1>1. CASE UNCHANGED vars
  BY <1>1 DEF vars, jobVars, mainVars
<1>2. CASE KernelStep \/ Deliver \/ ReapDone
  BY <1>2 DEF KernelStep, Exit, Stop, Continue, Report, Deliver, ReapDone, jobVars, mainVars
<1>3. CASE Pipeline
  BY <1>3 DEF Pipeline, StartPipeline, PipelineFails, PipelineFailed, Fork, SubstBegin, SubstEnd, RunInBackground, RunDisowned,
              WaitPipeline, BeginWait, WaitPipelineEnds, EndPipeline, preprompt, MainAt, mainVars, Waited
<1>4. CASE Builtin
  <2>2. CASE \E j \in Named : fg(j) \/ bg(j) \/ wait(j) \/ disown(j)
    BY <2>2 DEF fg, bg, wait, disown, BeginWait, Finish, Waited
  <2>3. CASE \E p \in Pids : wait_pid(p)
    BY <2>3 DEF wait_pid, BeginWait, Waited
  <2>4. CASE BuiltinStart \/ BuiltinReady \/ jobs \/ wait_all \/ WaitEnds \/ WaitPidEnds
             \/ BuiltinUnqueue \/ BuiltinExit
    BY <2>4 DEF BuiltinStart, BuiltinReady, jobs, wait_all, BeginWait, Finish, WaitEnds,
                WaitPidEnds, BuiltinUnqueue, BuiltinExit, Waited
  <2>5. CASE WaitAllEnds \/ WaitInterrupted
    BY <2>5 DEF WaitAllEnds, WaitInterrupted, Waited
  <2> QED
    BY <1>4, <2>2, <2>3, <2>4, <2>5 DEF Builtin
<1>5. CASE EnterWait \/ TestWait \/ Suspend
  BY <1>5
<1> QED
  BY <1>1, <1>2, <1>3, <1>4, <1>5 DEF Next, Handler, Waiting

\* A builtin acts on the job that BuiltinReady has found.
UInv == JInv /\ (pc = "bin" => Usable(Jobs, thisjob))

LEMMA ReadyStays ==
    ASSUME UInv, [Next]_vars, pc' = "bin"
    PROVE  Usable(Jobs', thisjob')
<1>1. JInv /\ (pc = "bin" => Usable(Jobs, thisjob) /\ ~reaping)
  BY DEF UInv, JInv, Control
<1>2. CASE BuiltinReady
  <2> DEFINE js == IF NOTIFY THEN Jobs ELSE printjobs(Jobs, thisjob, FALSE)
             r == setcurjob(js, thisjob)
  <2>1. BecomeJobs(r) /\ pc = "bin_reap" /\ thisjob' = thisjob
    BY <1>2 DEF BuiltinReady, scanjobs, MainAt
  <2>2. thisjob \in Slots /\ Jobs \in JobsRecord
    BY <1>1, <2>1, Facts DEF JInv, Control, Builtins, Waits
  <2>3. js \in JobsRecord
    BY <2>2, scanjobsIs
  <2> HIDE DEF js
  <2>4. Usable(r, thisjob)
    BY <2>2, <2>3, setcurjobUsable
  <2> HIDE DEF r
  <2> QED
    BY <2>1, <2>4, BecomesIs DEF Usable
<1>3. ASSUME pc = "bin", Quiet PROVE Usable(Jobs', thisjob')
  BY <1>1, <1>3 DEF Quiet, Usable, Jobs, jobVars
<1>4. CASE KernelStep \/ Deliver \/ ReapDone \/ UNCHANGED vars
  <2>1. pc = "bin"
    BY <1>4 DEF KernelStep, Exit, Stop, Continue, Report, Deliver, ReapDone, vars, mainVars
  <2> QED
    BY <1>3, <1>4, <2>1, QuietSteps
<1>5. CASE \E p \in Pids : Reap(p)
  <2>1. reaping /\ pc = "bin"
    BY <1>5 DEF Reap, mainVars
  <2> QED
    BY <1>1, <2>1
<1>6. CASE Pipeline
  BY <1>6 DEF Pipeline, StartPipeline, PipelineFails, PipelineFailed, Fork, SubstBegin, SubstEnd, RunInBackground, RunDisowned,
              WaitPipeline, BeginWait, WaitPipelineEnds, EndPipeline, preprompt, MainAt, mainVars
<1>7. CASE Builtin
  <2>1. CASE \E j \in Named : fg(j) \/ bg(j) \/ wait(j) \/ disown(j)
    BY <2>1 DEF fg, bg, wait, disown, BeginWait, Finish
  <2>2. CASE \E p \in Pids : wait_pid(p)
    BY <2>2 DEF wait_pid, BeginWait
  <2>3. CASE BuiltinStart \/ jobs \/ wait_all \/ WaitEnds \/ WaitPidEnds
             \/ WaitAllEnds \/ WaitInterrupted \/ BuiltinUnqueue \/ BuiltinExit
    BY <2>3 DEF BuiltinStart, jobs, wait_all, BeginWait, Finish, WaitEnds, WaitPidEnds,
                WaitAllEnds, NextOfAll, WaitInterrupted, BuiltinUnqueue, BuiltinExit
  <2> QED
    BY <1>2, <1>7, <2>1, <2>2, <2>3 DEF Builtin
<1>8. CASE Waiting
  BY <1>8 DEF Waiting, EnterWait, TestWait, Suspend
<1> QED
  BY <1>4, <1>5, <1>6, <1>7, <1>8 DEF Next, Handler

LEMMA CurKept == ~NOTIFY /\ CInv /\ [Next]_vars => CInv'
<1> SUFFICES ASSUME ~NOTIFY, CInv, [Next]_vars PROVE CInv'
  OBVIOUS
<1>1. JInv /\ JInv'
  BY NextKeeps DEF CInv
<1>2. pc' = "bin" => Usable(Jobs', thisjob')
  BY ReadyStays DEF CInv, UInv
<1>3. WaitedOK'
  <2>1. CASE ~Waited'
    BY <2>1 DEF WaitedOK
  <2>2. CASE UNCHANGED <<jobtab, thisjob, op>> /\ <<pc, pc'>> = <<"suspended", "test">>
    BY <2>2 DEF CInv, WaitedOK, Waited
  <2>3. CASE UNCHANGED <<jobtab, thisjob, op, pc>>
    BY <2>3 DEF CInv, WaitedOK, Waited
  <2>4. CASE (\E p \in Pids : Reap(p)) \/ EnterWait \/ TestWait \/ Suspend
    BY <2>4, ReapWaited, EnterWaitWaited, SleepWaited
  <2> QED
    BY <1>1, <2>1, <2>2, <2>3, <2>4, WaitedSteps
<1>4. CurOK(Jobs', thisjob', binslot')
  <2>1. CASE \/ KernelStep \/ Deliver \/ ReapDone \/ PipelineFailed \/ SubstBegin \/ SubstEnd \/ WaitPipeline
             \/ wait_all \/ WaitPidEnds \/ WaitAllEnds \/ WaitInterrupted \/ BuiltinUnqueue
             \/ TestWait \/ Suspend \/ UNCHANGED vars
    BY <2>1, QuietSteps, QuietCur
  <2>2. CASE \E p \in Pids : Reap(p) \/ Fork(p) \/ wait_pid(p)
    BY <2>2, ReapCur, ForkCur, wait_pidCur
  <2>3. CASE (\E how \in {"sync", "async", "disown"} : StartPipeline(how)) \/ BuiltinStart
    BY <2>3, StartCur
  <2>4. CASE RunInBackground \/ RunDisowned
    BY <2>4, RunCur
  <2>5. CASE WaitPipelineEnds \/ WaitEnds
    BY <2>5, WaitOverCur
  <2>6. CASE EnterWait
    BY <2>6, EnterWaitCur
  <2>7. CASE preprompt \/ BuiltinReady \/ jobs
    BY <2>7, PrintsCur
  <2>8. CASE \E j \in Named : fg(j) \/ bg(j) \/ wait(j) \/ disown(j)
    <3>1. pc = "bin"
      BY <2>8 DEF fg, bg, wait, disown, MainAt
    <3> QED
      BY <2>8, <3>1, ResumeCur, disownCur
  <2>9. CASE BuiltinExit
    BY <2>9, BuiltinExitCur
  <2>10. CASE PipelineFails
    <3>1. Quiet
      BY <1>1, <2>10 DEF PipelineFails, MainAt, JInv, Control, Quiet, jobVars
    <3> QED
      BY <3>1, QuietCur
  <2> QED
    BY <2>1, <2>2, <2>3, <2>4, <2>5, <2>6, <2>7, <2>8, <2>9, <2>10
    DEF Next, Handler, Pipeline, Builtin, Waiting
<1> QED
  BY <1>1, <1>2, <1>3, <1>4 DEF CInv

\* When a builtin looks for the job it is to act on, the current job is none
\* or one that it may be given, neither deleted meanwhile nor its own entry
\* (setcurjob()), and where jobs are reported at the prompt only there is one
\* if there is any such job.
THEOREM CurrentJobIsThere == Spec => []CurJobUsable
<1>1. ASSUME UInv, pc = "bin"
      PROVE  /\ Named = Offered(jobtab, thisjob, binslot)
             /\ curjob \in Named \cup {0}
  <2>1. thisjob = binslot /\ ~Building
    BY <1>1 DEF UInv, JInv, Control, Waits, Builtins, Building
  <2>2. Jobs.tab = jobtab /\ Jobs.cur = curjob /\ Usable(Jobs, thisjob)
    BY <1>1 DEF Jobs, UInv
  <2>3. \A j \in Slots : jobtab[j].stat # {} <=> InUse(jobtab, j)
    BY <1>1, <2>1, Facts DEF UInv, ShapeOf, JobOK, InUse
  <2>4. Named = Offered(jobtab, thisjob, binslot)
    BY <2>1, <2>3 DEF Named, Offered
  <2>5. curjob # 0 => curjob \in Named
    BY <2>2, <2>3 DEF Usable, Named
  <2> QED
    BY <2>4, <2>5
<1>2. CASE NOTIFY
  <2>1. Init => UInv
    BY InitHolds DEF Init, UInv
  <2>2. UInv /\ [Next]_vars => UInv'
    BY NextKeeps, ReadyStays DEF UInv
  <2>3. UInv => CurJobUsable
    BY <1>1, <1>2 DEF CurJobUsable
  <2> QED
    BY <2>1, <2>2, <2>3, PTL DEF Spec
<1>3. CASE ~NOTIFY
  <2>1. Init => CInv
    <3>1. SUFFICES ASSUME Init PROVE CInv
      OBVIOUS
    <3>2. "INUSE" \notin FreeJob.stat
      BY DEF FreeJob
    <3>3. Offered(jobtab, thisjob, binslot) = {}
      BY <3>1, <3>2 DEF Init, Offered, InUse
    <3>4. CurOK(Jobs, thisjob, binslot)
      BY <3>3 DEF CurOK, Jobs
    <3>5. ~Waited /\ pc # "bin"
      BY <3>1 DEF Init, Waited
    <3> QED
      BY <3>1, <3>4, <3>5, InitHolds DEF CInv, WaitedOK
  <2>2. CInv /\ [Next]_vars => CInv'
    BY <1>3, CurKept
  <2>3. CInv => CurJobUsable
    <3>1. SUFFICES ASSUME CInv, pc = "bin"
                   PROVE  curjob \in Named \cup {0} /\ (Named # {} => curjob # 0)
      BY DEF CurJobUsable
    <3>2. UInv /\ CurOK(Jobs, thisjob, binslot) /\ Jobs.tab = jobtab /\ Jobs.cur = curjob
      BY <3>1 DEF CInv, UInv, Jobs
    <3>3. Named = Offered(jobtab, thisjob, binslot) /\ curjob \in Named \cup {0}
      BY <1>1, <3>1, <3>2
    <3> QED
      BY <3>2, <3>3 DEF CurOK
  <2> QED
    BY <2>1, <2>2, <2>3, PTL DEF Spec
<1> QED
  BY <1>2, <1>3

-----------------------------------------------------------------------------
(* The status of a foreground pipeline.                                    *)

\* p has ended with the status st, and all of it has been reported.
Over(ch, p, st) == ch[p].code = st /\ ~Lives(ch, p)

\* The job of the pipeline; val is $?, when it is waited for, fg is the
\* process that was the last one when that began.  A job that is done waits
\* to be printed; one that has left the table has left its status in $?.
LastOK(job, ch, val, waits, fg_) ==
    /\ job.procs # <<>> =>
          /\ Terminated(Last(job.procs).st) => Over(ch, Last(job.procs).pid, Last(job.procs).st)
          /\ "DONE" \in job.stat => val = Last(job.procs).st
          /\ waits => fg_ = Last(job.procs).pid
    /\ waits => fg_ \in Pids
    /\ waits /\ job.stat = {} => Over(ch, fg_, val)

FgOK == op = "sync" => LastOK(jobtab[thisjob], child, lastval, pc \in Waits, fglast)

FInv == JInv /\ Kids /\ FgOK

\* What has ended stays as it is.
EndsStay(ch, ch2) ==
    \A p \in Pids : ~Lives(ch, p) => ch2[p].code = ch[p].code /\ ~Lives(ch2, p)

LEMMA OverStays ==
    ASSUME NEW ch, NEW ch2, EndsStay(ch, ch2), NEW p \in Pids, NEW st, Over(ch, p, st)
    PROVE  Over(ch2, p, st)
BY DEF Over, EndsStay

LEMMA LastStays ==
    ASSUME NEW job \in Job, NEW ch, NEW ch2, EndsStay(ch, ch2), NEW val, NEW waits, NEW fg_,
           LastOK(job, ch, val, waits, fg_)
    PROVE  LastOK(job, ch2, val, waits, fg_)
<1> DEFINE q == Last(job.procs)
<1>1. CASE job.procs # <<>>
  <2>1. q.pid \in Pids
    BY <1>1, LastIs
  <2> HIDE DEF q
  <2>2. Terminated(q.st) => Over(ch2, q.pid, q.st)
    BY <1>1, <2>1, OverStays DEF LastOK, q
  <2>3. waits /\ job.stat = {} => Over(ch2, fg_, val)
    BY OverStays DEF LastOK
  <2> QED
    BY <1>1, <2>2, <2>3 DEF LastOK, q
<1>2. CASE job.procs = <<>>
  BY <1>2, OverStays DEF LastOK
<1> QED
  BY <1>1, <1>2

LEMMA KidsKept ==
    ASSUME JInv, Kids, [Next]_vars
    PROVE  Kids'
<1>1. child \in [Pids -> ChildSet]
  BY ChildIs
<1>2. CASE child' = child
  BY <1>2 DEF Kids
<1>3. CASE KernelStep
  BY <1>1, <1>3 DEF KernelStep, Exit, Stop, Continue, Report, Kids
<1>4. ASSUME NEW p \in Pids, Reap(p) PROVE Kids'
  BY <1>4, ReapedIs
<1>5. ASSUME NEW p \in Pids, Fork(p) PROVE Kids'
  <2>1. child[p].st = "new" /\ child' = [child EXCEPT ![p].st = "run", ![p].code = "ok"]
    BY <1>5 DEF Fork
  <2>2. /\ \A q \in Pids : q # p => child'[q] = child[q]
        /\ child'[p].st = "run" /\ child'[p].ev = child[p].ev
    BY <1>1, <2>1 DEF ChildSet
  <2>3. child[p].ev = "none"
    BY <1>1, <2>1 DEF Kids, ChildSet
  <2> QED
    BY <2>2, <2>3 DEF Kids
<1>6. ASSUME NEW ps, child' = Continued(ps) PROVE Kids'
  <2>1. \A p \in Pids : \/ child'[p] = child[p]
                        \/ child[p].st = "stop" /\ child'[p].st = "run" /\ child'[p].ev = "cont"
    BY <1>1, <1>6 DEF Continued, ChildSet
  <2> QED
    BY <2>1 DEF Kids
<1> QED
  BY <1>2, <1>3, <1>4, <1>5, <1>6, ChildSteps

\* The steps that a foreground pipeline takes.
LEMMA SyncSteps ==
    ASSUME JInv, [Next]_vars, op' = "sync"
    PROVE  \/ StartPipeline("sync")
           \/ /\ op = "sync"
              /\ \/ /\ UNCHANGED <<jobtab, thisjob, child, lastval, fglast>>
                    /\ pc' \in Waits <=> pc \in Waits
                 \/ KernelStep
                 \/ \E p \in Pids : Reap(p) \/ Fork(p)
                 \/ SubstEnd \/ WaitPipeline \/ EnterWait
<1>1. CASE UNCHANGED vars
  BY <1>1 DEF vars, kernelVars, jobVars, statusVars, mainVars
<1>2. CASE KernelStep
  BY <1>2 DEF KernelStep, Exit, Stop, Continue, Report, mainVars
<1>3. CASE Handler
  <2>1. CASE Deliver \/ ReapDone
    BY <2>1 DEF Deliver, ReapDone, kernelVars, jobVars, statusVars, mainVars, Waits
  <2>2. CASE \E p \in Pids : Reap(p)
    BY <2>2 DEF Reap, mainVars
  <2> QED
    BY <1>3, <2>1, <2>2 DEF Handler
<1>4. CASE Pipeline
  <2>1. CASE \E how \in {"sync", "async", "disown"} : StartPipeline(how)
    BY <2>1 DEF StartPipeline
  <2>2. CASE \E p \in Pids : Fork(p)
    BY <2>2 DEF Fork, mainVars
  <2>3. CASE SubstBegin
    BY <2>3 DEF SubstBegin, MainAt, kernelVars, jobVars, statusVars, Waits
  <2>4. CASE SubstEnd \/ WaitPipeline
    BY <2>4 DEF SubstEnd, WaitPipeline
  <2>5. CASE RunInBackground \/ RunDisowned \/ WaitPipelineEnds
    BY <2>5 DEF RunInBackground, RunDisowned, WaitPipelineEnds, EndPipeline
  <2>6. CASE preprompt
    <3>1. pc = "idle" /\ op' = op
      BY <2>6 DEF preprompt, MainAt, mainVars
    <3> QED
      BY <3>1 DEF JInv, Control
  <2>7. CASE PipelineFails \/ PipelineFailed
    BY <2>7 DEF PipelineFails, PipelineFailed, MainAt, JInv, Control
  <2> QED
    BY <1>4, <2>1, <2>2, <2>3, <2>4, <2>5, <2>6, <2>7 DEF Pipeline
<1>5. CASE Builtin
  <2>1. CASE \E j \in Named : fg(j) \/ bg(j) \/ wait(j) \/ disown(j)
    BY <2>1 DEF fg, bg, wait, disown, MainAt, JInv, Control
  <2>2. CASE \E p \in Pids : wait_pid(p)
    BY <2>2 DEF wait_pid, MainAt, JInv, Control
  <2>3. CASE BuiltinStart \/ BuiltinReady \/ jobs \/ wait_all
    BY <2>3 DEF BuiltinStart, BuiltinReady, jobs, wait_all, MainAt, JInv, Control
  <2>4. CASE WaitEnds \/ WaitPidEnds \/ WaitAllEnds \/ WaitInterrupted
    BY <2>4 DEF WaitEnds, WaitPidEnds, WaitAllEnds, WaitInterrupted
  <2>5. CASE BuiltinUnqueue \/ BuiltinExit
    BY <2>5 DEF BuiltinUnqueue, BuiltinExit, MainAt, JInv, Control, Builtins
  <2> QED
    BY <1>5, <2>1, <2>2, <2>3, <2>4, <2>5 DEF Builtin
<1>6. CASE Waiting
  BY <1>6 DEF Waiting, EnterWait, TestWait, Suspend, MainAt, kernelVars, jobVars, statusVars, Waits
<1> QED
  BY <1>1, <1>2, <1>3, <1>4, <1>5, <1>6 DEF Next

LEMMA StartFg ==
    ASSUME FInv, JInv', StartPipeline("sync")
    PROVE  FgOK'
<1>1. /\ thisjob' = initjob /\ initjob # 0 /\ pc' = "build"
      /\ jobtab' = [jobtab EXCEPT ![initjob].stat = {"INUSE"}]
  BY DEF StartPipeline
<1>2. thisjob' \in Slots /\ jobtab[thisjob'].stat = {}
  BY <1>1, InitjobIs
<1>3. jobtab[thisjob'] \in Job /\ JobOK(jobtab[thisjob']) /\ jobtab \in Table
  BY <1>2, Facts DEF FInv, ShapeOf
<1>4. jobtab'[thisjob'].procs = <<>>
  BY <1>1, <1>2, <1>3 DEF JobOK, Job, Table
<1> QED
  BY <1>1, <1>4 DEF FgOK, LastOK, Waits

LEMMA KernelFg ==
    ASSUME FInv, KernelStep
    PROVE  FgOK'
<1>1. PICK p \in Pids : Exit(p) \/ Stop(p) \/ Continue(p)
  BY DEF KernelStep
<1>2. /\ UNCHANGED <<jobtab, thisjob, lastval, op, pc, fglast>>
      /\ Lives(child, p)
      /\ \E st, ev, c : /\ st \in {"run", "stop", "zombie"}
                        /\ child' = [child EXCEPT ![p] = [st |-> st, ev |-> ev, code |-> c]]
  BY <1>1 DEF Exit, Stop, Continue, Report, Lives, jobVars, statusVars, mainVars
<1>3. child \in [Pids -> ChildSet]
  BY ChildIs DEF FInv
<1>4. EndsStay(child, child')
  <2>1. PICK st, ev, c : /\ st \in {"run", "stop", "zombie"}
                        /\ child' = [child EXCEPT ![p] = [st |-> st, ev |-> ev, code |-> c]]
    BY <1>2
  <2>2. \A q \in Pids : q # p => child'[q] = child[q]
    BY <1>3, <2>1
  <2> QED
    BY <1>2, <2>2 DEF EndsStay, Lives
<1>5. SUFFICES ASSUME op = "sync" PROVE LastOK(jobtab[thisjob], child', lastval, pc \in Waits, fglast)
  BY <1>2 DEF FgOK
<1>6. jobtab[thisjob] \in Job
  BY <1>5, Facts DEF FInv, JInv, Control, Pipes
<1>7. LastOK(jobtab[thisjob], child, lastval, pc \in Waits, fglast)
  BY <1>5 DEF FInv, FgOK
<1> QED
  BY <1>4, <1>6, <1>7, LastStays

LEMMA ForkFg ==
    ASSUME FInv, NEW p \in Pids, Fork(p), op = "sync"
    PROVE  FgOK'
<1> DEFINE js == addproc(Jobs, thisjob, p)
           q == [pid |-> p, st |-> "run"]
           ps == jobtab[thisjob].procs
<1>1. /\ pc' \in {"build", "last"} /\ BecomeJobs(js) /\ thisjob' = thisjob
  BY DEF Fork, MainAt, mainVars
<1>2. thisjob \in Slots /\ Jobs \in JobsRecord /\ Jobs.tab = jobtab /\ jobtab[thisjob] \in Job
  BY Facts DEF FInv, JInv, Control, Pipes
<1>3. /\ js \in JobsRecord /\ js.cur = Jobs.cur /\ js.prev = Jobs.prev
      /\ js.tab[thisjob].stat = Jobs.tab[thisjob].stat \ {"DONE"}
      /\ js.tab[thisjob].procs = Append(Jobs.tab[thisjob].procs, q)
      /\ \A i \in Slots : i # thisjob => js.tab[i] = Jobs.tab[i]
  BY <1>2, addprocIs
<1> HIDE DEF js
<1>4. jobtab'[thisjob'].procs = Append(ps, q) /\ "DONE" \notin jobtab'[thisjob'].stat
  BY <1>1, <1>2, <1>3 DEF BecomeJobs
<1>5. ps \in Seq(Proc) /\ q \in Proc /\ q.st = "run"
  BY <1>2 DEF Job, Proc, Statuses
<1> HIDE DEF ps, q
<1>6. Last(Append(ps, q)) = q
  BY <1>5 DEF Last
<1>7. ~Terminated(Last(Append(ps, q)).st)
  BY <1>5, <1>6, JobControlAssumption DEF Terminated
<1>8. pc' \notin Waits
  BY <1>1 DEF Waits
<1> QED
  BY <1>4, <1>7, <1>8 DEF FgOK, LastOK

LEMMA SubstEndFg ==
    ASSUME FInv, SubstEnd
    PROVE  FgOK'
<1>1. UNCHANGED <<jobtab, thisjob, child, lastval, op>> /\ pc' = "last"
  BY DEF SubstEnd, kernelVars, jobVars, statusVars
<1>2. pc' \notin Waits
  BY <1>1 DEF Waits
<1> QED
  BY <1>1, <1>2 DEF FInv, FgOK, LastOK

LEMMA WaitPipelineFg ==
    ASSUME FInv, WaitPipeline
    PROVE  FgOK'
<1> DEFINE job == jobtab[thisjob]
           q == Last(job.procs)
<1>1. /\ UNCHANGED <<jobtab, thisjob, child, lastval, op>> /\ op = "sync"
      /\ fglast' = q.pid /\ job.procs # <<>>
  BY DEF WaitPipeline, BeginWait, Complete, kernelVars, jobVars, statusVars
<1>2. job \in Job /\ JobOK(job)
  BY <1>1, Facts DEF FInv, JInv, Control, Pipes, ShapeOf
<1>3. q.pid \in Pids /\ job.stat # {}
  BY <1>1, <1>2, LastIs DEF JobOK
<1> HIDE DEF q
<1>4. /\ Terminated(q.st) => Over(child, q.pid, q.st)
      /\ "DONE" \in job.stat => lastval = q.st
  BY <1>1 DEF FInv, FgOK, LastOK, q
<1>5. LastOK(job, child, lastval, pc' \in Waits, fglast')
  BY <1>1, <1>3, <1>4 DEF LastOK, q
<1> QED
  BY <1>1, <1>5 DEF FgOK

\* A job that is done has a last process that has ended.
LEMMA DoneLast ==
    ASSUME NEW job \in Job, job.procs # <<>>, Ended(job)
    PROVE  Terminated(Last(job.procs).st)
BY LastIs, ProcsIs DEF Ended

LEMMA EnterWaitFg ==
    ASSUME FInv, EnterWait, op = "sync"
    PROVE  FgOK'
<1> DEFINE job == jobtab[thisjob]
           q == Last(job.procs)
           s == job.stat \cup {"LOCKED"}
           js == [Jobs EXCEPT !.tab[thisjob].stat = s]
           r == IF "CHANGED" \in job.stat THEN printjob(js, thisjob, thisjob) ELSE js
           b == r.tab[thisjob]
<1>1. /\ UNCHANGED <<thisjob, child, lastval, op, fglast>> /\ pc = "enter" /\ JInv
  BY DEF EnterWait, MainAt, kernelVars, statusVars, FInv
<1>2. target = thisjob /\ thisjob \in Slots /\ Building
  BY <1>1, Facts DEF JInv, Control, Building, Waits, Pipes
<1>3. /\ Jobs \in JobsRecord /\ Jobs.tab = jobtab /\ job \in Job /\ JobOK(job) /\ job.procs # <<>>
  BY <1>1, <1>2, Facts DEF JInv, Shape, ShapeOf
<1>4. jobtab' = r.tab
  <2>1. [Jobs EXCEPT !.tab[target].stat = @ \cup {"LOCKED"}] = js
    BY <1>2, <1>3
  <2> QED
    BY <1>2, <1>3, <2>1 DEF EnterWait, HasProcs, BecomeJobs
<1>5. /\ Terminated(q.st) => Over(child, q.pid, q.st)
      /\ "DONE" \in job.stat => lastval = q.st
      /\ fglast = q.pid /\ fglast \in Pids
  <2>1. pc \in Waits
    BY <1>1 DEF Waits
  <2> QED
    BY <1>3, <2>1 DEF FInv, FgOK, LastOK
<1>6. "DONE" \in job.stat => Terminated(q.st) /\ "CHANGED" \in job.stat
  BY <1>3, DoneLast DEF JobOK
<1>7. s \in SUBSET Flags /\ s # {} /\ ("DONE" \in s <=> "DONE" \in job.stat)
  BY <1>3 DEF Job, Flags
<1> HIDE DEF s
<1>8. js \in JobsRecord /\ js.tab[thisjob].stat = s /\ js.tab[thisjob].procs = job.procs
  BY <1>2, <1>3, <1>7, StatusSet
<1> HIDE DEF js, q
<1>9. CASE "DONE" \notin job.stat
  <2>1. b.procs = job.procs /\ "DONE" \notin b.stat /\ b.stat # {}
    <3>1. CASE "CHANGED" \in job.stat
      <4> DEFINE t == s \ {"CHANGED"}
      <4>1. r = [js EXCEPT !.tab[thisjob].stat = t]
        BY <1>7, <1>8, <1>9, <3>1 DEF printjob
      <4>2. t \in SUBSET Flags /\ "DONE" \notin t /\ "LOCKED" \in t
        BY <1>7, <1>9 DEF s
      <4> HIDE DEF t, r
      <4>3. b.procs = job.procs /\ b.stat = t
        BY <1>2, <1>8, <4>1, <4>2, StatusSet
      <4> QED
        BY <4>2, <4>3
    <3>2. CASE "CHANGED" \notin job.stat
      BY <1>7, <1>8, <1>9, <3>2
    <3> QED
      BY <3>1, <3>2
  <2> HIDE DEF r
  <2>2. LastOK(b, child, lastval, pc' \in Waits, fglast)
    BY <1>5, <2>1 DEF LastOK, q
  <2> QED
    BY <1>1, <1>4, <2>2 DEF FgOK
<1>10. CASE "DONE" \in job.stat
  <2>1. r = printjob(js, thisjob, thisjob)
    BY <1>6, <1>10
  <2>2. Kept(js.tab[thisjob], r.tab[thisjob]) /\ "DONE" \notin r.tab[thisjob].stat
    BY <1>2, <1>8, <2>1, printjobIs
  <2> HIDE DEF r
  <2>3. b = FreeJob
    BY <1>7, <1>8, <1>10, <2>2 DEF Kept
  <2>4. b.procs = <<>>
    BY <2>3 DEF FreeJob
  <2>5. Over(child, fglast, lastval) /\ fglast \in Pids
    BY <1>5, <1>6, <1>10
  <2>6. LastOK(b, child, lastval, pc' \in Waits, fglast)
    BY <2>4, <2>5 DEF LastOK
  <2> QED
    BY <1>1, <1>4, <2>6 DEF FgOK
<1> QED
  BY <1>9, <1>10

\* What a report makes of the last process of the pipeline.
LEMMA ReapLast ==
    ASSUME FInv, NEW p \in Pids, Reap(p), Entries(jobtab, p) # {}, op = "sync", Found(p)[1] = thisjob
    PROVE  LET a == Recorded(p).tab[thisjob]
               q == Last(a.procs)
           IN  /\ a \in Job /\ a.procs # <<>> /\ a.stat = jobtab[thisjob].stat
               /\ "DONE" \notin a.stat /\ JobOK(jobtab[thisjob])
               /\ q.pid \in Pids /\ (pc \in Waits => fglast = q.pid)
               /\ Terminated(q.st) => Over(child', q.pid, q.st)
<1> DEFINE job == jobtab[thisjob]
           js == Recorded(p)
           a == js.tab[thisjob]
           k == Found(p)[2]
           n == Len(job.procs)
           old == Last(job.procs)
           q == Last(a.procs)
<1>1. JInv /\ Kids /\ LastOK(job, child, lastval, pc \in Waits, fglast)
  BY DEF FInv, FgOK
<1>2. Reaped(p, child') /\ child[p].ev # "none"
  BY <1>1, ReapedIs
<1>3. Lives(child, p) /\ (child[p].ev = "exit" <=> child[p].st = "zombie")
  <2>1. child[p] \in ChildSet
    BY <1>1, ChildIs
  <2> QED
    BY <1>1, <1>2, <2>1 DEF Kids, Lives, ChildSet
<1>4. EndsStay(child, child')
  <2>1. \A q_ \in Pids : q_ # p => child'[q_] = child[q_]
    BY <1>2 DEF Reaped
  <2> QED
    BY <1>3, <2>1 DEF EndsStay, Lives
<1>5. /\ thisjob \in Slots /\ k \in 1..n /\ job.procs[k].pid = p /\ "DONE" \notin job.stat
      /\ js \in JobsRecord /\ a.stat = job.stat /\ Len(a.procs) = n
      /\ \A i \in 1..n : a.procs[i] = IF i = k THEN [pid |-> p, st |-> StatusOf(p)] ELSE job.procs[i]
  <2> DEFINE j == Found(p)[1]
  <2>1. /\ j \in Slots /\ k \in 1..Len(jobtab[j].procs) /\ jobtab[j].procs[k].pid = p
        /\ "DONE" \notin jobtab[j].stat /\ js \in JobsRecord
        /\ js.tab[j].stat = jobtab[j].stat
        /\ Len(js.tab[j].procs) = Len(jobtab[j].procs)
        /\ \A i \in 1..Len(jobtab[j].procs) :
              js.tab[j].procs[i] = IF i = k THEN [pid |-> p, st |-> StatusOf(p)]
                                   ELSE jobtab[j].procs[i]
    BY <1>1, <1>2, RecordedIs
  <2>2. j = thisjob
    OBVIOUS
  <2> HIDE DEF j, k, js
  <2> QED
    BY <2>1, <2>2
<1>6. job \in Job /\ JobOK(job)
  BY <1>1, <1>5, Facts DEF ShapeOf
<1> HIDE DEF js, k
<1>7. a \in Job
  BY <1>5 DEF JobsRecord, Table
<1> HIDE DEF a
<1>8. n \in Nat /\ n > 0
  BY <1>5, <1>6, ProcsIs
<1>9. a.procs # <<>> /\ job.procs # <<>>
  BY <1>5, <1>8
<1>10. /\ n \in 1..n /\ q = a.procs[n] /\ old = job.procs[n]
       /\ q.pid \in Pids /\ old.pid \in Pids
  BY <1>5, <1>6, <1>7, <1>8, <1>9, LastIs
<1> HIDE DEF q, old, n
<1>11. /\ Terminated(old.st) => Over(child, old.pid, old.st)
       /\ pc \in Waits => fglast = old.pid
  BY <1>1, <1>9 DEF LastOK, old
<1>12. ASSUME n = k
       PROVE  (pc \in Waits => fglast = q.pid) /\ (Terminated(q.st) => Over(child', q.pid, q.st))
  <2>1. q.pid = p /\ q.st = StatusOf(p) /\ old.pid = p
    BY <1>5, <1>10, <1>12
  <2>2. ASSUME Terminated(StatusOf(p)) PROVE Over(child', p, StatusOf(p))
    <3>1. child[p].ev = "exit" /\ StatusOf(p) = child[p].code
      <4>1. child[p].ev \in {"exit", "stop", "cont"}
        <5>1. child[p] \in ChildSet
          BY <1>1, ChildIs
        <5> QED
          BY <1>2, <5>1 DEF ChildSet
      <4>2. "run" \notin Codes /\ "stop" \notin Codes
        BY JobControlAssumption
      <4> QED
        BY <1>1, <1>2, <2>2, <4>1, <4>2, ReportIs DEF Terminated
    <3>2. child'[p].code = child[p].code /\ child'[p].st \in {"new", "gone"}
      BY <1>2, <1>3, <3>1 DEF Reaped
    <3> QED
      BY <3>1, <3>2 DEF Over, Lives
  <2> QED
    BY <1>11, <2>1, <2>2
<1>13. ASSUME n # k
       PROVE  (pc \in Waits => fglast = q.pid) /\ (Terminated(q.st) => Over(child', q.pid, q.st))
  <2>1. q = old
    BY <1>5, <1>10, <1>13
  <2>2. Terminated(q.st) => Over(child', q.pid, q.st)
    BY <1>4, <1>10, <1>11, <2>1, OverStays
  <2> QED
    BY <1>11, <2>1, <2>2
<1>14. (pc \in Waits => fglast = q.pid) /\ (Terminated(q.st) => Over(child', q.pid, q.st))
  BY <1>12, <1>13
<1>15. a.stat = job.stat /\ "DONE" \notin a.stat /\ q.pid \in Pids
  BY <1>5, <1>10
<1> QED
  BY <1>6, <1>7, <1>9, <1>14, <1>15 DEF a, js, q

LEMMA ReapFg ==
    ASSUME FInv, NEW p \in Pids, Reap(p), op = "sync"
    PROVE  FgOK'
<1> DEFINE job == jobtab[thisjob]
<1>1. JInv /\ Kids /\ LastOK(job, child, lastval, pc \in Waits, fglast)
  BY DEF FInv, FgOK
<1>2. UNCHANGED <<thisjob, op, pc, fglast>> /\ child[p].ev # "none"
  BY DEF Reap, mainVars
<1>3. thisjob \in Slots /\ job \in Job
  BY <1>1, Facts DEF JInv, Control, Pipes
<1>4. EndsStay(child, child')
  <2>1. Reaped(p, child') /\ child[p].ev # "none"
    BY <1>1, ReapedIs
  <2>2. child[p] \in ChildSet
    BY <1>1, ChildIs
  <2>3. Lives(child, p)
    BY <1>1, <2>1, <2>2 DEF Kids, Lives, ChildSet
  <2>4. \A q \in Pids : q # p => child'[q] = child[q]
    BY <2>1 DEF Reaped
  <2> QED
    BY <2>3, <2>4 DEF EndsStay, Lives
<1>5. ASSUME jobtab'[thisjob] = job, lastval' = lastval PROVE FgOK'
  <2>1. LastOK(job, child', lastval, pc \in Waits, fglast)
    BY <1>1, <1>3, <1>4, LastStays
  <2> QED
    BY <1>2, <1>5, <2>1 DEF FgOK
<1>6. CASE Entries(jobtab, p) = {}
  <2>1. jobtab' = jobtab /\ lastval' = lastval
    BY <1>6 DEF Reap, jobVars, statusVars
  <2> QED
    BY <1>5, <2>1
<1>7. CASE Entries(jobtab, p) # {}
  <2> DEFINE j == Found(p)[1]
             js == Recorded(p)
             r == update_job(js, j, thisjob)
             a == js.tab[j]
             q == Last(a.procs)
  <2>1. /\ jobtab' = r.tab
        /\ lastval' = IF Ends(a) /\ j = thisjob THEN q.st ELSE lastval
    BY <1>7 DEF Reap, RecordStatus, Found, Recorded, BecomeJobs
  <2>2. /\ j \in Slots /\ "DONE" \notin jobtab[j].stat /\ js \in JobsRecord
        /\ a.stat = jobtab[j].stat
        /\ \A i \in Slots : i # j => js.tab[i] = jobtab[i]
    BY <1>1, <1>2, <1>7, RecordedIs
  <2>3. "DONE" \notin js.tab[j].stat
    BY <2>2
  <2> HIDE DEF js, j
  <2> DEFINE b == r.tab[j]
             stops == SomeStopped(a)
             notes == (NOTIFY \/ j = thisjob) /\ "LOCKED" \in a.stat
  <2>4. /\ r \in JobsRecord
        /\ \A i \in Slots : i # j => r.tab[i] = js.tab[i]
        /\ \/ ~Ends(a) /\ r = js
           \/ /\ Ends(a) /\ stops /\ b.procs = a.procs
              /\ b.stat = IF notes THEN (a.stat \cup {"STOPPED"}) \ {"CHANGED"}
                          ELSE a.stat \cup {"CHANGED", "STOPPED"}
           \/ /\ Ends(a) /\ ~stops /\ notes /\ b = FreeJob
           \/ /\ Ends(a) /\ ~stops /\ ~notes /\ b.procs = a.procs
              /\ b.stat = a.stat \cup {"CHANGED", "DONE"}
    BY <2>2, <2>3, update_jobIs, ZenonT(60)
  <2> HIDE DEF r
  <2>5. CASE j # thisjob
    BY <1>3, <1>5, <2>1, <2>2, <2>4, <2>5
  <2>6. CASE j = thisjob
    <3>1. /\ a \in Job /\ a.procs # <<>> /\ a.stat = job.stat /\ "DONE" \notin a.stat /\ JobOK(job)
          /\ q.pid \in Pids /\ (pc \in Waits => fglast = q.pid)
          /\ Terminated(q.st) => Over(child', q.pid, q.st)
      BY <1>7, <2>6, ReapLast DEF j, js
    <3>2. a.stat # {}
      <4>1. job.procs # <<>>
        <5>1. Found(p)[2] \in 1..Len(job.procs)
          BY <1>1, <1>2, <1>7, <2>6, RecordedIs DEF j
        <5> QED
          BY <1>3, <5>1, ProcsIs
      <4> QED
        BY <3>1, <4>1 DEF JobOK
    <3>3. lastval' = IF Ends(a) THEN q.st ELSE lastval
      BY <2>1, <2>6
    <3> HIDE DEF a, q
    <3>4. ASSUME Ends(a), ~stops PROVE Terminated(q.st)
      <4>1. q \in Proc /\ q = a.procs[Len(a.procs)] /\ Len(a.procs) \in DOMAIN a.procs
        BY <3>1, LastIs, ProcsIs DEF q
      <4>2. q.st \in Statuses
        BY <4>1 DEF Proc
      <4>3. q.st # "run" /\ q.st # "stop"
        BY <3>4, <4>1 DEF Ends, Settled, SomeStopped
      <4> QED
        BY <4>2, <4>3 DEF Statuses, Terminated
    <3> HIDE DEF stops, notes, b
    <3>5. LastOK(b, child', lastval', pc \in Waits, fglast)
      <4>1. CASE ~Ends(a) /\ r = js
        <5>1. b = a
          BY <4>1 DEF a, b
        <5> QED
          BY <3>1, <3>2, <5>1 DEF LastOK, q
      <4>2. CASE /\ Ends(a) /\ stops /\ b.procs = a.procs
                 /\ b.stat = IF notes THEN (a.stat \cup {"STOPPED"}) \ {"CHANGED"}
                             ELSE a.stat \cup {"CHANGED", "STOPPED"}
        <5>1. "DONE" \notin b.stat /\ "STOPPED" \in b.stat
          BY <3>1, <4>2
        <5> QED
          BY <3>1, <4>2, <5>1 DEF LastOK, q
      <4>3. CASE Ends(a) /\ ~stops /\ notes /\ b = FreeJob
        <5>1. b.procs = <<>>
          BY <4>3 DEF FreeJob
        <5>2. lastval' = q.st /\ Over(child', q.pid, q.st)
          BY <3>1, <3>3, <3>4, <4>3
        <5> QED
          BY <3>1, <5>1, <5>2 DEF LastOK
      <4>4. CASE /\ Ends(a) /\ ~stops /\ ~notes /\ b.procs = a.procs
                 /\ b.stat = a.stat \cup {"CHANGED", "DONE"}
        <5>1. lastval' = q.st /\ b.stat # {}
          BY <3>3, <4>4
        <5> QED
          BY <3>1, <4>4, <5>1 DEF LastOK, q
      <4> QED
        BY <2>4, <4>1, <4>2, <4>3, <4>4
    <3>6. jobtab'[thisjob'] = b
      BY <1>2, <2>1, <2>6 DEF b
    <3> QED
      BY <1>2, <3>5, <3>6 DEF FgOK
  <2> QED
    BY <2>5, <2>6
<1> QED
  BY <1>6, <1>7

LEMMA FgKept == FInv /\ [Next]_vars => FInv'
<1> SUFFICES ASSUME FInv, [Next]_vars PROVE FInv'
  OBVIOUS
<1>1. JInv /\ JInv' /\ Kids'
  BY NextKeeps, KidsKept DEF FInv
<1>2. CASE op' # "sync"
  BY <1>1, <1>2 DEF FInv, FgOK
<1>3. CASE op' = "sync"
  <2>1. CASE StartPipeline("sync")
    BY <1>1, <2>1, StartFg DEF FInv
  <2>2. CASE op = "sync" /\ UNCHANGED <<jobtab, thisjob, child, lastval, fglast>>
             /\ (pc' \in Waits <=> pc \in Waits)
    <3>1. LastOK(jobtab[thisjob], child, lastval, pc \in Waits, fglast)
      BY <2>2 DEF FInv, FgOK
    <3>2. LastOK(jobtab'[thisjob'], child', lastval', pc' \in Waits, fglast')
      BY <2>2, <3>1 DEF LastOK
    <3> QED
      BY <1>1, <3>2 DEF FInv, FgOK
  <2>3. CASE op = "sync" /\ KernelStep
    BY <1>1, <2>3, KernelFg DEF FInv
  <2>4. CASE op = "sync" /\ \E p \in Pids : Reap(p) \/ Fork(p)
    BY <1>1, <2>4, ReapFg, ForkFg DEF FInv
  <2>5. CASE op = "sync" /\ (SubstEnd \/ WaitPipeline \/ EnterWait)
    BY <1>1, <2>5, SubstEndFg, WaitPipelineFg, EnterWaitFg DEF FInv
  <2> QED
    BY <1>1, <1>3, <2>1, <2>2, <2>3, <2>4, <2>5, SyncSteps
<1> QED
  BY <1>2, <1>3

LEMMA FgInit == Init => FInv
<1> SUFFICES ASSUME Init PROVE FInv
  OBVIOUS
<1>1. Kids
  BY DEF Init, Kids
<1>2. op # "sync"
  BY DEF Init
<1> QED
  BY <1>1, <1>2, InitHolds DEF FInv, FgOK

\* The end of the pipeline leaves the status alone.
LEMMA LastStep ==
    ASSUME JInv, [Next]_vars, op = "sync", pc = "after", pc' = "idle"
    PROVE  lastval' = lastval
<1>1. CASE Pipeline
  BY <1>1 DEF Pipeline, StartPipeline, PipelineFails, PipelineFailed, Fork, SubstBegin, SubstEnd, RunInBackground, RunDisowned,
              Complete, WaitPipeline, WaitPipelineEnds, preprompt, MainAt, statusVars
<1>2. CASE Builtin
  BY <1>2 DEF Builtin, BuiltinStart, BuiltinReady, jobs, wait_all, fg, bg, wait, disown, wait_pid,
              WaitEnds, WaitPidEnds, WaitAllEnds, WaitInterrupted, BuiltinUnqueue, BuiltinExit, MainAt
<1>3. CASE KernelStep \/ Handler
  BY <1>3 DEF KernelStep, Exit, Stop, Continue, Report, Handler, Deliver, Reap, ReapDone, mainVars
<1>4. CASE Waiting
  BY <1>4 DEF Waiting, EnterWait, TestWait, Suspend, MainAt
<1>5. CASE UNCHANGED vars
  BY <1>5 DEF vars, statusVars
<1> QED
  BY <1>1, <1>2, <1>3, <1>4, <1>5 DEF Next

FgStep ==
    op = "sync" /\ pc = "after" /\ pc' = "idle" /\ ~InUse(jobtab, target)
        => lastval' = child[fglast].code

\* A foreground pipeline that has finished leaves the status of its last
\* process in $?, although its processes may end while it is still being
\* built, in any order, be stopped and continued, and have the numbers of
\* earlier ones (update_job(), printjob(), zwaitjob()).
THEOREM PipelineStatus == Spec => ForegroundStatus
<1>1. Init => FInv
  BY FgInit
<1>2. FInv /\ [Next]_vars => FInv'
  BY FgKept
<1>3. FInv /\ [Next]_vars => FgStep
  <2>1. SUFFICES ASSUME FInv, [Next]_vars, op = "sync", pc = "after", pc' = "idle",
                        ~InUse(jobtab, target)
                 PROVE  lastval' = child[fglast].code
    BY DEF FgStep
  <2>2. JInv /\ pc \in Waits
    BY <2>1 DEF FInv, Waits
  <2>3. target = thisjob /\ thisjob \in Slots
    BY <2>1, <2>2 DEF JInv, Control, Pipes
  <2>4. jobtab[thisjob].stat = {}
    BY <2>1, <2>2, <2>3, Facts DEF ShapeOf, JobOK, InUse
  <2>5. Over(child, fglast, lastval)
    BY <2>1, <2>2, <2>4 DEF FInv, FgOK, LastOK
  <2>6. lastval' = lastval
    BY <2>1, <2>2, LastStep
  <2> QED
    BY <2>5, <2>6 DEF Over
<1>4. ForegroundStatus <=> [][FgStep]_vars
  BY DEF ForegroundStatus, FgStep
<1> QED
  BY <1>1, <1>2, <1>3, <1>4, PTL DEF Spec

=============================================================================
