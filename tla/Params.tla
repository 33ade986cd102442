------------------------------- MODULE Params -------------------------------
(***************************************************************************)
(* Parameters and their scopes (src/Src/params.c, the typeset builtins of  *)
(* src/Src/builtin.c): parameters local to a function hide those outside,  *)
(* exported ones are copied to the environment, assignments in front of a  *)
(* command are undone after it, and named references stand for other       *)
(* parameters, which may be hidden or gone.                                *)
(*                                                                         *)
(* paramtab holds for each name the visible struct param; `old' leads from *)
(* it to those it hides.  Here a name has the sequence of its structs, the *)
(* visible one first, and a struct is addressed by <<name, position>>.     *)
(* All parameters are scalars or references.  The operators below bear the *)
(* names of the functions they model and map a state of the table (a       *)
(* record of the variables) to the next.                                   *)
(***************************************************************************)
EXTENDS Integers, Sequences, FiniteSets

CONSTANTS
    Names,      \* the names of parameters
    Values,     \* the strings that a name is assigned, names among them
    None,       \* no string, no struct, no saved parameter
    Refs,       \* names that are made references
    Exports,    \* names that are exported or assigned to in front of a command
    MaxLevel,   \* bound: depth of function calls
    MaxFrames,  \* bound: functions and commands with assignments under way
    Redeclared  \* bound: whether `local' is applied to a reference that
                \* leads to a hidden parameter

ASSUME ParamsAssumption ==
    /\ Refs \subseteq Names /\ Exports \subseteq Names
    /\ IsFiniteSet(Names) /\ DOMAIN Values = Names
    /\ MaxLevel \in Nat /\ MaxFrames \in Nat
    /\ Redeclared \in BOOLEAN
    /\ \A n \in Names : None \notin Values[n]
    /\ None \notin (Names \X Nat) \cup {""}

VARIABLES
    tab,        \* paramtab with its hidden structs
    environ,    \* the environment that commands are started with, or None
    scoperefs,  \* references to look at when a scope ends
    dead,       \* scopes whose list in scoperefs has a struct that was freed
    locallevel, \* depth of scopes
    frames,     \* functions and commands under way, innermost first
    errflag     \* an error ends everything under way

vars == <<tab, environ, scoperefs, dead, locallevel, frames, errflag>>

Strings == UNION {Values[n] : n \in Names}

(* level, str (u.str; "" for none), base as in struct param; set is not    *)
(* PM_UNSET, declared PM_DECLARED, ref PM_NAMEREF, exported PM_EXPORTED;   *)
(* env tells that pm->env is not NULL.                                     *)
Struct == [level : 0..MaxLevel, str : Strings \cup Names \cup {""},
           set : BOOLEAN, declared : BOOLEAN, ref : BOOLEAN,
           exported : BOOLEAN, env : BOOLEAN, base : 0..MaxLevel]

ASSUME NoneAssumption == None \notin Struct

Fresh == [level |-> 0, str |-> "", set |-> TRUE, declared |-> FALSE,
          ref |-> FALSE, exported |-> FALSE, env |-> FALSE, base |-> 0]

\* Flags for typeset: those that are put on or taken off.
Flags(F) == [local |-> "l" \in F, ref |-> "n" \in F, exported |-> "x" \in F]

\* The state of the table that the operators below work on.
S0 == [tab |-> tab, environ |-> environ, refs |-> scoperefs, dead |-> dead,
       lv |-> locallevel, err |-> errflag]

Init ==
    /\ tab = [n \in Names |-> <<>>]
    /\ environ = [n \in Names |-> None]
    /\ scoperefs = [b \in 1..MaxLevel |-> <<>>]
    /\ dead = {}
    /\ locallevel = 0
    /\ frames = <<>>
    /\ errflag = FALSE

At(S, p) == S.tab[p[1]][p[2]]
Visible(S, n) == IF S.tab[n] = <<>> THEN None ELSE <<n, 1>>
Put(S, p, s) == [S EXCEPT !.tab[p[1]][p[2]] = s]
Greatest(I) == CHOOSE i \in I : \A k \in I : k <= i

-----------------------------------------------------------------------------
(* Following references.                                                   *)

\* upscope(): the outermost struct of that name that is not below base.
upscope(S, m, base) ==
    <<m, Greatest({1} \cup {i \in 2..Len(S.tab[m]) :
                               \A k \in 2..i : S.tab[m][k].level >= base})>>

IsRef(s) == s.ref /\ s.set /\ s.str # ""

\* The struct that the reference at p stands for.
Referred(S, p) ==
    LET s == At(S, p) IN
    IF S.tab[s.str] = <<>> THEN None ELSE upscope(S, s.str, s.base)

\* resolve_nameref_rec(): the end of a chain of references, None if it leads
\* to no struct or in a circle.  A struct that is unset and `stop' end the
\* chain.  With keep the last reference is returned in place of nothing.
Resolve(S, p, stop, keep) ==
    LET walk[k \in 0..Cardinality(Names) * (MaxLevel + 1) + 1] ==
            IF k = 0 THEN [at |-> p, tagged |-> {}, end |-> ~IsRef(At(S, p))]
            ELSE LET w == walk[k - 1]
                     t == Referred(S, w.at)
                     End(a) == [w EXCEPT !.at = a, !.end = TRUE]
                 IN  IF w.end THEN w
                     ELSE IF w.at \in w.tagged THEN End(None)
                     ELSE IF t = None THEN End(IF keep THEN w.at ELSE None)
                     ELSE IF t = stop \/ ~IsRef(At(S, t)) THEN End(t)
                     ELSE [w EXCEPT !.at = t, !.tagged = @ \cup {w.at}]
        last == walk[Cardinality(Names) * (MaxLevel + 1) + 1]
    IN  IF last.end THEN last.at ELSE None

\* getparamnode() and fetchvalue(): the struct that a use of n means.
getnode(S, n) ==
    IF S.tab[n] = <<>> THEN None
    ELSE IF ~S.tab[n][1].set THEN <<n, 1>>
    ELSE Resolve(S, <<n, 1>>, None, FALSE)

IsThere(S, p) == p # None /\ (At(S, p).set \/ At(S, p).declared)
IfThere(S, p) == IF IsThere(S, p) THEN p ELSE None

fetchvalue(S, n) == IfThere(S, getnode(S, n))

-----------------------------------------------------------------------------
(* The environment.                                                        *)

addenv(S, p, v) ==
    Put([S EXCEPT !.environ[p[1]] = v], p,
        [At(S, p) EXCEPT !.env = TRUE, !.exported = TRUE])

delenv(S, p) ==
    IF ~At(S, p).env THEN S
    ELSE Put([S EXCEPT !.environ[p[1]] = None], p,
             [At(S, p) EXCEPT !.env = FALSE])

-----------------------------------------------------------------------------
(* Unsetting a parameter and the scope of a reference.                     *)

\* stdunsetfn()
stdunsetfn(s) == [s EXCEPT !.str = "", !.set = FALSE]

\* The elements of s that are not in E.
Without(s, E) ==
    LET kept[i \in 0..Len(s)] ==
            IF i = 0 THEN <<>>
            ELSE IF s[i] \in E THEN kept[i - 1] ELSE Append(kept[i - 1], s[i])
    IN  kept[Len(s)]

\* scoperefs without the structs of n at these levels.  (The code keeps the
\* pointers; of what it may find in a freed struct, the model takes that it is
\* no reference any more.)
Forget(S, n, levels) ==
    [b \in DOMAIN S.refs |-> Without(S.refs[b], {[n |-> n, level |-> v] : v \in levels})]

\* A struct leaves the table: the one it hides is visible again, and in the
\* environment if it was exported.  Structs above it are out of reach.
removenode(S, p) ==
    LET n == p[1]
        gone == {S.tab[n][i].level : i \in 1..p[2]}
        listed == {b \in DOMAIN S.refs : \E i \in 1..Len(S.refs[b]) :
                      S.refs[b][i] = [n |-> n, level |-> At(S, p).level]}
        T == [S EXCEPT !.tab[n] = SubSeq(@, p[2] + 1, Len(@)),
                       !.refs = Forget(S, n, gone),
                       !.dead = @ \cup listed]
    IN  IF T.tab[n] # <<>> /\ T.tab[n][1].exported
        THEN addenv(T, <<n, 1>>, T.tab[n][1].str)
        ELSE T

\* Mutant: a local parameter is removed, so that the outer one reappears.
unsetparam_pm_bare(S, p) ==
    removenode(delenv(Put(S, p, [stdunsetfn(At(S, p)) EXCEPT !.declared = FALSE]),
                  p), p)

\* unsetparam_pm(): a parameter that is local to a scope still open stays in
\* the table to keep the outer one hidden.
unsetparam_pm(S, p) ==
    LET s == At(S, p)
        T == delenv(Put(S, p, [stdunsetfn(s) EXCEPT !.declared = FALSE]), p)
    IN  IF s.level > 0 /\ S.lv >= s.level THEN T ELSE removenode(T, p)

\* setscope_base(): a reference to a deeper scope is listed for its end.
setscope_base(S, p, base) ==
    LET s == At(S, p)
        e == [n |-> p[1], level |-> s.level]
        T == Put(S, p, [s EXCEPT !.base = base])
    IN  IF base > s.level
        THEN [T EXCEPT !.refs[base] = <<e>> \o Without(@, {e})]
        ELSE T

\* zerr()
zerr(S) == [S EXCEPT !.err = TRUE]

\* Mutant: only a reference to itself is found, no longer way round.
setscope_direct(S, p) ==
    LET s == At(S, p)
        b == IF s.str = "" THEN None ELSE Visible(S, s.str)
    IN  IF ~s.ref THEN S
        ELSE IF b = p THEN unsetparam_pm(zerr(S), p)
        ELSE IF b = None THEN S ELSE setscope_base(S, p, At(S, b).level)

\* setscope(): the base is the level of the struct that is visible now; a
\* reference that leads back to itself is unset, with an error.
setscope(S, p) ==
    LET s == At(S, p)
        m == s.str
        b == IF m = "" \/ S.tab[m] = <<>> THEN None
             ELSE IF p = <<m, 1>> /\ Len(S.tab[m]) > 1 THEN <<m, 2>>
             ELSE <<m, 1>>
        T == IF b = None THEN S ELSE setscope_base(S, p, At(S, b).level)
    IN  IF ~s.ref THEN S
        ELSE IF b = p \/ (m # "" /\ Resolve(T, p, p, FALSE) = p)
        THEN unsetparam_pm(zerr(T), p)
        ELSE T

-----------------------------------------------------------------------------
(* Creating and assigning.  Both return the state and the struct, or None. *)

Result(S, p) == [S |-> S, p |-> p]

\* A struct that is unset is used again, at its level.
Reused(S, p, on) ==
    Put(S, p, [At(S, p) EXCEPT !.set = TRUE, !.declared = FALSE, !.base = 0,
                               !.ref = on.ref, !.exported = on.exported])

\* A new struct hides p, which leaves the environment.  What was above p in
\* the table is out of reach.
Hidden(S, n, p, on) ==
    LET T == IF p = None THEN S ELSE delenv(S, p)
        old == IF p = None THEN <<>> ELSE SubSeq(T.tab[n], p[2], Len(T.tab[n]))
        lost == {T.tab[n][i].level : i \in 1..Len(T.tab[n]) - Len(old)}
    IN  [T EXCEPT !.tab[n] =
            <<[Fresh EXCEPT !.ref = on.ref, !.exported = on.exported]>> \o old,
                  !.refs = Forget(S, n, lost)]

\* What createparam() does once the references from n have led to l, if any.
CreateFrom(S, n, on, l) ==
    LET open == IsThere(S, l) /\ At(S, l).ref
        q == IF l = None THEN Visible(S, n) ELSE l
    IN  IF open /\ At(S, l).str # ""          \* refers to nothing yet
        THEN Result(Hidden(S, At(S, l).str, None, on), <<At(S, l).str, 1>>)
        ELSE IF open                          \* a placeholder
        THEN IF on.exported THEN Result(zerr(S), None) ELSE Result(S, l)
        ELSE IF q # None /\ (At(S, q).level = S.lv \/ ~on.local)
        THEN IF At(S, q).set THEN Result(S, None)
             ELSE Result(Reused(S, q, on), q)
        ELSE Result(Hidden(S, n, q, on), <<n, 1>>)

createparam(S, n, on) ==
    LET o == Visible(S, n)
        follow == /\ IsThere(S, o)
                  /\ ~on.ref
                  /\ At(S, o).level = S.lv \/ ~on.local
                  /\ At(S, o).ref
    IN  CreateFrom(S, n, on, IF follow THEN Resolve(S, o, None, TRUE) ELSE None)

\* assignstrvalue()
assignstrvalue(S, p, v, allexport) ==
    LET s == [At(S, p) EXCEPT !.str = v, !.set = TRUE]
        T == Put(S, p, s)
    IN  IF s.ref THEN setscope(T, p)
        ELSE IF s.env \/ s.exported \/ allexport THEN addenv(T, p, v)
        ELSE T

\* assignsparam() at the struct p; a reference is given valid names only.
AssignAt(S, p, v, allexport) ==
    IF p = None THEN Result(S, None)
    ELSE IF At(S, p).ref /\ v # "" /\ v \notin Names
    THEN Result(zerr(S), None)
    ELSE Result(assignstrvalue(S, p, v, allexport), p)

AssignFound(S, n, v, allexport) == AssignAt(S, fetchvalue(S, n), v, allexport)

assignsparam(S, n, v, allexport) ==
    LET plain == [Flags({}) EXCEPT !.exported = allexport] IN
    AssignFound(IF fetchvalue(S, n) # None THEN S ELSE createparam(S, n, plain).S,
                n, v, allexport)

-----------------------------------------------------------------------------
(* The typeset builtins.                                                   *)

\* typeset_single() on an existing struct p.
Retype(S, n, p, on, off, v) ==
    LET s == At(S, p)
        t == [s EXCEPT !.exported = (@ \/ on.exported) /\ ~off.exported,
                       !.ref = @ /\ ~off.ref]
        T == Put(S, p, t)
        val == LET g == fetchvalue(T, n) IN
               IF g = None THEN "" ELSE At(T, g).str
        U == IF t.exported
             THEN IF ~t.env /\ v = None THEN addenv(T, p, val) ELSE T
             ELSE delenv(T, p)
    IN  IF v = None THEN U ELSE assignsparam(U, n, v, FALSE).S

\* Something else was assigned to than the struct p just created.
DropUnused(a, p) ==
    IF a.p # None /\ a.p # p THEN unsetparam_pm(a.S, p) ELSE a.S

\* typeset_single() after the struct c.p was created.
Created(c, n, on, v) ==
    LET T == IF on.local THEN Put(c.S, c.p, [At(c.S, c.p) EXCEPT !.level = c.S.lv])
             ELSE c.S
    IN  IF c.p = None THEN c.S
        ELSE IF v = None THEN T
        ELSE DropUnused(assignsparam(T, n, v, FALSE), c.p)

Create(S, n, on, v) == Created(createparam(S, n, on), n, on, v)

\* typeset_single(): pm is the visible struct, or None.  A reference is
\* followed unless it is hidden by this very command or changed as such.
typeset_single(S, n, pm, on, off, v) ==
    LET follow == /\ pm # None
                  /\ At(S, pm).ref
                  /\ ~on.ref /\ ~off.ref
                  /\ At(S, pm).level = S.lv \/ ~on.local
        p == IF follow THEN Resolve(S, pm, None, FALSE) ELSE pm
        m == IF p = None THEN n ELSE p[1]
        fails == /\ follow /\ p # None
                 /\ At(S, p).ref /\ (At(S, p).set \/ At(S, p).declared)
                 /\ on.exported
        use == /\ p # None
               /\ At(S, p).set
               /\ At(S, p).level = S.lv \/ ~on.local
    IN  IF fails THEN S
        ELSE IF use THEN Retype(S, m, p, on, off, v)
        ELSE Create(S, m, on, v)

\* bin_typeset() with -n: a struct of this scope starts over as a reference,
\* to the name that was its value if none is given.
typeset_n(S, n, on, v) ==
    LET o == Visible(S, n)
        over == o # None /\ (At(S, o).level = S.lv \/ ~on.local)
        w == IF v = None /\ over /\ ~At(S, o).ref /\ At(S, o).set
             THEN At(S, o).str ELSE v
        T == IF over THEN unsetparam_pm(S, o) ELSE S
    IN  typeset_single(T, n, None, on, Flags({}), w)

\* bin_unset(): through a reference to an outer scope the parameter is only
\* marked as unset.
unset(S, n) ==
    LET o == Visible(S, n)
        p == IF o = None THEN None ELSE Resolve(S, o, None, FALSE)
    IN  IF p = None THEN S
        ELSE IF At(S, o).ref /\ At(S, p).level < S.lv
        THEN Put(S, p, [stdunsetfn(At(S, p)) EXCEPT !.declared = TRUE])
        ELSE unsetparam_pm(S, p)

\* setloopvar()
setloopvar(S, n, v) ==
    LET o == Visible(S, n) IN
    IF o # None /\ At(S, o).ref
    THEN setscope(Put(S, o, [At(S, o) EXCEPT !.base = 0, !.str = v,
                                             !.set = TRUE]), o)
    ELSE assignsparam(S, n, v, FALSE).S

-----------------------------------------------------------------------------
(* Scopes.                                                                 *)

\* Mutant: a parameter that is unset already is passed over.
scanendscope_set(S, n) ==
    IF S.tab[n] # <<>> /\ S.tab[n][1].level > S.lv /\ S.tab[n][1].set
    THEN unsetparam_pm(S, <<n, 1>>) ELSE S

\* scanendscope(): the visible struct is deleted if its scope has ended.
scanendscope(S, n) ==
    IF S.tab[n] # <<>> /\ S.tab[n][1].level > S.lv
    THEN unsetparam_pm(S, <<n, 1>>) ELSE S

\* Mutant: a reference whose scope has ended keeps its base.
ResetScope_kept(S, e) == S

\* A listed reference that still refers to the scope that has ended.  (One
\* before it in the list may have taken it out of the table.)
ResetScope(S, e) ==
    LET at == {i \in 1..Len(S.tab[e.n]) : S.tab[e.n][i].level = e.level}
        p == <<e.n, CHOOSE i \in at : TRUE>>
        s == At(S, p)
    IN  IF at # {} /\ s.ref /\ s.set /\ s.base > S.lv
        THEN setscope(Put(S, p, [s EXCEPT !.base = 0]), p) ELSE S

\* The names in an order in which scanhashtable() may find them.
Order == CHOOSE f \in [1..Cardinality(Names) -> Names] :
            \A n \in Names : \E i \in 1..Cardinality(Names) : f[i] = n

ScanAll(S) ==
    LET after[i \in 0..Cardinality(Names)] ==
            IF i = 0 THEN S ELSE scanendscope(after[i - 1], Order[i])
    IN  after[Cardinality(Names)]

ResetAll(S, list) ==
    LET after[i \in 0..Len(list)] ==
            IF i = 0 THEN S ELSE ResetScope(after[i - 1], list[i])
    IN  after[Len(list)]

endparamscope(S) ==
    LET U == ScanAll([S EXCEPT !.lv = @ - 1])
    IN  ResetAll([U EXCEPT !.refs[S.lv] = <<>>, !.dead = @ \ {S.lv}], U.refs[S.lv])

\* save_params(): a copy of the visible struct, which leaves the environment.
Copied(S, n) ==
    IF S.tab[n] = <<>> THEN None ELSE [S.tab[n][1] EXCEPT !.env = FALSE]
save_params(S, n) == IF S.tab[n] = <<>> THEN S ELSE delenv(S, <<n, 1>>)

\* Mutant: the parameter is given back its value only.
restore_params_value(S, n, copy) ==
    IF copy = None \/ S.tab[n] = <<>> THEN S
    ELSE Put(S, <<n, 1>>, [S.tab[n][1] EXCEPT !.str = copy.str, !.set = copy.set])

\* restore_params(): the visible struct goes, the copy takes its place.
restore_params(S, n, copy) ==
    LET T == IF S.tab[n] = <<>> THEN S ELSE unsetparam_pm(S, <<n, 1>>)
        t == T.tab[n]
        hides == Greatest({0} \cup {i \in 1..Len(t) : t[i].level >= copy.level})
        U == [T EXCEPT !.tab[n] = <<copy>> \o SubSeq(t, hides + 1, Len(t))]
    IN  IF copy = None THEN T
        ELSE IF copy.exported /\ copy.set THEN addenv(U, <<n, 1>>, copy.str)
        ELSE U

-----------------------------------------------------------------------------
(* Commands.                                                               *)

\* An error is over when the shell is back at its prompt.
Become(S) ==
    /\ tab' = S.tab /\ environ' = S.environ /\ scoperefs' = S.refs
    /\ dead' = S.dead /\ locallevel' = S.lv
    /\ errflag' = (S.err /\ frames' # <<>>)

Do(S) == ~errflag /\ UNCHANGED frames /\ Become(S)

Given(n) == Values[n] \cup {None}

\* n=v
Assign(n, v) == Do(assignsparam(S0, n, v, FALSE).S)

\* for n in v
For(n, v) == v \in Names /\ Do(setloopvar(S0, n, v))

\* Redeclared
MayDeclare(n) ==
    ~Redeclared /\ tab[n] # <<>> =>
        Resolve(S0, <<n, 1>>, None, TRUE) \notin Names \X (Nat \ {0, 1})

\* local n[=v], typeset n[=v]
Local(n, v) ==
    /\ MayDeclare(n)
    /\ Do(typeset_single(S0, n, Visible(S0, n), Flags({"l"}), Flags({}), v))

\* typeset -g n=v
Global(n, v) ==
    Do(typeset_single(S0, n, Visible(S0, n), Flags({}), Flags({}), v))

\* local -x n[=v]
LocalExport(n, v) ==
    /\ n \in Exports /\ MayDeclare(n)
    /\ Do(typeset_single(S0, n, Visible(S0, n), Flags({"l", "x"}), Flags({}), v))

\* export n[=v], typeset -x n[=v] (GLOBAL_EXPORT is set)
Export(n, v) ==
    /\ n \in Exports
    /\ Do(typeset_single(S0, n, Visible(S0, n), Flags({"x"}), Flags({}), v))

\* typeset +x n
Unexport(n) ==
    /\ n \in Exports
    /\ Do(typeset_single(S0, n, Visible(S0, n), Flags({}), Flags({"x"}), None))

\* typeset -n n[=v]
Reference(n, v) ==
    /\ n \in Refs
    /\ Do(typeset_n(S0, n, Flags({"l", "n"}), v))

\* typeset -gn n[=v]
GlobalReference(n, v) ==
    /\ n \in Refs
    /\ Do(typeset_n(S0, n, Flags({"n"}), v))

\* typeset +n n
Dereference(n) ==
    /\ n \in Refs
    /\ Do(typeset_single(S0, n, Visible(S0, n), Flags({"l"}), Flags({"n"}), None))

\* unset n
Unset(n) == Do(unset(S0, n))

\* unset -n n
UnsetReference(n) ==
    /\ n \in Refs
    /\ Visible(S0, n) # None
    /\ Do(unsetparam_pm(S0, <<n, 1>>))

\* A function is called.
Call ==
    /\ locallevel < MaxLevel
    /\ ~errflag /\ Len(frames) < MaxFrames
    /\ frames' = <<[func |-> TRUE, n |-> None, copy |-> None]>> \o frames
    /\ Become([S0 EXCEPT !.lv = @ + 1])

\* n=v in front of a function, where it is exported, or of a builtin that
\* runs commands in this scope (eval, source).
\* (Bound: a name that is never a reference.)
Prefixed(n, v, func) ==
    /\ n \in Exports \ Refs
    /\ ~errflag /\ Len(frames) < MaxFrames
    /\ func => locallevel < MaxLevel
    /\ frames' = <<[func |-> func, n |-> n, copy |-> Copied(S0, n)]>> \o frames
    /\ LET S == assignsparam(save_params(S0, n), n, v, func).S
       IN  Become([S EXCEPT !.lv = IF func THEN @ + 1 ELSE @])

\* The function or builtin returns.
Return ==
    /\ frames # <<>>
    /\ frames' = Tail(frames)
    /\ LET f == Head(frames)
           S == IF f.func THEN endparamscope(S0) ELSE S0
       IN  Become(IF f.n = None THEN S ELSE restore_params(S, f.n, f.copy))

Next ==
    \/ \E n \in Names : \E v \in Values[n] :
          Assign(n, v) \/ For(n, v) \/ Global(n, v)
    \/ \E n \in Names : \E v \in Given(n) :
          \/ Local(n, v) \/ LocalExport(n, v) \/ Export(n, v)
          \/ Reference(n, v) \/ GlobalReference(n, v)
    \/ \E n \in Names :
          Unexport(n) \/ Dereference(n) \/ Unset(n) \/ UnsetReference(n)
    \/ \E n \in Names : \E v \in Values[n], func \in BOOLEAN :
          Prefixed(n, v, func)
    \/ Call
    \/ Return

Spec == Init /\ [][Next]_vars

-----------------------------------------------------------------------------
(* Properties.                                                             *)

\* The variables have their types; a name has at most one struct for each
\* scope, the innermost first, and none for a scope that has ended
\* (createparam(): "BUG: old local parameter not deleted").
TypeOK ==
    /\ tab \in [Names -> Seq(Struct)]
    /\ environ \in [Names -> Strings \cup {"", None}]
    /\ locallevel \in 0..MaxLevel /\ errflag \in BOOLEAN /\ dead \subseteq 1..MaxLevel
    /\ \A n \in Names : \A i \in 1..Len(tab[n]) :
          /\ tab[n][i].level <= locallevel
          /\ i > 1 => tab[n][i].level < tab[n][i - 1].level

\* What commands find in the environment is the visible parameter if it is
\* exported, with its value, and nothing of hidden or local ones that are
\* not (addenv(), delenv(), the export of unsetparam_pm() at the end of a
\* scope).
EnvMatches ==
    \A n \in Names :
       LET t == tab[n] IN
       /\ environ[n] # None =>
             t # <<>> /\ t[1].env /\ environ[n] = t[1].str
       /\ t # <<>> /\ t[1].exported /\ t[1].set /\ t[1].str # "" =>
             environ[n] = t[1].str
       /\ \A i \in 2..Len(t) : ~t[i].env

\* A parameter assigned to in front of a command is afterwards as it was,
\* whatever the command has done to it, unless it has made it local to the
\* scope that a builtin runs its commands in (save_params(), restore_params()).
PrefixUndone ==
    [][Return /\ Head(frames).n # None =>
         LET f == Head(frames)
             t == tab'[f.n]
         IN  IF f.copy = None
             THEN \/ t = <<>>
                  \/ /\ ~f.func /\ locallevel > 0
                     /\ \E i \in 1..Len(tab[f.n]) : tab[f.n][i].level = locallevel
             ELSE /\ t # <<>>
                  /\ [t[1] EXCEPT !.env = FALSE] = f.copy
                  /\ environ'[f.n] # None <=> f.copy.exported /\ f.copy.set]_vars

\* A reference stands for the same parameter as long as that is there,
\* whatever functions are called and whatever they declare: if it stands for
\* another although the first is still there, a scope has neither begun nor
\* ended nor was a parameter of another name declared in it (upscope()).
RefStable ==
    [][\A n \in Names : \A i \in 1..Len(tab[n]), k \in 1..Len(tab'[n]) :
         LET s == tab[n][i]
             t == tab'[n][k]
             S1 == [tab |-> tab']
         IN  /\ IsRef(s) /\ IsRef(t) /\ s.level = t.level /\ s.str = t.str
             /\ Referred(S0, <<n, i>>) # None
             /\ LET l == At(S0, Referred(S0, <<n, i>>)).level IN
                /\ \E j \in 1..Len(tab'[s.str]) : tab'[s.str][j].level = l
                /\ At(S1, Referred(S1, <<n, k>>)).level # l
             => /\ locallevel' = locallevel
                /\ \A m \in Names \ {n}, v \in Strings \cup {None} : ~Local(m, v)]_vars

\* References never lead in a circle (setscope()).
NoCircle ==
    \A n \in Names : tab[n] # <<>> /\ IsRef(tab[n][1]) =>
       Resolve(S0, <<n, 1>>, None, TRUE) # None

-----------------------------------------------------------------------------
(* What the code does not keep: see README.md, disagreements.              *)

\* An unset parameter is not in the environment (it is put there when a
\* function with a local parameter of that name returns, as the export in
\* unsetparam_pm() does not look at PM_UNSET).
UnsetNotExported ==
    \A n \in Names : tab[n] # <<>> /\ ~tab[n][1].set => environ[n] = None

\* No reference refers to a scope that has ended (scoperefs; one that is
\* unset when the scope ends keeps its base, and may be used again).
BasesOpen ==
    \A n \in Names : \A i \in 1..Len(tab[n]) :
       IsRef(tab[n][i]) => tab[n][i].base <= locallevel

\* A reference that is listed for the end of a scope is there when it ends
\* (its struct may have been freed before).
ListedAreThere == dead = {}

=============================================================================
