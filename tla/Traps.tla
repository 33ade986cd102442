------------------------------- MODULE Traps -------------------------------
(***************************************************************************)
(* Traps of the shell: settrap(), unsettrap() and removetrap(), the scopes *)
(* that functions open for them, and dotrap() (Src/signals.c), with the    *)
(* builtins that call them: `trap' (Src/builtin.c), the definition of a    *)
(* function TRAPxxx (Src/exec.c) and `unfunction' (Src/hashtable.c).       *)
(*                                                                         *)
(* Every operation brackets itself with queue_signals(), so that a signal  *)
(* whose trap runs arrives between two of them.  The body of a trap runs   *)
(* in the shell itself and may call functions and change traps, its own    *)
(* included.                                                               *)
(*                                                                         *)
(* A trap is a list given to `trap' or a function TRAPxxx; what it does is *)
(* left out, only its identity is kept.  Listing traps, aliases of signal  *)
(* names, `disable -f', DEBUG and ZERR traps and the trap queue are not    *)
(* modelled.                                                               *)
(***************************************************************************)
EXTENDS Integers, Sequences, FiniteSets, Functions

CONSTANTS
    Sigs,           \* signals other than EXIT
    Bodies,         \* what the lists and functions may be
    MaxLevel,       \* bound: nested function calls
    MaxTraps,       \* bound: traps running at a time
    MaxSaved,       \* bound: entries of savetraps
    SelfChange,     \* may the body of a trap change the trap it runs for?
    PosixDepth      \* bound: frames there may be where POSIX_TRAPS is set or unset

ASSUME TrapsAssumption ==
    /\ IsFiniteSet(Sigs)
    /\ "EXIT" \notin Sigs
    /\ {"none", "empty"} \cap Bodies = {}
    /\ MaxLevel \in Nat
    /\ MaxTraps \in Nat
    /\ MaxSaved \in Nat
    /\ SelfChange \in BOOLEAN
    /\ PosixDepth \in Nat

VARIABLES
    sigtrapped,         \* flags and level of the trap of every signal
    siglists,           \* the list of a trap; "empty" for trap ''
    shfunctab,          \* the body of the function TRAPxxx
    savetraps,          \* traps to be put back, the one saved last in front
    exit_trap_posix,    \* was the trap on EXIT set with POSIX_TRAPS?
    nsigtrapped,        \* number of signals with ZSIG_TRAPPED
    options,            \* LOCAL_TRAPS and POSIX_TRAPS, those that are set
    frames              \* functions and traps that run, innermost last

trapVars == <<sigtrapped, siglists, shfunctab, savetraps, exit_trap_posix, nsigtrapped>>
vars == <<trapVars, options, frames>>

AllSigs == Sigs \cup {"EXIT"}
Lists == Bodies \cup {"none", "empty"}
Flags == {"TRAPPED", "IGNORED", "FUNC"}
Options == {"LOCALTRAPS", "POSIXTRAPS"}

(* An entry of sigtrapped[] that is zero.                                  *)
Zero == [flags |-> {}, level |-> 0]

(* locallevel and intrap: every function and every trap that runs has a    *)
(* frame.                                                                  *)
locallevel == Cardinality({i \in DOMAIN frames : frames[i].kind = "func"})
intrap == Cardinality({i \in DOMAIN frames : frames[i].kind = "trap"})
Running == {frames[i].sig : i \in {k \in DOMAIN frames : frames[k].kind = "trap"}}

(* The traps as one value, so that operations can be composed.             *)
Traps == [trapped |-> sigtrapped, lists |-> siglists, funcs |-> shfunctab,
          saved |-> savetraps, posix |-> exit_trap_posix, n |-> nsigtrapped]
Become(t) ==
    /\ sigtrapped' = t.trapped
    /\ siglists' = t.lists
    /\ shfunctab' = t.funcs
    /\ savetraps' = t.saved
    /\ exit_trap_posix' = t.posix
    /\ nsigtrapped' = t.n

(* The trap of every signal, for comparison.                               *)
Found(t) == [s \in AllSigs |-> <<t.trapped[s], t.lists[s], t.funcs[s]>>]

Init ==
    /\ sigtrapped = [s \in AllSigs |-> Zero]
    /\ siglists = [s \in AllSigs |-> "none"]
    /\ shfunctab = [s \in AllSigs |-> "none"]
    /\ savetraps = <<>>
    /\ exit_trap_posix = FALSE
    /\ nsigtrapped = 0
    /\ options \in SUBSET Options
    /\ frames = <<>>

-----------------------------------------------------------------------------
(* The operations on the traps t, with the options opts, at level lev.     *)

(* The trap saved first is put back first.                                 *)
dosavetrap_last(t, sig, lev) ==
    LET old == t.trapped[sig]
        list == IF "FUNC" \in old.flags THEN t.funcs[sig] ELSE t.lists[sig]
    IN  [t EXCEPT !.saved = @ \o <<[sig |-> sig, was |-> old, local |-> lev, list |-> list,
                                    posix |-> sig = "EXIT" /\ t.posix]>>]

dosavetrap(t, sig, lev) ==
    LET old == t.trapped[sig]
        list == IF "FUNC" \in old.flags THEN t.funcs[sig] ELSE t.lists[sig]
    IN  [t EXCEPT !.saved = <<[sig |-> sig, was |-> old, local |-> lev, list |-> list,
                               posix |-> sig = "EXIT" /\ t.posix]>> \o @]

(* The trap there was is saved unless this level has saved it already.     *)
MustSave(t, opts, sig, lev) ==
    /\ IF sig = "EXIT" THEN "POSIXTRAPS" \notin opts ELSE "LOCALTRAPS" \in opts
    /\ lev > 0
    /\ t.trapped[sig] = Zero \/ lev > t.trapped[sig].level

(* The trap is not counted out.                                            *)
Clear_uncounted(t, sig) ==
    LET old == t.trapped[sig]
    IN  [t EXCEPT !.trapped[sig] = Zero,
                  !.posix = @ /\ sig # "EXIT",
                  !.funcs[sig] = IF "FUNC" \in old.flags THEN "none" ELSE @,
                  !.lists[sig] = IF "FUNC" \in old.flags THEN @ ELSE "none"]

Clear(t, sig) ==
    LET old == t.trapped[sig]
    IN  [t EXCEPT !.n = IF "TRAPPED" \in old.flags THEN @ - 1 ELSE @,
                  !.trapped[sig] = Zero,
                  !.posix = @ /\ sig # "EXIT",
                  !.funcs[sig] = IF "FUNC" \in old.flags THEN "none" ELSE @,
                  !.lists[sig] = IF "FUNC" \in old.flags THEN @ ELSE "none"]

removetrap(t, opts, sig, lev) ==
    Clear(IF MustSave(t, opts, sig, lev) THEN dosavetrap(t, sig, lev) ELSE t, sig)

(* The second half of settrap(), once the trap there was is removed.       *)
Set(t, opts, sig, l, func, lev) ==
    LET ignored == ~func /\ l = "empty"
        flags == (IF ignored THEN {"IGNORED"} ELSE {"TRAPPED"})
                     \cup (IF func THEN {"FUNC"} ELSE {})
        level == IF sig = "EXIT" /\ "POSIXTRAPS" \in opts THEN 0 ELSE lev
    IN  [t EXCEPT !.lists[sig] = l,
                  !.n = IF ignored THEN @ ELSE @ + 1,
                  !.trapped[sig] = [flags |-> flags, level |-> level],
                  !.posix = IF sig = "EXIT" THEN "POSIXTRAPS" \in opts ELSE @]

settrap(t, opts, sig, l, func, lev) ==
    Set(removetrap(t, opts, sig, lev), opts, sig, l, func, lev)

starttrapscope(t, opts) ==
    IF intrap > 0 \/ t.trapped["EXIT"] = Zero \/ t.posix THEN t
    ELSE removetrap(t, opts, "EXIT", locallevel + 1)

(* What endtrapscope() does with the first entry of savetraps; settrap()   *)
(* does not save here (dontsavetrap), unsettrap() may.                     *)
Restore(t, opts, lev) ==
    LET st == Head(t.saved)
        rest == [t EXCEPT !.saved = Tail(@)]
        func == "FUNC" \in st.was.flags
        set == Set(Clear(rest, st.sig), opts, st.sig,
                   IF func THEN "none" ELSE st.list, func, lev)
    IN  IF st.was # Zero /\ st.list # "none"
        THEN [set EXCEPT !.trapped[st.sig] = st.was,
                         !.posix = IF st.sig = "EXIT" THEN st.posix ELSE @,
                         !.funcs[st.sig] = IF func THEN st.list ELSE @]
        ELSE IF t.trapped[st.sig] # Zero /\ (st.sig = "EXIT" => ~t.posix)
        THEN removetrap(rest, opts, st.sig, lev)
        ELSE rest

Turn(t, opts, lev) ==
    IF t.saved # <<>> /\ Head(t.saved).local > lev THEN Restore(t, opts, lev) ELSE t

(* Only one trap is put back.                                              *)
RestoreAll_one(t, opts, lev) == Turn(t, opts, lev)

RestoreAll(t, opts, lev) ==
    LET after[i \in 0 .. Len(t.saved)] ==
            IF i = 0 THEN t ELSE Turn(after[i - 1], opts, lev)
    IN  after[Len(t.saved)]

(* The trap on EXIT of the function that ends.                             *)
exittr == IF intrap > 0 \/ exit_trap_posix THEN Zero ELSE sigtrapped["EXIT"]

endtrapscope(t, opts, lev) ==
    RestoreAll(IF exittr = Zero THEN t ELSE Clear(t, "EXIT"), opts, lev)

-----------------------------------------------------------------------------
(* Frames.  A function remembers the options it found (doshfunc() saves    *)
(* them) and, for the properties, the traps it found: those on signals as  *)
(* long as LOCAL_TRAPS has been set since, that on EXIT as long as         *)
(* POSIX_TRAPS has not.                                                    *)

Kept(opts) == (IF "LOCALTRAPS" \in opts THEN Sigs ELSE {})
                  \cup (IF "POSIXTRAPS" \in opts THEN {} ELSE {"EXIT"})

FuncFrame(t, opts) ==
    [kind |-> "func", sig |-> "EXIT", inplace |-> FALSE, options |-> opts,
     found |-> Restrict(Found(t), Kept(opts) \ (IF t.posix THEN {"EXIT"} ELSE {}))]

(* A trap: inplace says if its flags are those of sigtrapped[], or a copy. *)
TrapFrame(sig, inplace) ==
    [kind |-> "trap", sig |-> sig, inplace |-> inplace, options |-> {}, found |-> <<>>]

(* What runs a trap pushes: its frame, and that of the function it is.     *)
(* starttrapscope() does nothing inside a trap.                            *)
RunTrap(fs, t, opts, sig, inplace, func) ==
    Append(fs, TrapFrame(sig, inplace)) \o (IF func THEN <<FuncFrame(t, opts)>> ELSE <<>>)

(* The functions that run go on with other options.                        *)
Watch(fs, opts) ==
    [i \in DOMAIN fs |-> [fs[i] EXCEPT !.found = Restrict(@, DOMAIN @ \cap Kept(opts))]]

Top == frames[Len(frames)]
Below == SubSeq(frames, 1, Len(frames) - 1)

-----------------------------------------------------------------------------
(* Commands.                                                               *)

MayChange(sig) ==
    /\ Len(savetraps) < MaxSaved
    /\ SelfChange \/ sig \notin Running

(* trap list sig, trap '' sig                                              *)
trap(sig, l) ==
    /\ MayChange(sig)
    /\ Become(settrap(Traps, options, sig, l, FALSE, locallevel))
    /\ UNCHANGED <<options, frames>>

(* trap - sig                                                              *)
unsettrap(sig) ==
    /\ MayChange(sig)
    /\ Become(removetrap(Traps, options, sig, locallevel))
    /\ UNCHANGED <<options, frames>>

(* The function enters the table before settrap() removes the old one.     *)
execfuncdef_early(sig, b) ==
    /\ MayChange(sig)
    /\ Become(settrap([Traps EXCEPT !.funcs[sig] = b], options, sig, "none", TRUE, locallevel))
    /\ UNCHANGED <<options, frames>>

(* TRAPsig() { ... }: the function enters the table after settrap().       *)
execfuncdef(sig, b) ==
    /\ MayChange(sig)
    /\ Become([settrap(Traps, options, sig, "none", TRUE, locallevel)
                   EXCEPT !.funcs[sig] = b])
    /\ UNCHANGED <<options, frames>>

(* unfunction TRAPsig                                                      *)
removeshfuncnode(sig) ==
    /\ shfunctab[sig] # "none"
    /\ MayChange(sig)
    /\ Become(removetrap(Traps, options, sig, locallevel))
    /\ UNCHANGED <<options, frames>>

setopt(opt) ==
    /\ opt = "POSIXTRAPS" => Len(frames) <= PosixDepth
    /\ options' = IF opt \in options THEN options \ {opt} ELSE options \cup {opt}
    /\ frames' = Watch(frames, options')
    /\ UNCHANGED trapVars

-----------------------------------------------------------------------------
(* Functions: doshfunc().                                                  *)

Call ==
    /\ locallevel < MaxLevel
    /\ Len(savetraps) < MaxSaved
    /\ Become(starttrapscope(Traps, options))
    /\ frames' = Append(frames, FuncFrame(Traps, options))
    /\ UNCHANGED options

(* The function returns.  With LOCAL_OPTIONS the options are put back      *)
(* first; its trap on EXIT runs after all other traps have been put back.  *)
Return ==
    /\ frames # <<>> /\ Top.kind = "func"
    /\ \E LOCALOPTIONS \in BOOLEAN :
          options' = IF LOCALOPTIONS THEN Top.options ELSE options
    /\ LET t == endtrapscope(Traps, options', locallevel - 1)
           func == "FUNC" \in exittr.flags
           exitfn == IF func THEN shfunctab["EXIT"] ELSE siglists["EXIT"]
           runs == exittr # Zero /\ "IGNORED" \notin exittr.flags /\ exitfn # "none"
           callers == Watch(Below, options')
       IN  /\ Become(t)
           /\ frames' = IF runs THEN RunTrap(callers, t, options', "EXIT", FALSE, func)
                        ELSE callers

-----------------------------------------------------------------------------
(* Traps that run: dotrap() and dotrapargs().                              *)

dotrap(sig) ==
    LET func == "FUNC" \in sigtrapped[sig].flags
        t == [Traps EXCEPT !.trapped[sig].flags = @ \cup {"IGNORED"}]
    IN  /\ intrap < MaxTraps
        /\ sigtrapped[sig] # Zero
        /\ "IGNORED" \notin sigtrapped[sig].flags
        /\ IF func THEN locallevel < MaxLevel ELSE siglists[sig] # "none"
        /\ Become(t)
        /\ frames' = RunTrap(frames, t, options, sig, TRUE, func)
        /\ UNCHANGED options

(* The body has ended: the signal is no longer ignored, unless it was set  *)
(* to be, outside functions.                                               *)
TrapEnd ==
    /\ frames # <<>> /\ Top.kind = "trap"
    /\ Become(IF Top.inplace /\ sigtrapped[Top.sig] # [flags |-> {"IGNORED"}, level |-> 0]
              THEN [Traps EXCEPT !.trapped[Top.sig].flags = @ \ {"IGNORED"}] ELSE Traps)
    /\ frames' = Below
    /\ UNCHANGED options

-----------------------------------------------------------------------------
Change ==
    \E sig \in AllSigs :
        \/ \E l \in Bodies \cup {"empty"} : trap(sig, l)
        \/ unsettrap(sig)
        \/ \E b \in Bodies : execfuncdef(sig, b)
        \/ removeshfuncnode(sig)

Next ==
    \/ Change
    \/ \E opt \in Options : setopt(opt)
    \/ Call \/ Return
    \/ \E sig \in Sigs : dotrap(sig)
    \/ TrapEnd

Spec == Init /\ [][Next]_vars

-----------------------------------------------------------------------------
(* PROPERTIES                                                              *)

Trapped == [flags : SUBSET Flags, level : 0 .. MaxLevel]

(* Every trap and every saved trap is well formed.                         *)
TypeOK ==
    /\ sigtrapped \in [AllSigs -> Trapped]
    /\ siglists \in [AllSigs -> Lists]
    /\ shfunctab \in [AllSigs -> Bodies \cup {"none"}]
    /\ \A i \in DOMAIN savetraps :
           savetraps[i] \in [sig : AllSigs, was : Trapped, local : 1 .. MaxLevel,
                             list : Lists, posix : BOOLEAN]
    /\ exit_trap_posix \in BOOLEAN
    /\ nsigtrapped \in 0 .. Cardinality(AllSigs)
    /\ options \subseteq Options
    /\ locallevel <= MaxLevel

(* The tables agree (the assertions "BUG: ..." of the code): a function    *)
(* trap has its function and no list, no other function TRAPxxx is there,  *)
(* any other trap has a list, no trap means no list, and nsigtrapped       *)
(* counts the signals that have a trap to run.                             *)
TrapTablesAgree ==
    /\ \A s \in AllSigs :
        /\ "FUNC" \in sigtrapped[s].flags <=> shfunctab[s] # "none"
        /\ siglists[s] # "none" <=> sigtrapped[s] # Zero /\ "FUNC" \notin sigtrapped[s].flags
    /\ nsigtrapped = Cardinality({s \in AllSigs : "TRAPPED" \in sigtrapped[s].flags})

(* Saved traps belong to functions that still run, the innermost in front: *)
(* none is left outside all function scope.                                *)
SavedTrapsInScope ==
    \A i \in DOMAIN savetraps :
        /\ savetraps[i].local \in 1 .. locallevel
        /\ \A k \in DOMAIN savetraps : k < i => savetraps[k].local >= savetraps[i].local

(* With LOCAL_TRAPS set from the call of a function on, its return leaves  *)
(* the traps on signals as the call found them, whatever the function, the *)
(* functions it calls and the traps that run meanwhile did to them; but    *)
(* for those an earlier function of the same depth has left.  With         *)
(* POSIX_TRAPS unset from the call on, so does the trap on EXIT.           *)
TrapsRestored ==
    [][Return =>
         \A s \in DOMAIN Top.found :
             s = "EXIT" \/ Top.found[s][1].level < locallevel
                 => Found(Traps)'[s] = Top.found[s]]_vars

(* What the code does not keep: see README.md, disagreements.              *)
(* Doc/Bsh/options.yo says of LOCAL_TRAPS, of every trap: the previous     *)
(* status is restored when the function exits.  removetrap() does not save *)
(* a trap whose level is that of the function, though an earlier function  *)
(* of the same depth, without LOCAL_TRAPS, may have left it.               *)
PreviousTrapRestored ==
    [][Return => \A s \in DOMAIN Top.found \ {"EXIT"} :
                     Found(Traps)'[s] = Top.found[s]]_vars
=============================================================================
