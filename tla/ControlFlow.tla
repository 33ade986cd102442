---------------------------- MODULE ControlFlow -----------------------------
(***************************************************************************)
(* break, continue, return, exit, errors and SIGINT in the executor:        *)
(* Src/exec.c (execlist, execpline, doshfunc), Src/loop.c, bin_break() and  *)
(* source(), dotrapargs().  Five globals say what is pending: breaks,       *)
(* contflag, retflag, errflag and exit_pending.  Every construct counts     *)
(* them down, puts them aside or restores them on its way out.              *)
(*                                                                          *)
(* The program that is run is any program: at each command the next step is *)
(* chosen, so that a behaviour is a run of some script.  A frame of `stack' *)
(* is a C activation of a construct with the variables it has saved.        *)
(***************************************************************************)
EXTENDS Integers, Sequences, FiniteSets

CONSTANTS
    MaxDepth,   \* most constructs open at a time
    Uses        \* which of the troublesome combinations below scripts contain

(* Combinations after which the flags no longer say one thing:              *)
(*   untilContinue  a `continue' for a loop whose condition it is part of, or *)
(*                  that comes after it in a chain of && and ||, so that the   *)
(*                  condition finds it pending;                                *)
(*   overContinue   a jump or SIGINT while a `continue' waits for an always   *)
(*                  list or a trap to finish, or for the end of its list; or a *)
(*                  `continue' while any jump waits so;                       *)
(*   exitAlways     an always list or a trap, run on the way of an `exit',    *)
(*                  sources a file, or calls a function although the exit was *)
(*                  called in a deeper one;                                   *)
(*   trapSourceExit an `exit' in a file sourced by a trap;                   *)
(*   alwaysInt      SIGINT while an always list runs.                        *)
Combinations == {"untilContinue", "overContinue", "exitAlways", "trapSourceExit",
                 "alwaysInt"}

ASSUME ControlFlowAssumption ==
    /\ MaxDepth \in Nat \ {0}
    /\ Uses \subseteq Combinations

VARIABLES
    stack,      \* the constructs in progress, innermost last
    pc,         \* in execlist: at "next" command, one has "ran", in a "pipe" of
                \* a chain of && and ||; or "done"
    loops,      \* # of nested loops we are in
    breaks,     \* # of break levels
    contflag,   \* a continue, not a break
    retflag,    \* a return
    errflag,    \* bits "error" and "int"
    lastval,    \* $?: 0, or 1 for any failure
    exit_level  \* the locallevel of a pending exit, 0: not exit_pending

vars == <<stack, pc, loops, breaks, contflag, retflag, errflag, lastval, exit_level>>
flags == <<loops, breaks, contflag, retflag, errflag>>

LoopKinds == {"for", "while", "until"}
Kinds     == LoopKinds \union {"if", "try", "function", "source", "trap"}
Places    == {"cond", "body", "try", "always"}
NoReturn  == 2                  \* trap_return, when no return was forced

Flags == [loops : 0 .. MaxDepth, breaks : 0 .. MaxDepth, contflag : BOOLEAN,
          retflag : BOOLEAN, errflag : SUBSET {"error", "int"}, lastval : 0 .. 1]
Frame == [kind : Kinds, at : Places, saved : Flags, trap_return : 0 .. NoReturn]

Cleared == [loops |-> 0, breaks |-> 0, contflag |-> FALSE, retflag |-> FALSE,
            errflag |-> {}, lastval |-> 0]
Saved   == [loops |-> loops, breaks |-> breaks, contflag |-> contflag,
            retflag |-> retflag, errflag |-> errflag, lastval |-> lastval]

New(kind, at, saved) ==
    [kind |-> kind, at |-> at, saved |-> saved, trap_return |-> NoReturn]

Top     == stack[Len(stack)]
In(kinds) == stack /= <<>> /\ Top.kind \in kinds
Push(f) == Len(stack) < MaxDepth /\ stack' = Append(stack, f)
Pop     == stack' = SubSeq(stack, 1, Len(stack) - 1)
MoveTo(at) == stack' = [stack EXCEPT ![Len(stack)].at = at]

Frames(kinds) == {i \in DOMAIN stack : stack[i].kind \in kinds}
locallevel    == Cardinality(Frames({"function"}))
sourcelevel   == Cardinality(Frames({"source"}))
try_tryflag   == \E i \in Frames({"try"}) : stack[i].at = "try"

(* The innermost frame of these kinds; 0: none. *)
Innermost(kinds) ==
    LET S == Frames(kinds)
    IN  IF S = {} THEN 0 ELSE CHOOSE i \in S : \A j \in S : j <= i

\* Mutant: the break levels of a trap are added up without a bound.
Least_uncapped(a, b) == a

Minus1(n)  == IF n > 0 THEN n - 1 ELSE 0
Least(a, b) == IF a < b THEN a ELSE b

Blocked == breaks > 0 \/ retflag \/ errflag /= {}

Init ==
    /\ stack = <<>>
    /\ pc = "next"
    /\ loops = 0 /\ breaks = 0
    /\ contflag = FALSE /\ retflag = FALSE
    /\ errflag = {}
    /\ lastval = 0
    /\ exit_level = 0

-----------------------------------------------------------------------------
(* Commands: execlist() starts none while a flag is set, but goes on with the *)
(* parts of a chain of && and ||.                                             *)

CanRun == pc \in {"next", "pipe"} /\ ~Blocked

(* execsimple() looks at errflag only: a part that needs no job (an assignment, *)
(* a function definition, [[ ]], (( )), and the constructs made of such parts)  *)
(* is run although a break, continue or return comes before it in the chain.    *)
(* What the lists of such a construct run then is taken to be any command.      *)
CanRunSimple == CanRun \/ (pc = "pipe" /\ errflag = {})

(* The other parts, and after an error all, do nothing: execpline2() returns,  *)
(* execsimple() sets a status.                                                 *)
PassOver ==
    /\ pc = "pipe" /\ Blocked
    /\ lastval' \in (IF breaks > 0 \/ retflag THEN {lastval} ELSE {1})
                     \union (IF errflag /= {} THEN {1} ELSE {})
    /\ pc' = "ran"
    /\ UNCHANGED <<stack, loops, breaks, contflag, retflag, errflag, exit_level>>

(* A simple command that sets no flag, or one that fails with an error. *)
Simple ==
    /\ CanRunSimple
    /\ \/ lastval' \in 0 .. 1 /\ UNCHANGED errflag
       \/ lastval' = 1 /\ errflag' = {"error"}
    /\ pc' = "ran"
    /\ UNCHANGED <<stack, loops, breaks, contflag, retflag, exit_level>>

(* What an always list or a trap holds back. *)
Holds(f) == f.at = "always" \/ f.kind = "trap"
Held     == {stack[i].saved : i \in {j \in DOMAIN stack : Holds(stack[j])}}

ContinueWaits == (contflag /\ breaks > 0) \/ \E saved \in Held : saved.contflag
JumpWaits     == \E saved \in Held : saved.breaks > 0 \/ saved.retflag
MayJump       == ContinueWaits => "overContinue" \in Uses

(* The n-th loop from inside is still at its condition. *)
InCondition(n) ==
    \E i \in Frames(LoopKinds) :
        /\ stack[i].at = "cond"
        /\ Cardinality({j \in Frames(LoopKinds) : j >= i}) = n

(* break n (an n beyond the number of loops is cut down to it). *)
bin_break ==
    /\ CanRun /\ MayJump
    /\ loops > 0
    /\ breaks' \in 1 .. loops
    /\ lastval' = 0
    /\ pc' = "ran"
    /\ UNCHANGED <<stack, loops, contflag, retflag, errflag, exit_level>>

(* continue n. *)
bin_continue ==
    /\ CanRun /\ MayJump
    /\ JumpWaits => "overContinue" \in Uses
    /\ loops > 0
    /\ contflag' = TRUE
    /\ breaks' \in 1 .. loops
    /\ InCondition(breaks') => "untilContinue" \in Uses
    /\ lastval' = 0
    /\ pc' = "ran"
    /\ UNCHANGED <<stack, loops, retflag, errflag, exit_level>>

Finish == pc' = "done"

(* return: in a trap, at the trap's own level, the trap returns for its caller. *)
bin_return ==
    /\ CanRun /\ MayJump
    /\ lastval' \in 0 .. 1
    /\ IF locallevel + sourcelevel > 0
          THEN LET i == Innermost({"function", "source", "trap"})
               IN  /\ retflag' = TRUE
                   /\ breaks' = loops
                   /\ stack' = IF stack[i].kind = "trap"
                                  THEN [stack EXCEPT ![i].trap_return = lastval']
                                  ELSE stack
                   /\ pc' = "ran"
          ELSE Finish /\ UNCHANGED <<stack, breaks, retflag>>
    /\ UNCHANGED <<loops, contflag, errflag, exit_level>>

(* exit: in a function the functions are left one by one. *)
bin_exit ==
    /\ CanRun /\ MayJump
    /\ LET i == Innermost({"source", "trap"})
       IN  /\ (i > 0 /\ stack[i].kind = "source" /\ Frames({"trap"}) /= {})
                  => "trapSourceExit" \in Uses
           /\ IF locallevel > 0
                 THEN /\ retflag' = TRUE
                      /\ breaks' = loops
                      /\ exit_level' = locallevel
                      /\ stack' = IF i > 0 /\ stack[i].kind = "trap"
                                     THEN [stack EXCEPT ![i].trap_return = 1]
                                     ELSE stack
                      /\ lastval' = 0
                      /\ pc' = "ran"
                 ELSE Finish /\ UNCHANGED <<stack, breaks, retflag, exit_level, lastval>>
    /\ UNCHANGED <<loops, contflag, errflag>>

(* execfor() (also select, and repeat, which sets the status to 0) and         *)
(* execwhile() up to their first list.                                         *)
BeginLoop ==
    /\ CanRunSimple
    /\ \/ Push(New("for", "body", Cleared)) /\ lastval' \in {lastval, 0}
       \/ \E kind \in {"while", "until"} : Push(New(kind, "cond", Cleared)) /\ UNCHANGED lastval
    /\ loops' = loops + 1
    /\ pc' = "next"
    /\ UNCHANGED <<breaks, contflag, retflag, errflag, exit_level>>
    /\ contflag /\ InCondition(breaks)' => "untilContinue" \in Uses

(* execif() and exectry() up to their first list. *)
BeginBlock ==
    /\ CanRunSimple
    /\ Push(New("if", "cond", Cleared)) \/ Push(New("try", "try", Cleared))
    /\ pc' = "next"
    /\ UNCHANGED <<flags, lastval, exit_level>>

BeginFunction ==
    /\ CanRun
    /\ exit_level >= locallevel + 1 => "exitAlways" \in Uses
    /\ Push(New("function", "body", Saved))
    /\ pc' = "next"
    /\ UNCHANGED <<flags, lastval, exit_level>>

BeginSource ==
    /\ CanRun
    /\ exit_level > 0 => "exitAlways" \in Uses
    /\ Push(New("source", "body", Saved))
    /\ loops' = 0
    /\ pc' = "next"
    /\ UNCHANGED <<breaks, contflag, retflag, errflag, lastval, exit_level>>

(* Back in execlist(): `!', then the next part of the chain, which may be one *)
(* further on or none, or the end of the sublist.                             *)
AfterCommand ==
    /\ pc = "ran"
    /\ lastval' \in IF errflag = {} /\ ~retflag THEN {lastval, 1 - lastval} ELSE {lastval}
    /\ pc' \in {"next", "pipe"}
    /\ UNCHANGED <<stack, flags, exit_level>>

-----------------------------------------------------------------------------
(* Ends of lists. *)

ListEnd(kind, at) == pc = "next" /\ In({kind}) /\ Top.at = at

LeaveLoop == loops' = loops - 1 /\ Pop /\ pc' = "ran"

(* What every loop does when its body has run. *)
AfterBody ==
    LET left    == breaks > 1 \/ (breaks = 1 /\ ~contflag)
        stopped == left \/ retflag \/ errflag /= {}
    IN  /\ breaks' = Minus1(breaks)
        /\ contflag' = (contflag /\ breaks /= 1)
        /\ lastval' = IF ~left /\ errflag /= {} /\ ~(Top.kind = "for" /\ retflag)
                         THEN 1 ELSE lastval
        /\ \/ (stopped \/ Top.kind = "for") /\ LeaveLoop
           \/ /\ ~stopped
              /\ stack' = [stack EXCEPT ![Len(stack)].at = IF Top.kind = "for" THEN "body" ELSE "cond",
                                        ![Len(stack)].saved.lastval =
                                            IF Top.kind = "for" THEN 0 ELSE lastval']
              /\ pc' = "next"
              /\ UNCHANGED loops

BodyEnd ==
    /\ \E kind \in LoopKinds : ListEnd(kind, "body")
    /\ AfterBody
    /\ UNCHANGED <<retflag, errflag, exit_level>>

(* execwhile() after its condition; a body whose list would start with a flag  *)
(* set does nothing.                                                           *)
CondEnd ==
    /\ ListEnd("while", "cond") \/ ListEnd("until", "cond")
    /\ LET holds == (lastval = 0) /= (Top.kind = "until")
       IN  \/ /\ ~holds
              /\ breaks' = Minus1(breaks)
              /\ lastval' = IF retflag THEN lastval ELSE Top.saved.lastval
              /\ LeaveLoop
              /\ UNCHANGED contflag
           \/ /\ holds /\ retflag
              /\ breaks' = Minus1(breaks)
              /\ LeaveLoop
              /\ UNCHANGED <<contflag, lastval>>
           \/ /\ holds /\ ~retflag /\ Blocked
              /\ AfterBody
           \/ /\ holds /\ ~Blocked
              /\ MoveTo("body")
              /\ UNCHANGED <<pc, loops, breaks, contflag, lastval>>
    /\ UNCHANGED <<retflag, errflag, exit_level>>

(* execif() after a condition: the next branch, a body, or none of them. *)
IfCondEnd ==
    /\ ListEnd("if", "cond")
    /\ \/ /\ ~Blocked
          /\ \E at \in {"cond", "body"} : (at = "body" \/ lastval = 1) /\ MoveTo(at)
          /\ UNCHANGED <<pc, lastval>>
       \/ /\ lastval = 1 \/ Blocked
          /\ lastval' \in {lastval} \union (IF retflag \/ errflag /= {} THEN {} ELSE {0})
          /\ ~Blocked => lastval' = 0
          /\ Pop
          /\ pc' = "ran"
    /\ UNCHANGED <<flags, exit_level>>

IfEnd ==
    /\ ListEnd("if", "body")
    /\ Pop
    /\ pc' = "ran"
    /\ UNCHANGED <<flags, lastval, exit_level>>

(* exectry() between its lists ... *)
TryEnd ==
    /\ ListEnd("try", "try")
    /\ stack' = [stack EXCEPT ![Len(stack)] =
                    New("try", "always",
                        [Saved EXCEPT !.loops = 0,
                                      !.lastval = IF errflag /= {} THEN 1 ELSE lastval])]
    /\ breaks' = 0 /\ contflag' = FALSE /\ retflag' = FALSE /\ errflag' = {}
    /\ UNCHANGED <<pc, loops, lastval, exit_level>>

(* ... and after them: errflag is what try_errflag and try_interrupt are by    *)
(* then, the other flags are restored unless the always list has set them.     *)
AlwaysEnd ==
    /\ ListEnd("try", "always")
    /\ LET saved == Top.saved
       IN  /\ errflag' \in SUBSET saved.errflag
           /\ retflag' = (retflag \/ saved.retflag)
           /\ breaks' = IF breaks = 0 THEN saved.breaks ELSE breaks
           /\ contflag' = (contflag \/ saved.contflag)
           /\ lastval' = saved.lastval
    /\ Pop
    /\ pc' = "ran"
    /\ UNCHANGED <<loops, exit_level>>

(* doshfunc() after the body, `local': LOCAL_LOOPS is set.  A pending exit goes *)
(* on from function to function.                                                *)
FunctionEnd(local) ==
    /\ ListEnd("function", "body")
    /\ LET saved  == Top.saved
           loops1 == IF local THEN saved.loops ELSE loops
           exits  == exit_level > 0 /\ exit_level >= locallevel
       IN  /\ loops' = loops1
           /\ contflag' = IF local THEN saved.contflag ELSE contflag
           /\ retflag' = (exits /\ locallevel > 1)
           /\ breaks' = CASE exits /\ locallevel > 1 -> loops1
                          [] local \/ retflag        -> saved.breaks
                          [] OTHER                   -> breaks
           /\ pc' = IF exits /\ locallevel = 1 THEN "done" ELSE "ran"
    /\ Pop
    /\ UNCHANGED <<errflag, lastval, exit_level>>

\* Mutant: the loops around the file are not counted again after it.
SourceEnd_unrestored ==
    /\ ListEnd("source", "body")
    /\ errflag' = errflag \ {"error"}
    /\ retflag' = (retflag /\ exit_level > 0)
    /\ lastval' = IF errflag /= {} THEN 1 ELSE lastval
    /\ Pop
    /\ pc' = "ran"
    /\ UNCHANGED <<loops, breaks, contflag, exit_level>>

(* source() and bin_dot() after the file. *)
SourceEnd ==
    /\ ListEnd("source", "body")
    /\ loops' = Top.saved.loops
    /\ errflag' = errflag \ {"error"}
    /\ retflag' = (retflag /\ exit_level > 0)
    /\ lastval' = IF errflag /= {} THEN 1 ELSE lastval
    /\ Pop
    /\ pc' = "ran"
    /\ UNCHANGED <<breaks, contflag, exit_level>>

ScriptEnd ==
    /\ pc = "next" /\ stack = <<>>
    /\ Finish
    /\ UNCHANGED <<stack, flags, lastval, exit_level>>

-----------------------------------------------------------------------------
(* Signals.  They are held back while execlist() works and handled when it      *)
(* unqueues at the end of a list, or while a simple command runs.               *)

(* dotrapargs() up to the trap's list, and after it. *)
TrapBegins ==
    /\ pc = "next" /\ errflag = {}
    /\ Frames({"trap"}) = {}
    /\ Push(New("trap", "body", Saved))
    /\ breaks' = 0 /\ retflag' = FALSE
    /\ UNCHANGED <<pc, loops, contflag, errflag, lastval, exit_level>>

\* Mutant: the return that was pending when the trap began is forgotten.
TrapEnd_forgets ==
    /\ ListEnd("trap", "body")
    /\ LET forced == Top.trap_return /= NoReturn
       IN  /\ lastval' = IF forced THEN Top.trap_return
                         ELSE IF errflag /= {} THEN 1 ELSE Top.saved.lastval
           /\ errflag' = IF ~forced /\ try_tryflag /\ errflag /= {}
                            THEN errflag \union {"error"} ELSE errflag
           /\ breaks' = IF forced THEN breaks ELSE Least(breaks + Top.saved.breaks, loops)
           /\ retflag' = forced
    /\ Pop
    /\ UNCHANGED <<pc, loops, contflag, exit_level>>

TrapEnd ==
    /\ ListEnd("trap", "body")
    /\ LET saved == Top.saved
       IN  \/ /\ Top.trap_return /= NoReturn
              /\ lastval' = Top.trap_return
              /\ retflag' = TRUE
              /\ UNCHANGED <<breaks, errflag>>
           \/ /\ Top.trap_return = NoReturn
              /\ lastval' = IF errflag /= {} THEN 1 ELSE saved.lastval
              /\ errflag' = IF try_tryflag /\ errflag /= {}
                               THEN errflag \union {"error"} ELSE errflag
              /\ breaks' = Least(breaks + saved.breaks, loops)
              /\ retflag' = saved.retflag
    /\ Pop
    /\ UNCHANGED <<pc, loops, contflag, exit_level>>

(* handle_signals(SIGINT) without a trap: loops are left if the signal came     *)
(* while a list of the shell's own was running.                                 *)
Interrupt ==
    /\ pc = "next" /\ "int" \notin errflag
    /\ MayJump
    /\ (\E i \in Frames({"try"}) : stack[i].at = "always") => "alwaysInt" \in Uses
    /\ errflag' = errflag \union {"int"}
    /\ breaks' \in {breaks, loops}
    /\ lastval' = 1
    /\ UNCHANGED <<stack, pc, loops, contflag, retflag, exit_level>>

Ended == pc = "done" /\ UNCHANGED vars

Next ==
    \/ PassOver \/ Simple \/ bin_break \/ bin_continue \/ bin_return \/ bin_exit
    \/ BeginLoop \/ BeginBlock \/ BeginFunction \/ BeginSource \/ AfterCommand
    \/ BodyEnd \/ CondEnd \/ IfCondEnd \/ IfEnd \/ TryEnd \/ AlwaysEnd
    \/ (\E local \in BOOLEAN : FunctionEnd(local)) \/ SourceEnd \/ ScriptEnd
    \/ TrapBegins \/ TrapEnd \/ Interrupt \/ Ended

Spec == Init /\ [][Next]_vars

-----------------------------------------------------------------------------
(* Every variable has its type. *)
TypeOK ==
    /\ stack \in Seq(Frame) /\ Len(stack) <= MaxDepth
    /\ pc \in {"next", "ran", "pipe", "done"}
    /\ loops \in 0 .. MaxDepth /\ breaks \in 0 .. MaxDepth
    /\ contflag \in BOOLEAN /\ retflag \in BOOLEAN
    /\ errflag \in SUBSET {"error", "int"}
    /\ lastval \in 0 .. 1
    /\ exit_level \in 0 .. MaxDepth

(* The flags keep step with the loops in progress.  `loops' counts those in    *)
(* the innermost sourced file, so that break and continue are refused exactly  *)
(* outside loops; no jump is aimed further out than the outermost loop:        *)
(* nothing on the way out of loops, functions, files and traps loses count     *)
(* (loops++ and loops-- in loop.c, the saving and restoring in doshfunc() and  *)
(* source(), the cap in dotrapargs()).  And contflag never outlives the jump   *)
(* it belongs to, except in a trap that ran in between: left behind it would   *)
(* turn a later `break' into a `continue' (the `if (breaks || !contflag)       *)
(* break; contflag = 0;' of every loop, the restoring in exectry()).           *)
LoopsTrueDepth ==
    pc /= "done" =>
        /\ loops = Cardinality({i \in Frames(LoopKinds) : i > Innermost({"source"})})
        /\ breaks <= loops
        /\ contflag => breaks > 0 \/ Frames({"trap"}) /= {}

(* The completion that the flags stand for. *)
JumpOf(f) ==
    CASE f.retflag     -> [how |-> "return", n |-> 0]
      [] ~f.retflag /\ f.breaks > 0 ->
             [how |-> IF f.contflag THEN "continue" ELSE "break", n |-> f.breaks]
      [] OTHER         -> [how |-> "none", n |-> 0]

(* `break' exits from the loop (Doc/Bsh/builtins.yo:243): what is pending after  *)
(* it is a break, whatever was run before (bin_break(), which sets breaks and    *)
(* relies on contflag being 0).                                                  *)
BreakExits == [][bin_break => JumpOf(Saved)'.how = "break"]_vars

(* An interrupt that arrives while an always list runs is propagated             *)
(* (Doc/Bsh/params.yo:1029): it is still set after exectry(), which does not     *)
(* keep this: see README.md, disagreements.                                      *)
InterruptPropagated ==
    [][AlwaysEnd /\ "int" \in errflag => "int" \in errflag']_vars

-----------------------------------------------------------------------------
(* Refinement. *)

FailedOf(f) ==
    {IF bit = "int" THEN "interrupt" ELSE "error" : bit \in f.errflag}

PlaceOf(f) ==
    [kind |-> f.kind, at |-> f.at,
     held |-> IF Holds(f) THEN [jump |-> JumpOf(f.saved), failed |-> FailedOf(f.saved)]
                          ELSE [jump |-> JumpOf(Cleared), failed |-> {}]]

Promise == INSTANCE Completion WITH
    place   <- [i \in DOMAIN stack |-> PlaceOf(stack[i])],
    jump    <- JumpOf(Saved),
    failed  <- FailedOf(Saved),
    exiting <- exit_level > 0,
    doing   <- CASE pc = "pipe" -> "inside" [] pc = "done" -> "over" [] OTHER -> pc

(* The executor keeps what the language promises: a command is left towards the *)
(* construct its break, continue, return, exit, error or interrupt is meant     *)
(* for, through every always list and trap on the way, and nothing is skipped,  *)
(* or run but the parts of a chain of && and || that need no job; a loop that   *)
(* is such a part takes one of the levels of a break or continue.               *)
ImplementsCompletion == Promise!Spec
=============================================================================
