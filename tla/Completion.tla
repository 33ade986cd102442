----------------------------- MODULE Completion -----------------------------
(***************************************************************************)
(* What the shell language promises about leaving a command before its end *)
(* (Doc/Bsh/builtins.yo `break', `continue', `return', `exit';             *)
(* Doc/Bsh/grammar.yo `always'; Doc/Bsh/params.yo TRY_BLOCK_INTERRUPT),     *)
(* with one value for what is pending instead of the shell's four flags.    *)
(* ControlFlow implements this specification.                               *)
(***************************************************************************)
EXTENDS Naturals, Sequences, FiniteSets

CONSTANT MaxDepth          \* most constructs open at a time

VARIABLES
    place,                 \* the open constructs, innermost last
    jump,                  \* the jump that is pending
    failed,                \* the failures pending: of "error", "interrupt"
    exiting,               \* `exit' was called in a function
    doing                  \* before a command, after one, inside && ||, over

vars == <<place, jump, failed, exiting, doing>>

LoopKinds == {"for", "while", "until"}
Kinds     == LoopKinds \union {"if", "try", "function", "source", "trap"}

None        == [how |-> "none", n |-> 0]
Return      == [how |-> "return", n |-> 0]
LoopJump(n) == {[how |-> "break", n |-> n], [how |-> "continue", n |-> n]}

(* What an always list or a trap puts aside while it runs. *)
Nothing == [jump |-> None, failed |-> {}]
Pending == [jump |-> jump, failed |-> failed]

Open(kind, at, held) == [kind |-> kind, at |-> at, held |-> held]

Top    == place[Len(place)]
Inside == place /= <<>>
Outer  == SubSeq(place, 1, Len(place) - 1)

Count(kinds) == Cardinality({i \in DOMAIN place : place[i].kind \in kinds})

(* The loops a break can leave: those of the sourced file, if there is one. *)
LoopsOpen ==
    Cardinality({i \in DOMAIN place :
        /\ place[i].kind \in LoopKinds
        /\ \A j \in DOMAIN place : place[j].kind = "source" => j < i})

Clear == jump = None /\ failed = {}
Ready == Clear /\ doing \in {"next", "inside"}

(* A part of a chain of && and || that the shell runs by itself (no command, no *)
(* function) does not wait for a jump that comes before it in the chain, only   *)
(* for a failure.                                                               *)
PartReady == Ready \/ (doing = "inside" /\ failed = {})

Init ==
    /\ place = <<>>
    /\ jump = None
    /\ failed = {}
    /\ exiting = FALSE
    /\ doing = "next"

-----------------------------------------------------------------------------
(* Commands.  None starts while something is pending, except for a PartReady. *)

Run ==
    /\ PartReady
    /\ doing' = "ran"
    /\ UNCHANGED <<place, jump, failed, exiting>>

Fail ==
    /\ PartReady
    /\ failed' = {"error"}
    /\ doing' = "ran"
    /\ UNCHANGED <<place, jump, exiting>>

Jump ==
    /\ Ready
    /\ \/ \E n \in 1 .. LoopsOpen : jump' \in LoopJump(n)
       \/ Count({"function", "source"}) > 0 /\ jump' = Return
    /\ doing' = "ran"
    /\ UNCHANGED <<place, failed, exiting>>

ExitCalled ==
    /\ Ready
    /\ Count({"function"}) > 0
    /\ jump' = Return
    /\ exiting' = TRUE
    /\ doing' = "ran"
    /\ UNCHANGED <<place, failed>>

(* `return' or `exit' outside every function and file ends the script. *)
Over ==
    /\ Ready
    /\ doing' = "over"
    /\ UNCHANGED <<place, jump, failed, exiting>>

Enter ==
    /\ PartReady
    /\ Len(place) < MaxDepth
    /\ \E kind \in Kinds \ (IF Ready THEN {"trap"} ELSE {"trap", "function", "source"}) :
           place' = Append(place, Open(kind,
                        CASE kind \in {"while", "until", "if"} -> "cond"
                          [] kind = "try"                      -> "try"
                          [] OTHER                             -> "body", Nothing))
    /\ doing' = "next"
    /\ UNCHANGED <<jump, failed, exiting>>

(* The rest of a chain of && and || is passed over. *)
Skip ==
    /\ doing = "inside" /\ ~Clear
    /\ doing' = "ran"
    /\ UNCHANGED <<place, jump, failed, exiting>>

Ran ==
    /\ doing = "ran"
    /\ doing' \in {"next", "inside"}
    /\ UNCHANGED <<place, jump, failed, exiting>>

-----------------------------------------------------------------------------
(* Ends of lists.  A list may end at any command, and ends at once when     *)
(* something is pending.                                                    *)

AtEnd(kinds) == doing = "next" /\ Inside /\ Top.kind \in kinds

Leave == place' = Outer /\ doing' = "ran"
GoTo(at, held) ==
    /\ place' = [place EXCEPT ![Len(place)].at = at, ![Len(place)].held = held]
    /\ doing' = "next"

(* A loop takes one level of a break or a continue, and lets the rest pass. *)
LoopEnd ==
    /\ AtEnd(LoopKinds)
    /\ \/ /\ jump.n > 1
          /\ jump' = [jump EXCEPT !.n = @ - 1]
          /\ Leave
       \/ /\ jump.how = "break" /\ jump.n = 1
          /\ jump' = None
          /\ Leave
       \/ /\ jump.how = "continue" /\ jump.n = 1
          /\ jump' = None
          /\ \/ Leave
             \/ failed = {} /\ GoTo(IF Top.kind = "for" THEN "body" ELSE "cond", Nothing)
       \/ /\ jump.n = 0
          /\ jump' = jump
          /\ \/ Leave
             \/ Clear /\ GoTo(IF Top.at = "cond" \/ Top.kind = "for"
                                  THEN "body" ELSE "cond", Nothing)
    /\ UNCHANGED <<failed, exiting>>

IfEnd ==
    /\ AtEnd({"if"})
    /\ Leave \/ (Top.at = "cond" /\ Clear /\ \E at \in {"cond", "body"} : GoTo(at, Nothing))
    /\ UNCHANGED <<jump, failed, exiting>>

(* Whatever ended the try list is put aside while the always list runs ... *)
TryEnd ==
    /\ AtEnd({"try"}) /\ Top.at = "try"
    /\ GoTo("always", Pending)
    /\ jump' = None /\ failed' = {}
    /\ UNCHANGED exiting

(* ... and is in force again after it, unless the always list resets the    *)
(* failure (TRY_BLOCK_ERROR, TRY_BLOCK_INTERRUPT) or jumps itself.  An error *)
(* of the always list is its own; an interrupt of it is propagated.          *)
AlwaysEnd ==
    /\ AtEnd({"try"}) /\ Top.at = "always"
    /\ jump' = IF jump = None \/ Top.held.jump = Return THEN Top.held.jump ELSE jump
    /\ \E reset \in SUBSET Top.held.failed :
           failed' = (Top.held.failed \ reset) \union (failed \ {"error"})
    /\ Leave
    /\ UNCHANGED exiting

ReturnHeld == \E i \in DOMAIN place : place[i].held.jump = Return

(* A function takes a return, and a break or continue if LOCAL_LOOPS is set; *)
(* an exit goes on to the end of the script, but does not touch a function   *)
(* called by an always list or a trap on its way.                            *)
FunctionEnd ==
    /\ AtEnd({"function"})
    /\ \/ /\ jump /= Return
          /\ jump' \in {jump, None}
          /\ Leave
       \/ /\ jump = Return /\ (exiting => ReturnHeld)
          /\ jump' = None
          /\ Leave
       \/ /\ jump = Return /\ exiting
          /\ IF Count({"function"}) > 1
                 THEN jump' = Return /\ Leave
                 ELSE jump' = None /\ doing' = "over" /\ place' = Outer
    /\ UNCHANGED <<failed, exiting>>

SourceEnd ==
    /\ AtEnd({"source"})
    /\ \/ exiting /\ jump' = jump
       \/ (exiting => ReturnHeld) /\ jump' = None
    /\ failed' = failed \ {"error"}
    /\ Leave
    /\ UNCHANGED exiting

ScriptEnd ==
    /\ doing = "next" /\ ~Inside
    /\ doing' = "over"
    /\ UNCHANGED <<place, jump, failed, exiting>>

-----------------------------------------------------------------------------
(* Signals. *)

(* A trap runs as if nothing were pending. *)
TrapBegins ==
    /\ doing = "next" /\ failed = {}
    /\ Len(place) < MaxDepth
    /\ Count({"trap"}) = 0
    /\ place' = Append(place, Open("trap", "body", Pending))
    /\ jump' = None
    /\ UNCHANGED <<failed, exiting, doing>>

(* What it interrupted then goes on, unless the trap returned; loops it left *)
(* are left in addition to those that were being left.                       *)
TrapEnd ==
    /\ AtEnd({"trap"})
    /\ LET held == Top.held.jump
       IN  jump' \in CASE jump = None                     -> {held}
                       [] jump = Return \/ held = Return  -> {Return}
                       [] held = None                     -> {jump}
                       [] OTHER -> {m \in UNION {LoopJump(n) : n \in 1 .. LoopsOpen} :
                                        m.n >= jump.n /\ m.how \in {jump.how, held.how}}
    /\ failed' \in {failed} \union (IF failed = {} THEN {} ELSE {failed \union {"error"}})
    /\ place' = Outer
    /\ doing' = "next"
    /\ UNCHANGED exiting

(* SIGINT leaves all loops. *)
Interrupt ==
    /\ doing = "next"
    /\ failed' = failed \union {"interrupt"}
    /\ jump' \in {jump} \union
                 (IF jump = Return THEN {} ELSE {j \in LoopJump(LoopsOpen) : j.n > 0})
    /\ UNCHANGED <<place, exiting, doing>>

Next ==
    \/ Run \/ Fail \/ Jump \/ ExitCalled \/ Over \/ Enter \/ Skip \/ Ran
    \/ LoopEnd \/ IfEnd \/ TryEnd \/ AlwaysEnd \/ FunctionEnd \/ SourceEnd \/ ScriptEnd
    \/ TrapBegins \/ TrapEnd \/ Interrupt

Spec == Init /\ [][Next]_vars
=============================================================================
