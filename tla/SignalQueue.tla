---------------------------- MODULE SignalQueue ----------------------------
(***************************************************************************)
(* The signal queue of the shell (Src/signals.h, zhandler in               *)
(* Src/signals.c).  Code that must not be interrupted brackets itself with *)
(* queue_signals() ... unqueue_signals(); code that must let signals       *)
(* through for a while inside such a bracket uses dont_queue_signals() ... *)
(* restore_queue_signals(q).  There is ONE counter, queueing_enabled, and  *)
(* one ring of saved signals, shared by the main program and by every      *)
(* signal handler that has interrupted it.                                 *)
(*                                                                         *)
(* The C stack is a stack of frames.  Frame 1 is the main program.  A      *)
(* frame above it is either the body of zhandler() for one signal          *)
(* ("code", like the main program it may open brackets of its own, as      *)
(* wait_for_processes() and dotrap() do), or a run of the loop             *)
(* run_queued_signals() ("drain").  Only the top frame executes.           *)
(*                                                                         *)
(* Every call of zhandler() by the kernel is numbered, 1, 2, ... in order  *)
(* of arrival, so that a saved signal can be followed to its handling.     *)
(***************************************************************************)
EXTENDS Integers, Sequences

CONSTANTS
    Sigs,           \* the signals the shell catches
    QSize,          \* MAX_QUEUE_SIZE: slots in the ring
    MaxDepth,       \* bound: frames on the C stack
    MaxBrackets,    \* bound: brackets one frame holds open at a time
    MaxCaught,      \* bound: calls of zhandler() by the kernel
    Overflow,       \* may a signal arrive while the ring is full?
    DequeueWindow   \* may a signal arrive between the statements that
                    \* take one entry out of the ring?

ASSUME QSizeAssumption == QSize \in Nat \ {0}
ASSUME BoundsAssumption ==
    /\ MaxDepth \in Nat \ {0}
    /\ MaxBrackets \in Nat
    /\ MaxCaught \in Nat
    /\ Overflow \in BOOLEAN
    /\ DequeueWindow \in BOOLEAN

VARIABLES
    queueing_enabled,   \* the nesting counter
    queue_front,        \* ring index of the entry handled last
    queue_rear,         \* ring index of the entry saved last
    signal_queue,       \* ring of saved signals (by arrival number; 0: never used)
    signal_mask_queue,  \* ring of the signal masks saved with them
    mask,               \* signals blocked in the process
    frame,              \* the frames of the C stack
    top,                \* index of the executing frame
    caught,             \* caught[n]: the signal of the n-th arrival
    runs                \* runs[n]: how often the body of zhandler() ran for arrival n
                        \* (0: for a slot of the ring that was never used)

queueVars == <<queueing_enabled, queue_front, queue_rear, signal_queue,
               signal_mask_queue>>
historyVars == <<caught, runs>>
vars == <<queueVars, mask, frame, top, historyVars>>

Slots == 0 .. QSize - 1
Arrivals == 1 .. MaxCaught
Brackets == [op : {"queue", "dont_queue"}, level : Nat]
Steps == {"run", "loop", "loaded", "stored", "masked", "called"}

(* One frame: what it is, its open brackets (each with the value that      *)
(* queueing_enabled had when it was opened), the step a drain loop has     *)
(* reached, the value of queue_front it has loaded, and the signal mask    *)
(* that is put back (oldmask of a handler, oset of a drain loop).          *)
Frames == [kind : {"code", "drain"}, brackets : Seq(Brackets),
           step : Steps, loaded : Slots, oldmask : SUBSET Sigs]

CodeFrame(old) ==
    [kind |-> "code", brackets |-> <<>>, step |-> "run", loaded |-> 0,
     oldmask |-> old]
DrainFrame ==
    [kind |-> "drain", brackets |-> <<>>, step |-> "loop", loaded |-> 0,
     oldmask |-> {}]

(* The nesting level that the brackets of one frame ask for: the last one  *)
(* opened decides.                                                         *)
LevelOf(brackets) ==
    IF brackets = <<>> THEN 0
    ELSE LET b == brackets[Len(brackets)]
         IN  IF b.op = "queue" THEN b.level + 1 ELSE 0

(* Arrival numbers waiting in the ring, as run_queued_signals() would find *)
(* them: from the entry after queue_front up to queue_rear.  An index      *)
(* outside the ring is never met, and the loop then visits every slot.     *)
Waiting ==
    IF queue_rear \in Slots
    THEN {signal_queue[(queue_front + k) % QSize] :
            k \in 1 .. ((queue_rear - queue_front) % QSize)}
    ELSE {signal_queue[i] : i \in Slots}

Init ==
    /\ queueing_enabled = 0
    /\ queue_front = 0
    /\ queue_rear = 0
    /\ signal_queue = [i \in Slots |-> 0]
    /\ signal_mask_queue = [i \in Slots |-> {}]
    /\ mask = {}
    /\ frame = [d \in 1 .. MaxDepth |-> CodeFrame({})]
    /\ top = 1
    /\ caught = <<>>
    /\ runs = [n \in 0 .. MaxCaught |-> 0]

-----------------------------------------------------------------------------
(* Brackets, opened and closed by the code of the top frame.               *)

Running == frame[top].kind = "code"
Pop(s) == [i \in 1 .. Len(s) - 1 |-> s[i]]
TopBracket == frame[top].brackets[Len(frame[top].brackets)]

OpenBracket(op) ==
    [frame EXCEPT ![top].brackets =
        Append(@, [op |-> op, level |-> queueing_enabled])]

(* What a statement that ends in run_queued_signals() leaves on the stack. *)
StartDrain(f) == [f EXCEPT ![top + 1] = DrainFrame]

queue_signals ==
    /\ Running
    /\ Len(frame[top].brackets) < MaxBrackets
    /\ frame' = OpenBracket("queue")
    /\ queueing_enabled' = queueing_enabled + 1
    /\ UNCHANGED <<queue_front, queue_rear, signal_queue, signal_mask_queue,
                   mask, top, historyVars>>

(* The counter taken for a flag: the inner of two brackets clears it.      *)
unqueue_signals_flag ==
    /\ Running
    /\ frame[top].brackets # <<>>
    /\ TopBracket.op = "queue"
    /\ top < MaxDepth
    /\ queueing_enabled' = 0
    /\ frame' = StartDrain([frame EXCEPT ![top].brackets = Pop(@)])
    /\ top' = top + 1
    /\ UNCHANGED <<queue_front, queue_rear, signal_queue, signal_mask_queue,
                   mask, historyVars>>

(* The queue is not processed when the last bracket is closed.             *)
unqueue_signals_no_run ==
    /\ Running
    /\ frame[top].brackets # <<>>
    /\ TopBracket.op = "queue"
    /\ queueing_enabled' = queueing_enabled - 1
    /\ frame' = [frame EXCEPT ![top].brackets = Pop(@)]
    /\ UNCHANGED <<queue_front, queue_rear, signal_queue, signal_mask_queue,
                   mask, top, historyVars>>

unqueue_signals ==
    /\ Running
    /\ frame[top].brackets # <<>>
    /\ TopBracket.op = "queue"
    /\ queueing_enabled' = queueing_enabled - 1
    /\ LET closed == [frame EXCEPT ![top].brackets = Pop(@)]
       IN  \/ /\ queueing_enabled' # 0
              /\ frame' = closed
              /\ top' = top
           \/ /\ queueing_enabled' = 0
              /\ top < MaxDepth
              /\ frame' = StartDrain(closed)
              /\ top' = top + 1
    /\ UNCHANGED <<queue_front, queue_rear, signal_queue, signal_mask_queue,
                   mask, historyVars>>

dont_queue_signals ==
    /\ Running
    /\ Len(frame[top].brackets) < MaxBrackets
    /\ top < MaxDepth
    /\ frame' = StartDrain(OpenBracket("dont_queue"))
    /\ top' = top + 1
    /\ queueing_enabled' = 0
    /\ UNCHANGED <<queue_front, queue_rear, signal_queue, signal_mask_queue,
                   mask, historyVars>>

(* The level saved by the caller is not put back.                          *)
restore_queue_signals_lost ==
    /\ Running
    /\ frame[top].brackets # <<>>
    /\ TopBracket.op = "dont_queue"
    /\ frame' = [frame EXCEPT ![top].brackets = Pop(@)]
    /\ UNCHANGED <<queueVars, mask, top, historyVars>>

restore_queue_signals ==
    /\ Running
    /\ frame[top].brackets # <<>>
    /\ TopBracket.op = "dont_queue"
    /\ queueing_enabled' = TopBracket.level
    /\ frame' = [frame EXCEPT ![top].brackets = Pop(@)]
    /\ UNCHANGED <<queue_front, queue_rear, signal_queue, signal_mask_queue,
                   mask, top, historyVars>>

(* signal_block() and signal_unblock(), called by child_block(),           *)
(* holdintr() and their opposites.                                         *)
signal_block(s) ==
    /\ Running
    /\ top = 1
    /\ s \notin mask
    /\ mask' = mask \cup {s}
    /\ UNCHANGED <<queueVars, frame, top, historyVars>>

signal_unblock(s) ==
    /\ Running
    /\ top = 1
    /\ s \in mask
    /\ mask' = mask \ {s}
    /\ UNCHANGED <<queueVars, frame, top, historyVars>>

-----------------------------------------------------------------------------
(* The kernel calls zhandler(s).  While it decides what to do all signals  *)
(* are blocked, so the decision and its effect are one step.               *)

Interruptible(s) ==
    /\ s \notin mask
    /\ Len(caught) < MaxCaught
    /\ Overflow \/ (queue_rear + 1) % QSize # queue_front
    /\ DequeueWindow \/ frame[top].step \in {"run", "loop", "called"}

(* The slot is filled before the index moves on.                           *)
SaveSignal_early(n, old) ==
    /\ queue_rear' = (queue_rear + 1) % QSize
    /\ signal_queue' = [signal_queue EXCEPT ![queue_rear] = n]
    /\ signal_mask_queue' = [signal_mask_queue EXCEPT ![queue_rear] = old]

(* ++queue_rear has moved the index, unreduced, before the test for a full *)
(* ring; only a signal that fits puts it back into range.                  *)
SaveSignal(n, old) ==
    LET temp_rear == (queue_rear + 1) % QSize
    IN  IF temp_rear # queue_front
        THEN /\ queue_rear' = temp_rear
             /\ signal_queue' = [signal_queue EXCEPT ![temp_rear] = n]
             /\ signal_mask_queue' = [signal_mask_queue EXCEPT ![temp_rear] = old]
        ELSE /\ queue_rear' = queue_rear + 1
             /\ UNCHANGED <<signal_queue, signal_mask_queue>>

(* zhandler() while queueing: the signal is saved with the mask it         *)
(* interrupted (to which the kernel has added the signal itself).          *)
zhandler_queue(s) ==
    /\ Interruptible(s)
    /\ queueing_enabled # 0
    /\ SaveSignal(Len(caught) + 1, mask \cup {s})
    /\ caught' = Append(caught, s)
    /\ UNCHANGED <<queueing_enabled, queue_front, mask, frame, top, runs>>

(* zhandler() while not queueing: its body starts as a new frame.          *)
zhandler_now(s) ==
    /\ Interruptible(s)
    /\ queueing_enabled = 0
    /\ top < MaxDepth
    /\ frame' = [frame EXCEPT ![top + 1] = CodeFrame(mask)]
    /\ top' = top + 1
    /\ mask' = mask \cup {s}
    /\ caught' = Append(caught, s)
    /\ runs' = [runs EXCEPT ![Len(caught) + 1] = @ + 1]
    /\ UNCHANGED queueVars

(* A frame is left; the slots above the top are kept in one state.         *)
PopFrame ==
    /\ frame' = [frame EXCEPT ![top] = CodeFrame({})]
    /\ top' = top - 1

(* The body of zhandler() returns: every bracket it opened is closed, and  *)
(* the mask that it interrupted is put back.                               *)
HandlerReturn ==
    /\ Running
    /\ top > 1
    /\ frame[top].brackets = <<>>
    /\ mask' = frame[top].oldmask
    /\ PopFrame
    /\ UNCHANGED <<queueVars, historyVars>>

-----------------------------------------------------------------------------
(* run_queued_signals(): one action for each access to the shared index.   *)

DrainAt(step) == frame[top].kind = "drain" /\ frame[top].step = step

DrainDone ==
    /\ DrainAt("loop")
    /\ queue_front = queue_rear
    /\ PopFrame
    /\ UNCHANGED <<queueVars, mask, historyVars>>

DrainLoad ==
    /\ DrainAt("loop")
    /\ queue_front # queue_rear
    /\ frame' = [frame EXCEPT ![top].step = "loaded", ![top].loaded = queue_front]
    /\ UNCHANGED <<queueVars, mask, top, historyVars>>

(* The index is not reduced modulo the size of the ring.                   *)
DrainStore_unreduced ==
    /\ DrainAt("loaded")
    /\ queue_front' = frame[top].loaded + 1
    /\ frame' = [frame EXCEPT ![top].step = "stored", ![top].loaded = 0]
    /\ UNCHANGED <<queueing_enabled, queue_rear, signal_queue,
                   signal_mask_queue, mask, top, historyVars>>

DrainStore ==
    /\ DrainAt("loaded")
    /\ queue_front' = (frame[top].loaded + 1) % QSize
    /\ frame' = [frame EXCEPT ![top].step = "stored", ![top].loaded = 0]
    /\ UNCHANGED <<queueing_enabled, queue_rear, signal_queue,
                   signal_mask_queue, mask, top, historyVars>>

DrainSetMask ==
    /\ DrainAt("stored")
    /\ mask' = signal_mask_queue[queue_front]
    /\ frame' = [frame EXCEPT ![top].step = "masked", ![top].oldmask = mask]
    /\ UNCHANGED <<queueVars, top, historyVars>>

(* The newest entry is handled in place of the oldest.                     *)
DrainCall_newest ==
    /\ DrainAt("masked")
    /\ top < MaxDepth
    /\ runs' = [runs EXCEPT ![signal_queue[queue_rear]] = @ + 1]
    /\ frame' = [frame EXCEPT ![top].step = "called", ![top + 1] = CodeFrame(mask)]
    /\ top' = top + 1
    /\ UNCHANGED <<queueVars, mask, caught>>

(* zhandler(signal_queue[queue_front]): queueing_enabled is 0 here, by     *)
(* LevelBalanced, so the body of the handler runs.                         *)
DrainCall ==
    /\ DrainAt("masked")
    /\ top < MaxDepth
    /\ runs' = [runs EXCEPT ![signal_queue[queue_front]] = @ + 1]
    /\ frame' = [frame EXCEPT ![top].step = "called", ![top + 1] = CodeFrame(mask)]
    /\ top' = top + 1
    /\ UNCHANGED <<queueVars, mask, caught>>

(* The entry is given back after the call, as if the index were advanced   *)
(* only now.                                                               *)
DrainNext_again ==
    /\ DrainAt("called")
    /\ mask' = frame[top].oldmask
    /\ queue_front' = (queue_front - 1) % QSize
    /\ frame' = [frame EXCEPT ![top].step = "loop", ![top].oldmask = {}]
    /\ UNCHANGED <<queueing_enabled, queue_rear, signal_queue,
                   signal_mask_queue, top, historyVars>>

DrainNext ==
    /\ DrainAt("called")
    /\ mask' = frame[top].oldmask
    /\ frame' = [frame EXCEPT ![top].step = "loop", ![top].oldmask = {}]
    /\ UNCHANGED <<queueVars, top, historyVars>>

-----------------------------------------------------------------------------
CodeStep ==
    \/ queue_signals
    \/ unqueue_signals
    \/ dont_queue_signals
    \/ restore_queue_signals
    \/ \E s \in Sigs : signal_block(s) \/ signal_unblock(s)

DrainStep ==
    DrainDone \/ DrainLoad \/ DrainStore \/ DrainSetMask \/ DrainCall \/ DrainNext

KernelStep == \E s \in Sigs : zhandler_queue(s) \/ zhandler_now(s)

Next == CodeStep \/ DrainStep \/ HandlerReturn \/ KernelStep

Spec == Init /\ [][Next]_vars

(* Critical sections end, the outermost one too, and handlers return (SF:  *)
(* the code may open other brackets in between); the loop over the ring is *)
(* never abandoned (WF).                                                   *)
FairSpec ==
    /\ Spec
    /\ SF_vars(unqueue_signals)
    /\ SF_vars(unqueue_signals /\ queueing_enabled = 1)
    /\ SF_vars(restore_queue_signals)
    /\ SF_vars(HandlerReturn)
    /\ WF_vars(DrainStep)

-----------------------------------------------------------------------------
(* PROPERTIES                                                              *)

(* The indices stay inside the ring and every frame is well formed.        *)
TypeOK ==
    /\ queueing_enabled \in Nat
    /\ queue_front \in Slots
    /\ queue_rear \in Nat
    /\ signal_queue \in [Slots -> 0 .. MaxCaught]
    /\ signal_mask_queue \in [Slots -> SUBSET Sigs]
    /\ mask \in SUBSET Sigs
    /\ frame \in [1 .. MaxDepth -> Frames]
    /\ top \in 1 .. MaxDepth
    /\ caught \in Seq(Sigs) /\ Len(caught) <= MaxCaught
    /\ runs \in [0 .. MaxCaught -> Nat]

(* queueing_enabled is what the open brackets of the executing code ask    *)
(* for, however often it was interrupted on the way: a handler or a drain  *)
(* loop that ran in between leaves the counter as it found it.             *)
LevelBalanced == queueing_enabled = LevelOf(frame[top].brackets)

(* Code that called queue_signals() and did not lift it with               *)
(* dont_queue_signals() is never interrupted by the body of a handler.     *)
CriticalSectionsRunAlone ==
    \A d \in 1 .. MaxDepth : d < top => LevelOf(frame[d].brackets) = 0

(* The entry a drain loop has taken out of the ring and not yet passed to  *)
(* zhandler().                                                             *)
InFlight ==
    {signal_queue[(frame[d].loaded + 1) % QSize] :
        d \in {e \in 1 .. top : frame[e].step = "loaded"}}
    \cup
    {signal_queue[queue_front] :
        d \in {e \in 1 .. top : frame[e].step \in {"stored", "masked"}}}

(* Every signal zhandler() was called for has been handled, or waits in    *)
(* the ring, or is on its way from the ring to the handler.                *)
NoSignalLost ==
    \A n \in 1 .. Len(caught) : runs[n] > 0 \/ n \in Waiting \cup InFlight

(* No call of zhandler() by the kernel is handled twice.                   *)
HandledAtMostOnce == \A n \in 1 .. Len(caught) : runs[n] <= 1

(* When run_queued_signals() hands over a signal, nothing that was caught  *)
(* before it is still waiting.                                             *)
DrainIsFifo ==
    [][\A n \in 1 .. Len(caught) :
          runs'[n] # runs[n] => \A m \in Waiting' : m > n]_vars

(* Catching a signal never takes another out of the ring.  zhandler() does *)
(* not keep this when the ring is full: see README.md, disagreements.      *)
CatchingKeepsQueue == [][caught' # caught => Waiting \subseteq Waiting']_vars

(* Every signal the shell catches is handled in the end.                   *)
EverySignalHandled ==
    \A n \in Arrivals : Len(caught) >= n ~> runs[n] > 0
=============================================================================
