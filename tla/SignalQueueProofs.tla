------------------------- MODULE SignalQueueProofs -------------------------
(***************************************************************************)
(* Proofs about SignalQueue, for every number of signals, slots, frames,   *)
(* brackets and arrivals, with the ring overflowing or not and with        *)
(* signals arriving inside the dequeue window or not: the nesting counter  *)
(* is always the one the executing code asks for, and a critical section   *)
(* is never interrupted by the body of a handler.  As long as no signal    *)
(* arrives while the ring is full nor inside the dequeue window, every     *)
(* signal that is caught is handled or waits, none is handled twice, and   *)
(* those that wait are handled in the order of their arrival.              *)
(***************************************************************************)
EXTENDS SignalQueue, TLAPS

(* The level after the first i brackets of a frame.                        *)
LevelAfter(b, i) ==
    IF i = 0 THEN 0 ELSE IF b[i].op = "queue" THEN b[i].level + 1 ELSE 0

(* Each bracket remembers the level at which it was opened.                *)
BracketsOK(b) == \A i \in 1 .. Len(b) : b[i].level = LevelAfter(b, i - 1)

(* The stack of frames: the brackets of each frame are nested, only code   *)
(* opens brackets, and the first frame is the main program.                *)
StackOK ==
    \A d \in 1 .. MaxDepth :
        /\ BracketsOK(frame[d].brackets)
        /\ frame[d].kind = "drain" => frame[d].brackets = <<>> /\ d > 1

(* The inductive invariant.                                                *)
IInv == TypeOK /\ StackOK /\ LevelBalanced /\ CriticalSectionsRunAlone

-----------------------------------------------------------------------------
(* A function with one value replaced keeps its type.                      *)
LEMMA Update ==
    ASSUME NEW S, NEW T, NEW f \in [S -> T], NEW i \in S, NEW v \in T
    PROVE  [f EXCEPT ![i] = v] \in [S -> T]
<1> QED OBVIOUS

(* Opening a bracket at the current level keeps the nesting, and the new   *)
(* bracket decides the level.                                              *)
LEMMA OpenLemma ==
    ASSUME NEW b \in Seq(Brackets), NEW e \in Brackets,
           BracketsOK(b), e.level = LevelOf(b)
    PROVE  /\ Append(b, e) \in Seq(Brackets)
           /\ BracketsOK(Append(b, e))
           /\ LevelOf(Append(b, e)) = IF e.op = "queue" THEN e.level + 1 ELSE 0
<1> DEFINE c == Append(b, e)
<1>1. /\ c \in Seq(Brackets)
      /\ Len(c) = Len(b) + 1
      /\ \A i \in 1 .. Len(b) : c[i] = b[i]
      /\ c[Len(c)] = e
  OBVIOUS
<1>2. BracketsOK(c)
  <2> SUFFICES ASSUME NEW i \in 1 .. Len(c) PROVE c[i].level = LevelAfter(c, i - 1)
    BY DEF BracketsOK
  <2>1. CASE i \in 1 .. Len(b)
    <3>1. c[i].level = LevelAfter(b, i - 1)
      BY <1>1, <2>1 DEF BracketsOK
    <3>2. LevelAfter(b, i - 1) = LevelAfter(c, i - 1)
      BY <1>1, <2>1 DEF LevelAfter
    <3> QED BY <3>1, <3>2
  <2>2. CASE i = Len(c)
    <3>1. LevelOf(b) = LevelAfter(c, i - 1)
      BY <1>1, <2>2 DEF LevelAfter, LevelOf
    <3> QED BY <3>1, <1>1, <2>2
  <2> QED BY <1>1, <2>1, <2>2
<1>3. LevelOf(c) = IF e.op = "queue" THEN e.level + 1 ELSE 0
  BY <1>1 DEF LevelOf
<1> QED BY <1>1, <1>2, <1>3

(* Closing the last bracket goes back to the level it remembers.           *)
LEMMA CloseLemma ==
    ASSUME NEW b \in Seq(Brackets), BracketsOK(b), b # <<>>
    PROVE  /\ Pop(b) \in Seq(Brackets)
           /\ BracketsOK(Pop(b))
           /\ LevelOf(Pop(b)) = b[Len(b)].level
           /\ b[Len(b)] \in Brackets
<1> DEFINE c == Pop(b)
<1>0. Len(b) \in Nat /\ Len(b) >= 1
  OBVIOUS
<1>1. /\ c \in Seq(Brackets)
      /\ Len(c) = Len(b) - 1
      /\ \A i \in 1 .. Len(c) : c[i] = b[i]
  BY <1>0 DEF Pop
<1>2. BracketsOK(c)
  BY <1>0, <1>1 DEF BracketsOK, LevelAfter
<1>3. LevelOf(c) = b[Len(b)].level
  <2>1. b[Len(b)].level = LevelAfter(b, Len(b) - 1)
    BY <1>0 DEF BracketsOK
  <2>2. LevelAfter(b, Len(b) - 1) = LevelOf(c)
    <3>1. CASE Len(b) = 1
      BY <1>0, <1>1, <3>1 DEF LevelAfter, LevelOf
    <3>2. CASE Len(b) > 1
      BY <1>0, <1>1, <3>2 DEF LevelAfter, LevelOf
    <3> QED BY <1>0, <3>1, <3>2
  <2> QED BY <2>1, <2>2
<1> QED BY <1>0, <1>1, <1>2, <1>3

(* The level that brackets ask for is a natural number.                    *)
LEMMA LevelType ==
    ASSUME NEW b \in Seq(Brackets) PROVE LevelOf(b) \in Nat
<1>1. CASE b = <<>>
  BY <1>1 DEF LevelOf
<1>2. CASE b # <<>>
  <2>1. b[Len(b)] \in Brackets
    BY <1>2
  <2> QED BY <1>2, <2>1 DEF LevelOf, Brackets
<1> QED BY <1>1, <1>2

(* The frames that are pushed are well formed and hold no bracket.         *)
LEMMA NewFrames ==
    /\ \A m \in SUBSET Sigs : CodeFrame(m) \in Frames
    /\ \A m \in SUBSET Sigs : CodeFrame(m).brackets = <<>> /\ CodeFrame(m).kind = "code"
    /\ DrainFrame \in Frames /\ DrainFrame.brackets = <<>>
    /\ BracketsOK(<<>>) /\ LevelOf(<<>>) = 0
<1>1. 0 \in Slots
  BY QSizeAssumption DEF Slots
<1>2. <<>> \in Seq(Brackets)
  OBVIOUS
<1> QED BY <1>1, <1>2 DEF CodeFrame, DrainFrame, Frames, Steps, BracketsOK, LevelOf
-----------------------------------------------------------------------------
(* A frame replaced by a well formed one, with no code below the top left  *)
(* inside a critical section, keeps the invariant of the stack.            *)
LEMMA TopFrame ==
    ASSUME IInv
    PROVE  /\ frame \in [1 .. MaxDepth -> Frames]
           /\ top \in 1 .. MaxDepth
           /\ frame[top] \in Frames
           /\ frame[top].kind = "drain" => frame[top].brackets = <<>> /\ top > 1
           /\ frame[top].brackets \in Seq(Brackets)
           /\ BracketsOK(frame[top].brackets)
           /\ \A d \in 1 .. MaxDepth : frame[d] \in Frames
           /\ queueing_enabled = LevelOf(frame[top].brackets)
           /\ queueing_enabled \in Nat
           /\ MaxDepth \in Nat
           /\ QSize \in Nat \ {0}
<1> QED BY BoundsAssumption, QSizeAssumption
    DEF IInv, TypeOK, StackOK, LevelBalanced, Frames

(* Initially nothing is open.                                              *)
LEMMA InitIInv == Init => IInv
<1> SUFFICES ASSUME Init PROVE IInv
  OBVIOUS
<1>1. TypeOK
  BY NewFrames, QSizeAssumption, BoundsAssumption DEF Init, TypeOK, Slots, Arrivals
<1>2. StackOK
  BY NewFrames DEF Init, StackOK
<1>3. LevelBalanced
  BY NewFrames, BoundsAssumption DEF Init, LevelBalanced
<1>4. CriticalSectionsRunAlone
  BY BoundsAssumption DEF Init, CriticalSectionsRunAlone
<1> QED BY <1>1, <1>2, <1>3, <1>4 DEF IInv

(* A step that gives the frame in slot top the brackets b, changes nothing *)
(* else on the stack and sets the counter to what b asks for.              *)
LEMMA SameFrameStep ==
    ASSUME IInv, TypeOK', top' = top,
           \A d \in 1 .. MaxDepth : d # top => frame'[d] = frame[d],
           BracketsOK(frame'[top].brackets),
           frame'[top].kind = frame[top].kind,
           frame[top].kind = "drain" => frame'[top].brackets = <<>>,
           queueing_enabled' = LevelOf(frame'[top].brackets)
    PROVE  IInv'
<1>1. top \in 1 .. MaxDepth
  BY DEF IInv, TypeOK
<1>2. StackOK'
  BY <1>1 DEF IInv, StackOK
<1>3. LevelBalanced'
  BY DEF LevelBalanced
<1>4. CriticalSectionsRunAlone'
  BY <1>1, BoundsAssumption DEF IInv, CriticalSectionsRunAlone
<1> QED BY <1>2, <1>3, <1>4 DEF IInv

(* A step that pushes a frame without brackets on one that is at level 0.  *)
LEMMA PushStep ==
    ASSUME IInv, TypeOK', top' = top + 1, top < MaxDepth,
           \A d \in 1 .. MaxDepth : d \notin {top, top + 1} => frame'[d] = frame[d],
           BracketsOK(frame'[top].brackets),
           frame'[top].kind = frame[top].kind,
           frame[top].kind = "drain" => frame'[top].brackets = <<>>,
           LevelOf(frame'[top].brackets) = 0,
           frame'[top + 1].brackets = <<>>,
           queueing_enabled' = 0
    PROVE  IInv'
<1>1. top \in 1 .. MaxDepth /\ MaxDepth \in Nat
  BY BoundsAssumption DEF IInv, TypeOK
<1>2. StackOK'
  BY <1>1, NewFrames DEF IInv, StackOK
<1>3. LevelBalanced'
  BY NewFrames DEF LevelBalanced
<1>4. CriticalSectionsRunAlone'
  BY <1>1 DEF IInv, CriticalSectionsRunAlone
<1> QED BY <1>2, <1>3, <1>4 DEF IInv

(* A step that pops a frame at level 0.                                    *)
LEMMA PopStep ==
    ASSUME IInv, TypeOK', PopFrame, top > 1,
           queueing_enabled = 0, queueing_enabled' = 0
    PROVE  IInv'
<1>1. top \in 2 .. MaxDepth /\ MaxDepth \in Nat
  BY BoundsAssumption DEF IInv, TypeOK
<1>2. top' = top - 1 /\ \A d \in 1 .. MaxDepth : d # top => frame'[d] = frame[d]
  BY <1>1 DEF PopFrame, IInv, TypeOK
<1>3. frame'[top].brackets = <<>>
  BY <1>1, NewFrames DEF PopFrame, IInv, TypeOK
<1>4. StackOK'
  BY <1>2, <1>3, NewFrames DEF IInv, StackOK
<1>5. LevelBalanced'
  BY <1>1, <1>2 DEF LevelBalanced, IInv, CriticalSectionsRunAlone
<1>6. CriticalSectionsRunAlone'
  BY <1>1, <1>2 DEF IInv, CriticalSectionsRunAlone
<1> QED BY <1>4, <1>5, <1>6 DEF IInv

-----------------------------------------------------------------------------
(* One lemma for each action: it keeps the inductive invariant.            *)

LEMMA QueueStep == IInv /\ queue_signals => IInv'
<1> SUFFICES ASSUME IInv, queue_signals PROVE IInv'
  OBVIOUS
<1> USE TopFrame
<1> DEFINE e == [op |-> "queue", level |-> queueing_enabled]
           b == Append(frame[top].brackets, e)
<1>1. /\ e \in Brackets
      /\ frame' = [frame EXCEPT ![top].brackets = b]
      /\ frame[top].kind = "code"
      /\ queueing_enabled' = queueing_enabled + 1
      /\ top' = top
  BY DEF Brackets, queue_signals, OpenBracket, Running
<1>2. /\ b \in Seq(Brackets)
      /\ BracketsOK(b)
      /\ LevelOf(b) = queueing_enabled + 1
  BY <1>1, OpenLemma
<1> HIDE DEF b
<1>3. /\ frame' \in [1 .. MaxDepth -> Frames]
      /\ frame'[top].brackets = b
      /\ frame'[top].kind = "code"
      /\ \A d \in 1 .. MaxDepth : d # top => frame'[d] = frame[d]
  BY <1>1, <1>2 DEF Frames
<1>4. TypeOK'
  BY <1>1, <1>3 DEF IInv, TypeOK, queue_signals, historyVars
<1> QED
  BY <1>1, <1>2, <1>3, <1>4, SameFrameStep

(* unqueue_signals closes the top bracket: the level goes back to the one  *)
(* it was opened at, and a drain loop starts if that is 0.                 *)
LEMMA UnqueueStep == IInv /\ unqueue_signals => IInv'
<1> SUFFICES ASSUME IInv, unqueue_signals PROVE IInv'
  OBVIOUS
<1> USE TopFrame
<1> DEFINE b == frame[top].brackets
           c == Pop(b)
           closed == [frame EXCEPT ![top].brackets = c]
<1>1. /\ c \in Seq(Brackets)
      /\ BracketsOK(c)
      /\ LevelOf(c) = b[Len(b)].level
      /\ b[Len(b)] \in Brackets
      /\ b[Len(b)].op = "queue"
      /\ frame[top].kind = "code"
      /\ b # <<>>
      /\ queueing_enabled' = queueing_enabled - 1
  BY CloseLemma DEF unqueue_signals, Running, TopBracket
<1>2. /\ queueing_enabled' = LevelOf(c)
      /\ queueing_enabled' \in Nat
  BY <1>1 DEF LevelOf, Brackets
<1>3. \/ queueing_enabled' # 0 /\ frame' = closed /\ top' = top
      \/ /\ queueing_enabled' = 0 /\ top' = top + 1 /\ top < MaxDepth
         /\ frame' = [closed EXCEPT ![top + 1] = DrainFrame]
  BY DEF unqueue_signals, StartDrain
<1> HIDE DEF c
<1>4. /\ closed[top].brackets = c
      /\ closed[top].kind = "code"
      /\ closed \in [1 .. MaxDepth -> Frames]
      /\ \A d \in 1 .. MaxDepth : d # top => closed[d] = frame[d]
  BY <1>1 DEF Frames
<1> HIDE DEF closed
<1>5. CASE queueing_enabled' # 0
  <2>1. frame' = closed /\ top' = top
    BY <1>3, <1>5
  <2>2. TypeOK'
    BY <1>2, <1>4, <2>1 DEF IInv, TypeOK, unqueue_signals, historyVars
  <2> QED
    BY <1>1, <1>2, <1>4, <2>1, <2>2, SameFrameStep
<1>6. CASE queueing_enabled' = 0
  <2>1. frame' = [closed EXCEPT ![top + 1] = DrainFrame] /\ top' = top + 1 /\ top < MaxDepth
    BY <1>3, <1>6
  <2>2. /\ frame' \in [1 .. MaxDepth -> Frames]
        /\ frame'[top] = closed[top]
        /\ frame'[top + 1] = DrainFrame
        /\ \A d \in 1 .. MaxDepth : d \notin {top, top + 1} => frame'[d] = frame[d]
    BY <1>4, <2>1, NewFrames
  <2>3. TypeOK'
    BY <1>2, <2>1, <2>2 DEF IInv, TypeOK, unqueue_signals, historyVars
  <2> QED
    BY <1>1, <1>2, <1>4, <1>6, <2>1, <2>2, <2>3, NewFrames, PushStep
<1> QED BY <1>5, <1>6

(* dont_queue_signals opens a bracket that asks for level 0 and starts a   *)
(* drain loop.                                                             *)
LEMMA DontQueueStep == IInv /\ dont_queue_signals => IInv'
<1> SUFFICES ASSUME IInv, dont_queue_signals PROVE IInv'
  OBVIOUS
<1> USE TopFrame
<1> DEFINE e == [op |-> "dont_queue", level |-> queueing_enabled]
           b == Append(frame[top].brackets, e)
           opened == [frame EXCEPT ![top].brackets = b]
<1>1. /\ e \in Brackets
      /\ frame' = [opened EXCEPT ![top + 1] = DrainFrame]
      /\ frame[top].kind = "code"
      /\ queueing_enabled' = 0
      /\ top' = top + 1
      /\ top < MaxDepth
  BY DEF Brackets, dont_queue_signals, OpenBracket, Running, StartDrain
<1>2. /\ b \in Seq(Brackets)
      /\ BracketsOK(b)
      /\ LevelOf(b) = 0
  BY <1>1, OpenLemma
<1> HIDE DEF b
<1>3. /\ opened[top].brackets = b
      /\ opened[top].kind = "code"
      /\ opened \in [1 .. MaxDepth -> Frames]
      /\ \A d \in 1 .. MaxDepth : d # top => opened[d] = frame[d]
  BY <1>1, <1>2 DEF Frames
<1> HIDE DEF opened
<1>4. /\ frame' \in [1 .. MaxDepth -> Frames]
      /\ frame'[top] = opened[top]
      /\ frame'[top + 1] = DrainFrame
      /\ \A d \in 1 .. MaxDepth : d \notin {top, top + 1} => frame'[d] = frame[d]
  BY <1>1, <1>3, NewFrames
<1>5. TypeOK'
  BY <1>1, <1>4 DEF IInv, TypeOK, dont_queue_signals, historyVars
<1> QED
  BY <1>1, <1>2, <1>3, <1>4, <1>5, NewFrames, PushStep

(* restore_queue_signals puts the level of its bracket back.               *)
LEMMA RestoreStep == IInv /\ restore_queue_signals => IInv'
<1> SUFFICES ASSUME IInv, restore_queue_signals PROVE IInv'
  OBVIOUS
<1> USE TopFrame
<1> DEFINE b == frame[top].brackets
           c == Pop(b)
<1>1. /\ c \in Seq(Brackets)
      /\ BracketsOK(c)
      /\ queueing_enabled' = LevelOf(c)
      /\ queueing_enabled' \in Nat
      /\ frame[top].kind = "code"
      /\ frame' = [frame EXCEPT ![top].brackets = c]
      /\ top' = top
  BY CloseLemma DEF restore_queue_signals, Running, TopBracket, Brackets
<1> HIDE DEF c
<1>2. /\ frame'[top].brackets = c
      /\ frame'[top].kind = "code"
      /\ frame' \in [1 .. MaxDepth -> Frames]
      /\ \A d \in 1 .. MaxDepth : d # top => frame'[d] = frame[d]
  BY <1>1 DEF Frames
<1>3. TypeOK'
  BY <1>1, <1>2 DEF IInv, TypeOK, restore_queue_signals, historyVars
<1> QED
  BY <1>1, <1>2, <1>3, SameFrameStep

(* Blocking and unblocking a signal leave the brackets alone.              *)
LEMMA MaskStep ==
    ASSUME NEW s \in Sigs, IInv, signal_block(s) \/ signal_unblock(s)
    PROVE  IInv'
<1>1. TypeOK'
  BY DEF IInv, TypeOK, queueVars, historyVars, signal_block, signal_unblock
<1> QED
  BY <1>1 DEF IInv, StackOK, LevelBalanced, CriticalSectionsRunAlone,
     queueVars, signal_block, signal_unblock

(* A signal that is saved changes the ring and nothing on the stack; the   *)
(* index of the entry saved last stays a natural number.                   *)
LEMMA SaveStep == ASSUME NEW s \in Sigs, IInv, zhandler_queue(s) PROVE IInv'
<1> USE TopFrame
<1>1. /\ Len(caught) + 1 \in 0 .. MaxCaught
      /\ Append(caught, s) \in Seq(Sigs)
      /\ Len(Append(caught, s)) <= MaxCaught
  BY BoundsAssumption DEF IInv, TypeOK, zhandler_queue, Interruptible
<1>2. /\ queue_rear' \in Nat
      /\ signal_queue' \in [Slots -> 0 .. MaxCaught]
      /\ signal_mask_queue' \in [Slots -> SUBSET Sigs]
  <2> DEFINE r == (queue_rear + 1) % QSize
  <2>1. r \in Slots /\ queue_rear \in Nat /\ r \in Nat
    <3>1. queue_rear \in Nat
      BY DEF IInv, TypeOK, Slots
    <3>2. QSize \in Nat \ {0}
      BY BoundsAssumption
    <3>3. r \in 0 .. (QSize - 1)
      BY <3>1, <3>2, SMTT(30)
    <3> QED
      BY <3>1, <3>2, <3>3 DEF Slots
  <2>2. mask \cup {s} \in SUBSET Sigs
    BY DEF IInv, TypeOK
  <2> HIDE DEF r
  <2>3. \/ /\ queue_rear' = r
           /\ signal_queue' = [signal_queue EXCEPT ![r] = Len(caught) + 1]
           /\ signal_mask_queue' = [signal_mask_queue EXCEPT ![r] = mask \cup {s}]
        \/ /\ queue_rear' = queue_rear + 1
           /\ UNCHANGED <<signal_queue, signal_mask_queue>>
    BY DEF zhandler_queue, SaveSignal, r
  <2>4. /\ signal_queue \in [Slots -> 0 .. MaxCaught]
        /\ signal_mask_queue \in [Slots -> SUBSET Sigs]
    BY DEF IInv, TypeOK
  <2>5. /\ [signal_queue EXCEPT ![r] = Len(caught) + 1] \in [Slots -> 0 .. MaxCaught]
        /\ [signal_mask_queue EXCEPT ![r] = mask \cup {s}] \in [Slots -> SUBSET Sigs]
    BY <1>1, <2>1, <2>2, <2>4, Update
  <2> QED BY <2>1, <2>3, <2>4, <2>5
<1>3. TypeOK'
  BY <1>1, <1>2 DEF IInv, TypeOK, zhandler_queue
<1> QED
  BY <1>3 DEF IInv, StackOK, LevelBalanced, CriticalSectionsRunAlone, zhandler_queue

(* The body of zhandler() starts only at level 0: no frame below is in a   *)
(* critical section, and it begins at that level itself.                   *)
LEMMA HandleStep == ASSUME NEW s \in Sigs, IInv, zhandler_now(s) PROVE IInv'
<1> USE TopFrame
<1>1. /\ Len(caught) + 1 \in 0 .. MaxCaught
      /\ Append(caught, s) \in Seq(Sigs)
      /\ Len(Append(caught, s)) <= MaxCaught
  BY BoundsAssumption DEF IInv, TypeOK, zhandler_now, Interruptible
<1>2. /\ frame' = [frame EXCEPT ![top + 1] = CodeFrame(mask)]
      /\ top < MaxDepth /\ top' = top + 1
      /\ CodeFrame(mask) \in Frames
      /\ CodeFrame(mask).brackets = <<>>
      /\ queueing_enabled = 0 /\ queueing_enabled' = 0
  BY NewFrames DEF IInv, TypeOK, zhandler_now, queueVars
<1>3. /\ frame'[top] = frame[top]
      /\ frame'[top + 1] = CodeFrame(mask)
      /\ frame' \in [1 .. MaxDepth -> Frames]
      /\ \A d \in 1 .. MaxDepth : d \notin {top, top + 1} => frame'[d] = frame[d]
  BY <1>2
<1>4. runs' \in [0 .. MaxCaught -> Nat]
  <2> DEFINE n == Len(caught) + 1
  <2>1. n \in 0 .. MaxCaught /\ runs \in [0 .. MaxCaught -> Nat]
    BY <1>1 DEF IInv, TypeOK
  <2>2. runs' = [runs EXCEPT ![n] = runs[n] + 1]
    BY DEF zhandler_now
  <2> HIDE DEF n
  <2> QED BY <2>1, <2>2, Update
<1>5. TypeOK'
  BY <1>1, <1>2, <1>3, <1>4 DEF IInv, TypeOK, zhandler_now, queueVars
<1> QED
  BY <1>2, <1>3, <1>5, PushStep

(* The body of zhandler() returns, its brackets closed, to a frame whose   *)
(* level is 0.                                                             *)
LEMMA ReturnStep == IInv /\ HandlerReturn => IInv'
<1> SUFFICES ASSUME IInv, HandlerReturn PROVE IInv'
  OBVIOUS
<1> USE TopFrame
<1>0. frame' \in [1 .. MaxDepth -> Frames] /\ top' \in 1 .. MaxDepth
  BY NewFrames, Update DEF HandlerReturn, PopFrame
<1>1. TypeOK'
  BY <1>0 DEF IInv, TypeOK, Frames, HandlerReturn, queueVars, historyVars
<1>2. queueing_enabled = 0
  BY NewFrames DEF HandlerReturn
<1> QED BY <1>1, <1>2, PopStep DEF HandlerReturn, queueVars

(* A drain loop runs at level 0, above some code.                          *)
LEMMA DrainLevel ==
    ASSUME IInv, NEW step, DrainAt(step)
    PROVE  /\ queueing_enabled = 0
           /\ frame[top].brackets = <<>>
           /\ frame[top].kind = "drain"
           /\ top > 1
<1> QED BY TopFrame, NewFrames DEF DrainAt

(* A drain loop is left at level 0, for a frame whose level is 0.          *)
LEMMA DrainDoneStep == IInv /\ DrainDone => IInv'
<1> SUFFICES ASSUME IInv, DrainDone PROVE IInv'
  OBVIOUS
<1> USE TopFrame
<1>0. frame' \in [1 .. MaxDepth -> Frames] /\ top' \in 1 .. MaxDepth
  BY DrainLevel, NewFrames, Update DEF DrainDone, PopFrame
<1>1. TypeOK'
  BY <1>0 DEF IInv, TypeOK, DrainDone, queueVars, historyVars
<1> QED BY <1>1, DrainLevel, PopStep DEF DrainDone, queueVars

(* A step of a drain loop that stays in its frame.                         *)
LEMMA DrainInside ==
    ASSUME IInv, NEW step, DrainAt(step), TypeOK', top' = top,
           queueing_enabled' = queueing_enabled,
           NEW f \in Frames, f.kind = "drain", f.brackets = <<>>,
           frame' = [frame EXCEPT ![top] = f]
    PROVE  IInv'
<1>1. /\ frame'[top] = f
      /\ \A d \in 1 .. MaxDepth : d # top => frame'[d] = frame[d]
  BY TopFrame
<1> QED BY <1>1, TopFrame, DrainLevel, NewFrames, SameFrameStep

(* Reading the index changes only the step of the loop.                    *)
LEMMA DrainLoadStep == IInv /\ DrainLoad => IInv'
<1> SUFFICES ASSUME IInv, DrainLoad PROVE IInv'
  OBVIOUS
<1> USE TopFrame
<1> DEFINE f == [frame[top] EXCEPT !.step = "loaded", !.loaded = queue_front]
<1>1. f \in Frames /\ f.kind = "drain" /\ f.brackets = <<>>
  BY DrainLevel DEF IInv, TypeOK, Frames, Steps, DrainLoad
<1>2. frame' = [frame EXCEPT ![top] = f]
  BY DEF DrainLoad
<1> HIDE DEF f
<1>3. TypeOK'
  BY <1>1, <1>2 DEF IInv, TypeOK, DrainLoad, queueVars, historyVars
<1> QED BY <1>1, <1>2, <1>3, DrainInside DEF DrainLoad, queueVars

(* The index that is stored has been reduced modulo the size of the ring.  *)
LEMMA DrainStoreStep == IInv /\ DrainStore => IInv'
<1> SUFFICES ASSUME IInv, DrainStore PROVE IInv'
  OBVIOUS
<1> USE TopFrame
<1> DEFINE f == [frame[top] EXCEPT !.step = "stored", !.loaded = 0]
<1>1. f \in Frames /\ f.kind = "drain" /\ f.brackets = <<>>
  <2>1. 0 \in Slots /\ "stored" \in Steps
    BY DEF Slots, Steps
  <2> QED BY <2>1, DrainLevel DEF Frames, DrainStore
<1>2. frame' = [frame EXCEPT ![top] = f]
  BY DEF DrainStore
<1>3. queue_front' \in Slots
  <2>1. frame[top].loaded \in Slots
    BY DEF Frames
  <2> QED BY <2>1 DEF DrainStore, Slots
<1> HIDE DEF f
<1>4. TypeOK'
  BY <1>1, <1>2, <1>3 DEF IInv, TypeOK, DrainStore, historyVars
<1> QED BY <1>1, <1>2, <1>4, DrainInside DEF DrainStore

(* Setting the mask changes only the step of the loop.                     *)
LEMMA DrainSetMaskStep == IInv /\ DrainSetMask => IInv'
<1> SUFFICES ASSUME IInv, DrainSetMask PROVE IInv'
  OBVIOUS
<1> USE TopFrame
<1> DEFINE f == [frame[top] EXCEPT !.step = "masked", !.oldmask = mask]
<1>1. f \in Frames /\ f.kind = "drain" /\ f.brackets = <<>>
  BY DrainLevel DEF IInv, TypeOK, Frames, Steps, DrainSetMask
<1>2. frame' = [frame EXCEPT ![top] = f]
  BY DEF DrainSetMask
<1> HIDE DEF f
<1>3. TypeOK'
  BY <1>1, <1>2 DEF IInv, TypeOK, DrainSetMask, queueVars, historyVars
<1> QED BY <1>1, <1>2, <1>3, DrainInside DEF DrainSetMask, queueVars

(* Putting the mask back changes only the step of the loop.                *)
LEMMA DrainNextStep == IInv /\ DrainNext => IInv'
<1> SUFFICES ASSUME IInv, DrainNext PROVE IInv'
  OBVIOUS
<1> USE TopFrame
<1> DEFINE f == [frame[top] EXCEPT !.step = "loop", !.oldmask = {}]
<1>1. f \in Frames /\ f.kind = "drain" /\ f.brackets = <<>>
  BY DrainLevel DEF Frames, Steps, DrainNext
<1>2. frame' = [frame EXCEPT ![top] = f]
  BY DEF DrainNext
<1>3. mask' \in SUBSET Sigs
  BY DEF DrainNext, Frames
<1> HIDE DEF f
<1>4. TypeOK'
  BY <1>1, <1>2, <1>3 DEF IInv, TypeOK, DrainNext, queueVars, historyVars
<1> QED BY <1>1, <1>2, <1>4, DrainInside DEF DrainNext, queueVars

(* The handler that a drain loop calls starts at level 0.                  *)
LEMMA DrainCallStep == IInv /\ DrainCall => IInv'
<1> SUFFICES ASSUME IInv, DrainCall PROVE IInv'
  OBVIOUS
<1> USE TopFrame
<1> DEFINE f == [frame[top] EXCEPT !.step = "called"]
           g == CodeFrame(mask)
<1>1. /\ f \in Frames /\ f.kind = "drain" /\ f.brackets = <<>>
      /\ g \in Frames /\ g.brackets = <<>>
      /\ queueing_enabled = 0 /\ queueing_enabled' = 0
      /\ top < MaxDepth /\ top' = top + 1
  BY DrainLevel, NewFrames DEF IInv, TypeOK, Frames, Steps, DrainCall, queueVars
<1>2. frame' = [frame EXCEPT ![top] = f, ![top + 1] = g]
  BY DEF DrainCall
<1>3. runs' \in [0 .. MaxCaught -> Nat]
  <2> DEFINE n == signal_queue[queue_front]
  <2>1. n \in 0 .. MaxCaught /\ runs \in [0 .. MaxCaught -> Nat]
    BY DEF IInv, TypeOK
  <2>2. runs' = [runs EXCEPT ![n] = runs[n] + 1]
    BY DEF DrainCall
  <2> HIDE DEF n
  <2> QED BY <2>1, <2>2, Update
<1> HIDE DEF f, g
<1>4. /\ frame'[top] = f
      /\ frame'[top + 1] = g
      /\ frame' \in [1 .. MaxDepth -> Frames]
      /\ \A d \in 1 .. MaxDepth : d \notin {top, top + 1} => frame'[d] = frame[d]
  BY <1>1, <1>2
<1>5. TypeOK'
  <2>1. top' \in 1 .. MaxDepth
    BY <1>1
  <2> QED BY <1>3, <1>4, <2>1 DEF IInv, TypeOK, DrainCall, queueVars
<1> QED
  BY <1>1, <1>4, <1>5, DrainLevel, NewFrames, PushStep DEF DrainCall

-----------------------------------------------------------------------------
(* Every step of the specification keeps the inductive invariant.          *)
LEMMA NextIInv == IInv /\ [Next]_vars => IInv'
<1> SUFFICES ASSUME IInv, [Next]_vars PROVE IInv'
  OBVIOUS
<1>1. CASE CodeStep
  BY <1>1, QueueStep, UnqueueStep, DontQueueStep, RestoreStep, MaskStep DEF CodeStep
<1>2. CASE DrainStep
  BY <1>2, DrainDoneStep, DrainLoadStep, DrainStoreStep, DrainSetMaskStep,
     DrainCallStep, DrainNextStep DEF DrainStep
<1>3. CASE HandlerReturn
  BY <1>3, ReturnStep
<1>4. CASE KernelStep
  BY <1>4, SaveStep, HandleStep DEF KernelStep
<1>5. CASE UNCHANGED vars
  BY <1>5 DEF IInv, TypeOK, StackOK, LevelBalanced, CriticalSectionsRunAlone,
     vars, queueVars, historyVars
<1> QED BY <1>1, <1>2, <1>3, <1>4, <1>5 DEF Next

(* The inductive invariant holds in every reachable state of the shell's   *)
(* signal queue.                                                           *)
THEOREM Invariance == Spec => []IInv
<1> QED BY InitIInv, NextIInv, PTL DEF Spec

(* The ring indices and the stack of frames are well formed: queue_front   *)
(* stays inside the ring even in the window between its load and store.    *)
THEOREM TypeCorrect == Spec => []TypeOK
<1>1. IInv => TypeOK
  BY DEF IInv
<1> QED BY <1>1, Invariance, PTL

(* queueing_enabled is what the open brackets of the executing code ask    *)
(* for: handlers and drain loops in between leave it as they found it.     *)
THEOREM CounterCorrect == Spec => []LevelBalanced
<1>1. IInv => LevelBalanced
  BY DEF IInv
<1> QED BY <1>1, Invariance, PTL

(* A critical section is never interrupted by the body of zhandler().      *)
THEOREM MutualExclusion == Spec => []CriticalSectionsRunAlone
<1>1. IInv => CriticalSectionsRunAlone
  BY DEF IInv
<1> QED BY <1>1, Invariance, PTL

-----------------------------------------------------------------------------
(* The ring of saved signals.                                              *)

(* The hazards of zhandler() and run_queued_signals() that are excluded.   *)
Undisturbed == ~Overflow /\ ~DequeueWindow

(* An entry is taken out of the ring without interruption: only the frame  *)
(* on top can be in the middle of it.                                      *)
DequeueOK ==
    /\ \A d \in 1 .. MaxDepth :
          frame[d].step \in {"loaded", "stored", "masked"} =>
              d = top /\ frame[d].kind = "drain"
    /\ frame[top].step = "loaded" =>
          frame[top].loaded = queue_front /\ queue_front # queue_rear

(* The ring as a sequence: Entry(1), Entry(2), ... wait, and Entry(0) has  *)
(* been taken out of the ring and not been handled yet.                    *)
Count == (queue_rear - queue_front) % QSize
First == IF frame[top].step \in {"stored", "masked"} THEN 0 ELSE 1
Entry(k) == signal_queue[(queue_front + k) % QSize]
Pending == {Entry(k) : k \in First .. Count}

(* The entries are arrivals, the oldest first, and all others have been    *)
(* handled once.                                                           *)
RingOK ==
    /\ queue_rear \in Slots
    /\ \A k \in First .. Count : Entry(k) \in 1 .. Len(caught)
    /\ \A j, k \in First .. Count : j < k => Entry(j) < Entry(k)
    /\ \A n \in 1 .. MaxCaught :
          runs[n] = IF n \in Pending \/ n > Len(caught) THEN 0 ELSE 1

(* The inductive invariant.                                                *)
RInv == IInv /\ DequeueOK /\ RingOK

-----------------------------------------------------------------------------
(* The arithmetic of the ring: the number of entries from f to r.          *)
LEMMA Distance ==
    ASSUME NEW Q \in Nat \ {0}, NEW f \in 0 .. Q - 1, NEW r \in 0 .. Q - 1
    PROVE  /\ (r - f) % Q \in 0 .. Q - 1
           /\ (r - f) % Q = IF f <= r THEN r - f ELSE r - f + Q
<1>1. CASE f <= r
  BY <1>1
<1>2. CASE r < f
  BY <1>2
<1> QED BY <1>1, <1>2

(* What % does to an index that has run past the end of the ring once.     *)
LEMMA Place ==
    ASSUME NEW Q \in Nat \ {0}, NEW x \in Nat, x <= 2 * Q - 1
    PROVE  /\ x % Q \in 0 .. Q - 1
           /\ x % Q = IF x < Q THEN x ELSE x - Q
<1>1. CASE x < Q
  BY <1>1
<1>2. CASE Q <= x
  BY <1>2
<1> QED BY <1>1, <1>2

(* The entry r is as far from f as their distance says.                    *)
LEMMA Reach ==
    ASSUME NEW Q \in Nat \ {0}, NEW f \in 0 .. Q - 1, NEW r \in 0 .. Q - 1,
           NEW n, n = (r - f) % Q
    PROVE  (f + n) % Q = r
<1> DEFINE x == f + n
<1>1. n = IF f <= r THEN r - f ELSE r - f + Q
  BY Distance
<1>2. x \in Nat /\ x <= 2 * Q - 1 /\ x = IF f <= r THEN r ELSE r + Q
  BY <1>1
<1> HIDE DEF x
<1>3. x % Q = IF x < Q THEN x ELSE x - Q
  BY <1>2, Place
<1>4. x % Q = r
  BY <1>2, <1>3
<1> QED BY <1>4 DEF x

(* When the front moves on, every entry is one place nearer (the loop of   *)
(* run_queued_signals()).                                                  *)
LEMMA Advance ==
    ASSUME NEW Q \in Nat \ {0}, NEW f \in 0 .. Q - 1, NEW r \in 0 .. Q - 1, f # r,
           NEW g, g = (f + 1) % Q
    PROVE  /\ g \in 0 .. Q - 1
           /\ (r - g) % Q = ((r - f) % Q) - 1
           /\ (r - f) % Q \in 1 .. Q - 1
           /\ \A k \in 0 .. Q - 1 : (g + k) % Q = (f + (k + 1)) % Q
<1>1. g = IF f + 1 < Q THEN f + 1 ELSE 0
  <2> DEFINE x == f + 1
  <2>1. x \in Nat /\ x <= 2 * Q - 1
    OBVIOUS
  <2> HIDE DEF x
  <2>2. x % Q = IF x < Q THEN x ELSE x - Q
    BY <2>1, Place
  <2> QED BY <2>2 DEF x
<1>2. g \in 0 .. Q - 1
  BY <1>1
<1>3. (r - f) % Q = IF f <= r THEN r - f ELSE r - f + Q
  BY Distance
<1>4. (r - g) % Q = IF g <= r THEN r - g ELSE r - g + Q
  BY Distance, <1>2
<1>5. (r - g) % Q = ((r - f) % Q) - 1 /\ (r - f) % Q \in 1 .. Q - 1
  <2> DEFINE a == (r - g) % Q
             b == (r - f) % Q
  <2>1. a = IF g <= r THEN r - g ELSE r - g + Q
    BY <1>4
  <2>2. b = IF f <= r THEN r - f ELSE r - f + Q
    BY <1>3
  <2> HIDE DEF a, b
  <2>3. a = b - 1 /\ b \in 1 .. Q - 1
    BY <1>1, <1>2, <2>1, <2>2
  <2> QED BY <2>3 DEF a, b
<1>6. ASSUME NEW k \in 0 .. Q - 1 PROVE (g + k) % Q = (f + (k + 1)) % Q
  <2> DEFINE a == (g + k) % Q
             b == (f + (k + 1)) % Q
             x == g + k
             y == f + (k + 1)
  <2>0. x \in Nat /\ x <= 2 * Q - 1 /\ y \in Nat /\ y <= 2 * Q - 1
    BY <1>2
  <2> HIDE DEF x, y
  <2>1. a = IF x < Q THEN x ELSE x - Q
    <3>1. x % Q = IF x < Q THEN x ELSE x - Q
      BY <2>0, Place
    <3> QED BY <3>1 DEF x
  <2>2. b = IF y < Q THEN y ELSE y - Q
    <3>1. y % Q = IF y < Q THEN y ELSE y - Q
      BY <2>0, Place
    <3> QED BY <3>1 DEF y
  <2> HIDE DEF a, b
  <2>3. a = b
    BY <1>1, <1>2, <2>1, <2>2 DEF x, y
  <2> QED BY <2>3 DEF a, b
<1> QED BY <1>2, <1>5, <1>6

(* When the rear moves on, it reaches a slot that is not among those on    *)
(* the way to it (zhandler()).                                             *)
LEMMA Extend ==
    ASSUME NEW Q \in Nat \ {0}, NEW f \in 0 .. Q - 1, NEW r \in 0 .. Q - 1,
           NEW g, g = (r + 1) % Q, g # f,
           NEW n, n = (r - f) % Q
    PROVE  /\ g \in 0 .. Q - 1
           /\ n \in 0 .. Q - 1
           /\ (g - f) % Q = n + 1
           /\ \A k \in 0 .. n : (f + k) % Q \in (0 .. Q - 1) \ {g}
<1>1. g = IF r + 1 < Q THEN r + 1 ELSE 0
  <2> DEFINE x == r + 1
  <2>1. x \in Nat /\ x <= 2 * Q - 1
    OBVIOUS
  <2> HIDE DEF x
  <2>2. x % Q = IF x < Q THEN x ELSE x - Q
    BY <2>1, Place
  <2> QED BY <2>2 DEF x
<1>2. g \in 0 .. Q - 1
  BY <1>1
<1> DEFINE a == (g - f) % Q
           b == (r - f) % Q
<1>3. a = IF f <= g THEN g - f ELSE g - f + Q
  BY <1>2, Distance
<1>4. b = IF f <= r THEN r - f ELSE r - f + Q
  BY Distance
<1> HIDE DEF a, b
<1>5. a = b + 1 /\ b \in 0 .. Q - 2
  BY <1>1, <1>2, <1>3, <1>4
<1>6. ASSUME NEW k \in 0 .. b PROVE (f + k) % Q \in (0 .. Q - 1) \ {g}
  <2> DEFINE c == (f + k) % Q
             x == f + k
  <2>1. x \in Nat /\ x <= 2 * Q - 1
    BY <1>5
  <2> HIDE DEF x
  <2>2. x % Q \in 0 .. Q - 1 /\ x % Q = IF x < Q THEN x ELSE x - Q
    BY <2>1, Place
  <2>3. c \in 0 .. Q - 1 /\ c = IF x < Q THEN x ELSE x - Q
    BY <2>2 DEF x
  <2> HIDE DEF c
  <2>4. c # g
    BY <1>1, <1>2, <1>4, <1>5, <2>3 DEF x
  <2> QED BY <2>3, <2>4 DEF c
<1> QED BY <1>2, <1>5, <1>6 DEF a, b

(* The indices of the ring, and the number of entries that wait.           *)
LEMMA Indices ==
    ASSUME RInv
    PROVE  /\ QSize \in Nat \ {0} /\ Slots = 0 .. QSize - 1
           /\ queue_front \in 0 .. QSize - 1 /\ queue_rear \in 0 .. QSize - 1
           /\ Count \in 0 .. QSize - 1
<1>1. /\ QSize \in Nat \ {0} /\ Slots = 0 .. QSize - 1
      /\ queue_front \in 0 .. QSize - 1 /\ queue_rear \in 0 .. QSize - 1
  BY QSizeAssumption DEF RInv, IInv, TypeOK, RingOK, Slots
<1> QED BY <1>1, Distance DEF Count

(* The steps in the middle of taking an entry out of the ring.             *)
Mid == {"loaded", "stored", "masked"}

(* A step of the stack that is not about the ring, taken while no entry is *)
(* being taken out of it.                                                  *)
LEMMA QuietStep ==
    ASSUME RInv, IInv', frame[top].step \notin Mid,
           UNCHANGED <<queue_front, queue_rear, signal_queue, historyVars>>,
           \A d \in 1 .. MaxDepth : frame'[d].step \in Mid => frame'[d].step = frame[d].step
    PROVE  RInv'
<1>1. \A d \in 1 .. MaxDepth : frame[d].step \notin Mid
  BY DEF RInv, DequeueOK, Mid
<1>2. top \in 1 .. MaxDepth /\ top' \in 1 .. MaxDepth
  BY DEF RInv, IInv, TypeOK
<1>3. DequeueOK'
  BY <1>1, <1>2 DEF DequeueOK, Mid
<1>4. First = 1 /\ First' = 1
  BY <1>1, <1>2 DEF First, Mid
<1>5. Count' = Count /\ Pending' = Pending
  BY <1>4 DEF Count, Pending, Entry
<1>6. RingOK'
  BY <1>4, <1>5 DEF RInv, RingOK, Entry, historyVars
<1> QED BY <1>3, <1>6 DEF RInv

(* Code is not taking an entry out of the ring, and the frames that are    *)
(* pushed begin outside of that.                                           *)
LEMMA OutsideDequeue ==
    ASSUME RInv
    PROVE  /\ Running => frame[top].step \notin Mid
           /\ queueing_enabled # 0 => Running
           /\ \A m : CodeFrame(m).step = "run"
           /\ DrainFrame.step = "loop"
<1>1. frame[top].kind \in {"code", "drain"}
  BY DEF RInv, IInv, TypeOK, Frames
<1>2. frame[top].kind = "drain" => queueing_enabled = 0
  BY DrainLevel DEF RInv, DrainAt
<1> QED BY <1>1, <1>2 DEF RInv, DequeueOK, IInv, TypeOK, Running, Mid, CodeFrame, DrainFrame

-----------------------------------------------------------------------------
(* One lemma for each action, or for those that are alike.                 *)

(* The main program and the handlers open and close brackets, block and    *)
(* unblock signals.                                                        *)
LEMMA CodeRing == RInv /\ CodeStep => RInv'
<1> SUFFICES ASSUME RInv, CodeStep PROVE RInv'
  OBVIOUS
<1>1. IInv' /\ IInv /\ top \in 1 .. MaxDepth /\ frame \in [1 .. MaxDepth -> Frames]
  BY NextIInv DEF RInv, IInv, TypeOK, Next
<1>2. Running /\ UNCHANGED <<queue_front, queue_rear, signal_queue, historyVars>>
  BY DEF CodeStep, queue_signals, unqueue_signals, dont_queue_signals, queueVars,
         restore_queue_signals, signal_block, signal_unblock
<1>3. \A d \in 1 .. MaxDepth : frame'[d].step \in Mid => frame'[d].step = frame[d].step
  <2> SUFFICES ASSUME NEW d \in 1 .. MaxDepth, frame'[d].step \in Mid
               PROVE  frame'[d].step = frame[d].step
    OBVIOUS
  <2>0. frame[d] \in Frames /\ DrainFrame.step \notin Mid
    BY <1>1 DEF DrainFrame, Mid
  <2>1. CASE queue_signals
    BY <1>1, <2>0, <2>1 DEF queue_signals, OpenBracket, Frames
  <2>2. CASE unqueue_signals
    BY <1>1, <2>0, <2>2, ZenonT(60) DEF unqueue_signals, StartDrain, Frames
  <2>3. CASE dont_queue_signals
    BY <1>1, <2>0, <2>3 DEF dont_queue_signals, OpenBracket, StartDrain, Frames
  <2>4. CASE restore_queue_signals
    BY <1>1, <2>0, <2>4 DEF restore_queue_signals, Frames
  <2>5. CASE \E s \in Sigs : signal_block(s) \/ signal_unblock(s)
    BY <2>5 DEF signal_block, signal_unblock
  <2> QED BY <2>1, <2>2, <2>3, <2>4, <2>5 DEF CodeStep
<1> QED BY <1>1, <1>2, <1>3, OutsideDequeue, QuietStep

(* The body of zhandler() returns.                                         *)
LEMMA ReturnRing == RInv /\ HandlerReturn => RInv'
<1> SUFFICES ASSUME RInv, HandlerReturn PROVE RInv'
  OBVIOUS
<1>1. IInv' /\ top \in 1 .. MaxDepth /\ frame \in [1 .. MaxDepth -> Frames]
  BY NextIInv DEF RInv, IInv, TypeOK, Next
<1>2. Running /\ UNCHANGED <<queue_front, queue_rear, signal_queue, historyVars>>
  BY DEF HandlerReturn, queueVars
<1>3. \A d \in 1 .. MaxDepth : frame'[d].step \in Mid => frame'[d].step = frame[d].step
  BY <1>1 DEF HandlerReturn, PopFrame, CodeFrame, Mid
<1> QED BY <1>1, <1>2, <1>3, OutsideDequeue, QuietStep

(* A drain loop ends, or comes back from the handler.                      *)
LEMMA LoopRing == RInv /\ (DrainDone \/ DrainNext) => RInv'
<1> SUFFICES ASSUME RInv, DrainDone \/ DrainNext PROVE RInv'
  OBVIOUS
<1>1. IInv' /\ top \in 1 .. MaxDepth /\ frame \in [1 .. MaxDepth -> Frames]
  BY NextIInv DEF RInv, IInv, TypeOK, Next, DrainStep
<1>2. /\ frame[top].step \notin Mid
      /\ UNCHANGED <<queue_front, queue_rear, signal_queue, historyVars>>
  BY DEF DrainDone, DrainNext, DrainAt, Mid, queueVars
<1>3. \A d \in 1 .. MaxDepth : frame'[d].step \in Mid => frame'[d].step = frame[d].step
  <2>1. CASE DrainDone
    BY <1>1, <2>1 DEF DrainDone, PopFrame, CodeFrame, Mid
  <2>2. CASE DrainNext
    <3>1. frame'[top].step = "loop" /\ \A d \in 1 .. MaxDepth : d # top => frame'[d] = frame[d]
      BY <1>1, <2>2 DEF DrainNext, Frames
    <3> QED BY <3>1 DEF Mid
  <2> QED BY <2>1, <2>2
<1> QED BY <1>1, <1>2, <1>3, QuietStep

(* The loop reads the index, with an entry in the ring.                    *)
LEMMA LoadRing == RInv /\ DrainLoad => RInv'
<1> SUFFICES ASSUME RInv, DrainLoad PROVE RInv'
  OBVIOUS
<1>1. IInv' /\ top \in 1 .. MaxDepth /\ frame \in [1 .. MaxDepth -> Frames]
  BY NextIInv DEF RInv, IInv, TypeOK, Next, DrainStep
<1>2. UNCHANGED <<queue_front, queue_rear, signal_queue, historyVars, top>>
  BY DEF DrainLoad, queueVars
<1>3. /\ frame'[top].step = "loaded" /\ frame'[top].loaded = queue_front
      /\ frame'[top].kind = frame[top].kind
      /\ \A d \in 1 .. MaxDepth : d # top => frame'[d] = frame[d]
  BY <1>1 DEF DrainLoad, Frames
<1>4. DequeueOK'
  BY <1>1, <1>2, <1>3 DEF DrainLoad, DrainAt, RInv, DequeueOK
<1>5. First = 1 /\ First' = 1
  BY <1>2, <1>3 DEF First, DrainLoad, DrainAt
<1>6. Count' = Count /\ Pending' = Pending
  BY <1>2, <1>5 DEF Count, Pending, Entry
<1>7. RingOK'
  BY <1>2, <1>5, <1>6 DEF RInv, RingOK, Entry, historyVars
<1> QED BY <1>1, <1>4, <1>7 DEF RInv

(* The mask is set for the entry taken out.                                *)
LEMMA SetMaskRing == RInv /\ DrainSetMask => RInv'
<1> SUFFICES ASSUME RInv, DrainSetMask PROVE RInv'
  OBVIOUS
<1>1. IInv' /\ top \in 1 .. MaxDepth /\ frame \in [1 .. MaxDepth -> Frames]
  BY NextIInv DEF RInv, IInv, TypeOK, Next, DrainStep
<1>2. UNCHANGED <<queue_front, queue_rear, signal_queue, historyVars, top>>
  BY DEF DrainSetMask, queueVars
<1>3. /\ frame'[top].step = "masked"
      /\ frame'[top].kind = frame[top].kind
      /\ \A d \in 1 .. MaxDepth : d # top => frame'[d] = frame[d]
  BY <1>1 DEF DrainSetMask, Frames
<1>4. DequeueOK'
  BY <1>1, <1>2, <1>3 DEF DrainSetMask, DrainAt, RInv, DequeueOK
<1>5. First = 0 /\ First' = 0
  BY <1>2, <1>3 DEF First, DrainSetMask, DrainAt
<1>6. Count' = Count /\ Pending' = Pending
  BY <1>2, <1>5 DEF Count, Pending, Entry
<1>7. RingOK'
  BY <1>2, <1>5, <1>6 DEF RInv, RingOK, Entry, historyVars
<1> QED BY <1>1, <1>4, <1>7 DEF RInv

(* The index moves on: the first entry that waits is the one taken out.    *)
LEMMA StoreRing == RInv /\ DrainStore => RInv'
<1> SUFFICES ASSUME RInv, DrainStore PROVE RInv'
  OBVIOUS
<1>1. IInv' /\ top \in 1 .. MaxDepth /\ frame \in [1 .. MaxDepth -> Frames]
  BY NextIInv DEF RInv, IInv, TypeOK, Next, DrainStep
<1>2. UNCHANGED <<queue_rear, signal_queue, historyVars, top>>
  BY DEF DrainStore
<1>3. /\ frame'[top].step = "stored"
      /\ frame'[top].kind = frame[top].kind
      /\ \A d \in 1 .. MaxDepth : d # top => frame'[d] = frame[d]
  BY <1>1 DEF DrainStore, Frames
<1>4. DequeueOK'
  BY <1>1, <1>2, <1>3 DEF DrainStore, DrainAt, RInv, DequeueOK
<1>5. First = 1 /\ First' = 0
  BY <1>2, <1>3 DEF First, DrainStore, DrainAt
<1>6. queue_front' = (queue_front + 1) % QSize /\ queue_front # queue_rear
  BY DEF DrainStore, DrainAt, RInv, DequeueOK
<1>7. Count' = Count - 1 /\ Count >= 1
  BY <1>2, <1>6, Indices, Advance, SMTT(30) DEF Count
<1>8. \A k \in 0 .. Count - 1 : Entry(k)' = Entry(k + 1)
  <2>1. \A k \in 0 .. QSize - 1 : (queue_front' + k) % QSize = (queue_front + (k + 1)) % QSize
    BY <1>6, Indices, Advance, SMTT(30)
  <2>2. \A k \in 0 .. Count - 1 : k \in 0 .. QSize - 1
    BY Indices
  <2> QED BY <1>2, <2>1, <2>2 DEF Entry
<1>9. Pending' = Pending
  <2>1. Pending' = {Entry(k)' : k \in 0 .. Count - 1}
    BY <1>5, <1>7 DEF Pending
  <2>2. Pending = {Entry(k) : k \in 1 .. Count}
    BY <1>5 DEF Pending
  <2>3. \A k \in 1 .. Count : k - 1 \in 0 .. Count - 1 /\ Entry(k - 1)' = Entry(k)
    BY <1>8, Indices
  <2>4. \A k \in 0 .. Count - 1 : k + 1 \in 1 .. Count
    BY Indices
  <2> QED BY <1>8, <2>1, <2>2, <2>3, <2>4
<1>10. RingOK'
  <2>1. \A k \in 0 .. Count' : k + 1 \in 1 .. Count /\ Entry(k)' = Entry(k + 1)
    BY <1>7, <1>8, Indices
  <2>2. \A k \in 0 .. Count' : Entry(k)' \in 1 .. Len(caught)
    BY <1>5, <2>1 DEF RInv, RingOK
  <2>3. \A j, k \in 0 .. Count' : j < k => Entry(j)' < Entry(k)'
    BY <1>5, <2>1 DEF RInv, RingOK
  <2> QED BY <1>2, <1>5, <1>9, <2>2, <2>3 DEF RInv, RingOK, historyVars
<1> QED BY <1>1, <1>4, <1>10 DEF RInv

(* The entry taken out is handled: it is not one of those that wait.       *)
LEMMA CallRing == RInv /\ DrainCall => RInv'
<1> SUFFICES ASSUME RInv, DrainCall PROVE RInv'
  OBVIOUS
<1>0. Len(caught) \in Nat /\ Len(caught) <= MaxCaught /\ MaxCaught \in Nat
  BY BoundsAssumption DEF RInv, IInv, TypeOK
<1>1. /\ IInv' /\ top \in 1 .. MaxDepth /\ frame \in [1 .. MaxDepth -> Frames]
      /\ runs \in [0 .. MaxCaught -> Nat]
  BY NextIInv DEF RInv, IInv, TypeOK, Next, DrainStep
<1>2. UNCHANGED <<queue_front, queue_rear, signal_queue, caught>> /\ top' = top + 1
  BY DEF DrainCall, queueVars
<1>3. /\ frame'[top].step = "called" /\ frame'[top + 1].step = "run"
      /\ \A d \in 1 .. MaxDepth : d \notin {top, top + 1} => frame'[d] = frame[d]
      /\ top + 1 \in 1 .. MaxDepth
  BY <1>1, BoundsAssumption DEF DrainCall, CodeFrame, Frames
<1>4. DequeueOK'
  BY <1>1, <1>2, <1>3 DEF RInv, DequeueOK
<1>5. First = 0 /\ First' = 1
  BY <1>2, <1>3 DEF First, DrainCall, DrainAt
<1>6. /\ Count' = Count /\ Count \in Nat
      /\ \A k : Entry(k)' = Entry(k)
      /\ Entry(0) = signal_queue[queue_front]
  BY <1>2, Indices DEF Count, Entry, Slots
<1>7. runs' = [runs EXCEPT ![Entry(0)] = @ + 1]
  BY <1>6 DEF DrainCall
<1>8. /\ Entry(0) \in 1 .. Len(caught) /\ Entry(0) \in Pending
      /\ \A k \in 1 .. Count : Entry(k) \in 1 .. Len(caught) /\ Entry(0) < Entry(k)
  BY <1>5, <1>6 DEF RInv, RingOK, Pending
<1>9. /\ \A n : n \in Pending' <=> n \in Pending /\ n # Entry(0)
  <2>1. Pending' = {Entry(k) : k \in 1 .. Count}
    BY <1>5, <1>6 DEF Pending
  <2>2. Pending = {Entry(k) : k \in 0 .. Count}
    BY <1>5 DEF Pending
  <2> QED BY <1>6, <1>8, <2>1, <2>2
<1>10. \A n \in 1 .. MaxCaught :
          runs'[n] = IF n \in Pending' \/ n > Len(caught) THEN 0 ELSE 1
  BY <1>0, <1>1, <1>7, <1>8, <1>9 DEF RInv, RingOK
<1>11. RingOK'
  BY <1>2, <1>5, <1>6, <1>10 DEF RInv, RingOK
<1> QED BY <1>1, <1>4, <1>11 DEF RInv

(* A signal is saved behind those that wait, in a slot that none of them   *)
(* uses (the ring is not full).                                            *)
LEMMA SaveRing ==
    ASSUME Undisturbed, RInv, NEW s \in Sigs, zhandler_queue(s)
    PROVE  RInv'
<1>0. Len(caught) \in Nat /\ Len(caught) + 1 <= MaxCaught /\ MaxCaught \in Nat
  BY BoundsAssumption DEF RInv, IInv, TypeOK, zhandler_queue, Interruptible
<1>1. /\ IInv' /\ top \in 1 .. MaxDepth
      /\ signal_queue \in [Slots -> 0 .. MaxCaught]
  BY NextIInv DEF RInv, IInv, TypeOK, Next, KernelStep
<1>2. /\ UNCHANGED <<queue_front, frame, top, runs>>
      /\ Len(caught') = Len(caught) + 1
  BY DEF zhandler_queue, RInv, IInv, TypeOK
<1>3. /\ queue_rear' = (queue_rear + 1) % QSize /\ queue_rear' # queue_front
      /\ signal_queue' = [signal_queue EXCEPT ![queue_rear'] = Len(caught) + 1]
  BY DEF Undisturbed, zhandler_queue, Interruptible, SaveSignal
<1>4. First = 1 /\ First' = 1 /\ frame[top].step \notin Mid
  BY <1>2, OutsideDequeue DEF zhandler_queue, First, Mid
<1>5. DequeueOK'
  BY <1>2, <1>4 DEF RInv, DequeueOK, Mid
<1>6. PICK c \in Nat : c = Count
  BY Indices
<1>7. /\ queue_rear' \in Slots
      /\ Count' = c + 1
      /\ (queue_front + (c + 1)) % QSize = queue_rear'
      /\ \A k \in 0 .. c : (queue_front + k) % QSize \in Slots \ {queue_rear'}
  <2>1. Count' = (queue_rear' - queue_front) % QSize
    BY <1>2 DEF Count
  <2>2. c = (queue_rear - queue_front) % QSize
    BY <1>6 DEF Count
  <2>3. queue_rear' \in 0 .. QSize - 1
    BY <1>3, <2>2, Indices, Extend
  <2>4. (queue_rear' - queue_front) % QSize = c + 1
    BY <1>3, <2>2, Indices, Extend
  <2>5. (queue_front + (c + 1)) % QSize = queue_rear'
    <3>1. PICK m \in Nat : m = c + 1
      OBVIOUS
    <3>2. (queue_front + m) % QSize = queue_rear'
      BY <2>3, <2>4, <3>1, Indices, Reach, SMTT(30)
    <3> QED BY <3>1, <3>2
  <2>6. \A k \in 0 .. c : (queue_front + k) % QSize \in (0 .. QSize - 1) \ {queue_rear'}
    BY <1>3, <2>2, Indices, Extend
  <2> QED BY <2>1, <2>3, <2>4, <2>5, <2>6, Indices
<1>8. /\ \A k \in 1 .. c : Entry(k)' = Entry(k)
      /\ Entry(c + 1)' = Len(caught) + 1
  <2>1. \A k \in 1 .. c : Entry(k)' = Entry(k)
    BY <1>1, <1>2, <1>3, <1>7 DEF Entry
  <2>2. Entry(c + 1)' = Len(caught) + 1
    BY <1>1, <1>2, <1>3, <1>7 DEF Entry
  <2> QED BY <2>1, <2>2
<1>9. \A k \in 1 .. c : Entry(k) \in 1 .. Len(caught)
  BY <1>4, <1>6 DEF RInv, RingOK
<1>10. \A k \in 1 .. c + 1 : k \in 1 .. c \/ k = c + 1
  OBVIOUS
<1>11. \A n : n \in Pending' <=> n \in Pending \/ n = Len(caught) + 1
  <2>1. Pending' = {Entry(k)' : k \in 1 .. c + 1}
    BY <1>4, <1>7 DEF Pending
  <2>2. Pending = {Entry(k) : k \in 1 .. c}
    BY <1>4, <1>6 DEF Pending
  <2>3. c + 1 \in 1 .. c + 1 /\ \A k \in 1 .. c : k \in 1 .. c + 1
    OBVIOUS
  <2> QED BY <1>8, <1>10, <2>1, <2>2, <2>3
<1>12. RingOK'
  <2>1. \A k \in 1 .. c + 1 : Entry(k)' \in 1 .. Len(caught')
    BY <1>0, <1>2, <1>8, <1>9, <1>10
  <2>2. \A j, k \in 1 .. c + 1 : j < k => Entry(j)' < Entry(k)'
    <3> SUFFICES ASSUME NEW j \in 1 .. c + 1, NEW k \in 1 .. c + 1, j < k
                 PROVE  Entry(j)' < Entry(k)'
      OBVIOUS
    <3>1. j \in 1 .. c
      OBVIOUS
    <3>2. CASE k \in 1 .. c
      BY <1>4, <1>6, <1>8, <3>1, <3>2 DEF RInv, RingOK
    <3>3. CASE k = c + 1
      BY <1>0, <1>8, <1>9, <3>1, <3>3
    <3> QED BY <1>10, <3>2, <3>3
  <2>3. \A n \in 1 .. MaxCaught :
          runs'[n] = IF n \in Pending' \/ n > Len(caught') THEN 0 ELSE 1
    <3>1. \A n \in 1 .. MaxCaught :
             n \in Pending' \/ n > Len(caught') <=> n \in Pending \/ n > Len(caught)
      BY <1>0, <1>2, <1>11
    <3> QED BY <1>2, <3>1 DEF RInv, RingOK
  <2> QED BY <1>4, <1>7, <2>1, <2>2, <2>3 DEF RingOK
<1> QED BY <1>1, <1>5, <1>12 DEF RInv

(* A signal that is handled at once does not enter the ring.               *)
LEMMA HandleRing ==
    ASSUME Undisturbed, RInv, NEW s \in Sigs, zhandler_now(s)
    PROVE  RInv'
<1>0. Len(caught) \in Nat /\ Len(caught) + 1 <= MaxCaught /\ MaxCaught \in Nat
  BY BoundsAssumption DEF RInv, IInv, TypeOK, zhandler_now, Interruptible
<1>1. /\ IInv' /\ top \in 1 .. MaxDepth /\ frame \in [1 .. MaxDepth -> Frames]
      /\ runs \in [0 .. MaxCaught -> Nat]
  BY NextIInv DEF RInv, IInv, TypeOK, Next, KernelStep
<1>2. /\ UNCHANGED <<queue_front, queue_rear, signal_queue>> /\ top' = top + 1
      /\ Len(caught') = Len(caught) + 1
  BY DEF zhandler_now, queueVars, RInv, IInv, TypeOK
<1>3. /\ frame'[top + 1].step = "run"
      /\ \A d \in 1 .. MaxDepth : d # top + 1 => frame'[d] = frame[d]
      /\ top + 1 \in 1 .. MaxDepth
      /\ frame[top].step \notin Mid
  BY <1>1, BoundsAssumption DEF zhandler_now, CodeFrame, Undisturbed, Interruptible, Mid
<1>4. DequeueOK'
  BY <1>1, <1>2, <1>3 DEF RInv, DequeueOK, Mid
<1>5. First = 1 /\ First' = 1
  BY <1>2, <1>3 DEF First, Mid
<1>6. Count' = Count /\ Pending' = Pending /\ \A k : Entry(k)' = Entry(k)
  BY <1>2, <1>5 DEF Count, Pending, Entry
<1>7. \A n \in Pending : n \in 1 .. Len(caught)
  BY DEF RInv, RingOK, Pending
<1>8. runs' = [runs EXCEPT ![Len(caught) + 1] = @ + 1]
  BY DEF zhandler_now
<1>9. \A n \in 1 .. MaxCaught :
         runs'[n] = IF n \in Pending' \/ n > Len(caught') THEN 0 ELSE 1
  BY <1>0, <1>1, <1>2, <1>6, <1>7, <1>8 DEF RInv, RingOK
<1>10. \A k \in 1 .. Count : Entry(k) \in 1 .. Len(caught')
  BY <1>0, <1>2, <1>5 DEF RInv, RingOK
<1>11. RingOK'
  BY <1>2, <1>5, <1>6, <1>9, <1>10 DEF RInv, RingOK
<1> QED BY <1>1, <1>4, <1>11 DEF RInv

-----------------------------------------------------------------------------
(* The ring starts empty.                                                  *)
LEMMA InitRing == Init => RInv
<1> SUFFICES ASSUME Init PROVE RInv
  OBVIOUS
<1>1. IInv
  BY InitIInv
<1>2. DequeueOK
  BY BoundsAssumption DEF Init, DequeueOK, CodeFrame
<1>3. First = 1
  BY BoundsAssumption DEF Init, First, CodeFrame
<1>4. Count = 0
  BY QSizeAssumption DEF Init, Count
<1>5. RingOK
  BY <1>3, <1>4, QSizeAssumption, BoundsAssumption DEF Init, RingOK, Slots
<1> QED BY <1>1, <1>2, <1>5 DEF RInv

(* Every step keeps the invariant of the ring.                             *)
LEMMA NextRing == ASSUME Undisturbed PROVE RInv /\ [Next]_vars => RInv'
<1> SUFFICES ASSUME RInv, [Next]_vars PROVE RInv'
  OBVIOUS
<1>1. CASE CodeStep
  BY <1>1, CodeRing
<1>2. CASE DrainStep
  BY <1>2, LoopRing, LoadRing, StoreRing, SetMaskRing, CallRing DEF DrainStep
<1>3. CASE HandlerReturn
  BY <1>3, ReturnRing
<1>4. CASE KernelStep
  BY <1>4, SaveRing, HandleRing DEF KernelStep
<1>5. CASE UNCHANGED vars
  <2>1. IInv'
    BY <1>5, NextIInv DEF RInv
  <2> QED BY <1>5, <2>1 DEF RInv, DequeueOK, RingOK, First, Count, Entry, Pending,
                            vars, queueVars, historyVars
<1> QED BY <1>1, <1>2, <1>3, <1>4, <1>5 DEF Next

(* What the sequence says about the sets that the properties speak of.     *)
LEMMA RingSets ==
    ASSUME RInv
    PROVE  /\ Waiting = {Entry(k) : k \in 1 .. Count}
           /\ Pending \subseteq Waiting \cup InFlight
<1>1. Waiting = {Entry(k) : k \in 1 .. Count}
  BY DEF RInv, RingOK, Waiting, Entry, Count
<1>2. ASSUME NEW n \in Pending PROVE n \in Waiting \cup InFlight
  <2>1. PICK k \in First .. Count : n = Entry(k)
    BY <1>2 DEF Pending
  <2>2. First = 0 => Entry(0) \in InFlight
    <3> SUFFICES ASSUME First = 0 PROVE Entry(0) \in InFlight
      OBVIOUS
    <3>1. frame[top].step \in {"stored", "masked"} /\ top \in {e \in 1 .. top : TRUE}
      BY DEF First, RInv, IInv, TypeOK
    <3>2. Entry(0) = signal_queue[queue_front]
      BY Indices DEF Entry
    <3> QED BY <3>1, <3>2 DEF InFlight
  <2>3. First \in {0, 1}
    BY DEF First
  <2>4. CASE k = 0
    BY <2>1, <2>2, <2>3, <2>4
  <2>5. CASE k # 0
    <3>1. k \in 1 .. Count
      BY <2>1, <2>3, <2>5, Indices
    <3> QED BY <1>1, <2>1, <3>1
  <2> QED BY <2>4, <2>5
<1> QED BY <1>1, <1>2

(* A signal is counted as handled again only by the call of the loop for   *)
(* the entry that it has taken out.                                        *)
LEMMA OldestFirst ==
    ASSUME Undisturbed, RInv, [Next]_vars, NEW n \in 1 .. Len(caught),
           runs'[n] # runs[n], NEW m \in Waiting'
    PROVE  m > n
<1>0. /\ Len(caught) \in Nat /\ Len(caught) <= MaxCaught /\ MaxCaught \in Nat
      /\ runs \in [0 .. MaxCaught -> Nat]
  BY BoundsAssumption DEF RInv, IInv, TypeOK
<1>1. ~\E s \in Sigs : zhandler_now(s)
  BY <1>0 DEF zhandler_now
<1>2. DrainCall
  BY <1>1 DEF Next, CodeStep, DrainStep, KernelStep, queue_signals, unqueue_signals,
              dont_queue_signals, restore_queue_signals, signal_block, signal_unblock,
              DrainDone, DrainLoad, DrainStore, DrainSetMask, DrainNext, HandlerReturn,
              zhandler_queue, vars, historyVars
<1>3. First = 0 /\ Waiting' = Waiting
  BY <1>2 DEF DrainCall, DrainAt, First, queueVars, Waiting
<1>4. n = Entry(0)
  <2>1. Entry(0) = signal_queue[queue_front]
    BY Indices DEF Entry
  <2> QED BY <1>0, <1>2, <2>1 DEF DrainCall
<1>5. PICK k \in 1 .. Count : m = Entry(k)
  BY <1>3, RingSets
<1>6. Entry(0) < Entry(k) /\ Entry(0) \in Nat /\ Entry(k) \in Nat
  BY <1>3, Indices DEF RInv, RingOK
<1> QED BY <1>4, <1>5, <1>6

(* Catching a signal leaves those that wait in their slots.                *)
LEMMA CaughtBehind ==
    ASSUME Undisturbed, RInv, [Next]_vars, caught' # caught
    PROVE  Waiting \subseteq Waiting'
<1>1. PICK s \in Sigs : zhandler_queue(s) \/ zhandler_now(s)
  BY DEF Next, CodeStep, DrainStep, KernelStep, queue_signals, unqueue_signals,
         dont_queue_signals, restore_queue_signals, signal_block, signal_unblock,
         DrainDone, DrainLoad, DrainStore, DrainSetMask, DrainCall, DrainNext,
         HandlerReturn, vars, historyVars
<1>2. CASE zhandler_now(s)
  BY <1>2 DEF zhandler_now, queueVars, Waiting
<1>3. CASE zhandler_queue(s)
  <2>1. RInv'
    BY <1>1, NextRing
  <2>2. UNCHANGED <<frame, top, runs>>
    BY <1>3 DEF zhandler_queue
  <2>3. First = 1 /\ First' = 1
    BY <1>3, <2>2, OutsideDequeue DEF zhandler_queue, First, Mid
  <2>4. Waiting = Pending /\ Waiting' = Pending'
    BY <2>1, <2>3 DEF Pending, Waiting, Entry, Count, RInv, RingOK
  <2>5. /\ Len(caught') = Len(caught) + 1 /\ Len(caught) \in Nat /\ Len(caught) + 1 <= MaxCaught
        /\ MaxCaught \in Nat
    BY <1>3, BoundsAssumption DEF zhandler_queue, Interruptible, RInv, IInv, TypeOK
  <2>6. ASSUME NEW n \in Pending PROVE n \in Pending'
    <3>1. n \in 1 .. Len(caught)
      BY DEF RInv, RingOK, Pending
    <3>2. n \in 1 .. MaxCaught /\ ~(n > Len(caught'))
      BY <2>5, <3>1
    <3>3. runs'[n] = 0
      BY <2>2, <3>2 DEF RInv, RingOK
    <3> QED BY <2>1, <3>2, <3>3 DEF RInv, RingOK
  <2> QED BY <2>4, <2>6
<1> QED BY <1>1, <1>2, <1>3

-----------------------------------------------------------------------------
(* The inductive invariant holds as long as no signal arrives while the    *)
(* ring is full nor while run_queued_signals() takes an entry out of it.   *)
THEOREM RingInvariance == ASSUME Undisturbed PROVE Spec => []RInv
<1> QED BY InitRing, NextRing, PTL DEF Spec

(* Every signal that zhandler() was called for has been handled, waits in  *)
(* the ring, or is on its way from there to the handler.                   *)
THEOREM NothingLost == ASSUME Undisturbed PROVE Spec => []NoSignalLost
<1>1. ASSUME RInv PROVE NoSignalLost
  <2> SUFFICES ASSUME NEW n \in 1 .. Len(caught)
               PROVE  runs[n] > 0 \/ n \in Waiting \cup InFlight
    BY DEF NoSignalLost
  <2>1. n \in 1 .. MaxCaught /\ ~(n > Len(caught))
    BY <1>1, BoundsAssumption DEF RInv, IInv, TypeOK
  <2>2. n \in Pending \/ runs[n] = 1
    BY <1>1, <2>1 DEF RInv, RingOK
  <2> QED BY <1>1, <2>2, RingSets
<1> QED BY <1>1, RingInvariance, PTL

(* No arrival is handled twice: an entry leaves the ring before its        *)
(* handler runs, however deeply the loop is interrupted and nested.        *)
THEOREM NothingTwice == ASSUME Undisturbed PROVE Spec => []HandledAtMostOnce
<1>1. ASSUME RInv PROVE HandledAtMostOnce
  <2> SUFFICES ASSUME NEW n \in 1 .. Len(caught) PROVE runs[n] <= 1
    BY DEF HandledAtMostOnce
  <2>1. n \in 1 .. MaxCaught
    BY <1>1, BoundsAssumption DEF RInv, IInv, TypeOK
  <2> QED BY <1>1, <2>1 DEF RInv, RingOK
<1> QED BY <1>1, RingInvariance, PTL

(* Signals that wait are handled in the order of their arrival.            *)
THEOREM FirstInFirstOut == ASSUME Undisturbed PROVE Spec => DrainIsFifo
<1>1. RInv /\ [Next]_vars =>
         [\A n \in 1 .. Len(caught) :
             runs'[n] # runs[n] => \A m \in Waiting' : m > n]_vars
  BY OldestFirst
<1> QED BY <1>1, RingInvariance, PTL DEF Spec, DrainIsFifo

(* Catching a signal never takes another one out of the ring: what         *)
(* zhandler() gets wrong when the ring is full it gets right otherwise.    *)
THEOREM QueueKept == ASSUME Undisturbed PROVE Spec => CatchingKeepsQueue
<1>1. RInv /\ [Next]_vars => [caught' # caught => Waiting \subseteq Waiting']_vars
  BY CaughtBehind
<1> QED BY <1>1, RingInvariance, PTL DEF Spec, CatchingKeepsQueue

=============================================================================
