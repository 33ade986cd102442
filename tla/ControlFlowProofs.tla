------------------------- MODULE ControlFlowProofs --------------------------
(***************************************************************************)
(* Proofs about ControlFlow, for any depth:                                *)
(* - TypesCorrect, with all combinations of Uses: the invariant IInv needs *)
(*   the depths, since `loops' is counted up at each loop and must not get *)
(*   past MaxDepth;                                                        *)
(* - JumpsInOrder, without those that break it (Orderly): the current      *)
(*   flags and those that each frame has put aside are the ones that a     *)
(*   pending jump explains (JInv);                                         *)
(* - LoopsCounted, which follows: `loops' is the number of loops in the    *)
(*   innermost sourced file and no jump is aimed further out than the      *)
(*   outermost of them;                                                    *)
(* - CompletionImplemented, without any of Uses (Untroubled): every step   *)
(*   is one of Completion, or none. The invariant RInv adds to JInv what   *)
(*   must hold of the flags put aside so that they say at the end of an    *)
(*   always list or a trap what Completion holds there.                    *)
(***************************************************************************)
EXTENDS ControlFlow, FiniteSetTheorems, SequenceTheorems, WellFoundedInduction, TLAPS

-----------------------------------------------------------------------------
(* How deep the loops are.                                                 *)

\* The loops among the first k constructs of q, in the innermost file there.
LoopSet(q, k) ==
    {i \in 1..k : /\ q[i].kind \in LoopKinds
                  /\ \A j \in 1..k : q[j].kind = "source" => j < i}
Depth(q, k) == Cardinality(LoopSet(q, k))

LEMMA LoopSetFinite ==
    ASSUME NEW q, NEW k \in Nat
    PROVE  IsFiniteSet(LoopSet(q, k)) /\ Depth(q, k) \in 0..k
<1>1. IsFiniteSet(1..k) /\ Cardinality(1..k) = k
  BY FS_Interval
<1>2. LoopSet(q, k) \in SUBSET (1..k)
  BY DEF LoopSet
<1>3. IsFiniteSet(LoopSet(q, k)) /\ Cardinality(LoopSet(q, k)) <= k
  BY <1>1, <1>2, FS_Subset
<1>4. Cardinality(LoopSet(q, k)) \in Nat
  BY <1>3, FS_CardinalityType
<1> QED
  BY <1>3, <1>4 DEF Depth

\* One construct more.
LEMMA DepthStep ==
    ASSUME NEW q, NEW k \in Nat, NEW n, n = k + 1
    PROVE  Depth(q, n) = IF q[n].kind \in LoopKinds THEN Depth(q, k) + 1
                         ELSE IF q[n].kind = "source" THEN 0 ELSE Depth(q, k)
<1>1. IsFiniteSet(LoopSet(q, k))
  BY LoopSetFinite
<1>2. CASE q[n].kind \in LoopKinds
  <2>1. q[n].kind # "source"
    BY <1>2 DEF LoopKinds
  <2>2. LoopSet(q, n) = LoopSet(q, k) \cup {n}
    BY <1>2, <2>1 DEF LoopSet
  <2>3. n \notin LoopSet(q, k)
    BY DEF LoopSet
  <2> QED
    BY <1>1, <1>2, <2>2, <2>3, FS_AddElement DEF Depth
<1>3. CASE q[n].kind = "source"
  <2>1. LoopSet(q, n) = {}
    BY <1>3 DEF LoopSet, LoopKinds
  <2> QED
    BY <1>3, <2>1, FS_EmptySet DEF Depth, LoopKinds
<1>4. CASE q[n].kind \notin LoopKinds /\ q[n].kind # "source"
  <2>1. LoopSet(q, n) = LoopSet(q, k)
    BY <1>4 DEF LoopSet
  <2> QED
    BY <1>4, <2>1 DEF Depth
<1> QED
  BY <1>2, <1>3, <1>4

LEMMA DepthEmpty == \A q : Depth(q, 0) = 0
<1>1. \A q : LoopSet(q, 0) = {}
  BY DEF LoopSet
<1> QED
  BY <1>1, FS_EmptySet DEF Depth

\* The depth depends on the kinds only.
LEMMA DepthSame ==
    ASSUME NEW p, NEW q, NEW k \in Nat, \A i \in 1..k : p[i].kind = q[i].kind
    PROVE  Depth(p, k) = Depth(q, k)
<1>1. LoopSet(p, k) = LoopSet(q, k)
  BY DEF LoopSet
<1> QED
  BY <1>1 DEF Depth

-----------------------------------------------------------------------------
(* The inductive invariant.                                                *)

\* What a construct has put aside fits the loops around it.
FrameOK(q, i) ==
    /\ q[i].kind \in {"function", "source"} => q[i].saved.loops = Depth(q, i - 1)
    /\ q[i].kind = "function" \/ Holds(q[i]) => q[i].saved.breaks <= Depth(q, i - 1)

StackOK(q, l) ==
    /\ q \in Seq(Frame) /\ Len(q) <= MaxDepth
    /\ l = Depth(q, Len(q))
    /\ \A i \in 1..Len(q) : FrameOK(q, i)

IInv ==
    /\ TypeOK
    /\ StackOK(stack, loops)
    /\ breaks <= loops

-----------------------------------------------------------------------------
(* Stacks that grow, shrink, and change at the top.                        *)

LEMMA StackBound ==
    ASSUME NEW q, NEW l, StackOK(q, l)
    PROVE  l \in 0..MaxDepth /\ Len(q) \in Nat /\ l \in 0..Len(q)
  BY LoopSetFinite, ControlFlowAssumption DEF StackOK

\* Opening a construct.
LEMMA Pushed ==
    ASSUME NEW q, NEW l, StackOK(q, l), Len(q) < MaxDepth,
           NEW f \in Frame, NEW n,
           f.kind \in {"function", "source"} => f.saved.loops = l,
           f.kind = "function" \/ Holds(f) => f.saved.breaks <= l,
           n = IF f.kind \in LoopKinds THEN l + 1
               ELSE IF f.kind = "source" THEN 0 ELSE l
    PROVE  StackOK(Append(q, f), n)
<1> DEFINE k == Len(q)
           p == Append(q, f)
           m == k + 1
<1>1. q \in Seq(Frame) /\ k \in Nat /\ k <= MaxDepth /\ l = Depth(q, k)
      /\ \A i \in 1..k : FrameOK(q, i)
  BY DEF StackOK
<1>2. MaxDepth \in Nat
  BY ControlFlowAssumption
<1> HIDE DEF p, k
<1>3. /\ p \in Seq(Frame) /\ Len(p) = m /\ p[m] = f
      /\ \A i \in 1..k : p[i] = q[i]
  BY <1>1, AppendProperties DEF p, k
<1>4. \A i \in 0..k : Depth(p, i) = Depth(q, i)
  BY <1>1, <1>3, DepthSame
<1>5. Depth(p, k) = l
  BY <1>1, <1>4
<1>6. m \in Nat /\ m - 1 = k
  BY <1>1
<1> HIDE DEF m
<1>7. Depth(p, m) = n
  BY <1>1, <1>3, <1>5, DepthStep DEF m
<1>8. ASSUME NEW i \in 1..m PROVE FrameOK(p, i)
  <2>1. CASE i = m
    BY <1>3, <1>5, <1>6, <2>1 DEF FrameOK
  <2>2. CASE i # m
    <3>1. i \in 1..k /\ i - 1 \in 0..k
      BY <1>1, <2>2 DEF m
    <3>2. p[i] = q[i] /\ FrameOK(q, i) /\ Depth(p, i - 1) = Depth(q, i - 1)
      BY <1>1, <1>3, <1>4, <3>1
    <3> QED
      BY <3>2 DEF FrameOK
  <2> QED
    BY <2>1, <2>2
<1>9. m <= MaxDepth
  BY <1>1, <1>2 DEF m, k
<1> QED
  BY <1>3, <1>7, <1>8, <1>9 DEF StackOK, p

\* Leaving the innermost construct.
LEMMA Popped ==
    ASSUME NEW q, NEW l, StackOK(q, l), q # <<>>, NEW n,
           n = IF q[Len(q)].kind \in LoopKinds THEN l - 1
               ELSE IF q[Len(q)].kind = "source" THEN q[Len(q)].saved.loops ELSE l
    PROVE  /\ StackOK(SubSeq(q, 1, Len(q) - 1), n)
           /\ n \in 0..MaxDepth
           /\ q[Len(q)] \in Frame
           /\ q[Len(q)].kind = "function" => q[Len(q)].saved.loops = n
           /\ q[Len(q)].kind = "function" \/ Holds(q[Len(q)])
                 => q[Len(q)].saved.breaks <= n
<1> DEFINE m == Len(q)
           k == m - 1
           p == SubSeq(q, 1, k)
           f == q[m]
<1>1. q \in Seq(Frame) /\ m \in Nat \ {0} /\ m <= MaxDepth /\ l = Depth(q, m)
      /\ \A i \in 1..m : FrameOK(q, i)
  BY DEF StackOK
<1>2. k \in Nat /\ m = k + 1 /\ f \in Frame
  BY <1>1
<1> HIDE DEF m
<1>3. \A i \in 1..k : q[i] \in Frame
  BY <1>1, <1>2 DEF m
<1> HIDE DEF k, p, f
<1>4. /\ p \in Seq(Frame) /\ Len(p) = k
      /\ \A i \in 1..k : p[i] = q[i]
  <2>1. /\ SubSeq(q, 1, k) \in Seq(Frame)
        /\ Len(SubSeq(q, 1, k)) = IF 1 <= k THEN k - 1 + 1 ELSE 0
        /\ \A i \in 1..(k - 1 + 1) : SubSeq(q, 1, k)[i] = q[1 + i - 1]
    BY <1>2, <1>3, SubSeqProperties
  <2> QED
    BY <1>2, <2>1 DEF p
<1>5. \A i \in 0..k : Depth(p, i) = Depth(q, i)
  BY <1>2, <1>4, DepthSame
<1>6. Depth(q, k) \in Nat
  BY <1>2, LoopSetFinite
<1>7. FrameOK(q, m)
  BY <1>1, <1>2
<1>8. n = Depth(q, k)
  <2>1. Depth(q, m) = IF f.kind \in LoopKinds THEN Depth(q, k) + 1
                      ELSE IF f.kind = "source" THEN 0 ELSE Depth(q, k)
    BY <1>2, DepthStep DEF f
  <2>2. f.kind = "source" => f.saved.loops = Depth(q, k)
    <3>1. m - 1 = k
      BY <1>2
    <3> QED
      BY <1>7, <3>1 DEF FrameOK, f
  <2> QED
    BY <1>1, <1>6, <2>1, <2>2 DEF f, m
<1>9. ASSUME NEW i \in 1..k PROVE FrameOK(p, i)
  <2>1. i - 1 \in 0..k /\ i \in 1..m
    BY <1>2
  <2>2. p[i] = q[i] /\ FrameOK(q, i) /\ Depth(p, i - 1) = Depth(q, i - 1)
    BY <1>1, <1>4, <1>5, <2>1
  <2> QED
    BY <2>2 DEF FrameOK
<1>10. StackOK(p, n)
  BY <1>1, <1>2, <1>4, <1>5, <1>8, <1>9, ControlFlowAssumption DEF StackOK
<1>11. /\ f.kind = "function" => f.saved.loops = n
       /\ f.kind = "function" \/ Holds(f) => f.saved.breaks <= n
  <2>1. m - 1 = k
    BY <1>2
  <2> QED
    BY <1>7, <1>8, <2>1 DEF FrameOK, f
<1>12. n \in 0..MaxDepth
  BY <1>10, StackBound
<1> QED
  BY <1>2, <1>10, <1>11, <1>12 DEF p, k, m, f

\* A construct goes on to another of its lists.
LEMMA Moved ==
    ASSUME NEW q, NEW l, StackOK(q, l), NEW i \in 1..Len(q),
           NEW f \in Frame, f.kind = q[i].kind,
           f.kind \in {"function", "source"} => f.saved.loops = q[i].saved.loops,
           f.kind = "function" \/ Holds(f) =>
               \/ f.saved.breaks = q[i].saved.breaks /\ (f.kind = "function" \/ Holds(q[i]))
               \/ i = Len(q) /\ f.kind \notin LoopKinds \cup {"source"}
                     /\ f.saved.breaks <= l
    PROVE  StackOK([q EXCEPT ![i] = f], l)
<1> DEFINE m == Len(q)
           p == [q EXCEPT ![i] = f]
<1>1. q \in Seq(Frame) /\ m \in Nat /\ m <= MaxDepth /\ l = Depth(q, m)
      /\ \A j \in 1..m : FrameOK(q, j)
  BY DEF StackOK
<1>2. p \in Seq(Frame) /\ Len(p) = m
      /\ \A j \in 1..m : p[j] = IF j = i THEN f ELSE q[j]
  BY <1>1, ExceptSeq
<1> HIDE DEF m, p
<1>3. \A j \in 1..m : p[j].kind = q[j].kind
  BY <1>2
<1>4. \A j \in 0..m : Depth(p, j) = Depth(q, j)
  BY <1>1, <1>3, DepthSame
<1>5. i \in 1..m
  BY DEF m
<1>6. ASSUME NEW j \in 1..m PROVE FrameOK(p, j)
  <2>1. j - 1 \in 0..m /\ Depth(p, j - 1) = Depth(q, j - 1) /\ FrameOK(q, j)
    BY <1>1, <1>4
  <2>2. CASE j # i
    BY <1>2, <2>1, <2>2 DEF FrameOK
  <2>3. CASE j = i
    <3>1. p[j] = f /\ q[j] = q[i]
      BY <1>2, <2>3
    <3>2. ASSUME f.kind = "function" \/ Holds(f) PROVE f.saved.breaks <= Depth(q, j - 1)
      <4>1. CASE f.saved.breaks = q[i].saved.breaks /\ (f.kind = "function" \/ Holds(q[i]))
        BY <2>1, <3>1, <4>1 DEF FrameOK
      <4>2. CASE i = Len(q) /\ f.kind \notin LoopKinds \cup {"source"}
                 /\ f.saved.breaks <= l
        <5> DEFINE k == m - 1
        <5>1. k \in Nat /\ m = k + 1 /\ j = m
          BY <1>1, <1>5, <2>3, <4>2 DEF m
        <5> HIDE DEF k
        <5>2. Depth(q, m) = Depth(q, k)
          BY <4>2, <5>1, DepthStep DEF m
        <5>3. j - 1 = k
          BY <5>1
        <5> QED
          BY <1>1, <4>2, <5>2, <5>3
      <4> QED
        BY <3>2, <4>1, <4>2
    <3> QED
      BY <2>1, <3>1, <3>2 DEF FrameOK
  <2> QED
    BY <2>2, <2>3
<1>7. l = Depth(p, m)
  BY <1>1, <1>4
<1>8. StackOK(p, l)
  BY <1>1, <1>2, <1>6, <1>7 DEF StackOK
<1> QED
  BY <1>8 DEF p

-----------------------------------------------------------------------------
(* The state: its types, its top, opening and leaving a construct.         *)

LEMMA Types ==
    ASSUME IInv
    PROVE  /\ stack \in Seq(Frame) /\ Len(stack) \in Nat /\ Len(stack) <= MaxDepth
           /\ MaxDepth \in Nat
           /\ StackOK(stack, loops)
           /\ loops \in 0..MaxDepth /\ loops <= Len(stack)
           /\ breaks \in 0..loops
           /\ contflag \in BOOLEAN /\ retflag \in BOOLEAN
           /\ errflag \in SUBSET {"error", "int"}
           /\ lastval \in 0..1 /\ exit_level \in 0..MaxDepth
           /\ pc \in {"next", "ran", "pipe", "done"}
<1>1. MaxDepth \in Nat
  BY ControlFlowAssumption
<1>2. StackOK(stack, loops)
  BY DEF IInv
<1>3. loops \in 0..Len(stack) /\ Len(stack) \in Nat
  BY <1>2, StackBound
<1> QED
  BY <1>1, <1>2, <1>3 DEF IInv, TypeOK

LEMMA SavedTypes ==
    ASSUME IInv
    PROVE  Saved \in Flags /\ Cleared \in Flags
<1>1. 0 \in 0..MaxDepth /\ 0..loops \subseteq 0..MaxDepth
  BY Types
<1>2. Cleared \in Flags
  BY <1>1 DEF Cleared, Flags
<1>3. Saved \in Flags
  BY <1>1, Types DEF Saved, Flags
<1> QED
  BY <1>2, <1>3

LEMMA NewFrame ==
    ASSUME NEW kind \in Kinds, NEW at \in Places, NEW saved \in Flags
    PROVE  /\ New(kind, at, saved) \in Frame
           /\ New(kind, at, saved).kind = kind
           /\ New(kind, at, saved).at = at
           /\ New(kind, at, saved).saved = saved
  BY DEF New, Frame, NoReturn

\* Whatever a step does to the flags, this is what it has to show.
LEMMA Kept ==
    ASSUME IInv,
           StackOK(stack', loops'),
           pc' \in {"next", "ran", "pipe", "done"},
           breaks' \in 0..loops',
           contflag' \in BOOLEAN, retflag' \in BOOLEAN,
           errflag' \in SUBSET {"error", "int"},
           lastval' \in 0..1, exit_level' \in 0..MaxDepth
    PROVE  IInv'
<1>1. MaxDepth \in Nat
  BY ControlFlowAssumption
<1>2. stack' \in Seq(Frame) /\ Len(stack') <= MaxDepth
  BY DEF StackOK
<1>3. loops' \in 0..MaxDepth
  BY StackBound
<1>4. breaks' \in 0..MaxDepth /\ breaks' <= loops'
  BY <1>1, <1>3
<1>5. TypeOK'
  BY <1>2, <1>3, <1>4 DEF TypeOK
<1>6. StackOK(stack, loops)'
  OBVIOUS
<1> QED
  BY <1>4, <1>5, <1>6 DEF IInv

LEMMA TopFrame ==
    ASSUME IInv, NEW kinds, In(kinds)
    PROVE  /\ Len(stack) \in 1..MaxDepth
           /\ Top = stack[Len(stack)] /\ Top.kind \in kinds
           /\ Top \in Frame /\ Top.saved \in Flags /\ Top.trap_return \in 0..NoReturn
           /\ Top.at \in Places
<1>1. stack \in Seq(Frame) /\ stack # <<>> /\ Len(stack) <= MaxDepth /\ MaxDepth \in Nat
  BY Types DEF In
<1>2. Len(stack) \in 1..MaxDepth /\ Top \in Frame
  BY <1>1 DEF Top
<1> QED
  BY <1>2 DEF Top, In, Frame

\* Leaving the innermost construct with the count of loops that goes with it.
LEMMA PoppedTop ==
    ASSUME IInv, NEW kinds, In(kinds), Pop
    PROVE  LET n == IF Top.kind \in LoopKinds THEN loops - 1
                    ELSE IF Top.kind = "source" THEN Top.saved.loops ELSE loops
           IN  /\ StackOK(stack', n)
               /\ n \in 0..MaxDepth
               /\ Top.kind = "function" => Top.saved.loops = n
               /\ Top.kind = "function" \/ Holds(Top) => Top.saved.breaks <= n
<1> DEFINE n == IF Top.kind \in LoopKinds THEN loops - 1
                ELSE IF Top.kind = "source" THEN Top.saved.loops ELSE loops
<1>1. StackOK(stack, loops) /\ stack # <<>>
  BY Types DEF In
<1>2. n = IF stack[Len(stack)].kind \in LoopKinds THEN loops - 1
          ELSE IF stack[Len(stack)].kind = "source" THEN stack[Len(stack)].saved.loops
          ELSE loops
  BY DEF Top
<1> HIDE DEF n
<1>3. /\ StackOK(SubSeq(stack, 1, Len(stack) - 1), n)
      /\ n \in 0..MaxDepth
      /\ stack[Len(stack)].kind = "function" => stack[Len(stack)].saved.loops = n
      /\ stack[Len(stack)].kind = "function" \/ Holds(stack[Len(stack)])
            => stack[Len(stack)].saved.breaks <= n
  BY <1>1, <1>2, Popped
<1> QED
  BY <1>3 DEF n, Pop, Top

\* The innermost construct goes on to another list, without anything new.
LEMMA MovedTop ==
    ASSUME IInv, NEW f \in Frame, NEW kinds, In(kinds),
           f.kind = Top.kind, Top.kind \notin {"function", "source"},
           Holds(f) => Top.kind \notin LoopKinds /\ f.saved.breaks <= loops,
           stack' = [stack EXCEPT ![Len(stack)] = f]
    PROVE  StackOK(stack', loops)
<1> DEFINE i == Len(stack)
<1>1. StackOK(stack, loops) /\ i \in 1..Len(stack) /\ stack[i] = Top
  BY Types, TopFrame
<1> HIDE DEF i
<1>2. StackOK([stack EXCEPT ![i] = f], loops)
  BY <1>1, Moved DEF i
<1> QED
  BY <1>2 DEF i

\* The number of functions.
LEMMA Levels == IInv => locallevel \in 0..MaxDepth
<1> SUFFICES ASSUME IInv PROVE locallevel \in 0..MaxDepth
  OBVIOUS
<1> DEFINE n == Len(stack)
           S == Frames({"function"})
<1>1. n \in Nat /\ n <= MaxDepth /\ MaxDepth \in Nat /\ DOMAIN stack = 1..n
  BY Types
<1>2. S \in SUBSET (1..n)
  BY <1>1 DEF Frames
<1> HIDE DEF n, S
<1>3. IsFiniteSet(1..n) /\ Cardinality(1..n) = n
  BY <1>1, FS_Interval
<1>4. IsFiniteSet(S) /\ Cardinality(S) <= n
  BY <1>2, <1>3, FS_Subset
<1>5. Cardinality(S) \in Nat
  BY <1>4, FS_CardinalityType
<1> QED
  BY <1>1, <1>4, <1>5 DEF locallevel, S

-----------------------------------------------------------------------------
(* The innermost construct of some kinds.                                  *)

\* A set of naturals closed under successor has every natural.
LEMMA Induction ==
    ASSUME NEW S, 0 \in S, \A i \in Nat : i \in S => i + 1 \in S
    PROVE  \A i \in Nat : i \in S
<1>1. SUFFICES ASSUME {i \in Nat : i \notin S} # {} PROVE FALSE
  OBVIOUS
<1> DEFINE T == {i \in Nat : i \notin S}
<1> HIDE DEF T
<1>2. T \subseteq Nat /\ T # {}
  BY <1>1 DEF T
<1>3. PICK m \in T : \A k \in T : ~ (k < m)
  <2>1. IsWellFoundedOn(OpToRel(<, Nat), Nat)
    BY NatLessThanWellFounded
  <2>2. PICK x \in T : \A y \in T : ~ (<<y, x>> \in OpToRel(<, Nat))
    BY <1>2, <2>1, WFMin
  <2>3. ASSUME NEW y \in T, y < x PROVE FALSE
    <3>1. <<y, x>> \in OpToRel(<, Nat)
      BY <1>2, <2>3, Zenon DEF OpToRel
    <3> QED
      BY <2>2, <3>1, Zenon
  <2> QED
    BY <2>3
<1>4. m \in Nat /\ m \notin S
  BY DEF T
<1>5. m - 1 \in Nat /\ m - 1 < m
  BY <1>4
<1>6. m - 1 \in S
  BY <1>3, <1>5 DEF T
<1> QED
  BY <1>4, <1>5, <1>6


LEMMA HasGreatest ==
    ASSUME NEW n \in Nat, NEW T \in SUBSET (1..n), T # {}
    PROVE  \E i \in T : \A j \in T : j <= i
<1> DEFINE Goal(k) == \A U \in SUBSET (1..k) : U # {} => \E i \in U : \A j \in U : j <= i
           S == {k \in Nat : Goal(k)}
<1>1. 0 \in S
  <2>1. ASSUME NEW U \in SUBSET (1..0), NEW i \in U PROVE FALSE
    <3>1. i \in 1..0
      OBVIOUS
    <3> QED
      BY <3>1
  <2> QED
    BY <2>1, Zenon
<1>2. ASSUME NEW k \in Nat, k \in S PROVE k + 1 \in S
  <2>1. ASSUME NEW U \in SUBSET (1..(k + 1)), U # {}
        PROVE  \E i \in U : \A j \in U : j <= i
    <3>1. CASE k + 1 \in U
      BY <3>1
    <3>2. CASE k + 1 \notin U
      <4>1. U \in SUBSET (1..k)
        BY <3>2
      <4> QED
        BY <1>2, <2>1, <4>1
    <3> QED
      BY <3>1, <3>2
  <2> QED
    BY <2>1
<1> HIDE DEF S
<1>3. \A k \in Nat : k \in S
  BY <1>1, <1>2, Induction
<1> QED
  BY <1>3 DEF S

LEMMA InnermostIs ==
    ASSUME IInv, NEW kinds
    PROVE  /\ Frames(kinds) \subseteq 1..Len(stack)
           /\ Frames(kinds) = {} => Innermost(kinds) = 0
           /\ Frames(kinds) # {} =>
                 /\ Innermost(kinds) \in Frames(kinds)
                 /\ \A j \in Frames(kinds) : j <= Innermost(kinds)
<1> DEFINE S == Frames(kinds)
<1>1. stack \in Seq(Frame) /\ Len(stack) \in Nat
  BY Types
<1>2. S \in SUBSET (1..Len(stack))
  BY <1>1 DEF Frames
<1>3. Innermost(kinds) = IF S = {} THEN 0 ELSE CHOOSE i \in S : \A j \in S : j <= i
  BY DEF Innermost
<1> HIDE DEF S
<1>4. S # {} => \E i \in S : \A j \in S : j <= i
  BY <1>1, <1>2, HasGreatest
<1>5. S # {} => Innermost(kinds) \in S /\ \A j \in S : j <= Innermost(kinds)
  BY <1>3, <1>4
<1>6. S = {} => Innermost(kinds) = 0
  BY <1>3
<1> QED
  BY <1>2, <1>5, <1>6 DEF S

\* A return in a trap: the trap is told what it returns.
LEMMA TrapTold ==
    ASSUME IInv, NEW i \in 1..Len(stack), stack[i].kind = "trap",
           NEW v \in 0..NoReturn, stack' = [stack EXCEPT ![i].trap_return = v]
    PROVE  StackOK(stack', loops)
<1> DEFINE f == [stack[i] EXCEPT !.trap_return = v]
<1>1. StackOK(stack, loops) /\ stack \in Seq(Frame)
  BY Types
<1>2. stack[i] \in Frame
  BY <1>1
<1>3. f \in Frame /\ f.kind = stack[i].kind /\ f.saved = stack[i].saved
  BY <1>2 DEF Frame
<1>4. f.kind = "trap" /\ Holds(stack[i])
  BY <1>3 DEF Holds
<1>5. stack' = [stack EXCEPT ![i] = f]
  OBVIOUS
<1> HIDE DEF f
<1>6. StackOK([stack EXCEPT ![i] = f], loops)
  BY <1>1, <1>3, <1>4, Moved
<1> QED
  BY <1>5, <1>6

-----------------------------------------------------------------------------
(* Every action keeps the invariant.                                       *)

LEMMA InitHolds == Init => IInv
<1> SUFFICES ASSUME Init PROVE IInv
  OBVIOUS
<1>1. MaxDepth \in Nat /\ 0 \in 0..MaxDepth
  BY ControlFlowAssumption
<1>2. stack = <<>> /\ stack \in Seq(Frame) /\ Len(stack) = 0
  BY DEF Init
<1>3. TypeOK
  <2>1. Len(stack) <= MaxDepth
    BY <1>1, <1>2
  <2>2. loops \in 0..MaxDepth /\ breaks \in 0..MaxDepth /\ exit_level \in 0..MaxDepth
    BY <1>1 DEF Init
  <2>3. lastval \in 0..1
    BY DEF Init
  <2>4. errflag \in SUBSET {"error", "int"} /\ contflag \in BOOLEAN /\ retflag \in BOOLEAN
        /\ pc \in {"next", "ran", "pipe", "done"}
    BY DEF Init
  <2> QED
    BY <1>2, <2>1, <2>2, <2>3, <2>4 DEF TypeOK
<1>4. loops = Depth(stack, Len(stack))
  BY <1>2, DepthEmpty DEF Init
<1>5. StackOK(stack, loops)
  BY <1>1, <1>2, <1>4 DEF StackOK
<1> QED
  BY <1>3, <1>5 DEF IInv, Init

\* The commands that leave the constructs as they are.
LEMMA CommandKeeps ==
    ASSUME IInv, PassOver \/ Simple \/ bin_break \/ bin_continue \/ AfterCommand
                 \/ Interrupt \/ ScriptEnd \/ Ended
    PROVE  IInv'
<1>1. stack' = stack /\ loops' = loops /\ exit_level' = exit_level /\ retflag' = retflag
  BY DEF PassOver, Simple, bin_break, bin_continue, AfterCommand, Interrupt, ScriptEnd,
         Ended, flags, vars
<1>2. StackOK(stack', loops')
  BY <1>1, Types
<1>3. pc' \in {"next", "ran", "pipe", "done"}
  BY Types DEF PassOver, Simple, bin_break, bin_continue, AfterCommand, Interrupt,
               ScriptEnd, Ended, vars, Finish
<1>4. breaks' \in 0..loops'
  BY <1>1, Types DEF PassOver, Simple, bin_break, bin_continue, AfterCommand, Interrupt,
               ScriptEnd, Ended, flags, vars
<1>5. contflag' \in BOOLEAN /\ lastval' \in 0..1
  <2>1. contflag' \in {contflag, TRUE}
    BY DEF PassOver, Simple, bin_break, bin_continue, AfterCommand, Interrupt,
           ScriptEnd, Ended, flags, vars
  <2>2. lastval' \in {lastval, 1 - lastval} \/ lastval' \in 0..1
    BY DEF PassOver, Simple, bin_break, bin_continue, AfterCommand, Interrupt,
           ScriptEnd, Ended, flags, vars
  <2>3. contflag' \in BOOLEAN
    BY <2>1, Types
  <2>4. lastval' \in 0..1
    BY <2>2, Types
  <2> QED
    BY <2>3, <2>4
<1>6. errflag' \in SUBSET {"error", "int"}
  <2>1. \/ errflag' = errflag \/ errflag' = {"error"}
        \/ errflag' = errflag \union {"int"}
    BY DEF PassOver, Simple, bin_break, bin_continue, AfterCommand, Interrupt,
           ScriptEnd, Ended, flags, vars
  <2> QED
    BY <2>1, Types
<1> QED
  BY <1>1, <1>2, <1>3, <1>4, <1>5, <1>6, Types, Kept

LEMMA ReturnKeeps ==
    ASSUME IInv, bin_return
    PROVE  IInv'
<1>1. loops' = loops /\ contflag' = contflag /\ errflag' = errflag /\ exit_level' = exit_level
      /\ lastval' \in 0..1
  BY DEF bin_return
<1>2. CASE locallevel + sourcelevel > 0
  <2> DEFINE K == {"function", "source", "trap"}
             i == Innermost(K)
  <2>1. retflag' = TRUE /\ breaks' = loops /\ pc' = "ran"
        /\ stack' = IF stack[i].kind = "trap"
                       THEN [stack EXCEPT ![i].trap_return = lastval'] ELSE stack
    BY <1>2 DEF bin_return
  <2>2. Frames(K) # {}
    <3>1. Cardinality({}) = 0
      BY FS_EmptySet
    <3>2. SUFFICES ASSUME Frames(K) = {} PROVE FALSE
      OBVIOUS
    <3>3. Frames({"function"}) = {} /\ Frames({"source"}) = {}
      BY <3>2 DEF Frames
    <3> QED
      BY <1>2, <3>1, <3>3 DEF locallevel, sourcelevel
  <2> HIDE DEF K
  <2>3. i \in 1..Len(stack)
    BY <2>2, InnermostIs
  <2>4. StackOK(stack', loops)
    <3>1. CASE stack[i].kind = "trap"
      <4> HIDE DEF i
      <4> DEFINE v == lastval'
      <4>1. v \in 0..NoReturn /\ stack' = [stack EXCEPT ![i].trap_return = v]
        BY <1>1, <2>1, <3>1 DEF NoReturn
      <4> HIDE DEF v
      <4> QED
        BY <2>3, <3>1, <4>1, TrapTold
    <3>2. CASE stack[i].kind # "trap"
      BY <2>1, <3>2, Types
    <3> QED
      BY <3>1, <3>2
  <2>5. breaks' \in 0..loops'
    BY <1>1, <2>1, Types
  <2> QED
    BY <1>1, <2>1, <2>4, <2>5, Types, Kept
<1>3. CASE ~(locallevel + sourcelevel > 0)
  <2>1. stack' = stack /\ breaks' = breaks /\ retflag' = retflag /\ pc' = "done"
    BY <1>3 DEF bin_return, Finish
  <2> QED
    BY <1>1, <2>1, Types, Kept
<1> QED
  BY <1>2, <1>3

LEMMA ExitKeeps ==
    ASSUME IInv, bin_exit
    PROVE  IInv'
<1> DEFINE K == {"source", "trap"}
           i == Innermost(K)
<1>1. loops' = loops /\ contflag' = contflag /\ errflag' = errflag
  BY DEF bin_exit
<1>2. CASE locallevel > 0
  <2>1. retflag' = TRUE /\ breaks' = loops /\ exit_level' = locallevel /\ lastval' = 0
        /\ pc' = "ran"
        /\ stack' = IF i > 0 /\ stack[i].kind = "trap"
                       THEN [stack EXCEPT ![i].trap_return = 1] ELSE stack
    BY <1>2 DEF bin_exit
  <2>2. StackOK(stack', loops)
    <3>1. CASE i > 0 /\ stack[i].kind = "trap"
      <4>1. stack' = [stack EXCEPT ![i].trap_return = 1] /\ 1 \in 0..NoReturn
        BY <2>1, <3>1 DEF NoReturn
      <4> HIDE DEF K
      <4>2. i \in 1..Len(stack)
        BY <3>1, InnermostIs
      <4> HIDE DEF i
      <4> QED
        BY <3>1, <4>1, <4>2, TrapTold
    <3>2. CASE ~(i > 0 /\ stack[i].kind = "trap")
      BY <2>1, <3>2, Types
    <3> QED
      BY <3>1, <3>2
  <2>3. exit_level' \in 0..MaxDepth
    BY <2>1, Levels
  <2>4. breaks' \in 0..loops'
    BY <1>1, <2>1, Types
  <2> QED
    BY <1>1, <2>1, <2>2, <2>3, <2>4, Types, Kept
<1>3. CASE ~(locallevel > 0)
  <2>1. stack' = stack /\ breaks' = breaks /\ retflag' = retflag /\ pc' = "done"
        /\ exit_level' = exit_level /\ lastval' = lastval
    BY <1>3 DEF bin_exit, Finish
  <2> QED
    BY <1>1, <2>1, Types, Kept
<1> QED
  BY <1>2, <1>3

\* Opening a construct.
LEMMA PushedNew ==
    ASSUME IInv, NEW kind \in Kinds, NEW at \in Places, NEW saved \in Flags,
           Push(New(kind, at, saved)),
           kind \in {"function", "source"} => saved.loops = loops,
           kind \in {"function", "trap"} \/ at = "always" => saved.breaks <= loops,
           NEW n,
           n = IF kind \in LoopKinds THEN loops + 1
               ELSE IF kind = "source" THEN 0 ELSE loops
    PROVE  StackOK(stack', n)
<1> DEFINE f == New(kind, at, saved)
<1>1. f \in Frame /\ f.kind = kind /\ f.at = at /\ f.saved = saved
  BY NewFrame
<1>2. Len(stack) < MaxDepth /\ stack' = Append(stack, f)
  BY DEF Push
<1> HIDE DEF f
<1>3. StackOK(stack, loops)
  BY Types
<1>4. f.kind \in {"function", "source"} => f.saved.loops = loops
  BY <1>1
<1>5. f.kind = "function" \/ Holds(f) => f.saved.breaks <= loops
  BY <1>1 DEF Holds
<1>6. n = IF f.kind \in LoopKinds THEN loops + 1
          ELSE IF f.kind = "source" THEN 0 ELSE loops
  BY <1>1
<1>7. StackOK(Append(stack, f), n)
  BY <1>1, <1>2, <1>3, <1>4, <1>5, <1>6, Pushed
<1> QED
  BY <1>2, <1>7

LEMMA BeginKeeps ==
    ASSUME IInv, BeginLoop \/ BeginBlock \/ BeginFunction \/ BeginSource \/ TrapBegins
    PROVE  IInv'
<1>1. /\ contflag' = contflag /\ errflag' = errflag
      /\ lastval' \in {lastval, 0} /\ exit_level' = exit_level /\ pc' = "next"
      /\ retflag' \in BOOLEAN
  BY Types DEF BeginLoop, BeginBlock, BeginFunction, BeginSource, TrapBegins, flags
<1>2. Saved \in Flags /\ Cleared \in Flags /\ Saved.loops = loops /\ Saved.breaks = breaks
      /\ Cleared.loops = 0 /\ Cleared.breaks = 0
  BY SavedTypes DEF Saved, Cleared
<1>3. loops \in Nat /\ breaks \in 0..loops
  BY Types
<1>4. StackOK(stack', loops')
  <2>1. CASE BeginLoop
    <3>1. loops' = loops + 1
      BY <2>1 DEF BeginLoop
    <3>2. PICK kind \in LoopKinds, at \in {"body", "cond"} : Push(New(kind, at, Cleared))
      BY <2>1 DEF BeginLoop, LoopKinds
    <3>3. kind \in Kinds /\ at \in Places /\ kind \notin {"function", "source", "trap"}
          /\ at # "always"
      BY DEF LoopKinds, Kinds, Places
    <3> QED
      BY <1>2, <3>1, <3>2, <3>3, PushedNew
  <2>2. CASE BeginBlock
    <3>1. loops' = loops
      BY <2>2 DEF BeginBlock, flags
    <3>2. PICK kind \in {"if", "try"}, at \in {"cond", "try"} : Push(New(kind, at, Cleared))
      BY <2>2 DEF BeginBlock
    <3>3. kind \in Kinds /\ at \in Places /\ kind \notin {"function", "source", "trap"}
          /\ at # "always" /\ kind \notin LoopKinds
      BY DEF LoopKinds, Kinds, Places
    <3> QED
      BY <1>2, <3>1, <3>2, <3>3, PushedNew
  <2>3. CASE BeginFunction
    <3>1. loops' = loops /\ Push(New("function", "body", Saved))
      BY <2>3 DEF BeginFunction, flags
    <3>2. "function" \in Kinds /\ "body" \in Places /\ "function" \notin LoopKinds
      BY DEF LoopKinds, Kinds, Places
    <3> QED
      BY <1>2, <1>3, <3>1, <3>2, PushedNew
  <2>4. CASE BeginSource
    <3>1. loops' = 0 /\ Push(New("source", "body", Saved))
      BY <2>4 DEF BeginSource
    <3>2. "source" \in Kinds /\ "body" \in Places /\ "source" \notin LoopKinds
      BY DEF LoopKinds, Kinds, Places
    <3> QED
      BY <1>2, <1>3, <3>1, <3>2, PushedNew
  <2>5. CASE TrapBegins
    <3>1. loops' = loops /\ Push(New("trap", "body", Saved))
      BY <2>5 DEF TrapBegins
    <3>2. "trap" \in Kinds /\ "body" \in Places /\ "trap" \notin LoopKinds
      BY DEF LoopKinds, Kinds, Places
    <3> QED
      BY <1>2, <1>3, <3>1, <3>2, PushedNew
  <2> QED
    BY <2>1, <2>2, <2>3, <2>4, <2>5
<1>5. breaks' \in 0..loops'
  <2>1. BeginLoop \/ BeginBlock \/ BeginFunction => breaks' = breaks /\ loops' \in {loops, loops + 1}
    BY DEF BeginLoop, BeginBlock, BeginFunction, flags
  <2>2. BeginSource => breaks' = breaks /\ breaks = 0 /\ loops' = 0
    BY <1>3 DEF BeginSource, CanRun, Blocked
  <2>3. TrapBegins => breaks' = 0 /\ loops' = loops
    BY DEF TrapBegins
  <2> QED
    BY <1>3, <2>1, <2>2, <2>3
<1> QED
  BY <1>1, <1>4, <1>5, Types, Kept

-----------------------------------------------------------------------------
(* Ends of lists.                                                          *)

LEMMA ListEndIn ==
    ASSUME NEW kind, NEW at, ListEnd(kind, at)
    PROVE  In({kind}) /\ Top.kind = kind /\ Top.at = at /\ pc = "next"
  BY DEF ListEnd, In

LEMMA LoopLeft ==
    ASSUME IInv, In(LoopKinds), LeaveLoop, breaks' = Minus1(breaks)
    PROVE  /\ StackOK(stack', loops')
           /\ pc' \in {"next", "ran", "pipe", "done"}
           /\ breaks' \in 0..loops'
<1>1. Top.kind \in LoopKinds
  BY TopFrame
<1>2. Pop /\ loops' = loops - 1 /\ pc' = "ran"
  BY DEF LeaveLoop
<1>3. StackOK(stack', loops - 1) /\ loops - 1 \in 0..MaxDepth
  BY <1>1, <1>2, PoppedTop
<1>4. breaks \in 0..loops /\ loops \in 0..MaxDepth /\ MaxDepth \in Nat
  BY Types
<1>5. breaks' \in 0..loops'
  BY <1>2, <1>3, <1>4 DEF Minus1
<1> QED
  BY <1>2, <1>3, <1>5

LEMMA AfterBodyKeeps ==
    ASSUME IInv, In(LoopKinds), AfterBody
    PROVE  /\ StackOK(stack', loops')
           /\ pc' \in {"next", "ran", "pipe", "done"}
           /\ breaks' \in 0..loops'
           /\ contflag' \in BOOLEAN /\ lastval' \in 0..1
<1>1. breaks' = Minus1(breaks)
  BY DEF AfterBody
<1>2. contflag' \in BOOLEAN
  BY DEF AfterBody
<1>3. lastval' \in {1, lastval}
  BY DEF AfterBody
<1>4. lastval' \in 0..1
  BY <1>3, Types
<1>5. CASE LeaveLoop
  BY <1>1, <1>2, <1>4, <1>5, LoopLeft
<1>6. CASE ~LeaveLoop
  <2> DEFINE at == IF Top.kind = "for" THEN "body" ELSE "cond"
             v == IF Top.kind = "for" THEN 0 ELSE lastval'
             f == [Top EXCEPT !.at = at, !.saved.lastval = v]
  <2>1. stack' = [stack EXCEPT ![Len(stack)].at = at, ![Len(stack)].saved.lastval = v]
        /\ loops' = loops /\ pc' = "next"
    BY <1>6 DEF AfterBody
  <2>2. Top \in Frame /\ Top.kind \in LoopKinds /\ Top.saved \in Flags
        /\ Len(stack) \in 1..MaxDepth /\ Top = stack[Len(stack)] /\ stack \in Seq(Frame)
    BY TopFrame, Types
  <2>3. at \in {"body", "cond"} /\ at \in Places /\ v \in 0..1
    BY <1>4 DEF Places
  <2>4. f.kind = Top.kind /\ f.at = at
    BY <2>2 DEF Frame
  <2>5. f \in Frame
    <3> DEFINE s == [Top.saved EXCEPT !.lastval = v]
    <3>1. s \in Flags
      BY <2>2, <2>3 DEF Flags
    <3>2. f = [Top EXCEPT !.at = at, !.saved = s]
      BY <2>2 DEF Frame
    <3> HIDE DEF s, at, v
    <3> QED
      BY <2>2, <2>3, <3>1, <3>2 DEF Frame
  <2>6. stack' = [stack EXCEPT ![Len(stack)] = f]
    BY <2>1, <2>2
  <2>7. Top.kind \notin {"function", "source"} /\ ~Holds(f)
    BY <2>2, <2>3, <2>4 DEF Holds, LoopKinds
  <2> HIDE DEF f, at, v
  <2>8. StackOK(stack', loops)
    BY <2>4, <2>5, <2>6, <2>7, MovedTop
  <2>9. breaks' \in 0..loops
    BY <1>1, Types DEF Minus1
  <2> QED
    BY <1>2, <1>4, <2>1, <2>8, <2>9
<1> QED
  BY <1>5, <1>6

LEMMA BodyEndKeeps ==
    ASSUME IInv, BodyEnd
    PROVE  IInv'
<1>1. retflag' = retflag /\ errflag' = errflag /\ exit_level' = exit_level /\ AfterBody
  BY DEF BodyEnd
<1>2. In(LoopKinds)
  <2>1. PICK kind \in LoopKinds : ListEnd(kind, "body")
    BY DEF BodyEnd
  <2> QED
    BY <2>1 DEF ListEnd, In
<1> QED
  BY <1>1, <1>2, AfterBodyKeeps, Types, Kept

LEMMA CondEndKeeps ==
    ASSUME IInv, CondEnd
    PROVE  IInv'
<1>1. retflag' = retflag /\ errflag' = errflag /\ exit_level' = exit_level
  BY DEF CondEnd
<1>2. In(LoopKinds) /\ pc = "next"
  BY DEF CondEnd, ListEnd, In, LoopKinds
<1>3. Top \in Frame /\ Top.saved.lastval \in 0..1
  BY <1>2, TopFrame DEF Flags
<1>4. \/ /\ breaks' = Minus1(breaks) /\ LeaveLoop
         /\ lastval' \in {lastval, Top.saved.lastval} /\ contflag' = contflag
      \/ AfterBody
      \/ /\ MoveTo("body") /\ pc' = pc /\ loops' = loops /\ breaks' = breaks
         /\ contflag' = contflag /\ lastval' = lastval
  BY DEF CondEnd
<1>5. CASE /\ breaks' = Minus1(breaks) /\ LeaveLoop
           /\ lastval' \in {lastval, Top.saved.lastval} /\ contflag' = contflag
  <2>1. lastval' \in 0..1
    BY <1>3, <1>5, Types
  <2> QED
    BY <1>1, <1>2, <1>5, <2>1, LoopLeft, Types, Kept
<1>6. CASE AfterBody
  BY <1>1, <1>2, <1>6, AfterBodyKeeps, Types, Kept
<1>7. CASE /\ MoveTo("body") /\ pc' = pc /\ loops' = loops /\ breaks' = breaks
           /\ contflag' = contflag /\ lastval' = lastval
  <2>1. StackOK(stack', loops)
    <3> DEFINE f == [Top EXCEPT !.at = "body"]
    <3>1. f \in Frame /\ f.kind = Top.kind /\ f.at = "body"
      BY <1>3 DEF Frame, Places
    <3>2. stack' = [stack EXCEPT ![Len(stack)] = f]
      BY <1>7 DEF MoveTo, Top
    <3>3. Top.kind \in LoopKinds
      BY <1>2, TopFrame
    <3>4. Top.kind \notin {"function", "source"} /\ ~Holds(f)
      BY <3>1, <3>3 DEF Holds, LoopKinds
    <3> HIDE DEF f
    <3> QED
      BY <1>2, <3>1, <3>2, <3>4, MovedTop
  <2> QED
    BY <1>1, <1>7, <2>1, Types, Kept
<1> QED
  BY <1>4, <1>5, <1>6, <1>7

LEMMA IfKeeps ==
    ASSUME IInv, IfCondEnd \/ IfEnd
    PROVE  IInv'
<1>1. /\ loops' = loops /\ breaks' = breaks /\ contflag' = contflag /\ retflag' = retflag
      /\ errflag' = errflag /\ exit_level' = exit_level
  BY DEF IfCondEnd, IfEnd, flags
<1>2. In({"if"}) /\ pc = "next"
  BY DEF IfCondEnd, IfEnd, ListEnd, In
<1>3. Top \in Frame /\ Top.kind = "if" /\ "if" \notin LoopKinds
  BY <1>2, TopFrame DEF LoopKinds
<1>4. lastval' \in {lastval, 0} /\ pc' \in {"next", "ran"}
  BY <1>2 DEF IfCondEnd, IfEnd
<1>5. lastval' \in 0..1
  BY <1>4, Types
<1>6. Pop \/ \E at \in {"cond", "body"} : MoveTo(at)
  BY DEF IfCondEnd, IfEnd
<1>7. CASE Pop
  BY <1>1, <1>2, <1>3, <1>4, <1>5, <1>7, PoppedTop, Types, Kept
<1>8. ASSUME NEW at \in {"cond", "body"}, MoveTo(at) PROVE IInv'
  <2>1. StackOK(stack', loops)
    <3> DEFINE f == [Top EXCEPT !.at = at]
    <3>1. f \in Frame /\ f.kind = Top.kind /\ f.at = at
      BY <1>3 DEF Frame, Places
    <3>2. stack' = [stack EXCEPT ![Len(stack)] = f]
      BY <1>8 DEF MoveTo, Top
    <3>3. Top.kind \notin {"function", "source"} /\ ~Holds(f)
      BY <1>3, <3>1 DEF Holds
    <3> HIDE DEF f
    <3> QED
      BY <1>2, <3>1, <3>2, <3>3, MovedTop
  <2> QED
    BY <1>1, <1>4, <1>5, <2>1, Types, Kept
<1> QED
  BY <1>6, <1>7, <1>8

LEMMA TryEndKeeps ==
    ASSUME IInv, TryEnd
    PROVE  IInv'
<1>1. /\ loops' = loops /\ breaks' = 0 /\ contflag' = FALSE /\ retflag' = FALSE
      /\ errflag' = {} /\ exit_level' = exit_level /\ lastval' = lastval /\ pc' = pc
  BY DEF TryEnd
<1>2. In({"try"}) /\ Top.kind = "try"
  BY DEF TryEnd, ListEnd, In
<1> DEFINE v == IF errflag /= {} THEN 1 ELSE lastval
           s == [Saved EXCEPT !.loops = 0, !.lastval = v]
           f == New("try", "always", s)
<1>3. stack' = [stack EXCEPT ![Len(stack)] = f]
  BY DEF TryEnd
<1>4. v \in 0..1
  BY Types
<1> HIDE DEF v
<1>5. s \in Flags /\ s.breaks = breaks
  <2>1. Saved \in Flags /\ Saved.breaks = breaks /\ 0 \in 0..MaxDepth
    BY SavedTypes, Types DEF Saved
  <2> QED
    BY <1>4, <2>1 DEF Flags
<1>6. "try" \in Kinds /\ "always" \in Places
  BY DEF Kinds, Places
<1> HIDE DEF s
<1>7. f \in Frame /\ f.kind = "try" /\ f.saved = s
  BY <1>5, <1>6, NewFrame
<1> HIDE DEF f
<1>8. Top.kind \notin LoopKinds /\ Top.kind \notin {"function", "source"}
      /\ f.saved.breaks <= loops
  BY <1>2, <1>5, <1>7, Types DEF LoopKinds
<1>9. StackOK(stack', loops)
  BY <1>2, <1>3, <1>7, <1>8, MovedTop
<1>10. breaks' \in 0..loops'
  BY <1>1, Types
<1> QED
  BY <1>1, <1>9, <1>10, Types, Kept

LEMMA AlwaysEndKeeps ==
    ASSUME IInv, AlwaysEnd
    PROVE  IInv'
<1>1. /\ loops' = loops /\ exit_level' = exit_level /\ pc' = "ran" /\ Pop
      /\ errflag' \in SUBSET Top.saved.errflag
      /\ retflag' \in BOOLEAN
      /\ breaks' \in {breaks, Top.saved.breaks}
      /\ contflag' \in BOOLEAN
      /\ lastval' = Top.saved.lastval
  BY DEF AlwaysEnd
<1>2. In({"try"}) /\ Top.kind = "try" /\ Top.at = "always"
  BY DEF AlwaysEnd, ListEnd, In
<1>3. Top.saved \in Flags /\ Top.kind \notin LoopKinds /\ Top.kind # "source" /\ Holds(Top)
  BY <1>2, TopFrame DEF LoopKinds, Holds
<1>4. StackOK(stack', loops) /\ Top.saved.breaks <= loops
  BY <1>1, <1>2, <1>3, PoppedTop
<1>5. Top.saved.breaks \in Nat /\ Top.saved.lastval \in 0..1
      /\ Top.saved.errflag \in SUBSET {"error", "int"}
  BY <1>3, Types DEF Flags
<1>6. breaks' \in 0..loops'
  BY <1>1, <1>4, <1>5, Types
<1>7. errflag' \in SUBSET {"error", "int"}
  BY <1>1, <1>5
<1> QED
  BY <1>1, <1>4, <1>5, <1>6, <1>7, Types, Kept

LEMMA FunctionEndKeeps ==
    ASSUME IInv, NEW local \in BOOLEAN, FunctionEnd(local)
    PROVE  IInv'
<1>1. /\ loops' \in {loops, Top.saved.loops} /\ pc' \in {"done", "ran"} /\ Pop
      /\ contflag' \in {contflag, Top.saved.contflag}
      /\ retflag' \in BOOLEAN
      /\ breaks' \in {loops', Top.saved.breaks, breaks}
      /\ errflag' = errflag /\ lastval' = lastval /\ exit_level' = exit_level
  BY DEF FunctionEnd
<1>2. In({"function"}) /\ Top.kind = "function"
  BY DEF FunctionEnd, ListEnd, In
<1>3. Top.saved \in Flags /\ Top.kind \notin LoopKinds /\ Top.kind # "source"
  BY <1>2, TopFrame DEF LoopKinds
<1>4. StackOK(stack', loops) /\ Top.saved.breaks <= loops /\ Top.saved.loops = loops
  BY <1>1, <1>2, <1>3, PoppedTop
<1>5. Top.saved.breaks \in Nat /\ Top.saved.contflag \in BOOLEAN
  BY <1>3, Types DEF Flags
<1>6. loops' = loops
  BY <1>1, <1>4
<1>7. breaks' \in 0..loops'
  BY <1>1, <1>4, <1>5, <1>6, Types
<1>8. contflag' \in BOOLEAN
  BY <1>1, <1>5, Types
<1> QED
  BY <1>1, <1>4, <1>6, <1>7, <1>8, Types, Kept

LEMMA SourceEndKeeps ==
    ASSUME IInv, SourceEnd
    PROVE  IInv'
<1>1. /\ loops' = Top.saved.loops /\ pc' = "ran" /\ Pop
      /\ contflag' = contflag /\ breaks' = breaks /\ exit_level' = exit_level
      /\ retflag' \in BOOLEAN
      /\ errflag' = errflag \ {"error"}
      /\ lastval' \in {1, lastval}
  BY DEF SourceEnd
<1>2. In({"source"}) /\ Top.kind = "source"
  BY DEF SourceEnd, ListEnd, In
<1>3. StackOK(stack', loops') /\ loops' \in 0..MaxDepth
  <2>1. Top.kind \notin LoopKinds
    BY <1>2 DEF LoopKinds
  <2> QED
    BY <1>1, <1>2, <2>1, PoppedTop
<1>4. loops = 0
  <2>1. StackOK(stack, loops) /\ Len(stack) \in 1..MaxDepth /\ MaxDepth \in Nat
    BY <1>2, TopFrame, Types
  <2> DEFINE m == Len(stack)
             k == m - 1
  <2>2. k \in Nat /\ m = k + 1 /\ loops = Depth(stack, m)
    BY <2>1 DEF StackOK
  <2>3. stack[m].kind = "source" /\ "source" \notin LoopKinds
    BY <1>2 DEF Top, LoopKinds
  <2> HIDE DEF m, k
  <2> QED
    BY <2>2, <2>3, DepthStep
<1>5. breaks' \in 0..loops'
  BY <1>1, <1>3, <1>4, Types
<1>6. lastval' \in 0..1
  BY <1>1, Types
<1>7. errflag' \in SUBSET {"error", "int"}
  BY <1>1, Types
<1> QED
  BY <1>1, <1>3, <1>5, <1>6, <1>7, Types, Kept

LEMMA TrapEndKeeps ==
    ASSUME IInv, TrapEnd
    PROVE  IInv'
<1>1. /\ loops' = loops /\ pc' = pc /\ Pop
      /\ contflag' = contflag /\ exit_level' = exit_level
      /\ retflag' \in {TRUE, Top.saved.retflag}
      /\ errflag' \in {errflag, errflag \cup {"error"}}
      /\ \/ lastval' = Top.trap_return /\ Top.trap_return # NoReturn
         \/ lastval' \in {1, Top.saved.lastval}
      /\ \/ breaks' = breaks
         \/ breaks' = Least(breaks + Top.saved.breaks, loops)
  BY DEF TrapEnd
<1>2. In({"trap"}) /\ Top.kind = "trap"
  BY DEF TrapEnd, ListEnd, In
<1>3. Top.saved \in Flags /\ Top.kind \notin LoopKinds /\ Top.kind # "source"
      /\ Top.trap_return \in 0..2
  BY <1>2, TopFrame DEF LoopKinds, NoReturn
<1>4. StackOK(stack', loops)
  BY <1>1, <1>2, <1>3, PoppedTop
<1>5. Top.saved.breaks \in Nat /\ Top.saved.retflag \in BOOLEAN /\ Top.saved.lastval \in 0..1
  BY <1>3, Types DEF Flags
<1>6. breaks' \in 0..loops'
  BY <1>1, <1>5, Types DEF Least
<1>7. lastval' \in 0..1
  BY <1>1, <1>3, <1>5 DEF NoReturn
<1>8. errflag' \in SUBSET {"error", "int"}
  BY <1>1, Types
<1>9. retflag' \in BOOLEAN
  BY <1>1, <1>5
<1> QED
  BY <1>1, <1>4, <1>6, <1>7, <1>8, <1>9, Types, Kept

LEMMA NextKeeps == IInv /\ [Next]_vars => IInv'
<1> SUFFICES ASSUME IInv, [Next]_vars PROVE IInv'
  OBVIOUS
<1>1. CASE PassOver \/ Simple \/ bin_break \/ bin_continue \/ AfterCommand
           \/ Interrupt \/ ScriptEnd \/ Ended
  BY <1>1, CommandKeeps
<1>2. CASE bin_return
  BY <1>2, ReturnKeeps
<1>3. CASE bin_exit
  BY <1>3, ExitKeeps
<1>4. CASE BeginLoop \/ BeginBlock \/ BeginFunction \/ BeginSource \/ TrapBegins
  BY <1>4, BeginKeeps
<1>5. CASE BodyEnd
  BY <1>5, BodyEndKeeps
<1>6. CASE CondEnd
  BY <1>6, CondEndKeeps
<1>7. CASE IfCondEnd \/ IfEnd
  BY <1>7, IfKeeps
<1>8. CASE TryEnd
  BY <1>8, TryEndKeeps
<1>9. CASE AlwaysEnd
  BY <1>9, AlwaysEndKeeps
<1>10. CASE \E local \in BOOLEAN : FunctionEnd(local)
  BY <1>10, FunctionEndKeeps
<1>11. CASE SourceEnd
  BY <1>11, SourceEndKeeps
<1>12. CASE TrapEnd
  BY <1>12, TrapEndKeeps
<1>13. CASE UNCHANGED vars
  BY <1>13, CommandKeeps DEF Ended, vars, IInv, TypeOK
<1> QED
  BY <1>1, <1>2, <1>3, <1>4, <1>5, <1>6, <1>7, <1>8, <1>9, <1>10, <1>11, <1>12, <1>13
     DEF Next

-----------------------------------------------------------------------------
(* What follows.                                                           *)

\* IInv, at every state.
THEOREM Inductive == Spec => []IInv
<1> QED
  BY InitHolds, NextKeeps, PTL DEF Spec

\* Every variable of the executor keeps its type, at any depth: neither the
\* count of loops nor the break levels get past the constructs in progress.
THEOREM TypesCorrect == Spec => []TypeOK
<1>1. IInv => TypeOK
  BY DEF IInv
<1> QED
  BY <1>1, Inductive, PTL

-----------------------------------------------------------------------------
(* Scripts that leave the troublesome combinations alone.                  *)
(*                                                                         *)
(* What the flags mean then is a matter of the whole stack: an always list *)
(* or a trap holds back flags of its own, and the current ones must fit    *)
(* every one of those, as they will meet at its end.  The current flags    *)
(* are one more frame that holds, at the end of the stack.                 *)

Orderly == Uses \subseteq {"alwaysInt"}

Now(f) == [kind |-> "now", at |-> "always", saved |-> f, trap_return |-> NoReturn]
AllOf(q, f) == Append(q, Now(f))
All == AllOf(stack, Saved)

\* A trap below i began while a `continue' was on its way.
TrapWaits(w, i) == \E j \in 1..(i - 1) : w[j].kind = "trap" /\ w[j].saved.contflag

\* The n-th loop below i, from inside, is at its condition.
LoopsFrom(w, k, i) == Cardinality({j \in k..(i - 1) : w[j].kind \in LoopKinds})
AtCondition(w, i, n) ==
    \E k \in 1..(i - 1) : w[k].kind \in LoopKinds /\ w[k].at = "cond"
                             /\ LoopsFrom(w, k, i) = n

\* What is held at i: a `continue' has a loop to go to, is not at the same time
\* a return, and its loop has run its condition.
Clean(w, i) ==
    Holds(w[i]) /\ w[i].saved.contflag =>
        /\ ~w[i].saved.retflag
        /\ w[i].saved.breaks > 0 \/ TrapWaits(w, i)
        /\ w[i].saved.breaks > 0 => ~AtCondition(w, i, w[i].saved.breaks)

\* What is held at j and, further inside, at i: a `continue' is the only jump
\* of the two.
Waits(w, j, i) ==
    j < i /\ Holds(w[i]) /\ Holds(w[j]) =>
        /\ w[j].saved.contflag => w[i].saved.breaks = 0 /\ ~w[i].saved.retflag
        /\ w[i].saved.contflag /\ w[i].saved.breaks > 0
              => w[j].saved.breaks = 0 /\ ~w[j].saved.retflag

\* A function is called with no jump on its way.
Called(w, i) ==
    w[i].kind = "function" =>
        w[i].saved.breaks = 0 /\ (w[i].saved.contflag => TrapWaits(w, i))

\* The number of functions up to i; what an exit of level x passes between i and j.
Level(w, i) == Cardinality({k \in 1..i : w[k].kind = "function"})
Clear(w, x, i, j) ==
    \A k \in (i + 1)..(j - 1) : /\ w[k].kind # "trap"
                                /\ w[k].kind = "function" => Level(w, k) <= x

\* A function that an exit leaves: the return that does it is on its way there.
Leaves(w, x, i, j) ==
    /\ Holds(w[j]) /\ Clear(w, x, i, j)
    /\ w[j].saved.retflag \/ w[j].trap_return # NoReturn
Exits(w, n, x, i) ==
    w[i].kind = "function" /\ Level(w, i) <= x => \E j \in (i + 1)..n : Leaves(w, x, i, j)

\* A trap that was told to return: that return is on its way to it.
Returns(w, x, i, j) ==
    /\ Holds(w[j]) /\ Clear(w, x, i, j)
    /\ w[j].saved.retflag
    /\ \A k \in (i + 1)..(j - 1) : w[k].kind # "source"
Forced(w, n, x, i) ==
    w[i].trap_return # NoReturn =>
        w[i].kind = "trap" /\ \E j \in (i + 1)..n : Returns(w, x, i, j)

OneTrap(w, n) == \A i, j \in 1..n : w[i].kind = "trap" /\ w[j].kind = "trap" => i = j

Jumps(w, n, x) ==
    /\ OneTrap(w, n)
    /\ \A i \in 1..n : /\ Clean(w, i)
                       /\ Called(w, i)
                       /\ Exits(w, n, x, i)
                       /\ Forced(w, n, x, i)
    /\ \A i, j \in 1..n : Waits(w, j, i)

JInv == IInv /\ (pc # "done" => Jumps(All, Len(stack) + 1, exit_level))

-----------------------------------------------------------------------------
(* Parts of two stacks that are alike.                                     *)

LEMMA LevelSame ==
    ASSUME NEW v, NEW w, NEW k \in Nat, \A i \in 1..k : v[i].kind = w[i].kind
    PROVE  \A i \in 0..k : Level(v, i) = Level(w, i)
<1>1. ASSUME NEW i \in 0..k
      PROVE  {j \in 1..i : v[j].kind = "function"} = {j \in 1..i : w[j].kind = "function"}
  OBVIOUS
<1> QED
  BY <1>1 DEF Level

LEMMA ClearSame ==
    ASSUME NEW v, NEW w, NEW k \in Nat, \A i \in 1..k : v[i].kind = w[i].kind
    PROVE  \A x : \A i \in Nat, j \in 1..(k + 1) : Clear(v, x, i, j) <=> Clear(w, x, i, j)
<1>1. SUFFICES ASSUME NEW x, NEW i \in Nat, NEW j \in 1..(k + 1)
               PROVE  Clear(v, x, i, j) <=> Clear(w, x, i, j)
  OBVIOUS
<1>2. \A h \in (i + 1)..(j - 1) : v[h].kind = w[h].kind /\ Level(v, h) = Level(w, h)
  <2>1. \A h \in (i + 1)..(j - 1) : h \in 0..k /\ h \in 1..k
    OBVIOUS
  <2> QED
    BY <2>1, LevelSame
<1> QED
  BY <1>2 DEF Clear

LEMMA TrapWaitsSame ==
    ASSUME NEW v, NEW w, NEW k \in Nat,
           \A i \in 1..k : v[i].kind = w[i].kind /\ v[i].saved.contflag = w[i].saved.contflag
    PROVE  \A i \in 1..(k + 1) : TrapWaits(v, i) <=> TrapWaits(w, i)
<1>1. \A i \in 1..(k + 1) : \A j \in 1..(i - 1) : j \in 1..k
  OBVIOUS
<1> QED
  BY <1>1 DEF TrapWaits

LEMMA LoopsFromSame ==
    ASSUME NEW v, NEW w, NEW k \in Nat, \A i \in 1..k : v[i].kind = w[i].kind
    PROVE  \A h \in 1..k, i \in 1..(k + 1) : LoopsFrom(v, h, i) = LoopsFrom(w, h, i)
<1>1. ASSUME NEW h \in 1..k, NEW i \in 1..(k + 1)
      PROVE  {j \in h..(i - 1) : v[j].kind \in LoopKinds}
                = {j \in h..(i - 1) : w[j].kind \in LoopKinds}
  OBVIOUS
<1> QED
  BY <1>1 DEF LoopsFrom

LEMMA AtConditionSame ==
    ASSUME NEW v, NEW w, NEW k \in Nat,
           \A i \in 1..k : /\ v[i].kind = w[i].kind
                           /\ w[i].kind \in LoopKinds => v[i].at = w[i].at
    PROVE  \A n : \A i \in 1..(k + 1) : AtCondition(v, i, n) <=> AtCondition(w, i, n)
<1>1. SUFFICES ASSUME NEW i \in 1..(k + 1), NEW n
               PROVE  AtCondition(v, i, n) <=> AtCondition(w, i, n)
  OBVIOUS
<1>2. \A h \in 1..(i - 1) : h \in 1..k
  OBVIOUS
<1>3. \A h \in 1..(i - 1) : LoopsFrom(v, h, i) = LoopsFrom(w, h, i)
  BY <1>2, LoopsFromSame
<1> QED
  BY <1>2, <1>3 DEF AtCondition

\* One construct more around what is counted.
LEMMA LoopsFromStep ==
    ASSUME NEW w, NEW m \in Nat, NEW h \in 1..m, NEW n, n = m + 1
    PROVE  /\ LoopsFrom(w, h, m) \in Nat
           /\ LoopsFrom(w, h, n) = IF w[m].kind \in LoopKinds THEN LoopsFrom(w, h, m) + 1
                                   ELSE LoopsFrom(w, h, m)
<1> DEFINE S == {j \in h..(m - 1) : w[j].kind \in LoopKinds}
           T == {j \in h..(n - 1) : w[j].kind \in LoopKinds}
<1>1. IsFiniteSet(S) /\ Cardinality(S) \in Nat
  <2>1. IsFiniteSet(h..(m - 1))
    BY FS_Interval
  <2>2. S \in SUBSET (h..(m - 1))
    OBVIOUS
  <2> HIDE DEF S
  <2>3. IsFiniteSet(S)
    BY <2>1, <2>2, FS_Subset
  <2> QED
    BY <2>3, FS_CardinalityType
<1>2. m \notin S
  OBVIOUS
<1>3. T = IF w[m].kind \in LoopKinds THEN S \cup {m} ELSE S
  OBVIOUS
<1>4. LoopsFrom(w, h, m) = Cardinality(S) /\ LoopsFrom(w, h, n) = Cardinality(T)
  BY DEF LoopsFrom
<1> HIDE DEF S, T
<1>5. Cardinality(S \cup {m}) = Cardinality(S) + 1
  BY <1>1, <1>2, FS_AddElement
<1> QED
  BY <1>1, <1>3, <1>4, <1>5

\* A loop at its condition is at it from one construct further inside too.
LEMMA AtConditionStep ==
    ASSUME NEW w, NEW m \in Nat, NEW b \in Nat, AtCondition(w, m, b), NEW n, n = m + 1
    PROVE  AtCondition(w, n, IF w[m].kind \in LoopKinds THEN b + 1 ELSE b)
<1>1. PICK h \in 1..(m - 1) : /\ w[h].kind \in LoopKinds /\ w[h].at = "cond"
                              /\ LoopsFrom(w, h, m) = b
  BY DEF AtCondition
<1>2. h \in 1..m /\ h \in 1..(n - 1)
  OBVIOUS
<1>3. LoopsFrom(w, h, n) = IF w[m].kind \in LoopKinds THEN b + 1 ELSE b
  BY <1>1, <1>2, LoopsFromStep
<1> QED
  BY <1>1, <1>2, <1>3 DEF AtCondition

\* The innermost loop at its condition.
LEMMA AtConditionTop ==
    ASSUME NEW w, NEW m \in Nat \ {0}, w[m].kind \in LoopKinds, w[m].at = "cond",
           NEW n, n = m + 1
    PROVE  AtCondition(w, n, 1)
<1>1. {j \in m..(m - 1) : w[j].kind \in LoopKinds} = {}
  OBVIOUS
<1>2. LoopsFrom(w, m, m) = 0
  BY <1>1, FS_EmptySet DEF LoopsFrom
<1>3. LoopsFrom(w, m, n) = 1
  BY <1>2, LoopsFromStep
<1> QED
  BY <1>3 DEF AtCondition

\* What is no loop does not count.
LEMMA AtConditionBack ==
    ASSUME NEW w, NEW m \in Nat, NEW n, n = m + 1, w[m].kind \notin LoopKinds,
           NEW b, AtCondition(w, n, b)
    PROVE  AtCondition(w, m, b)
<1>1. PICK h \in 1..(n - 1) : /\ w[h].kind \in LoopKinds /\ w[h].at = "cond"
                              /\ LoopsFrom(w, h, n) = b
  BY DEF AtCondition
<1>2. h \in 1..m /\ h # m
  BY <1>1
<1>3. h \in 1..(m - 1)
  BY <1>2
<1>4. LoopsFrom(w, h, n) = LoopsFrom(w, h, m)
  BY <1>2, LoopsFromStep
<1> QED
  BY <1>1, <1>3, <1>4 DEF AtCondition

\* The same of the stack itself.
LoopsIn(q) == {k \in DOMAIN q : q[k].kind \in LoopKinds}
ConditionIn(q, b) ==
    \E i \in LoopsIn(q) : q[i].at = "cond" /\ Cardinality({j \in LoopsIn(q) : j >= i}) = b

LEMMA AtConditionIn ==
    ASSUME NEW q \in Seq(Frame), NEW v, NEW m, m = Len(q), NEW n, n = m + 1,
           \A i \in 1..m : v[i] = q[i], NEW b, AtCondition(v, n, b)
    PROVE  ConditionIn(q, b)
<1>1. m \in Nat /\ n - 1 = m /\ DOMAIN q = 1..m
  OBVIOUS
<1>2. PICK k \in 1..m : v[k].kind \in LoopKinds /\ v[k].at = "cond" /\ LoopsFrom(v, k, n) = b
  BY <1>1 DEF AtCondition
<1>3. {j \in k..(n - 1) : v[j].kind \in LoopKinds}
         = {j \in LoopsIn(q) : j >= k}
  <2>1. \A j \in k..m : j \in 1..m
    OBVIOUS
  <2>2. \A j \in 1..m : j >= k => j \in k..m
    BY <1>1
  <2> QED
    BY <1>1, <2>1, <2>2 DEF LoopsIn
<1>4. k \in LoopsIn(q) /\ q[k].at = "cond"
  BY <1>1, <1>2 DEF LoopsIn
<1> QED
  BY <1>2, <1>3, <1>4 DEF LoopsFrom, ConditionIn

\* Levels grow inwards.
LEMMA LevelGrows ==
    ASSUME NEW w, NEW m \in Nat
    PROVE  /\ Level(w, m) \in Nat
           /\ \A i \in 0..m : Level(w, i) <= Level(w, m)
           /\ \A i \in 1..m : w[i].kind = "function" => Level(w, i) \in Nat \ {0}
<1> DEFINE S(i) == {k \in 1..i : w[k].kind = "function"}
<1>1. ASSUME NEW i \in Nat PROVE IsFiniteSet(S(i)) /\ Cardinality(S(i)) \in Nat
  <2>1. IsFiniteSet(1..i)
    BY FS_Interval
  <2>2. S(i) \in SUBSET (1..i)
    OBVIOUS
  <2> HIDE DEF S
  <2>3. IsFiniteSet(S(i))
    BY <2>1, <2>2, FS_Subset
  <2> QED
    BY <2>3, FS_CardinalityType
<1>2. \A i : Level(w, i) = Cardinality(S(i))
  BY DEF Level
<1>3. ASSUME NEW i \in 0..m PROVE Cardinality(S(i)) <= Cardinality(S(m))
  <2>1. S(i) \in SUBSET S(m)
    OBVIOUS
  <2> HIDE DEF S
  <2> QED
    BY <1>1, <2>1, FS_Subset
<1>4. ASSUME NEW i \in 1..m, w[i].kind = "function" PROVE Cardinality(S(i)) # 0
  <2>1. i \in S(i)
    BY <1>4
  <2>2. IsFiniteSet(S(i))
    BY <1>1
  <2> HIDE DEF S
  <2> QED
    BY <2>1, <2>2, FS_EmptySet
<1> HIDE DEF S
<1> QED
  BY <1>1, <1>2, <1>3, <1>4

LEMMA LevelStep ==
    ASSUME NEW w, NEW m \in Nat, NEW n, n = m + 1, w[n].kind = "function"
    PROVE  Level(w, n) = Level(w, m) + 1
<1> DEFINE S == {k \in 1..m : w[k].kind = "function"}
           T == {k \in 1..n : w[k].kind = "function"}
<1>1. IsFiniteSet(S)
  <2>1. IsFiniteSet(1..m)
    BY FS_Interval
  <2>2. S \in SUBSET (1..m)
    OBVIOUS
  <2> HIDE DEF S
  <2> QED
    BY <2>1, <2>2, FS_Subset
<1>2. T = S \cup {n} /\ n \notin S
  OBVIOUS
<1>3. Level(w, m) = Cardinality(S) /\ Level(w, n) = Cardinality(T)
  BY DEF Level
<1> HIDE DEF S, T
<1> QED
  BY <1>1, <1>2, <1>3, FS_AddElement

-----------------------------------------------------------------------------
(* How a step changes the stack, and what it has to show of the flags.     *)

LEMMA Prefix ==
    ASSUME NEW v, NEW w, NEW k \in Nat, \A i \in 1..k : v[i] = w[i]
    PROVE  /\ \A i \in 1..k : (Clean(v, i) <=> Clean(w, i)) /\ (Called(v, i) <=> Called(w, i))
           /\ \A i, j \in 1..k : Waits(v, j, i) <=> Waits(w, j, i)
<1>1. \A i \in 1..k : i \in 1..(k + 1)
  OBVIOUS
<1>2. \A i \in 1..k : TrapWaits(v, i) <=> TrapWaits(w, i)
  BY <1>1, TrapWaitsSame
<1>3. \A n : \A i \in 1..k : AtCondition(v, i, n) <=> AtCondition(w, i, n)
  BY <1>1, AtConditionSame
<1>4. \A i \in 1..k : Clean(v, i) <=> Clean(w, i)
  BY <1>2, <1>3 DEF Clean
<1>5. \A i \in 1..k : Called(v, i) <=> Called(w, i)
  BY <1>2 DEF Called
<1>6. \A i, j \in 1..k : Waits(v, j, i) <=> Waits(w, j, i)
  BY DEF Waits
<1> QED
  BY <1>4, <1>5, <1>6

\* The same constructs; the innermost may be at another of its lists.
LEMMA FlagsKeep ==
    ASSUME NEW v, NEW w, NEW m \in Nat, NEW n, n = m + 1, NEW x, Jumps(w, n, x),
           \A i \in 1..(m - 1) : v[i] = w[i],
           \A i \in 1..m : /\ v[i].kind = w[i].kind
                           /\ v[i].saved.breaks = w[i].saved.breaks
                           /\ v[i].saved.contflag = w[i].saved.contflag
                           /\ v[i].saved.retflag = w[i].saved.retflag
                           /\ v[i].trap_return = w[i].trap_return
                           /\ Holds(v[i]) <=> Holds(w[i]),
           v[n].kind = "now", v[n].trap_return = NoReturn, Holds(v[n]),
           w[n].kind = "now", w[n].trap_return = NoReturn,
           w[n].saved.retflag => v[n].saved.retflag,
           Clean(v, n), \A j \in 1..m : Waits(v, j, n)
    PROVE  Jumps(v, n, x)
<1>1. \A i \in 1..n : v[i].kind = w[i].kind /\ (Holds(w[i]) => Holds(v[i]))
                       /\ v[i].trap_return = w[i].trap_return
                       /\ (w[i].saved.retflag => v[i].saved.retflag)
  <2>1. \A i \in 1..n : i \in 1..m \/ i = n
    OBVIOUS
  <2> QED
    BY <2>1, Zenon
<1> DEFINE Kin == \A i \in 1..n : v[i].kind = w[i].kind
<1>2. \A i \in 1..n : Level(v, i) = Level(w, i)
  <2>1. n \in Nat /\ Kin /\ \A i \in 1..n : i \in 0..n
    BY <1>1
  <2> QED
    BY <2>1, LevelSame, ZenonT(60)
<1>3. \A i \in 1..n, j \in 1..n : Clear(v, x, i, j) <=> Clear(w, x, i, j)
  <2>1. n \in Nat /\ Kin /\ \A i \in 1..n : i \in Nat /\ i \in 1..(n + 1)
    BY <1>1
  <2> QED
    BY <2>1, ClearSame
<1>4. \A i \in 1..m : TrapWaits(v, i) <=> TrapWaits(w, i)
  <2>1. \A i \in 1..m : v[i].kind = w[i].kind /\ v[i].saved.contflag = w[i].saved.contflag
    OBVIOUS
  <2>2. \A i \in 1..(m + 1) : TrapWaits(v, i) <=> TrapWaits(w, i)
    BY <2>1, TrapWaitsSame, ZenonT(60)
  <2>3. \A i \in 1..m : i \in 1..(m + 1)
    OBVIOUS
  <2> QED
    BY <2>2, <2>3, Zenon
<1>5. \A b : \A i \in 1..m : AtCondition(v, i, b) <=> AtCondition(w, i, b)
  <2>1. CASE m = 0
    BY <2>1
  <2>2. CASE m # 0
    <3> DEFINE k == m - 1
    <3>1. k \in Nat /\ m = k + 1 /\ \A i \in 1..k : v[i].kind = w[i].kind /\ v[i].at = w[i].at
      BY <2>2
    <3> HIDE DEF k
    <3> QED
      BY <3>1, AtConditionSame
  <2> QED
    BY <2>1, <2>2
<1>6. OneTrap(v, n)
  BY <1>1 DEF OneTrap, Jumps
<1>7. ASSUME NEW i \in 1..n
      PROVE  Clean(v, i) /\ Called(v, i) /\ Exits(v, n, x, i) /\ Forced(v, n, x, i)
  <2>1. Clean(w, i) /\ Called(w, i) /\ Exits(w, n, x, i) /\ Forced(w, n, x, i)
    BY DEF Jumps
  <2>2. Clean(v, i) /\ Called(v, i)
    <3>1. CASE i = n
      BY <3>1 DEF Called
    <3>2. CASE i # n
      <4>1. i \in 1..m
        BY <3>2
      <4> QED
        BY <2>1, <1>4, <1>5, <4>1 DEF Clean, Called
    <3> QED
      BY <3>1, <3>2
  <2>3. \A j \in (i + 1)..n : j \in 1..n
    OBVIOUS
  <2>4. Exits(v, n, x, i)
    BY <1>1, <1>2, <1>3, <2>1, <2>3 DEF Exits, Leaves
  <2>5. Forced(v, n, x, i)
    <3>1. \A j \in (i + 1)..n : \A k \in (i + 1)..(j - 1) : k \in 1..n
      OBVIOUS
    <3> QED
      BY <1>1, <1>3, <2>1, <2>3, <3>1 DEF Forced, Returns
  <2> QED
    BY <2>2, <2>4, <2>5
<1>8. ASSUME NEW i \in 1..n, NEW j \in 1..n PROVE Waits(v, j, i)
  <2>1. CASE i = n
    <3>1. CASE j = n
      BY <2>1, <3>1 DEF Waits
    <3>2. CASE j # n
      BY <2>1, <3>2
    <3> QED
      BY <3>1, <3>2
  <2>2. CASE i # n
    <3>1. CASE j = n
      BY <2>2, <3>1 DEF Waits
    <3>2. CASE j # n
      <4>1. i \in 1..m /\ j \in 1..m /\ Waits(w, j, i)
        BY <2>2, <3>2 DEF Jumps
      <4> QED
        BY <4>1 DEF Waits
    <3> QED
      BY <3>1, <3>2
  <2> QED
    BY <2>1, <2>2
<1> QED
  BY <1>6, <1>7, <1>8 DEF Jumps

\* The innermost construct is left.
LEMMA PopKeep ==
    ASSUME NEW v, NEW w, NEW m \in Nat \ {0}, NEW n, n = m + 1, NEW x \in Nat,
           Jumps(w, n, x),
           \A i \in 1..(m - 1) : v[i] = w[i],
           v[m].kind = "now", v[m].trap_return = NoReturn, Holds(v[m]),
           w[n].kind = "now", w[n].trap_return = NoReturn,
           Holds(w[m]) /\ (w[m].saved.retflag \/ w[m].trap_return # NoReturn)
               => v[m].saved.retflag,
           w[n].saved.retflag /\ w[m].kind # "trap"
               /\ (w[m].kind = "function" => Level(w, m) <= x)
               /\ (w[m].kind = "source" => x > 0) => v[m].saved.retflag,
           Clean(v, m), \A j \in 1..(m - 1) : Waits(v, j, m)
    PROVE  Jumps(v, m, x)
<1> DEFINE k == m - 1
<1>1. k \in Nat /\ m = k + 1 /\ n = k + 2 /\ \A i \in 1..k : v[i] = w[i]
  OBVIOUS
<1> HIDE DEF k
<1>2. /\ \A i \in 0..k : Level(v, i) = Level(w, i)
      /\ \A i \in Nat, j \in 1..m : Clear(v, x, i, j) <=> Clear(w, x, i, j)
  <2>1. \A i \in 1..k : v[i].kind = w[i].kind
    BY <1>1
  <2>2. \A i \in 0..k : Level(v, i) = Level(w, i)
    BY <1>1, <2>1, LevelSame
  <2>3. \A i \in Nat, j \in 1..m : Clear(v, x, i, j) <=> Clear(w, x, i, j)
    BY <1>1, <2>1, ClearSame
  <2> QED
    BY <2>2, <2>3
<1>3. /\ \A i \in 1..k : (Clean(v, i) <=> Clean(w, i)) /\ (Called(v, i) <=> Called(w, i))
      /\ \A i, j \in 1..k : Waits(v, j, i) <=> Waits(w, j, i)
  BY <1>1, Prefix
<1>4. \A i \in 1..m : i \in 1..n
  BY <1>1
<1>5. OneTrap(v, m)
  <2>1. \A i \in 1..m : v[i].kind = "trap" => i \in 1..k
    BY <1>1
  <2> QED
    BY <1>1, <1>4, <2>1 DEF OneTrap, Jumps
<1>6. ASSUME NEW i \in 1..k, Clear(w, x, i, n)
      PROVE  /\ w[m].kind # "trap"
             /\ w[m].kind = "function" => Level(w, m) <= x
             /\ Clear(w, x, i, m)
  <2>1. m \in (i + 1)..(n - 1)
    BY <1>1
  <2>2. \A h \in (i + 1)..(m - 1) : h \in (i + 1)..(n - 1)
    BY <1>1
  <2> QED
    BY <1>6, <2>1, <2>2 DEF Clear
<1>7. ASSUME NEW i \in 1..k PROVE Exits(v, m, x, i)
  <2>1. Exits(w, n, x, i) /\ i \in 0..k /\ v[i] = w[i]
    BY <1>1, <1>4 DEF Jumps
  <2>2. SUFFICES ASSUME w[i].kind = "function", Level(w, i) <= x
                 PROVE  \E j \in (i + 1)..m : Leaves(v, x, i, j)
    BY <1>2, <2>1 DEF Exits
  <2>3. PICK j \in (i + 1)..n : Leaves(w, x, i, j)
    BY <2>1, <2>2 DEF Exits
  <2>4. CASE j \in (i + 1)..k
    <3>1. j \in 1..m /\ j \in 1..k /\ i \in Nat /\ j \in (i + 1)..m
      BY <1>1, <2>4
    <3>2. v[j] = w[j] /\ Clear(v, x, i, j)
      BY <1>1, <1>2, <2>3, <3>1 DEF Leaves
    <3> QED
      BY <2>3, <3>1, <3>2 DEF Leaves
  <2>5. CASE j = m
    <3>1. m \in (i + 1)..m /\ i \in Nat /\ m \in 1..m
      BY <1>1
    <3>2. Clear(v, x, i, m) /\ v[m].saved.retflag
      BY <1>2, <2>3, <2>5, <3>1 DEF Leaves
    <3> QED
      BY <3>1, <3>2 DEF Leaves
  <2>6. CASE j = n
    <3>1. m \in (i + 1)..m /\ i \in Nat /\ m \in 1..m
      BY <1>1
    <3>2. w[n].saved.retflag
      BY <2>3, <2>6 DEF Leaves
    <3>3. /\ w[m].kind # "trap"
          /\ w[m].kind = "function" => Level(w, m) <= x
          /\ Clear(w, x, i, m)
      BY <1>6, <2>3, <2>6 DEF Leaves
    <3>4. x > 0
      <4>1. Level(w, i) \in Nat \ {0}
        <5>1. i \in 1..m
          BY <1>1
        <5> QED
          BY <2>2, <5>1, LevelGrows
      <4> QED
        BY <2>2, <4>1
    <3>5. v[m].saved.retflag
      BY <3>2, <3>3, <3>4
    <3>6. Clear(v, x, i, m)
      BY <1>2, <3>1, <3>3
    <3> QED
      BY <3>1, <3>5, <3>6 DEF Leaves
  <2>7. j \in (i + 1)..k \/ j = m \/ j = n
    BY <1>1
  <2> QED
    BY <2>4, <2>5, <2>6, <2>7
<1>8. ASSUME NEW i \in 1..k PROVE Forced(v, m, x, i)
  <2>1. Forced(w, n, x, i) /\ v[i] = w[i]
    BY <1>1, <1>4 DEF Jumps
  <2>2. SUFFICES ASSUME w[i].trap_return # NoReturn
                 PROVE  \E j \in (i + 1)..m : Returns(v, x, i, j)
    BY <2>1 DEF Forced
  <2>3. PICK j \in (i + 1)..n : Returns(w, x, i, j)
    BY <2>1, <2>2 DEF Forced
  <2>4. CASE j \in (i + 1)..k
    <3>1. j \in 1..m /\ j \in 1..k /\ i \in Nat /\ j \in (i + 1)..m
          /\ \A h \in (i + 1)..(j - 1) : h \in 1..k
      BY <1>1, <2>4
    <3>2. v[j] = w[j] /\ Clear(v, x, i, j)
          /\ \A h \in (i + 1)..(j - 1) : v[h].kind # "source"
      BY <1>1, <1>2, <2>3, <3>1 DEF Returns
    <3> QED
      BY <2>3, <3>1, <3>2 DEF Returns
  <2>5. CASE j = m
    <3>1. m \in (i + 1)..m /\ i \in Nat /\ m \in 1..m
          /\ \A h \in (i + 1)..(m - 1) : h \in 1..k
      BY <1>1
    <3>2. Clear(v, x, i, m) /\ v[m].saved.retflag
          /\ \A h \in (i + 1)..(m - 1) : v[h].kind # "source"
      BY <1>1, <1>2, <2>3, <2>5, <3>1 DEF Returns
    <3> QED
      BY <3>1, <3>2 DEF Returns
  <2>6. CASE j = n
    <3>1. m \in (i + 1)..m /\ i \in Nat /\ m \in 1..m
          /\ \A h \in (i + 1)..(m - 1) : h \in 1..k /\ h \in (i + 1)..(n - 1)
      BY <1>1
    <3>2. w[n].saved.retflag
      BY <2>3, <2>6 DEF Returns
    <3>3. /\ w[m].kind # "trap"
          /\ w[m].kind = "function" => Level(w, m) <= x
          /\ Clear(w, x, i, m)
      BY <1>6, <2>3, <2>6 DEF Returns
    <3>4. w[m].kind # "source"
      <4>1. m \in (i + 1)..(n - 1)
        BY <1>1
      <4> QED
        BY <2>3, <2>6, <4>1 DEF Returns
    <3>5. v[m].saved.retflag
      BY <3>2, <3>3, <3>4
    <3>6. Clear(v, x, i, m)
      BY <1>2, <3>1, <3>3
    <3>7. \A h \in (i + 1)..(m - 1) : v[h].kind # "source"
      BY <1>1, <2>3, <2>6, <3>1 DEF Returns
    <3> QED
      BY <3>1, <3>5, <3>6, <3>7 DEF Returns
  <2>7. j \in (i + 1)..k \/ j = m \/ j = n
    BY <1>1
  <2> QED
    BY <2>4, <2>5, <2>6, <2>7
<1>9. ASSUME NEW i \in 1..m
      PROVE  Clean(v, i) /\ Called(v, i) /\ Exits(v, m, x, i) /\ Forced(v, m, x, i)
  <2>1. CASE i = m
    BY <2>1 DEF Called, Exits, Forced
  <2>2. CASE i # m
    <3>1. i \in 1..k
      BY <1>1, <2>2
    <3>2. Clean(w, i) /\ Called(w, i)
      BY <1>4 DEF Jumps
    <3> QED
      BY <1>3, <1>7, <1>8, <3>1, <3>2
  <2> QED
    BY <2>1, <2>2
<1>10. ASSUME NEW i \in 1..m, NEW j \in 1..m PROVE Waits(v, j, i)
  <2>1. CASE ~(j < i)
    BY <2>1 DEF Waits
  <2>2. CASE j < i /\ i = m
    BY <2>2
  <2>3. CASE j < i /\ i # m
    <3>1. i \in 1..k /\ j \in 1..k
      BY <1>1, <2>3
    <3>2. Waits(w, j, i)
      BY <1>4 DEF Jumps
    <3> QED
      BY <1>3, <3>1, <3>2
  <2> QED
    BY <2>1, <2>2, <2>3
<1> QED
  BY <1>5, <1>9, <1>10 DEF Jumps

\* A construct is opened; a jump that is on its way waits in it (a trap).
LEMMA PushKeep ==
    ASSUME NEW v, NEW w, NEW m \in Nat, NEW n, n = m + 1, NEW o, o = m + 2, NEW x,
           Jumps(w, n, x),
           \A i \in 1..m : v[i] = w[i],
           v[n].trap_return = NoReturn,
           v[o].kind = "now", v[o].trap_return = NoReturn, Holds(v[o]),
           w[n].kind = "now", w[n].trap_return = NoReturn,
           w[n].saved.retflag =>
               \/ Holds(v[n]) /\ v[n].saved.retflag
               \/ v[o].saved.retflag /\ v[n].kind \notin {"function", "source", "trap"},
           v[n].kind = "trap" => \A i \in 1..m : w[i].kind # "trap",
           v[n].kind = "function" => ~(Level(v, n) <= x),
           Called(v, n), Clean(v, n), Clean(v, o),
           \A j \in 1..m : Waits(v, j, n) /\ Waits(v, j, o), Waits(v, n, o)
    PROVE  Jumps(v, o, x)
<1>1. \A i \in 1..m : i \in 1..n
  OBVIOUS
<1>2. \A i \in 0..m : Level(v, i) = Level(w, i)
  <2>1. \A i \in 1..m : v[i].kind = w[i].kind
    OBVIOUS
  <2> QED
    BY <2>1, LevelSame
<1>3. \A i \in Nat, j \in 1..n : Clear(v, x, i, j) <=> Clear(w, x, i, j)
  <2>1. \A i \in 1..m : v[i].kind = w[i].kind
    OBVIOUS
  <2> QED
    BY <2>1, ClearSame
<1>4. /\ \A i \in 1..m : (Clean(v, i) <=> Clean(w, i)) /\ (Called(v, i) <=> Called(w, i))
      /\ \A i, j \in 1..m : Waits(v, j, i) <=> Waits(w, j, i)
  BY Prefix
<1>5. OneTrap(v, o)
  <2>1. SUFFICES ASSUME NEW i \in 1..o, NEW j \in 1..o, v[i].kind = "trap", v[j].kind = "trap"
                 PROVE  i = j
    BY DEF OneTrap
  <2>2. i \in 1..m \/ i = n
    BY <2>1
  <2>3. j \in 1..m \/ j = n
    BY <2>1
  <2>4. i \in 1..m /\ j \in 1..m => i = j
    BY <1>1, <2>1 DEF OneTrap, Jumps
  <2> QED
    BY <2>1, <2>2, <2>3, <2>4
<1>6. ASSUME NEW i \in 1..m PROVE Exits(v, o, x, i)
  <2>1. Exits(w, n, x, i) /\ i \in 0..m /\ i \in Nat /\ v[i] = w[i]
    BY <1>1 DEF Jumps
  <2>2. SUFFICES ASSUME w[i].kind = "function", Level(w, i) <= x
                 PROVE  \E j \in (i + 1)..o : Leaves(v, x, i, j)
    BY <1>2, <2>1 DEF Exits
  <2>3. PICK j \in (i + 1)..n : Leaves(w, x, i, j)
    BY <2>1, <2>2 DEF Exits
  <2>4. j \in (i + 1)..o /\ j \in 1..n /\ Clear(v, x, i, j)
    BY <1>3, <2>1, <2>3 DEF Leaves
  <2>5. CASE j \in 1..m
    BY <2>3, <2>4, <2>5 DEF Leaves
  <2>6. CASE j = n /\ Holds(v[n]) /\ v[n].saved.retflag
    BY <2>3, <2>4, <2>6 DEF Leaves
  <2>7. CASE j = n /\ v[o].saved.retflag /\ v[n].kind \notin {"function", "source", "trap"}
    <3>1. \A h \in (i + 1)..(o - 1) : h \in (i + 1)..(n - 1) \/ h = n
      BY <2>1
    <3>2. Clear(v, x, i, o)
      BY <2>4, <2>7, <3>1 DEF Clear
    <3>3. o \in (i + 1)..o
      BY <2>1
    <3> QED
      BY <2>7, <3>2, <3>3 DEF Leaves
  <2>8. j = n => w[n].saved.retflag
    BY <2>3 DEF Leaves
  <2> QED
    BY <2>4, <2>5, <2>6, <2>7, <2>8
<1>7. ASSUME NEW i \in 1..m PROVE Forced(v, o, x, i)
  <2>1. Forced(w, n, x, i) /\ i \in 0..m /\ i \in Nat /\ v[i] = w[i]
    BY <1>1 DEF Jumps
  <2>2. SUFFICES ASSUME w[i].trap_return # NoReturn
                 PROVE  \E j \in (i + 1)..o : Returns(v, x, i, j)
    BY <2>1 DEF Forced
  <2>3. PICK j \in (i + 1)..n : Returns(w, x, i, j)
    BY <2>1, <2>2 DEF Forced
  <2>4. j \in (i + 1)..o /\ j \in 1..n /\ Clear(v, x, i, j)
        /\ \A h \in (i + 1)..(j - 1) : h \in 1..m
    BY <1>3, <2>1, <2>3 DEF Returns
  <2>5. \A h \in (i + 1)..(j - 1) : v[h].kind # "source"
    BY <2>3, <2>4 DEF Returns
  <2>6. CASE j \in 1..m
    BY <2>3, <2>4, <2>5, <2>6 DEF Returns
  <2>7. CASE j = n /\ Holds(v[n]) /\ v[n].saved.retflag
    BY <2>3, <2>4, <2>5, <2>7 DEF Returns
  <2>8. CASE j = n /\ v[o].saved.retflag /\ v[n].kind \notin {"function", "source", "trap"}
    <3>1. \A h \in (i + 1)..(o - 1) : h \in (i + 1)..(n - 1) \/ h = n
      BY <2>1
    <3>2. Clear(v, x, i, o)
      BY <2>4, <2>8, <3>1 DEF Clear
    <3>3. \A h \in (i + 1)..(o - 1) : v[h].kind # "source"
      BY <2>5, <2>8, <3>1
    <3>4. o \in (i + 1)..o
      BY <2>1
    <3> QED
      BY <2>8, <3>2, <3>3, <3>4 DEF Returns
  <2>9. j = n => w[n].saved.retflag
    BY <2>3 DEF Returns
  <2> QED
    BY <2>4, <2>6, <2>7, <2>8, <2>9
<1>8. ASSUME NEW i \in 1..o
      PROVE  Clean(v, i) /\ Called(v, i) /\ Exits(v, o, x, i) /\ Forced(v, o, x, i)
  <2>1. CASE i = o
    BY <2>1 DEF Called, Exits, Forced
  <2>2. CASE i = n
    BY <2>2 DEF Exits, Forced
  <2>3. CASE i \in 1..m
    <3>1. Clean(w, i) /\ Called(w, i)
      BY <1>1, <2>3 DEF Jumps
    <3> QED
      BY <1>4, <1>6, <1>7, <2>3, <3>1
  <2> QED
    BY <2>1, <2>2, <2>3
<1>9. ASSUME NEW i \in 1..o, NEW j \in 1..o PROVE Waits(v, j, i)
  <2>1. CASE ~(j < i)
    BY <2>1 DEF Waits
  <2>2. CASE j < i /\ i \in 1..m
    <3>1. j \in 1..m /\ Waits(w, j, i)
      BY <1>1, <2>2 DEF Jumps
    <3> QED
      BY <1>4, <2>2, <3>1
  <2>3. CASE j < i /\ i = n
    <3>1. j \in 1..m
      BY <2>3
    <3> QED
      BY <2>3, <3>1
  <2>4. CASE j < i /\ i = o
    <3>1. j \in 1..m \/ j = n
      BY <2>4
    <3> QED
      BY <2>4, <3>1
  <2> QED
    BY <2>1, <2>2, <2>3, <2>4
<1> QED
  BY <1>5, <1>8, <1>9 DEF Jumps

\* An always list begins: the try construct holds what the try list left.
LEMMA HoldKeep ==
    ASSUME NEW v, NEW w, NEW m \in Nat \ {0}, NEW n, n = m + 1, NEW x,
           Jumps(w, n, x),
           \A i \in 1..(m - 1) : v[i] = w[i],
           w[m].kind = "try", w[m].trap_return = NoReturn,
           v[m].kind = "try", v[m].trap_return = NoReturn, Holds(v[m]),
           v[m].saved.breaks = w[n].saved.breaks,
           v[m].saved.contflag = w[n].saved.contflag,
           v[m].saved.retflag = w[n].saved.retflag,
           w[n].saved.breaks \in Nat,
           w[n].kind = "now", w[n].trap_return = NoReturn, Holds(w[n]), ~Holds(w[m]),
           v[n].kind = "now", v[n].trap_return = NoReturn,
           v[n].saved.breaks = 0, ~v[n].saved.contflag, ~v[n].saved.retflag
    PROVE  Jumps(v, n, x)
<1> DEFINE k == m - 1
<1>1. k \in Nat /\ m = k + 1 /\ n = k + 2 /\ \A i \in 1..k : v[i] = w[i] /\ i \in 1..n
  OBVIOUS
<1> HIDE DEF k
<1>2. \A i \in 0..k : Level(v, i) = Level(w, i)
  <2>1. \A i \in 1..k : v[i].kind = w[i].kind
    BY <1>1
  <2>2. k \in Nat
    BY <1>1
  <2> QED
    BY <2>1, <2>2, LevelSame, ZenonT(60)
<1>3. \A i \in Nat, j \in 1..m : Clear(v, x, i, j) <=> Clear(w, x, i, j)
  <2>1. \A i \in 1..k : v[i].kind = w[i].kind
    BY <1>1
  <2> QED
    BY <1>1, <2>1, ClearSame
<1>4. /\ \A i \in 1..k : (Clean(v, i) <=> Clean(w, i)) /\ (Called(v, i) <=> Called(w, i))
      /\ \A i, j \in 1..k : Waits(v, j, i) <=> Waits(w, j, i)
  BY <1>1, Prefix
<1>5. OneTrap(v, n)
  <2>1. \A i \in 1..n : v[i].kind = "trap" => i \in 1..k
    BY <1>1
  <2> QED
    BY <1>1, <2>1 DEF OneTrap, Jumps
<1>6. ASSUME NEW i \in 1..k, Clear(w, x, i, n) PROVE Clear(v, x, i, m)
  <2>1. \A h \in (i + 1)..(m - 1) : h \in (i + 1)..(n - 1)
    BY <1>1
  <2>2. Clear(w, x, i, m)
    BY <1>6, <2>1 DEF Clear
  <2>3. i \in Nat /\ m \in 1..m
    BY <1>1
  <2> QED
    BY <1>3, <2>2, <2>3
<1>7. ASSUME NEW i \in 1..k PROVE Exits(v, n, x, i)
  <2>1. Exits(w, n, x, i) /\ i \in 0..k /\ i \in Nat /\ v[i] = w[i]
    BY <1>1 DEF Jumps
  <2>2. SUFFICES ASSUME w[i].kind = "function", Level(w, i) <= x
                 PROVE  \E j \in (i + 1)..n : Leaves(v, x, i, j)
    BY <1>2, <2>1 DEF Exits
  <2>3. PICK j \in (i + 1)..n : Leaves(w, x, i, j)
    BY <2>1, <2>2 DEF Exits
  <2>4. CASE j \in 1..k
    <3>1. j \in (i + 1)..n /\ j \in 1..m
      BY <1>1, <2>4
    <3>2. v[j] = w[j] /\ Clear(v, x, i, j)
      BY <1>1, <1>3, <2>1, <2>3, <2>4, <3>1 DEF Leaves
    <3> QED
      BY <2>3, <3>1, <3>2 DEF Leaves
  <2>5. CASE j = m
    BY <2>3, <2>5 DEF Leaves
  <2>6. CASE j = n
    <3>1. m \in (i + 1)..n
      BY <1>1
    <3>2. Clear(v, x, i, m) /\ w[n].saved.retflag
      BY <1>6, <2>3, <2>6 DEF Leaves
    <3>3. v[m].saved.retflag
      BY <3>2
    <3>4. Leaves(v, x, i, m)
      BY <3>2, <3>3 DEF Leaves
    <3> QED
      BY <3>1, <3>4
  <2>7. j \in 1..k \/ j = m \/ j = n
    BY <1>1
  <2> QED
    BY <2>4, <2>5, <2>6, <2>7
<1>8. ASSUME NEW i \in 1..k PROVE Forced(v, n, x, i)
  <2>1. Forced(w, n, x, i) /\ i \in 0..k /\ i \in Nat /\ v[i] = w[i]
    BY <1>1 DEF Jumps
  <2>2. SUFFICES ASSUME w[i].trap_return # NoReturn
                 PROVE  \E j \in (i + 1)..n : Returns(v, x, i, j)
    BY <2>1 DEF Forced
  <2>3. PICK j \in (i + 1)..n : Returns(w, x, i, j)
    BY <2>1, <2>2 DEF Forced
  <2>4. CASE j \in 1..k
    <3>1. j \in (i + 1)..n /\ j \in 1..m /\ \A h \in (i + 1)..(j - 1) : h \in 1..k
      BY <1>1, <2>4
    <3>2. v[j] = w[j] /\ Clear(v, x, i, j) /\ \A h \in (i + 1)..(j - 1) : v[h].kind # "source"
      BY <1>1, <1>3, <2>1, <2>3, <2>4, <3>1 DEF Returns
    <3> QED
      BY <2>3, <3>1, <3>2 DEF Returns
  <2>5. CASE j = m
    BY <2>3, <2>5 DEF Returns
  <2>6. CASE j = n
    <3>1. m \in (i + 1)..n /\ \A h \in (i + 1)..(m - 1) : h \in 1..k /\ h \in (i + 1)..(n - 1)
      BY <1>1
    <3>2. Clear(v, x, i, m) /\ w[n].saved.retflag
      BY <1>6, <2>3, <2>6 DEF Returns
    <3>3. v[m].saved.retflag
      BY <3>2
    <3>4. \A h \in (i + 1)..(m - 1) : v[h].kind # "source"
      BY <1>1, <2>3, <2>6, <3>1 DEF Returns
    <3>5. Returns(v, x, i, m)
      BY <3>2, <3>3, <3>4 DEF Returns
    <3> QED
      BY <3>1, <3>5
  <2>7. j \in 1..k \/ j = m \/ j = n
    BY <1>1
  <2> QED
    BY <2>4, <2>5, <2>6, <2>7
<1>9. Clean(v, m) /\ \A j \in 1..k : Waits(v, j, m)
  <2>1. Clean(w, n) /\ \A j \in 1..k : Waits(w, j, n)
    BY <1>1 DEF Jumps
  <2>2. TrapWaits(w, n) => TrapWaits(v, m)
    <3>1. \A j \in 1..(n - 1) : j \in 1..(m - 1) \/ j = m
      BY <1>1
    <3> QED
      BY <3>1, ZenonT(60) DEF TrapWaits
  <2>3. ASSUME NEW b \in Nat, AtCondition(v, m, b) PROVE AtCondition(w, n, b)
    <3>1. AtCondition(w, m, b)
      <4>1. \A i \in 1..k : v[i].kind = w[i].kind /\ v[i].at = w[i].at
        BY <1>1
      <4>2. m \in 1..(k + 1)
        BY <1>1
      <4> QED
        BY <1>1, <2>3, <4>1, <4>2, AtConditionSame
    <3>2. w[m].kind \notin LoopKinds
      BY DEF LoopKinds
    <3> QED
      BY <3>1, <3>2, AtConditionStep
  <2>4. Clean(v, m)
    BY <2>1, <2>2, <2>3 DEF Clean
  <2>5. \A j \in 1..k : Waits(v, j, m)
    <3>1. \A j \in 1..k : j < m /\ j < n /\ v[j] = w[j]
      BY <1>1
    <3> QED
      BY <2>1, <3>1 DEF Waits
  <2> QED
    BY <2>4, <2>5
<1>10. ASSUME NEW i \in 1..n
       PROVE  Clean(v, i) /\ Called(v, i) /\ Exits(v, n, x, i) /\ Forced(v, n, x, i)
  <2>1. CASE i = n
    BY <2>1 DEF Clean, Called, Exits, Forced
  <2>2. CASE i = m
    BY <1>9, <2>2 DEF Called, Exits, Forced
  <2>3. CASE i \in 1..k
    <3>1. Clean(w, i) /\ Called(w, i)
      BY <1>1, <2>3 DEF Jumps
    <3> QED
      BY <1>4, <1>7, <1>8, <2>3, <3>1
  <2> QED
    BY <1>1, <2>1, <2>2, <2>3
<1>11. ASSUME NEW i \in 1..n, NEW j \in 1..n PROVE Waits(v, j, i)
  <2>1. CASE ~(j < i)
    BY <2>1 DEF Waits
  <2>2. CASE i = n
    BY <2>2 DEF Waits
  <2>3. CASE j < i /\ i = m
    <3>1. j \in 1..k
      BY <1>1, <2>3
    <3> QED
      BY <1>9, <2>3, <3>1
  <2>4. CASE j < i /\ i \in 1..k
    <3>1. j \in 1..k /\ Waits(w, j, i)
      BY <1>1, <2>4 DEF Jumps
    <3> QED
      BY <1>4, <2>4, <3>1
  <2> QED
    BY <1>1, <2>1, <2>2, <2>3, <2>4
<1> QED
  BY <1>5, <1>10, <1>11 DEF Jumps

-----------------------------------------------------------------------------
(* The state before and after a step.                                      *)

After == AllOf(stack', Saved')

LEMMA AllFacts ==
    ASSUME NEW q \in Seq(Frame), NEW f
    PROVE  /\ Len(q) \in Nat
           /\ \A i \in 1..Len(q) : AllOf(q, f)[i] = q[i] /\ q[i] \in Frame
           /\ AllOf(q, f)[Len(q) + 1].kind = "now"
           /\ AllOf(q, f)[Len(q) + 1].trap_return = NoReturn
           /\ Holds(AllOf(q, f)[Len(q) + 1])
           /\ AllOf(q, f)[Len(q) + 1].saved = f
<1> DEFINE m == Len(q)
           v == AllOf(q, f)
<1>1. m \in Nat /\ \A i \in 1..m : q[i] \in Frame
  OBVIOUS
<1>2. (\A i \in 1..m : v[i] = q[i]) /\ v[m + 1] = Now(f)
  <2>1. q = [i \in 1..m |-> q[i]]
    OBVIOUS
  <2> QED
    BY <1>1, <2>1 DEF AllOf
<1>3. Now(f).kind = "now" /\ Now(f).trap_return = NoReturn /\ Holds(Now(f))
      /\ Now(f).saved = f
  BY DEF Now, Holds
<1> HIDE DEF m, v
<1> QED
  BY <1>1, <1>2, <1>3 DEF m, v

LEMMA Here ==
    ASSUME IInv, NEW m, m = Len(stack), NEW n, n = m + 1
    PROVE  /\ m \in Nat
           /\ \A i \in 1..m : All[i] = stack[i] /\ stack[i] \in Frame
           /\ All[n].kind = "now" /\ All[n].trap_return = NoReturn /\ Holds(All[n])
           /\ All[n].saved.breaks = breaks /\ All[n].saved.contflag = contflag
           /\ All[n].saved.retflag = retflag
<1>1. stack \in Seq(Frame)
  BY Types
<1>2. Saved.breaks = breaks /\ Saved.contflag = contflag /\ Saved.retflag = retflag
  BY DEF Saved
<1> QED
  BY <1>1, <1>2, AllFacts DEF All

LEMMA There ==
    ASSUME stack' \in Seq(Frame), NEW m, m = Len(stack'), NEW n, n = m + 1
    PROVE  /\ m \in Nat
           /\ \A i \in 1..m : After[i] = stack'[i] /\ stack'[i] \in Frame
           /\ After[n].kind = "now" /\ After[n].trap_return = NoReturn /\ Holds(After[n])
           /\ After[n].saved.breaks = breaks' /\ After[n].saved.contflag = contflag'
           /\ After[n].saved.retflag = retflag'
<1>2. Saved'.breaks = breaks' /\ Saved'.contflag = contflag' /\ Saved'.retflag = retflag'
  BY DEF Saved
<1> QED
  BY <1>2, AllFacts DEF After

\* What a step of a script in progress starts from, and has to show.
Ready == IInv /\ Orderly /\ Jumps(All, Len(stack) + 1, exit_level) /\ stack' \in Seq(Frame)
Shown == Jumps(After, Len(stack') + 1, exit_level')

\* The list of the current flags and those held.
LEMMA Current ==
    ASSUME Ready, NEW n, n = Len(stack) + 1
    PROVE  /\ Clean(All, n)
           /\ \A j \in 1..Len(stack) : Waits(All, j, n)
           /\ \A j \in 1..Len(stack) : Clean(All, j)
<1>1. Len(stack) \in Nat
  BY Here DEF Ready
<1>2. n \in 1..n /\ \A j \in 1..Len(stack) : j \in 1..n
  BY <1>1
<1> QED
  BY <1>2 DEF Ready, Jumps

\* Where a jump may be made, no `continue' is on its way.
LEMMA NoContinue ==
    ASSUME Ready, MayJump
    PROVE  ~contflag /\ \A j \in 1..Len(stack) : Holds(stack[j]) => ~stack[j].saved.contflag
<1>1. stack \in Seq(Frame) /\ DOMAIN stack = 1..Len(stack) /\ contflag \in BOOLEAN
  BY Types DEF Ready
<1>2. ~ContinueWaits
  BY DEF MayJump, Ready, Orderly
<1>3. \A j \in 1..Len(stack) : Holds(stack[j]) => stack[j].saved \in Held
  BY <1>1 DEF Held
<1>4. \A j \in 1..Len(stack) : Holds(stack[j]) => ~stack[j].saved.contflag
  BY <1>2, <1>3 DEF ContinueWaits
<1>5. SUFFICES ASSUME contflag PROVE FALSE
  BY <1>1, <1>4
<1> DEFINE m == Len(stack)
           n == m + 1
<1>6. Clean(All, n)
  BY Current
<1>7. ~TrapWaits(All, n)
  <2>1. m \in Nat /\ n - 1 = m /\ \A i \in 1..m : All[i] = stack[i]
    BY Here DEF Ready
  <2> HIDE DEF m, n
  <2>2. \A i \in 1..m : ~(All[i].kind = "trap" /\ All[i].saved.contflag)
    BY <1>4, <2>1 DEF m, Holds
  <2> QED
    BY <2>1, <2>2 DEF TrapWaits
<1>8. Holds(All[n]) /\ All[n].saved.contflag = contflag /\ All[n].saved.breaks = breaks
  BY Here DEF Ready
<1> HIDE DEF n
<1>9. breaks > 0
  BY <1>5, <1>6, <1>7, <1>8 DEF Clean
<1> QED
  BY <1>2, <1>5, <1>9 DEF ContinueWaits

\* The constructs stay; the innermost may go on to another of its lists.
LEMMA Stay ==
    ASSUME Ready, exit_level' = exit_level, Len(stack') = Len(stack),
           \A i \in 1..(Len(stack) - 1) : stack'[i] = stack[i],
           \A i \in 1..Len(stack) : /\ stack'[i].kind = stack[i].kind
                                    /\ stack'[i].saved.breaks = stack[i].saved.breaks
                                    /\ stack'[i].saved.contflag = stack[i].saved.contflag
                                    /\ stack'[i].saved.retflag = stack[i].saved.retflag
                                    /\ stack'[i].trap_return = stack[i].trap_return
                                    /\ Holds(stack'[i]) <=> Holds(stack[i]),
           retflag => retflag',
           Clean(After, Len(stack) + 1),
           \A j \in 1..Len(stack) : Waits(After, j, Len(stack) + 1)
    PROVE  Shown
<1> DEFINE m == Len(stack)
           n == m + 1
           w == All
           v == After
<1>1. m \in Nat /\ (\A i \in 1..m : w[i] = stack[i])
      /\ w[n].kind = "now" /\ w[n].trap_return = NoReturn
      /\ w[n].saved.retflag = retflag
  BY Here DEF Ready
<1>2. (\A i \in 1..m : v[i] = stack'[i])
      /\ v[n].kind = "now" /\ v[n].trap_return = NoReturn /\ Holds(v[n])
      /\ v[n].saved.retflag = retflag'
  BY There DEF Ready
<1>3. Jumps(w, n, exit_level) /\ n = m + 1
  BY DEF Ready
<1>4. Clean(v, n) /\ \A j \in 1..m : Waits(v, j, n)
  OBVIOUS
<1>5. \A i \in 1..(m - 1) : v[i] = w[i]
  <2>1. \A i \in 1..(m - 1) : i \in 1..m
    BY <1>1
  <2> QED
    BY <1>1, <1>2, <2>1
<1>6. \A i \in 1..m : /\ v[i].kind = w[i].kind
                      /\ v[i].saved.breaks = w[i].saved.breaks
                      /\ v[i].saved.contflag = w[i].saved.contflag
                      /\ v[i].saved.retflag = w[i].saved.retflag
                      /\ v[i].trap_return = w[i].trap_return
                      /\ Holds(v[i]) <=> Holds(w[i])
  BY <1>1, <1>2
<1>7. w[n].saved.retflag => v[n].saved.retflag
  BY <1>1, <1>2
<1>8. Len(stack') + 1 = n
  OBVIOUS
<1> HIDE DEF m, n, w, v
<1>9. Jumps(v, n, exit_level)
  BY <1>1, <1>2, <1>3, <1>4, <1>5, <1>6, <1>7, FlagsKeep
<1> QED
  BY <1>8, <1>9 DEF Shown, v

\* What weighs no more than before is held no harder.
LEMMA Calmer ==
    ASSUME NEW v, NEW w, NEW j, NEW i, NEW h, Waits(w, j, h), j < h, v[j] = w[j], Holds(w[h]),
           w[h].saved.breaks = 0 => v[i].saved.breaks = 0,
           v[i].saved.breaks > 0 => w[h].saved.breaks > 0,
           v[i].saved.retflag => w[h].saved.retflag,
           v[i].saved.contflag /\ v[i].saved.breaks > 0 => w[h].saved.contflag
    PROVE  Waits(v, j, i)
  BY DEF Waits

-----------------------------------------------------------------------------
(* Every action of such a script keeps its jumps in order.                 *)

\* The flags stay as well.
LEMMA StayFlags ==
    ASSUME Ready, exit_level' = exit_level, Len(stack') = Len(stack),
           breaks' = breaks, contflag' = contflag, retflag' = retflag,
           \A i \in 1..(Len(stack) - 1) : stack'[i] = stack[i],
           \A i \in 1..Len(stack) : /\ stack'[i].kind = stack[i].kind
                                    /\ stack'[i].saved.breaks = stack[i].saved.breaks
                                    /\ stack'[i].saved.contflag = stack[i].saved.contflag
                                    /\ stack'[i].saved.retflag = stack[i].saved.retflag
                                    /\ stack'[i].trap_return = stack[i].trap_return
                                    /\ Holds(stack'[i]) <=> Holds(stack[i]),
           breaks = 0 \/ \A i \in 1..Len(stack) :
                            stack[i].kind \in LoopKinds => stack'[i].at = stack[i].at
    PROVE  Shown
<1> DEFINE m == Len(stack)
           n == m + 1
           w == All
           v == After
<1>1. m \in Nat /\ (\A i \in 1..m : w[i] = stack[i]) /\ Holds(w[n])
      /\ w[n].saved.breaks = breaks /\ w[n].saved.contflag = contflag
      /\ w[n].saved.retflag = retflag
  BY Here DEF Ready
<1>2. (\A i \in 1..m : v[i] = stack'[i]) /\ Holds(v[n])
      /\ v[n].saved.breaks = breaks /\ v[n].saved.contflag = contflag
      /\ v[n].saved.retflag = retflag
  BY There DEF Ready
<1>3. Clean(w, n) /\ \A j \in 1..m : Waits(w, j, n)
  BY Current
<1>4. \A i \in 1..m : /\ v[i].kind = w[i].kind
                      /\ v[i].saved.breaks = w[i].saved.breaks
                      /\ v[i].saved.contflag = w[i].saved.contflag
                      /\ v[i].saved.retflag = w[i].saved.retflag
                      /\ Holds(v[i]) <=> Holds(w[i])
  BY <1>1, <1>2
<1>5. n = m + 1 /\ n \in 1..(m + 1)
  BY <1>1
<1>6. breaks = 0 \/ \A i \in 1..m : w[i].kind \in LoopKinds => v[i].at = w[i].at
  BY <1>1, <1>2
<1> HIDE DEF m, n, w, v
<1>7. TrapWaits(v, n) <=> TrapWaits(w, n)
  BY <1>1, <1>4, <1>5, TrapWaitsSame
<1>8. Clean(v, n)
  <2>1. CASE breaks = 0
    BY <1>1, <1>2, <1>3, <1>7, <2>1 DEF Clean
  <2>2. CASE \A i \in 1..m : w[i].kind \in LoopKinds => v[i].at = w[i].at
    <3>1. \A i \in 1..m : /\ v[i].kind = w[i].kind
                          /\ w[i].kind \in LoopKinds => v[i].at = w[i].at
      BY <1>4, <2>2
    <3>2. \A b : AtCondition(v, n, b) <=> AtCondition(w, n, b)
      BY <1>1, <1>5, <3>1, AtConditionSame
    <3> QED
      BY <1>1, <1>2, <1>3, <1>7, <3>2 DEF Clean
  <2> QED
    BY <1>6, <2>1, <2>2
<1>9. \A j \in 1..m : Waits(v, j, n)
  BY <1>1, <1>2, <1>3, <1>4 DEF Waits
<1> QED
  BY <1>8, <1>9, Stay DEF m, n, w, v

LEMMA PlainShown ==
    ASSUME Ready, PassOver \/ Simple \/ AfterCommand
    PROVE  Shown
<1>1. /\ stack' = stack /\ exit_level' = exit_level
      /\ breaks' = breaks /\ contflag' = contflag /\ retflag' = retflag
  BY DEF PassOver, Simple, AfterCommand, flags
<1> QED
  BY <1>1, StayFlags

\* A jump is made where nothing else is on its way.
LEMMA JumpShown ==
    ASSUME Ready, bin_break \/ bin_continue \/ Interrupt
    PROVE  Shown
<1> DEFINE m == Len(stack)
           n == m + 1
           w == All
           v == After
<1>1. stack' = stack /\ exit_level' = exit_level /\ retflag' = retflag /\ MayJump
  BY DEF bin_break, bin_continue, Interrupt
<1>2. ~contflag /\ \A j \in 1..m : Holds(stack[j]) => ~stack[j].saved.contflag
  BY <1>1, NoContinue
<1>3. m \in Nat /\ \A i \in 1..m : w[i] = stack[i] /\ stack[i].saved \in Flags
  BY Here DEF Ready, Frame
<1>4. (\A i \in 1..m : v[i] = stack[i]) /\ Holds(v[n])
      /\ v[n].saved.breaks = breaks' /\ v[n].saved.contflag = contflag'
      /\ v[n].saved.retflag = retflag
  BY <1>1, There DEF Ready
<1>5. CASE ~contflag'
  <2>1. Clean(v, n)
    BY <1>4, <1>5 DEF Clean
  <2>2. \A j \in 1..m : Waits(v, j, n)
    <3> HIDE DEF m, n, v
    <3> QED
      BY <1>2, <1>4, <1>5 DEF Waits
  <2> QED
    BY <1>1, <2>1, <2>2, Stay
<1>6. CASE contflag'
  <2>1. bin_continue
    BY <1>2, <1>6 DEF bin_break, Interrupt
  <2>2. breaks' > 0 /\ ~retflag /\ ~JumpWaits /\ ~InCondition(breaks')
    BY <2>1, Types DEF bin_continue, CanRun, Blocked, Ready, Orderly
  <2>3. DOMAIN stack = 1..m
    BY Types DEF Ready
  <2>4. \A j \in 1..m : Holds(stack[j]) => stack[j].saved.breaks = 0 /\ ~stack[j].saved.retflag
    <3>1. \A j \in 1..m : Holds(stack[j]) => stack[j].saved \in Held
      BY <2>3 DEF Held
    <3>2. \A j \in 1..m : Holds(stack[j]) =>
             ~(stack[j].saved.breaks > 0) /\ ~stack[j].saved.retflag
      BY <2>2, <3>1 DEF JumpWaits
    <3>3. \A j \in 1..m : stack[j].saved.breaks \in Nat
      BY <1>3 DEF Flags
    <3> QED
      BY <3>2, <3>3
  <2>5. ~AtCondition(v, n, breaks')
    <3>1. SUFFICES ASSUME AtCondition(v, n, breaks') PROVE FALSE
      OBVIOUS
    <3>2. stack \in Seq(Frame)
      BY Types DEF Ready
    <3> HIDE DEF v
    <3>3. ConditionIn(stack, breaks')
      BY <1>4, <3>1, <3>2, AtConditionIn
    <3> QED
      BY <2>2, <3>3 DEF InCondition, Frames, ConditionIn, LoopsIn
  <2>6. Clean(v, n)
    BY <1>4, <2>2, <2>5 DEF Clean
  <2>7. \A j \in 1..m : Waits(v, j, n)
    <3> HIDE DEF m, n, v
    <3> QED
      BY <1>2, <1>4, <2>4 DEF Waits
  <2> QED
    BY <1>1, <2>6, <2>7, Stay
<1> QED
  BY <1>5, <1>6

\* The constructs stay, but for what a trap is told to return.
LEMMA NewTrapReturn ==
    ASSUME Ready, NEW i \in 1..Len(stack), NEW r,
           stack' = [stack EXCEPT ![i].trap_return = r]
    PROVE  /\ Len(stack') = Len(stack)
           /\ \A j \in 1..Len(stack) : /\ stack'[j].kind = stack[j].kind
                                       /\ stack'[j].at = stack[j].at
                                       /\ stack'[j].saved = stack[j].saved
                                       /\ Holds(stack'[j]) <=> Holds(stack[j])
                                       /\ j # i => stack'[j] = stack[j]
           /\ stack'[i].trap_return = r
<1>1. stack \in Seq(Frame)
  BY Types DEF Ready
<1>2. DOMAIN stack' = 1..Len(stack) /\ \A j \in 1..Len(stack) : j # i => stack'[j] = stack[j]
  BY <1>1
<1>3. stack[i] \in Frame /\ stack'[i] = [stack[i] EXCEPT !.trap_return = r]
  BY <1>1
<1>4. /\ stack'[i].kind = stack[i].kind /\ stack'[i].at = stack[i].at
      /\ stack'[i].saved = stack[i].saved /\ stack'[i].trap_return = r
  BY <1>3 DEF Frame
<1>5. Len(stack') = Len(stack)
  BY <1>1
<1> QED
  BY <1>2, <1>4, <1>5 DEF Holds

\* A return or an exit sets out; a trap is told if it is the one to return.
LEMMA Told ==
    ASSUME NEW v, NEW w, NEW m \in Nat, NEW n, n = m + 1, NEW x, NEW y, Jumps(w, n, x),
           \A i \in 1..m : /\ v[i].kind = w[i].kind /\ v[i].at = w[i].at
                           /\ v[i].saved = w[i].saved
                           /\ Holds(v[i]) <=> Holds(w[i]),
           \A i \in 1..m : Holds(w[i]) => ~w[i].saved.contflag,
           v[n].kind = "now", v[n].trap_return = NoReturn, Holds(v[n]),
           v[n].saved.retflag, ~v[n].saved.contflag,
           \A i \in 1..m : v[i].trap_return # NoReturn =>
                              v[i].kind = "trap" /\ Returns(v, y, i, n),
           \A i \in 1..m : v[i].kind = "function" /\ Level(v, i) <= y =>
                              \E j \in (i + 1)..n : Leaves(v, y, i, j)
    PROVE  Jumps(v, n, y)
<1>1. \A i \in 1..m : i \in 1..n /\ i \in 1..(m + 1)
  OBVIOUS
<1>2. OneTrap(v, n)
  <2>1. \A i \in 1..n : v[i].kind = "trap" => i \in 1..m
    OBVIOUS
  <2> QED
    BY <1>1, <2>1 DEF OneTrap, Jumps
<1>3. \A i \in 1..m : TrapWaits(v, i) <=> TrapWaits(w, i)
  <2>1. \A i \in 1..m : v[i].kind = w[i].kind /\ v[i].saved.contflag = w[i].saved.contflag
    OBVIOUS
  <2> QED
    BY <1>1, <2>1, TrapWaitsSame
<1>4. \A b : \A i \in 1..m : AtCondition(v, i, b) <=> AtCondition(w, i, b)
  <2>1. \A i \in 1..m : /\ v[i].kind = w[i].kind
                        /\ w[i].kind \in LoopKinds => v[i].at = w[i].at
    OBVIOUS
  <2> QED
    BY <1>1, <2>1, AtConditionSame
<1>5. ASSUME NEW i \in 1..n
      PROVE  Clean(v, i) /\ Called(v, i) /\ Exits(v, n, y, i) /\ Forced(v, n, y, i)
  <2>1. CASE i = n
    BY <2>1 DEF Clean, Called, Exits, Forced
  <2>2. CASE i \in 1..m
    <3>1. Clean(w, i) /\ Called(w, i)
      BY <1>1, <2>2 DEF Jumps
    <3>2. Clean(v, i) /\ Called(v, i)
      BY <1>3, <1>4, <2>2, <3>1 DEF Clean, Called
    <3>3. Exits(v, n, y, i)
      BY <2>2 DEF Exits
    <3>4. Forced(v, n, y, i)
      <4>1. n \in (i + 1)..n
        BY <2>2
      <4> QED
        BY <2>2, <4>1 DEF Forced
    <3> QED
      BY <3>2, <3>3, <3>4
  <2> QED
    BY <2>1, <2>2
<1>6. ASSUME NEW i \in 1..n, NEW j \in 1..n PROVE Waits(v, j, i)
  <2>1. CASE ~(j < i)
    BY <2>1 DEF Waits
  <2>2. CASE j < i /\ i = n
    <3>1. j \in 1..m
      BY <2>2
    <3> QED
      BY <2>2, <3>1 DEF Waits
  <2>3. CASE j < i /\ i \in 1..m
    <3>1. j \in 1..m /\ Waits(w, j, i)
      BY <1>1, <2>3 DEF Jumps
    <3> QED
      BY <2>3, <3>1 DEF Waits
  <2> QED
    BY <2>1, <2>2, <2>3
<1> QED
  BY <1>2, <1>5, <1>6 DEF Jumps

\* Where the return of a trap goes.
LEMMA ReturnTarget ==
    ASSUME Ready, bin_return, pc' # "done"
    PROVE  LET i == Innermost({"function", "source", "trap"})
           IN  /\ i \in 1..Len(stack)
               /\ \A j \in (i + 1)..Len(stack) : stack[j].kind \notin {"function", "source", "trap"}
               /\ stack' = IF stack[i].kind = "trap"
                              THEN [stack EXCEPT ![i].trap_return = lastval'] ELSE stack
<1> DEFINE K == {"function", "source", "trap"}
           i == Innermost(K)
<1>1. locallevel + sourcelevel > 0
  BY DEF bin_return, Finish
<1>2. stack' = IF stack[i].kind = "trap"
                  THEN [stack EXCEPT ![i].trap_return = lastval'] ELSE stack
  BY <1>1 DEF bin_return
<1>3. Frames(K) # {}
  <2>1. Cardinality({}) = 0
    BY FS_EmptySet
  <2>2. SUFFICES ASSUME Frames(K) = {} PROVE FALSE
    OBVIOUS
  <2>3. Frames({"function"}) = {} /\ Frames({"source"}) = {}
    BY <2>2 DEF Frames
  <2> QED
    BY <1>1, <2>1, <2>3 DEF locallevel, sourcelevel
<1>4. DOMAIN stack = 1..Len(stack) /\ Len(stack) \in Nat
  BY Types DEF Ready
<1> HIDE DEF K
<1>5. i \in Frames(K) /\ i \in 1..Len(stack) /\ \A j \in Frames(K) : j <= i
  BY <1>3, InnermostIs DEF Ready
<1>6. ASSUME NEW j \in (i + 1)..Len(stack) PROVE stack[j].kind \notin K
  <2>1. j \in 1..Len(stack) /\ ~(j <= i)
    BY <1>4, <1>5
  <2> QED
    BY <1>4, <1>5, <2>1 DEF Frames
<1> QED
  BY <1>2, <1>5, <1>6 DEF K

LEMMA ReturnShown ==
    ASSUME Ready, bin_return, pc' # "done"
    PROVE  Shown
<1> DEFINE m == Len(stack)
           n == m + 1
           w == All
           v == After
           x == exit_level
           t == Innermost({"function", "source", "trap"})
<1>1. /\ exit_level' = exit_level /\ contflag' = contflag /\ MayJump /\ CanRun
      /\ retflag' = TRUE /\ lastval' \in 0..1
  BY DEF bin_return, Finish
<1>2. ~contflag /\ \A j \in 1..m : Holds(stack[j]) => ~stack[j].saved.contflag
  BY <1>1, NoContinue
<1>3. ~retflag
  BY <1>1 DEF CanRun, Blocked
<1>4. t \in 1..m /\ \A j \in (t + 1)..m : stack[j].kind \notin {"function", "source", "trap"}
  BY ReturnTarget
<1>5. stack' = IF stack[t].kind = "trap"
                  THEN [stack EXCEPT ![t].trap_return = lastval'] ELSE stack
  BY ReturnTarget
<1> HIDE DEF t
<1>6. CASE stack[t].kind # "trap"
  <2>1. stack' = stack
    BY <1>5, <1>6
  <2>2. (\A i \in 1..m : v[i] = stack[i]) /\ ~v[n].saved.contflag /\ m \in Nat
    BY <1>1, <1>2, <2>1, There DEF Ready
  <2>3. Clean(v, n)
    BY <2>2 DEF Clean
  <2>4. \A j \in 1..m : Waits(v, j, n)
    <3> HIDE DEF m, n, v
    <3> QED
      BY <1>2, <2>2 DEF Waits
  <2> QED
    BY <1>1, <2>1, <2>3, <2>4, Stay
<1>7. CASE stack[t].kind = "trap"
  <2>1. /\ Len(stack') = m
        /\ \A j \in 1..m : /\ stack'[j].kind = stack[j].kind
                           /\ stack'[j].at = stack[j].at
                           /\ stack'[j].saved = stack[j].saved
                           /\ Holds(stack'[j]) <=> Holds(stack[j])
                           /\ j # t => stack'[j] = stack[j]
        /\ stack'[t].trap_return = lastval'
    BY <1>4, <1>5, <1>7, NewTrapReturn
  <2>2. m \in Nat /\ (\A i \in 1..m : w[i] = stack[i]) /\ ~w[n].saved.retflag
        /\ w[n].trap_return = NoReturn
    BY <1>3, Here DEF Ready
  <2>3. (\A i \in 1..m : v[i] = stack'[i])
        /\ v[n].kind = "now" /\ v[n].trap_return = NoReturn /\ Holds(v[n])
        /\ ~v[n].saved.contflag /\ v[n].saved.retflag
    BY <1>1, <1>2, <2>1, There DEF Ready
  <2>4. Jumps(w, n, x) /\ n = m + 1
    BY DEF Ready
  <2>5. lastval' # NoReturn
    BY <1>1 DEF NoReturn
  <2>6. \A i \in 1..m : /\ v[i].kind = w[i].kind /\ v[i].at = w[i].at
                        /\ v[i].saved = w[i].saved
                        /\ Holds(v[i]) <=> Holds(w[i])
                        /\ i # t => v[i] = w[i]
    BY <2>1, <2>2, <2>3
  <2>7. v[t].trap_return # NoReturn /\ w[t].kind = "trap"
    BY <1>4, <1>7, <2>1, <2>2, <2>3, <2>5
  <2>8. \A i \in 1..m : Holds(w[i]) => ~w[i].saved.contflag
    BY <1>2, <2>2
  <2>9. \A j \in (t + 1)..m : v[j].kind \notin {"function", "source", "trap"}
    <3>1. \A j \in (t + 1)..m : j \in 1..m
      BY <1>4
    <3> QED
      BY <1>4, <2>2, <2>6, <3>1
  <2> HIDE DEF m, n, w, v, x
  <2>10. \A i \in 1..m : i \in 1..n /\ i \in 1..(m + 1) /\ i \in Nat
    BY <2>2, <2>4
  <2>11. ASSUME NEW i \in 1..m, v[i].trap_return # NoReturn
         PROVE  v[i].kind = "trap" /\ Returns(v, x, i, n)
    <3>1. i = t
      <4>1. SUFFICES ASSUME i # t PROVE FALSE
        OBVIOUS
      <4>2. w[i].trap_return # NoReturn
        BY <2>6, <2>11, <4>1
      <4>3. w[i].kind = "trap"
        BY <2>4, <2>10, <4>2 DEF Jumps, Forced
      <4> QED
        BY <1>4, <2>4, <2>7, <2>10, <4>1, <4>3 DEF Jumps, OneTrap
    <3>2. n - 1 = m
      BY <2>2, <2>4
    <3>3. Clear(v, x, t, n) /\ \A k \in (t + 1)..(n - 1) : v[k].kind # "source"
      BY <2>9, <3>2 DEF Clear
    <3> QED
      BY <1>4, <2>3, <2>6, <2>7, <3>1, <3>3 DEF Returns
  <2>12. \A i \in 1..m : Level(v, i) = Level(w, i)
    <3>1. \A i \in 1..m : v[i].kind = w[i].kind
      BY <2>6
    <3>2. \A i \in 1..m : i \in 0..m
      BY <2>2
    <3> QED
      BY <2>2, <3>1, <3>2, LevelSame
  <2>13. ASSUME NEW i \in 1..m, v[i].kind = "function", Level(v, i) <= x
         PROVE  \E j \in (i + 1)..n : Leaves(v, x, i, j)
    <3>1. Exits(w, n, x, i) /\ w[i].kind = "function" /\ Level(w, i) <= x
      BY <2>4, <2>6, <2>10, <2>12, <2>13 DEF Jumps
    <3>2. PICK j \in (i + 1)..n : Leaves(w, x, i, j)
      BY <3>1 DEF Exits
    <3>3. j # n
      BY <2>2, <3>2 DEF Leaves
    <3>4. j \in 1..m /\ j \in 1..(m + 1) /\ i \in Nat
      BY <2>2, <2>4, <3>3
    <3>5. Clear(v, x, i, j)
      <4>1. \A h \in 1..m : v[h].kind = w[h].kind
        BY <2>6
      <4>2. Clear(w, x, i, j)
        BY <3>2 DEF Leaves
      <4> QED
        BY <2>2, <3>4, <4>1, <4>2, ClearSame
    <3>6. v[j].saved.retflag \/ v[j].trap_return # NoReturn
      <4>1. CASE j = t
        BY <2>7, <4>1
      <4>2. CASE j # t
        BY <2>6, <3>2, <3>4, <4>2 DEF Leaves
      <4> QED
        BY <4>1, <4>2
    <3>7. Holds(v[j])
      BY <2>6, <3>2, <3>4 DEF Leaves
    <3>8. Leaves(v, x, i, j)
      BY <3>5, <3>6, <3>7 DEF Leaves
    <3> QED
      BY <3>8
  <2>14. Jumps(v, n, x)
    BY <2>2, <2>3, <2>4, <2>6, <2>8, <2>11, <2>13, Told
  <2> QED
    BY <1>1, <2>1, <2>4, <2>14 DEF Shown, v, x
<1> QED
  BY <1>6, <1>7

LEMMA ExitShown ==
    ASSUME Ready, bin_exit, pc' # "done"
    PROVE  Shown
<1> DEFINE m == Len(stack)
           n == m + 1
           w == All
           v == After
           y == locallevel
           K == {"source", "trap"}
           t == Innermost(K)
<1>1. /\ contflag' = contflag /\ MayJump /\ CanRun /\ locallevel > 0
      /\ retflag' = TRUE /\ exit_level' = y
      /\ stack' = IF t > 0 /\ stack[t].kind = "trap"
                     THEN [stack EXCEPT ![t].trap_return = 1] ELSE stack
  BY DEF bin_exit, Finish
<1>2. ~(t > 0 /\ stack[t].kind = "source" /\ Frames({"trap"}) # {})
  BY DEF bin_exit, Ready, Orderly
<1>3. ~contflag /\ \A j \in 1..m : Holds(stack[j]) => ~stack[j].saved.contflag
  BY <1>1, NoContinue
<1>4. DOMAIN stack = 1..m /\ m \in Nat
  BY Types DEF Ready
<1>5. /\ Frames(K) \subseteq 1..m
      /\ Frames(K) # {} => t \in Frames(K) /\ \A j \in Frames(K) : j <= t
      /\ Frames(K) = {} => t = 0
  <2> HIDE DEF K
  <2> QED
    BY InnermostIs DEF Ready
\* A trap in progress is the innermost of the traps and files.
<1>6. ASSUME NEW i \in 1..m, stack[i].kind = "trap"
      PROVE  t \in 1..m /\ stack[t].kind = "trap"
             /\ \A j \in (t + 1)..m : stack[j].kind \notin K
  <2>1. i \in Frames(K) /\ i \in Frames({"trap"})
    BY <1>4, <1>6 DEF Frames
  <2>2. t \in Frames(K) /\ t \in 1..m /\ \A j \in Frames(K) : j <= t
    BY <1>5, <2>1
  <2>3. stack[t].kind \in K /\ t > 0
    BY <2>2 DEF Frames
  <2>4. stack[t].kind = "trap"
    BY <1>2, <2>1, <2>3
  <2>5. ASSUME NEW j \in (t + 1)..m PROVE stack[j].kind \notin K
    <3>1. j \in 1..m /\ ~(j <= t)
      BY <1>4, <2>2
    <3> QED
      BY <1>4, <2>2, <3>1 DEF Frames
  <2> QED
    BY <2>2, <2>4, <2>5
<1>7. /\ Len(stack') = m
      /\ \A j \in 1..m : /\ stack'[j].kind = stack[j].kind
                         /\ stack'[j].at = stack[j].at
                         /\ stack'[j].saved = stack[j].saved
                         /\ Holds(stack'[j]) <=> Holds(stack[j])
                         /\ j # t \/ stack[j].kind # "trap" => stack'[j] = stack[j]
                         /\ j = t /\ stack[j].kind = "trap" => stack'[j].trap_return = 1
  <2>1. CASE t > 0 /\ stack[t].kind = "trap"
    <3>1. t \in 1..m
      BY <1>5, <2>1
    <3>2. stack' = [stack EXCEPT ![t].trap_return = 1]
      BY <1>1, <2>1
    <3> HIDE DEF t
    <3>3. /\ Len(stack') = Len(stack) /\ stack'[t].trap_return = 1
          /\ \A j \in 1..Len(stack) : /\ stack'[j].kind = stack[j].kind
                                      /\ stack'[j].at = stack[j].at
                                      /\ stack'[j].saved = stack[j].saved
                                      /\ Holds(stack'[j]) <=> Holds(stack[j])
                                      /\ j # t => stack'[j] = stack[j]
      BY <3>1, <3>2, NewTrapReturn, ZenonT(60)
    <3> QED
      BY <2>1, <3>3
  <2>2. CASE ~(t > 0 /\ stack[t].kind = "trap")
    <3>1. stack' = stack
      BY <1>1, <2>2
    <3>2. ASSUME NEW j \in 1..m, j = t, stack[j].kind = "trap" PROVE FALSE
      BY <2>2, <3>2
    <3> QED
      BY <3>1, <3>2
  <2> QED
    BY <2>1, <2>2
<1>8. (\A i \in 1..m : w[i] = stack[i]) /\ w[n].trap_return = NoReturn
  BY Here DEF Ready
<1>9. (\A i \in 1..m : v[i] = stack'[i])
      /\ v[n].kind = "now" /\ v[n].trap_return = NoReturn /\ Holds(v[n])
      /\ ~v[n].saved.contflag /\ v[n].saved.retflag
  <2>1. stack' \in Seq(Frame) /\ m = Len(stack') /\ n = m + 1
    BY <1>7 DEF Ready
  <2>2. /\ \A i \in 1..m : v[i] = stack'[i]
        /\ v[n].kind = "now" /\ v[n].trap_return = NoReturn /\ Holds(v[n])
        /\ v[n].saved.contflag = contflag' /\ v[n].saved.retflag = retflag'
    BY <2>1, There
  <2> QED
    BY <1>1, <1>3, <2>2
<1>10. Jumps(w, n, exit_level) /\ n = m + 1
  BY DEF Ready
<1>11. 1 # NoReturn
  BY DEF NoReturn
<1>12. \A i \in 1..m : /\ v[i].kind = w[i].kind /\ v[i].at = w[i].at
                       /\ v[i].saved = w[i].saved
                       /\ Holds(v[i]) <=> Holds(w[i])
                       /\ i # t \/ w[i].kind # "trap" => v[i] = w[i]
                       /\ i = t /\ w[i].kind = "trap" => v[i].trap_return # NoReturn
  BY <1>7, <1>8, <1>9, <1>11
<1>13. ASSUME NEW i \in 1..m, w[i].kind = "trap"
       PROVE  t \in 1..m /\ w[t].kind = "trap" /\ \A j \in (t + 1)..m : v[j].kind \notin K
  <2>1. t \in 1..m /\ stack[t].kind = "trap"
        /\ \A j \in (t + 1)..m : stack[j].kind \notin K
    BY <1>6, <1>8, <1>13
  <2>2. \A j \in (t + 1)..m : j \in 1..m
    BY <2>1
  <2> HIDE DEF t, K
  <2> QED
    BY <1>8, <1>12, <2>1, <2>2
<1>14. \A i \in 1..m : Holds(w[i]) => ~w[i].saved.contflag
  BY <1>3, <1>8
\* Every function in progress is one the exit leaves.
<1>15. \A i \in 1..m : Level(v, i) <= y
  <2>1. y = Level(v, m)
    <3>1. Frames({"function"}) = {k \in 1..m : v[k].kind = "function"}
      BY <1>4, <1>8, <1>12 DEF Frames
    <3> QED
      BY <3>1 DEF locallevel, Level
  <2>2. \A i \in 1..m : i \in 0..m
    BY <1>4
  <2> HIDE DEF m, y, v
  <2> QED
    BY <1>4, <2>1, <2>2, LevelGrows
<1> HIDE DEF m, n, w, v, y, t
<1>16. \A i \in 1..m : i \in 1..n /\ i \in Nat
  BY <1>4, <1>10
<1>17. ASSUME NEW i \in 1..m, w[i].kind = "trap" PROVE i = t
  BY <1>10, <1>13, <1>16, <1>17 DEF Jumps, OneTrap
<1>18. ASSUME NEW i \in 1..m, NEW j \in (i + 1)..n, \A h \in (i + 1)..(j - 1) : v[h].kind # "trap"
       PROVE  Clear(v, y, i, j)
  <2>1. \A h \in (i + 1)..(j - 1) : h \in 1..m
    BY <1>4, <1>10
  <2> QED
    BY <1>15, <1>18, <2>1 DEF Clear
<1>19. ASSUME NEW i \in 1..m, v[i].trap_return # NoReturn
       PROVE  v[i].kind = "trap" /\ Returns(v, y, i, n)
  <2>1. w[i].kind = "trap"
    <3>1. SUFFICES ASSUME w[i].kind # "trap" PROVE FALSE
      OBVIOUS
    <3>2. w[i].trap_return # NoReturn
      BY <1>12, <1>19, <3>1
    <3> QED
      BY <1>10, <1>16, <3>1, <3>2 DEF Jumps, Forced
  <2>2. i = t /\ \A j \in (i + 1)..m : v[j].kind \notin K
    BY <1>13, <1>17, <2>1
  <2>3. n - 1 = m /\ n \in (i + 1)..n
    BY <1>4, <1>10
  <2>4. \A h \in (i + 1)..(n - 1) : v[h].kind # "trap" /\ v[h].kind # "source"
    BY <2>2, <2>3
  <2>5. Clear(v, y, i, n)
    BY <1>18, <2>3, <2>4
  <2> QED
    BY <1>9, <1>12, <2>1, <2>4, <2>5 DEF Returns
<1>20. ASSUME NEW i \in 1..m, v[i].kind = "function", Level(v, i) <= y
       PROVE  \E j \in (i + 1)..n : Leaves(v, y, i, j)
  <2>1. CASE \E h \in (i + 1)..m : w[h].kind = "trap"
    <3>1. PICK h \in (i + 1)..m : w[h].kind = "trap"
      BY <2>1
    <3>2. h \in 1..m /\ h = t /\ h \in (i + 1)..n
          /\ \A g \in (i + 1)..(h - 1) : g \in 1..m /\ g # h
      <4>1. h \in 1..m
        BY <3>1
      <4> QED
        BY <1>4, <1>10, <1>17, <3>1, <4>1
    <3>3. \A g \in (i + 1)..(h - 1) : v[g].kind # "trap"
      BY <1>12, <1>17, <3>2
    <3>4. Clear(v, y, i, h)
      BY <1>18, <3>2, <3>3
    <3>5. v[h].trap_return # NoReturn /\ Holds(v[h])
      BY <1>12, <3>1, <3>2 DEF Holds
    <3>6. Leaves(v, y, i, h)
      BY <3>4, <3>5 DEF Leaves
    <3> QED
      BY <3>2, <3>6
  <2>2. CASE ~(\E h \in (i + 1)..m : w[h].kind = "trap")
    <3>1. n - 1 = m /\ n \in (i + 1)..n /\ \A h \in (i + 1)..m : h \in 1..m
      BY <1>4, <1>10
    <3>2. \A h \in (i + 1)..(n - 1) : v[h].kind # "trap"
      BY <1>12, <2>2, <3>1
    <3>3. Clear(v, y, i, n)
      BY <1>18, <3>1, <3>2
    <3>4. Leaves(v, y, i, n)
      BY <1>9, <3>3 DEF Leaves
    <3> QED
      BY <3>1, <3>4
  <2> QED
    BY <2>1, <2>2
<1>21. Jumps(v, n, y)
  <2> HIDE DEF K
  <2> QED
    BY <1>4, <1>9, <1>10, <1>12, <1>14, <1>19, <1>20, Told
<1> QED
  BY <1>1, <1>7, <1>10, <1>21 DEF Shown, v, y

\* The innermost construct goes on to another of its lists.
LEMMA NewTop ==
    ASSUME Ready, Len(stack) \in 1..MaxDepth, NEW f, stack' = [stack EXCEPT ![Len(stack)] = f],
           f.kind = Top.kind, f.saved.breaks = Top.saved.breaks,
           f.saved.contflag = Top.saved.contflag, f.saved.retflag = Top.saved.retflag,
           f.trap_return = Top.trap_return, Holds(f) <=> Holds(Top)
    PROVE  /\ Len(stack') = Len(stack)
           /\ \A i \in 1..(Len(stack) - 1) : stack'[i] = stack[i]
           /\ \A i \in 1..Len(stack) : /\ stack'[i].kind = stack[i].kind
                                       /\ stack'[i].saved.breaks = stack[i].saved.breaks
                                       /\ stack'[i].saved.contflag = stack[i].saved.contflag
                                       /\ stack'[i].saved.retflag = stack[i].saved.retflag
                                       /\ stack'[i].trap_return = stack[i].trap_return
                                       /\ Holds(stack'[i]) <=> Holds(stack[i])
           /\ \A i \in 1..Len(stack) : i # Len(stack) => stack'[i] = stack[i]
<1> DEFINE m == Len(stack)
<1>1. stack \in Seq(Frame) /\ m \in Nat
  BY Types DEF Ready
<1>2. Len(stack') = m /\ \A i \in 1..m : stack'[i] = IF i = m THEN f ELSE stack[i]
  BY <1>1
<1>3. stack[m] = Top
  BY DEF Top
<1>4. \A i \in 1..(m - 1) : i \in 1..m /\ i # m
  BY <1>1
<1> HIDE DEF m
<1> QED
  BY <1>2, <1>3, <1>4 DEF m

LEMMA MoveShown ==
    ASSUME Ready, NEW kinds, In(kinds), NEW at, MoveTo(at), at # "always", Top.at # "always",
           exit_level' = exit_level, breaks' = breaks, contflag' = contflag,
           retflag' = retflag, breaks = 0 \/ Top.kind \notin LoopKinds
    PROVE  Shown
<1> DEFINE f == [Top EXCEPT !.at = at]
           m == Len(stack)
<1>1. Top \in Frame /\ m \in 1..MaxDepth /\ Top = stack[m]
  BY TopFrame DEF Ready
<1>2. stack' = [stack EXCEPT ![Len(stack)] = f]
  BY DEF MoveTo, Top
<1>3. f.kind = Top.kind /\ f.saved = Top.saved /\ f.trap_return = Top.trap_return
      /\ f.at = at
  BY <1>1 DEF Frame
<1>4. Holds(f) <=> Holds(Top)
  BY <1>3 DEF Holds
<1> HIDE DEF f
<1>5. /\ Len(stack') = Len(stack)
      /\ \A i \in 1..(Len(stack) - 1) : stack'[i] = stack[i]
      /\ \A i \in 1..Len(stack) : /\ stack'[i].kind = stack[i].kind
                                  /\ stack'[i].saved.breaks = stack[i].saved.breaks
                                  /\ stack'[i].saved.contflag = stack[i].saved.contflag
                                  /\ stack'[i].saved.retflag = stack[i].saved.retflag
                                  /\ stack'[i].trap_return = stack[i].trap_return
                                  /\ Holds(stack'[i]) <=> Holds(stack[i])
      /\ \A i \in 1..Len(stack) : i # Len(stack) => stack'[i] = stack[i]
  BY <1>1, <1>2, <1>3, <1>4, NewTop
<1>6. breaks = 0 \/ \A i \in 1..Len(stack) :
                       stack[i].kind \in LoopKinds => stack'[i].at = stack[i].at
  <2>1. \A i \in 1..Len(stack) :
           Top.kind \notin LoopKinds /\ stack[i].kind \in LoopKinds => i # Len(stack)
    BY <1>1
  <2> QED
    BY <1>5, <2>1
<1> QED
  BY <1>5, <1>6, StayFlags

\* The innermost construct is left.
LEMMA Left ==
    ASSUME Ready, NEW m, m = Len(stack), m # 0, Pop, exit_level' = exit_level,
           Holds(Top) /\ (Top.saved.retflag \/ Top.trap_return # NoReturn) => retflag',
           retflag /\ Top.kind # "trap"
               /\ (Top.kind = "function" => locallevel <= exit_level)
               /\ (Top.kind = "source" => exit_level > 0) => retflag',
           Clean(After, m), \A j \in 1..(m - 1) : Waits(After, j, m)
    PROVE  Shown
<1> DEFINE n == m + 1
           w == All
           v == After
           x == exit_level
<1>1. m \in Nat \ {0} /\ (\A i \in 1..m : w[i] = stack[i])
      /\ w[n].kind = "now" /\ w[n].trap_return = NoReturn
      /\ w[n].saved.retflag = retflag
  BY Here DEF Ready
<1>2. Len(stack') = m - 1 /\ \A i \in 1..(m - 1) : stack'[i] = stack[i]
  <2> DEFINE k == m - 1
  <2>1. k \in Nat /\ stack \in Seq(Frame)
    BY <1>1, Types DEF Ready
  <2>2. \A i \in 1..k : stack[i] \in Frame
    BY <2>1
  <2>3. stack' = SubSeq(stack, 1, k)
    BY DEF Pop
  <2> HIDE DEF k
  <2>4. /\ Len(SubSeq(stack, 1, k)) = IF 1 <= k THEN k - 1 + 1 ELSE 0
        /\ \A i \in 1..(k - 1 + 1) : SubSeq(stack, 1, k)[i] = stack[1 + i - 1]
    BY <2>1, <2>2, SubSeqProperties
  <2>5. Len(stack') = k /\ \A i \in 1..k : stack'[i] = stack[i]
    BY <2>1, <2>3, <2>4
  <2> QED
    BY <2>5 DEF k
<1>3. (\A i \in 1..(m - 1) : v[i] = stack'[i])
      /\ v[m].kind = "now" /\ v[m].trap_return = NoReturn /\ Holds(v[m])
      /\ v[m].saved.retflag = retflag'
  <2> DEFINE k == Len(stack')
             o == k + 1
  <2>1. (\A i \in 1..k : v[i] = stack'[i])
        /\ v[o].kind = "now" /\ v[o].trap_return = NoReturn /\ Holds(v[o])
        /\ v[o].saved.retflag = retflag'
    BY There DEF Ready
  <2>2. o = m /\ k = m - 1
    BY <1>1, <1>2
  <2> HIDE DEF o, k
  <2> QED
    BY <2>1, <2>2
<1>4. Jumps(w, n, x) /\ n = m + 1 /\ x \in Nat
  BY Types DEF Ready
<1>5. \A i \in 1..(m - 1) : v[i] = w[i]
  <2>1. \A i \in 1..(m - 1) : i \in 1..m
    BY <1>1
  <2> QED
    BY <1>1, <1>2, <1>3, <2>1
<1>6. w[m] = Top
  BY <1>1 DEF Top
<1>7. Level(w, m) = locallevel
  <2>1. DOMAIN stack = 1..m
    BY Types DEF Ready
  <2>2. Frames({"function"}) = {k \in 1..m : w[k].kind = "function"}
    BY <1>1, <2>1 DEF Frames
  <2> QED
    BY <2>2 DEF locallevel, Level
<1>8. Clean(v, m) /\ \A j \in 1..(m - 1) : Waits(v, j, m)
  OBVIOUS
<1> HIDE DEF n, w, v, x
<1>9. Holds(w[m]) /\ (w[m].saved.retflag \/ w[m].trap_return # NoReturn) => v[m].saved.retflag
  BY <1>3, <1>6
<1>10. w[n].saved.retflag /\ w[m].kind # "trap"
           /\ (w[m].kind = "function" => Level(w, m) <= x)
           /\ (w[m].kind = "source" => x > 0) => v[m].saved.retflag
  BY <1>1, <1>3, <1>6, <1>7 DEF x
<1>11. Jumps(v, m, x)
  BY <1>1, <1>3, <1>4, <1>5, <1>8, <1>9, <1>10, PopKeep
<1>12. Len(stack') + 1 = m
  BY <1>1, <1>2
<1> QED
  BY <1>11, <1>12 DEF Shown, v, x

\* What the stacks have in common then, and what the flags are.
LEMMA LeftFacts ==
    ASSUME Ready, NEW m, m = Len(stack), m # 0, Pop, NEW n, n = m + 1
    PROVE  /\ m \in Nat \ {0}
           /\ \A i \in 1..(m - 1) : After[i] = All[i]
           /\ All[m] = Top /\ Top.saved \in Flags
           /\ Holds(After[m]) /\ Holds(All[n])
           /\ All[n].saved.breaks = breaks /\ All[n].saved.contflag = contflag
           /\ All[n].saved.retflag = retflag
           /\ After[m].saved.breaks = breaks' /\ After[m].saved.contflag = contflag'
           /\ After[m].saved.retflag = retflag'
           /\ TrapWaits(After, m) <=> TrapWaits(All, m)
           /\ TrapWaits(All, n) <=> TrapWaits(All, m)
                                     \/ (Top.kind = "trap" /\ Top.saved.contflag)
           /\ \A b \in Nat : AtCondition(After, m, b)
                 => AtCondition(All, n, IF Top.kind \in LoopKinds THEN b + 1 ELSE b)
           /\ \A b : AtCondition(After, m, b) <=> AtCondition(All, m, b)
<1> DEFINE w == All
           v == After
           k == m - 1
<1>1. m \in Nat \ {0} /\ (\A i \in 1..m : w[i] = stack[i] /\ stack[i] \in Frame)
      /\ Holds(w[n])
      /\ w[n].saved.breaks = breaks /\ w[n].saved.contflag = contflag
      /\ w[n].saved.retflag = retflag
  BY Here DEF Ready
<1>2. k \in Nat /\ m = k + 1 /\ m \in 1..m /\ n - 1 = m
  BY <1>1
<1>3. Len(stack') = k /\ \A i \in 1..k : stack'[i] = stack[i]
  <2>1. stack \in Seq(Frame) /\ stack' = SubSeq(stack, 1, k)
    BY Types DEF Ready, Pop
  <2>2. \A i \in 1..k : stack[i] \in Frame
    BY <1>1
  <2> HIDE DEF k
  <2>4. /\ Len(SubSeq(stack, 1, k)) = IF 1 <= k THEN k - 1 + 1 ELSE 0
        /\ \A i \in 1..(k - 1 + 1) : SubSeq(stack, 1, k)[i] = stack[1 + i - 1]
    BY <1>2, <2>1, <2>2, SubSeqProperties
  <2> QED
    BY <1>2, <2>1, <2>4
<1>4. (\A i \in 1..k : v[i] = stack'[i]) /\ Holds(v[m])
      /\ v[m].saved.breaks = breaks' /\ v[m].saved.contflag = contflag'
      /\ v[m].saved.retflag = retflag'
  BY <1>2, <1>3, There DEF Ready
<1> HIDE DEF k
<1>5. \A i \in 1..k : v[i] = w[i]
  <2>1. \A i \in 1..k : i \in 1..m
    BY <1>2
  <2> QED
    BY <1>1, <1>3, <1>4, <2>1
<1>6. w[m] = Top /\ Top.saved \in Flags
  BY <1>1, <1>2 DEF Top, Frame
<1> HIDE DEF w, v
<1>7. TrapWaits(v, m) <=> TrapWaits(w, m)
  <2>1. \A i \in 1..k : v[i].kind = w[i].kind /\ v[i].saved.contflag = w[i].saved.contflag
    BY <1>5
  <2>2. m \in 1..(k + 1)
    BY <1>2
  <2> QED
    BY <1>2, <2>1, <2>2, TrapWaitsSame
<1>8. \A b : AtCondition(v, m, b) <=> AtCondition(w, m, b)
  <2>1. \A i \in 1..k : v[i].kind = w[i].kind /\ (w[i].kind \in LoopKinds => v[i].at = w[i].at)
    BY <1>5
  <2>2. m \in 1..(k + 1)
    BY <1>2
  <2> QED
    BY <1>2, <2>1, <2>2, AtConditionSame
<1>9. TrapWaits(w, n) <=> TrapWaits(w, m) \/ (w[m].kind = "trap" /\ w[m].saved.contflag)
  <2>1. \A j : j \in 1..(n - 1) <=> j \in 1..(m - 1) \/ j = m
    BY <1>2
  <2> QED
    BY <2>1, Zenon DEF TrapWaits
<1>10. ASSUME NEW b \in Nat, AtCondition(v, m, b)
       PROVE  AtCondition(w, n, IF w[m].kind \in LoopKinds THEN b + 1 ELSE b)
  <2>1. AtCondition(w, m, b)
    BY <1>8, <1>10
  <2> QED
    BY <1>2, <2>1, AtConditionStep
<1> QED
  BY <1>1, <1>4, <1>5, <1>6, <1>7, <1>8, <1>9, <1>10, <1>2 DEF w, v

LEMMA LoopLeftShown ==
    ASSUME Ready, In(LoopKinds), Top.at # "always", LeaveLoop,
           exit_level' = exit_level, retflag' = retflag,
           breaks' = Minus1(breaks), contflag' => contflag /\ breaks # 1
    PROVE  Shown
<1> DEFINE m == Len(stack)
           n == m + 1
           w == All
           v == After
<1>1. m \in 1..MaxDepth /\ Top.kind \in LoopKinds
  BY TopFrame DEF Ready
<1>2. Pop /\ m # 0
  BY <1>1 DEF LeaveLoop
<1>3. Top.kind # "trap" /\ Top.kind # "source" /\ Top.kind # "function" /\ ~Holds(Top)
  BY <1>1 DEF LoopKinds, Holds
<1>4. Clean(w, n) /\ \A j \in 1..m : Waits(w, j, n)
  BY Current
<1>5. breaks \in Nat
  BY Types DEF Ready
<1>6. n = m + 1
  OBVIOUS
<1> HIDE DEF m, n
<1>7. /\ m \in Nat \ {0}
      /\ \A i \in 1..(m - 1) : v[i] = w[i]
      /\ Holds(v[m]) /\ Holds(w[n])
      /\ w[n].saved.breaks = breaks /\ w[n].saved.contflag = contflag
      /\ w[n].saved.retflag = retflag
      /\ v[m].saved.breaks = breaks' /\ v[m].saved.contflag = contflag'
      /\ v[m].saved.retflag = retflag
      /\ TrapWaits(w, n) => TrapWaits(v, m)
      /\ \A b \in Nat : AtCondition(v, m, b) => AtCondition(w, n, b + 1)
  BY <1>1, <1>2, <1>3, <1>6, LeftFacts DEF m
<1> HIDE DEF w, v
<1>8. Clean(v, m)
  <2>1. SUFFICES ASSUME contflag'
                 PROVE  /\ ~retflag
                        /\ breaks' > 0 \/ TrapWaits(v, m)
                        /\ breaks' > 0 => ~AtCondition(v, m, breaks')
    BY <1>7 DEF Clean
  <2>2. contflag /\ breaks # 1
    BY <2>1
  <2>3. ~retflag /\ (breaks > 0 \/ TrapWaits(w, n)) /\ (breaks > 0 => ~AtCondition(w, n, breaks))
    BY <1>4, <1>7, <2>2 DEF Clean
  <2>4. CASE breaks = 0
    BY <1>7, <2>3, <2>4 DEF Minus1
  <2>5. CASE breaks # 0
    <3> DEFINE b == breaks - 1
    <3>1. b \in Nat /\ b > 0 /\ breaks' = b /\ breaks = b + 1
      BY <1>5, <2>2, <2>5 DEF Minus1
    <3> HIDE DEF b
    <3>2. ~AtCondition(v, m, b)
      BY <1>7, <2>3, <3>1
    <3> QED
      BY <2>3, <3>1, <3>2
  <2> QED
    BY <2>4, <2>5
<1>9. \A j \in 1..(m - 1) : Waits(v, j, m)
  <2>1. SUFFICES ASSUME NEW j \in 1..(m - 1) PROVE Waits(v, j, m)
    OBVIOUS
  <2>2. j \in 1..m /\ j < n /\ v[j] = w[j] /\ Waits(w, j, n)
    BY <1>4, <1>6, <1>7
  <2>3. (breaks = 0 => breaks' = 0) /\ (breaks' > 0 => breaks > 0)
        /\ (contflag' /\ breaks' > 0 => contflag)
    BY <1>5 DEF Minus1
  <2> QED
    BY <1>7, <2>2, <2>3, Calmer
<1> QED
  BY <1>1, <1>2, <1>3, <1>7, <1>8, <1>9, Left DEF m, v

\* A loop that goes round.
LEMMA RoundShown ==
    ASSUME Ready, In(LoopKinds), Top.at # "always", AfterBody, ~LeaveLoop,
           exit_level' = exit_level, retflag' = retflag
    PROVE  Shown
<1> DEFINE m == Len(stack)
           n == m + 1
           w == All
           v == After
           at == IF Top.kind = "for" THEN "body" ELSE "cond"
           c == IF Top.kind = "for" THEN 0 ELSE lastval'
           f == [Top EXCEPT !.at = at, !.saved.lastval = c]
<1>1. stack' = [stack EXCEPT ![Len(stack)].at = at, ![Len(stack)].saved.lastval = c]
      /\ breaks' = Minus1(breaks) /\ contflag' = (contflag /\ breaks /= 1)
      /\ ~(breaks > 1)
  BY DEF AfterBody
<1>2. Top \in Frame /\ Top.kind \in LoopKinds /\ Top.saved \in Flags
      /\ m \in 1..MaxDepth /\ Top = stack[m] /\ stack \in Seq(Frame)
  BY TopFrame, Types DEF Ready
<1>3. at \in {"body", "cond"}
  OBVIOUS
<1>4. f.kind = Top.kind /\ f.at = at /\ f.trap_return = Top.trap_return
      /\ f.saved = [Top.saved EXCEPT !.lastval = c]
  BY <1>2 DEF Frame
<1>5. f.saved.breaks = Top.saved.breaks /\ f.saved.contflag = Top.saved.contflag
      /\ f.saved.retflag = Top.saved.retflag
  BY <1>2, <1>4 DEF Flags
<1>6. stack' = [stack EXCEPT ![Len(stack)] = f]
  BY <1>1, <1>2
<1>7. Holds(f) <=> Holds(Top)
  BY <1>2, <1>3, <1>4 DEF Holds, LoopKinds
<1> HIDE DEF f, at, c
<1>8. /\ Len(stack') = Len(stack)
      /\ \A i \in 1..(Len(stack) - 1) : stack'[i] = stack[i]
      /\ \A i \in 1..Len(stack) : /\ stack'[i].kind = stack[i].kind
                                  /\ stack'[i].saved.breaks = stack[i].saved.breaks
                                  /\ stack'[i].saved.contflag = stack[i].saved.contflag
                                  /\ stack'[i].saved.retflag = stack[i].saved.retflag
                                  /\ stack'[i].trap_return = stack[i].trap_return
                                  /\ Holds(stack'[i]) <=> Holds(stack[i])
  BY <1>2, <1>4, <1>5, <1>6, <1>7, NewTop
<1>9. breaks' = 0 /\ (contflag' => contflag /\ breaks = 0) /\ breaks \in Nat
  <2>1. breaks \in Nat
    BY Types DEF Ready
  <2>2. breaks = 0 \/ breaks = 1
    BY <1>1, <2>1
  <2>3. breaks' = 0
    BY <1>1, <2>2 DEF Minus1
  <2>4. contflag' => contflag /\ breaks # 1
    BY <1>1
  <2> QED
    BY <2>1, <2>2, <2>3, <2>4
<1>10. Clean(w, n) /\ \A j \in 1..m : Waits(w, j, n)
  BY Current
<1>11. m \in Nat /\ (\A i \in 1..m : w[i] = stack[i]) /\ Holds(w[n])
       /\ w[n].saved.breaks = breaks /\ w[n].saved.contflag = contflag
       /\ w[n].saved.retflag = retflag
  BY Here DEF Ready
<1>12. (\A i \in 1..m : v[i] = stack'[i]) /\ Holds(v[n])
       /\ v[n].saved.breaks = breaks' /\ v[n].saved.contflag = contflag'
       /\ v[n].saved.retflag = retflag
  BY <1>8, There DEF Ready
<1>13. n = m + 1 /\ n \in 1..(m + 1)
  BY <1>11
<1>14. \A i \in 1..m : /\ v[i].kind = w[i].kind
                       /\ v[i].saved.breaks = w[i].saved.breaks
                       /\ v[i].saved.contflag = w[i].saved.contflag
                       /\ v[i].saved.retflag = w[i].saved.retflag
                       /\ Holds(v[i]) <=> Holds(w[i])
  BY <1>8, <1>11, <1>12
<1> HIDE DEF m, n, w, v
<1>15. TrapWaits(v, n) <=> TrapWaits(w, n)
  BY <1>11, <1>13, <1>14, TrapWaitsSame
<1>16. Clean(v, n)
  BY <1>9, <1>10, <1>11, <1>12, <1>15 DEF Clean
<1>17. \A j \in 1..m : Waits(v, j, n)
  BY <1>9, <1>10, <1>11, <1>12, <1>14 DEF Waits
<1> QED
  BY <1>8, <1>16, <1>17, Stay DEF m, n, w, v

LEMMA AfterBodyShown ==
    ASSUME Ready, In(LoopKinds), Top.at # "always", AfterBody,
           exit_level' = exit_level, retflag' = retflag
    PROVE  Shown
<1>1. breaks' = Minus1(breaks) /\ (contflag' => contflag /\ breaks # 1)
  BY DEF AfterBody
<1> QED
  BY <1>1, LoopLeftShown, RoundShown

LEMMA BodyEndShown ==
    ASSUME Ready, BodyEnd
    PROVE  Shown
<1>1. retflag' = retflag /\ exit_level' = exit_level /\ AfterBody
  BY DEF BodyEnd
<1>2. In(LoopKinds) /\ Top.at # "always"
  <2>1. PICK kind \in LoopKinds : ListEnd(kind, "body")
    BY DEF BodyEnd
  <2> QED
    BY <2>1 DEF ListEnd, In
<1> QED
  BY <1>1, <1>2, AfterBodyShown

LEMMA CondEndShown ==
    ASSUME Ready, CondEnd
    PROVE  Shown
<1> DEFINE m == Len(stack)
           n == m + 1
           w == All
<1>1. retflag' = retflag /\ exit_level' = exit_level
  BY DEF CondEnd
<1>2. In(LoopKinds) /\ Top.at = "cond"
  BY DEF CondEnd, ListEnd, In, LoopKinds
<1>3. m \in 1..MaxDepth /\ Top = stack[m] /\ Top.kind \in LoopKinds
  BY <1>2, TopFrame DEF Ready
\* The innermost loop is at its condition, and no `continue' is for it.
<1>4. contflag => breaks # 1
  <2>1. m \in Nat \ {0} /\ w[m] = Top /\ Holds(w[n])
        /\ w[n].saved.breaks = breaks /\ w[n].saved.contflag = contflag
    BY <1>3, Here DEF Ready
  <2>2. Clean(w, n) /\ n = m + 1
    BY Current
  <2>3. AtCondition(w, n, 1)
    <3> HIDE DEF m, w, n
    <3> QED
      BY <1>2, <1>3, <2>1, <2>2, AtConditionTop
  <2> HIDE DEF m, w, n
  <2> QED
    BY <2>1, <2>2, <2>3 DEF Clean
<1>5. \/ /\ breaks' = Minus1(breaks) /\ LeaveLoop /\ contflag' = contflag
      \/ AfterBody
      \/ /\ MoveTo("body") /\ breaks' = breaks /\ contflag' = contflag /\ ~Blocked
  BY DEF CondEnd
<1>6. CASE breaks' = Minus1(breaks) /\ LeaveLoop /\ contflag' = contflag
  BY <1>1, <1>2, <1>4, <1>6, LoopLeftShown
<1>7. CASE AfterBody
  BY <1>1, <1>2, <1>7, AfterBodyShown
<1>8. CASE MoveTo("body") /\ breaks' = breaks /\ contflag' = contflag /\ ~Blocked
  <2>1. breaks = 0
    BY <1>8, Types DEF Blocked, Ready
  <2> QED
    BY <1>1, <1>2, <1>8, <2>1, MoveShown
<1> QED
  BY <1>5, <1>6, <1>7, <1>8

\* A construct that neither loops nor holds is left with the flags as they are.
LEMMA PlainLeft ==
    ASSUME Ready, NEW kinds, In(kinds), Pop, ~Holds(Top), Top.kind \notin LoopKinds,
           Top.kind # "trap",
           exit_level' = exit_level, breaks' = breaks, contflag' = contflag,
           retflag' => retflag,
           retflag /\ (Top.kind = "function" => locallevel <= exit_level)
               /\ (Top.kind = "source" => exit_level > 0) => retflag'
    PROVE  Shown
<1> DEFINE m == Len(stack)
           n == m + 1
           w == All
           v == After
<1>1. m \in 1..MaxDepth
  BY TopFrame DEF Ready
<1>2. Clean(w, n) /\ \A j \in 1..m : Waits(w, j, n)
  BY Current
<1>3. breaks \in Nat /\ m # 0 /\ n = m + 1
  BY <1>1, Types DEF Ready
<1> HIDE DEF m, n
<1>4. /\ m \in Nat \ {0}
      /\ \A i \in 1..(m - 1) : v[i] = w[i]
      /\ Holds(v[m]) /\ Holds(w[n])
      /\ w[n].saved.breaks = breaks /\ w[n].saved.contflag = contflag
      /\ w[n].saved.retflag = retflag
      /\ v[m].saved.breaks = breaks /\ v[m].saved.contflag = contflag
      /\ v[m].saved.retflag = retflag'
      /\ TrapWaits(w, n) => TrapWaits(v, m)
      /\ \A b \in Nat : AtCondition(v, m, b) => AtCondition(w, n, b)
  BY <1>3, LeftFacts DEF m
<1> HIDE DEF w, v
<1>5. Clean(v, m)
  BY <1>2, <1>3, <1>4 DEF Clean
<1>6. \A j \in 1..(m - 1) : Waits(v, j, m)
  <2>1. SUFFICES ASSUME NEW j \in 1..(m - 1) PROVE Waits(v, j, m)
    OBVIOUS
  <2>2. j \in 1..m /\ j < n /\ v[j] = w[j] /\ Waits(w, j, n)
    BY <1>2, <1>3, <1>4
  <2> QED
    BY <1>4, <2>2, Calmer
<1> QED
  BY <1>3, <1>5, <1>6, Left DEF m, v

LEMMA IfShown ==
    ASSUME Ready, IfCondEnd \/ IfEnd
    PROVE  Shown
<1>1. /\ breaks' = breaks /\ contflag' = contflag /\ retflag' = retflag
      /\ exit_level' = exit_level
  BY DEF IfCondEnd, IfEnd, flags
<1>2. In({"if"}) /\ Top.at # "always"
  BY DEF IfCondEnd, IfEnd, ListEnd, In
<1>3. Top.kind = "if"
  BY <1>2 DEF In
<1>4. Top.kind \notin LoopKinds /\ ~Holds(Top)
  BY <1>2, <1>3 DEF LoopKinds, Holds
<1>5. Pop \/ \E at \in {"cond", "body"} : MoveTo(at)
  BY DEF IfCondEnd, IfEnd
<1>6. CASE Pop
  BY <1>1, <1>2, <1>3, <1>4, <1>6, PlainLeft
<1>7. ASSUME NEW at \in {"cond", "body"}, MoveTo(at) PROVE Shown
  BY <1>1, <1>2, <1>4, <1>7, MoveShown
<1> QED
  BY <1>5, <1>6, <1>7

LEMMA SourceEndShown ==
    ASSUME Ready, SourceEnd
    PROVE  Shown
<1>1. /\ breaks' = breaks /\ contflag' = contflag /\ exit_level' = exit_level
      /\ retflag' = (retflag /\ exit_level > 0) /\ Pop
  BY DEF SourceEnd
<1>2. In({"source"}) /\ Top.kind = "source" /\ Top.at = "body"
  BY DEF SourceEnd, ListEnd, In
<1>3. Top.kind \notin LoopKinds /\ ~Holds(Top)
  BY <1>2 DEF LoopKinds, Holds
<1> QED
  BY <1>1, <1>2, <1>3, PlainLeft

LEMMA FunctionEndShown ==
    ASSUME Ready, NEW local \in BOOLEAN, FunctionEnd(local), pc' # "done"
    PROVE  Shown
<1> DEFINE m == Len(stack)
           n == m + 1
           w == All
           v == After
           x == exit_level
           exits == exit_level > 0 /\ exit_level >= locallevel
<1>1. /\ Pop /\ exit_level' = exit_level
      /\ contflag' = IF local THEN Top.saved.contflag ELSE contflag
      /\ retflag' = (exits /\ locallevel > 1)
      /\ ~(exits /\ locallevel = 1)
      /\ exits \/ breaks' = IF local \/ retflag THEN Top.saved.breaks ELSE breaks
  BY DEF FunctionEnd
<1>2. In({"function"}) /\ Top.kind = "function" /\ Top.at = "body"
  BY DEF FunctionEnd, ListEnd, In
<1>3. m \in 1..MaxDepth /\ Top.kind \notin LoopKinds /\ ~Holds(Top)
  BY <1>2, TopFrame DEF Ready, LoopKinds, Holds
<1>4. Clean(w, n) /\ \A j \in 1..m : Waits(w, j, n)
  BY Current
<1>5. breaks \in Nat /\ m # 0 /\ n = m + 1 /\ x \in Nat /\ locallevel \in Nat /\ n \in (m + 1)..n
  BY <1>3, Types, Levels DEF Ready
<1>6. w[n].trap_return = NoReturn
  BY Here DEF Ready
<1>7. Level(w, m) = locallevel
  <2>1. DOMAIN stack = 1..m /\ \A i \in 1..m : w[i] = stack[i]
    BY Types, Here DEF Ready
  <2>2. Frames({"function"}) = {k \in 1..m : w[k].kind = "function"}
    BY <2>1 DEF Frames
  <2> QED
    BY <2>2 DEF locallevel, Level
<1>8. Called(w, m) /\ Exits(w, n, x, m)
  <2>1. m \in 1..n
    BY <1>3
  <2> QED
    BY <2>1 DEF Ready, Jumps
<1> HIDE DEF m, n
<1>9. /\ m \in Nat \ {0}
      /\ \A i \in 1..(m - 1) : v[i] = w[i]
      /\ w[m] = Top
      /\ Holds(v[m]) /\ Holds(w[n])
      /\ w[n].saved.breaks = breaks /\ w[n].saved.contflag = contflag
      /\ w[n].saved.retflag = retflag
      /\ v[m].saved.breaks = breaks' /\ v[m].saved.contflag = contflag'
      /\ v[m].saved.retflag = retflag'
      /\ TrapWaits(v, m) <=> TrapWaits(w, m)
      /\ TrapWaits(w, n) => TrapWaits(v, m)
      /\ \A b \in Nat : AtCondition(v, m, b) => AtCondition(w, n, b)
  BY <1>1, <1>2, <1>3, <1>5, LeftFacts DEF m
<1> HIDE DEF w, v, x, exits
<1>10. Top.saved.breaks = 0 /\ (Top.saved.contflag => TrapWaits(w, m))
  BY <1>2, <1>8, <1>9 DEF Called
<1>11. Level(w, m) # 0
  BY <1>2, <1>9, LevelGrows
\* Of an exit that leaves the function, the return is what is on its way.
<1>12. CASE exits
  <2>1. Level(w, m) <= x
    BY <1>5, <1>7, <1>12 DEF exits, x
  <2>2. \E j \in (m + 1)..n : Leaves(w, x, m, j)
    BY <1>2, <1>8, <1>9, <2>1 DEF Exits
  <2>3. \A j \in (m + 1)..n : j = n
    BY <1>5
  <2>4. Leaves(w, x, m, n)
    BY <2>2, <2>3
  <2>5. retflag
    BY <1>6, <1>9, <2>4 DEF Leaves
  <2>6. ~contflag
    BY <1>4, <1>9, <2>5 DEF Clean
  <2>7. \A j \in 1..m : Holds(w[j]) => ~w[j].saved.contflag
    <3>1. \A j \in 1..m : j < n
      BY <1>5, <1>9
    <3> QED
      BY <1>4, <1>9, <2>5, <3>1 DEF Waits
  <2>8. ~TrapWaits(w, m)
    <3>1. \A j \in 1..(m - 1) : j \in 1..m
      BY <1>9
    <3> QED
      BY <2>7, <3>1 DEF TrapWaits, Holds
  <2>9. ~contflag'
    BY <1>1, <1>10, <2>6, <2>8
  <2>10. Clean(v, m)
    BY <1>9, <2>9 DEF Clean
  <2>11. \A j \in 1..(m - 1) : Waits(v, j, m)
    <3>1. \A j \in 1..(m - 1) : j \in 1..m
      BY <1>9
    <3> QED
      BY <1>9, <2>7, <2>9, <3>1 DEF Waits
  <2>12. retflag'
    <3>1. locallevel # 1
      BY <1>1, <1>12
    <3>2. locallevel > 1
      BY <1>5, <1>7, <1>11, <3>1
    <3> QED
      BY <1>1, <1>12, <3>2, Zenon
  <2> QED
    BY <1>1, <1>5, <2>10, <2>11, <2>12, Left DEF m, v
<1>13. CASE ~exits
  <2>1. ~retflag' /\ breaks' = IF local \/ retflag THEN 0 ELSE breaks
    BY <1>1, <1>10, <1>13
  <2>2. Clean(v, m)
    <3>1. SUFFICES ASSUME contflag'
                   PROVE  /\ breaks' > 0 \/ TrapWaits(v, m)
                          /\ breaks' > 0 => ~AtCondition(v, m, breaks')
      BY <1>9, <2>1 DEF Clean
    <3>2. CASE local
      <4>1. Top.saved.contflag
        BY <1>1, <3>1, <3>2, Zenon
      <4>2. TrapWaits(v, m)
        BY <1>9, <1>10, <4>1
      <4>3. breaks' = 0
        BY <2>1, <3>2
      <4> QED
        BY <4>2, <4>3
    <3>3. CASE ~local
      <4>1. contflag
        BY <1>1, <3>1, <3>3
      <4>2. ~retflag /\ (breaks > 0 \/ TrapWaits(w, n))
            /\ (breaks > 0 => ~AtCondition(w, n, breaks))
        BY <1>4, <1>9, <4>1 DEF Clean
      <4>3. breaks' = breaks
        BY <2>1, <3>3, <4>2
      <4> QED
        BY <1>5, <1>9, <4>2, <4>3
    <3> QED
      BY <3>2, <3>3
  <2>3. \A j \in 1..(m - 1) : Waits(v, j, m)
    <3>1. SUFFICES ASSUME NEW j \in 1..(m - 1) PROVE Waits(v, j, m)
      OBVIOUS
    <3>2. j \in 1..m /\ j < n /\ v[j] = w[j] /\ Waits(w, j, n)
      BY <1>4, <1>5, <1>9
    <3>3. (breaks = 0 => breaks' = 0) /\ (breaks' > 0 => breaks > 0)
      BY <2>1
    <3>4. contflag' /\ breaks' > 0 => contflag
      <4>1. CASE local
        BY <2>1, <4>1
      <4>2. CASE ~local
        BY <1>1, <4>2, Zenon
      <4> QED
        BY <4>1, <4>2
    <3> QED
      BY <1>9, <2>1, <3>2, <3>3, <3>4, Calmer
  <2>4. ~(locallevel <= exit_level)
    BY <1>5, <1>7, <1>11, <1>13 DEF exits, x
  <2> QED
    BY <1>1, <1>2, <1>3, <1>5, <2>2, <2>3, <2>4, Left DEF m, v
<1> QED
  BY <1>12, <1>13

LEMMA TryEndShown ==
    ASSUME Ready, TryEnd
    PROVE  Shown
<1> DEFINE m == Len(stack)
           n == m + 1
           w == All
           v == After
           x == exit_level
           s == [Saved EXCEPT !.loops = 0,
                              !.lastval = IF errflag /= {} THEN 1 ELSE lastval]
           f == New("try", "always", s)
<1>1. /\ breaks' = 0 /\ contflag' = FALSE /\ retflag' = FALSE /\ exit_level' = exit_level
      /\ stack' = [stack EXCEPT ![Len(stack)] = f]
  BY DEF TryEnd
<1>2. In({"try"}) /\ Top.kind = "try" /\ Top.at = "try"
  BY DEF TryEnd, ListEnd, In
<1>3. m \in 1..MaxDepth /\ stack \in Seq(Frame) /\ Top = stack[m] /\ m \in Nat \ {0}
      /\ Jumps(w, n, x) /\ breaks \in Nat /\ n = m + 1
  BY <1>2, TopFrame, Types DEF Ready
<1>4. f.kind = "try" /\ f.trap_return = NoReturn /\ Holds(f)
      /\ f.saved.breaks = breaks /\ f.saved.contflag = contflag /\ f.saved.retflag = retflag
  BY DEF New, Holds, Saved
<1> HIDE DEF f
<1>5. (\A i \in 1..m : w[i] = stack[i])
      /\ w[n].kind = "now" /\ w[n].trap_return = NoReturn /\ Holds(w[n])
      /\ w[n].saved.breaks = breaks /\ w[n].saved.contflag = contflag
      /\ w[n].saved.retflag = retflag
  BY Here DEF Ready
<1>6. Len(stack') = m /\ stack'[m] = f /\ \A i \in 1..(m - 1) : stack'[i] = stack[i]
  BY <1>1, <1>3
<1>7. (\A i \in 1..m : v[i] = stack'[i])
      /\ v[n].kind = "now" /\ v[n].trap_return = NoReturn
      /\ v[n].saved.breaks = breaks' /\ v[n].saved.contflag = contflag'
      /\ v[n].saved.retflag = retflag'
  BY <1>6, There DEF Ready
<1> HIDE DEF m, n, w, v, x
<1>8. \A i \in 1..(m - 1) : v[i] = w[i]
  <2>1. \A i \in 1..(m - 1) : i \in 1..m
    BY <1>3
  <2> QED
    BY <1>5, <1>6, <1>7, <2>1
<1>9. m \in 1..m /\ m \in 1..n
  BY <1>3
<1>10. w[m] = Top /\ v[m] = f
  BY <1>3, <1>5, <1>6, <1>7, <1>9
<1>11. w[m].kind = "try" /\ ~Holds(w[m])
  BY <1>2, <1>10 DEF Holds
<1>12. w[m].trap_return = NoReturn
  BY <1>3, <1>9, <1>11 DEF Jumps, Forced
<1>13. Jumps(v, n, x)
  BY <1>1, <1>3, <1>4, <1>5, <1>7, <1>8, <1>10, <1>11, <1>12, HoldKeep
<1> QED
  BY <1>1, <1>3, <1>6, <1>13 DEF Shown, v, x

LEMMA AlwaysEndShown ==
    ASSUME Ready, AlwaysEnd
    PROVE  Shown
<1> DEFINE m == Len(stack)
           n == m + 1
           w == All
           v == After
           g == Top.saved
<1>1. /\ Pop /\ exit_level' = exit_level
      /\ retflag' = (retflag \/ Top.saved.retflag)
      /\ breaks' = IF breaks = 0 THEN Top.saved.breaks ELSE breaks
      /\ contflag' = (contflag \/ Top.saved.contflag)
  BY DEF AlwaysEnd
<1>2. In({"try"}) /\ Top.kind = "try" /\ Top.at = "always"
  BY DEF AlwaysEnd, ListEnd, In
<1>3. m \in 1..MaxDepth /\ Top.kind \notin LoopKinds /\ Holds(Top)
  BY <1>2, TopFrame DEF Ready, LoopKinds, Holds
<1>4. Clean(w, n) /\ (\A j \in 1..m : Waits(w, j, n)) /\ Clean(w, m)
  <2>1. m \in 1..m
    BY <1>3
  <2> QED
    BY <2>1, Current
<1>5. breaks \in Nat /\ m # 0 /\ n = m + 1
  BY <1>3, Types DEF Ready
<1>6. \A j \in 1..m : Waits(w, j, m)
  <2>1. \A j \in 1..m : j \in 1..n /\ m \in 1..n
    BY <1>3
  <2> QED
    BY <2>1 DEF Ready, Jumps
<1> HIDE DEF m, n
<1>7. /\ m \in Nat \ {0} /\ g \in Flags
      /\ \A i \in 1..(m - 1) : v[i] = w[i]
      /\ w[m] = Top
      /\ Holds(v[m]) /\ Holds(w[n])
      /\ w[n].saved.breaks = breaks /\ w[n].saved.contflag = contflag
      /\ w[n].saved.retflag = retflag
      /\ v[m].saved.breaks = breaks' /\ v[m].saved.contflag = contflag'
      /\ v[m].saved.retflag = retflag'
      /\ TrapWaits(v, m) <=> TrapWaits(w, m)
      /\ TrapWaits(w, n) => TrapWaits(w, m)
      /\ \A b \in Nat : AtCondition(v, m, b) => AtCondition(w, n, b)
      /\ \A b : AtCondition(v, m, b) <=> AtCondition(w, m, b)
  BY <1>1, <1>2, <1>3, <1>5, LeftFacts DEF m
<1>8. g.breaks \in Nat /\ w[m].saved = g
  BY <1>7, Types DEF Flags, Ready
<1> HIDE DEF w, v, g
<1>9. m \in 1..m /\ m < n
  BY <1>5, <1>7
<1>10. /\ g.contflag => breaks = 0 /\ ~retflag
       /\ contflag /\ breaks > 0 => g.breaks = 0 /\ ~g.retflag
  BY <1>3, <1>4, <1>7, <1>8, <1>9 DEF Waits
<1>11. ASSUME NEW j \in 1..(m - 1), Holds(w[j]), w[j].saved.contflag
       PROVE  breaks = 0 /\ ~retflag /\ g.breaks = 0 /\ ~g.retflag
  <2>1. j \in 1..m /\ j < m /\ j < n
    BY <1>5, <1>7
  <2> QED
    BY <1>3, <1>4, <1>6, <1>7, <1>8, <1>11, <2>1 DEF Waits
<1>12. /\ breaks' = IF breaks = 0 THEN g.breaks ELSE breaks
       /\ retflag' = (retflag \/ g.retflag)
       /\ contflag' = (contflag \/ g.contflag)
  BY <1>1 DEF g
<1>13. TrapWaits(w, m) => g.breaks = 0 /\ ~g.retflag
  <2>1. SUFFICES ASSUME NEW j \in 1..(m - 1), w[j].kind = "trap", w[j].saved.contflag
                 PROVE  g.breaks = 0 /\ ~g.retflag
    BY DEF TrapWaits
  <2> QED
    BY <1>11, <2>1 DEF Holds
<1>14. Clean(v, m)
  <2>1. SUFFICES ASSUME contflag'
                 PROVE  /\ ~retflag'
                        /\ breaks' > 0 \/ TrapWaits(v, m)
                        /\ breaks' > 0 => ~AtCondition(v, m, breaks')
    BY <1>7 DEF Clean
  <2>2. CASE g.contflag
    <3>1. breaks = 0 /\ ~retflag /\ breaks' = g.breaks
      BY <1>10, <1>12, <2>2
    <3>2. ~g.retflag /\ (g.breaks > 0 \/ TrapWaits(w, m))
          /\ (g.breaks > 0 => ~AtCondition(w, m, g.breaks))
      BY <1>3, <1>4, <1>7, <1>8, <2>2 DEF Clean
    <3>3. ~retflag'
      BY <1>12, <3>1, <3>2
    <3> QED
      BY <1>7, <3>1, <3>2, <3>3
  <2>3. CASE ~g.contflag
    <3>1. contflag
      BY <1>12, <2>1, <2>3
    <3>2. ~retflag /\ (breaks > 0 \/ TrapWaits(w, n))
          /\ (breaks > 0 => ~AtCondition(w, n, breaks))
      BY <1>4, <1>7, <3>1 DEF Clean
    <3>3. CASE breaks > 0
      <4>1. breaks' = breaks /\ ~g.retflag
        BY <1>10, <1>12, <3>1, <3>3
      <4>2. ~retflag'
        BY <1>12, <3>2, <4>1
      <4>3. ~AtCondition(v, m, breaks)
        BY <1>5, <1>7, <3>2, <3>3
      <4> QED
        BY <3>3, <4>1, <4>2, <4>3
    <3>4. CASE ~(breaks > 0)
      <4>1. breaks = 0 /\ TrapWaits(w, m)
        BY <1>5, <1>7, <3>2, <3>4
      <4>2. breaks' = 0 /\ ~g.retflag
        BY <1>12, <1>13, <4>1
      <4>3. ~retflag'
        BY <1>12, <3>2, <4>2
      <4> QED
        BY <1>7, <4>1, <4>2, <4>3
    <3> QED
      BY <3>3, <3>4
  <2> QED
    BY <2>2, <2>3
<1>15. \A j \in 1..(m - 1) : Waits(v, j, m)
  <2>1. SUFFICES ASSUME NEW j \in 1..(m - 1), Holds(w[j])
                 PROVE  /\ w[j].saved.contflag => breaks' = 0 /\ ~retflag'
                        /\ contflag' /\ breaks' > 0
                              => w[j].saved.breaks = 0 /\ ~w[j].saved.retflag
    BY <1>7 DEF Waits
  <2>2. w[j].saved.contflag => breaks' = 0 /\ ~retflag'
    BY <1>11, <1>12, <2>1
  <2>3. ASSUME contflag', breaks' > 0
        PROVE  w[j].saved.breaks = 0 /\ ~w[j].saved.retflag
    <3>1. j \in 1..m /\ j < m /\ j < n
      BY <1>5, <1>7
    <3>2. CASE g.contflag
      <4>1. g.breaks > 0
        BY <1>10, <1>12, <2>3, <3>2
      <4> QED
        BY <1>3, <1>6, <1>7, <1>8, <2>1, <3>1, <3>2, <4>1 DEF Waits
    <3>3. CASE ~g.contflag
      <4>1. contflag
        BY <1>12, <2>3, <3>3
      <4>2. breaks > 0
        <5>1. SUFFICES ASSUME breaks = 0 PROVE FALSE
          BY <1>5
        <5>2. TrapWaits(w, m)
          BY <1>4, <1>7, <4>1, <5>1 DEF Clean
        <5> QED
          BY <1>12, <1>13, <2>3, <5>1, <5>2
      <4> QED
        BY <1>4, <1>7, <2>1, <3>1, <4>1, <4>2 DEF Waits
    <3> QED
      BY <3>2, <3>3
  <2> QED
    BY <2>2, <2>3
<1>16. Top.trap_return = NoReturn
  <2>1. m \in 1..n /\ Jumps(w, n, exit_level)
    BY <1>5, <1>7 DEF Ready, w, m
  <2> QED
    BY <1>2, <1>7, <2>1 DEF Jumps, Forced
<1> QED
  BY <1>1, <1>5, <1>14, <1>15, <1>16, Left DEF m, v

LEMMA TrapEndShown ==
    ASSUME Ready, TrapEnd
    PROVE  Shown
<1> DEFINE m == Len(stack)
           n == m + 1
           w == All
           v == After
           g == Top.saved
           x == exit_level
<1>1. /\ Pop /\ exit_level' = exit_level /\ contflag' = contflag
      /\ \/ /\ Top.trap_return # NoReturn
            /\ retflag' = TRUE /\ breaks' = breaks
         \/ /\ Top.trap_return = NoReturn
            /\ breaks' = Least(breaks + g.breaks, loops) /\ retflag' = g.retflag
  BY DEF TrapEnd
<1>2. In({"trap"}) /\ Top.kind = "trap"
  BY DEF TrapEnd, ListEnd, In
<1>3. m \in 1..MaxDepth /\ Top.kind \notin LoopKinds /\ Holds(Top) /\ g.breaks <= loops
  <2>1. Top.kind \notin LoopKinds /\ Top.kind # "source" /\ Holds(Top)
    BY <1>2 DEF LoopKinds, Holds
  <2>2. g.breaks <= loops
    BY <1>1, <1>2, <2>1, PoppedTop DEF Ready
  <2> QED
    BY <1>2, <2>1, <2>2, TopFrame DEF Ready
<1>4. Clean(w, n) /\ (\A j \in 1..m : Waits(w, j, n)) /\ Clean(w, m)
  <2>1. m \in 1..m
    BY <1>3
  <2> QED
    BY <2>1, Current
<1>5. breaks \in Nat /\ breaks <= loops /\ loops \in Nat /\ m # 0 /\ n = m + 1
      /\ n \in (m + 1)..n
  BY <1>3, Types DEF Ready
<1>6. (\A j \in 1..m : Waits(w, j, m)) /\ OneTrap(w, n) /\ Forced(w, n, x, m)
  <2>1. \A j \in 1..m : j \in 1..n /\ m \in 1..n
    BY <1>3
  <2>2. m \in 1..n
    BY <1>3
  <2> QED
    BY <2>1, <2>2 DEF Ready, Jumps
<1> HIDE DEF m, n
<1>7. /\ m \in Nat \ {0} /\ g \in Flags
      /\ \A i \in 1..(m - 1) : v[i] = w[i]
      /\ w[m] = Top
      /\ Holds(v[m]) /\ Holds(w[n])
      /\ w[n].saved.breaks = breaks /\ w[n].saved.contflag = contflag
      /\ w[n].saved.retflag = retflag
      /\ v[m].saved.breaks = breaks' /\ v[m].saved.contflag = contflag
      /\ v[m].saved.retflag = retflag'
      /\ TrapWaits(v, m) <=> TrapWaits(w, m)
      /\ TrapWaits(w, n) => TrapWaits(w, m) \/ g.contflag
      /\ \A b \in Nat : AtCondition(v, m, b) => AtCondition(w, n, b)
      /\ \A b : AtCondition(v, m, b) <=> AtCondition(w, m, b)
  BY <1>1, <1>2, <1>3, <1>5, LeftFacts DEF m
<1>8. g.breaks \in Nat /\ w[m].saved = g
  BY <1>7, Types DEF Flags, Ready
<1> HIDE DEF w, v, g, x
<1>9. m \in 1..m /\ m < n /\ m \in 1..n
  BY <1>5, <1>7
<1>10. /\ g.contflag => breaks = 0 /\ ~retflag
       /\ contflag /\ breaks > 0 => g.breaks = 0 /\ ~g.retflag
  BY <1>3, <1>4, <1>7, <1>8, <1>9 DEF Waits
\* There is no other trap.
<1>11. ~TrapWaits(w, m)
  <2>1. \A j \in 1..(m - 1) : j \in 1..n /\ j # m
    BY <1>5, <1>7
  <2> QED
    BY <1>2, <1>6, <1>7, <1>9, <2>1 DEF OneTrap, TrapWaits
<1>12. ASSUME NEW j \in 1..(m - 1), Holds(w[j]), w[j].saved.contflag
       PROVE  breaks = 0 /\ ~retflag /\ g.breaks = 0 /\ ~g.retflag
  <2>1. j \in 1..m /\ j < m /\ j < n
    BY <1>5, <1>7
  <2> QED
    BY <1>3, <1>4, <1>6, <1>7, <1>8, <1>12, <2>1 DEF Waits
<1>13. CASE Top.trap_return # NoReturn
  <2>1. retflag' = TRUE
    BY <1>1, <1>13
  <2>2. retflag
    <3>1. w[m].trap_return # NoReturn
      BY <1>7, <1>13
    <3>2. \E j \in (m + 1)..n : Returns(w, x, m, j)
      BY <1>6, <3>1 DEF Forced
    <3>3. \A j \in (m + 1)..n : j = n
      BY <1>5
    <3>4. Returns(w, x, m, n)
      BY <3>2, <3>3
    <3> QED
      BY <1>7, <3>4 DEF Returns
  <2>3. ~contflag
    BY <1>4, <1>7, <2>2 DEF Clean
  <2>4. Clean(v, m)
    BY <1>7, <2>3 DEF Clean
  <2>5. \A j \in 1..(m - 1) : Waits(v, j, m)
    BY <1>7, <1>12, <2>2, <2>3 DEF Waits
  <2> QED
    BY <1>1, <1>2, <1>5, <2>1, <2>4, <2>5, Left DEF m, v
<1>14. CASE Top.trap_return = NoReturn
  <2>1. breaks' = Least(breaks + g.breaks, loops) /\ retflag' = g.retflag
    BY <1>1, <1>14
  <2>2. breaks = 0 => breaks' = g.breaks
    BY <1>3, <1>5, <1>8, <2>1 DEF Least
  <2>3. g.breaks = 0 => breaks' = breaks
    BY <1>5, <1>8, <2>1 DEF Least
  <2>4. Clean(v, m)
    <3>1. SUFFICES ASSUME contflag
                   PROVE  /\ ~retflag'
                          /\ breaks' > 0
                          /\ ~AtCondition(v, m, breaks')
      BY <1>7 DEF Clean
    <3>2. CASE g.contflag
      <4>1. breaks' = g.breaks
        BY <1>10, <2>2, <3>2
      <4>2. ~g.retflag /\ g.breaks > 0 /\ ~AtCondition(w, m, g.breaks)
        BY <1>3, <1>4, <1>7, <1>8, <1>11, <3>2 DEF Clean
      <4>3. ~retflag'
        BY <2>1, <4>2
      <4> QED
        BY <1>7, <4>1, <4>2, <4>3
    <3>3. CASE ~g.contflag
      <4>1. ~retflag /\ breaks > 0 /\ ~AtCondition(w, n, breaks)
        BY <1>4, <1>7, <1>11, <3>1, <3>3 DEF Clean
      <4>2. breaks' = breaks /\ ~g.retflag
        BY <1>10, <2>3, <3>1, <4>1
      <4>3. ~retflag'
        BY <2>1, <4>2
      <4>4. ~AtCondition(v, m, breaks)
        BY <1>5, <1>7, <4>1
      <4> QED
        BY <4>1, <4>2, <4>3, <4>4
    <3> QED
      BY <3>2, <3>3
  <2>5. \A j \in 1..(m - 1) : Waits(v, j, m)
    <3>1. SUFFICES ASSUME NEW j \in 1..(m - 1), Holds(w[j])
                   PROVE  /\ w[j].saved.contflag => breaks' = 0 /\ ~retflag'
                          /\ contflag /\ breaks' > 0
                                => w[j].saved.breaks = 0 /\ ~w[j].saved.retflag
      BY <1>7 DEF Waits
    <3>2. w[j].saved.contflag => breaks' = 0 /\ ~retflag'
      BY <1>12, <2>1, <2>2, <3>1
    <3>3. ASSUME contflag, breaks' > 0
          PROVE  w[j].saved.breaks = 0 /\ ~w[j].saved.retflag
      <4>1. j \in 1..m /\ j < m /\ j < n
        BY <1>5, <1>7
      <4>2. CASE g.contflag
        <5>1. g.breaks > 0
          BY <1>10, <2>2, <3>3, <4>2
        <5> QED
          BY <1>3, <1>6, <1>7, <1>8, <3>1, <4>1, <4>2, <5>1 DEF Waits
      <4>3. CASE ~g.contflag
        <5>1. breaks > 0
          BY <1>4, <1>7, <1>11, <3>3, <4>3 DEF Clean
        <5> QED
          BY <1>4, <1>7, <3>1, <3>3, <4>1, <5>1 DEF Waits
      <4> QED
        BY <4>2, <4>3
    <3> QED
      BY <3>2, <3>3
  <2>6. Holds(Top) /\ (Top.saved.retflag \/ Top.trap_return # NoReturn) => retflag'
    BY <1>14, <2>1 DEF g
  <2> QED
    BY <1>1, <1>2, <1>5, <2>4, <2>5, <2>6, Left DEF m, v
<1> QED
  BY <1>13, <1>14

\* The stacks when a construct is opened.
LEMMA PushFacts ==
    ASSUME Ready, NEW f, Push(f), NEW m, m = Len(stack), NEW n, n = m + 1, NEW o, o = m + 2
    PROVE  /\ m \in Nat /\ Len(stack') + 1 = o
           /\ \A i \in 1..m : After[i] = All[i] /\ All[i] = stack[i]
           /\ After[n] = f
           /\ After[o].kind = "now" /\ After[o].trap_return = NoReturn /\ Holds(After[o])
           /\ After[o].saved.breaks = breaks' /\ After[o].saved.contflag = contflag'
           /\ After[o].saved.retflag = retflag'
           /\ All[n].kind = "now" /\ All[n].trap_return = NoReturn /\ Holds(All[n])
           /\ All[n].saved.breaks = breaks /\ All[n].saved.contflag = contflag
           /\ All[n].saved.retflag = retflag
           /\ TrapWaits(After, n) <=> TrapWaits(All, n)
           /\ TrapWaits(After, o) <=> TrapWaits(All, n) \/ (f.kind = "trap" /\ f.saved.contflag)
           /\ \A b : AtCondition(After, n, b) <=> AtCondition(All, n, b)
<1> DEFINE w == All
           v == After
<1>1. m \in Nat /\ (\A i \in 1..m : w[i] = stack[i])
      /\ w[n].kind = "now" /\ w[n].trap_return = NoReturn /\ Holds(w[n])
      /\ w[n].saved.breaks = breaks /\ w[n].saved.contflag = contflag
      /\ w[n].saved.retflag = retflag
  BY Here DEF Ready
<1>2. Len(stack') = n /\ stack'[n] = f /\ \A i \in 1..m : stack'[i] = stack[i]
  <2>1. stack \in Seq(Frame) /\ stack' = Append(stack, f)
    BY Types DEF Ready, Push
  <2> QED
    BY <2>1
<1>3. (\A i \in 1..n : v[i] = stack'[i])
      /\ v[o].kind = "now" /\ v[o].trap_return = NoReturn /\ Holds(v[o])
      /\ v[o].saved.breaks = breaks' /\ v[o].saved.contflag = contflag'
      /\ v[o].saved.retflag = retflag'
  <2>1. o = n + 1
    BY <1>1
  <2> QED
    BY <1>2, <2>1, There DEF Ready
<1> HIDE DEF w, v
<1>4. \A i \in 1..m : i \in 1..n /\ v[i] = w[i]
  <2>1. \A i \in 1..m : i \in 1..n
    BY <1>1
  <2> QED
    BY <1>1, <1>2, <1>3, <2>1
<1>5. v[n] = f
  <2>1. n \in 1..n
    BY <1>1
  <2> QED
    BY <1>2, <1>3, <2>1
<1>6. n \in 1..(m + 1)
  BY <1>1
<1>7. TrapWaits(v, n) <=> TrapWaits(w, n)
  <2>1. \A i \in 1..m : v[i].kind = w[i].kind /\ v[i].saved.contflag = w[i].saved.contflag
    BY <1>4
  <2> QED
    BY <1>1, <1>6, <2>1, TrapWaitsSame
<1>8. \A b : AtCondition(v, n, b) <=> AtCondition(w, n, b)
  <2>1. \A i \in 1..m : v[i].kind = w[i].kind /\ (w[i].kind \in LoopKinds => v[i].at = w[i].at)
    BY <1>4
  <2> QED
    BY <1>1, <1>6, <2>1, AtConditionSame
<1>9. TrapWaits(v, o) <=> TrapWaits(v, n) \/ (v[n].kind = "trap" /\ v[n].saved.contflag)
  <2>1. \A j : j \in 1..(o - 1) <=> j \in 1..(n - 1) \/ j = n
    BY <1>1
  <2> QED
    BY <2>1, Zenon DEF TrapWaits
<1>10. Len(stack') + 1 = o
  BY <1>1, <1>2
<1> QED
  BY <1>1, <1>3, <1>4, <1>5, <1>7, <1>8, <1>9, <1>10 DEF w, v

\* A construct that holds nothing is opened where nothing is on its way.
LEMMA OpenShown ==
    ASSUME Ready, NEW f, Push(f), ~Holds(f), f.trap_return = NoReturn, CanRun,
           breaks' = breaks, contflag' = contflag, retflag' = retflag,
           exit_level' = exit_level,
           f.kind = "function" => /\ f.saved.breaks = breaks /\ f.saved.contflag = contflag
                                  /\ ~(locallevel + 1 <= exit_level)
    PROVE  Shown
<1> DEFINE m == Len(stack)
           n == m + 1
           o == m + 2
           w == All
           v == After
           x == exit_level
<1>1. breaks = 0 /\ ~retflag
  BY Types DEF CanRun, Blocked, Ready
<1>2. Clean(w, n) /\ Jumps(w, n, x)
  BY Current DEF Ready
<1>3. f.kind # "trap"
  BY DEF Holds
<1>4. locallevel = Level(w, m)
  <2>1. DOMAIN stack = 1..m /\ \A i \in 1..m : w[i] = stack[i]
    BY Types, Here DEF Ready
  <2>2. Frames({"function"}) = {k \in 1..m : w[k].kind = "function"}
    BY <2>1 DEF Frames
  <2> QED
    BY <2>2 DEF locallevel, Level
<1>5. n = m + 1 /\ o = m + 2
  OBVIOUS
<1>50. m = Len(stack)
  OBVIOUS
<1> HIDE DEF n, o, m
<1>51. /\ m \in Nat /\ Len(stack') + 1 = o
       /\ \A i \in 1..m : After[i] = All[i] /\ All[i] = stack[i]
       /\ After[n] = f
       /\ After[o].kind = "now" /\ After[o].trap_return = NoReturn /\ Holds(After[o])
       /\ After[o].saved.breaks = breaks' /\ After[o].saved.contflag = contflag'
       /\ After[o].saved.retflag = retflag'
       /\ All[n].kind = "now" /\ All[n].trap_return = NoReturn /\ Holds(All[n])
       /\ All[n].saved.breaks = breaks /\ All[n].saved.contflag = contflag
       /\ All[n].saved.retflag = retflag
       /\ TrapWaits(After, n) <=> TrapWaits(All, n)
       /\ TrapWaits(After, o) <=> TrapWaits(All, n) \/ (f.kind = "trap" /\ f.saved.contflag)
       /\ \A b : AtCondition(After, n, b) <=> AtCondition(All, n, b)
  BY <1>5, <1>50, PushFacts
<1> HIDE DEF w, v
<1>6. /\ m \in Nat /\ Len(stack') + 1 = o
      /\ \A i \in 1..m : v[i] = w[i]
      /\ v[n] = f
      /\ v[o].kind = "now" /\ v[o].trap_return = NoReturn /\ Holds(v[o])
      /\ v[o].saved.breaks = 0 /\ v[o].saved.contflag = contflag
      /\ ~v[o].saved.retflag
      /\ w[n].kind = "now" /\ w[n].trap_return = NoReturn /\ Holds(w[n])
      /\ w[n].saved.breaks = 0 /\ w[n].saved.contflag = contflag
      /\ ~w[n].saved.retflag
      /\ TrapWaits(v, n) <=> TrapWaits(w, n)
      /\ TrapWaits(w, n) => TrapWaits(v, o)
  <2>1. /\ v[o].saved.breaks = 0 /\ v[o].saved.contflag = contflag /\ ~v[o].saved.retflag
        /\ w[n].saved.breaks = 0 /\ ~w[n].saved.retflag
    BY <1>1, <1>51 DEF w, v
  <2>2. TrapWaits(w, n) => TrapWaits(v, o)
    BY <1>51, Zenon DEF w, v
  <2>3. TrapWaits(v, n) <=> TrapWaits(w, n)
    BY <1>51, Zenon DEF w, v
  <2>4. \A i \in 1..m : v[i] = w[i]
    BY <1>51 DEF w, v
  <2>5. /\ m \in Nat /\ Len(stack') + 1 = o
        /\ v[n] = f
        /\ v[o].kind = "now" /\ v[o].trap_return = NoReturn /\ Holds(v[o])
        /\ w[n].kind = "now" /\ w[n].trap_return = NoReturn /\ Holds(w[n])
        /\ w[n].saved.contflag = contflag
    BY <1>51 DEF w, v
  <2> QED
    BY <2>1, <2>2, <2>3, <2>4, <2>5
<1> HIDE DEF x
<1>7. contflag => TrapWaits(w, n)
  BY <1>2, <1>6 DEF Clean
<1>8. Clean(v, n) /\ Clean(v, o)
  <2>1. Clean(v, n)
    BY <1>6 DEF Clean
  <2>2. Clean(v, o)
    BY <1>6, <1>7 DEF Clean
  <2> QED
    BY <2>1, <2>2
<1>9. Called(v, n)
  BY <1>1, <1>6, <1>7 DEF Called
<1>10. v[n].kind = "function" => ~(Level(v, n) <= x)
  <2>1. SUFFICES ASSUME v[n].kind = "function" PROVE ~(Level(v, n) <= x)
    OBVIOUS
  <2>2. Level(v, n) = Level(v, m) + 1
    BY <1>5, <1>6, <2>1, LevelStep
  <2>3. Level(v, m) = Level(w, m)
    <3>1. \A i \in 1..m : v[i].kind = w[i].kind
      BY <1>6
    <3>2. m \in Nat /\ m \in 0..m
      BY <1>6
    <3>3. \A i \in 0..m : Level(v, i) = Level(w, i)
      BY <3>1, <3>2, LevelSame
    <3> QED
      BY <3>2, <3>3
  <2> QED
    BY <1>4, <1>6, <2>1, <2>2, <2>3 DEF x
<1>11. \A j \in 1..m : Waits(v, j, n) /\ Waits(v, j, o)
  BY <1>6 DEF Waits
<1>12. Waits(v, n, o)
  BY <1>6 DEF Waits
<1>13. v[n].trap_return = NoReturn /\ v[n].kind # "trap"
  BY <1>3, <1>6
<1>14. Jumps(v, o, x)
  BY <1>2, <1>5, <1>6, <1>8, <1>9, <1>10, <1>11, <1>12, <1>13, PushKeep
<1> QED
  BY <1>6, <1>14 DEF Shown, v, x

\* A construct that is a part of a chain may be opened while a jump is on its way.
LEMMA PartShown ==
    ASSUME Ready, NEW f, Push(f), ~Holds(f), f.trap_return = NoReturn,
           f.kind \in LoopKinds \cup {"if", "try"},
           breaks' = breaks, contflag' = contflag, retflag' = retflag,
           exit_level' = exit_level,
           contflag /\ f.kind \in LoopKinds => ~InCondition(breaks)'
    PROVE  Shown
<1> DEFINE m == Len(stack)
           n == m + 1
           o == m + 2
           w == All
           v == After
           x == exit_level
<1>1. Clean(w, n) /\ Jumps(w, n, x) /\ \A j \in 1..m : Waits(w, j, n)
  BY Current DEF Ready
<1>2. f.kind \notin {"function", "source", "trap"}
  BY DEF LoopKinds
<1>3. n = m + 1 /\ o = m + 2
  OBVIOUS
<1>4. m = Len(stack)
  OBVIOUS
<1> HIDE DEF n, o, m
<1>5. /\ m \in Nat /\ Len(stack') + 1 = o
      /\ \A i \in 1..m : After[i] = All[i] /\ All[i] = stack[i]
      /\ After[n] = f
      /\ After[o].kind = "now" /\ After[o].trap_return = NoReturn /\ Holds(After[o])
      /\ After[o].saved.breaks = breaks' /\ After[o].saved.contflag = contflag'
      /\ After[o].saved.retflag = retflag'
      /\ All[n].kind = "now" /\ All[n].trap_return = NoReturn /\ Holds(All[n])
      /\ All[n].saved.breaks = breaks /\ All[n].saved.contflag = contflag
      /\ All[n].saved.retflag = retflag
      /\ TrapWaits(After, n) <=> TrapWaits(All, n)
      /\ TrapWaits(After, o) <=> TrapWaits(All, n) \/ (f.kind = "trap" /\ f.saved.contflag)
      /\ \A b : AtCondition(After, n, b) <=> AtCondition(All, n, b)
  BY <1>3, <1>4, PushFacts
<1>6. contflag /\ breaks > 0 => ~AtCondition(After, o, breaks)
  <2>1. CASE f.kind \in LoopKinds
    <3>1. SUFFICES ASSUME contflag, AtCondition(After, o, breaks) PROVE FALSE
      OBVIOUS
    <3>2. stack' \in Seq(Frame) /\ Len(stack') = n
      BY <1>3, <1>5 DEF Ready
    <3>3. \A i \in 1..n : After[i] = stack'[i]
      BY <3>2, AllFacts DEF After
    <3>4. ConditionIn(stack', breaks)
      <4>1. o = n + 1
        BY <1>3, <1>5
      <4> QED
        BY <3>1, <3>2, <3>3, <4>1, AtConditionIn
    <3>5. InCondition(breaks)'
      BY <3>4 DEF InCondition, Frames, ConditionIn, LoopsIn
    <3> QED
      BY <2>1, <3>1, <3>5
  <2>2. CASE f.kind \notin LoopKinds
    <3>1. SUFFICES ASSUME contflag, breaks > 0, AtCondition(After, o, breaks) PROVE FALSE
      OBVIOUS
    <3>2. n \in Nat /\ o = n + 1
      BY <1>3, <1>5
    <3>3. AtCondition(After, n, breaks)
      BY <1>5, <2>2, <3>1, <3>2, AtConditionBack
    <3>4. ~AtCondition(All, n, breaks)
      BY <1>1, <1>5, <3>1 DEF Clean
    <3> QED
      BY <1>5, <3>3, <3>4
  <2> QED
    BY <2>1, <2>2
<1> HIDE DEF w, v, x
<1>7. /\ m \in Nat /\ Len(stack') + 1 = o
      /\ \A i \in 1..m : v[i] = w[i]
      /\ v[n] = f
      /\ v[o].kind = "now" /\ v[o].trap_return = NoReturn /\ Holds(v[o])
      /\ v[o].saved.breaks = breaks /\ v[o].saved.contflag = contflag
      /\ v[o].saved.retflag = retflag
      /\ w[n].kind = "now" /\ w[n].trap_return = NoReturn /\ Holds(w[n])
      /\ w[n].saved.breaks = breaks /\ w[n].saved.contflag = contflag
      /\ w[n].saved.retflag = retflag
  BY <1>5 DEF v, w
<1>8. TrapWaits(w, n) => TrapWaits(v, o)
  BY <1>5, Zenon DEF v, w
<1>9. contflag /\ breaks > 0 => ~AtCondition(v, o, breaks)
  BY <1>6 DEF v
<1>10. Clean(v, n) /\ Called(v, n)
  BY <1>2, <1>7 DEF Clean, Called
<1>11. Clean(v, o)
  BY <1>1, <1>7, <1>8, <1>9 DEF Clean
<1>12. \A j \in 1..m : Waits(v, j, n) /\ Waits(v, j, o)
  <2>1. \A j \in 1..m : j < n /\ j < o /\ v[j] = w[j]
    BY <1>3, <1>7
  <2> QED
    BY <1>1, <1>7, <2>1 DEF Waits
<1>13. Waits(v, n, o)
  BY <1>7 DEF Waits
<1>14. w[n].saved.retflag => /\ v[o].saved.retflag
                             /\ v[n].kind \notin {"function", "source", "trap"}
  BY <1>2, <1>7
<1>15. v[n].trap_return = NoReturn /\ v[n].kind \notin {"function", "source", "trap"}
  BY <1>2, <1>7
<1>16. Jumps(v, o, x)
  BY <1>1, <1>3, <1>7, <1>10, <1>11, <1>12, <1>13, <1>14, <1>15, PushKeep
<1> QED
  BY <1>7, <1>16 DEF Shown, v, x

LEMMA OpeningShown ==
    ASSUME Ready, BeginLoop \/ BeginBlock \/ BeginFunction \/ BeginSource
    PROVE  Shown
<1>1. /\ breaks' = breaks /\ contflag' = contflag /\ retflag' = retflag
      /\ exit_level' = exit_level
  BY DEF BeginLoop, BeginBlock, BeginFunction, BeginSource, flags
<1>2. ASSUME NEW kind \in {"function", "source"}, NEW saved, Push(New(kind, "body", saved)), CanRun,
             kind = "function" => /\ saved.breaks = breaks /\ saved.contflag = contflag
                                  /\ ~(locallevel + 1 <= exit_level)
      PROVE  Shown
  <2> DEFINE f == New(kind, "body", saved)
  <2>1. f.kind = kind /\ f.at = "body" /\ f.saved = saved /\ f.trap_return = NoReturn
    BY DEF New
  <2>2. Push(f)
    BY <1>2
  <2> HIDE DEF f
  <2>3. ~Holds(f)
    BY <1>2, <2>1 DEF Holds
  <2> QED
    BY <1>1, <1>2, <2>1, <2>2, <2>3, OpenShown
<1>3. ASSUME NEW kind \in LoopKinds \cup {"if", "try"}, NEW at \in {"body", "cond", "try"},
             Push(New(kind, at, Cleared)),
             contflag /\ kind \in LoopKinds => ~InCondition(breaks)'
      PROVE  Shown
  <2> DEFINE f == New(kind, at, Cleared)
  <2>1. f.kind = kind /\ f.at = at /\ f.trap_return = NoReturn
    BY DEF New
  <2>2. Push(f)
    BY <1>3
  <2> HIDE DEF f
  <2>3. ~Holds(f)
    BY <1>3, <2>1 DEF Holds, LoopKinds
  <2> QED
    BY <1>1, <1>3, <2>1, <2>2, <2>3, PartShown
<1>4. CASE BeginLoop
  <2>1. PICK kind \in LoopKinds, at \in {"body", "cond"} : Push(New(kind, at, Cleared))
    BY <1>4 DEF BeginLoop, LoopKinds
  <2>2. contflag => ~InCondition(breaks)'
    BY <1>4 DEF BeginLoop, Ready, Orderly
  <2> QED
    BY <1>3, <2>1, <2>2
<1>5. CASE BeginBlock
  <2>1. PICK kind \in {"if", "try"}, at \in {"cond", "try"} : Push(New(kind, at, Cleared))
    BY <1>5 DEF BeginBlock
  <2>2. kind \notin LoopKinds
    BY DEF LoopKinds
  <2> QED
    BY <1>3, <2>1, <2>2
<1>6. CASE BeginFunction
  <2>1. Push(New("function", "body", Saved)) /\ ~(exit_level >= locallevel + 1) /\ CanRun
    BY <1>6 DEF BeginFunction, Ready, Orderly
  <2>2. ~(locallevel + 1 <= exit_level)
    BY <2>1, Types, Levels DEF Ready
  <2>3. Saved.breaks = breaks /\ Saved.contflag = contflag
    BY DEF Saved
  <2> QED
    BY <1>2, <2>1, <2>2, <2>3
<1>7. CASE BeginSource
  <2>1. Push(New("source", "body", Saved)) /\ CanRun
    BY <1>7 DEF BeginSource
  <2> QED
    BY <1>2, <2>1
<1> QED
  BY <1>4, <1>5, <1>6, <1>7

LEMMA TrapBeginsShown ==
    ASSUME Ready, TrapBegins
    PROVE  Shown
<1> DEFINE m == Len(stack)
           n == m + 1
           o == m + 2
           w == All
           v == After
           x == exit_level
           f == New("trap", "body", Saved)
<1>1. /\ Push(f) /\ breaks' = 0 /\ retflag' = FALSE /\ contflag' = contflag
      /\ exit_level' = exit_level /\ Frames({"trap"}) = {}
  BY DEF TrapBegins
<1>2. f.kind = "trap" /\ f.trap_return = NoReturn /\ Holds(f)
      /\ f.saved.breaks = breaks /\ f.saved.contflag = contflag /\ f.saved.retflag = retflag
  BY DEF New, Holds, Saved
<1> HIDE DEF f
<1>3. Clean(w, n) /\ Jumps(w, n, x) /\ \A j \in 1..m : Waits(w, j, n)
  BY Current DEF Ready
<1>4. \A i \in 1..m : w[i].kind # "trap"
  <2>1. DOMAIN stack = 1..m /\ \A i \in 1..m : w[i] = stack[i]
    BY Types, Here DEF Ready
  <2> QED
    BY <1>1, <2>1 DEF Frames
<1>5. n = m + 1 /\ o = m + 2
  OBVIOUS
<1>50. m = Len(stack)
  OBVIOUS
<1> HIDE DEF n, o, m
<1>51. /\ m \in Nat /\ Len(stack') + 1 = o
       /\ \A i \in 1..m : After[i] = All[i] /\ All[i] = stack[i]
       /\ After[n] = f
       /\ After[o].kind = "now" /\ After[o].trap_return = NoReturn /\ Holds(After[o])
       /\ After[o].saved.breaks = breaks' /\ After[o].saved.contflag = contflag'
       /\ After[o].saved.retflag = retflag'
       /\ All[n].kind = "now" /\ All[n].trap_return = NoReturn /\ Holds(All[n])
       /\ All[n].saved.breaks = breaks /\ All[n].saved.contflag = contflag
       /\ All[n].saved.retflag = retflag
       /\ TrapWaits(After, n) <=> TrapWaits(All, n)
       /\ TrapWaits(After, o) <=> TrapWaits(All, n) \/ (f.kind = "trap" /\ f.saved.contflag)
       /\ \A b : AtCondition(After, n, b) <=> AtCondition(All, n, b)
  BY <1>1, <1>5, <1>50, PushFacts
<1> HIDE DEF w, v
<1>6. /\ m \in Nat /\ Len(stack') + 1 = o
      /\ \A i \in 1..m : v[i] = w[i]
      /\ v[n] = f
      /\ v[o].kind = "now" /\ v[o].trap_return = NoReturn /\ Holds(v[o])
      /\ v[o].saved.breaks = 0 /\ v[o].saved.contflag = contflag
      /\ ~v[o].saved.retflag
      /\ w[n].kind = "now" /\ w[n].trap_return = NoReturn /\ Holds(w[n])
      /\ w[n].saved.breaks = breaks /\ w[n].saved.contflag = contflag
      /\ w[n].saved.retflag = retflag
      /\ TrapWaits(v, n) <=> TrapWaits(w, n)
      /\ contflag => TrapWaits(v, o)
      /\ \A b : AtCondition(v, n, b) <=> AtCondition(w, n, b)
  <2>1. /\ v[o].saved.breaks = 0 /\ v[o].saved.contflag = contflag /\ ~v[o].saved.retflag
        /\ w[n].saved.breaks = breaks /\ w[n].saved.retflag = retflag
    BY <1>1, <1>51 DEF w, v
  <2>2. contflag => TrapWaits(v, o)
    BY <1>2, <1>51, Zenon DEF w, v
  <2>3. TrapWaits(v, n) <=> TrapWaits(w, n)
    BY <1>51, Zenon DEF w, v
  <2>4. \A i \in 1..m : v[i] = w[i]
    BY <1>51 DEF w, v
  <2>5. /\ m \in Nat /\ Len(stack') + 1 = o
        /\ v[n] = f
        /\ v[o].kind = "now" /\ v[o].trap_return = NoReturn /\ Holds(v[o])
        /\ w[n].kind = "now" /\ w[n].trap_return = NoReturn /\ Holds(w[n])
        /\ w[n].saved.contflag = contflag
    BY <1>51 DEF w, v
  <2>6. \A b : AtCondition(v, n, b) <=> AtCondition(w, n, b)
    BY <1>51, Zenon DEF w, v
  <2> QED
    BY <2>1, <2>2, <2>3, <2>4, <2>5, <2>6
<1> HIDE DEF x
<1>7. Clean(v, n)
  BY <1>2, <1>3, <1>6 DEF Clean
<1>8. Clean(v, o)
  BY <1>6 DEF Clean
<1>9. Called(v, n)
  BY <1>2, <1>6 DEF Called
<1>10. \A j \in 1..m : Waits(v, j, n) /\ Waits(v, j, o)
  BY <1>2, <1>3, <1>6 DEF Waits
<1>11. Waits(v, n, o)
  BY <1>6 DEF Waits
<1>12. /\ v[n].trap_return = NoReturn /\ v[n].kind # "function"
       /\ w[n].saved.retflag => Holds(v[n]) /\ v[n].saved.retflag
  BY <1>2, <1>6
<1>13. Jumps(v, o, x)
  BY <1>3, <1>4, <1>5, <1>6, <1>7, <1>8, <1>9, <1>10, <1>11, <1>12, PushKeep
<1> QED
  BY <1>1, <1>6, <1>13 DEF Shown, v, x

-----------------------------------------------------------------------------
(* The invariant, and what it says of the counters.                        *)

LEMMA ActionShown ==
    ASSUME Ready, Next, ~Ended, pc' # "done"
    PROVE  Shown
<1>1. CASE PassOver \/ Simple \/ AfterCommand
  BY <1>1, PlainShown
<1>2. CASE bin_break \/ bin_continue \/ Interrupt
  BY <1>2, JumpShown
<1>3. CASE bin_return
  BY <1>3, ReturnShown
<1>4. CASE bin_exit
  BY <1>4, ExitShown
<1>5. CASE BeginLoop \/ BeginBlock \/ BeginFunction \/ BeginSource
  BY <1>5, OpeningShown
<1>6. CASE TrapBegins
  BY <1>6, TrapBeginsShown
<1>7. CASE BodyEnd
  BY <1>7, BodyEndShown
<1>8. CASE CondEnd
  BY <1>8, CondEndShown
<1>9. CASE IfCondEnd \/ IfEnd
  BY <1>9, IfShown
<1>10. CASE TryEnd
  BY <1>10, TryEndShown
<1>11. CASE AlwaysEnd
  BY <1>11, AlwaysEndShown
<1>12. CASE \E local \in BOOLEAN : FunctionEnd(local)
  BY <1>12, FunctionEndShown
<1>13. CASE SourceEnd
  BY <1>13, SourceEndShown
<1>14. CASE TrapEnd
  BY <1>14, TrapEndShown
<1>15. CASE ScriptEnd
  BY <1>15 DEF ScriptEnd, Finish
<1> QED
  BY <1>1, <1>2, <1>3, <1>4, <1>5, <1>6, <1>7, <1>8, <1>9, <1>10, <1>11, <1>12, <1>13,
     <1>14, <1>15 DEF Next

LEMMA JumpsKeep ==
    ASSUME Orderly, JInv, [Next]_vars
    PROVE  JInv'
<1>1. IInv'
  BY NextKeeps DEF JInv
<1>2. CASE UNCHANGED vars
  <2>1. (pc # "done" => Jumps(All, Len(stack) + 1, exit_level))'
    BY <1>2 DEF JInv, vars, All, Saved
  <2> QED
    BY <1>1, <2>1 DEF JInv
<1>3. CASE Next /\ pc' # "done" /\ ~UNCHANGED vars
  <2>1. pc # "done" /\ ~Ended
    BY <1>3 DEF Ended, Next, PassOver, Simple, AfterCommand, bin_break, bin_continue,
       Interrupt, bin_return, bin_exit, BeginLoop, BeginBlock, BeginFunction, BeginSource,
       TrapBegins, BodyEnd, CondEnd, IfCondEnd, IfEnd, TryEnd, AlwaysEnd, FunctionEnd,
       SourceEnd, TrapEnd, ScriptEnd, ListEnd, CanRun, CanRunSimple
  <2>2. stack' \in Seq(Frame)
    BY <1>1 DEF IInv, TypeOK
  <2>3. Ready
    BY <2>1, <2>2 DEF Ready, JInv
  <2>4. Shown
    BY <1>3, <2>1, <2>3, ActionShown
  <2> QED
    BY <1>1, <2>4 DEF JInv, Shown, After, All, Saved
<1>4. CASE pc' = "done"
  BY <1>1, <1>4 DEF JInv
<1> QED
  BY <1>2, <1>3, <1>4

LEMMA JumpsBegin == Init => JInv
<1> SUFFICES ASSUME Init PROVE JInv
  OBVIOUS
<1>1. IInv
  BY InitHolds
<1>2. Len(stack) + 1 = 1
  BY DEF Init
<1>3. All[1].kind = "now" /\ All[1].trap_return = NoReturn
      /\ ~All[1].saved.contflag /\ ~All[1].saved.retflag /\ All[1].saved.breaks = 0
  <2>1. Len(stack) = 0 /\ 1 = 0 + 1 /\ breaks = 0 /\ ~contflag /\ ~retflag
    BY DEF Init
  <2> QED
    BY <1>1, <2>1, Here
<1> DEFINE w == All
           x == exit_level
<1> HIDE DEF w, x
<1>4. w[1].kind = "now" /\ w[1].trap_return = NoReturn
      /\ ~w[1].saved.contflag /\ ~w[1].saved.retflag /\ w[1].saved.breaks = 0
  BY <1>3 DEF w
<1>5. \A i \in 1..1 : i = 1
  OBVIOUS
<1>6. Clean(w, 1) /\ Called(w, 1) /\ OneTrap(w, 1)
  BY <1>4, <1>5 DEF Clean, Called, OneTrap
<1>7. Exits(w, 1, x, 1) /\ Forced(w, 1, x, 1)
  BY <1>4, <1>5 DEF Exits, Forced
<1>8. Waits(w, 1, 1)
  BY <1>4 DEF Waits
<1>9. Jumps(w, 1, x)
  BY <1>5, <1>6, <1>7, <1>8 DEF Jumps
<1> QED
  BY <1>1, <1>2, <1>9 DEF JInv, w, x

LEMMA LoopsCount ==
    ASSUME IInv
    PROVE  loops = Cardinality({i \in Frames(LoopKinds) : i > Innermost({"source"})})
<1> DEFINE m == Len(stack)
           s == Innermost({"source"})
           S == {i \in Frames(LoopKinds) : i > s}
<1>1. m \in Nat /\ DOMAIN stack = 1..m /\ loops = Depth(stack, m)
  BY Types DEF StackOK
<1>2. /\ Frames(LoopKinds) = {i \in 1..m : stack[i].kind \in LoopKinds}
      /\ Frames({"source"}) = {i \in 1..m : stack[i].kind = "source"}
  BY <1>1 DEF Frames
<1>3. /\ Frames({"source"}) = {} => s = 0
      /\ Frames({"source"}) # {} =>
            s \in Frames({"source"}) /\ \A j \in Frames({"source"}) : j <= s
  BY InnermostIs
<1> HIDE DEF m, s
<1>4. ASSUME NEW i \in 1..m
      PROVE  i > s <=> \A j \in 1..m : stack[j].kind = "source" => j < i
  <2>1. CASE Frames({"source"}) = {}
    <3>1. s = 0 /\ \A j \in 1..m : stack[j].kind # "source"
      BY <1>2, <1>3, <2>1
    <3> QED
      BY <1>1, <3>1
  <2>2. CASE Frames({"source"}) # {}
    <3>1. s \in 1..m /\ stack[s].kind = "source"
          /\ \A j \in 1..m : stack[j].kind = "source" => j <= s
      BY <1>2, <1>3, <2>2
    <3> QED
      BY <1>1, <3>1
  <2> QED
    BY <2>1, <2>2
<1>5. S = LoopSet(stack, m)
  BY <1>2, <1>4 DEF LoopSet
<1> QED
  BY <1>1, <1>5 DEF Depth, s

LEMMA LoopsTrue == JInv => LoopsTrueDepth
<1> SUFFICES ASSUME JInv, pc # "done" PROVE LoopsTrueDepth
  BY DEF LoopsTrueDepth
<1> DEFINE m == Len(stack)
           n == m + 1
<1>1. IInv /\ Jumps(All, n, exit_level)
  BY DEF JInv
<1>2. loops = Cardinality({i \in Frames(LoopKinds) : i > Innermost({"source"})})
  BY <1>1, LoopsCount
<1>3. breaks <= loops
  BY <1>1 DEF IInv
<1>4. contflag => breaks > 0 \/ Frames({"trap"}) # {}
  <2>1. m \in Nat /\ DOMAIN stack = 1..m /\ breaks \in Nat
    BY <1>1, Types
  <2>2. /\ \A i \in 1..m : All[i] = stack[i]
        /\ Holds(All[n]) /\ All[n].saved.breaks = breaks /\ All[n].saved.contflag = contflag
    BY <1>1, Here
  <2>3. n \in 1..n /\ n - 1 = m
    BY <2>1
  <2>4. Clean(All, n)
    BY <1>1, <2>3 DEF Jumps
  <2> DEFINE w == All
  <2> HIDE DEF w, n, m
  <2>5. w[n].saved.contflag => w[n].saved.breaks > 0 \/ TrapWaits(w, n)
    BY <2>2, <2>4 DEF Clean, w
  <2>6. TrapWaits(w, n) => \E j \in 1..m : w[j].kind = "trap"
    BY <2>3 DEF TrapWaits
  <2>7. (\E j \in 1..m : w[j].kind = "trap") => Frames({"trap"}) # {}
    BY <2>1, <2>2 DEF Frames, w
  <2> QED
    BY <2>2, <2>5, <2>6, <2>7 DEF w
<1> QED
  BY <1>2, <1>3, <1>4 DEF LoopsTrueDepth

\* The flags of an orderly script are at every step those some pending jump
\* explains, whatever traps and always lists are open.
THEOREM JumpsInOrder ==
    ASSUME Orderly
    PROVE  Spec => []JInv
<1>1. JInv /\ [Next]_vars => JInv'
  BY JumpsKeep
<1> QED
  BY <1>1, JumpsBegin, PTL DEF Spec

\* `loops' is the number of loops in progress in the innermost sourced file, no
\* jump is aimed past the outermost of them, and contflag ends with its
\* continue: every construct of loop.c, doshfunc(), source(), exectry() and
\* dotrapargs() leaves the counters as the constructs around it expect them.
THEOREM LoopsCounted ==
    ASSUME Orderly
    PROVE  Spec => []LoopsTrueDepth
<1> QED
  BY JumpsInOrder, LoopsTrue, PTL

-----------------------------------------------------------------------------
(* Scripts with none of those combinations.                                *)
(*                                                                         *)
(* What an always list or a trap finds pending at its end is then told by  *)
(* the flags themselves.  Four conditions on two constructs of the stack,  *)
(* i further inside than j, are needed beyond those of Jumps.              *)

Untroubled == Uses = {}

\* No interrupt arrives in an always list.
Calm(w, j, i) ==
    j < i /\ w[j].kind = "try" /\ Holds(w[j]) /\ Holds(w[i]) => "int" \notin w[i].saved.errflag

\* A trap sources no file while an exit is on its way.
NoFile(w, x, j, i) == j < i /\ w[j].kind = "trap" /\ w[i].kind = "source" => x = 0

\* A return at i gets as far as j.
Reaches(w, x, j, i) ==
    \A k \in (j + 1)..(i - 1) : /\ w[k].kind # "source"
                                /\ w[k].kind = "function" => Level(w, k) <= x

\* A trap that a return gets to has been told, or the return was there first.
Heard(w, x, j, i) ==
    j < i /\ w[j].kind = "trap" /\ Holds(w[i]) /\ w[i].saved.retflag /\ Reaches(w, x, j, i)
        => w[j].trap_return # NoReturn \/ w[j].saved.retflag

\* A `continue' that waits for a trap is there when the trap ends.
Carried(w, j, i) ==
    j < i /\ w[j].kind = "trap" /\ w[j].saved.contflag
        /\ (w[i].kind = "function" \/ Holds(w[i]))
        /\ (\A k \in (j + 1)..(i - 1) : ~Holds(w[k]))
    => w[i].saved.contflag

Pair(w, x, j, i)  == Calm(w, j, i) /\ NoFile(w, x, j, i) /\ Heard(w, x, j, i) /\ Carried(w, j, i)
Meets(w, n, x) == \A i, j \in 1..n : Pair(w, x, j, i)

RInv == JInv /\ (pc # "done" => Meets(All, Len(stack) + 1, exit_level))

\* Alike in what the conditions speak of.
Alike(f, g) ==
    /\ f.kind = g.kind
    /\ Holds(f) <=> Holds(g)
    /\ f.saved.errflag = g.saved.errflag
    /\ f.saved.contflag <=> g.saved.contflag
    /\ f.saved.retflag <=> g.saved.retflag
    /\ g.trap_return # NoReturn => f.trap_return # NoReturn

LEMMA ReachesSame ==
    ASSUME NEW v, NEW w, NEW k \in Nat, \A i \in 1..k : v[i].kind = w[i].kind
    PROVE  \A x : \A j \in Nat, i \in 1..(k + 1) : Reaches(v, x, j, i) <=> Reaches(w, x, j, i)
<1>1. SUFFICES ASSUME NEW x, NEW j \in Nat, NEW i \in 1..(k + 1)
               PROVE  Reaches(v, x, j, i) <=> Reaches(w, x, j, i)
  OBVIOUS
<1>2. \A h \in (j + 1)..(i - 1) : v[h].kind = w[h].kind /\ Level(v, h) = Level(w, h)
  <2>1. \A h \in (j + 1)..(i - 1) : h \in 0..k /\ h \in 1..k
    OBVIOUS
  <2> QED
    BY <2>1, LevelSame
<1> QED
  BY <1>2 DEF Reaches

LEMMA PairSame ==
    ASSUME NEW v, NEW w, NEW k \in Nat, \A i \in 1..k : Alike(v[i], w[i]), NEW x
    PROVE  \A i, j \in 1..k : Pair(w, x, j, i) => Pair(v, x, j, i)
<1>1. SUFFICES ASSUME NEW i \in 1..k, NEW j \in 1..k, Pair(w, x, j, i) PROVE Pair(v, x, j, i)
  OBVIOUS
<1>2. Alike(v[i], w[i]) /\ Alike(v[j], w[j])
  OBVIOUS
<1>3. Calm(v, j, i) /\ NoFile(v, x, j, i)
  BY <1>1, <1>2 DEF Pair, Calm, NoFile, Alike
<1>4. Reaches(v, x, j, i) => Reaches(w, x, j, i)
  <2>1. (\A h \in 1..k : v[h].kind = w[h].kind) /\ j \in Nat /\ i \in 1..(k + 1)
    BY DEF Alike
  <2> QED
    BY <2>1, ReachesSame
<1>5. Heard(v, x, j, i)
  BY <1>1, <1>2, <1>4 DEF Pair, Heard, Alike
<1>6. Carried(v, j, i)
  <2>1. \A h \in (j + 1)..(i - 1) : Holds(v[h]) <=> Holds(w[h])
    <3>1. \A h \in (j + 1)..(i - 1) : h \in 1..k
      OBVIOUS
    <3> QED
      BY <3>1 DEF Alike
  <2> QED
    BY <1>1, <1>2, <2>1 DEF Pair, Carried, Alike
<1> QED
  BY <1>3, <1>5, <1>6 DEF Pair

\* The same constructs, other flags; a trap may have been told to return.
LEMMA FlagsMeet ==
    ASSUME NEW v, NEW w, NEW m \in Nat, NEW n, n = m + 1, NEW x, Meets(w, n, x),
           \A i \in 1..m : Alike(v[i], w[i]),
           v[n].kind = "now",
           \A j \in 1..m : Calm(v, j, n) /\ Heard(v, x, j, n) /\ Carried(v, j, n)
    PROVE  Meets(v, n, x)
<1>1. \A i, j \in 1..m : Pair(v, x, j, i)
  <2>1. \A i, j \in 1..m : Pair(w, x, j, i)
    BY DEF Meets
  <2> QED
    BY <2>1, PairSame
<1>2. ASSUME NEW i \in 1..n, NEW j \in 1..n PROVE Pair(v, x, j, i)
  <2>1. CASE i \in 1..m /\ j \in 1..m
    BY <1>1, <2>1
  <2>2. CASE ~(j < i)
    BY <2>2 DEF Pair, Calm, NoFile, Heard, Carried
  <2>3. CASE i = n /\ j \in 1..m
    <3>1. NoFile(v, x, j, n)
      BY DEF NoFile
    <3> QED
      BY <2>3, <3>1 DEF Pair
  <2> QED
    BY <2>1, <2>2, <2>3
<1> QED
  BY <1>2 DEF Meets

\* The innermost construct is left.
LEMMA PopMeet ==
    ASSUME NEW v, NEW w, NEW m \in Nat \ {0}, NEW n, n = m + 1, NEW x \in Nat,
           Meets(w, n, x), Jumps(w, n, x),
           \A i \in 1..(m - 1) : v[i] = w[i],
           v[m].kind = "now", Holds(w[n]), w[n].kind = "now",
           "int" \in v[m].saved.errflag
               => "int" \in w[n].saved.errflag
                  \/ (Holds(w[m]) /\ "int" \in w[m].saved.errflag),
           v[m].saved.retflag
               => \/ w[m].kind = "trap"
                  \/ w[n].saved.retflag /\ (w[m].kind = "function" => Level(w, m) <= x)
                                        /\ (w[m].kind = "source" => x > 0)
                  \/ Holds(w[m]) /\ w[m].saved.retflag,
           ~v[m].saved.contflag
               => \/ w[m].kind = "trap"
                  \/ ~(w[n].saved.breaks = 0)
                  \/ ~Holds(w[m]) /\ ~w[n].saved.contflag
                  \/ (w[m].kind = "function" \/ Holds(w[m])) /\ ~w[m].saved.contflag
    PROVE  Meets(v, m, x)
<1> DEFINE k == m - 1
<1>1. k \in Nat /\ m = k + 1 /\ n = k + 2 /\ \A i \in 1..k : v[i] = w[i] /\ i \in 1..n
  OBVIOUS
<1>2. \A i, j \in 1..k : Pair(w, x, j, i) /\ (Pair(w, x, j, i) => Pair(v, x, j, i))
  <2>1. \A i \in 1..k : Alike(v[i], w[i])
    BY DEF Alike
  <2>2. \A i, j \in 1..k : Pair(w, x, j, i) => Pair(v, x, j, i)
    <3> HIDE DEF k
    <3> QED
      BY <1>1, <2>1, PairSame
  <2> QED
    BY <1>1, <2>2 DEF Meets
<1>3. \A j \in 1..k : Pair(w, x, j, m) /\ Pair(w, x, j, n) /\ Waits(w, j, n)
                      /\ (w[j].kind = "trap" => w[m].kind # "trap")
  <2>1. m \in 1..n /\ n \in 1..n
    OBVIOUS
  <2>2. \A j \in 1..k : Pair(w, x, j, m) /\ Pair(w, x, j, n) /\ Waits(w, j, n)
    BY <1>1, <2>1 DEF Meets, Jumps
  <2>3. \A j \in 1..k : w[j].kind = "trap" => w[m].kind # "trap"
    BY <1>1, <2>1 DEF Jumps, OneTrap
  <2> QED
    BY <2>2, <2>3
<1> HIDE DEF k
<1>4. ASSUME NEW j \in 1..k PROVE Pair(v, x, j, m)
  <2>1. Pair(w, x, j, m) /\ Pair(w, x, j, n) /\ Waits(w, j, n) /\ v[j] = w[j]
        /\ (w[j].kind = "trap" => w[m].kind # "trap") /\ j < m /\ j < n
    BY <1>1, <1>3
  <2>2. \A h : h \in (j + 1)..(n - 1) <=> h \in (j + 1)..(m - 1) \/ h = m
    BY <1>1
  <2>3. \A h \in (j + 1)..(m - 1) : Holds(v[h]) <=> Holds(w[h])
    <3>1. \A h \in (j + 1)..(m - 1) : h \in 1..k
      BY <1>1
    <3> QED
      BY <1>1, <3>1
  <2>4. Calm(v, j, m)
    BY <2>1 DEF Pair, Calm
  <2>5. NoFile(v, x, j, m)
    BY DEF NoFile
  <2>6. Heard(v, x, j, m)
    <3>1. Reaches(v, x, j, m) => Reaches(w, x, j, m)
      <4>1. (\A h \in 1..k : v[h].kind = w[h].kind) /\ j \in Nat /\ m \in 1..(k + 1)
        BY <1>1
      <4> QED
        BY <1>1, <4>1, ReachesSame
    <3>2. Reaches(w, x, j, m) /\ w[m].kind # "source"
             /\ (w[m].kind = "function" => Level(w, m) <= x) => Reaches(w, x, j, n)
      BY <2>2 DEF Reaches
    <3>3. w[j].kind = "trap" /\ w[m].kind = "source" => x = 0
      BY <2>1 DEF Pair, NoFile
    <3>4. SUFFICES ASSUME w[j].kind = "trap", v[m].saved.retflag, Reaches(w, x, j, m)
                   PROVE  w[j].trap_return # NoReturn \/ w[j].saved.retflag
      BY <2>1, <3>1 DEF Heard
    <3>5. CASE Holds(w[m]) /\ w[m].saved.retflag
      BY <2>1, <3>4, <3>5 DEF Pair, Heard
    <3>6. CASE w[n].saved.retflag /\ (w[m].kind = "function" => Level(w, m) <= x)
                                  /\ (w[m].kind = "source" => x > 0)
      <4>1. Reaches(w, x, j, n)
        BY <3>2, <3>3, <3>4, <3>6
      <4> QED
        BY <2>1, <3>4, <3>6, <4>1 DEF Pair, Heard
    <3> QED
      BY <2>1, <3>4, <3>5, <3>6
  <2>7. Carried(v, j, m)
    <3>1. SUFFICES ASSUME w[j].kind = "trap", w[j].saved.contflag,
                          \A h \in (j + 1)..(m - 1) : ~Holds(w[h])
                   PROVE  v[m].saved.contflag
      BY <2>1, <2>3 DEF Carried
    <3>2. w[m].kind = "function" \/ Holds(w[m]) => w[m].saved.contflag
      BY <2>1, <3>1 DEF Pair, Carried
    <3>3. ~Holds(w[m]) => w[n].saved.contflag
      BY <2>1, <2>2, <3>1 DEF Pair, Carried
    <3>4. w[n].saved.breaks = 0
      BY <2>1, <3>1 DEF Waits, Holds
    <3> QED
      BY <2>1, <3>1, <3>2, <3>3, <3>4
  <2> QED
    BY <2>4, <2>5, <2>6, <2>7 DEF Pair
<1>5. ASSUME NEW i \in 1..m, NEW j \in 1..m PROVE Pair(v, x, j, i)
  <2>1. CASE i \in 1..k /\ j \in 1..k
    BY <1>2, <2>1
  <2>2. CASE ~(j < i)
    BY <2>2 DEF Pair, Calm, NoFile, Heard, Carried
  <2>3. CASE i = m /\ j \in 1..k
    BY <1>4, <2>3
  <2> QED
    BY <1>1, <2>1, <2>2, <2>3
<1> QED
  BY <1>5 DEF Meets

\* A construct is opened: the flags wait in it (a trap), or it holds none.
LEMMA PushMeet ==
    ASSUME NEW v, NEW w, NEW m \in Nat, NEW n, n = m + 1, NEW o, o = m + 2, NEW x,
           Meets(w, n, x),
           \A i \in 1..m : v[i] = w[i],
           Holds(w[n]), w[n].kind = "now", v[o].kind = "now",
           v[n].kind = "trap" => \A i \in 1..m : w[i].kind # "trap",
           Holds(v[n]) => v[n].kind = "trap" /\ v[n].saved.errflag = w[n].saved.errflag,
           v[n].kind \in {"function", "trap"} => (v[n].saved.contflag <=> w[n].saved.contflag),
           v[n].kind = "source" => x = 0,
           v[o].saved.errflag = w[n].saved.errflag,
           v[o].saved.retflag => w[n].saved.retflag /\ v[n].kind \notin {"function", "source", "trap"},
           v[o].saved.contflag <=> w[n].saved.contflag
    PROVE  Meets(v, o, x)
<1>1. \A i \in 1..m : i \in 1..n
  OBVIOUS
<1>2. \A i, j \in 1..m : Pair(v, x, j, i)
  <2>1. \A i \in 1..m : Alike(v[i], w[i])
    BY DEF Alike
  <2>2. \A i, j \in 1..m : Pair(w, x, j, i)
    BY <1>1 DEF Meets
  <2> QED
    BY <2>1, <2>2, PairSame
<1>3. ASSUME NEW j \in 1..m PROVE Pair(v, x, j, n) /\ Pair(v, x, j, o)
  <2>1. Pair(w, x, j, n) /\ v[j] = w[j] /\ j < n /\ j < o /\ j \in 1..n /\ n \in 1..n
    BY DEF Meets
  <2>2. \A h \in (j + 1)..(n - 1) : h \in (j + 1)..(o - 1) /\ h \in 1..m
    OBVIOUS
  <2>3. n \in (j + 1)..(o - 1)
    OBVIOUS
  <2>4. \A h \in (j + 1)..(n - 1) : Holds(v[h]) <=> Holds(w[h])
    BY <2>2
  <2>5. Calm(v, j, n) /\ Calm(v, j, o)
    BY <2>1 DEF Pair, Calm
  <2>6. NoFile(v, x, j, n) /\ NoFile(v, x, j, o)
    BY DEF NoFile
  <2>7. Heard(v, x, j, n) /\ Heard(v, x, j, o)
    <3>1. Heard(v, x, j, n)
      BY <2>1 DEF Heard
    <3>2. Reaches(v, x, j, o) => Reaches(w, x, j, n)
      <4>1. (\A h \in 1..m : v[h].kind = w[h].kind) /\ j \in Nat /\ n \in 1..(m + 1)
        OBVIOUS
      <4>2. Reaches(v, x, j, n) <=> Reaches(w, x, j, n)
        BY <4>1, ReachesSame
      <4> QED
        BY <2>2, <4>2 DEF Reaches
    <3> QED
      BY <2>1, <3>1, <3>2 DEF Pair, Heard
  <2>8. Carried(v, j, n)
    BY <2>1, <2>4 DEF Pair, Carried, Holds
  <2>9. Carried(v, j, o)
    BY <2>1, <2>2, <2>3, <2>4 DEF Pair, Carried
  <2> QED
    BY <2>5, <2>6, <2>7, <2>8, <2>9 DEF Pair
<1>4. Pair(v, x, n, o)
  <2>1. Calm(v, n, o)
    BY DEF Calm
  <2>2. NoFile(v, x, n, o) /\ Heard(v, x, n, o)
    BY DEF NoFile, Heard
  <2>3. Carried(v, n, o)
    BY DEF Carried
  <2> QED
    BY <2>1, <2>2, <2>3 DEF Pair
<1>5. ASSUME NEW i \in 1..o, NEW j \in 1..o PROVE Pair(v, x, j, i)
  <2>1. CASE i \in 1..m /\ j \in 1..m
    BY <1>2, <2>1
  <2>2. CASE ~(j < i)
    BY <2>2 DEF Pair, Calm, NoFile, Heard, Carried
  <2>3. CASE (i = n \/ i = o) /\ j \in 1..m
    BY <1>3, <2>3
  <2>4. CASE i = o /\ j = n
    BY <1>4, <2>4
  <2> QED
    BY <2>1, <2>2, <2>3, <2>4
<1> QED
  BY <1>5 DEF Meets

\* An always list begins: the try construct holds what the try list left.
LEMMA HoldMeet ==
    ASSUME NEW v, NEW w, NEW m \in Nat \ {0}, NEW n, n = m + 1, NEW x,
           Meets(w, n, x),
           \A i \in 1..(m - 1) : v[i] = w[i],
           w[m].kind = "try", ~Holds(w[m]), Holds(w[n]), w[n].kind = "now",
           v[m].kind = "try", Holds(v[m]),
           v[m].saved.errflag = w[n].saved.errflag,
           v[m].saved.contflag <=> w[n].saved.contflag,
           v[m].saved.retflag <=> w[n].saved.retflag,
           v[n].kind = "now", v[n].saved.errflag = {}, ~v[n].saved.retflag
    PROVE  Meets(v, n, x)
<1> DEFINE k == m - 1
<1>1. k \in Nat /\ m = k + 1 /\ n = k + 2 /\ \A i \in 1..k : v[i] = w[i] /\ i \in 1..n
  OBVIOUS
<1> HIDE DEF k
<1>2. \A i, j \in 1..k : Pair(v, x, j, i)
  <2>1. \A i \in 1..k : Alike(v[i], w[i])
    BY <1>1 DEF Alike
  <2>2. \A i, j \in 1..k : Pair(w, x, j, i)
    BY <1>1 DEF Meets
  <2> QED
    BY <1>1, <2>1, <2>2, PairSame
<1>3. ASSUME NEW j \in 1..k PROVE Pair(v, x, j, m) /\ Pair(v, x, j, n)
  <2>1. Pair(w, x, j, n) /\ v[j] = w[j] /\ j < n /\ j < m
    BY <1>1 DEF Meets
  <2>2. \A h : h \in (j + 1)..(n - 1) <=> h \in (j + 1)..(m - 1) \/ h = m
    BY <1>1
  <2>3. \A h \in (j + 1)..(m - 1) : Holds(v[h]) <=> Holds(w[h])
    <3>1. \A h \in (j + 1)..(m - 1) : h \in 1..k
      BY <1>1
    <3> QED
      BY <1>1, <3>1
  <2>4. Calm(v, j, m) /\ Calm(v, j, n)
    BY <2>1 DEF Pair, Calm
  <2>5. NoFile(v, x, j, m) /\ NoFile(v, x, j, n)
    BY DEF NoFile
  <2>6. Heard(v, x, j, m)
    <3>1. Reaches(v, x, j, m) => Reaches(w, x, j, m)
      <4>1. (\A h \in 1..k : v[h].kind = w[h].kind) /\ j \in Nat /\ m \in 1..(k + 1)
        BY <1>1
      <4> QED
        BY <1>1, <4>1, ReachesSame
    <3>2. Reaches(w, x, j, m) => Reaches(w, x, j, n)
      BY <2>2 DEF Reaches
    <3> QED
      BY <2>1, <3>1, <3>2 DEF Pair, Heard
  <2>7. Heard(v, x, j, n)
    BY DEF Heard
  <2>8. Carried(v, j, m)
    BY <2>1, <2>2, <2>3 DEF Pair, Carried
  <2>9. Carried(v, j, n)
    BY <2>2 DEF Carried
  <2> QED
    BY <2>4, <2>5, <2>6, <2>7, <2>8, <2>9 DEF Pair
<1>4. Pair(v, x, m, n)
  BY DEF Pair, Calm, NoFile, Heard, Carried
<1>5. ASSUME NEW i \in 1..n, NEW j \in 1..n PROVE Pair(v, x, j, i)
  <2>1. CASE i \in 1..k /\ j \in 1..k
    BY <1>2, <2>1
  <2>2. CASE ~(j < i)
    BY <2>2 DEF Pair, Calm, NoFile, Heard, Carried
  <2>3. CASE (i = m \/ i = n) /\ j \in 1..k
    BY <1>3, <2>3
  <2>4. CASE i = n /\ j = m
    BY <1>4, <2>4
  <2> QED
    BY <1>1, <2>1, <2>2, <2>3, <2>4
<1> QED
  BY <1>5 DEF Meets

-----------------------------------------------------------------------------
(* A step that only changes the flags, and one that leaves, opens or goes  *)
(* on with the innermost construct.                                        *)

\* What a step of an untroubled script in progress starts from, and shows.
Met      == Ready /\ Untroubled /\ Meets(All, Len(stack) + 1, exit_level)
MetAgain == Meets(After, Len(stack') + 1, exit_level')

LEMMA EndFlags ==
    ASSUME Met, NEW n, n = Len(stack) + 1, NEW o, o = Len(stack') + 1
    PROVE  /\ All[n].kind = "now" /\ Holds(All[n])
           /\ All[n].saved.errflag = errflag /\ All[n].saved.contflag = contflag
           /\ All[n].saved.retflag = retflag /\ All[n].saved.breaks = breaks
           /\ After[o].kind = "now" /\ Holds(After[o])
           /\ After[o].saved.errflag = errflag' /\ After[o].saved.contflag = contflag'
           /\ After[o].saved.retflag = retflag'
<1>1. stack \in Seq(Frame) /\ stack' \in Seq(Frame)
  BY Types DEF Met, Ready
<1>2. All[n].kind = "now" /\ Holds(All[n]) /\ All[n].saved = Saved
  BY <1>1, AllFacts DEF All
<1>3. After[o].kind = "now" /\ Holds(After[o]) /\ After[o].saved = Saved'
  BY <1>1, AllFacts DEF After
<1>4. /\ Saved.errflag = errflag /\ Saved.contflag = contflag /\ Saved.retflag = retflag
      /\ Saved.breaks = breaks
  BY DEF Saved
<1>5. Saved'.errflag = errflag' /\ Saved'.contflag = contflag' /\ Saved'.retflag = retflag'
  BY DEF Saved
<1> QED
  BY <1>2, <1>3, <1>4, <1>5

LEMMA StayMeet ==
    ASSUME Met, Len(stack') = Len(stack), exit_level' = exit_level,
           \A i \in 1..Len(stack) : Alike(stack'[i], stack[i]),
           "int" \in errflag' => \/ "int" \in errflag
                                 \/ \A i \in 1..Len(stack) : stack[i].kind = "try"
                                                                => ~Holds(stack[i]),
           retflag' => retflag,
           contflag /\ breaks = 0 => contflag'
    PROVE  MetAgain
<1> DEFINE m == Len(stack)
           n == m + 1
           w == All
           v == After
           x == exit_level
<1>1. /\ w[n].kind = "now" /\ Holds(w[n])
      /\ w[n].saved.errflag = errflag /\ w[n].saved.contflag = contflag
      /\ w[n].saved.retflag = retflag /\ w[n].saved.breaks = breaks
      /\ v[n].kind = "now" /\ Holds(v[n])
      /\ v[n].saved.errflag = errflag' /\ v[n].saved.contflag = contflag'
      /\ v[n].saved.retflag = retflag'
  BY EndFlags
<1>2. m \in Nat /\ n = m + 1 /\ (\A i \in 1..m : w[i] = stack[i])
  BY Here DEF Met, Ready
<1>3. \A i \in 1..m : v[i] = stack'[i]
  BY There DEF Met, Ready
<1>4. Meets(w, n, x) /\ Jumps(w, n, x) /\ Len(stack') + 1 = n
  BY DEF Met, Ready
<1>5. \A i \in 1..m : Alike(v[i], w[i])
  BY <1>2, <1>3
<1> HIDE DEF m, n, w, v, x
<1>6. ASSUME NEW j \in 1..m PROVE Calm(v, j, n) /\ Heard(v, x, j, n) /\ Carried(v, j, n)
  <2>1. Pair(w, x, j, n) /\ Waits(w, j, n)
    <3>1. n \in 1..n /\ j \in 1..n
      BY <1>2
    <3> QED
      BY <1>4, <3>1 DEF Meets, Jumps
  <2>2. Alike(v[j], w[j]) /\ j < n /\ w[j] = stack[j]
    BY <1>2, <1>5
  <2>3. Calm(v, j, n)
    BY <1>1, <2>1, <2>2 DEF Pair, Calm, Alike, m
  <2>4. Reaches(v, x, j, n) => Reaches(w, x, j, n)
    <3>1. (\A h \in 1..m : v[h].kind = w[h].kind) /\ j \in Nat /\ n \in 1..(m + 1)
      BY <1>2, <1>5 DEF Alike
    <3> QED
      BY <1>2, <3>1, ReachesSame
  <2>5. Heard(v, x, j, n)
    BY <1>1, <2>1, <2>2, <2>4 DEF Pair, Heard, Alike
  <2>6. \A h \in (j + 1)..(n - 1) : Holds(v[h]) <=> Holds(w[h])
    <3>1. \A h \in (j + 1)..(n - 1) : h \in 1..m
      BY <1>2
    <3> QED
      BY <1>5, <3>1 DEF Alike
  <2>7. Carried(v, j, n)
    <3>1. SUFFICES ASSUME w[j].kind = "trap", w[j].saved.contflag,
                          \A h \in (j + 1)..(n - 1) : ~Holds(w[h])
                   PROVE  contflag'
      BY <1>1, <2>2, <2>6 DEF Carried, Alike
    <3>2. contflag
      BY <1>1, <2>1, <2>2, <3>1 DEF Pair, Carried
    <3>3. breaks = 0
      BY <1>1, <2>1, <2>2, <3>1 DEF Waits, Holds
    <3> QED
      BY <3>2, <3>3
  <2> QED
    BY <2>3, <2>5, <2>7
<1>7. Meets(v, n, x)
  BY <1>1, <1>2, <1>4, <1>5, <1>6, FlagsMeet
<1> QED
  BY <1>4, <1>7 DEF MetAgain, v, x

LEMMA LeaveMeet ==
    ASSUME Met, NEW m, m = Len(stack), m # 0, Pop, exit_level' = exit_level,
           "int" \in errflag' => \/ "int" \in errflag
                                 \/ Holds(Top) /\ "int" \in Top.saved.errflag,
           retflag' => \/ Top.kind = "trap"
                       \/ retflag /\ (Top.kind = "function" => locallevel <= exit_level)
                                  /\ (Top.kind = "source" => exit_level > 0)
                       \/ Holds(Top) /\ Top.saved.retflag,
           ~contflag' => \/ Top.kind = "trap"
                         \/ ~(breaks = 0)
                         \/ ~Holds(Top) /\ ~contflag
                         \/ (Top.kind = "function" \/ Holds(Top)) /\ ~Top.saved.contflag
    PROVE  MetAgain
<1> DEFINE n == m + 1
           w == All
           v == After
           x == exit_level
<1>1. /\ m \in Nat \ {0}
      /\ \A i \in 1..(m - 1) : v[i] = w[i]
      /\ w[m] = Top
  BY LeftFacts DEF Met
<1>2. Len(stack') + 1 = m
  <2> DEFINE k == m - 1
  <2>1. k \in Nat /\ stack \in Seq(Frame)
    BY <1>1, Types DEF Met, Ready
  <2>2. \A i \in 1..k : stack[i] \in Frame
    BY <2>1
  <2>3. stack' = SubSeq(stack, 1, k)
    BY DEF Pop
  <2> HIDE DEF k
  <2>4. Len(SubSeq(stack, 1, k)) = IF 1 <= k THEN k - 1 + 1 ELSE 0
    BY <2>1, <2>2, SubSeqProperties
  <2>5. Len(stack') = k
    BY <2>1, <2>3, <2>4
  <2> QED
    BY <1>1, <2>5 DEF k
<1>3. n = Len(stack) + 1 /\ n = m + 1
  OBVIOUS
<1>4. Level(w, m) = locallevel
  <2>1. DOMAIN stack = 1..m /\ \A i \in 1..m : w[i] = stack[i]
    BY Types, Here DEF Met, Ready
  <2>2. Frames({"function"}) = {k \in 1..m : w[k].kind = "function"}
    BY <2>1 DEF Frames
  <2> QED
    BY <2>2 DEF locallevel, Level
<1>5. Meets(w, n, x) /\ Jumps(w, n, x) /\ x \in Nat
  BY Types DEF Met, Ready
<1> HIDE DEF n, w, v, x
<1>6. /\ w[n].kind = "now" /\ Holds(w[n])
      /\ w[n].saved.errflag = errflag /\ w[n].saved.contflag = contflag
      /\ w[n].saved.retflag = retflag /\ w[n].saved.breaks = breaks
      /\ v[m].kind = "now" /\ Holds(v[m])
      /\ v[m].saved.errflag = errflag' /\ v[m].saved.contflag = contflag'
      /\ v[m].saved.retflag = retflag'
  BY <1>2, <1>3, EndFlags DEF w, v
<1>7. "int" \in v[m].saved.errflag
         => "int" \in w[n].saved.errflag \/ (Holds(w[m]) /\ "int" \in w[m].saved.errflag)
  BY <1>1, <1>6
<1>8. v[m].saved.retflag
         => \/ w[m].kind = "trap"
            \/ w[n].saved.retflag /\ (w[m].kind = "function" => Level(w, m) <= x)
                                  /\ (w[m].kind = "source" => x > 0)
            \/ Holds(w[m]) /\ w[m].saved.retflag
  BY <1>1, <1>4, <1>6 DEF x
<1>9. ~v[m].saved.contflag
         => \/ w[m].kind = "trap"
            \/ ~(w[n].saved.breaks = 0)
            \/ ~Holds(w[m]) /\ ~w[n].saved.contflag
            \/ (w[m].kind = "function" \/ Holds(w[m])) /\ ~w[m].saved.contflag
  BY <1>1, <1>6
<1>10. Meets(v, m, x)
  BY <1>1, <1>3, <1>5, <1>6, <1>7, <1>8, <1>9, PopMeet
<1> QED
  BY <1>2, <1>10 DEF MetAgain, v, x

LEMMA OpenMeet ==
    ASSUME Met, NEW f, Push(f), exit_level' = exit_level,
           f.kind = "trap" => Frames({"trap"}) = {},
           Holds(f) => f.kind = "trap" /\ f.saved.errflag = errflag,
           f.kind \in {"function", "trap"} => f.saved.contflag = contflag,
           f.kind = "source" => exit_level = 0,
           errflag' = errflag, contflag' = contflag,
           retflag' => retflag /\ f.kind \notin {"function", "source", "trap"}
    PROVE  MetAgain
<1> DEFINE m == Len(stack)
           n == m + 1
           o == m + 2
           w == All
           v == After
           x == exit_level
<1>1. m = Len(stack) /\ n = m + 1 /\ o = m + 2
  OBVIOUS
<1> HIDE DEF m, n, o
<1>2. /\ m \in Nat /\ Len(stack') + 1 = o
      /\ \A i \in 1..m : v[i] = w[i] /\ w[i] = stack[i]
      /\ v[n] = f
  BY <1>1, PushFacts DEF Met
<1>3. n = Len(stack) + 1 /\ o = Len(stack') + 1
  BY <1>1, <1>2
<1> HIDE DEF w, v, x
<1>4. /\ w[n].kind = "now" /\ Holds(w[n])
      /\ w[n].saved.errflag = errflag /\ w[n].saved.contflag = contflag
      /\ w[n].saved.retflag = retflag
      /\ v[o].kind = "now"
      /\ v[o].saved.errflag = errflag' /\ v[o].saved.contflag = contflag'
      /\ v[o].saved.retflag = retflag'
  BY <1>3, EndFlags DEF w, v
<1>5. f.kind = "trap" => \A i \in 1..m : w[i].kind # "trap"
  <2>1. DOMAIN stack = 1..m
    BY <1>1, Types DEF Met, Ready
  <2> QED
    BY <1>2, <2>1 DEF Frames
<1>6. Meets(w, n, x)
  BY <1>1 DEF Met, w, x
<1>7. /\ Holds(v[n]) => v[n].kind = "trap" /\ v[n].saved.errflag = w[n].saved.errflag
      /\ v[n].kind \in {"function", "trap"} => (v[n].saved.contflag <=> w[n].saved.contflag)
      /\ v[n].kind = "source" => x = 0
      /\ v[n].kind = "trap" => \A i \in 1..m : w[i].kind # "trap"
  BY <1>2, <1>4, <1>5 DEF x
<1>8. /\ v[o].saved.errflag = w[n].saved.errflag
      /\ v[o].saved.retflag
            => w[n].saved.retflag /\ v[n].kind \notin {"function", "source", "trap"}
      /\ v[o].saved.contflag <=> w[n].saved.contflag
  BY <1>2, <1>4
<1>9. Meets(v, o, x)
  BY <1>1, <1>2, <1>4, <1>6, <1>7, <1>8, PushMeet
<1> QED
  BY <1>2, <1>9 DEF MetAgain, v, x

-----------------------------------------------------------------------------
(* Every action keeps the four conditions.                                 *)

LEMMA AlikeSelf == \A f : Alike(f, f)
  BY DEF Alike

LEMMA PlainMet ==
    ASSUME Met, PassOver \/ Simple \/ AfterCommand \/ bin_break \/ bin_continue
    PROVE  MetAgain
<1>1. /\ stack' = stack /\ exit_level' = exit_level /\ retflag' = retflag
      /\ "int" \in errflag' => "int" \in errflag
      /\ contflag => contflag'
  BY DEF PassOver, Simple, AfterCommand, bin_break, bin_continue, flags
<1>2. \A i \in 1..Len(stack) : Alike(stack'[i], stack[i])
  BY <1>1, AlikeSelf
<1> QED
  BY <1>1, <1>2, StayMeet

LEMMA InterruptMet ==
    ASSUME Met, Interrupt
    PROVE  MetAgain
<1>1. /\ stack' = stack /\ exit_level' = exit_level /\ retflag' = retflag
      /\ contflag' = contflag
      /\ ~\E i \in Frames({"try"}) : stack[i].at = "always"
  BY DEF Interrupt, Met, Untroubled
<1>2. \A i \in 1..Len(stack) : stack[i].kind = "try" => ~Holds(stack[i])
  <2>1. DOMAIN stack = 1..Len(stack)
    BY Types DEF Met, Ready
  <2> QED
    BY <1>1, <2>1 DEF Frames, Holds
<1>3. \A i \in 1..Len(stack) : Alike(stack'[i], stack[i])
  BY <1>1, AlikeSelf
<1> QED
  BY <1>1, <1>2, <1>3, StayMeet

\* Who sets out to return from inside a trap is stopped in between, or tells it.
LEMMA ReturnMet ==
    ASSUME Met, bin_return, pc' # "done"
    PROVE  MetAgain
<1> DEFINE m == Len(stack)
           n == m + 1
           w == All
           v == After
           x == exit_level
           t == Innermost({"function", "source", "trap"})
<1>1. /\ exit_level' = exit_level /\ contflag' = contflag /\ errflag' = errflag /\ CanRun
      /\ retflag' = TRUE /\ lastval' \in 0..1
  BY DEF bin_return, Finish
<1>2. ~retflag
  BY <1>1 DEF CanRun, Blocked
<1>3. t \in 1..m /\ \A j \in (t + 1)..m : stack[j].kind \notin {"function", "source", "trap"}
  BY ReturnTarget DEF Met
<1>4. stack' = IF stack[t].kind = "trap"
                  THEN [stack EXCEPT ![t].trap_return = lastval'] ELSE stack
  BY ReturnTarget DEF Met
<1> HIDE DEF t
<1>5. /\ Len(stack') = m
      /\ \A j \in 1..m : /\ Alike(stack'[j], stack[j])
                         /\ j # t \/ stack[t].kind # "trap" => stack'[j] = stack[j]
      /\ stack[t].kind = "trap" => stack'[t].trap_return # NoReturn
  <2>1. CASE stack[t].kind = "trap"
    <3>1. /\ Len(stack') = Len(stack)
          /\ \A j \in 1..Len(stack) : /\ stack'[j].kind = stack[j].kind
                                      /\ stack'[j].at = stack[j].at
                                      /\ stack'[j].saved = stack[j].saved
                                      /\ Holds(stack'[j]) <=> Holds(stack[j])
                                      /\ j # t => stack'[j] = stack[j]
          /\ stack'[t].trap_return = lastval'
      <4>1. stack' = [stack EXCEPT ![t].trap_return = lastval']
        BY <1>4, <2>1
      <4> QED
        BY <1>3, <4>1, NewTrapReturn DEF Met
    <3>2. lastval' # NoReturn
      BY <1>1 DEF NoReturn
    <3> QED
      BY <2>1, <3>1, <3>2 DEF Alike
  <2>2. CASE stack[t].kind # "trap"
    <3>1. stack' = stack
      BY <1>4, <2>2
    <3> QED
      BY <2>2, <3>1, AlikeSelf
  <2> QED
    BY <2>1, <2>2
<1>6. m \in Nat /\ n = m + 1 /\ n \in 1..n /\ (\A i \in 1..m : w[i] = stack[i] /\ i \in 1..n)
      /\ w[n].trap_return = NoReturn
  <2>1. m \in Nat /\ (\A i \in 1..m : w[i] = stack[i]) /\ w[n].trap_return = NoReturn
    BY Here DEF Met, Ready
  <2> QED
    BY <2>1
<1>7. \A i \in 1..m : v[i] = stack'[i]
  BY <1>5, There DEF Met, Ready
<1>8. Len(stack') + 1 = n
  BY <1>5
<1>9. /\ w[n].kind = "now" /\ Holds(w[n])
      /\ w[n].saved.errflag = errflag /\ w[n].saved.contflag = contflag
      /\ w[n].saved.retflag = retflag
      /\ v[n].kind = "now" /\ Holds(v[n])
      /\ v[n].saved.errflag = errflag /\ v[n].saved.contflag = contflag
  BY <1>1, <1>8, EndFlags
<1>10. Meets(w, n, x) /\ Jumps(w, n, x)
  BY DEF Met, Ready
<1>11. \A i \in 1..m : Alike(v[i], w[i])
  BY <1>5, <1>6, <1>7
<1>12. \A j \in (t + 1)..m : w[j].kind \notin {"function", "source", "trap"} /\ j \in 1..m
  <2>1. \A j \in (t + 1)..m : j \in 1..m
    BY <1>3
  <2> QED
    BY <1>3, <1>6, <2>1
<1>13. /\ w[t] = stack[t] /\ t \in 1..m
       /\ \A j \in 1..m : j # t \/ w[t].kind # "trap" => v[j] = w[j]
       /\ w[t].kind = "trap" => v[t].trap_return # NoReturn
  BY <1>3, <1>5, <1>6, <1>7
<1> HIDE DEF m, n, w, v, x
<1>14. ASSUME NEW j \in 1..m PROVE Calm(v, j, n) /\ Heard(v, x, j, n) /\ Carried(v, j, n)
  <2>1. Pair(w, x, j, n) /\ Alike(v[j], w[j]) /\ j < n
    BY <1>6, <1>10, <1>11 DEF Meets
  <2>2. Calm(v, j, n)
    BY <1>9, <2>1 DEF Pair, Calm, Alike
  <2>3. \A h \in (j + 1)..(n - 1) : Holds(v[h]) <=> Holds(w[h])
    <3>1. \A h \in (j + 1)..(n - 1) : h \in 1..m
      BY <1>6
    <3> QED
      BY <1>11, <3>1 DEF Alike
  <2>4. Carried(v, j, n)
    BY <1>9, <2>1, <2>3 DEF Pair, Carried, Alike
  <2>5. Reaches(v, x, j, n) => Reaches(w, x, j, n)
    <3>1. (\A h \in 1..m : v[h].kind = w[h].kind) /\ j \in Nat /\ n \in 1..(m + 1)
      BY <1>6, <1>11 DEF Alike
    <3> QED
      BY <1>6, <3>1, ReachesSame
  <2>6. Heard(v, x, j, n)
    <3>1. SUFFICES ASSUME w[j].kind = "trap", Reaches(w, x, j, n), j # t \/ w[t].kind # "trap"
                   PROVE  w[j].trap_return # NoReturn \/ w[j].saved.retflag
      BY <1>13, <2>1, <2>5 DEF Heard, Alike
    <3>2. j < t
      <4>1. j \notin (t + 1)..m
        BY <1>12, <3>1
      <4> QED
        BY <1>6, <1>13, <3>1, <4>1
    <3>3. w[t].kind = "function" /\ Level(w, t) <= x
      <4>1. t \in (j + 1)..(n - 1)
        BY <1>6, <1>13, <3>2
      <4>2. w[t].kind # "trap"
        BY <1>6, <1>10, <1>13, <3>1, <3>2 DEF Jumps, OneTrap
      <4>3. w[t].kind \in {"function", "source", "trap"}
        <5>1. t \in Frames({"function", "source", "trap"})
          <6>1. Frames({"function", "source", "trap"}) # {}
            <7>1. j \in Frames({"function", "source", "trap"})
              <8>1. DOMAIN stack = 1..m
                BY Types DEF Met, Ready, m
              <8> QED
                BY <1>6, <3>1, <8>1 DEF Frames
            <7> QED
              BY <7>1
          <6> QED
            BY <6>1, InnermostIs DEF Met, Ready, t
        <5> QED
          BY <1>13, <5>1 DEF Frames
      <4> QED
        BY <3>1, <4>1, <4>2, <4>3 DEF Reaches
    <3>4. PICK i \in (t + 1)..n : Leaves(w, x, t, i)
      <4>1. Exits(w, n, x, t)
        BY <1>6, <1>10, <1>13 DEF Jumps
      <4> QED
        BY <3>3, <4>1 DEF Exits
    <3>5. i \in (t + 1)..m
      <4>1. i # n
        BY <1>2, <1>6, <1>9, <3>4 DEF Leaves
      <4> QED
        BY <1>6, <4>1
    <3>6. w[i].trap_return = NoReturn
      <4>1. Forced(w, n, x, i) /\ w[i].kind # "trap"
        BY <1>6, <1>10, <1>12, <3>5 DEF Jumps
      <4> QED
        BY <4>1 DEF Forced
    <3>7. Holds(w[i]) /\ w[i].saved.retflag
      BY <3>4, <3>6 DEF Leaves
    <3>8. Reaches(w, x, j, i)
      <4>1. \A h \in (j + 1)..(i - 1) : h \in (j + 1)..(n - 1)
        BY <1>6, <3>5
      <4> QED
        BY <3>1, <4>1 DEF Reaches
    <3>9. Pair(w, x, j, i) /\ j < i
      <4>1. i \in 1..n /\ j \in 1..n
        BY <1>6, <1>12, <3>5
      <4>2. j < i
        BY <1>13, <3>2, <3>5, <1>6
      <4> QED
        BY <1>10, <4>1, <4>2 DEF Meets
    <3> QED
      BY <3>1, <3>7, <3>8, <3>9 DEF Pair, Heard
  <2> QED
    BY <2>2, <2>4, <2>6
<1>15. Meets(v, n, x)
  BY <1>6, <1>9, <1>10, <1>11, <1>14, FlagsMeet
<1> QED
  BY <1>1, <1>8, <1>15 DEF MetAgain, v, x

\* An exit tells the trap it is called in.
LEMMA ExitMet ==
    ASSUME Met, bin_exit, pc' # "done"
    PROVE  MetAgain
<1> DEFINE m == Len(stack)
           n == m + 1
           w == All
           v == After
           x == exit_level
           y == exit_level'
           K == {"source", "trap"}
           t == Innermost(K)
<1>1. /\ contflag' = contflag /\ errflag' = errflag
      /\ stack' = IF t > 0 /\ stack[t].kind = "trap"
                     THEN [stack EXCEPT ![t].trap_return = 1] ELSE stack
  BY DEF bin_exit, Finish
<1>2. ~(t > 0 /\ stack[t].kind = "source" /\ Frames({"trap"}) # {})
  BY DEF bin_exit, Met, Untroubled
<1>3. DOMAIN stack = 1..m /\ m \in Nat
  BY Types DEF Met, Ready
<1>4. /\ Frames(K) \subseteq 1..m
      /\ Frames(K) # {} => t \in Frames(K) /\ \A j \in Frames(K) : j <= t
      /\ Frames(K) = {} => t = 0
  <2> HIDE DEF K
  <2> QED
    BY InnermostIs DEF Met, Ready
<1>5. ASSUME NEW i \in 1..m, stack[i].kind = "trap"
      PROVE  t \in 1..m /\ stack[t].kind = "trap" /\ i <= t
             /\ \A j \in (t + 1)..m : stack[j].kind \notin K
  <2>1. i \in Frames(K) /\ i \in Frames({"trap"})
    BY <1>3, <1>5 DEF Frames
  <2>2. t \in Frames(K) /\ t \in 1..m /\ \A j \in Frames(K) : j <= t
    BY <1>4, <2>1
  <2>3. stack[t].kind \in K /\ t > 0
    BY <2>2 DEF Frames
  <2>4. stack[t].kind = "trap"
    BY <1>2, <2>1, <2>3
  <2>5. ASSUME NEW j \in (t + 1)..m PROVE stack[j].kind \notin K
    <3>1. j \in 1..m /\ ~(j <= t)
      BY <1>3, <2>2
    <3> QED
      BY <1>3, <2>2, <3>1 DEF Frames
  <2> QED
    BY <2>1, <2>2, <2>4, <2>5
<1>6. /\ Len(stack') = m
      /\ \A j \in 1..m : /\ stack'[j].kind = stack[j].kind
                         /\ stack'[j].saved = stack[j].saved
                         /\ Holds(stack'[j]) <=> Holds(stack[j])
                         /\ j = t /\ stack[j].kind = "trap" => stack'[j].trap_return # NoReturn
  <2>1. CASE t > 0 /\ stack[t].kind = "trap"
    <3>1. t \in 1..m
      BY <1>4, <2>1
    <3>2. stack' = [stack EXCEPT ![t].trap_return = 1]
      BY <1>1, <2>1
    <3> HIDE DEF t
    <3>3. /\ Len(stack') = Len(stack)
          /\ \A j \in 1..Len(stack) : /\ stack'[j].kind = stack[j].kind
                                      /\ stack'[j].at = stack[j].at
                                      /\ stack'[j].saved = stack[j].saved
                                      /\ Holds(stack'[j]) <=> Holds(stack[j])
                                      /\ j # t => stack'[j] = stack[j]
          /\ stack'[t].trap_return = 1
      BY <3>1, <3>2, NewTrapReturn, ZenonT(60) DEF Met
    <3> QED
      BY <2>1, <3>3 DEF NoReturn
  <2>2. CASE ~(t > 0 /\ stack[t].kind = "trap")
    <3>1. stack' = stack
      BY <1>1, <2>2
    <3>2. ASSUME NEW j \in 1..m, j = t, stack[j].kind = "trap" PROVE FALSE
      BY <2>2, <3>2
    <3> QED
      BY <3>1, <3>2
  <2> QED
    BY <2>1, <2>2
<1>7. n = m + 1 /\ \A i \in 1..m : w[i] = stack[i] /\ v[i] = stack'[i]
  BY <1>6, Here, There DEF Met, Ready
<1>8. Len(stack') + 1 = n
  BY <1>6
<1>9. /\ w[n].kind = "now" /\ Holds(w[n])
      /\ w[n].saved.errflag = errflag /\ w[n].saved.contflag = contflag
      /\ v[n].kind = "now" /\ Holds(v[n])
      /\ v[n].saved.errflag = errflag /\ v[n].saved.contflag = contflag
  BY <1>1, <1>8, EndFlags
<1>10. Meets(w, n, x) /\ Jumps(w, n, x)
  BY DEF Met, Ready
\* A trap is the innermost of the traps and files, and has been told.
<1>11. ASSUME NEW j \in 1..m, w[j].kind = "trap"
       PROVE  /\ v[j].trap_return # NoReturn
              /\ \A i \in (j + 1)..m : w[i].kind # "source"
  <2>1. t \in 1..m /\ stack[t].kind = "trap" /\ \A i \in (t + 1)..m : stack[i].kind \notin K
    BY <1>5, <1>7, <1>11
  <2> HIDE DEF t
  <2>2. j = t
    <3>1. \A i \in 1..m : i \in 1..n
      BY <1>3
    <3> QED
      BY <1>7, <1>10, <1>11, <2>1, <3>1 DEF Jumps, OneTrap
  <2>3. \A i \in (t + 1)..m : i \in 1..m
    BY <2>1
  <2> QED
    BY <1>6, <1>7, <2>1, <2>2, <2>3
<1>12. \A j \in 1..m : /\ v[j].kind = w[j].kind /\ v[j].saved = w[j].saved
                       /\ Holds(v[j]) <=> Holds(w[j])
  BY <1>6, <1>7
<1> HIDE DEF m, n, w, v, x, y, t, K
<1>13. ASSUME NEW i \in 1..n, NEW j \in 1..n PROVE Pair(v, y, j, i)
  <2>1. CASE ~(j < i)
    BY <2>1 DEF Pair, Calm, NoFile, Heard, Carried
  <2>2. CASE j < i
    <3>1. j \in 1..m /\ Pair(w, x, j, i)
      BY <1>3, <1>7, <1>10, <2>2 DEF Meets
    <3>2. i = n \/ i \in 1..m
      BY <1>3, <1>7
    <3>3. /\ v[i].kind = w[i].kind
          /\ Holds(v[i]) <=> Holds(w[i])
          /\ v[i].saved.errflag = w[i].saved.errflag
          /\ v[i].saved.contflag = w[i].saved.contflag
      BY <1>9, <1>12, <3>2
    <3>4. v[j].kind = w[j].kind /\ v[j].saved = w[j].saved /\ (Holds(v[j]) <=> Holds(w[j]))
      BY <1>12, <3>1
    <3>5. Calm(v, j, i)
      BY <3>1, <3>3, <3>4 DEF Pair, Calm
    <3>6. NoFile(v, y, j, i)
      <4>1. SUFFICES ASSUME w[j].kind = "trap", w[i].kind = "source" PROVE FALSE
        BY <3>3, <3>4 DEF NoFile
      <4>2. i \in (j + 1)..m
        BY <1>9, <1>3, <2>2, <3>1, <3>2, <4>1
      <4> QED
        BY <1>11, <3>1, <4>1, <4>2
    <3>7. Heard(v, y, j, i)
      BY <1>11, <3>1, <3>4 DEF Heard
    <3>8. Carried(v, j, i)
      <4>1. \A h \in (j + 1)..(i - 1) : Holds(v[h]) <=> Holds(w[h])
        <5>1. \A h \in (j + 1)..(i - 1) : h \in 1..m
          BY <1>3, <1>7
        <5> QED
          BY <1>12, <5>1
      <4> QED
        BY <3>1, <3>3, <3>4, <4>1 DEF Pair, Carried
    <3> QED
      BY <3>5, <3>6, <3>7, <3>8 DEF Pair
  <2> QED
    BY <1>3, <1>7, <2>1, <2>2
<1>14. Meets(v, n, y)
  BY <1>13 DEF Meets
<1> QED
  BY <1>8, <1>14 DEF MetAgain, v, y

LEMMA OpeningMet ==
    ASSUME Met, BeginLoop \/ BeginBlock \/ BeginFunction \/ BeginSource
    PROVE  MetAgain
<1>1. /\ errflag' = errflag /\ contflag' = contflag /\ retflag' = retflag
      /\ exit_level' = exit_level
  BY DEF BeginLoop, BeginBlock, BeginFunction, BeginSource, flags
<1>2. ASSUME NEW kind, NEW at, NEW saved, Push(New(kind, at, saved)),
             at # "always", kind # "trap",
             kind = "function" => saved.contflag = contflag,
             kind = "source" => exit_level = 0,
             kind \in {"function", "source"} => CanRun
      PROVE  MetAgain
  <2> DEFINE f == New(kind, at, saved)
  <2>1. f.kind = kind /\ f.at = at /\ f.saved = saved
    BY DEF New
  <2>2. Push(f)
    BY <1>2
  <2> HIDE DEF f
  <2>3. ~Holds(f) /\ (retflag' => retflag /\ f.kind \notin {"function", "source", "trap"})
    BY <1>1, <1>2, <2>1 DEF Holds, CanRun, Blocked
  <2> QED
    BY <1>1, <1>2, <2>1, <2>2, <2>3, OpenMeet
<1>3. CASE BeginLoop
  <2>1. PICK kind \in LoopKinds, at \in {"body", "cond"} : Push(New(kind, at, Cleared))
    BY <1>3 DEF BeginLoop, LoopKinds
  <2>2. kind \notin {"function", "trap", "source"} /\ at # "always"
    BY DEF LoopKinds
  <2> QED
    BY <1>2, <2>1, <2>2
<1>4. CASE BeginBlock
  <2>1. PICK kind \in {"if", "try"}, at \in {"cond", "try"} : Push(New(kind, at, Cleared))
    BY <1>4 DEF BeginBlock
  <2> QED
    BY <1>2, <2>1
<1>5. CASE BeginFunction
  <2>1. Push(New("function", "body", Saved)) /\ Saved.contflag = contflag /\ CanRun
    BY <1>5 DEF BeginFunction, Saved
  <2> QED
    BY <1>2, <2>1
<1>6. CASE BeginSource
  <2>1. Push(New("source", "body", Saved)) /\ ~(exit_level > 0) /\ CanRun
    BY <1>6 DEF BeginSource, Met, Untroubled
  <2>2. exit_level = 0
    BY <2>1, Types DEF Met, Ready
  <2> QED
    BY <1>2, <2>1, <2>2
<1> QED
  BY <1>3, <1>4, <1>5, <1>6

LEMMA TrapBeginsMet ==
    ASSUME Met, TrapBegins
    PROVE  MetAgain
<1> DEFINE f == New("trap", "body", Saved)
<1>1. /\ Push(f) /\ retflag' = FALSE /\ contflag' = contflag /\ errflag' = errflag
      /\ exit_level' = exit_level /\ Frames({"trap"}) = {}
  BY DEF TrapBegins
<1>2. f.kind = "trap" /\ f.saved.errflag = errflag /\ f.saved.contflag = contflag
  BY DEF New, Saved
<1> HIDE DEF f
<1> QED
  BY <1>1, <1>2, OpenMeet

\* The innermost construct goes on with another of its lists.
LEMMA MoveMet ==
    ASSUME Met, NEW kinds, In(kinds), NEW f, stack' = [stack EXCEPT ![Len(stack)] = f],
           Alike(f, Top), exit_level' = exit_level, retflag' = retflag, errflag' = errflag,
           contflag /\ breaks = 0 => contflag'
    PROVE  MetAgain
<1> DEFINE m == Len(stack)
<1>1. stack \in Seq(Frame) /\ m \in 1..MaxDepth /\ Top = stack[m]
  BY Types, TopFrame DEF Met, Ready
<1>2. Len(stack') = m /\ \A i \in 1..m : stack'[i] = IF i = m THEN f ELSE stack[i]
  BY <1>1
<1>3. \A i \in 1..m : Alike(stack'[i], stack[i])
  <2> HIDE DEF m
  <2> QED
    BY <1>1, <1>2, AlikeSelf
<1> QED
  BY <1>2, <1>3, StayMeet

LEMMA MoveToMet ==
    ASSUME Met, NEW kinds, In(kinds), NEW at, MoveTo(at), at # "always", Top.at # "always",
           exit_level' = exit_level, retflag' = retflag, errflag' = errflag,
           contflag' = contflag
    PROVE  MetAgain
<1> DEFINE f == [Top EXCEPT !.at = at]
<1>1. Top \in Frame
  BY TopFrame DEF Met, Ready
<1>2. stack' = [stack EXCEPT ![Len(stack)] = f]
  BY DEF MoveTo, Top
<1>3. f.kind = Top.kind /\ f.saved = Top.saved /\ f.trap_return = Top.trap_return /\ f.at = at
  BY <1>1 DEF Frame
<1> HIDE DEF f
<1>4. Alike(f, Top)
  BY <1>3 DEF Alike, Holds
<1> QED
  BY <1>2, <1>4, MoveMet

\* A loop is left, or begins another round.
LEMMA LoopLeftMet ==
    ASSUME Met, In(LoopKinds), Top.at # "always", LeaveLoop,
           exit_level' = exit_level, retflag' = retflag, errflag' = errflag,
           contflag /\ breaks = 0 => contflag'
    PROVE  MetAgain
<1>1. Top.kind \in LoopKinds /\ Len(stack) # 0 /\ Pop
  BY TopFrame DEF Met, Ready, LeaveLoop
<1>2. Top.kind \notin {"function", "source", "trap"} /\ ~Holds(Top)
  BY <1>1 DEF LoopKinds, Holds
<1> QED
  BY <1>1, <1>2, LeaveMeet

LEMMA AfterBodyMet ==
    ASSUME Met, In(LoopKinds), Top.at # "always", AfterBody,
           exit_level' = exit_level, retflag' = retflag, errflag' = errflag
    PROVE  MetAgain
<1>1. contflag' = (contflag /\ breaks /= 1)
  BY DEF AfterBody
<1>2. contflag /\ breaks = 0 => contflag'
  <2>1. breaks = 0 => breaks /= 1
    OBVIOUS
  <2> QED
    BY <1>1, <2>1, Zenon
<1>3. CASE LeaveLoop
  BY <1>2, <1>3, LoopLeftMet
<1>4. CASE ~LeaveLoop
  <2> DEFINE at == IF Top.kind = "for" THEN "body" ELSE "cond"
             c == IF Top.kind = "for" THEN 0 ELSE lastval'
             f == [Top EXCEPT !.at = at, !.saved.lastval = c]
  <2>1. stack' = [stack EXCEPT ![Len(stack)].at = at, ![Len(stack)].saved.lastval = c]
    BY <1>4 DEF AfterBody
  <2>2. Top \in Frame /\ Top.saved \in Flags /\ Top.kind \in LoopKinds
        /\ Len(stack) \in 1..MaxDepth /\ Top = stack[Len(stack)] /\ stack \in Seq(Frame)
    BY TopFrame, Types DEF Met, Ready
  <2>3. at \in {"body", "cond"}
    OBVIOUS
  <2>4. f.kind = Top.kind /\ f.at = at /\ f.trap_return = Top.trap_return
        /\ f.saved = [Top.saved EXCEPT !.lastval = c]
    BY <2>2 DEF Frame
  <2>5. f.saved.errflag = Top.saved.errflag /\ f.saved.contflag = Top.saved.contflag
        /\ f.saved.retflag = Top.saved.retflag
    BY <2>2, <2>4 DEF Flags
  <2>6. stack' = [stack EXCEPT ![Len(stack)] = f]
    BY <2>1, <2>2
  <2> HIDE DEF f, at, c
  <2>7. Alike(f, Top)
    BY <2>2, <2>3, <2>4, <2>5 DEF Alike, Holds, LoopKinds
  <2> QED
    BY <1>2, <2>6, <2>7, MoveMet
<1> QED
  BY <1>3, <1>4

LEMMA LoopMet ==
    ASSUME Met, BodyEnd \/ CondEnd
    PROVE  MetAgain
<1>1. retflag' = retflag /\ exit_level' = exit_level /\ errflag' = errflag
  BY DEF BodyEnd, CondEnd
<1>2. In(LoopKinds) /\ Top.at # "always"
  BY DEF BodyEnd, CondEnd, ListEnd, In, LoopKinds
<1>3. \/ LeaveLoop /\ contflag' = contflag
      \/ AfterBody
      \/ MoveTo("body") /\ contflag' = contflag
  BY DEF BodyEnd, CondEnd
<1>4. CASE LeaveLoop /\ contflag' = contflag
  BY <1>1, <1>2, <1>4, LoopLeftMet
<1>5. CASE AfterBody
  BY <1>1, <1>2, <1>5, AfterBodyMet
<1>6. CASE MoveTo("body") /\ contflag' = contflag
  BY <1>1, <1>2, <1>6, MoveToMet
<1> QED
  BY <1>3, <1>4, <1>5, <1>6

LEMMA IfMet ==
    ASSUME Met, IfCondEnd \/ IfEnd
    PROVE  MetAgain
<1>1. /\ errflag' = errflag /\ contflag' = contflag /\ retflag' = retflag
      /\ exit_level' = exit_level
  BY DEF IfCondEnd, IfEnd, flags
<1>2. In({"if"}) /\ Top.at # "always" /\ Top.kind = "if" /\ Len(stack) # 0
  <2>1. In({"if"}) /\ Top.at # "always"
    BY DEF IfCondEnd, IfEnd, ListEnd, In
  <2> QED
    BY <2>1, TopFrame DEF Met, Ready
<1>3. ~Holds(Top)
  BY <1>2 DEF Holds
<1>4. Pop \/ \E at \in {"cond", "body"} : MoveTo(at)
  BY DEF IfCondEnd, IfEnd
<1>5. CASE Pop
  BY <1>1, <1>2, <1>3, <1>5, LeaveMeet
<1>6. ASSUME NEW at \in {"cond", "body"}, MoveTo(at) PROVE MetAgain
  BY <1>1, <1>2, <1>6, MoveToMet
<1> QED
  BY <1>4, <1>5, <1>6

LEMMA TryEndMet ==
    ASSUME Met, TryEnd
    PROVE  MetAgain
<1> DEFINE m == Len(stack)
           n == m + 1
           w == All
           v == After
           x == exit_level
           s == [Saved EXCEPT !.loops = 0,
                              !.lastval = IF errflag /= {} THEN 1 ELSE lastval]
           f == New("try", "always", s)
<1>1. /\ retflag' = FALSE /\ errflag' = {} /\ exit_level' = exit_level
      /\ stack' = [stack EXCEPT ![Len(stack)] = f]
  BY DEF TryEnd
<1>2. In({"try"}) /\ Top.kind = "try" /\ Top.at = "try"
  BY DEF TryEnd, ListEnd, In
<1>3. m \in 1..MaxDepth /\ stack \in Seq(Frame) /\ Top = stack[m] /\ m \in Nat \ {0}
      /\ Meets(w, n, x) /\ n = m + 1
  BY <1>2, TopFrame, Types DEF Met, Ready
<1>4. f.kind = "try" /\ Holds(f)
      /\ f.saved.errflag = errflag /\ f.saved.contflag = contflag /\ f.saved.retflag = retflag
  BY DEF New, Holds, Saved
<1> HIDE DEF f
<1>5. Len(stack') = m /\ stack'[m] = f /\ \A i \in 1..(m - 1) : stack'[i] = stack[i]
  BY <1>1, <1>3
<1>6. \A i \in 1..m : w[i] = stack[i] /\ v[i] = stack'[i]
  BY <1>5, Here, There DEF Met, Ready
<1>7. Len(stack') + 1 = n
  BY <1>5
<1>8. /\ w[n].kind = "now" /\ Holds(w[n])
      /\ w[n].saved.errflag = errflag /\ w[n].saved.contflag = contflag
      /\ w[n].saved.retflag = retflag
      /\ v[n].kind = "now" /\ Holds(v[n])
      /\ v[n].saved.errflag = {} /\ ~v[n].saved.retflag
  BY <1>1, <1>7, EndFlags
<1> HIDE DEF m, n, w, v, x
<1>9. \A i \in 1..(m - 1) : v[i] = w[i]
  <2>1. \A i \in 1..(m - 1) : i \in 1..m
    BY <1>3
  <2> QED
    BY <1>5, <1>6, <2>1
<1>10. w[m] = Top /\ v[m] = f
  BY <1>3, <1>5, <1>6
<1>11. w[m].kind = "try" /\ ~Holds(w[m])
  BY <1>2, <1>10 DEF Holds
<1>12. Meets(v, n, x)
  BY <1>3, <1>4, <1>8, <1>9, <1>10, <1>11, HoldMeet
<1> QED
  BY <1>1, <1>7, <1>12 DEF MetAgain, v, x

LEMMA AlwaysEndMet ==
    ASSUME Met, AlwaysEnd
    PROVE  MetAgain
<1>1. /\ Pop /\ exit_level' = exit_level
      /\ errflag' \in SUBSET Top.saved.errflag
      /\ retflag' = (retflag \/ Top.saved.retflag)
      /\ contflag' = (contflag \/ Top.saved.contflag)
  BY DEF AlwaysEnd
<1>2. In({"try"}) /\ Top.kind = "try" /\ Holds(Top)
  BY DEF AlwaysEnd, ListEnd, In, Holds
<1>3. Len(stack) # 0
  BY <1>2, TopFrame DEF Met, Ready
<1>4. "int" \in errflag' => Holds(Top) /\ "int" \in Top.saved.errflag
  BY <1>1, <1>2
<1>5. retflag' => retflag \/ (Holds(Top) /\ Top.saved.retflag)
  BY <1>1, <1>2
<1>6. ~contflag' => Holds(Top) /\ ~Top.saved.contflag
  BY <1>1, <1>2
<1> QED
  BY <1>1, <1>2, <1>3, <1>4, <1>5, <1>6, LeaveMeet

\* Of an exit that leaves a function, the return is what is on its way there.
LEMMA ExitReturns ==
    ASSUME Ready, In({"function"}), exit_level >= locallevel
    PROVE  retflag
<1> DEFINE m == Len(stack)
           n == m + 1
           w == All
           x == exit_level
<1>1. m \in 1..MaxDepth /\ Top = stack[m] /\ Top.kind = "function"
  BY TopFrame DEF Ready
<1>2. x \in Nat /\ locallevel \in Nat /\ n \in (m + 1)..n /\ m \in 1..n /\ m \in 1..m
      /\ \A j \in (m + 1)..n : j = n
  BY <1>1, Types, Levels DEF Ready
<1>3. /\ \A i \in 1..m : w[i] = stack[i]
      /\ w[n].trap_return = NoReturn /\ w[n].saved.retflag = retflag
  BY Here DEF Ready
<1>4. Level(w, m) = locallevel
  <2>1. DOMAIN stack = 1..m
    BY Types DEF Ready
  <2>2. Frames({"function"}) = {k \in 1..m : w[k].kind = "function"}
    BY <1>3, <2>1 DEF Frames
  <2> QED
    BY <2>2 DEF locallevel, Level
<1>5. Exits(w, n, x, m)
  BY <1>2 DEF Ready, Jumps
<1>6. w[m].kind = "function"
  BY <1>1, <1>2, <1>3
<1> HIDE DEF m, n, w
<1>7. PICK j \in (m + 1)..n : Leaves(w, x, m, j)
  BY <1>2, <1>4, <1>5, <1>6 DEF Exits
<1>8. Leaves(w, x, m, n)
  BY <1>2, <1>7
<1> QED
  BY <1>3, <1>8 DEF Leaves

LEMMA FunctionEndMet ==
    ASSUME Met, NEW local \in BOOLEAN, FunctionEnd(local)
    PROVE  MetAgain
<1>1. /\ Pop /\ exit_level' = exit_level /\ errflag' = errflag
      /\ contflag' = IF local THEN Top.saved.contflag ELSE contflag
      /\ retflag' => exit_level >= locallevel
  BY DEF FunctionEnd
<1>2. In({"function"}) /\ Top.kind = "function" /\ Top.at = "body"
  BY DEF FunctionEnd, ListEnd, In
<1>3. Len(stack) # 0 /\ ~Holds(Top)
  BY <1>2, TopFrame DEF Met, Ready, Holds
<1>4. retflag' => retflag /\ locallevel <= exit_level
  <2>1. exit_level \in Nat /\ locallevel \in Nat
    BY Types, Levels DEF Met, Ready
  <2>2. exit_level >= locallevel => retflag
    BY <1>2, ExitReturns DEF Met
  <2>3. exit_level >= locallevel => locallevel <= exit_level
    BY <2>1
  <2> QED
    BY <1>1, <2>2, <2>3
<1>5. ~contflag' => ~contflag \/ ~Top.saved.contflag
  BY <1>1
<1> QED
  BY <1>1, <1>2, <1>3, <1>4, <1>5, LeaveMeet

LEMMA SourceEndMet ==
    ASSUME Met, SourceEnd
    PROVE  MetAgain
<1>1. /\ contflag' = contflag /\ exit_level' = exit_level /\ Pop
      /\ errflag' = errflag \ {"error"}
      /\ retflag' = (retflag /\ exit_level > 0)
  BY DEF SourceEnd
<1>2. In({"source"}) /\ Top.kind = "source" /\ Top.at = "body"
  BY DEF SourceEnd, ListEnd, In
<1>3. Len(stack) # 0 /\ ~Holds(Top)
  BY <1>2, TopFrame DEF Met, Ready, Holds
<1>4. "int" \in errflag' => "int" \in errflag
  BY <1>1
<1>5. retflag' => retflag /\ exit_level > 0
  BY <1>1
<1> QED
  BY <1>1, <1>2, <1>3, <1>4, <1>5, LeaveMeet

LEMMA TrapEndMet ==
    ASSUME Met, TrapEnd
    PROVE  MetAgain
<1>1. /\ Pop /\ exit_level' = exit_level
      /\ "int" \in errflag' => "int" \in errflag
  BY DEF TrapEnd
<1>2. In({"trap"}) /\ Top.kind = "trap"
  BY DEF TrapEnd, ListEnd, In
<1>3. Len(stack) # 0
  BY <1>2, TopFrame DEF Met, Ready
<1> QED
  BY <1>1, <1>2, <1>3, LeaveMeet

LEMMA ActionMet ==
    ASSUME Met, Next, ~Ended, pc' # "done"
    PROVE  MetAgain
<1>1. CASE PassOver \/ Simple \/ AfterCommand \/ bin_break \/ bin_continue
  BY <1>1, PlainMet
<1>2. CASE Interrupt
  BY <1>2, InterruptMet
<1>3. CASE bin_return
  BY <1>3, ReturnMet
<1>4. CASE bin_exit
  BY <1>4, ExitMet
<1>5. CASE BeginLoop \/ BeginBlock \/ BeginFunction \/ BeginSource
  BY <1>5, OpeningMet
<1>6. CASE TrapBegins
  BY <1>6, TrapBeginsMet
<1>7. CASE BodyEnd \/ CondEnd
  BY <1>7, LoopMet
<1>8. CASE IfCondEnd \/ IfEnd
  BY <1>8, IfMet
<1>9. CASE TryEnd
  BY <1>9, TryEndMet
<1>10. CASE AlwaysEnd
  BY <1>10, AlwaysEndMet
<1>11. CASE \E local \in BOOLEAN : FunctionEnd(local)
  BY <1>11, FunctionEndMet
<1>12. CASE SourceEnd
  BY <1>12, SourceEndMet
<1>13. CASE TrapEnd
  BY <1>13, TrapEndMet
<1>14. CASE ScriptEnd
  BY <1>14 DEF ScriptEnd, Finish
<1> QED
  BY <1>1, <1>2, <1>3, <1>4, <1>5, <1>6, <1>7, <1>8, <1>9, <1>10, <1>11, <1>12, <1>13,
     <1>14 DEF Next

\* What a script in progress is, and that a step of one begins in progress.
LEMMA InProgress ==
    ASSUME Untroubled, RInv, Next, ~UNCHANGED vars
    PROVE  Met /\ ~Ended
<1>1. pc # "done" /\ ~Ended
  BY DEF Ended, Next, PassOver, Simple, AfterCommand, bin_break, bin_continue,
     Interrupt, bin_return, bin_exit, BeginLoop, BeginBlock, BeginFunction, BeginSource,
     TrapBegins, BodyEnd, CondEnd, IfCondEnd, IfEnd, TryEnd, AlwaysEnd, FunctionEnd,
     SourceEnd, TrapEnd, ScriptEnd, ListEnd, CanRun, CanRunSimple
<1>2. IInv'
  BY NextKeeps DEF RInv, JInv
<1>3. stack' \in Seq(Frame) /\ Orderly
  BY <1>2 DEF IInv, TypeOK, Untroubled, Orderly
<1> QED
  BY <1>1, <1>3 DEF Met, Ready, RInv, JInv

LEMMA RefinedKeeps ==
    ASSUME Untroubled, RInv, [Next]_vars
    PROVE  RInv'
<1>1. JInv'
  BY JumpsKeep DEF RInv, Untroubled, Orderly
<1>2. CASE UNCHANGED vars
  <2>1. (pc # "done" => Meets(All, Len(stack) + 1, exit_level))'
    BY <1>2 DEF RInv, vars, All, Saved
  <2> QED
    BY <1>1, <2>1 DEF RInv
<1>3. CASE Next /\ pc' # "done" /\ ~UNCHANGED vars
  <2>1. MetAgain
    BY <1>3, InProgress, ActionMet
  <2> QED
    BY <1>1, <2>1 DEF RInv, MetAgain, After, All, Saved
<1>4. CASE pc' = "done"
  BY <1>1, <1>4 DEF RInv
<1> QED
  BY <1>2, <1>3, <1>4

LEMMA RefinedBegins == Init => RInv
<1> SUFFICES ASSUME Init PROVE RInv
  OBVIOUS
<1>1. JInv
  BY JumpsBegin
<1>2. Len(stack) + 1 = 1
  BY DEF Init
<1> DEFINE w == All
           x == exit_level
<1> HIDE DEF w, x
<1>3. \A i, j \in 1..1 : ~(j < i)
  OBVIOUS
<1>4. Meets(w, 1, x)
  BY <1>3 DEF Meets, Pair, Calm, NoFile, Heard, Carried
<1> QED
  BY <1>1, <1>2, <1>4 DEF RInv, w, x

-----------------------------------------------------------------------------
(* What Completion sees of a state: the variables it is given (Promise).   *)

Opened  == [i \in DOMAIN stack |-> PlaceOf(stack[i])]
Jumping == JumpOf(Saved)
Failing == FailedOf(Saved)
Exiting == exit_level > 0
Doing   == CASE pc = "pipe" -> "inside" [] pc = "done" -> "over" [] OTHER -> pc

LEMMA DoingIs ==
    /\ pc = "next" => Doing = "next"
    /\ pc = "ran"  => Doing = "ran"
    /\ pc = "pipe" => Doing = "inside"
    /\ pc = "done" => Doing = "over"
  BY DEF Doing

LEMMA DoingThen ==
    /\ pc' = "next" => Doing' = "next"
    /\ pc' = "ran"  => Doing' = "ran"
    /\ pc' = "pipe" => Doing' = "inside"
    /\ pc' = "done" => Doing' = "over"
  BY DEF Doing

\* The jump that flags stand for.
Going(r, b, c) ==
    IF r THEN Promise!Return
    ELSE IF b > 0 THEN [how |-> IF c THEN "continue" ELSE "break", n |-> b]
    ELSE Promise!None

LEMMA GoingOf ==
    ASSUME NEW f, f.retflag \in BOOLEAN
    PROVE  JumpOf(f) = Going(f.retflag, f.breaks, f.contflag)
<1>1. CASE f.retflag
  BY <1>1 DEF JumpOf, Going, Promise!Return
<1>2. CASE ~f.retflag /\ f.breaks > 0
  BY <1>2 DEF JumpOf, Going, Promise!Return
<1>3. CASE ~f.retflag /\ ~(f.breaks > 0)
  BY <1>3 DEF JumpOf, Going, Promise!None
<1> QED
  BY <1>1, <1>2, <1>3

LEMMA GoingIs ==
    ASSUME NEW r \in BOOLEAN, NEW b \in Nat, NEW c \in BOOLEAN
    PROVE  /\ r => Going(r, b, c) = Promise!Return
           /\ ~r /\ b = 0 => Going(r, b, c) = Promise!None
           /\ ~r /\ b > 0 => Going(r, b, c) \in Promise!LoopJump(b)
           /\ ~r /\ b > 0 => Going(r, b, c) = [how |-> IF c THEN "continue" ELSE "break", n |-> b]
           /\ Going(r, b, c) = Promise!Return <=> r
           /\ Going(r, b, c) = Promise!None <=> ~r /\ b = 0
           /\ Going(r, b, c).n = IF r THEN 0 ELSE b
           /\ Going(r, b, c).how = IF r THEN "return" ELSE IF b = 0 THEN "none"
                                   ELSE IF c THEN "continue" ELSE "break"
  BY DEF Going, Promise!Return, Promise!None, Promise!LoopJump

\* The failures that bits of errflag stand for.
Fails(E) == {IF bit = "int" THEN "interrupt" ELSE "error" : bit \in E}

LEMMA FailsIs ==
    ASSUME NEW E \in SUBSET {"error", "int"}
    PROVE  /\ Fails(E) = {} <=> E = {}
           /\ "error" \in Fails(E) <=> "error" \in E
           /\ "interrupt" \in Fails(E) <=> "int" \in E
           /\ Fails(E) \subseteq {"error", "interrupt"}
           /\ Fails(E \cup {"error"}) = Fails(E) \cup {"error"}
           /\ Fails(E \cup {"int"}) = Fails(E) \cup {"interrupt"}
           /\ Fails(E \ {"error"}) = Fails(E) \ {"error"}
  BY DEF Fails

LEMMA ShownNow ==
    ASSUME IInv
    PROVE  /\ Jumping = Going(retflag, breaks, contflag)
           /\ Failing = Fails(errflag)
           /\ retflag \in BOOLEAN /\ breaks \in Nat /\ contflag \in BOOLEAN
           /\ errflag \in SUBSET {"error", "int"}
<1>1. Saved.retflag = retflag /\ Saved.breaks = breaks /\ Saved.contflag = contflag
      /\ Saved.errflag = errflag
  BY DEF Saved
<1>2. retflag \in BOOLEAN /\ breaks \in Nat /\ contflag \in BOOLEAN
      /\ errflag \in SUBSET {"error", "int"}
  BY Types
<1> QED
  BY <1>1, <1>2, GoingOf DEF Jumping, Failing, FailedOf, Fails

LEMMA ShownThen ==
    ASSUME IInv'
    PROVE  /\ Jumping' = Going(retflag', breaks', contflag')
           /\ Failing' = Fails(errflag')
           /\ retflag' \in BOOLEAN /\ breaks' \in Nat /\ contflag' \in BOOLEAN
           /\ errflag' \in SUBSET {"error", "int"}
<1>1. Saved'.retflag = retflag' /\ Saved'.breaks = breaks' /\ Saved'.contflag = contflag'
      /\ Saved'.errflag = errflag'
  BY DEF Saved
<1>2. retflag' \in BOOLEAN /\ breaks' \in Nat /\ contflag' \in BOOLEAN
      /\ errflag' \in SUBSET {"error", "int"}
  BY ControlFlowAssumption DEF IInv, TypeOK
<1> QED
  BY <1>1, <1>2, GoingOf DEF Jumping, Failing, FailedOf, Fails

LEMMA ShownFrame ==
    ASSUME NEW f \in Frame
    PROVE  /\ PlaceOf(f).kind = f.kind /\ PlaceOf(f).at = f.at
           /\ PlaceOf(f) = Promise!Open(f.kind, f.at, PlaceOf(f).held)
           /\ ~Holds(f) => PlaceOf(f).held = Promise!Nothing
           /\ Holds(f) => PlaceOf(f).held = [jump |-> Going(f.saved.retflag, f.saved.breaks, f.saved.contflag),
                                             failed |-> Fails(f.saved.errflag)]
<1>1. f.saved \in Flags
  BY DEF Frame
<1>2. f.saved.retflag \in BOOLEAN
  BY <1>1 DEF Flags
<1>3. JumpOf(f.saved) = Going(f.saved.retflag, f.saved.breaks, f.saved.contflag)
      /\ FailedOf(f.saved) = Fails(f.saved.errflag)
  BY <1>2, GoingOf DEF FailedOf, Fails
<1>4. JumpOf(Cleared) = Promise!None
  BY DEF JumpOf, Cleared, Promise!None
<1> QED
  BY <1>3, <1>4 DEF PlaceOf, Promise!Open, Promise!Nothing

-----------------------------------------------------------------------------
(* The constructs that are open.                                           *)

LEMMA OpenedIs ==
    ASSUME IInv
    PROVE  /\ Len(stack) \in Nat /\ stack \in Seq(Frame)
           /\ Opened = [i \in 1..Len(stack) |-> PlaceOf(stack[i])]
           /\ Len(Opened) = Len(stack)
           /\ \A i \in 1..Len(stack) : Opened[i] = PlaceOf(stack[i])
           /\ stack # <<>> <=> Opened # <<>>
<1>1. stack \in Seq(Frame) /\ Len(stack) \in Nat /\ DOMAIN stack = 1..Len(stack)
  BY Types
<1>2. Opened = [i \in 1..Len(stack) |-> PlaceOf(stack[i])]
  BY <1>1 DEF Opened
<1>3. Len(Opened) = Len(stack) /\ \A i \in 1..Len(stack) : Opened[i] = PlaceOf(stack[i])
  BY <1>1, <1>2
<1>4. stack # <<>> <=> Len(stack) # 0
  BY <1>1
<1>5. Opened # <<>> <=> Len(stack) # 0
  BY <1>1, <1>2, <1>3
<1> QED
  BY <1>1, <1>2, <1>3, <1>4, <1>5

LEMMA ShownTop ==
    ASSUME IInv, NEW kinds, In(kinds)
    PROVE  /\ Promise!Inside /\ Promise!Top = PlaceOf(Top)
           /\ Promise!Top.kind = Top.kind /\ Promise!Top.at = Top.at
           /\ Top.kind \in kinds /\ Top \in Frame
<1>1. Len(stack) \in 1..Len(stack) /\ Top = stack[Len(stack)] /\ Top \in Frame /\ Top.kind \in kinds
  BY TopFrame
<1>2. Opened[Len(Opened)] = PlaceOf(Top) /\ Opened # <<>>
  BY <1>1, OpenedIs DEF In
<1>3. Promise!Top = PlaceOf(Top) /\ Promise!Inside
  BY <1>2 DEF Promise!Top, Promise!Inside, Opened
<1> QED
  BY <1>1, <1>3, ShownFrame

LEMMA SameCardinality == \A S : Promise!Cardinality(S) = Cardinality(S)
  BY DEF Promise!Cardinality, Cardinality

\* Constructs are counted alike.
LEMMA ShownCount ==
    ASSUME IInv
    PROVE  /\ \A K : Promise!Count(K) = Cardinality(Frames(K))
           /\ Promise!LoopsOpen = loops
<1>1. /\ DOMAIN Opened = DOMAIN stack /\ DOMAIN stack = 1..Len(stack)
      /\ \A i \in DOMAIN stack : Opened[i].kind = stack[i].kind
  <2>1. \A i \in DOMAIN stack : stack[i] \in Frame
    BY Types
  <2>2. DOMAIN Opened = DOMAIN stack /\ \A i \in DOMAIN stack : Opened[i] = PlaceOf(stack[i])
    BY DEF Opened
  <2>3. \A i \in DOMAIN stack : Opened[i].kind = stack[i].kind
    BY <2>1, <2>2, ShownFrame
  <2>4. DOMAIN stack = 1..Len(stack)
    BY Types
  <2> QED
    BY <2>2, <2>3, <2>4
<1>2. ASSUME NEW K PROVE Promise!Count(K) = Cardinality(Frames(K))
  <2>1. {i \in DOMAIN Opened : Opened[i].kind \in K} = Frames(K)
    BY <1>1 DEF Frames
  <2>2. Promise!Count(K) = Cardinality({i \in DOMAIN Opened : Opened[i].kind \in K})
    BY SameCardinality DEF Promise!Count, Opened
  <2> QED
    BY <2>1, <2>2
<1>3. Promise!LoopsOpen = loops
  <2>1. {i \in DOMAIN Opened : /\ Opened[i].kind \in LoopKinds
                               /\ \A j \in DOMAIN Opened : Opened[j].kind = "source" => j < i}
           = LoopSet(stack, Len(stack))
    BY <1>1 DEF LoopSet
  <2>2. loops = Cardinality(LoopSet(stack, Len(stack)))
    BY Types DEF StackOK, Depth
  <2>3. Promise!LoopKinds = LoopKinds
    BY DEF Promise!LoopKinds, LoopKinds
  <2>4. Promise!LoopsOpen
           = Cardinality({i \in DOMAIN Opened :
                             /\ Opened[i].kind \in LoopKinds
                             /\ \A j \in DOMAIN Opened : Opened[j].kind = "source" => j < i})
    BY <2>3, SameCardinality DEF Promise!LoopsOpen, Opened
  <2> QED
    BY <2>1, <2>2, <2>4
<1> QED
  BY <1>2, <1>3

LEMMA ShownPush ==
    ASSUME IInv, NEW f \in Frame, Push(f)
    PROVE  Opened' = Append(Opened, PlaceOf(f)) /\ Len(Opened) < MaxDepth
<1> DEFINE m == Len(stack)
           q == stack'
<1>1. stack \in Seq(Frame) /\ m \in Nat /\ q = Append(stack, f) /\ m < MaxDepth
  BY Types DEF Push
<1>2. DOMAIN q = 1..(m + 1) /\ \A i \in 1..(m + 1) : q[i] = IF i = m + 1 THEN f ELSE stack[i]
  BY <1>1
<1>3. Opened' = [i \in 1..(m + 1) |-> PlaceOf(q[i])]
  BY <1>2 DEF Opened
<1>4. Opened = [i \in 1..m |-> PlaceOf(stack[i])] /\ Len(Opened) = m
  BY OpenedIs
<1>5. Append(Opened, PlaceOf(f)) = [i \in 1..(m + 1) |-> IF i = m + 1 THEN PlaceOf(f) ELSE PlaceOf(stack[i])]
  <2> DEFINE P(i) == PlaceOf(stack[i])
  <2>1. Opened = [i \in 1..m |-> P(i)]
    BY <1>4
  <2> HIDE DEF P
  <2>2. Append(Opened, PlaceOf(f)) = [i \in 1..(m + 1) |-> IF i = m + 1 THEN PlaceOf(f) ELSE P(i)]
    BY <1>1, <1>4, <2>1
  <2> QED
    BY <2>2 DEF P
<1> QED
  BY <1>1, <1>2, <1>3, <1>4, <1>5

LEMMA ShownPop ==
    ASSUME IInv, stack # <<>>, Pop
    PROVE  Opened' = Promise!Outer
<1> DEFINE m == Len(stack)
           k == m - 1
           q == stack'
<1>1. stack \in Seq(Frame) /\ m \in Nat \ {0} /\ q = SubSeq(stack, 1, k) /\ k \in Nat
  BY Types DEF Pop
<1>2. DOMAIN q = 1..k /\ \A i \in 1..k : q[i] = stack[i]
  BY <1>1
<1>3. Opened' = [i \in 1..k |-> PlaceOf(q[i])]
  BY <1>2 DEF Opened
<1>4. Opened = [i \in 1..m |-> PlaceOf(stack[i])] /\ Len(Opened) = m
  BY OpenedIs
<1>5. SubSeq(Opened, 1, Len(Opened) - 1) = [i \in 1..k |-> PlaceOf(stack[i])]
  <2> DEFINE P(i) == PlaceOf(stack[i])
  <2>1. Opened = [i \in 1..m |-> P(i)]
    BY <1>4
  <2> HIDE DEF P
  <2>2. SubSeq(Opened, 1, Len(Opened) - 1) = [i \in 1..k |-> P(i)]
    BY <1>1, <1>4, <2>1
  <2> QED
    BY <2>2 DEF P
<1>6. Opened' = SubSeq(Opened, 1, Len(Opened) - 1)
  BY <1>2, <1>3, <1>5
<1> QED
  BY <1>6 DEF Promise!Outer, Opened

\* The innermost construct goes on.
LEMMA ShownMove ==
    ASSUME IInv, NEW kinds, In(kinds), NEW f \in Frame, f.kind = Top.kind,
           stack' = [stack EXCEPT ![Len(stack)] = f]
    PROVE  Opened' = [Opened EXCEPT ![Len(Opened)].at = f.at,
                                    ![Len(Opened)].held = PlaceOf(f).held]
<1> DEFINE m == Len(stack)
           q == stack'
           p == PlaceOf(Top)
           h == PlaceOf(f).held
           at == f.at
<1>1. stack \in Seq(Frame) /\ m \in Nat \ {0} /\ Top = stack[m] /\ m \in 1..m /\ Top \in Frame
  BY Types, TopFrame
<1>2. DOMAIN q = 1..m /\ \A i \in 1..m : q[i] = IF i = m THEN f ELSE stack[i]
  BY <1>1
<1>3. Opened' = [i \in 1..m |-> PlaceOf(q[i])]
  BY <1>2 DEF Opened
<1>4. Opened = [i \in 1..m |-> PlaceOf(stack[i])] /\ Len(Opened) = m /\ Opened[m] = p
  BY <1>1, OpenedIs
<1>5. PlaceOf(f) = [[p EXCEPT !.at = at] EXCEPT !.held = h]
  <2>1. p = [kind |-> Top.kind, at |-> Top.at, held |-> p.held]
    BY <1>1, ShownFrame DEF Promise!Open
  <2>2. PlaceOf(f) = [kind |-> f.kind, at |-> f.at, held |-> h]
    BY ShownFrame DEF Promise!Open
  <2>3. \A k, a, b : [[[kind |-> k, at |-> a, held |-> b] EXCEPT !.at = at] EXCEPT !.held = h]
                        = [kind |-> k, at |-> at, held |-> h]
    <3> HIDE DEF at, h
    <3>1. SUFFICES ASSUME NEW k, NEW a, NEW b
                   PROVE  [[[kind |-> k, at |-> a, held |-> b] EXCEPT !.at = at] EXCEPT !.held = h]
                             = [kind |-> k, at |-> at, held |-> h]
      OBVIOUS
    <3>2. [[kind |-> k, at |-> a, held |-> b] EXCEPT !.at = at] = [kind |-> k, at |-> at, held |-> b]
      OBVIOUS
    <3>3. [[kind |-> k, at |-> at, held |-> b] EXCEPT !.held = h] = [kind |-> k, at |-> at, held |-> h]
      OBVIOUS
    <3> QED
      BY <3>2, <3>3
  <2> DEFINE b == p.held
  <2>4. p = [kind |-> Top.kind, at |-> Top.at, held |-> b]
    BY <2>1
  <2> HIDE DEF p, h, at, b
  <2>5. [[p EXCEPT !.at = at] EXCEPT !.held = h] = [kind |-> Top.kind, at |-> at, held |-> h]
    BY <2>3, <2>4
  <2> QED
    BY <2>2, <2>5 DEF at
<1> HIDE DEF p, h, at
<1>6. [Opened EXCEPT ![m].at = at, ![m].held = h] = [i \in 1..m |-> IF i = m THEN PlaceOf(f) ELSE PlaceOf(stack[i])]
  <2> DEFINE P(i) == PlaceOf(stack[i])
             r == PlaceOf(f)
  <2>1. Opened = [i \in 1..m |-> P(i)]
    BY <1>4
  <2> HIDE DEF P, r
  <2>2. [Opened EXCEPT ![m].at = at, ![m].held = h] = [i \in 1..m |-> IF i = m THEN r ELSE P(i)]
    BY <1>1, <1>4, <1>5, <2>1 DEF r
  <2> QED
    BY <2>2 DEF P, r
<1>7. Opened' = [Opened EXCEPT ![Len(Opened)].at = at, ![Len(Opened)].held = h]
  BY <1>2, <1>3, <1>4, <1>6
<1> QED
  BY <1>7 DEF at, h

LEMMA ShownSame ==
    ASSUME IInv, stack' \in Seq(Frame), Len(stack') = Len(stack),
           \A i \in 1..Len(stack) : /\ stack'[i].kind = stack[i].kind
                                    /\ stack'[i].at = stack[i].at
                                    /\ stack'[i].saved = stack[i].saved
    PROVE  Opened' = Opened
<1> DEFINE m == Len(stack)
           q == stack'
<1>1. DOMAIN stack = 1..m /\ DOMAIN q = 1..m
  BY Types
<1>2. \A i \in 1..m : PlaceOf(q[i]) = PlaceOf(stack[i])
  BY DEF PlaceOf, Holds
<1>3. Opened' = [i \in 1..m |-> PlaceOf(q[i])]
  BY <1>1 DEF Opened
<1>4. Opened = [i \in 1..m |-> PlaceOf(stack[i])]
  BY <1>1 DEF Opened
<1> HIDE DEF m, q
<1> QED
  BY <1>2, <1>3, <1>4

LEMMA SomeOpen ==
    ASSUME IInv, NEW K
    PROVE  /\ Cardinality(Frames(K)) \in Nat
           /\ Cardinality(Frames(K)) = 0 <=> Frames(K) = {}
<1> DEFINE S == Frames(K)
           m == Len(stack)
<1>1. S \in SUBSET (1..m) /\ m \in Nat
  BY Types DEF Frames
<1> HIDE DEF S, m
<1>2. IsFiniteSet(1..m)
  BY <1>1, FS_Interval
<1>3. IsFiniteSet(S)
  BY <1>1, <1>2, FS_Subset
<1> QED
  BY <1>3, FS_CardinalityType, FS_EmptySet DEF S

-----------------------------------------------------------------------------
(* Commands.                                                               *)

\* A step of an untroubled script, with the invariant after it as well.
Step == Met /\ IInv'

LEMMA StepTypes ==
    ASSUME Step
    PROVE  /\ IInv /\ IInv' /\ Ready
           /\ stack \in Seq(Frame) /\ stack' \in Seq(Frame)
           /\ Jumping = Going(retflag, breaks, contflag)
           /\ Failing = Fails(errflag)
           /\ retflag \in BOOLEAN /\ breaks \in Nat /\ contflag \in BOOLEAN
           /\ errflag \in SUBSET {"error", "int"}
           /\ Jumping' = Going(retflag', breaks', contflag')
           /\ Failing' = Fails(errflag')
           /\ retflag' \in BOOLEAN /\ breaks' \in Nat /\ contflag' \in BOOLEAN
           /\ errflag' \in SUBSET {"error", "int"}
           /\ exit_level \in Nat
           /\ loops \in Nat /\ breaks <= loops
<1>1. IInv /\ IInv' /\ Ready
  BY DEF Step, Met, Ready
<1>2. stack \in Seq(Frame) /\ exit_level \in Nat /\ loops \in Nat /\ breaks <= loops
  BY <1>1, Types
<1>3. stack' \in Seq(Frame)
  BY <1>1 DEF IInv, TypeOK
<1> QED
  BY <1>1, <1>2, <1>3, ShownNow, ShownThen

LEMMA ReadyIs ==
    ASSUME IInv, CanRun
    PROVE  /\ Promise!Ready
           /\ breaks = 0 /\ ~retflag /\ errflag = {}
           /\ Jumping = Promise!None /\ Failing = {}
<1>1. ~(breaks > 0) /\ ~retflag /\ errflag = {} /\ pc \in {"next", "pipe"}
  BY DEF CanRun, Blocked
<1>2. breaks = 0
  BY <1>1, Types
<1>3. Jumping = Promise!None /\ Failing = {}
  <2>1. Jumping = Promise!None
    BY <1>1, <1>2, ShownNow DEF Going
  <2>2. Failing = {}
    BY <1>1, ShownNow, FailsIs
  <2> QED
    BY <2>1, <2>2
<1>4. Doing \in {"next", "inside"}
  BY <1>1, DoingIs
<1>5. Promise!Ready
  BY <1>3, <1>4 DEF Promise!Ready, Promise!Clear, Jumping, Failing, Doing
<1> QED
  BY <1>1, <1>2, <1>3, <1>5

\* A part of a chain that needs no job.
LEMMA PartReadyIs ==
    ASSUME IInv, CanRunSimple
    PROVE  Promise!PartReady
<1>1. CASE CanRun
  BY <1>1, ReadyIs DEF Promise!PartReady
<1>2. CASE pc = "pipe" /\ errflag = {}
  <2>1. Failing = {}
    BY <1>2, ShownNow, FailsIs
  <2>2. Doing = "inside"
    BY <1>2, DoingIs
  <2> QED
    BY <2>1, <2>2 DEF Promise!PartReady, Failing, Doing
<1> QED
  BY <1>1, <1>2 DEF CanRunSimple

LEMMA PassOverShows ==
    ASSUME Step, PassOver
    PROVE  Promise!Skip
<1>1. /\ pc = "pipe" /\ Blocked /\ pc' = "ran" /\ stack' = stack
      /\ breaks' = breaks /\ contflag' = contflag /\ retflag' = retflag /\ errflag' = errflag
      /\ exit_level' = exit_level
  BY DEF PassOver
<1>2. Opened' = Opened /\ Jumping' = Jumping /\ Failing' = Failing /\ Exiting' = Exiting
  BY <1>1, StepTypes DEF Opened, Exiting
<1>3. ~(Jumping = Promise!None /\ Failing = {})
  <2>1. breaks > 0 \/ retflag \/ errflag # {}
    BY <1>1 DEF Blocked
  <2>2. /\ Jumping = Going(retflag, breaks, contflag) /\ Failing = Fails(errflag)
        /\ retflag \in BOOLEAN /\ breaks \in Nat /\ contflag \in BOOLEAN
        /\ errflag \in SUBSET {"error", "int"}
    BY StepTypes
  <2>3. breaks > 0 => breaks # 0
    BY <2>2
  <2>4. Jumping = Promise!None => ~retflag /\ breaks = 0
    <3>1. Going(retflag, breaks, contflag) = Promise!None <=> ~retflag /\ breaks = 0
      BY <2>2, GoingIs
    <3> QED
      BY <2>2, <3>1
  <2>5. Failing = {} => errflag = {}
    BY <2>2, FailsIs
  <2> QED
    BY <2>1, <2>3, <2>4, <2>5
<1>4. Doing = "inside" /\ Doing' = "ran"
  BY <1>1, DoingIs, DoingThen
<1> QED
  BY <1>2, <1>3, <1>4
  DEF Promise!Skip, Promise!Clear, Opened, Jumping, Failing, Exiting, Doing

LEMMA SimpleShows ==
    ASSUME Step, Simple
    PROVE  Promise!Run \/ Promise!Fail
<1>1. /\ CanRunSimple /\ pc' = "ran" /\ stack' = stack
      /\ breaks' = breaks /\ contflag' = contflag /\ retflag' = retflag
      /\ exit_level' = exit_level
      /\ errflag' = errflag \/ errflag' = {"error"}
  BY DEF Simple
<1>2. Opened' = Opened /\ Jumping' = Jumping /\ Exiting' = Exiting /\ Doing' = "ran"
  BY <1>1, StepTypes, DoingThen DEF Opened, Exiting
<1>3. Promise!PartReady
  BY <1>1, PartReadyIs, StepTypes
<1>4. CASE errflag' = errflag
  <2>1. Failing' = Failing
    BY <1>4, StepTypes
  <2>2. Promise!Run
    BY <1>2, <1>3, <2>1 DEF Promise!Run, Opened, Jumping, Failing, Exiting, Doing
  <2> QED
    BY <2>2
<1>5. CASE errflag' = {"error"}
  <2>1. Failing' = {"error"}
    <3>1. Fails({"error"}) = {"error"}
      BY DEF Fails
    <3> QED
      BY <1>5, <3>1, StepTypes
  <2>2. Promise!Fail
    BY <1>2, <1>3, <2>1 DEF Promise!Fail, Opened, Jumping, Failing, Exiting, Doing
  <2> QED
    BY <2>2
<1> QED
  BY <1>1, <1>4, <1>5

LEMMA AfterCommandShows ==
    ASSUME Step, AfterCommand
    PROVE  Promise!Ran
<1>1. /\ pc = "ran" /\ pc' \in {"next", "pipe"} /\ stack' = stack
      /\ breaks' = breaks /\ contflag' = contflag /\ retflag' = retflag /\ errflag' = errflag
      /\ exit_level' = exit_level
  BY DEF AfterCommand, flags
<1>2. Opened' = Opened /\ Jumping' = Jumping /\ Failing' = Failing /\ Exiting' = Exiting
  BY <1>1, StepTypes DEF Opened, Exiting
<1>3. Doing = "ran" /\ Doing' \in {"next", "inside"}
  BY <1>1, DoingIs, DoingThen
<1> QED
  BY <1>2, <1>3 DEF Promise!Ran, Opened, Jumping, Failing, Exiting, Doing

LEMMA JumpShows ==
    ASSUME Step, bin_break \/ bin_continue
    PROVE  Promise!Jump
<1>1. /\ CanRun /\ pc' = "ran" /\ stack' = stack /\ retflag' = retflag /\ errflag' = errflag
      /\ exit_level' = exit_level /\ breaks' \in 1..loops
  BY DEF bin_break, bin_continue
<1>2. Opened' = Opened /\ Failing' = Failing /\ Exiting' = Exiting /\ Doing' = "ran"
  BY <1>1, StepTypes, DoingThen DEF Opened, Exiting
<1>3. Promise!Ready /\ ~retflag'
  BY <1>1, ReadyIs, StepTypes
<1>4. breaks' \in Nat /\ breaks' > 0
  BY <1>1, StepTypes
<1>5. Jumping' \in Promise!LoopJump(breaks')
  BY <1>3, <1>4, StepTypes, GoingIs
<1>6. breaks' \in 1..Promise!LoopsOpen
  BY <1>1, ShownCount, StepTypes
<1>7. \E n \in 1..Promise!LoopsOpen : Jumping' \in Promise!LoopJump(n)
  BY <1>5, <1>6
<1> QED
  BY <1>2, <1>3, <1>7 DEF Promise!Jump, Opened, Jumping, Failing, Exiting, Doing

LEMMA OverShows ==
    ASSUME Step, CanRun, pc' = "done",
           UNCHANGED <<stack, breaks, contflag, retflag, errflag, exit_level>>
    PROVE  Promise!Over
<1>1. Opened' = Opened /\ Jumping' = Jumping /\ Failing' = Failing /\ Exiting' = Exiting
  BY StepTypes DEF Opened, Exiting
<1>2. Promise!Ready /\ Doing' = "over"
  BY ReadyIs, StepTypes, DoingThen
<1> QED
  BY <1>1, <1>2 DEF Promise!Over, Opened, Jumping, Failing, Exiting, Doing

LEMMA ReturnShows ==
    ASSUME Step, bin_return
    PROVE  Promise!Jump \/ Promise!Over
<1>1. CanRun /\ contflag' = contflag /\ errflag' = errflag /\ exit_level' = exit_level
  BY DEF bin_return
<1>2. CASE locallevel + sourcelevel > 0
  <2>1. retflag' = TRUE /\ pc' = "ran"
    BY <1>2 DEF bin_return
  <2>2. Opened' = Opened
    <3> DEFINE i == Innermost({"function", "source", "trap"})
    <3>1. /\ i \in 1..Len(stack)
          /\ stack' = IF stack[i].kind = "trap"
                         THEN [stack EXCEPT ![i].trap_return = lastval'] ELSE stack
      BY <2>1, ReturnTarget, StepTypes
    <3> HIDE DEF i
    <3>2. CASE stack[i].kind = "trap"
      <4>1. /\ Len(stack') = Len(stack)
            /\ \A j \in 1..Len(stack) : /\ stack'[j].kind = stack[j].kind
                                        /\ stack'[j].at = stack[j].at
                                        /\ stack'[j].saved = stack[j].saved
                                        /\ Holds(stack'[j]) <=> Holds(stack[j])
                                        /\ j # i => stack'[j] = stack[j]
            /\ stack'[i].trap_return = lastval'
        BY <3>1, <3>2, NewTrapReturn, StepTypes
      <4> QED
        BY <4>1, ShownSame, StepTypes
    <3>3. CASE stack[i].kind # "trap"
      BY <3>1, <3>3 DEF Opened
    <3> QED
      BY <3>2, <3>3
  <2>3. Failing' = Failing /\ Exiting' = Exiting /\ Doing' = "ran" /\ Promise!Ready
    BY <1>1, <2>1, ReadyIs, StepTypes, DoingThen DEF Exiting
  <2>4. Jumping' = Promise!Return
    BY <2>1, StepTypes DEF Going
  <2>5. Promise!Count({"function", "source"}) > 0
    <3>1. Cardinality(Frames({"function", "source"})) # 0
      <4>1. SUFFICES ASSUME Frames({"function", "source"}) = {} PROVE FALSE
        BY SomeOpen, StepTypes
      <4>2. Frames({"function"}) = {} /\ Frames({"source"}) = {}
        BY <4>1 DEF Frames
      <4>3. Cardinality({}) = 0
        BY FS_EmptySet
      <4> QED
        BY <1>2, <4>2, <4>3 DEF locallevel, sourcelevel
    <3>2. Cardinality(Frames({"function", "source"})) \in Nat
      BY SomeOpen, StepTypes
    <3>3. Promise!Count({"function", "source"}) = Cardinality(Frames({"function", "source"}))
      BY ShownCount, StepTypes
    <3> QED
      BY <3>1, <3>2, <3>3
  <2>6. Promise!Jump
    BY <2>2, <2>3, <2>4, <2>5 DEF Promise!Jump, Opened, Jumping, Failing, Exiting, Doing
  <2> QED
    BY <2>6
<1>3. CASE ~(locallevel + sourcelevel > 0)
  <2>1. pc' = "done" /\ UNCHANGED <<stack, breaks, retflag>>
    BY <1>3 DEF bin_return, Finish
  <2> QED
    BY <1>1, <2>1, OverShows
<1> QED
  BY <1>2, <1>3

LEMMA ExitShows ==
    ASSUME Step, bin_exit
    PROVE  Promise!ExitCalled \/ Promise!Over
<1>1. CanRun /\ contflag' = contflag /\ errflag' = errflag
  BY DEF bin_exit
<1>2. CASE locallevel > 0
  <2> DEFINE t == Innermost({"source", "trap"})
  <2>1. /\ retflag' = TRUE /\ pc' = "ran" /\ exit_level' = locallevel
        /\ stack' = IF t > 0 /\ stack[t].kind = "trap"
                       THEN [stack EXCEPT ![t].trap_return = 1] ELSE stack
    BY <1>2 DEF bin_exit
  <2>2. Opened' = Opened
    <3>1. t > 0 => t \in 1..Len(stack)
      <4>1. t = 0 \/ t \in 1..Len(stack)
        BY InnermostIs, StepTypes
      <4> QED
        BY <4>1
    <3>2. CASE t > 0 /\ stack[t].kind = "trap"
      <4>1. t \in 1..Len(stack) /\ stack' = [stack EXCEPT ![t].trap_return = 1]
        BY <2>1, <3>1, <3>2
      <4> HIDE DEF t
      <4>2. /\ Len(stack') = Len(stack)
            /\ \A j \in 1..Len(stack) : /\ stack'[j].kind = stack[j].kind
                                        /\ stack'[j].at = stack[j].at
                                        /\ stack'[j].saved = stack[j].saved
                                        /\ Holds(stack'[j]) <=> Holds(stack[j])
                                        /\ j # t => stack'[j] = stack[j]
            /\ stack'[t].trap_return = 1
        BY <4>1, NewTrapReturn, StepTypes
      <4> QED
        BY <4>2, ShownSame, StepTypes
    <3>3. CASE ~(t > 0 /\ stack[t].kind = "trap")
      BY <2>1, <3>3 DEF Opened
    <3> QED
      BY <3>2, <3>3
  <2>3. Failing' = Failing /\ Exiting' = TRUE /\ Doing' = "ran" /\ Promise!Ready
    <3>1. Exiting' = TRUE
      BY <1>2, <2>1 DEF Exiting
    <3> QED
      BY <1>1, <2>1, <3>1, ReadyIs, StepTypes, DoingThen
  <2>4. Jumping' = Promise!Return
    BY <2>1, StepTypes DEF Going
  <2>5. Promise!Count({"function"}) > 0
    <3>1. Promise!Count({"function"}) = locallevel
      BY ShownCount, StepTypes DEF locallevel
    <3> QED
      BY <1>2, <3>1
  <2>6. Promise!ExitCalled
    BY <2>2, <2>3, <2>4, <2>5 DEF Promise!ExitCalled, Opened, Jumping, Failing, Exiting, Doing
  <2> QED
    BY <2>6
<1>3. CASE ~(locallevel > 0)
  <2>1. pc' = "done" /\ UNCHANGED <<stack, breaks, retflag, exit_level>>
    BY <1>3 DEF bin_exit, Finish
  <2> QED
    BY <1>1, <2>1, OverShows
<1> QED
  BY <1>2, <1>3

\* Where a construct begins.
First(kind) ==
    CASE kind \in {"while", "until", "if"} -> "cond"
      [] kind = "try"                      -> "try"
      [] OTHER                             -> "body"

LEMMA Entered ==
    ASSUME Step, CanRunSimple, NEW kind \in Kinds \ {"trap"}, NEW saved \in Flags,
           kind \in {"function", "source"} => CanRun,
           Push(New(kind, First(kind), saved)), pc' = "next",
           UNCHANGED <<breaks, contflag, retflag, errflag, exit_level>>
    PROVE  Promise!Enter
<1> DEFINE f == New(kind, First(kind), saved)
<1>1. First(kind) \in Places \ {"always"}
  BY DEF First, Places
<1>2. f \in Frame /\ f.kind = kind /\ f.at = First(kind)
  BY <1>1, NewFrame
<1> HIDE DEF f
<1>3. PlaceOf(f) = Promise!Open(kind, First(kind), Promise!Nothing)
  <2>1. ~Holds(f)
    BY <1>1, <1>2 DEF Holds
  <2> QED
    BY <1>2, <2>1, ShownFrame
<1>4. Opened' = Append(Opened, PlaceOf(f)) /\ Len(Opened) < MaxDepth
  BY <1>2, ShownPush, StepTypes DEF f
<1>5. Jumping' = Jumping /\ Failing' = Failing /\ Exiting' = Exiting
  BY StepTypes DEF Exiting
<1>6. Promise!PartReady /\ Doing' = "next"
  BY PartReadyIs, StepTypes, DoingThen
<1>7. kind \in Promise!Kinds \ (IF Promise!Ready THEN {"trap"} ELSE {"trap", "function", "source"})
  <2>1. kind \in Promise!Kinds \ {"trap"}
    BY DEF Kinds, LoopKinds, Promise!Kinds, Promise!LoopKinds
  <2>2. kind \in {"function", "source"} => Promise!Ready
    BY ReadyIs, StepTypes
  <2> QED
    BY <2>1, <2>2
<1>8. Opened' = Append(Opened, Promise!Open(kind, First(kind), Promise!Nothing))
  BY <1>3, <1>4
<1> QED
  BY <1>4, <1>5, <1>6, <1>7, <1>8
  DEF Promise!Enter, First, Opened, Jumping, Failing, Exiting, Doing

LEMMA EnterShows ==
    ASSUME Step, BeginLoop \/ BeginBlock \/ BeginFunction \/ BeginSource
    PROVE  Promise!Enter
<1>1. CanRunSimple /\ pc' = "next" /\ UNCHANGED <<breaks, contflag, retflag, errflag, exit_level>>
  BY DEF CanRunSimple, BeginLoop, BeginBlock, BeginFunction, BeginSource, flags
<1>2. Cleared \in Flags /\ Saved \in Flags
  BY SavedTypes, StepTypes
<1>3. PICK kind \in Kinds \ {"trap"}, saved \in Flags :
          /\ Push(New(kind, First(kind), saved))
          /\ kind \in {"function", "source"} => CanRun
  <2>1. CASE BeginLoop
    BY <1>2, <2>1 DEF BeginLoop, First, Kinds, LoopKinds
  <2>2. CASE BeginBlock
    BY <1>2, <2>2 DEF BeginBlock, First, Kinds, LoopKinds
  <2>3. CASE BeginFunction
    BY <1>2, <2>3 DEF BeginFunction, First, Kinds, LoopKinds
  <2>4. CASE BeginSource
    BY <1>2, <2>4 DEF BeginSource, First, Kinds, LoopKinds
  <2> QED
    BY <2>1, <2>2, <2>3, <2>4
<1> QED
  BY <1>1, <1>3, Entered

-----------------------------------------------------------------------------
(* Ends of lists.                                                          *)

LEMMA LeaveIs ==
    ASSUME Step, NEW kinds, In(kinds), Pop, pc' = "ran"
    PROVE  Promise!Leave
<1>1. Opened' = Promise!Outer
  BY ShownPop, StepTypes DEF In
<1>2. Doing' = "ran"
  BY DoingThen
<1> QED
  BY <1>1, <1>2 DEF Promise!Leave, Opened, Doing

LEMMA GoToIs ==
    ASSUME Step, NEW kinds, In(kinds), pc' = "next", NEW f \in Frame, f.kind = Top.kind,
           stack' = [stack EXCEPT ![Len(stack)] = f]
    PROVE  Promise!GoTo(f.at, PlaceOf(f).held)
<1>1. Opened' = [Opened EXCEPT ![Len(Opened)].at = f.at,
                               ![Len(Opened)].held = PlaceOf(f).held]
  BY ShownMove, StepTypes
<1>2. Doing' = "next"
  BY DoingThen
<1> QED
  BY <1>1, <1>2 DEF Promise!GoTo, Opened, Doing

\* A list that holds nothing goes on to another such.
LEMMA GoToNext ==
    ASSUME Step, NEW kinds, In(kinds), pc' = "next", NEW f \in Frame, f.kind = Top.kind,
           f.kind # "trap", f.at # "always",
           stack' = [stack EXCEPT ![Len(stack)] = f]
    PROVE  Promise!GoTo(f.at, Promise!Nothing)
<1>1. PlaceOf(f).held = Promise!Nothing
  BY ShownFrame DEF Holds
<1> QED
  BY <1>1, GoToIs

LEMMA AtEndIs ==
    ASSUME Step, NEW kinds, In(kinds), pc = "next"
    PROVE  /\ Promise!AtEnd(kinds)
           /\ Promise!Top = PlaceOf(Top)
           /\ Promise!Top.kind = Top.kind /\ Promise!Top.at = Top.at
           /\ Top.kind \in kinds /\ Top \in Frame
<1>1. /\ Promise!Inside /\ Promise!Top = PlaceOf(Top)
      /\ Promise!Top.kind = Top.kind /\ Promise!Top.at = Top.at
      /\ Top.kind \in kinds /\ Top \in Frame
  BY ShownTop, StepTypes
<1>2. Doing = "next"
  BY DoingIs
<1> QED
  BY <1>1, <1>2 DEF Promise!AtEnd, Doing

LEMMA IfEndShows ==
    ASSUME Step, IfCondEnd \/ IfEnd
    PROVE  Promise!IfEnd
<1>1. /\ In({"if"}) /\ pc = "next"
      /\ UNCHANGED <<breaks, contflag, retflag, errflag, exit_level>>
  BY DEF IfCondEnd, IfEnd, ListEnd, In, flags
<1>2. Jumping' = Jumping /\ Failing' = Failing /\ Exiting' = Exiting
  BY <1>1, StepTypes DEF Exiting
<1>3. Promise!AtEnd({"if"}) /\ Promise!Top.at = Top.at /\ Top.kind = "if" /\ Top \in Frame
  BY <1>1, AtEndIs
<1>4. CASE Pop /\ pc' = "ran"
  <2>1. Promise!Leave
    BY <1>1, <1>4, LeaveIs
  <2> QED
    BY <1>2, <1>3, <2>1 DEF Promise!IfEnd, Opened, Jumping, Failing, Exiting, Doing
<1>5. CASE IfCondEnd /\ ~Blocked /\ pc' = "next" /\ \E at \in {"cond", "body"} : MoveTo(at)
  <2>1. PICK at \in {"cond", "body"} : MoveTo(at)
    BY <1>5
  <2> DEFINE f == [Top EXCEPT !.at = at]
  <2>2. stack' = [stack EXCEPT ![Len(stack)] = f]
    BY <2>1 DEF MoveTo, Top
  <2>3. f \in Frame /\ f.kind = Top.kind /\ f.at = at
    BY <1>3 DEF Frame, Places
  <2> HIDE DEF f
  <2>4. Promise!GoTo(at, Promise!Nothing)
    BY <1>1, <1>3, <1>5, <2>2, <2>3, GoToNext
  <2>5. Jumping = Promise!None /\ Failing = {}
    <3>1. ~retflag /\ ~(breaks > 0) /\ errflag = {} /\ breaks \in Nat
      BY <1>5, StepTypes DEF Blocked
    <3>2. Going(retflag, breaks, contflag) = Promise!None
      BY <3>1 DEF Going
    <3> QED
      BY <3>1, <3>2, StepTypes, FailsIs
  <2>6. Promise!Top.at = "cond"
    BY <1>3, <1>5 DEF IfCondEnd, ListEnd
  <2> QED
    BY <1>2, <1>3, <2>4, <2>5, <2>6
    DEF Promise!IfEnd, Promise!Clear, Opened, Jumping, Failing, Exiting, Doing
<1>6. (Pop /\ pc' = "ran")
      \/ (IfCondEnd /\ ~Blocked /\ pc' = "next" /\ \E at \in {"cond", "body"} : MoveTo(at))
  <2>1. CASE IfCondEnd
    BY <1>1, <2>1 DEF IfCondEnd
  <2>2. CASE IfEnd
    BY <2>2 DEF IfEnd
  <2> QED
    BY <2>1, <2>2
<1> QED
  BY <1>4, <1>5, <1>6

LEMMA TryEndShows ==
    ASSUME Step, TryEnd
    PROVE  Promise!TryEnd
<1> DEFINE g == [Saved EXCEPT !.loops = 0, !.lastval = IF errflag /= {} THEN 1 ELSE lastval]
           f == New("try", "always", g)
<1>1. /\ In({"try"}) /\ pc = "next" /\ pc' = "next" /\ Top.at = "try"
      /\ stack' = [stack EXCEPT ![Len(stack)] = f]
      /\ breaks' = 0 /\ ~retflag' /\ errflag' = {} /\ exit_level' = exit_level
  BY DEF TryEnd, ListEnd, In
<1>2. /\ Promise!AtEnd({"try"}) /\ Promise!Top.at = "try"
      /\ Top.kind = "try"
  BY <1>1, AtEndIs
<1>3. g \in Flags /\ g.retflag = retflag /\ g.breaks = breaks /\ g.contflag = contflag
      /\ g.errflag = errflag
  <2> DEFINE s == Saved
             l == IF errflag /= {} THEN 1 ELSE lastval
  <2>1. s \in Flags /\ l \in 0..1 /\ 0 \in 0..MaxDepth
    BY SavedTypes, Types, StepTypes
  <2>2. s.retflag = retflag /\ s.breaks = breaks /\ s.contflag = contflag /\ s.errflag = errflag
    BY DEF Saved
  <2> HIDE DEF s, l
  <2>3. [s EXCEPT !.loops = 0, !.lastval = l] \in Flags
    BY <2>1 DEF Flags
  <2>4. \A k \in {"retflag", "breaks", "contflag", "errflag"} :
           [s EXCEPT !.loops = 0, !.lastval = l][k] = s[k]
    BY <2>1 DEF Flags
  <2> QED
    BY <2>2, <2>3, <2>4 DEF s, l
<1> HIDE DEF g
<1>4. f \in Frame /\ f.kind = "try" /\ f.at = "always" /\ f.saved = g
  BY <1>3, NewFrame DEF Kinds, Places
<1> HIDE DEF f
<1>5. PlaceOf(f).held = [jump |-> Jumping, failed |-> Failing]
  <2>1. Holds(f)
    BY <1>4 DEF Holds
  <2> QED
    BY <1>3, <1>4, <2>1, ShownFrame, StepTypes
<1>6. PlaceOf(f).held = Promise!Pending
  BY <1>5 DEF Promise!Pending, Jumping, Failing
<1>7. Promise!GoTo("always", Promise!Pending)
  BY <1>1, <1>2, <1>4, <1>6, GoToIs
<1>8. Jumping' = Promise!None /\ Failing' = {} /\ Exiting' = Exiting
  <2>1. Going(retflag', breaks', contflag') = Promise!None
    BY <1>1 DEF Going
  <2> QED
    BY <1>1, <2>1, StepTypes, FailsIs DEF Exiting
<1> QED
  BY <1>1, <1>2, <1>7, <1>8 DEF Promise!TryEnd, Opened, Jumping, Failing, Exiting, Doing

LEMMA ScriptEndShows ==
    ASSUME Step, ScriptEnd
    PROVE  Promise!ScriptEnd
<1>1. /\ pc = "next" /\ pc' = "done" /\ stack = <<>> /\ stack' = stack
      /\ UNCHANGED <<breaks, contflag, retflag, errflag, exit_level>>
  BY DEF ScriptEnd, Finish, flags
<1>2. Opened' = Opened /\ Jumping' = Jumping /\ Failing' = Failing /\ Exiting' = Exiting
  BY <1>1, StepTypes DEF Opened, Exiting
<1>3. Opened = <<>>
  BY <1>1, OpenedIs, StepTypes
<1>4. ~Promise!Inside
  BY <1>3 DEF Promise!Inside, Opened
<1>5. Doing = "next" /\ Doing' = "over"
  BY <1>1, DoingIs, DoingThen
<1> QED
  BY <1>2, <1>4, <1>5 DEF Promise!ScriptEnd, Opened, Jumping, Failing, Exiting, Doing

-----------------------------------------------------------------------------
(* Ends of loops.                                                          *)

LEMMA LoopLeaves ==
    ASSUME Step, In(LoopKinds), pc = "next", LeaveLoop,
           breaks' = Minus1(breaks), breaks > 1 => contflag' = contflag,
           UNCHANGED <<retflag, errflag, exit_level>>
    PROVE  Promise!LoopEnd
<1>1. Promise!AtEnd(LoopKinds)
  BY AtEndIs
<1>2. Promise!LoopKinds = LoopKinds
  BY DEF Promise!LoopKinds, LoopKinds
<1>3. Promise!Leave
  BY LeaveIs DEF LeaveLoop
<1>4. Failing' = Failing /\ Exiting' = Exiting
  BY StepTypes DEF Exiting
<1>5. \/ Jumping.n > 1 /\ Jumping' = [Jumping EXCEPT !.n = @ - 1]
      \/ Jumping.how = "break" /\ Jumping.n = 1 /\ Jumping' = Promise!None
      \/ Jumping.how = "continue" /\ Jumping.n = 1 /\ Jumping' = Promise!None
      \/ Jumping.n = 0 /\ Jumping' = Jumping
  <2>1. /\ Jumping = Going(retflag, breaks, contflag)
        /\ Jumping' = Going(retflag, breaks', contflag')
        /\ retflag \in BOOLEAN /\ breaks \in Nat /\ contflag \in BOOLEAN
    BY StepTypes
  <2>2. CASE retflag
    <3>1. Jumping = Promise!Return /\ Jumping' = Promise!Return
      BY <2>1, <2>2 DEF Going
    <3> QED
      BY <3>1 DEF Promise!Return
  <2>3. CASE ~retflag /\ breaks = 0
    <3>1. breaks' = 0
      BY <2>3 DEF Minus1
    <3>2. Jumping = Promise!None /\ Jumping' = Promise!None
      BY <2>1, <2>3, <3>1 DEF Going
    <3> QED
      BY <3>2 DEF Promise!None
  <2>4. CASE ~retflag /\ breaks = 1
    <3>1. breaks' = 0
      BY <2>4 DEF Minus1
    <3>2. Jumping' = Promise!None
      BY <2>1, <2>4, <3>1 DEF Going
    <3>3. Jumping = [how |-> IF contflag THEN "continue" ELSE "break", n |-> 1]
      BY <2>1, <2>4 DEF Going
    <3> QED
      BY <3>2, <3>3
  <2>5. CASE ~retflag /\ breaks > 1
    <3>1. breaks' = breaks - 1 /\ breaks' > 0 /\ contflag' = contflag
      BY <2>1, <2>5 DEF Minus1
    <3> DEFINE h == IF contflag THEN "continue" ELSE "break"
    <3>2. Jumping' = [how |-> h, n |-> breaks - 1]
      BY <2>1, <2>5, <3>1 DEF Going
    <3>3. Jumping = [how |-> h, n |-> breaks]
      BY <2>1, <2>5 DEF Going
    <3> HIDE DEF h
    <3> QED
      BY <2>5, <3>2, <3>3
  <2> QED
    BY <2>1, <2>2, <2>3, <2>4, <2>5
<1> QED
  BY <1>1, <1>2, <1>3, <1>4, <1>5
  DEF Promise!LoopEnd, Opened, Jumping, Failing, Exiting, Doing

LEMMA LoopGoesOn ==
    ASSUME Step, In(LoopKinds), pc = "next", pc' = "next",
           ~retflag, errflag = {}, breaks' = 0, breaks = 0 \/ (breaks = 1 /\ contflag),
           UNCHANGED <<retflag, errflag, exit_level>>,
           NEW f \in Frame, f.kind = Top.kind,
           stack' = [stack EXCEPT ![Len(stack)] = f],
           f.at = IF Top.kind = "for" \/ (breaks = 0 /\ Top.at = "cond") THEN "body" ELSE "cond"
    PROVE  Promise!LoopEnd
<1>1. /\ Promise!AtEnd(LoopKinds)
      /\ Promise!Top.kind = Top.kind /\ Promise!Top.at = Top.at /\ Top.kind \in LoopKinds
  BY AtEndIs
<1>2. Promise!LoopKinds = LoopKinds
  BY DEF Promise!LoopKinds, LoopKinds
<1>3. Promise!GoTo(f.at, Promise!Nothing)
  BY <1>1, GoToNext DEF LoopKinds
<1>4. Failing' = Failing /\ Exiting' = Exiting
  BY StepTypes DEF Exiting
<1>5. Failing = {}
  BY StepTypes, FailsIs
<1>6. Jumping' = Promise!None
  <2>1. Going(retflag', breaks', contflag') = Promise!None
    BY DEF Going
  <2> QED
    BY <2>1, StepTypes
<1>7. CASE breaks = 0
  <2>1. Jumping = Promise!None
    BY <1>7, StepTypes DEF Going
  <2>2. Jumping.n = 0
    BY <2>1 DEF Promise!None
  <2>3. f.at = IF Promise!Top.at = "cond" \/ Promise!Top.kind = "for" THEN "body" ELSE "cond"
    BY <1>1, <1>7
  <2> QED
    BY <1>1, <1>2, <1>3, <1>4, <1>5, <1>6, <2>1, <2>2, <2>3
    DEF Promise!LoopEnd, Promise!Clear, Opened, Jumping, Failing, Exiting, Doing
<1>8. CASE breaks = 1 /\ contflag
  <2>1. Jumping = [how |-> "continue", n |-> 1]
    BY <1>8, StepTypes DEF Going
  <2>2. Jumping.how = "continue" /\ Jumping.n = 1
    BY <2>1
  <2>3. f.at = IF Promise!Top.kind = "for" THEN "body" ELSE "cond"
    BY <1>1, <1>8
  <2> QED
    BY <1>1, <1>2, <1>3, <1>4, <1>5, <1>6, <2>2, <2>3
    DEF Promise!LoopEnd, Opened, Jumping, Failing, Exiting, Doing
<1> QED
  BY <1>7, <1>8

LEMMA AfterBodyShows ==
    ASSUME Step, In(LoopKinds), pc = "next", AfterBody,
           breaks = 0 /\ ~retflag /\ errflag = {} => Top.at = "body",
           UNCHANGED <<retflag, errflag, exit_level>>
    PROVE  Promise!LoopEnd
<1>1. breaks' = Minus1(breaks) /\ (contflag' <=> contflag /\ breaks /= 1)
  BY DEF AfterBody
<1>2. breaks \in Nat /\ contflag \in BOOLEAN /\ contflag' \in BOOLEAN /\ retflag \in BOOLEAN
  BY StepTypes
<1>3. CASE LeaveLoop
  <2>1. breaks > 1 => breaks /= 1
    BY <1>2
  <2>2. breaks > 1 => contflag' = contflag
    BY <1>1, <1>2, <2>1
  <2> QED
    BY <1>1, <1>3, <2>2, LoopLeaves
<1>4. CASE ~LeaveLoop
  <2> DEFINE b == IF Top.kind = "for" THEN "body" ELSE "cond"
             l == IF Top.kind = "for" THEN 0 ELSE lastval'
             f == [[Top EXCEPT !.at = b] EXCEPT !.saved.lastval = l]
             m == Len(stack)
  <2>1. /\ ~(breaks > 1 \/ (breaks = 1 /\ ~contflag)) /\ ~retflag /\ errflag = {}
        /\ pc' = "next"
        /\ stack' = [stack EXCEPT ![m].at = b, ![m].saved.lastval = l]
    BY <1>4 DEF AfterBody
  <2>2. stack \in Seq(Frame) /\ m \in 1..m /\ Top = stack[m] /\ Top \in Frame
    BY TopFrame, Types, StepTypes
  <2>3. l \in 0..1
    BY Types, StepTypes DEF Step, IInv, TypeOK
  <2> HIDE DEF b, l, m
  <2>4. b \in Places
    BY DEF b, Places
  <2>5. f \in Frame /\ f.kind = Top.kind /\ f.at = b
    <3> DEFINE g == [Top EXCEPT !.at = b]
    <3>1. g \in Frame /\ g.kind = Top.kind /\ g.at = b
      BY <2>2, <2>4 DEF Frame
    <3> HIDE DEF g
    <3>2. g.saved \in Flags
      BY <3>1 DEF Frame
    <3>3. [g.saved EXCEPT !.lastval = l] \in Flags
      BY <2>3, <3>2 DEF Flags
    <3>4. [g EXCEPT !.saved.lastval = l] = [g EXCEPT !.saved = [g.saved EXCEPT !.lastval = l]]
      BY <3>1, <3>2 DEF Frame, Flags
    <3> DEFINE h == [g.saved EXCEPT !.lastval = l]
    <3>5. [g EXCEPT !.saved = h] \in Frame /\ [g EXCEPT !.saved = h].kind = g.kind
          /\ [g EXCEPT !.saved = h].at = g.at
      <4> HIDE DEF h
      <4>1. h \in Flags
        BY <3>3 DEF h
      <4> QED
        BY <3>1, <4>1 DEF Frame
    <3> QED
      BY <3>1, <3>4, <3>5 DEF g
  <2>6. stack' = [stack EXCEPT ![m] = f]
    <3>1. [stack EXCEPT ![m].at = b, ![m].saved.lastval = l]
             = [stack EXCEPT ![m] = [[stack[m] EXCEPT !.at = b] EXCEPT !.saved.lastval = l]]
      BY <2>2
    <3> QED
      BY <2>1, <2>2, <3>1
  <2> HIDE DEF f
  <2>7. breaks = 0 \/ (breaks = 1 /\ contflag)
    BY <1>2, <2>1
  <2>8. breaks' = 0
    BY <1>1, <2>7 DEF Minus1
  <2>9. f.at = IF Top.kind = "for" \/ (breaks = 0 /\ Top.at = "cond") THEN "body" ELSE "cond"
    BY <2>1, <2>5 DEF b
  <2> QED
    BY <2>1, <2>5, <2>6, <2>7, <2>8, <2>9, LoopGoesOn DEF m
<1> QED
  BY <1>3, <1>4

LEMMA LoopEndShows ==
    ASSUME Step, BodyEnd \/ CondEnd
    PROVE  Promise!LoopEnd
<1>1. In(LoopKinds) /\ pc = "next" /\ UNCHANGED <<retflag, errflag, exit_level>>
  BY DEF BodyEnd, CondEnd, ListEnd, In, LoopKinds
<1>2. CASE BodyEnd
  <2>1. AfterBody /\ Top.at = "body"
    BY <1>2 DEF BodyEnd, ListEnd
  <2> QED
    BY <1>1, <2>1, AfterBodyShows
<1>3. CASE CondEnd
  <2>1. /\ Top.at = "cond" /\ Top.kind # "for"
        /\ \/ breaks' = Minus1(breaks) /\ LeaveLoop /\ contflag' = contflag
           \/ ~retflag /\ Blocked /\ AfterBody
           \/ ~Blocked /\ MoveTo("body") /\ UNCHANGED <<pc, breaks, contflag>>
    BY <1>3 DEF CondEnd, ListEnd, In
  <2>2. CASE breaks' = Minus1(breaks) /\ LeaveLoop /\ contflag' = contflag
    BY <1>1, <2>2, LoopLeaves
  <2>3. CASE ~retflag /\ Blocked /\ AfterBody
    <3>1. ~(breaks = 0 /\ ~retflag /\ errflag = {})
      BY <2>3, StepTypes DEF Blocked
    <3> QED
      BY <1>1, <2>3, <3>1, AfterBodyShows
  <2>4. CASE ~Blocked /\ MoveTo("body") /\ UNCHANGED <<pc, breaks, contflag>>
    <3> DEFINE f == [Top EXCEPT !.at = "body"]
    <3>1. stack' = [stack EXCEPT ![Len(stack)] = f]
      BY <2>4 DEF MoveTo, Top
    <3>2. Top \in Frame
      BY <1>1, TopFrame, StepTypes
    <3>3. f \in Frame /\ f.kind = Top.kind /\ f.at = "body"
      BY <3>2 DEF Frame, Places
    <3> HIDE DEF f
    <3>4. ~retflag /\ errflag = {} /\ breaks = 0 /\ breaks' = 0 /\ pc' = "next"
      BY <1>1, <2>4, StepTypes DEF Blocked
    <3> QED
      BY <1>1, <2>1, <3>1, <3>3, <3>4, LoopGoesOn
  <2> QED
    BY <2>1, <2>2, <2>3, <2>4
<1> QED
  BY <1>2, <1>3

-----------------------------------------------------------------------------
(* Ends of always lists and traps: what waits there meets what is pending. *)

LEMMA Holding ==
    ASSUME Step, NEW kinds, In(kinds), Holds(Top), NEW g, g = Top.saved
    PROVE  /\ g.retflag \in BOOLEAN /\ g.breaks \in Nat /\ g.contflag \in BOOLEAN
           /\ g.errflag \in SUBSET {"error", "int"}
           /\ Promise!Top.held = [jump |-> Going(g.retflag, g.breaks, g.contflag),
                                  failed |-> Fails(g.errflag)]
           /\ g.contflag => breaks = 0 /\ ~retflag
           /\ contflag /\ breaks = 0 /\ g.breaks > 0 => g.contflag
           /\ Top.kind = "try" => "int" \notin errflag
           /\ Top.kind = "trap" =>
                 /\ retflag => Top.trap_return # NoReturn \/ g.retflag
                 /\ Top.trap_return # NoReturn => retflag
                 /\ g.contflag => contflag
<1> DEFINE m == Len(stack)
           n == m + 1
           w == All
           x == exit_level
<1>1. /\ Promise!Top = PlaceOf(Top) /\ Top \in Frame /\ g \in Flags
      /\ m \in 1..MaxDepth /\ Top = stack[m] /\ MaxDepth \in Nat
  BY ShownTop, TopFrame, StepTypes, Types
<1>2. /\ g.retflag \in BOOLEAN /\ g.breaks \in Nat /\ g.contflag \in BOOLEAN
      /\ g.errflag \in SUBSET {"error", "int"}
  BY <1>1 DEF Flags
<1>3. Promise!Top.held = [jump |-> Going(g.retflag, g.breaks, g.contflag),
                          failed |-> Fails(g.errflag)]
  BY <1>1, ShownFrame
<1>4. /\ Met /\ Ready /\ m \in 1..m /\ m < n /\ n = m + 1 /\ n \in (m + 1)..n
      /\ \A j \in (m + 1)..n : j = n
  BY <1>1 DEF Step, Met
<1>5. (\A i \in 1..m : w[i] = stack[i]) /\ Holds(w[n])
      /\ w[n].saved.errflag = errflag /\ w[n].saved.contflag = contflag
      /\ w[n].saved.retflag = retflag /\ w[n].saved.breaks = breaks
  BY <1>4, EndFlags, Here DEF Ready
<1>6. w[m] = Top /\ Holds(w[m]) /\ w[m].saved = g
  BY <1>1, <1>4, <1>5
<1>7. /\ Clean(w, n) /\ (\A j \in 1..m : Waits(w, j, n) /\ Waits(w, j, m))
      /\ Forced(w, n, x, m) /\ Pair(w, x, m, n)
  <2>1. m \in 1..n /\ n \in 1..n /\ \A j \in 1..m : j \in 1..n
    BY <1>1
  <2> QED
    BY <1>4, <2>1 DEF Ready, Jumps, Met, Meets
<1> HIDE DEF m, n, w, x
<1>8. g.contflag => breaks = 0 /\ ~retflag
  BY <1>4, <1>5, <1>6, <1>7 DEF Waits
<1>9. contflag /\ breaks = 0 /\ g.breaks > 0 => g.contflag
  <2>1. SUFFICES ASSUME contflag, breaks = 0, g.breaks > 0 PROVE g.contflag
    OBVIOUS
  <2>2. TrapWaits(w, n)
    BY <1>5, <1>7, <2>1 DEF Clean
  <2>3. PICK j \in 1..(n - 1) : w[j].kind = "trap" /\ w[j].saved.contflag
    BY <2>2 DEF TrapWaits
  <2>4. j \in 1..m
    BY <1>1, <1>4 DEF m
  <2>5. CASE j = m
    BY <1>6, <2>3, <2>5
  <2>6. CASE j # m
    <3>1. j < m
      BY <1>1, <2>4, <2>6
    <3>2. g.breaks = 0
      BY <1>6, <1>7, <2>3, <2>4, <3>1 DEF Waits, Holds
    <3> QED
      BY <2>1, <3>2
  <2> QED
    BY <2>5, <2>6
<1>10. Top.kind = "try" => "int" \notin errflag
  BY <1>4, <1>5, <1>6, <1>7 DEF Pair, Calm
<1>11. \A k \in (m + 1)..(n - 1) : FALSE
  BY <1>1, <1>4 DEF m
<1>12. Top.kind = "trap" /\ retflag => Top.trap_return # NoReturn \/ g.retflag
  <2>1. Reaches(w, x, m, n)
    BY <1>11 DEF Reaches
  <2> QED
    BY <1>4, <1>5, <1>6, <1>7, <2>1 DEF Pair, Heard
<1>13. Top.trap_return # NoReturn => retflag
  BY <1>4, <1>5, <1>6, <1>7 DEF Forced, Returns
<1>14. Top.kind = "trap" /\ g.contflag => contflag
  BY <1>4, <1>5, <1>6, <1>7, <1>11 DEF Pair, Carried
<1> QED
  BY <1>2, <1>3, <1>8, <1>9, <1>10, <1>12, <1>13, <1>14

LEMMA AlwaysEndShows ==
    ASSUME Step, AlwaysEnd
    PROVE  Promise!AlwaysEnd
<1> DEFINE g == Top.saved
           H == Going(g.retflag, g.breaks, g.contflag)
<1>1. /\ In({"try"}) /\ pc = "next" /\ pc' = "ran" /\ Pop /\ exit_level' = exit_level
      /\ Top.kind = "try" /\ Top.at = "always"
      /\ errflag' \in SUBSET g.errflag
      /\ retflag' = (retflag \/ g.retflag)
      /\ breaks' = IF breaks = 0 THEN g.breaks ELSE breaks
      /\ contflag' = (contflag \/ g.contflag)
  BY DEF AlwaysEnd, ListEnd, In
<1>2. Promise!AtEnd({"try"}) /\ Promise!Top.at = "always"
  BY <1>1, AtEndIs
<1>3. Promise!Leave /\ Exiting' = Exiting
  BY <1>1, LeaveIs DEF Exiting
<1>4. Holds(Top)
  BY <1>1 DEF Holds
<1> HIDE DEF g
<1>5. /\ g.retflag \in BOOLEAN /\ g.breaks \in Nat /\ g.contflag \in BOOLEAN
      /\ g.errflag \in SUBSET {"error", "int"}
      /\ Promise!Top.held = [jump |-> H, failed |-> Fails(g.errflag)]
      /\ g.contflag => breaks = 0 /\ ~retflag
      /\ contflag /\ breaks = 0 /\ g.breaks > 0 => g.contflag
      /\ "int" \notin errflag
  BY <1>1, <1>4, Holding DEF g
<1>6. /\ Jumping = Going(retflag, breaks, contflag) /\ Failing = Fails(errflag)
      /\ Jumping' = Going(retflag', breaks', contflag') /\ Failing' = Fails(errflag')
      /\ retflag \in BOOLEAN /\ breaks \in Nat /\ contflag \in BOOLEAN
      /\ errflag \in SUBSET {"error", "int"}
  BY StepTypes
<1>7. Jumping' = IF Jumping = Promise!None \/ H = Promise!Return THEN H ELSE Jumping
  <2>1. CASE g.retflag
    <3>1. H = Promise!Return
      BY <2>1 DEF Going
    <3>2. Jumping' = Promise!Return
      BY <1>1, <1>6, <2>1 DEF Going
    <3> QED
      BY <3>1, <3>2
  <2>2. CASE ~g.retflag /\ retflag
    <3>1. Jumping = Promise!Return /\ Jumping' = Promise!Return
      BY <1>1, <1>6, <2>2 DEF Going
    <3>2. Promise!Return # Promise!None
      BY DEF Promise!Return, Promise!None
    <3> QED
      BY <3>1, <3>2
  <2>3. CASE ~g.retflag /\ ~retflag /\ breaks = 0
    <3>1. Jumping = Promise!None
      BY <1>6, <2>3 DEF Going
    <3>2. ~retflag' /\ breaks' = g.breaks
      BY <1>1, <2>3
    <3>3. CASE g.breaks = 0
      <4>1. H = Promise!None
        BY <2>3, <3>3 DEF Going
      <4>2. Jumping' = Promise!None
        BY <1>6, <3>2, <3>3 DEF Going
      <4> QED
        BY <3>1, <4>1, <4>2
    <3>4. CASE g.breaks # 0
      <4>1. contflag' <=> g.contflag
        <5>1. g.breaks > 0
          BY <1>5, <3>4
        <5>2. contflag => g.contflag
          BY <1>5, <2>3, <5>1
        <5> QED
          BY <1>1, <5>2
      <4>2. Jumping' = H
        BY <1>6, <2>3, <3>2, <4>1 DEF Going
      <4> QED
        BY <3>1, <4>2
    <3> QED
      BY <3>3, <3>4
  <2>4. CASE ~g.retflag /\ ~retflag /\ breaks # 0
    <3>1. ~g.contflag
      BY <1>5, <2>4
    <3>2. ~retflag' /\ breaks' = breaks /\ (contflag' <=> contflag)
      BY <1>1, <2>4, <3>1
    <3>3. Jumping' = Jumping
      BY <1>6, <2>4, <3>2 DEF Going
    <3>4. Jumping # Promise!None
      <4>1. Going(retflag, breaks, contflag) = Promise!None <=> ~retflag /\ breaks = 0
        BY <1>6, GoingIs
      <4> QED
        BY <1>6, <2>4, <4>1
    <3>5. H # Promise!Return
      <4>1. H = Promise!Return <=> g.retflag
        BY <1>5, GoingIs
      <4> QED
        BY <2>4, <4>1
    <3> QED
      BY <3>3, <3>4, <3>5
  <2> QED
    BY <1>5, <1>6, <2>1, <2>2, <2>3, <2>4
<1>8. \E reset \in SUBSET Fails(g.errflag) :
         Failing' = (Fails(g.errflag) \ reset) \cup (Failing \ {"error"})
  <2> DEFINE R == Fails(g.errflag) \ Fails(errflag')
  <2>1. Failing \ {"error"} = {}
    <3>1. Fails(errflag) \subseteq {"error", "interrupt"}
          /\ ("interrupt" \in Fails(errflag) <=> "int" \in errflag)
      BY <1>6, FailsIs
    <3> QED
      BY <1>5, <1>6, <3>1
  <2>2. Fails(errflag') \subseteq Fails(g.errflag)
    BY <1>1 DEF Fails
  <2>3. Failing' = (Fails(g.errflag) \ R) \cup (Failing \ {"error"})
    BY <1>6, <2>1, <2>2
  <2> QED
    BY <2>3
<1> HIDE DEF H
<1>9. Promise!Top.held.jump = H /\ Promise!Top.held.failed = Fails(g.errflag)
  BY <1>5
<1> QED
  BY <1>1, <1>2, <1>3, <1>7, <1>8, <1>9
  DEF Promise!AlwaysEnd, Opened, Jumping, Failing, Exiting, Doing

LEMMA SourceEndShows ==
    ASSUME Step, SourceEnd
    PROVE  Promise!SourceEnd
<1>1. /\ In({"source"}) /\ pc = "next" /\ pc' = "ran" /\ Pop /\ exit_level' = exit_level
      /\ errflag' = errflag \ {"error"}
      /\ retflag' = (retflag /\ exit_level > 0)
      /\ breaks' = breaks /\ contflag' = contflag
  BY DEF SourceEnd, ListEnd, In
<1>2. Promise!AtEnd({"source"}) /\ Promise!Leave /\ Exiting' = Exiting
  BY <1>1, AtEndIs, LeaveIs DEF Exiting
<1>3. Failing' = Failing \ {"error"}
  <2>1. Fails(errflag \ {"error"}) = Fails(errflag) \ {"error"}
    BY StepTypes, FailsIs
  <2> QED
    BY <1>1, <2>1, StepTypes
<1>4. CASE exit_level > 0
  <2>1. Jumping' = Jumping
    <3>1. retflag' <=> retflag
      BY <1>1, <1>4
    <3> QED
      BY <1>1, <3>1, StepTypes DEF Going
  <2>2. Exiting
    BY <1>4 DEF Exiting
  <2> QED
    BY <1>2, <1>3, <2>1, <2>2 DEF Promise!SourceEnd, Opened, Jumping, Failing, Exiting, Doing
<1>5. CASE ~(exit_level > 0)
  <2>1. loops = 0
    <3> DEFINE m == Len(stack)
               k == m - 1
    <3>1. m \in 1..MaxDepth /\ stack[m].kind = "source" /\ MaxDepth \in Nat
      BY <1>1, TopFrame, StepTypes, Types
    <3>2. k \in Nat /\ m = k + 1
      BY <3>1
    <3>3. loops = Depth(stack, m)
      BY Types, StepTypes DEF StackOK
    <3> HIDE DEF m, k
    <3>4. "source" \notin LoopKinds
      BY DEF LoopKinds
    <3> QED
      BY <3>1, <3>2, <3>3, <3>4, DepthStep
  <2>2. breaks' = 0 /\ ~retflag'
    <3>1. breaks = 0
      BY <2>1, StepTypes
    <3> QED
      BY <1>1, <1>5, <3>1
  <2>3. Jumping' = Promise!None
    BY <2>2, StepTypes DEF Going
  <2>4. ~Exiting
    BY <1>5 DEF Exiting
  <2> QED
    BY <1>2, <1>3, <2>3, <2>4 DEF Promise!SourceEnd, Opened, Jumping, Failing, Exiting, Doing
<1> QED
  BY <1>4, <1>5

-----------------------------------------------------------------------------
(* The end of a function.                                                  *)

\* The functions are entered one by one.
LEMMA LevelReached ==
    ASSUME NEW w
    PROVE  \A k \in Nat : \A x \in 1..Level(w, k) :
               \E i \in 1..k : w[i].kind = "function" /\ Level(w, i) = x
<1> DEFINE Goal(k) == \A x \in 1..Level(w, k) :
                          \E i \in 1..k : w[i].kind = "function" /\ Level(w, i) = x
           S == {k \in Nat : Goal(k)}
<1>1. 0 \in S
  <2>1. Level(w, 0) = 0
    <3>1. {k \in 1..0 : w[k].kind = "function"} = {}
      OBVIOUS
    <3> QED
      BY <3>1, FS_EmptySet DEF Level
  <2> QED
    BY <2>1
<1>2. ASSUME NEW k \in Nat, k \in S PROVE k + 1 \in S
  <2> DEFINE n == k + 1
  <2>1. n \in Nat /\ (\A i \in 1..k : i \in 1..n) /\ n \in 1..n /\ Goal(k)
    BY <1>2
  <2> HIDE DEF n, Goal
  <2>2. CASE w[n].kind = "function"
    <3>1. Level(w, n) = Level(w, k) + 1 /\ Level(w, k) \in Nat
      <4>1. n = k + 1
        BY DEF n
      <4> QED
        BY <2>2, <4>1, LevelStep, LevelGrows
    <3>2. ASSUME NEW x \in 1..Level(w, n)
          PROVE  \E i \in 1..n : w[i].kind = "function" /\ Level(w, i) = x
      <4>1. CASE x = Level(w, n)
        BY <2>1, <2>2, <4>1
      <4>2. CASE x # Level(w, n)
        <5>1. x \in 1..Level(w, k)
          BY <3>1, <4>2
        <5> QED
          BY <2>1, <5>1 DEF Goal
      <4> QED
        BY <4>1, <4>2
    <3> QED
      BY <2>1, <3>2 DEF Goal, n
  <2>3. CASE w[n].kind # "function"
    <3>1. {i \in 1..n : w[i].kind = "function"} = {i \in 1..k : w[i].kind = "function"}
      BY <2>3 DEF n
    <3>2. Level(w, n) = Level(w, k)
      BY <3>1 DEF Level
    <3> QED
      BY <2>1, <3>2 DEF Goal, n
  <2> QED
    BY <2>2, <2>3
<1> HIDE DEF S
<1>3. \A k \in Nat : k \in S
  BY <1>1, <1>2, Induction
<1> QED
  BY <1>3 DEF S

\* An exit called further out than this function waits for it to end.
LEMMA ExitHeld ==
    ASSUME Step, In({"function"}), exit_level > 0, ~(exit_level >= locallevel)
    PROVE  Promise!ReturnHeld
<1> DEFINE m == Len(stack)
           n == m + 1
           w == All
           x == exit_level
<1>1. m \in 1..MaxDepth /\ Top = stack[m] /\ Top.kind = "function" /\ MaxDepth \in Nat
  BY TopFrame, Types, StepTypes
<1>2. /\ x \in Nat /\ x > 0 /\ locallevel \in Nat /\ x < locallevel
      /\ m \in 1..m /\ n = m + 1 /\ m \in Nat
  BY <1>1, Levels, StepTypes
<1>3. (\A i \in 1..m : w[i] = stack[i] /\ stack[i] \in Frame) /\ Jumps(w, n, x)
  BY Here, StepTypes DEF Ready
<1>4. Level(w, m) = locallevel
  <2>1. DOMAIN stack = 1..m
    BY Types, StepTypes
  <2>2. Frames({"function"}) = {k \in 1..m : w[k].kind = "function"}
    BY <1>3, <2>1 DEF Frames
  <2> QED
    BY <2>2 DEF locallevel, Level
<1>5. w[m].kind = "function"
  BY <1>1, <1>2, <1>3
<1>6. DOMAIN stack = 1..m
  BY Types, StepTypes
<1> HIDE DEF m, n, w, x
<1>7. PICK i \in 1..m : w[i].kind = "function" /\ Level(w, i) = x
  <2>1. x \in 1..Level(w, m)
    BY <1>2, <1>4
  <2> QED
    BY <1>2, <2>1, LevelReached
<1>8. i < m
  BY <1>1, <1>2, <1>4, <1>7
\* Nothing gets past this function.
<1>9. ASSUME NEW h \in 1..m, h < m PROVE ~Clear(w, x, h, n)
  <2>1. m \in (h + 1)..(n - 1)
    BY <1>2, <1>9
  <2>2. ~(Level(w, m) <= x)
    BY <1>2, <1>4
  <2> QED
    BY <1>5, <2>1, <2>2 DEF Clear
<1>10. PICK j \in (i + 1)..n : Leaves(w, x, i, j)
  <2>1. Exits(w, n, x, i)
    <3>1. i \in 1..n
      BY <1>2
    <3> QED
      BY <1>3, <3>1 DEF Jumps
  <2>2. Level(w, i) <= x
    BY <1>2, <1>7
  <2> QED
    BY <1>7, <2>1, <2>2 DEF Exits
<1>11. j \in 1..m
  <2>1. j # n
    BY <1>8, <1>9, <1>10 DEF Leaves
  <2> QED
    BY <1>2, <2>1
<1>12. \E k \in 1..m : Holds(w[k]) /\ w[k].saved.retflag
  <2>1. CASE w[j].saved.retflag
    BY <1>10, <1>11, <2>1 DEF Leaves
  <2>2. CASE w[j].trap_return # NoReturn
    <3>1. Forced(w, n, x, j)
      <4>1. j \in 1..n
        BY <1>2, <1>11
      <4> QED
        BY <1>3, <4>1 DEF Jumps
    <3>2. w[j].kind = "trap"
      BY <2>2, <3>1 DEF Forced
    <3>3. j < m
      BY <1>1, <1>2, <1>5, <1>11, <3>2
    <3>4. PICK k \in (j + 1)..n : Returns(w, x, j, k)
      BY <2>2, <3>1 DEF Forced
    <3>5. k # n
      BY <1>9, <1>11, <3>3, <3>4 DEF Returns
    <3>6. k \in 1..m
      BY <1>2, <1>11, <3>5
    <3> QED
      BY <3>4, <3>6 DEF Returns
  <2> QED
    BY <1>10, <2>1, <2>2 DEF Leaves
<1>13. PICK k \in 1..m : Holds(w[k]) /\ w[k].saved.retflag
  BY <1>12
<1>14. w[k] = stack[k] /\ stack[k] \in Frame
  BY <1>3
<1>15. PlaceOf(stack[k]).held.jump = Promise!Return
  <2>1. Holds(stack[k]) /\ stack[k].saved.retflag
    BY <1>13, <1>14
  <2> DEFINE f == stack[k]
  <2> HIDE DEF f
  <2>2. f \in Frame /\ Holds(f) /\ f.saved.retflag
    BY <1>14, <2>1 DEF f
  <2> DEFINE J == Going(f.saved.retflag, f.saved.breaks, f.saved.contflag)
             F == Fails(f.saved.errflag)
  <2>5. PlaceOf(f).held = [jump |-> J, failed |-> F]
    BY <2>2, ShownFrame
  <2>3. PlaceOf(f).held.jump = J
    <3> HIDE DEF J, F
    <3> QED
      BY <2>5
  <2>4. PlaceOf(f).held.jump = Promise!Return
    BY <2>2, <2>3 DEF Going
  <2> QED
    BY <2>4 DEF f
<1>16. k \in DOMAIN Opened /\ Opened[k] = PlaceOf(stack[k])
  BY <1>6 DEF Opened
<1>17. Opened[k].held.jump = Promise!Return
  BY <1>15, <1>16
<1> QED
  BY <1>16, <1>17 DEF Promise!ReturnHeld, Opened

LEMMA FunctionEndShows ==
    ASSUME Step, NEW local \in BOOLEAN, FunctionEnd(local)
    PROVE  Promise!FunctionEnd
<1> DEFINE exits == exit_level >= locallevel
           m == Len(stack)
<1>1. In({"function"}) /\ pc = "next" /\ Pop /\ UNCHANGED <<errflag, exit_level>>
  BY DEF FunctionEnd, ListEnd, In
<1>2. locallevel \in Nat \ {0} /\ exit_level \in Nat
  <2>1. Frames({"function"}) # {}
    <3>1. m \in DOMAIN stack /\ stack[m].kind = "function"
      BY <1>1, TopFrame, Types, StepTypes
    <3> QED
      BY <3>1 DEF Frames
  <2> QED
    BY <2>1, SomeOpen, StepTypes DEF locallevel
<1>3. /\ retflag' <=> exits /\ locallevel > 1
      /\ exits /\ locallevel = 1 => pc' = "done"
      /\ ~(exits /\ locallevel = 1) => pc' = "ran"
      /\ ~(exits /\ locallevel > 1) =>
            breaks' = IF local \/ retflag THEN Top.saved.breaks ELSE breaks
      /\ ~local => contflag' = contflag
  <2>1. exits => exit_level > 0
    BY <1>2
  <2> DEFINE out == exit_level > 0 /\ exit_level >= locallevel
  <2>2. out <=> exits
    BY <2>1
  <2>3. /\ retflag' = (out /\ locallevel > 1)
        /\ pc' = IF out /\ locallevel = 1 THEN "done" ELSE "ran"
        /\ breaks' = CASE out /\ locallevel > 1 -> IF local THEN Top.saved.loops ELSE loops
                       [] local \/ retflag        -> Top.saved.breaks
                       [] OTHER                   -> breaks
        /\ contflag' = IF local THEN Top.saved.contflag ELSE contflag
    BY DEF FunctionEnd
  <2> HIDE DEF exits, out
  <2>4. retflag' <=> exits /\ locallevel > 1
    BY <2>2, <2>3
  <2>5. /\ exits /\ locallevel = 1 => pc' = "done"
        /\ ~(exits /\ locallevel = 1) => pc' = "ran"
    BY <2>2, <2>3
  <2>6. ~(exits /\ locallevel > 1) =>
            breaks' = IF local \/ retflag THEN Top.saved.breaks ELSE breaks
    BY <2>2, <2>3
  <2>7. ~local => contflag' = contflag
    BY <2>3
  <2> QED
    BY <2>4, <2>5, <2>6, <2>7
<1>4. Promise!AtEnd({"function"}) /\ Failing' = Failing /\ Exiting' = Exiting
  BY <1>1, AtEndIs, StepTypes DEF Exiting
<1>5. Top.saved.breaks = 0
  <2>1. m \in 1..(m + 1) /\ All[m] = Top /\ Top.kind = "function"
    <3>1. m \in Nat /\ \A i \in 1..m : All[i] = stack[i]
      BY Here, StepTypes
    <3>2. m \in 1..MaxDepth /\ Top = stack[m] /\ Top.kind = "function" /\ MaxDepth \in Nat
      BY <1>1, TopFrame, Types, StepTypes
    <3> QED
      BY <3>1, <3>2
  <2> QED
    BY <2>1, StepTypes DEF Ready, Jumps, Called
<1>6. exits => retflag
  BY <1>1, ExitReturns, StepTypes
<1>7. retflag => Jumping = Promise!Return
  BY StepTypes DEF Going
<1>8. Exiting <=> exit_level > 0
  BY DEF Exiting
<1>9. CASE exits /\ locallevel > 1
  <2>1. Jumping = Promise!Return /\ Jumping' = Promise!Return
    BY <1>3, <1>6, <1>7, <1>9, StepTypes DEF Going
  <2>2. Promise!Leave
    <3>1. pc' = "ran"
      BY <1>3, <1>9
    <3> QED
      BY <1>1, <3>1, LeaveIs
  <2>3. Exiting
    BY <1>2, <1>8, <1>9
  <2>4. Promise!Count({"function"}) > 1
    BY <1>9, ShownCount, StepTypes DEF locallevel
  <2> QED
    BY <1>4, <2>1, <2>2, <2>3, <2>4
    DEF Promise!FunctionEnd, Opened, Jumping, Failing, Exiting, Doing
<1>10. CASE exits /\ ~(locallevel > 1)
  <2>1. locallevel = 1
    BY <1>2, <1>10
  <2>2. Jumping = Promise!Return /\ breaks' = 0 /\ ~retflag' /\ pc' = "done"
    BY <1>3, <1>5, <1>6, <1>7, <1>10, <2>1
  <2>3. Jumping' = Promise!None
    BY <2>2, StepTypes DEF Going
  <2>4. Opened' = Promise!Outer /\ Doing' = "over"
    BY <1>1, <2>2, ShownPop, StepTypes, DoingThen DEF In
  <2>5. Exiting
    BY <1>2, <1>8, <1>10
  <2>6. ~(Promise!Count({"function"}) > 1)
    BY <1>10, ShownCount, StepTypes DEF locallevel
  <2> QED
    BY <1>4, <2>2, <2>3, <2>4, <2>5, <2>6
    DEF Promise!FunctionEnd, Opened, Jumping, Failing, Exiting, Doing
<1>11. CASE ~exits
  <2>1. Promise!Leave
    <3>1. pc' = "ran"
      BY <1>3, <1>11
    <3> QED
      BY <1>1, <3>1, LeaveIs
  <2>2. ~retflag' /\ breaks' = IF local \/ retflag THEN 0 ELSE breaks
    BY <1>3, <1>5, <1>11
  <2>3. CASE retflag
    <3>1. Jumping' = Promise!None
      BY <2>2, <2>3, StepTypes DEF Going
    <3>2. Exiting => Promise!ReturnHeld
      BY <1>1, <1>8, <1>11, ExitHeld
    <3> QED
      BY <1>4, <1>7, <2>1, <2>3, <3>1, <3>2
      DEF Promise!FunctionEnd, Opened, Jumping, Failing, Exiting, Doing
  <2>4. CASE ~retflag
    <3>1. Jumping # Promise!Return
      <4>1. Going(retflag, breaks, contflag) = Promise!Return <=> retflag
        BY StepTypes, GoingIs
      <4> QED
        BY <2>4, <4>1, StepTypes
    <3>2. Jumping' \in {Jumping, Promise!None}
      <4>1. CASE local
        BY <2>2, <4>1, StepTypes DEF Going
      <4>2. CASE ~local
        BY <1>3, <2>2, <2>4, <4>2, StepTypes DEF Going
      <4> QED
        BY <4>1, <4>2
    <3> QED
      BY <1>4, <2>1, <3>1, <3>2
      DEF Promise!FunctionEnd, Opened, Jumping, Failing, Exiting, Doing
  <2> QED
    BY <2>3, <2>4
<1> QED
  BY <1>9, <1>10, <1>11

-----------------------------------------------------------------------------
(* Signals.                                                                *)

LEMMA TrapBeginsShows ==
    ASSUME Step, TrapBegins
    PROVE  Promise!TrapBegins
<1> DEFINE f == New("trap", "body", Saved)
<1>1. /\ pc = "next" /\ pc' = "next" /\ errflag = {} /\ errflag' = errflag
      /\ Frames({"trap"}) = {} /\ Push(f) /\ breaks' = 0 /\ ~retflag'
      /\ exit_level' = exit_level
  BY DEF TrapBegins
<1>2. f \in Frame /\ f.kind = "trap" /\ f.at = "body" /\ f.saved = Saved
  <2>1. Saved \in Flags /\ "trap" \in Kinds /\ "body" \in Places
    BY SavedTypes, StepTypes DEF Kinds, Places
  <2> QED
    BY <2>1, NewFrame
<1> HIDE DEF f
<1>3. PlaceOf(f) = Promise!Open("trap", "body", Promise!Pending)
  <2>1. Holds(f)
    BY <1>2 DEF Holds
  <2>2. PlaceOf(f).held = [jump |-> Going(Saved.retflag, Saved.breaks, Saved.contflag),
                           failed |-> Fails(Saved.errflag)]
    BY <1>2, <2>1, ShownFrame
  <2>3. PlaceOf(f).held = [jump |-> Jumping, failed |-> Failing]
    BY <2>2, StepTypes DEF Saved
  <2>4. PlaceOf(f).held = Promise!Pending
    BY <2>3 DEF Promise!Pending, Jumping, Failing
  <2> QED
    BY <1>2, <2>4, ShownFrame
<1>4. Opened' = Append(Opened, PlaceOf(f)) /\ Len(Opened) < MaxDepth
  BY <1>1, <1>2, ShownPush, StepTypes
<1>5. Promise!Count({"trap"}) = 0
  BY <1>1, ShownCount, SomeOpen, StepTypes
<1>6. Failing = {} /\ Failing' = Failing /\ Exiting' = Exiting
  BY <1>1, StepTypes, FailsIs DEF Exiting
<1>7. Jumping' = Promise!None
  BY <1>1, StepTypes DEF Going
<1>8. Doing = "next" /\ Doing' = Doing
  BY <1>1, DoingIs, DoingThen
<1>9. Opened' = Append(Opened, Promise!Open("trap", "body", Promise!Pending))
  BY <1>3, <1>4
<1> QED
  BY <1>4, <1>5, <1>6, <1>7, <1>8, <1>9
  DEF Promise!TrapBegins, Opened, Jumping, Failing, Exiting, Doing

\* The jump after a trap: J was pending in it, H when it began.
MetJump(J, H, loopjumps) ==
    CASE J = Promise!None                           -> {H}
      [] J = Promise!Return \/ H = Promise!Return   -> {Promise!Return}
      [] H = Promise!None                           -> {J}
      [] OTHER -> {m \in loopjumps : m.n >= J.n /\ m.how \in {J.how, H.how}}

LEMMA TrapEndJump ==
    ASSUME Step, TrapEnd, NEW g, g = Top.saved
    PROVE  LET H == Going(g.retflag, g.breaks, g.contflag)
           IN  Jumping' \in MetJump(Jumping, H, UNION {Promise!LoopJump(n) : n \in 1..loops})
<1> DEFINE H == Going(g.retflag, g.breaks, g.contflag)
           L == UNION {Promise!LoopJump(n) : n \in 1..loops}
<1>1. /\ In({"trap"}) /\ Top.kind = "trap" /\ Pop /\ contflag' = contflag
      /\ \/ Top.trap_return # NoReturn /\ retflag'
         \/ /\ Top.trap_return = NoReturn /\ retflag' = g.retflag
            /\ breaks' = Least(breaks + g.breaks, loops)
  BY DEF TrapEnd, ListEnd, In
<1>2. Holds(Top)
  BY <1>1 DEF Holds
<1>3. /\ g.retflag \in BOOLEAN /\ g.breaks \in Nat /\ g.contflag \in BOOLEAN
      /\ g.contflag => breaks = 0 /\ ~retflag
      /\ contflag /\ breaks = 0 /\ g.breaks > 0 => g.contflag
      /\ retflag => Top.trap_return # NoReturn \/ g.retflag
      /\ Top.trap_return # NoReturn => retflag
      /\ g.contflag => contflag
  BY <1>1, <1>2, Holding
<1>4. g.breaks <= loops
  <2>1. Top.kind \notin LoopKinds /\ Top.kind # "source"
    BY <1>1 DEF LoopKinds
  <2> QED
    BY <1>1, <1>2, <2>1, PoppedTop, StepTypes
<1>5. /\ Jumping = Going(retflag, breaks, contflag)
      /\ Jumping' = Going(retflag', breaks', contflag')
      /\ retflag \in BOOLEAN /\ breaks \in Nat /\ contflag \in BOOLEAN
      /\ retflag' \in BOOLEAN /\ breaks' \in Nat
      /\ loops \in Nat /\ breaks <= loops
  BY StepTypes
<1>6. /\ Jumping = Promise!None <=> ~retflag /\ breaks = 0
      /\ Jumping = Promise!Return <=> retflag
      /\ H = Promise!None <=> ~g.retflag /\ g.breaks = 0
      /\ H = Promise!Return <=> g.retflag
      /\ Promise!Return # Promise!None
  <2>1. /\ Going(retflag, breaks, contflag) = Promise!None <=> ~retflag /\ breaks = 0
        /\ Going(retflag, breaks, contflag) = Promise!Return <=> retflag
    BY <1>5, GoingIs
  <2>2. /\ H = Promise!None <=> ~g.retflag /\ g.breaks = 0
        /\ H = Promise!Return <=> g.retflag
    BY <1>3, GoingIs
  <2>3. Promise!Return # Promise!None
    BY DEF Promise!Return, Promise!None
  <2> QED
    BY <1>5, <2>1, <2>2, <2>3
<1>7. CASE retflag \/ g.retflag
  <2>1. retflag' /\ (Jumping = Promise!None => H = Promise!Return)
    BY <1>1, <1>3, <1>6, <1>7
  <2>2. Jumping' = Promise!Return
    BY <1>5, <2>1 DEF Going
  <2>3. Jumping = Promise!Return \/ H = Promise!Return
    BY <1>6, <1>7
  <2> HIDE DEF H, L
  <2>4. Jumping' \in MetJump(Jumping, H, L)
    <3>1. CASE Jumping = Promise!None
      <4>1. MetJump(Jumping, H, L) = {H}
        BY <1>6, <2>1, <3>1 DEF MetJump
      <4> QED
        BY <2>1, <2>2, <3>1, <4>1
    <3>2. CASE Jumping # Promise!None
      <4>1. MetJump(Jumping, H, L) = {Promise!Return}
        BY <1>6, <2>3, <3>2 DEF MetJump
      <4> QED
        BY <2>2, <4>1
    <3> QED
      BY <3>1, <3>2
  <2> QED
    BY <2>4 DEF H, L
<1>8. CASE ~retflag /\ ~g.retflag
  <2>1. ~retflag' /\ breaks' = Least(breaks + g.breaks, loops) /\ contflag' = contflag
    BY <1>1, <1>3, <1>8
  <2>2. ~(Jumping = Promise!Return \/ H = Promise!Return)
    BY <1>6, <1>8
  <2>3. CASE breaks = 0
    <3>1. breaks' = g.breaks
      BY <1>3, <1>4, <1>5, <2>1, <2>3 DEF Least
    <3>2. Jumping = Promise!None
      BY <1>6, <1>8, <2>3
    <3>3. Jumping' = H
      <4>1. CASE g.breaks = 0
        BY <1>5, <1>8, <2>1, <3>1, <4>1 DEF Going
      <4>2. CASE g.breaks # 0
        <5>1. g.breaks > 0
          BY <1>3, <4>2
        <5>2. contflag' <=> g.contflag
          BY <1>3, <2>1, <2>3, <5>1
        <5> QED
          BY <1>5, <1>8, <2>1, <3>1, <5>2 DEF Going
      <4> QED
        BY <4>1, <4>2
    <3> HIDE DEF H, L
    <3>4. Jumping' \in MetJump(Jumping, H, L)
      BY <2>2, <3>2, <3>3 DEF MetJump
    <3> QED
      BY <3>4 DEF H, L
  <2>4. CASE breaks # 0 /\ g.breaks = 0
    <3>1. breaks' = breaks
      BY <1>3, <1>5, <2>1, <2>4 DEF Least
    <3>2. H = Promise!None /\ Jumping # Promise!None
      BY <1>6, <1>8, <2>4
    <3>3. Jumping' = Jumping
      BY <1>5, <1>8, <2>1, <3>1 DEF Going
    <3> HIDE DEF H, L
    <3>4. Jumping' \in MetJump(Jumping, H, L)
      BY <2>2, <3>2, <3>3 DEF MetJump
    <3> QED
      BY <3>4 DEF H, L
  <2>5. CASE breaks # 0 /\ g.breaks # 0
    <3>1. breaks' >= breaks /\ breaks' \in 1..loops
      BY <1>3, <1>5, <2>1, <2>5 DEF Least
    <3>2. H # Promise!None /\ Jumping # Promise!None
      BY <1>6, <1>8, <2>5
    <3> DEFINE how == IF contflag THEN "continue" ELSE "break"
    <3>3. Jumping = [how |-> how, n |-> breaks]
      BY <1>5, <1>8, <2>5 DEF Going
    <3>4. Jumping' = [how |-> how, n |-> breaks']
      BY <1>5, <2>1, <3>1 DEF Going
    <3>5. Jumping' \in L
      <4>1. Jumping' \in Promise!LoopJump(breaks')
        BY <3>4 DEF Promise!LoopJump
      <4> QED
        BY <3>1, <4>1
    <3> HIDE DEF H, L, how
    <3>6. Jumping'.n >= Jumping.n /\ Jumping'.how = Jumping.how
      BY <3>1, <3>3, <3>4
    <3>7. Jumping' \in MetJump(Jumping, H, L)
      BY <2>2, <3>2, <3>5, <3>6 DEF MetJump
    <3> QED
      BY <3>7 DEF H, L
  <2> QED
    BY <2>3, <2>4, <2>5
<1> QED
  BY <1>3, <1>5, <1>7, <1>8

LEMMA TrapEndShows ==
    ASSUME Step, TrapEnd
    PROVE  Promise!TrapEnd
<1> DEFINE g == Top.saved
           H == Going(g.retflag, g.breaks, g.contflag)
           L == UNION {Promise!LoopJump(n) : n \in 1..loops}
<1>1. /\ In({"trap"}) /\ pc = "next" /\ pc' = "next" /\ Top.kind = "trap" /\ Pop
      /\ exit_level' = exit_level
      /\ errflag' = errflag \/ (errflag # {} /\ errflag' = errflag \cup {"error"})
  BY DEF TrapEnd, ListEnd, In
<1>2. Promise!AtEnd({"trap"}) /\ Exiting' = Exiting /\ Doing' = "next" /\ Opened' = Promise!Outer
  BY <1>1, AtEndIs, ShownPop, StepTypes, DoingThen DEF Exiting, In
<1>3. Promise!Top.held.jump = H
  <2>1. Holds(Top)
    BY <1>1 DEF Holds
  <2>2. Promise!Top.held = [jump |-> H, failed |-> Fails(g.errflag)]
    BY <1>1, <2>1, Holding
  <2> HIDE DEF H, g
  <2> QED
    BY <2>2
<1>4. Jumping' \in MetJump(Jumping, H, L)
  BY TrapEndJump
<1>5. Failing' \in {Failing} \cup (IF Failing = {} THEN {} ELSE {Failing \cup {"error"}})
  <2>1. CASE errflag' = errflag
    BY <2>1, StepTypes
  <2>2. CASE errflag # {} /\ errflag' = errflag \cup {"error"}
    <3>1. (Fails(errflag) = {} <=> errflag = {})
          /\ Fails(errflag \cup {"error"}) = Fails(errflag) \cup {"error"}
      BY StepTypes, FailsIs
    <3> QED
      BY <2>2, <3>1, StepTypes
  <2> QED
    BY <1>1, <2>1, <2>2
<1>6. L = UNION {Promise!LoopJump(n) : n \in 1..Promise!LoopsOpen}
  BY ShownCount, StepTypes
<1> HIDE DEF H, L
<1> QED
  BY <1>2, <1>3, <1>4, <1>5, <1>6
  DEF Promise!TrapEnd, MetJump, Opened, Jumping, Failing, Exiting, Doing

LEMMA InterruptShows ==
    ASSUME Step, Interrupt
    PROVE  Promise!Interrupt
<1>1. /\ pc = "next" /\ pc' = "next" /\ stack' = stack
      /\ errflag' = errflag \cup {"int"} /\ breaks' \in {breaks, loops}
      /\ contflag' = contflag /\ retflag' = retflag /\ exit_level' = exit_level
  BY DEF Interrupt
<1>2. Opened' = Opened /\ Exiting' = Exiting /\ Doing = "next" /\ Doing' = Doing
  BY <1>1, DoingIs, DoingThen DEF Opened, Exiting
<1>3. Failing' = Failing \cup {"interrupt"}
  <2>1. Fails(errflag \cup {"int"}) = Fails(errflag) \cup {"interrupt"}
    BY StepTypes, FailsIs
  <2> QED
    BY <1>1, <2>1, StepTypes
<1>4. /\ Jumping = Going(retflag, breaks, contflag)
      /\ Jumping' = Going(retflag', breaks', contflag')
      /\ breaks \in Nat /\ loops \in Nat /\ breaks <= loops
  BY StepTypes
<1>5. CASE retflag \/ breaks' = breaks
  <2>1. Jumping' = Jumping
    BY <1>1, <1>4, <1>5 DEF Going
  <2> QED
    BY <1>2, <1>3, <2>1 DEF Promise!Interrupt, Opened, Jumping, Failing, Exiting, Doing
<1>6. CASE ~retflag /\ breaks' # breaks
  <2>1. breaks' = loops /\ loops > 0
    BY <1>1, <1>4, <1>6
  <2>2. Jumping' = [how |-> IF contflag THEN "continue" ELSE "break", n |-> loops]
    BY <1>1, <1>4, <1>6, <2>1 DEF Going
  <2>3. Jumping' \in Promise!LoopJump(Promise!LoopsOpen) /\ Jumping'.n > 0
    BY <2>1, <2>2, ShownCount, StepTypes DEF Promise!LoopJump
  <2>4. Jumping # Promise!Return
    <3>1. Going(retflag, breaks, contflag) = Promise!Return <=> retflag
      BY StepTypes, GoingIs
    <3> QED
      BY <1>4, <1>6, <3>1
  <2> QED
    BY <1>2, <1>3, <2>3, <2>4 DEF Promise!Interrupt, Opened, Jumping, Failing, Exiting, Doing
<1> QED
  BY <1>5, <1>6

-----------------------------------------------------------------------------
(* Every step is one of Completion's, or none.                             *)

LEMMA StepShows ==
    ASSUME Step, Next, ~Ended
    PROVE  Promise!Next
<1>1. CASE PassOver \/ Simple \/ AfterCommand \/ bin_break \/ bin_continue
  BY <1>1, PassOverShows, SimpleShows, AfterCommandShows, JumpShows DEF Promise!Next
<1>2. CASE bin_return \/ bin_exit
  BY <1>2, ReturnShows, ExitShows DEF Promise!Next
<1>3. CASE BeginLoop \/ BeginBlock \/ BeginFunction \/ BeginSource
  BY <1>3, EnterShows DEF Promise!Next
<1>4. CASE BodyEnd \/ CondEnd
  BY <1>4, LoopEndShows DEF Promise!Next
<1>5. CASE IfCondEnd \/ IfEnd
  BY <1>5, IfEndShows DEF Promise!Next
<1>6. CASE TryEnd \/ AlwaysEnd
  BY <1>6, TryEndShows, AlwaysEndShows DEF Promise!Next
<1>7. CASE \E local \in BOOLEAN : FunctionEnd(local)
  BY <1>7, FunctionEndShows DEF Promise!Next
<1>8. CASE SourceEnd \/ ScriptEnd
  BY <1>8, SourceEndShows, ScriptEndShows DEF Promise!Next
<1>9. CASE TrapBegins \/ TrapEnd \/ Interrupt
  BY <1>9, TrapBeginsShows, TrapEndShows, InterruptShows DEF Promise!Next
<1> QED
  BY <1>1, <1>2, <1>3, <1>4, <1>5, <1>6, <1>7, <1>8, <1>9 DEF Next

LEMMA BeginningShows == Init => Promise!Init
<1> SUFFICES ASSUME Init PROVE Promise!Init
  OBVIOUS
<1>1. IInv
  BY InitHolds
<1>2. /\ stack = <<>> /\ pc = "next" /\ breaks = 0 /\ ~retflag /\ errflag = {}
      /\ exit_level = 0
  BY DEF Init
<1>3. Opened = <<>>
  BY <1>1, <1>2, OpenedIs
<1>4. Jumping = Promise!None
  BY <1>1, <1>2, ShownNow DEF Going
<1>5. Failing = {}
  BY <1>1, <1>2, ShownNow, FailsIs
<1>6. Doing = "next"
  BY <1>2, DoingIs
<1>7. Exiting = FALSE
  BY <1>2 DEF Exiting
<1> QED
  BY <1>3, <1>4, <1>5, <1>6, <1>7 DEF Promise!Init, Opened, Jumping, Failing, Exiting, Doing

\* The invariant of scripts with none of those combinations: the flags and
\* everything that always lists and traps hold back fit together, so that each
\* of them finds at its end what a single value for what is pending would say
\* (exectry(), dotrapargs()).
THEOREM HeldFlagsFit ==
    ASSUME Untroubled
    PROVE  Spec => []RInv
<1>1. Init => RInv
  BY RefinedBegins
<1>2. RInv /\ [Next]_vars => RInv'
  BY RefinedKeeps
<1> QED
  BY <1>1, <1>2, PTL DEF Spec

\* The executor keeps what Completion promises, for stacks of any depth: in
\* scripts with none of the combinations every step of the four flags is a step
\* of the one value for what is pending, so that a command is left towards the
\* construct its break, continue, return, exit, error or interrupt is meant for,
\* through every always list and trap on the way (execlist(), loop.c,
\* exectry(), doshfunc(), source(), dotrapargs()).
THEOREM CompletionImplemented ==
    ASSUME Untroubled
    PROVE  Spec => ImplementsCompletion
<1>1. Init => RInv /\ Promise!Init
  BY RefinedBegins, BeginningShows
<1>2. RInv /\ [Next]_vars => RInv' /\ [Promise!Next]_(Promise!vars)
  <2> SUFFICES ASSUME RInv, [Next]_vars PROVE RInv' /\ [Promise!Next]_(Promise!vars)
    OBVIOUS
  <2>1. RInv'
    BY RefinedKeeps
  <2>2. CASE UNCHANGED vars
    <3>1. UNCHANGED Promise!vars
      BY <2>2 DEF Promise!vars, vars, Saved
    <3> QED
      BY <2>1, <3>1
  <2>3. CASE Next /\ ~UNCHANGED vars
    <3>1. Met /\ ~Ended
      BY <2>3, InProgress
    <3>2. Step
      BY <2>1, <3>1 DEF Step, RInv, JInv
    <3>3. Promise!Next
      BY <2>3, <3>1, <3>2, StepShows
    <3> QED
      BY <2>1, <3>3
  <2> QED
    BY <2>2, <2>3
<1> QED
  BY <1>1, <1>2, PTL DEF Spec, ImplementsCompletion, Promise!Spec
=============================================================================
