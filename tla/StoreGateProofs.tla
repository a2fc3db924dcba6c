-------------------------- MODULE StoreGateProofs --------------------------
(***************************************************************************)
(* Proofs about StoreGate for any number of goroutines, closers and         *)
(* resetters and any nesting depth.  The properties are not inductive by    *)
(* themselves: they rest on GateInv, which says that the counter counts the *)
(* frames inside and that the channel tells the truth about the counter.    *)
(***************************************************************************)
EXTENDS StoreGate, FiniteSetTheorems, TLAPS

\* inflight is the number of frames inside the gate.
CounterInv ==
    /\ IsFiniteSet(Inside)
    /\ inflight = Cardinality(Inside)

\* The channel exists exactly after the seal; open means some frame is inside.
ChannelInv ==
    /\ sealed = closed
    /\ closed => drained \in {"open", "closed"}
    /\ ~closed => drained = "nil"
    /\ drained = "open" => inflight # 0
    /\ drained = "closed" => inflight = 0

\* A caller past Close sealed the gate, and nil was returned on a drained one.
CloserInv ==
    /\ \A c \in Closers : closer[c] # "idle" => closed
    /\ \A c \in Closers : closer[c] = "nil" => drained = "closed"
    /\ mmm = "unmapped" => drained = "closed"

\* Before the seal no row is late, and a frame about to yield has none.
LateInv ==
    \A f \in Frames :
        /\ late[f] <= 1
        /\ ~sealed => late[f] = 0
        /\ at[f] = "yield" => late[f] = 0

\* The inductive invariant.
GateInv == TypeOK /\ CounterInv /\ ChannelInv /\ CloserInv /\ LateInv

-----------------------------------------------------------------------------
(* What moving one frame does to the set inside and to its cardinality.     *)

\* A frame that enters adds itself to the set inside, and inflight.Add(1) counts it.
LEMMA FrameEnters ==
    ASSUME TypeOK, CounterInv, NEW f \in Frames, at[f] = "out",
           NEW p \in {"op", "pull"},
           at' = [at EXCEPT ![f] = p], inflight' = inflight + 1
    PROVE  CounterInv' /\ Inside' = Inside \cup {f} /\ f \notin Inside
<1>1. f \notin Inside /\ Inside' = Inside \cup {f}
  BY DEF TypeOK, Inside
<1>2. /\ IsFiniteSet(Inside \cup {f})
      /\ Cardinality(Inside \cup {f}) = Cardinality(Inside) + 1
  BY <1>1, FS_AddElement DEF CounterInv
<1>3. QED
  BY <1>1, <1>2 DEF CounterInv

\* A frame that leaves was inside, so inflight.Add(-1) never goes below zero.
LEMMA FrameLeaves ==
    ASSUME TypeOK, CounterInv, NEW f \in Frames, at[f] # "out",
           at' = [at EXCEPT ![f] = "out"], inflight' = inflight - 1
    PROVE  /\ CounterInv' /\ Inside' = Inside \ {f} /\ f \in Inside
           /\ inflight \in Nat \ {0}
<1>1. f \in Inside /\ Inside' = Inside \ {f}
  BY DEF TypeOK, Inside
<1>2. /\ IsFiniteSet(Inside \ {f})
      /\ Cardinality(Inside \ {f}) = Cardinality(Inside) - 1
  BY <1>1, FS_RemoveElement DEF CounterInv
<1>3. inflight # 0
  BY <1>1, FS_EmptySet DEF CounterInv
<1>4. QED
  BY <1>1, <1>2, <1>3 DEF CounterInv, TypeOK

\* A query that goes on from one place to the next stays inside.
LEMMA FrameMoves ==
    ASSUME TypeOK, CounterInv, NEW f \in Frames, at[f] # "out",
           NEW p \in {"pull", "yield", "body"},
           at' = [at EXCEPT ![f] = p], inflight' = inflight
    PROVE  CounterInv' /\ Inside' = Inside
<1>1. Inside' = Inside
  BY DEF TypeOK, Inside
<1>2. QED
  BY <1>1 DEF CounterInv

\* A step that moves no frame leaves the count right.
LEMMA FramesStay ==
    ASSUME CounterInv, UNCHANGED <<at, inflight>>
    PROVE  CounterInv' /\ Inside' = Inside
BY DEF CounterInv, Inside

-----------------------------------------------------------------------------
(* GateInv is inductive: one lemma for the initial states, one for a step.  *)

\* The gate as it is made satisfies the invariant.
LEMMA GateInit == Init => GateInv
<1> SUFFICES ASSUME Init PROVE GateInv
  OBVIOUS
<1>1. Inside = {}
  BY DEF Init, Inside
<1>2. CounterInv
  BY <1>1, FS_EmptySet DEF Init, CounterInv
<1>3. TypeOK /\ ChannelInv
  BY DEF Init, TypeOK, ChannelInv
<1>4. CloserInv /\ LateInv
  BY DEF Init, CloserInv, LateInv
<1>5. QED
  BY <1>2, <1>3, <1>4 DEF GateInv

\* Entering an operation or a query keeps the invariant.
LEMMA EnterStep ==
    ASSUME GateInv, NEW w \in Workers, NEW d \in 1..MaxDepth,
           StartOp(w, d) \/ StartQuery(w, d)
    PROVE  GateInv'
<1> DEFINE f == <<w, d>>
<1>1. f \in Frames /\ at[f] = "out"
  BY DEF StartOp, StartQuery, MayStart, Frames
<1>2. PICK p \in {"op", "pull"} : at' = [at EXCEPT ![f] = p]
  BY DEF StartOp, StartQuery
<1>3. /\ ~closed /\ inflight' = inflight + 1
      /\ UNCHANGED <<closed, sealed, drained, closer, ensuring, mmm>>
  BY DEF StartOp, StartQuery, enter
<1>4. late' = late \/ late' = [late EXCEPT ![f] = 0]
  BY DEF StartOp, StartQuery
<1>5. CounterInv'
  BY <1>1, <1>2, <1>3, FrameEnters DEF GateInv
<1>6. TypeOK'
  BY <1>1, <1>2, <1>3, <1>4 DEF GateInv, TypeOK
<1>7. ChannelInv' /\ CloserInv'
  BY <1>3 DEF GateInv, TypeOK, ChannelInv, CloserInv
<1>8. LateInv'
  BY <1>1, <1>2, <1>3, <1>4 DEF GateInv, TypeOK, LateInv
<1>9. QED
  BY <1>5, <1>6, <1>7, <1>8 DEF GateInv

\* Leaving keeps it: the last one out closes drained only if it is sealed.
LEMMA ExitStep ==
    ASSUME GateInv, NEW w \in Workers, NEW d \in 1..MaxDepth,
           FinishOp(w, d) \/ EndQuery(w, d) \/ BodyLeaves(w, d)
    PROVE  GateInv'
<1> DEFINE f == <<w, d>>
<1>1. /\ f \in Frames /\ at[f] # "out"
      /\ at' = [at EXCEPT ![f] = "out"]
      /\ exit /\ UNCHANGED <<late, closer, ensuring, mmm>>
  BY DEF FinishOp, EndQuery, BodyLeaves, Frames
<1>2. /\ inflight' = inflight - 1
      /\ drained' = IF closed /\ inflight' = 0 THEN CloseChannel ELSE drained
      /\ UNCHANGED <<closed, sealed>>
  BY <1>1 DEF exit
<1>3. CounterInv' /\ inflight \in Nat \ {0}
  BY <1>1, <1>2, FrameLeaves DEF GateInv
<1>4. drained # "closed"
  BY <1>3 DEF GateInv, ChannelInv
<1>5. ChannelInv'
  BY <1>2, <1>3, <1>4 DEF GateInv, ChannelInv, CloseChannel
<1>6. TypeOK'
  BY <1>1, <1>2, <1>3 DEF GateInv, TypeOK, CloseChannel
<1>7. CloserInv'
  BY <1>1, <1>2, <1>4 DEF GateInv, CloserInv
<1>8. LateInv'
  BY <1>1, <1>2 DEF GateInv, TypeOK, LateInv
<1>9. QED
  BY <1>3, <1>5, <1>6, <1>7, <1>8 DEF GateInv

\* The steps of a query's loop keep it and touch neither drained nor the map.
LEMMA LoopStep ==
    ASSUME GateInv, NEW w \in Workers, NEW d \in 1..MaxDepth,
           LoadUnsealed(w, d) \/ Yield(w, d) \/ BodyContinues(w, d)
    PROVE  GateInv' /\ Inside' = Inside /\ UNCHANGED <<closed, mmm>>
<1> DEFINE f == <<w, d>>
<1>1. f \in Frames /\ at[f] # "out"
      /\ UNCHANGED <<closed, sealed, inflight, drained, closer, ensuring, mmm>>
  BY DEF LoadUnsealed, Yield, BodyContinues, Frames, gateVars
<1>2. PICK p \in {"pull", "yield", "body"} : at' = [at EXCEPT ![f] = p]
  BY DEF LoadUnsealed, Yield, BodyContinues
<1>3. CounterInv' /\ Inside' = Inside
  BY <1>1, <1>2, FrameMoves DEF GateInv
<1>4. TypeOK' /\ LateInv'
  <2>1. CASE LoadUnsealed(w, d)
    BY <1>1, <2>1 DEF GateInv, TypeOK, LateInv, LoadUnsealed
  <2>2. CASE Yield(w, d)
    BY <1>1, <2>2 DEF GateInv, TypeOK, LateInv, Yield
  <2>3. CASE BodyContinues(w, d)
    BY <1>1, <2>3 DEF GateInv, TypeOK, LateInv, BodyContinues
  <2>4. QED
    BY <2>1, <2>2, <2>3
<1>5. ChannelInv' /\ CloserInv'
  BY <1>1 DEF GateInv, ChannelInv, CloserInv
<1>6. QED
  BY <1>1, <1>3, <1>4, <1>5 DEF GateInv

\* storeGate.Close keeps it: one caller seals, and no frame moves.
LEMMA CloseStep ==
    ASSUME GateInv, NEW c \in Closers, Closing(c)
    PROVE  GateInv' /\ Inside' = Inside /\ UNCHANGED mmm
<1>1. UNCHANGED <<inflight, at, late, ensuring, mmm>>
  BY DEF Closing, Seal, CloseDrained, CloseTimeout, CloseAgain, gateVars
<1>2. CounterInv' /\ Inside' = Inside
  BY <1>1, FramesStay DEF GateInv
<1>3. TypeOK' /\ ChannelInv' /\ CloserInv' /\ LateInv'
  <2>1. CASE Seal(c)
    BY <1>1, <2>1 DEF GateInv, TypeOK, ChannelInv, CloserInv, LateInv, Seal
  <2>2. CASE CloseDrained(c) \/ CloseTimeout(c) \/ CloseAgain(c)
    BY <1>1, <2>2 DEF GateInv, TypeOK, ChannelInv, CloserInv, LateInv,
       CloseDrained, CloseTimeout, CloseAgain, gateVars
  <2>3. QED
    BY <2>1, <2>2 DEF Closing
<1>4. QED
  BY <1>1, <1>2, <1>3 DEF GateInv

\* The unmapping, EnsureLayer and stuttering keep it.
LEMMA OtherStep ==
    ASSUME GateInv, Unmap \/ (\E r \in Resetters : Reset(r)) \/ UNCHANGED vars
    PROVE  GateInv' /\ Inside' = Inside /\ UNCHANGED closed
<1>1. UNCHANGED <<closed, sealed, inflight, drained, at, late, closer>>
  BY DEF Unmap, Reset, EnsureLayer, EnsureLayerDone, vars, gateVars
<1>2. CounterInv' /\ Inside' = Inside
  BY <1>1, FramesStay DEF GateInv
<1>3. TypeOK'
  BY <1>1 DEF GateInv, TypeOK, Unmap, Reset, EnsureLayer, EnsureLayerDone, vars
<1>4. CloserInv'
  <2>1. CASE Unmap
    BY <1>1, <2>1, StoreGateAssumption DEF GateInv, CloserInv, Unmap
  <2>2. CASE mmm' = mmm
    BY <1>1, <2>2 DEF GateInv, CloserInv
  <2>3. QED
    BY <2>1, <2>2 DEF Reset, EnsureLayer, EnsureLayerDone, vars
<1>5. ChannelInv' /\ LateInv'
  BY <1>1 DEF GateInv, ChannelInv, LateInv
<1>6. QED
  BY <1>1, <1>2, <1>3, <1>4, <1>5 DEF GateInv

\* Every step keeps the invariant: one case per group of actions.
LEMMA GateStep == GateInv /\ [Next]_vars => GateInv'
<1> SUFFICES ASSUME GateInv, [Next]_vars PROVE GateInv'
  OBVIOUS
<1>1. ASSUME NEW w \in Workers, NEW d \in 1..MaxDepth, Worker(w, d)
      PROVE  GateInv'
  BY <1>1, EnterStep, ExitStep, LoopStep DEF Worker, Progress
<1>2. ASSUME NEW c \in Closers, Closing(c) PROVE GateInv'
  BY <1>2, CloseStep
<1>3. CASE Unmap \/ (\E r \in Resetters : Reset(r)) \/ UNCHANGED vars
  BY <1>3, OtherStep
<1>4. QED
  BY <1>1, <1>2, <1>3 DEF Next

\* The inductive invariant holds in every reachable state.
LEMMA GateInvariant == Spec => []GateInv
BY GateInit, GateStep, PTL DEF Spec

-----------------------------------------------------------------------------
(* The theorems *)

\* The gate's counter, flags, channel and goroutine places keep their types;
\* in particular inflight never goes below zero.
THEOREM TypeCorrect == Spec => []TypeOK
<1>1. GateInv => TypeOK
  BY DEF GateInv
<1>2. QED
  BY <1>1, GateInvariant, PTL

\* Close drained the gate before mmmm.Close: the counter, and so the set, is empty.
LEMMA EmptyWhenUnmapped == GateInv => NoGuardedUseAfterUnmap
BY FS_EmptySet DEF GateInv, CounterInv, ChannelInv, CloserInv,
   NoGuardedUseAfterUnmap

\* No guarded operation, nested or not, is inside the unmapped store.
THEOREM UnmapIsSafe == Spec => []NoGuardedUseAfterUnmap
BY EmptyWhenUnmapped, GateInvariant, PTL

\* exit never closes the drained channel twice, nor before it exists.
THEOREM NoDoubleClose == Spec => []DrainedClosedOnce
<1>1. GateInv => DrainedClosedOnce
  BY DEF GateInv, ChannelInv, DrainedClosedOnce
<1>2. QED
  BY <1>1, GateInvariant, PTL

\* A nil from Close means that nothing is inside, then and ever after.
THEOREM NilMeansDrained == Spec => []CloseNilMeansDrained
<1>1. GateInv => CloseNilMeansDrained
  BY FS_EmptySet DEF GateInv, CounterInv, ChannelInv, CloserInv,
     CloseNilMeansDrained
<1>2. QED
  BY <1>1, GateInvariant, PTL

\* A query loop hands out at most one row after Close began.
THEOREM OneLateRow == Spec => []AtMostOneLateRow
<1>1. GateInv => AtMostOneLateRow
  BY DEF GateInv, LateInv, AtMostOneLateRow
<1>2. QED
  BY <1>1, GateInvariant, PTL

\* The gate implements StoreLife: every step of counter, flag and channel is a
\* step of the life cycle promised by closeStore, or changes nothing of it.
THEOREM GateImplementsLife == Spec => ImplementsLife
<1> DEFINE phase == IF mmm = "unmapped" THEN "unmapped"
                    ELSE IF closed THEN "closing" ELSE "open"
<1>1. Init => Life!Init
  BY DEF Init, Life!Init, Inside
<1>2. GateInv /\ [Next]_vars => [Life!Next]_(Life!lifeVars)
  <2> SUFFICES ASSUME GateInv, [Next]_vars
               PROVE  Life!Next \/ (Inside' = Inside /\ phase' = phase)
    BY DEF Life!lifeVars
  <2>0. ~closed => mmm = "open"
    BY DEF GateInv, ChannelInv, CloserInv, TypeOK
  <2>1. ASSUME NEW w \in Workers, NEW d \in 1..MaxDepth,
               StartOp(w, d) \/ StartQuery(w, d)
        PROVE  Life!Next
    <3> DEFINE f == <<w, d>>
    <3>1. f \in Frames /\ at[f] = "out"
      BY <2>1 DEF StartOp, StartQuery, MayStart, Frames
    <3>2. PICK p \in {"op", "pull"} : at' = [at EXCEPT ![f] = p]
      BY <2>1 DEF StartOp, StartQuery
    <3>3. ~closed /\ inflight' = inflight + 1 /\ UNCHANGED <<closed, mmm>>
      BY <2>1 DEF StartOp, StartQuery, enter
    <3>4. Inside' = Inside \cup {f} /\ f \notin Inside
      BY <3>1, <3>2, <3>3, FrameEnters DEF GateInv
    <3>5. Life!Begin(f)
      BY <2>0, <3>3, <3>4 DEF Life!Begin
    <3>6. QED
      BY <3>1, <3>5 DEF Life!Next
  <2>2. ASSUME NEW w \in Workers, NEW d \in 1..MaxDepth,
               FinishOp(w, d) \/ EndQuery(w, d) \/ BodyLeaves(w, d)
        PROVE  Life!Next
    <3> DEFINE f == <<w, d>>
    <3>1. /\ f \in Frames /\ at[f] # "out"
          /\ at' = [at EXCEPT ![f] = "out"]
          /\ inflight' = inflight - 1 /\ UNCHANGED <<closed, mmm>>
      BY <2>2 DEF FinishOp, EndQuery, BodyLeaves, exit, Frames
    <3>2. Inside' = Inside \ {f} /\ f \in Inside
      BY <3>1, FrameLeaves DEF GateInv
    <3>3. Life!End(f)
      BY <3>1, <3>2 DEF Life!End
    <3>4. QED
      BY <3>1, <3>3 DEF Life!Next
  <2>3. ASSUME NEW w \in Workers, NEW d \in 1..MaxDepth,
               LoadUnsealed(w, d) \/ Yield(w, d) \/ BodyContinues(w, d)
        PROVE  Inside' = Inside /\ phase' = phase
    BY <2>3, LoopStep
  <2>4. ASSUME NEW c \in Closers, Closing(c)
        PROVE  Life!Next \/ (Inside' = Inside /\ phase' = phase)
    <3>1. Inside' = Inside /\ mmm' = mmm
      BY <2>4, CloseStep
    <3>2. closed' = closed \/ (~closed /\ closed')
      BY <2>4 DEF GateInv, TypeOK, Closing, Seal, CloseDrained, CloseTimeout,
         CloseAgain, gateVars
    <3>3. CASE closed' = closed
      BY <3>1, <3>3
    <3>4. CASE ~closed /\ closed'
      BY <2>0, <3>1, <3>4 DEF Life!Next, Life!BeginClose
    <3>5. QED
      BY <3>2, <3>3, <3>4
  <2>5. CASE Unmap
    <3>1. Inside' = Inside /\ closed' = closed
      BY <2>5, OtherStep
    <3>2. Inside = {} /\ closed
      <4>1. drained = "closed"
        BY <2>5, StoreGateAssumption DEF Unmap, GateInv, CloserInv
      <4>2. QED
        BY <4>1, FS_EmptySet DEF GateInv, CounterInv, ChannelInv
    <3>3. QED
      BY <2>5, <3>1, <3>2 DEF Unmap, Life!Next, Life!Unmap
  <2>6. CASE (\E r \in Resetters : Reset(r)) \/ UNCHANGED vars
    <3>1. Inside' = Inside /\ closed' = closed
      BY <2>6, OtherStep
    <3>2. QED
      BY <2>6, <3>1 DEF Reset, EnsureLayer, EnsureLayerDone, vars
  <2>7. QED
    BY <2>1, <2>2, <2>3, <2>4, <2>5, <2>6 DEF Next, Worker, Progress
<1>3. QED
  BY <1>1, <1>2, GateInvariant, PTL DEF Spec, Life!Spec, ImplementsLife
=============================================================================
