--------------------------- MODULE ShutdownProofs ---------------------------
(***************************************************************************)
(* Proofs about Shutdown for any number of connections and any nesting      *)
(* depth.  What the gate contributes is GateInv of StoreGateProofs: every   *)
(* step of Shutdown is a step of the gate or leaves it alone.  The rest is  *)
(* about the order in which run stops the server, the websockets and the    *)
(* store while connections go on.                                           *)
(***************************************************************************)
EXTENDS Shutdown, TLAPS

GP == INSTANCE StoreGateProofs WITH
    Workers <- Conns, Owner <- Runner, Resetters <- Conns

\* The stages of run after the drain, after CloseAll's snapshot, and after CloseAll.
AfterCloseAll == {"store", "returned", "exited"}
AfterSnapshot == AfterCloseAll \cup {"closing"}
AfterDrain == AfterSnapshot \cup {"closeAll"}

\* Connections, the tracked set and run's own state have their types.
ServerTypeOK ==
    /\ conn \in [Conns -> {"free", "new", "plain", "handed", "open", "closing", "closed"}]
    /\ stage \in {"serving", "draining"} \cup AfterDrain
    /\ failed \in BOOLEAN
    /\ pending \subseteq Conns

\* hijackedConns.conns holds the open websockets, and only those.
TrackedInv == tracked = {c \in Conns : conn[c] = "open"}

\* A layer is opened only by a request net/http still knows of.
ResetInv == \A r \in ensuring : r \in Conns /\ conn[r] = "plain"

\* After an orderly drain net/http knows of no connection, and never will again.
DrainInv == stage \in AfterDrain /\ ~failed => KnownToServer = {}

\* Past the snapshot of an orderly stop a websocket is in the snapshot or was
\* on its way to the hook, and CloseAll ends with nothing left of the snapshot.
SnapshotInv ==
    stage \in AfterSnapshot /\ ~failed =>
       /\ \A c \in Conns : conn[c] = "handed" => c \in unhooked
       /\ \A c \in Conns : conn[c] = "open" => c \in pending \cup unhooked
       /\ stage \in AfterCloseAll => pending = {}

\* The store is unmapped by the last stage only, and before a success.
UnmapInv ==
    /\ mmm = "unmapped" => stage \in AfterCloseAll
    /\ stage \in {"returned", "exited"} /\ ~failed => mmm = "unmapped"

\* The inductive invariant.
StopInv ==
    /\ GP!GateInv /\ ServerTypeOK /\ TrackedInv /\ ResetInv
    /\ DrainInv /\ SnapshotInv /\ UnmapInv

-----------------------------------------------------------------------------

\* The gate is instantiated within its own assumption.
LEMMA GateAssumption == GP!StoreGateAssumption
BY ShutdownAssumption DEF Closers

\* A step of the gate, or one that leaves it alone, keeps the gate's invariant.
LEMMA GateStep == ASSUME GP!GateInv, [GP!Next]_GP!vars PROVE GP!GateInv'
BY GateAssumption, GP!GateStep

\* What a goroutine does with the store is a step of the gate that touches the
\* unmapping never, and the set of resetters only by its own plain request.
LEMMA StoreUse ==
    ASSUME NEW c \in Conns, UseStore(c)
    PROVE  /\ [GP!Next]_GP!vars
           /\ mmm' = mmm
           /\ \A r \in ensuring' : r \in ensuring \/ (r = c /\ conn[c] = "plain")
<1>1. ASSUME NEW d \in 1..MaxDepth, Gate!Worker(c, d)
      PROVE  GP!Worker(c, d) /\ mmm' = mmm /\ ensuring' = ensuring
  BY <1>1 DEF Gate!Worker, Gate!StartOp, Gate!StartQuery, Gate!Progress,
     Gate!FinishOp, Gate!LoadUnsealed, Gate!EndQuery, Gate!Yield,
     Gate!BodyContinues, Gate!BodyLeaves, Gate!MayStart, Gate!IsTop, Gate!enter,
     Gate!exit, Gate!CloseChannel, Gate!gateVars,
     GP!Worker, GP!StartOp, GP!StartQuery, GP!Progress,
     GP!FinishOp, GP!LoadUnsealed, GP!EndQuery, GP!Yield,
     GP!BodyContinues, GP!BodyLeaves, GP!MayStart, GP!IsTop, GP!enter,
     GP!exit, GP!CloseChannel, GP!gateVars
<1>2. ASSUME Gate!EnsureLayer(c) \/ Gate!EnsureLayerDone(c)
      PROVE  GP!Reset(c) /\ mmm' = mmm
  BY <1>2 DEF Gate!EnsureLayer, Gate!EnsureLayerDone, Gate!gateVars,
     GP!Reset, GP!EnsureLayer, GP!EnsureLayerDone, GP!gateVars
<1>3. CASE \E d \in 1..MaxDepth : Gate!Worker(c, d)
  BY <1>1, <1>3 DEF GP!Next
<1>4. CASE conn[c] = "plain" /\ Gate!EnsureLayer(c)
  BY <1>2, <1>4 DEF GP!Next, Gate!EnsureLayer
<1>5. CASE Gate!EnsureLayerDone(c)
  BY <1>2, <1>5 DEF GP!Next, Gate!EnsureLayerDone
<1>6. QED
  BY <1>3, <1>4, <1>5 DEF UseStore

\* The deferred closeStore is made of steps of the gate and resets nothing.
LEMMA StoreClose ==
    ASSUME CloseStore
    PROVE  [GP!Next]_GP!vars /\ ensuring' = ensuring
<1>1. Runner \in Closers
  BY DEF Closers
<1>2. CASE Gate!Unmap
  BY <1>2 DEF Gate!Unmap, Gate!gateVars, GP!Unmap, GP!gateVars, GP!Next
<1>3. CASE Gate!Seal(Runner) \/ Gate!CloseDrained(Runner) \/ Gate!CloseTimeout(Runner)
  <2>1. GP!Closing(Runner) /\ ensuring' = ensuring
    BY <1>3 DEF Gate!Seal, Gate!CloseDrained, Gate!CloseTimeout, Gate!gateVars,
       GP!Closing, GP!Seal, GP!CloseDrained, GP!CloseTimeout, GP!gateVars
  <2>2. QED
    BY <1>1, <2>1 DEF GP!Next
<1>4. QED
  BY <1>2, <1>3 DEF CloseStore

-----------------------------------------------------------------------------
(* StopInv is inductive.                                                    *)

\* A server that has just begun to accept satisfies the invariant.
LEMMA StopInit == Init => StopInv
<1> SUFFICES ASSUME Init PROVE StopInv
  OBVIOUS
<1>1. GP!Init
  BY DEF Init, Gate!Init, GP!Init, Gate!Frames, GP!Frames
<1>2. GP!GateInv
  BY <1>1, GateAssumption, GP!GateInit
<1>3. ensuring = {} /\ mmm = "open"
  BY DEF Init, Gate!Init
<1>4. QED
  BY <1>2, <1>3 DEF Init, StopInv, ServerTypeOK, TrackedInv, ResetInv, DrainInv,
     SnapshotInv, UnmapInv, AfterDrain, AfterSnapshot, AfterCloseAll

\* A connection that moves on without the store keeps the invariant.
LEMMA ConnectionMoves ==
    ASSUME StopInv, NEW c \in Conns,
           \/ Accept(c) \/ StartRequest(c) \/ FinishRequest(c) \/ DropIdle(c)
           \/ Hijack(c) \/ ConnState(c) \/ BeginClose(c) \/ EndClose(c)
           \/ HandlerEnds(c)
    PROVE  StopInv'
<1> USE DEF Move, AfterDrain, AfterSnapshot, AfterCloseAll
<1>1. UNCHANGED <<gateVars, runVars>>
  BY DEF Accept, StartRequest, FinishRequest, DropIdle, Hijack, ConnState,
     BeginClose, EndClose, HandlerEnds
<1>2. GP!GateInv'
  BY <1>1, GateStep DEF StopInv, gateVars, GP!vars
<1>3. ServerTypeOK'
  BY <1>1 DEF StopInv, ServerTypeOK, runVars, Accept, StartRequest,
     FinishRequest, DropIdle, Hijack, ConnState, BeginClose, EndClose, HandlerEnds
<1>4. TrackedInv'
  BY DEF StopInv, ServerTypeOK, TrackedInv, Accept, StartRequest,
     FinishRequest, DropIdle, Hijack, ConnState, BeginClose, EndClose, HandlerEnds
<1>5. ResetInv'
  BY <1>1 DEF StopInv, ServerTypeOK, ResetInv, gateVars, Outside, Accept,
     StartRequest, FinishRequest, DropIdle, Hijack, ConnState, BeginClose,
     EndClose, HandlerEnds
<1>6. DrainInv'
  BY <1>1 DEF StopInv, ServerTypeOK, DrainInv, KnownToServer, runVars, Accept,
     StartRequest, FinishRequest, DropIdle, Hijack, ConnState, BeginClose,
     EndClose, HandlerEnds
<1>7. SnapshotInv'
  BY <1>1 DEF StopInv, ServerTypeOK, DrainInv, SnapshotInv, KnownToServer,
     runVars, Accept, StartRequest, FinishRequest, DropIdle, Hijack, ConnState,
     BeginClose, EndClose, HandlerEnds
<1>8. UnmapInv'
  BY <1>1 DEF StopInv, UnmapInv, gateVars, runVars
<1>9. QED
  BY <1>2, <1>3, <1>4, <1>5, <1>6, <1>7, <1>8 DEF StopInv

\* A goroutine inside the store keeps it: only a plain request opens a layer.
LEMMA ConnectionUsesStore ==
    ASSUME StopInv, NEW c \in Conns, UseStore(c)
    PROVE  StopInv'
<1>1. UNCHANGED <<connVars, runVars>>
  BY DEF UseStore
<1>2. GP!GateInv'
  BY StoreUse, GateStep DEF StopInv
<1>3. ResetInv'
  BY <1>1, StoreUse DEF StopInv, ResetInv, connVars
<1>4. QED
  BY <1>1, <1>2, <1>3, StoreUse DEF StopInv, ServerTypeOK, TrackedInv, DrainInv,
     SnapshotInv, UnmapInv, KnownToServer, connVars, runVars

\* The steps of run that leave the store alone keep it.
LEMMA RunStops ==
    ASSUME StopInv,
           \/ Signal \/ ServeFails \/ Drained \/ DrainTimeout \/ CloseAllSnapshot
           \/ (\E c \in Conns : CloseNext(c))
           \/ CloseAllDone \/ Return \/ Exit
    PROVE  StopInv'
<1> USE DEF AfterDrain, AfterSnapshot, AfterCloseAll
<1>1. UNCHANGED <<gateVars, connVars>>
  BY DEF Signal, ServeFails, Drained, DrainTimeout, CloseAllSnapshot, CloseNext,
     CloseAllDone, Return, Exit
<1>2. GP!GateInv' /\ TrackedInv' /\ ResetInv'
  BY <1>1, GateStep DEF StopInv, TrackedInv, ResetInv, gateVars, GP!vars, connVars
<1>3. ServerTypeOK'
  BY <1>1 DEF StopInv, ServerTypeOK, TrackedInv, connVars, Signal, ServeFails,
     Drained, DrainTimeout, CloseAllSnapshot, CloseNext, CloseAllDone, Return, Exit
<1>4. DrainInv'
  BY <1>1 DEF StopInv, ServerTypeOK, DrainInv, KnownToServer, connVars, Signal,
     ServeFails, Drained, DrainTimeout, CloseAllSnapshot, CloseNext, CloseAllDone,
     Return, Exit
<1>5. SnapshotInv'
  BY <1>1 DEF StopInv, ServerTypeOK, TrackedInv, SnapshotInv, connVars, Signal,
     ServeFails, Drained, DrainTimeout, CloseAllSnapshot, CloseNext, CloseAllDone,
     Return, Exit
<1>6. UnmapInv'
  BY <1>1 DEF StopInv, ServerTypeOK, UnmapInv, gateVars, Signal, ServeFails,
     Drained, DrainTimeout, CloseAllSnapshot, CloseNext, CloseAllDone, Return, Exit
<1>7. QED
  BY <1>2, <1>3, <1>4, <1>5, <1>6 DEF StopInv

\* closeStore keeps it: it unmaps the store in the stage it runs in.
LEMMA RunClosesStore == ASSUME StopInv, CloseStore PROVE StopInv'
<1>1. UNCHANGED <<connVars, runVars>> /\ stage = "store"
  BY DEF CloseStore
<1>2. GP!GateInv' /\ ensuring' = ensuring
  BY StoreClose, GateStep DEF StopInv
<1>3. UnmapInv'
  BY <1>1 DEF StopInv, UnmapInv, AfterCloseAll, runVars
<1>4. QED
  BY <1>1, <1>2, <1>3 DEF StopInv, ServerTypeOK, TrackedInv, ResetInv, DrainInv,
     SnapshotInv, KnownToServer, connVars, runVars

\* The inductive invariant holds in every reachable state.
LEMMA StopInvariant == Spec => []StopInv
<1>1. ASSUME StopInv, [Next]_vars PROVE StopInv'
  <2>1. CASE \E c \in Conns : Connection(c)
    BY <1>1, <2>1, ConnectionMoves, ConnectionUsesStore DEF Connection
  <2>2. CASE Signal \/ ServeFails
    BY <1>1, <2>2, RunStops
  <2>3. CASE Stopping
    BY <1>1, <2>3, RunStops, RunClosesStore, ConnectionMoves DEF Stopping
  <2>4. CASE UNCHANGED vars
    <3>1. GP!GateInv'
      BY <1>1, <2>4, GateStep DEF StopInv, vars, gateVars, GP!vars
    <3>2. QED
      BY <1>1, <2>4, <3>1 DEF StopInv, ServerTypeOK, TrackedInv, ResetInv,
         DrainInv, SnapshotInv, UnmapInv, KnownToServer, vars, gateVars,
         connVars, runVars
  <2>5. QED
    BY <1>1, <2>1, <2>2, <2>3, <2>4 DEF Next
<1>2. QED
  BY <1>1, StopInit, PTL DEF Spec

-----------------------------------------------------------------------------
(* The theorems *)

\* An unmapped store has no guarded operation inside.
LEMMA UnmappedIsEmpty == ASSUME StopInv, mmm = "unmapped" PROVE Gate!Inside = {}
<1>1. GP!Inside = {}
  BY GateAssumption, GP!EmptyWhenUnmapped DEF StopInv, GP!NoGuardedUseAfterUnmap
<1>2. QED
  BY <1>1 DEF GP!Inside, Gate!Inside, GP!Frames, Gate!Frames

\* main.go, store.go: a run that returns success cut off no request, left nobody
\* in the store by either way, and closed it.
THEOREM CleanSuccess == Spec => []SuccessIsClean
<1>1. StopInv => SuccessIsClean
  BY UnmappedIsEmpty DEF StopInv, SuccessIsClean, DrainInv, ResetInv, UnmapInv,
     KnownToServer, AfterDrain, AfterSnapshot, AfterCloseAll
<1>2. QED
  BY <1>1, StopInvariant, PTL

\* main.go, blossom.go: the store is unmapped under no guarded operation, and
\* under a layer being opened only by a stop that reports an error.
THEOREM NobodyUnderUnmap == Spec => []UnmappedUnderNobody
<1>1. StopInv => UnmappedUnderNobody
  BY UnmappedIsEmpty DEF StopInv, UnmappedUnderNobody, DrainInv, ResetInv,
     UnmapInv, KnownToServer, AfterDrain, AfterSnapshot, AfterCloseAll
<1>2. QED
  BY <1>1, StopInvariant, PTL

\* conntrack.go: only a hijack that had not reached the hook when CloseAll took
\* its snapshot survives an orderly stop as an open websocket.
THEOREM LateHijacksOnly == Spec => []OnlyLateHijacksSurvive
<1>1. StopInv => OnlyLateHijacksSurvive
  BY DEF StopInv, SnapshotInv, OnlyLateHijacksSurvive, AfterSnapshot, AfterCloseAll
<1>2. QED
  BY <1>1, StopInvariant, PTL
=============================================================================
