----------------------------- MODULE StoreGate -----------------------------
(***************************************************************************)
(* guard.go and store.go: the gate every store operation passes through so  *)
(* that the memory-mapped store (mmm) is not closed under an operation.     *)
(*                                                                          *)
(* A goroutine may nest operations: the body of a QueryEvents loop starts   *)
(* another one (wipe.go deletes inside a query loop).  Frame <<w, d>> is    *)
(* the operation goroutine w runs at nesting depth d, and at[<<w, d>>] is   *)
(* where that operation stands:                                             *)
(*   "out"    not inside the gate                                           *)
(*   "op"     in Save, Replace, Delete or Count of the wrapped store        *)
(*   "pull"   in QueryEvents, the wrapped iterator is looking for a row     *)
(*   "yield"  in QueryEvents, sealed was loaded as false for the row        *)
(*   "body"   in QueryEvents, the caller's loop body runs                   *)
(* The mutex g.mu makes enter, exit and both parts of Close one step each.  *)
(***************************************************************************)
EXTENDS Integers, FiniteSets

CONSTANTS Workers,    \* goroutines that use the guarded store
          MaxDepth,   \* bound: how deep operations nest
          Closers,    \* goroutines that call storeGate.Close
          Owner,      \* the closer that runs closeStore (the defer of run)
          Resetters   \* goroutines in resetRelay, which open a layer

ASSUME StoreGateAssumption ==
    /\ MaxDepth \in Nat \ {0}
    /\ Owner \in Closers

Frames == Workers \X (1..MaxDepth)

VARIABLES closed,     \* g.closed
          sealed,     \* g.sealed, read without the mutex
          inflight,   \* g.inflight
          drained,    \* g.drained: a channel; "panic" once closed twice
          at,         \* where each frame stands
          late,       \* history: rows a frame yielded after the seal
          closer,     \* where each caller of Close stands
          ensuring,   \* resetters inside mmmm.EnsureLayer
          mmm         \* the mapped store: "open" or "unmapped"

gateVars == <<closed, sealed, inflight, drained>>
vars == <<closed, sealed, inflight, drained, at, late, closer, ensuring, mmm>>

Inside == {f \in Frames : at[f] # "out"}

Init ==
    /\ closed = FALSE
    /\ sealed = FALSE
    /\ inflight = 0
    /\ drained = "nil"
    /\ at = [f \in Frames |-> "out"]
    /\ late = [f \in Frames |-> 0]
    /\ closer = [c \in Closers |-> "idle"]
    /\ ensuring = {}
    /\ mmm = "open"

-----------------------------------------------------------------------------
(* storeGate.enter and storeGate.exit *)

\* Mutant: enter forgets to look at g.closed.
enter_Unchecked ==
    /\ inflight' = inflight + 1
    /\ UNCHANGED <<closed, sealed, drained>>

enter ==
    /\ ~closed
    /\ inflight' = inflight + 1
    /\ UNCHANGED <<closed, sealed, drained>>

\* close(g.drained) panics on a channel that is closed already.
CloseChannel == IF drained = "open" THEN "closed" ELSE "panic"

\* Mutant: exit signals drained while one operation is still inside.
exit_Early ==
    /\ inflight' = inflight - 1
    /\ drained' = IF closed /\ inflight' <= 1 THEN "closed" ELSE drained
    /\ UNCHANGED <<closed, sealed>>

exit ==
    /\ inflight' = inflight - 1
    /\ drained' = IF closed /\ inflight' = 0 THEN CloseChannel ELSE drained
    /\ UNCHANGED <<closed, sealed>>

-----------------------------------------------------------------------------
(* guardedStore: an operation starts at depth 1, or in the body of the loop *)
(* one level up.  A refused one returns ErrStoreClosed and changes nothing. *)

MayStart(w, d) ==
    /\ at[<<w, d>>] = "out"
    /\ d > 1 => at[<<w, d - 1>>] = "body"

\* Nothing nested runs below the frame, so its own code is running.
IsTop(w, d) == d < MaxDepth => at[<<w, d + 1>>] = "out"

StartOp(w, d) ==
    /\ MayStart(w, d)
    /\ enter
    /\ at' = [at EXCEPT ![<<w, d>>] = "op"]
    /\ UNCHANGED <<late, closer, ensuring, mmm>>

FinishOp(w, d) ==
    /\ at[<<w, d>>] = "op"
    /\ exit
    /\ at' = [at EXCEPT ![<<w, d>>] = "out"]
    /\ UNCHANGED <<late, closer, ensuring, mmm>>

\* Mutant: QueryEvents checks the gate but does not count itself.
StartQuery_Uncounted(w, d) ==
    /\ MayStart(w, d)
    /\ ~closed
    /\ at' = [at EXCEPT ![<<w, d>>] = "pull"]
    /\ late' = [late EXCEPT ![<<w, d>>] = 0]
    /\ UNCHANGED <<gateVars, closer, ensuring, mmm>>

StartQuery(w, d) ==
    /\ MayStart(w, d)
    /\ enter
    /\ at' = [at EXCEPT ![<<w, d>>] = "pull"]
    /\ late' = [late EXCEPT ![<<w, d>>] = 0]
    /\ UNCHANGED <<closer, ensuring, mmm>>

\* Mutant: the loop does not look at sealed.
LoadUnsealed_Unchecked(w, d) ==
    /\ at[<<w, d>>] = "pull"
    /\ at' = [at EXCEPT ![<<w, d>>] = "yield"]
    /\ UNCHANGED <<gateVars, late, closer, ensuring, mmm>>

\* The iterator found a row and sealed.Load() returned false.
LoadUnsealed(w, d) ==
    /\ at[<<w, d>>] = "pull"
    /\ ~sealed
    /\ at' = [at EXCEPT ![<<w, d>>] = "yield"]
    /\ UNCHANGED <<gateVars, late, closer, ensuring, mmm>>

\* The iterator is exhausted, or it found a row and the gate is sealed.
EndQuery(w, d) ==
    /\ at[<<w, d>>] = "pull"
    /\ exit
    /\ at' = [at EXCEPT ![<<w, d>>] = "out"]
    /\ UNCHANGED <<late, closer, ensuring, mmm>>

Yield(w, d) ==
    /\ at[<<w, d>>] = "yield"
    /\ at' = [at EXCEPT ![<<w, d>>] = "body"]
    /\ late' = [late EXCEPT ![<<w, d>>] = IF sealed THEN @ + 1 ELSE @]
    /\ UNCHANGED <<gateVars, closer, ensuring, mmm>>

\* The body asks for the next row.
BodyContinues(w, d) ==
    /\ at[<<w, d>>] = "body"
    /\ IsTop(w, d)
    /\ at' = [at EXCEPT ![<<w, d>>] = "pull"]
    /\ UNCHANGED <<gateVars, late, closer, ensuring, mmm>>

\* The body breaks out of the loop or panics: the deferred exit runs.
BodyLeaves(w, d) ==
    /\ at[<<w, d>>] = "body"
    /\ IsTop(w, d)
    /\ exit
    /\ at' = [at EXCEPT ![<<w, d>>] = "out"]
    /\ UNCHANGED <<late, closer, ensuring, mmm>>

-----------------------------------------------------------------------------
(* storeGate.Close *)

\* Mutant: Close leaves the channel to exit even when nothing is inside.
Seal_NeverSignals(c) ==
    /\ closer[c] = "idle"
    /\ closed' = TRUE
    /\ sealed' = TRUE
    /\ drained' = IF closed THEN drained ELSE "open"
    /\ closer' = [closer EXCEPT ![c] = "waiting"]
    /\ UNCHANGED <<inflight, at, late, ensuring, mmm>>

Seal(c) ==
    /\ closer[c] = "idle"
    /\ closed' = TRUE
    /\ sealed' = TRUE
    /\ drained' = IF closed THEN drained
                  ELSE IF inflight = 0 THEN "closed" ELSE "open"
    /\ closer' = [closer EXCEPT ![c] = "waiting"]
    /\ UNCHANGED <<inflight, at, late, ensuring, mmm>>

CloseDrained(c) ==
    /\ closer[c] = "waiting"
    /\ drained = "closed"
    /\ closer' = [closer EXCEPT ![c] = "nil"]
    /\ UNCHANGED <<gateVars, at, late, ensuring, mmm>>

\* The timer may win the select even when drained is closed too.
CloseTimeout(c) ==
    /\ closer[c] = "waiting"
    /\ closer' = [closer EXCEPT ![c] = "error"]
    /\ UNCHANGED <<gateVars, at, late, ensuring, mmm>>

\* "Calling Close again is safe": closers other than run's defer retry.
CloseAgain(c) ==
    /\ c # Owner
    /\ closer[c] = "error"
    /\ closer' = [closer EXCEPT ![c] = "idle"]
    /\ UNCHANGED <<gateVars, at, late, ensuring, mmm>>

\* Mutant: closeStore closes mmm although the gate did not drain.
Unmap_IgnoresError ==
    /\ closer[Owner] \in {"nil", "error"}
    /\ mmm = "open"
    /\ mmm' = "unmapped"
    /\ UNCHANGED <<gateVars, at, late, closer, ensuring>>

\* The rest of closeStore: mmmm.Close after Close returned nil.
Unmap ==
    /\ closer[Owner] = "nil"
    /\ mmm = "open"
    /\ mmm' = "unmapped"
    /\ UNCHANGED <<gateVars, at, late, closer, ensuring>>

-----------------------------------------------------------------------------
(* resetRelay -> initBlossom: mmmm.EnsureLayer is called on mmm directly.   *)

EnsureLayer(r) ==
    /\ r \notin ensuring
    /\ ensuring' = ensuring \cup {r}
    /\ UNCHANGED <<gateVars, at, late, closer, mmm>>

EnsureLayerDone(r) ==
    /\ r \in ensuring
    /\ ensuring' = ensuring \ {r}
    /\ UNCHANGED <<gateVars, at, late, closer, mmm>>

-----------------------------------------------------------------------------

\* What goroutine w does at depth d once it is inside the gate.
Progress(w, d) ==
    \/ FinishOp(w, d)
    \/ LoadUnsealed(w, d)
    \/ EndQuery(w, d)
    \/ Yield(w, d)
    \/ BodyContinues(w, d)
    \/ BodyLeaves(w, d)

Worker(w, d) ==
    \/ StartOp(w, d)
    \/ StartQuery(w, d)
    \/ Progress(w, d)

Closing(c) ==
    \/ Seal(c)
    \/ CloseDrained(c)
    \/ CloseTimeout(c)
    \/ CloseAgain(c)

Reset(r) == EnsureLayer(r) \/ EnsureLayerDone(r)

Next ==
    \/ \E w \in Workers, d \in 1..MaxDepth : Worker(w, d)
    \/ \E c \in Closers : Closing(c)
    \/ Unmap
    \/ \E r \in Resetters : Reset(r)

Spec == Init /\ [][Next]_vars

(***************************************************************************)
(* The Go scheduler runs a goroutine that can run, the wrapped store's      *)
(* operations and the loop bodies return, and a timer fires: weak fairness  *)
(* of what a goroutine does once inside, and of the two ways Close returns. *)
(* Starting an operation and calling Close are the environment's choice.    *)
(***************************************************************************)
Fairness ==
    /\ \A w \in Workers, d \in 1..MaxDepth : WF_vars(Progress(w, d))
    /\ \A c \in Closers : WF_vars(CloseDrained(c) \/ CloseTimeout(c))
    /\ WF_vars(Unmap)

FairSpec == Spec /\ Fairness

-----------------------------------------------------------------------------
(* Properties *)

\* Every field of the gate and every goroutine's place keeps its type.
TypeOK ==
    /\ closed \in BOOLEAN
    /\ sealed \in BOOLEAN
    /\ inflight \in Nat
    /\ drained \in {"nil", "open", "closed", "panic"}
    /\ at \in [Frames -> {"out", "op", "pull", "yield", "body"}]
    /\ late \in [Frames -> Nat]
    /\ closer \in [Closers -> {"idle", "waiting", "nil", "error"}]
    /\ ensuring \subseteq Resetters
    /\ mmm \in {"open", "unmapped"}

\* guard.go:20-26: a guarded operation is never inside the wrapped store once
\* mmmm.Close unmapped it, whatever nests in whatever.
NoGuardedUseAfterUnmap == mmm = "unmapped" => Inside = {}

\* exit closes the drained channel when inflight returns to 0 after the seal;
\* a second close, or one of a nil channel, would panic the process.
DrainedClosedOnce == drained # "panic"

\* guard.go:62-64: once a Close returned nil, no operation is inside.
CloseNilMeansDrained ==
    (\E c \in Closers : closer[c] = "nil") => inflight = 0 /\ Inside = {}

\* guard.go:108-113: once Close begins a query stops yielding.  sealed is read
\* before the row is yielded, so one row per running loop may still slip out.
AtMostOneLateRow == \A f \in Frames : late[f] <= 1

\* guard.go:28-32, 108-113: after the seal the gate drains, however the
\* operations nest and however long a query is: nobody waits for the closer.
SealedGateDrains == closed ~> drained = "closed"

\* store.go:39-49: counter, flag and channel together keep the promise of
\* StoreLife, whose set of users is the set of frames inside the gate.
Life == INSTANCE StoreLife WITH
    Users <- Frames,
    users <- Inside,
    phase <- IF mmm = "unmapped" THEN "unmapped"
             ELSE IF closed THEN "closing" ELSE "open"

\* store.go:39-49: the gate implements the store's life cycle.
ImplementsLife == Life!Spec
=============================================================================
