------------------------------ MODULE Shutdown ------------------------------
(***************************************************************************)
(* main.go (run, shutdownServer) and conntrack.go, with the store gate of   *)
(* StoreGate: how the relay stops while connections are served.  Every      *)
(* connection is also a goroutine that may use the guarded store, and a     *)
(* plain request may reset the relay, which opens a layer without the gate. *)
(*                                                                          *)
(* conn[c]: "free"     not accepted                                         *)
(*          "new"      accepted, no request yet        (known to net/http)  *)
(*          "plain"    an HTTP request is handled      (known to net/http)  *)
(*          "handed"   Hijack took it from net/http, the hook has not run   *)
(*          "open"     a websocket                                          *)
(*          "closing"  trackedConn.Close dropped it from the set            *)
(*          "closed"   the socket is closed, its goroutines may still run   *)
(***************************************************************************)
EXTENDS Integers, FiniteSets

CONSTANTS Conns,    \* connections
          MaxDepth, \* bound: nesting of store operations
          Runner    \* the goroutine of run

ASSUME ShutdownAssumption == MaxDepth \in Nat \ {0}

VARIABLES closed, sealed, inflight, drained, at, late, closer, ensuring, mmm,
          conn,      \* where each connection stands
          tracked,   \* hijackedConns.conns
          stage,     \* where run stands
          pending,   \* CloseAll's snapshot, the part not closed yet
          failed,    \* the error run will return is not nil
          unhooked   \* history: connections "handed" at CloseAll's snapshot

Closers == {Runner}

Gate == INSTANCE StoreGate WITH
    Workers <- Conns, Owner <- Runner, Resetters <- Conns

gateVars == <<closed, sealed, inflight, drained, at, late, closer, ensuring, mmm>>
connVars == <<conn, tracked>>
runVars == <<stage, pending, failed, unhooked>>
vars == <<gateVars, connVars, runVars>>

\* The store is open, and the server accepts connections.
Init ==
    /\ Gate!Init
    /\ conn = [c \in Conns |-> "free"]
    /\ tracked = {}
    /\ stage = "serving"
    /\ pending = {}
    /\ failed = FALSE
    /\ unhooked = {}

Alive == stage # "exited"
KnownToServer == {c \in Conns : conn[c] \in {"new", "plain"}}
Move(c, from, to) == conn[c] = from /\ conn' = [conn EXCEPT ![c] = to]

-----------------------------------------------------------------------------
(* Connections.  net/http closes its listener when Shutdown begins.         *)

Accept(c) ==
    /\ stage = "serving"
    /\ Move(c, "free", "new")
    /\ UNCHANGED <<gateVars, tracked, runVars>>

\* A request may come in on a connection accepted before the drain began.
StartRequest(c) ==
    /\ Alive
    /\ Move(c, "new", "plain")
    /\ UNCHANGED <<gateVars, tracked, runVars>>

\* The goroutine of c is not inside the store, by either way.
Outside(c) == c \notin ensuring /\ \A d \in 1..MaxDepth : at[<<c, d>>] = "out"

FinishRequest(c) ==
    /\ Alive
    /\ Outside(c)
    /\ Move(c, "plain", "new")
    /\ UNCHANGED <<gateVars, tracked, runVars>>

\* The client leaves, or Shutdown closes an idle connection.
DropIdle(c) ==
    /\ Alive
    /\ Move(c, "new", "free")
    /\ UNCHANGED <<gateVars, tracked, runVars>>

\* net/http forgets the connection before it calls the ConnState hook.
Hijack(c) ==
    /\ Alive
    /\ Outside(c)
    /\ Move(c, "plain", "handed")
    /\ UNCHANGED <<gateVars, tracked, runVars>>

ConnState(c) ==
    /\ Alive
    /\ Move(c, "handed", "open")
    /\ tracked' = tracked \cup {c}
    /\ UNCHANGED <<gateVars, runVars>>

\* trackedConn.Close, called by the connection's handler when the client is
\* gone, or by CloseAll; closeOnce lets one of them through.
BeginClose(c) ==
    /\ Alive
    /\ Move(c, "open", "closing")
    /\ tracked' = tracked \ {c}
    /\ UNCHANGED <<gateVars, runVars>>

EndClose(c) ==
    /\ Alive
    /\ Move(c, "closing", "closed")
    /\ UNCHANGED <<gateVars, tracked, runVars>>

\* The last goroutine of a closed connection ends.
HandlerEnds(c) ==
    /\ Alive
    /\ Outside(c)
    /\ Move(c, "closed", "free")
    /\ UNCHANGED <<gateVars, tracked, runVars>>

\* What goroutine c does with the store: any step of the gate's worker, and
\* the reset of the relay by a plain request (POST /settings).
UseStore(c) ==
    /\ Alive
    /\ conn[c] \in {"plain", "open", "closing", "closed"}
    /\ \/ c \notin ensuring /\ \E d \in 1..MaxDepth : Gate!Worker(c, d)
       \/ conn[c] = "plain" /\ Outside(c) /\ Gate!EnsureLayer(c)
       \/ Gate!EnsureLayerDone(c)
    /\ UNCHANGED <<connVars, runVars>>

-----------------------------------------------------------------------------
(* run and shutdownServer *)

\* SIGTERM or SIGINT: server.Shutdown begins.
Signal ==
    /\ stage = "serving"
    /\ stage' = "draining"
    /\ UNCHANGED <<gateVars, connVars, pending, failed, unhooked>>

\* server.Serve returned an error: no drain, straight to CloseAll.
ServeFails ==
    /\ stage = "serving"
    /\ stage' = "closeAll"
    /\ failed' = TRUE
    /\ UNCHANGED <<gateVars, connVars, pending, unhooked>>

\* Mutant: the drain does not wait for requests that are being handled.
Drained_Impatient ==
    /\ stage = "draining"
    /\ stage' = "closeAll"
    /\ UNCHANGED <<gateVars, connVars, pending, failed, unhooked>>

Drained ==
    /\ stage = "draining"
    /\ KnownToServer = {}
    /\ stage' = "closeAll"
    /\ UNCHANGED <<gateVars, connVars, pending, failed, unhooked>>

\* Mutant: Shutdown is given a context without a timeout.
DrainTimeout_Never == FALSE /\ UNCHANGED vars

\* The context of shutdownTimeout ends first.
DrainTimeout ==
    /\ stage = "draining"
    /\ stage' = "closeAll"
    /\ failed' = TRUE
    /\ UNCHANGED <<gateVars, connVars, pending, unhooked>>

\* CloseAll copies the set under the lock ...
CloseAllSnapshot ==
    /\ stage = "closeAll"
    /\ pending' = tracked
    /\ unhooked' = {c \in Conns : conn[c] = "handed"}
    /\ stage' = "closing"
    /\ UNCHANGED <<gateVars, connVars, failed>>

\* ... and closes one after the other.  A Close that runs already is waited for.
CloseNext(c) ==
    /\ stage = "closing"
    /\ c \in pending
    /\ conn[c] \notin {"open", "closing"}
    /\ pending' = pending \ {c}
    /\ UNCHANGED <<gateVars, connVars, stage, failed, unhooked>>

\* Mutant: run returns while CloseAll is still at work.
CloseAllDone_Early ==
    /\ stage = "closing"
    /\ stage' = "store"
    /\ UNCHANGED <<gateVars, connVars, pending, failed, unhooked>>

CloseAllDone ==
    /\ stage = "closing"
    /\ pending = {}
    /\ stage' = "store"
    /\ UNCHANGED <<gateVars, connVars, pending, failed, unhooked>>

\* The deferred closeStore, step by step, and its error joined to run's.
CloseStore ==
    /\ stage = "store"
    /\ \/ Gate!Seal(Runner) \/ Gate!CloseDrained(Runner) \/ Gate!CloseTimeout(Runner)
       \/ Gate!Unmap
    /\ UNCHANGED <<connVars, runVars>>

\* Mutant: the error of the deferred closeStore is dropped.
Return_DropsError ==
    /\ stage = "store"
    /\ closer[Runner] = "error" \/ mmm = "unmapped"
    /\ stage' = "returned"
    /\ UNCHANGED <<gateVars, connVars, pending, failed, unhooked>>

Return ==
    /\ stage = "store"
    /\ closer[Runner] = "error" \/ mmm = "unmapped"
    /\ failed' = (failed \/ closer[Runner] = "error")
    /\ stage' = "returned"
    /\ UNCHANGED <<gateVars, connVars, pending, unhooked>>

\* main returns, or L.Fatal exits non-zero: every goroutine is gone.
Exit ==
    /\ stage = "returned"
    /\ stage' = "exited"
    /\ UNCHANGED <<gateVars, connVars, pending, failed, unhooked>>

-----------------------------------------------------------------------------

Connection(c) ==
    \/ Accept(c) \/ StartRequest(c) \/ FinishRequest(c) \/ DropIdle(c)
    \/ Hijack(c) \/ ConnState(c) \/ BeginClose(c) \/ EndClose(c)
    \/ HandlerEnds(c) \/ UseStore(c)

\* What run does on its own once it was told to stop.
Stopping ==
    \/ Drained \/ DrainTimeout \/ CloseAllSnapshot
    \/ \E c \in Conns : CloseNext(c) \/ (c \in pending /\ (BeginClose(c) \/ EndClose(c)))
    \/ CloseAllDone \/ CloseStore \/ Return \/ Exit

Next ==
    \/ \E c \in Conns : Connection(c)
    \/ Signal \/ ServeFails \/ Stopping

Spec == Init /\ [][Next]_vars

(***************************************************************************)
(* Only run is fair: its goroutine is scheduled, timers fire, closing a     *)
(* socket returns.  Requests and store operations may hang forever.         *)
(***************************************************************************)
FairSpec == Spec /\ WF_vars(Stopping)

-----------------------------------------------------------------------------
(* Properties *)

\* main.go:168-171, store.go:39-42: a relay that exits with success cut off no
\* request, left nobody in the store by either way, and closed the store.
SuccessIsClean ==
    (stage \in {"returned", "exited"} /\ ~failed) =>
       /\ KnownToServer = {}
       /\ mmm = "unmapped" /\ Gate!Inside = {} /\ ensuring = {}

\* main.go:88-91, blossom.go:31: the gate keeps the store mapped under guarded
\* operations always, and only the drain keeps it mapped under the layer a reset
\* opens: the two meet only in a stop that reports an error.
UnmappedUnderNobody ==
    mmm = "unmapped" => Gate!Inside = {} /\ (failed \/ ensuring = {})

\* main.go:168-169, conntrack.go:83-84: after an orderly drain, the only
\* websockets still open when the store closes are those whose hijack had not
\* reached the ConnState hook when CloseAll took its snapshot.
OnlyLateHijacksSurvive ==
    (stage \in {"store", "returned", "exited"} /\ ~failed) =>
       {c \in Conns : conn[c] = "open"} \subseteq unhooked

\* main.go:36-42: run always returns once it was told to stop, although
\* requests and store operations may never end.
StopTerminates == stage # "serving" ~> stage = "exited"
=============================================================================
