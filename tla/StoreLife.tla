----------------------------- MODULE StoreLife -----------------------------
(***************************************************************************)
(* What store.go promises about the mapped store: operations come and go    *)
(* while it is open; once closing begins no new operation starts; it is     *)
(* unmapped only when nobody is inside, and never comes back.               *)
(***************************************************************************)
CONSTANT Users

VARIABLES users,   \* operations inside the store
          phase    \* "open", "closing" or "unmapped"

lifeVars == <<users, phase>>

Init == users = {} /\ phase = "open"

Begin(u) ==
    /\ phase = "open"
    /\ u \notin users
    /\ users' = users \cup {u}
    /\ UNCHANGED phase

End(u) ==
    /\ u \in users
    /\ users' = users \ {u}
    /\ UNCHANGED phase

BeginClose ==
    /\ phase = "open"
    /\ phase' = "closing"
    /\ UNCHANGED users

Unmap ==
    /\ phase = "closing"
    /\ users = {}
    /\ phase' = "unmapped"
    /\ UNCHANGED users

Next ==
    \/ \E u \in Users : Begin(u) \/ End(u)
    \/ BeginClose
    \/ Unmap

Spec == Init /\ [][Next]_lifeVars
=============================================================================
