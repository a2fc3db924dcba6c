----------------------------- MODULE GroupLock -----------------------------
(***************************************************************************)
(* The RWMutex of one group (Group.mu) and the goroutines that use it.      *)
(* Every message is a sequence of critical sections, one after the other:   *)
(*   "join"     rejectEvent's checks of a join request, all under RLock      *)
(*   "check"    any other look at the group by rejectEvent, wipe, the cycle  *)
(*              walk                                                         *)
(*   "apply"    a change under Lock: action.Apply, the child links, the      *)
(*              participants of a LiveKit room                               *)
(*   "snapshot" SyncGroupMetadataEvents collects the candidates              *)
(*   "show"     a query or a broadcast asks whether a reader may see it      *)
(*   "glance"   a flag, the parent or the kinds are read without any lock    *)
(*   "peek"     a leave request looks at Members without any lock            *)
(* The lock is Go's: a writer announces itself, readers that come later      *)
(* queue behind it, and are let in together when it unlocks.                 *)
(***************************************************************************)
EXTENDS Integers, Sequences, FiniteSets

CONSTANTS Tasks,    \* goroutines
          NoTask,   \* no writer
          MaxLeaks  \* bound: read locks that are never given back

ASSUME GroupLockAssumption == NoTask \notin Tasks /\ MaxLeaks \in Nat

VARIABLES todo,       \* the sections each task still has to go through
          place,      \* its place in the first one: "before", "queued", "in"
          held,       \* read locks the task holds
          announced,  \* the writer that holds or waits for the lock
          leaks,      \* read locks whose holder has ended
          up          \* the process runs

vars == <<todo, place, held, announced, leaks, up>>

\* Messages, as the sections of the code they run through.
JoinRequest == <<"join", "apply", "show", "snapshot", "show">>
LeaveRequest ==
    <<"glance", "check", "glance", "peek", "apply", "show", "snapshot", "show">>
Moderation ==
    <<"glance", "check", "glance", "apply", "glance", "snapshot", "show">>
Query == <<"glance", "show">>
PrivateQuery == <<"glance", "check", "show">>
TokenRequest == <<"glance">>
Webhook == <<"glance", "apply", "show">>
Messages == {JoinRequest, LeaveRequest, Moderation, Query, PrivateQuery, TokenRequest, Webhook}

Section(t) == Head(todo[t])
Busy(t) == todo[t] # <<>>
At(t, p) == up /\ Busy(t) /\ place[t] = p

Reads(s) == s \in {"join", "check", "snapshot", "show"}

\* Sections after which the message may be turned down, or be done.
MayEnd == {"join", "check", "glance", "peek"}

Init ==
    /\ todo = [t \in Tasks |-> <<>>]
    /\ place = [t \in Tasks |-> "before"]
    /\ held = [t \in Tasks |-> 0]
    /\ announced = NoTask
    /\ leaks = 0
    /\ up = TRUE

Receive(t, m) ==
    /\ up
    /\ ~Busy(t)
    /\ todo' = [todo EXCEPT ![t] = m]
    /\ UNCHANGED <<place, held, announced, leaks, up>>

-----------------------------------------------------------------------------
(* sync.RWMutex *)

RLock(t) ==
    /\ At(t, "before")
    /\ Reads(Section(t))
    /\ IF announced = NoTask
       THEN /\ place' = [place EXCEPT ![t] = "in"]
            /\ held' = [held EXCEPT ![t] = @ + 1]
       ELSE /\ place' = [place EXCEPT ![t] = "queued"]
            /\ UNCHANGED held
    /\ UNCHANGED <<todo, announced, leaks, up>>

\* Lock, first half: past the mutex of the writers.
Announce(t) ==
    /\ At(t, "before")
    /\ Section(t) = "apply"
    /\ announced = NoTask
    /\ announced' = t
    /\ place' = [place EXCEPT ![t] = "queued"]
    /\ UNCHANGED <<todo, held, leaks, up>>

\* Lock, second half: the readers that were there before are gone.
Lock(t) ==
    /\ At(t, "queued")
    /\ announced = t
    /\ leaks = 0 /\ \A u \in Tasks : held[u] = 0
    /\ place' = [place EXCEPT ![t] = "in"]
    /\ UNCHANGED <<todo, held, announced, leaks, up>>

\* What may come after a section: the next one, or the end of the message.
After(t) == {Tail(todo[t])} \cup {x \in {<<>>} : Section(t) \in MayEnd}

\* No lock is asked for, and any writer may be inside.
Glance(t) ==
    /\ At(t, "before")
    /\ Section(t) = "glance"
    /\ \E rest \in After(t) : todo' = [todo EXCEPT ![t] = rest]
    /\ UNCHANGED <<place, held, announced, leaks, up>>

\* Neither here; reading the map takes time.
Peek(t) ==
    /\ At(t, "before")
    /\ Section(t) = "peek"
    /\ place' = [place EXCEPT ![t] = "in"]
    /\ UNCHANGED <<todo, held, announced, leaks, up>>

\* Mutant: the snapshot's lock is kept while its events are broadcast.
RUnlock_AfterBroadcast(t) ==
    /\ At(t, "in")
    /\ Section(t) # "apply"
    /\ held' = [held EXCEPT ![t] = IF Section(t) = "snapshot" THEN @ ELSE 0]
    /\ \E rest \in After(t) : todo' = [todo EXCEPT ![t] = rest]
    /\ place' = [place EXCEPT ![t] = "before"]
    /\ UNCHANGED <<announced, leaks, up>>

\* The section ends.  A check may turn the event down, and a leave request of
\* someone who is no member is done.
RUnlock(t) ==
    /\ At(t, "in")
    /\ Section(t) # "apply"
    /\ held' = [held EXCEPT ![t] = 0]
    /\ \E rest \in After(t) : todo' = [todo EXCEPT ![t] = rest]
    /\ place' = [place EXCEPT ![t] = "before"]
    /\ UNCHANGED <<announced, leaks, up>>

\* The join check of an open group returns when presence is missing, and does
\* not unlock.
RUnlockForgotten(t) ==
    /\ At(t, "in")
    /\ Section(t) = "join"
    /\ leaks < MaxLeaks
    /\ leaks' = leaks + 1
    /\ held' = [held EXCEPT ![t] = 0]
    /\ todo' = [todo EXCEPT ![t] = <<>>]
    /\ place' = [place EXCEPT ![t] = "before"]
    /\ UNCHANGED <<announced, up>>

\* The readers behind the writer are let in.
Unlock(t) ==
    LET readers == {u \in Tasks : place[u] = "queued"} IN
    /\ At(t, "in")
    /\ Section(t) = "apply"
    /\ announced' = NoTask
    /\ todo' = [todo EXCEPT ![t] = Tail(@)]
    /\ place' = [u \in Tasks |-> CASE u = t        -> "before"
                                   [] u \in readers -> "in"
                                   [] OTHER         -> place[u]]
    /\ held' = [u \in Tasks |-> IF u \in readers THEN held[u] + 1 ELSE held[u]]
    /\ UNCHANGED <<leaks, up>>

\* A map read that overlaps a map write: the Go runtime may end the process.
\* The other unlocked looks are at words and slices, and only see an old or a
\* new value.
FatalRace(t) ==
    /\ At(t, "in")
    /\ Section(t) = "peek"
    /\ \E u \in Tasks : At(u, "in") /\ Section(u) = "apply"
    /\ up' = FALSE
    /\ UNCHANGED <<todo, place, held, announced, leaks>>

Step(t) ==
    RLock(t) \/ Announce(t) \/ Lock(t) \/ Glance(t) \/ Peek(t) \/ RUnlock(t) \/ Unlock(t)

Next ==
    \E t \in Tasks :
       \/ Step(t)
       \/ RUnlockForgotten(t)
       \/ FatalRace(t)
       \/ \E m \in Messages : Receive(t, m)

Spec == Init /\ [][Next]_vars

(***************************************************************************)
(* A goroutine that can run is run.  The mutex behind Lock hands itself to  *)
(* a writer that waits too long (starvation mode), however many writers     *)
(* come: strong fairness of Announce.  New messages are not fair.           *)
(***************************************************************************)
FairSpec ==
    /\ Spec
    /\ \A t \in Tasks : WF_vars(Step(t)) /\ SF_vars(Announce(t))

-----------------------------------------------------------------------------
(* Properties *)

\* process_event.go:66-69, process_event_panic_test.go:28-29 "so the group stays
\* usable": every message gets the lock each time it needs it, and ends.
TasksFinish == \A t \in Tasks : Busy(t) ~> (~Busy(t) \/ ~up)

\* group.go:279-285: as long as no read lock was forgotten no group wedges,
\* however readers, broadcasts and writers interleave and keep coming.
NoWedgeWithoutLeak == [](leaks = 0) => TasksFinish
=============================================================================
