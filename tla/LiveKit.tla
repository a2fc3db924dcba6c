------------------------------ MODULE LiveKit ------------------------------
(***************************************************************************)
(* livekit.go: tokens for the audio rooms of groups, and the webhooks by    *)
(* which the LiveKit server says that somebody joined or left.  A webhook   *)
(* carries no list: the handler fetches the room's participants, then puts  *)
(* them into the group under its lock, then replaces the stored event.      *)
(*                                                                          *)
(* An identity is <<user, suffix>>: generateLiveKitToken appends a random   *)
(* suffix, so that one user can be in a room with several devices.  The     *)
(* server also lets in identities of its own making, which name no user.    *)
(***************************************************************************)
EXTENDS Integers, FiniteSets

CONSTANTS Users, GroupIds, Hooks,
          Suffixes,   \* random suffixes of identities
          Guests,     \* names in identities the relay did not make
          Enabled,    \* groups with LiveKit at the start
          MaxMoves,   \* bound: tokens, joins and leaves
          MaxChanges, \* bound: changes of groups, erased lists
          MaxFaults,  \* bound: lost webhooks, failing calls and restarts
          MaxTime     \* bound: the clock

ASSUME LiveKitAssumption ==
    /\ Enabled \subseteq GroupIds
    /\ MaxMoves \in Nat /\ MaxChanges \in Nat /\ MaxFaults \in Nat
    /\ MaxTime \in Nat

VARIABLES group,        \* the group object of each id
          livekitRooms, \* rooms the relay takes for existing
          tokens,       \* tokens handed out
          room,         \* identities in each room, on the server
          pending,      \* webhooks on their way, per room
          hook,         \* where each webhook handler stands
          stored,       \* the participants event of each group
          now, moves, changes, faults,
          last,         \* history: when each group's list was last set
          strayed,      \* history: groups no webhook has caught up with yet
          unsaved       \* history: groups no list was saved for yet

groupVars == <<group, changes>>
roomVars == <<tokens, room, livekitRooms, moves>>
history == <<last, strayed, unsaved>>
vars == <<groupVars, roomVars, pending, hook, stored, now, faults, history>>

UserOf(i) == i[1]
UsersIn(g) == {UserOf(i) : i \in room[g]} \cap Users
Active(h, g) == hook[h].pc # "idle" /\ hook[h].gid = g
Overlaps(g) == \E h \in Hooks : Active(h, g)
Alone(h, g) == \A k \in Hooks \ {h} : ~Active(k, g)
IdleHook == [pc |-> "idle", gid |-> "", made |-> 0, people |-> {}, at |-> 0]

NoList == [at |-> 0, people |-> {}]
NewGroup(n, on) == [made |-> n, live |-> TRUE, livekit |-> on, people |-> {}]

Init ==
    /\ group = [g \in GroupIds |-> NewGroup(1, g \in Enabled)]
    /\ livekitRooms = {} /\ tokens = {}
    /\ room = [g \in GroupIds |-> {}]
    /\ pending = [g \in GroupIds |-> 0]
    /\ hook = [h \in Hooks |-> IdleHook]
    /\ stored = [g \in GroupIds |-> NoList]
    /\ now = 1 /\ moves = 0 /\ changes = 0 /\ faults = 0
    /\ last = [g \in GroupIds |-> 0]
    /\ strayed = {} /\ unsaved = {}

-----------------------------------------------------------------------------
(* livekitAuthHandler: a signed request for a token of a group's room.      *)

Serves(g) == group[g].live /\ group[g].livekit

\* The cache, or CreateRoom answered with OK or Conflict; on another answer
\* there is no token.
ensureLiveKitRoom(g) == livekitRooms' = livekitRooms \cup {g}

GiveToken(g, u, s) ==
    /\ moves < MaxMoves
    /\ moves' = moves + 1
    /\ Serves(g)
    /\ ensureLiveKitRoom(g)
    /\ tokens' = tokens \cup {[gid |-> g, identity |-> <<u, s>>]}
    /\ tokens' # tokens
    /\ UNCHANGED <<groupVars, room, pending, hook, stored, now,
                   faults, history>>

-----------------------------------------------------------------------------
(* The LiveKit server: a participant joins or leaves, and a webhook is sent *)

Move(g, people) ==
    /\ moves < MaxMoves
    /\ moves' = moves + 1
    /\ room' = [room EXCEPT ![g] = people]
    /\ pending' = [pending EXCEPT ![g] = @ + 1]
    /\ UNCHANGED <<groupVars, tokens, livekitRooms, hook, stored, now,
                   faults, history>>

JoinRoom(g, i) ==
    /\ i \notin room[g]
    /\ UserOf(i) \in Guests \/ [gid |-> g, identity |-> i] \in tokens
    /\ Move(g, room[g] \cup {i})

LeaveRoom(g, i) ==
    /\ i \in room[g]
    /\ Move(g, room[g] \ {i})

LoseWebhook(g) ==
    /\ pending[g] > 0 /\ faults < MaxFaults
    /\ faults' = faults + 1
    /\ pending' = [pending EXCEPT ![g] = @ - 1]
    /\ strayed' = strayed \cup {g}
    /\ UNCHANGED <<groupVars, roomVars, hook, stored, now, last, unsaved>>

-----------------------------------------------------------------------------
(* livekitWebhookHandler *)

Refuse(g) ==
    /\ pending[g] > 0 /\ ~Serves(g)
    /\ pending' = [pending EXCEPT ![g] = @ - 1]
    /\ strayed' = strayed \cup {g}
    /\ UNCHANGED <<groupVars, roomVars, hook, stored, now, faults, last, unsaved>>

Receive(h, g) ==
    /\ hook[h].pc = "idle" /\ pending[g] > 0 /\ Serves(g)
    /\ pending' = [pending EXCEPT ![g] = @ - 1]
    /\ hook' = [hook EXCEPT ![h] = [IdleHook EXCEPT !.pc = "fetch", !.gid = g,
                                                    !.made = group[g].made]]
    /\ strayed' = IF Overlaps(g) THEN strayed \cup {g} ELSE strayed
    /\ UNCHANGED <<groupVars, roomVars, stored, now, faults, last, unsaved>>

\* Mutant: a user with a second device is struck out again.
listLiveKitParticipants_Once(g) ==
    {u \in UsersIn(g) : \A i, j \in room[g] : UserOf(i) = u /\ UserOf(j) = u => i = j}

\* Every user once, whatever the number of devices; other identities are skipped.
listLiveKitParticipants(g) == UsersIn(g)

\* A handler that asks alone, for the group there is, is about to catch up.
Fetch(h) ==
    LET g == hook[h].gid IN
    /\ hook[h].pc = "fetch"
    /\ hook' = [hook EXCEPT ![h].pc = "apply", ![h].people = listLiveKitParticipants(g)]
    /\ strayed' = IF Alone(h, g) /\ group[g].live /\ group[g].made = hook[h].made
                  THEN strayed \ {g} ELSE strayed
    /\ UNCHANGED <<groupVars, roomVars, pending, stored, now, faults, last, unsaved>>

FetchFails(h) ==
    /\ hook[h].pc = "fetch" /\ faults < MaxFaults
    /\ faults' = faults + 1
    /\ hook' = [hook EXCEPT ![h] = IdleHook]
    /\ strayed' = strayed \cup {hook[h].gid}
    /\ UNCHANGED <<groupVars, roomVars, pending, stored, now, last, unsaved>>

\* Under group.mu, on the object that was loaded: it may have been deleted.  The
\* event is dated with this second, which another list may have had.
ApplyList(h) ==
    LET g == hook[h].gid
        inOrder == group[g].made = hook[h].made /\ now > last[g] IN
    /\ hook[h].pc = "apply"
    /\ group' = IF group[g].made = hook[h].made
                THEN [group EXCEPT ![g].people = hook[h].people]
                ELSE group
    /\ hook' = [hook EXCEPT ![h].pc = "write", ![h].at = now]
    /\ last' = [last EXCEPT ![g] = now]
    /\ strayed' = IF inOrder THEN strayed ELSE strayed \cup {g}
    /\ unsaved' = IF inOrder THEN unsaved \ {g} ELSE unsaved \cup {g}
    /\ UNCHANGED <<changes, roomVars, pending, stored, now, faults>>

\* Mutant: the last writer wins, whatever the times.
Replaces_LastWins(g, at) == {TRUE}

\* store.ReplaceEvent: the later event stays; equal times are decided by ids.
Replaces(g, at) ==
    IF at = stored[g].at THEN BOOLEAN ELSE {at > stored[g].at}

\* The event is broadcast either way.
WriteList(h) ==
    LET g == hook[h].gid IN
    /\ hook[h].pc = "write"
    /\ \E lands \in Replaces(g, hook[h].at) :
          stored' = IF lands
                    THEN [stored EXCEPT ![g] = [at |-> hook[h].at, people |-> hook[h].people]]
                    ELSE stored
    /\ hook' = [hook EXCEPT ![h] = IdleHook]
    /\ UNCHANGED <<groupVars, roomVars, pending, now, faults, history>>

\* An error of store.ReplaceEvent is not looked at: the group keeps the list.
WriteListFails(h) ==
    /\ hook[h].pc = "write" /\ faults < MaxFaults
    /\ faults' = faults + 1
    /\ hook' = [hook EXCEPT ![h] = IdleHook]
    /\ strayed' = strayed \cup {hook[h].gid}
    /\ unsaved' = unsaved \cup {hook[h].gid}
    /\ UNCHANGED <<groupVars, roomVars, pending, stored, now, last>>

-----------------------------------------------------------------------------
(* Meanwhile: edit-metadata, delete-group, create-group; a delete-event or  *)
(* the wipe takes the stored list away; the relay restarts, without lists.  *)

ChangeGroup(g, new) ==
    /\ changes < MaxChanges
    /\ changes' = changes + 1
    /\ group' = [group EXCEPT ![g] = new]
    /\ UNCHANGED <<roomVars, pending, hook, stored, now, faults, last>>

SwitchLiveKit(g) ==
    /\ group[g].live
    /\ ChangeGroup(g, [group[g] EXCEPT !.livekit = ~@])
    /\ UNCHANGED <<strayed, unsaved>>

DeleteGroup(g) ==
    /\ group[g].live
    /\ ChangeGroup(g, [group[g] EXCEPT !.live = FALSE, !.livekit = FALSE, !.people = {}])
    /\ strayed' = strayed \cup {g} /\ unsaved' = unsaved \cup {g}

CreateGroup(g) ==
    /\ ~group[g].live
    /\ ChangeGroup(g, NewGroup(group[g].made + 1, FALSE))
    /\ strayed' = strayed \cup {g} /\ unsaved' = unsaved \cup {g}

EraseList(g) ==
    /\ changes < MaxChanges
    /\ changes' = changes + 1
    /\ stored[g] # NoList
    /\ stored' = [stored EXCEPT ![g] = NoList]
    /\ strayed' = strayed \cup {g} /\ unsaved' = unsaved \cup {g}
    /\ UNCHANGED <<group, roomVars, pending, hook, now, faults, last>>

Restart ==
    /\ faults < MaxFaults
    /\ faults' = faults + 1
    /\ hook' = [h \in Hooks |-> IdleHook]
    /\ group' = [g \in GroupIds |-> [group[g] EXCEPT !.people = {}]]
    /\ livekitRooms' = {}
    /\ strayed' = GroupIds /\ unsaved' = GroupIds
    /\ UNCHANGED <<changes, tokens, room, moves, pending, stored, now, last>>

Tick ==
    /\ now < MaxTime
    /\ now' = now + 1
    /\ UNCHANGED <<groupVars, roomVars, pending, hook, stored, faults, history>>

Handle(h) == Fetch(h) \/ ApplyList(h) \/ WriteList(h)

Next ==
    \/ \E g \in GroupIds :
          \/ \E u \in Users, s \in Suffixes : GiveToken(g, u, s)
          \/ \E i \in (Users \cup Guests) \X Suffixes : JoinRoom(g, i) \/ LeaveRoom(g, i)
          \/ LoseWebhook(g) \/ Refuse(g)
          \/ \E h \in Hooks : Receive(h, g)
          \/ SwitchLiveKit(g) \/ DeleteGroup(g) \/ CreateGroup(g) \/ EraseList(g)
    \/ \E h \in Hooks : Handle(h) \/ FetchFails(h) \/ WriteListFails(h)
    \/ Restart
    \/ Tick

Spec == Init /\ [][Next]_vars

-----------------------------------------------------------------------------
(* Properties *)

Settled(g) == pending[g] = 0 /\ ~Overlaps(g)

\* livekit.go:174-189: whatever was lost, failed, overlapped, erased or forgotten
\* in a restart, the next webhook that asks alone, in a second of its own, and
\* whose write succeeds leaves the group with exactly the users who are in the
\* room, in memory and in the store, however moves and calls interleave with it.
ListCatchesUp ==
    \A g \in GroupIds \ strayed : Settled(g) =>
       /\ group[g].people = UsersIn(g)
       /\ stored[g].people = UsersIn(g)

\* livekit.go:182-190: with handlers that overlap, and whichever list each one
\* holds, the store ends up with the list memory has: the times of the events
\* keep the order of the lock.  A write that fails, a second with two lists, an
\* erased list or a new object is made good by the next list that is set.
StoreFollowsMemory ==
    \A g \in GroupIds \ unsaved :
       (\A h \in Hooks : Active(h, g) => hook[h].pc # "write")
          => stored[g].people = group[g].people
=============================================================================
