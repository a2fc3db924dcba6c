------------------------------- MODULE Groups -------------------------------
(***************************************************************************)
(* The life of an event in the relay: rejectEvent checks it, the relay      *)
(* stores it, ProcessEvent applies it to the group in memory and answers    *)
(* it, SyncGroupMetadataEvents republishes the groups it affected.  khatru  *)
(* runs one goroutine per message, so handlers interleave between the       *)
(* steps; what happens under one lock or in one store call is one step.     *)
(*                                                                          *)
(* A Go *Group is an index into heap; groups maps an id to the index of its *)
(* live object, 0 when State.Groups has none.  Objects dropped from the map *)
(* stay in heap: handlers may still hold them.                              *)
(***************************************************************************)
EXTENDS Nip29, Sequences

CONSTANTS Handlers,     \* goroutines that handle messages
          Owner,        \* the relay owner's public key
          Present,      \* users found in the presence relays
          Submissions,  \* events clients may send, created_at left at 0
          Founded,      \* create events of the groups that exist at startup
          ClosedGroups, \* ids of founded groups their creators closed
          RosterKinds,  \* the replaceable kinds that are modelled, in order
          Epoch,        \* bound: the clock runs from Epoch ...
          MaxTime,      \* bound: ... to MaxTime
          MaxAge,       \* how old a moderation event may be (60 s)
          MaxEvents,    \* bound: number of messages received
          MaxFails,     \* bound: number of failing store operations
          Wipes         \* ids the owner may wipe out

Answered == {"create", "join", "leave"}

\* What a deletion names: events, and versions of a group's replaceable events.
\* A "retract" is a kind-5 deletion, which khatru itself carries out.
Targets == UNION {e.refs : e \in Submissions \cup Founded}
Messages ==
    [kind: ModerationKinds \cup Answered \cup {"note", "retract"}, group: GroupIds,
     author: Users \cup {RelayKey, Owner}, at: Nat,
     users: SUBSET Users, roles: SUBSET RoleNames,
     code: Codes \cup {None}, self: BOOLEAN,
     parent: GroupIds \cup {None}, replace: BOOLEAN,
     on: SUBSET Flags, off: SUBSET Flags, refs: SUBSET Targets]

\* Who asks to create, join or leave a group is one of the users, and the
\* parents of the founded groups make no cycle.
ASSUME GroupsAssumption ==
    /\ Epoch \in Nat \ {0} /\ MaxTime \in Nat /\ MaxAge \in Nat
    /\ MaxEvents \in Nat /\ MaxFails \in Nat
    /\ Present \subseteq Users
    /\ Wipes \subseteq GroupIds
    /\ RosterKinds \in Seq({"metadata", "admins", "members", "roles"})
    /\ Submissions \cup Founded \subseteq Messages
    /\ \A e \in Submissions \cup Founded : e.kind \in Answered => e.author \in Users
    /\ IsFiniteSet(Founded)
    /\ \A e \in Founded : e.kind = "create"
    /\ \A e, f \in Founded : e.group = f.group => e = f
    /\ \A F \in SUBSET Founded : F # {} =>
         \E e \in F : \A f \in F : f.group # e.parent

VARIABLES heap,          \* group objects, a sequence
          groups,        \* State.Groups
          allMembers,    \* State.AllMembers
          deletedGroups, \* State.deletedGroups
          deletedCache,  \* State.deletedCache
          db,            \* regular events in the store
          rosters,       \* replaceable group events in the store
          hnd,           \* where each handler stands
          now,           \* the clock, in seconds
          up,            \* the process runs
          received,      \* messages received so far
          fails,         \* store operations that failed so far
          granted,       \* history: every event ever stored
          disturbed,     \* history: groups whose messages overlapped, or whose
                         \* wipe left something in the store
          behind         \* history: groups changed with no synchronisation since
                         \* that had the group to itself

memVars == <<heap, groups, allMembers, deletedGroups, deletedCache>>
storeVars == <<db, rosters, granted>>
envVars == <<now, up, received, fails, disturbed, behind>>
vars == <<memVars, storeVars, envVars, hnd>>

Live == {id \in GroupIds : groups[id] # 0}
GroupOf(id) == heap[groups[id]]

NoEvent == Event("note", None, None, 0)
Idle == [pc |-> "idle", ev |-> NoEvent, inner |-> NoEvent,
         obj |-> 0, target |-> 0, todo |-> <<>>, cand |-> <<>>, cur |-> 0,
         left |-> {}, hit |-> {}]

\* The process runs, and handler h is at one of these places.
At(h, places) == up /\ hnd[h].pc \in places

NoRoster == [stored |-> FALSE, at |-> 0, tags |-> BlankTags]

\* The id of a stored roster: replacing the roster makes it another event.
VersionOf(id, k) == [group |-> id, roster |-> k, at |-> rosters[id][k].at,
                     tags |-> rosters[id][k].tags]
Versions(id) == {VersionOf(id, k) : k \in {x \in DOMAIN rosters[id] : rosters[id][x].stored}}
Published == UNION {Versions(id) : id \in GroupIds}

\* store.DeleteEvent: whatever has that id leaves the store.
DeleteFromStore(t) ==
    /\ db' = db \ {t}
    /\ rosters' = [id \in GroupIds |-> [k \in DOMAIN rosters[id] |->
                     IF rosters[id][k].stored /\ t = VersionOf(id, k)
                     THEN NoRoster ELSE rosters[id][k]]]
    /\ behind' = behind \cup {id \in GroupIds : t \in Versions(id)}

\* Handlers are busy with the groups their messages name, and with the parent
\* of a group that is deleted.
Concerns(e) ==
    {e.group, e.parent} \cup {t.group : t \in e.refs}
    \cup {heap[i].parent : i \in {j \in DOMAIN heap : e.kind = "deleteGroup"
                                                     /\ heap[j].id = e.group}}
Others(h) == {x \in Handlers \ {h} : hnd[x].pc # "idle"}
Alone(h, id) == \A x \in Others(h) : id \notin Concerns(hnd[x].ev)

\* The history of message e that handler h takes: the groups that another handler
\* is busy with, and all groups if both create subgroups, as the check of either
\* walks links that the other adds.
Nests(e) == e.kind = "create" /\ e.parent # None
Overlap(h, e) == {id \in GroupIds : id \in Concerns(e) /\ ~Alone(h, id)}
Recorded(h, e) ==
    /\ behind' = behind \cup Overlap(h, e)
    /\ disturbed' = disturbed \cup
         IF Nests(e) /\ \E x \in Others(h) : Nests(hnd[x].ev) THEN GroupIds
         ELSE Overlap(h, e)

-----------------------------------------------------------------------------
(* Startup with the founded groups loaded and their rosters published.      *)

CloseEvent(e) ==
    [Event("edit", e.group, e.author, e.at) EXCEPT !.on = {"closed"}]

FoundedObject(e) ==
    LET made == PutUser(CreateGroup(NewGroup(e.group), e), AddCreator(e))
        g == IF e.group \in ClosedGroups THEN Apply(made, CloseEvent(e)) ELSE made
    IN
    [g EXCEPT !.parent = e.parent,
              !.children = {f.group : f \in {x \in Founded : x.parent = e.group}}]

InitMemory ==
    \E order \in [1..Cardinality(Founded) -> Founded] :
       /\ \A e \in Founded : \E i \in DOMAIN order : order[i] = e
       /\ heap = [i \in DOMAIN order |-> FoundedObject(order[i])]
       /\ groups = [id \in GroupIds |->
                      IF \E i \in DOMAIN order : order[i].group = id
                      THEN CHOOSE i \in DOMAIN order : order[i].group = id
                      ELSE 0]

Init ==
    /\ InitMemory
    /\ allMembers = [u \in Users |->
                       Cardinality({e \in Founded : e.author = u})]
    /\ deletedGroups = {}
    /\ deletedCache = {}
    /\ db = Founded \cup {AddCreator(e) : e \in Founded}
               \cup {CloseEvent(e) : e \in {f \in Founded : f.group \in ClosedGroups}}
    /\ granted = db
    /\ rosters = [id \in GroupIds |-> [k \in {RosterKinds[i] : i \in DOMAIN RosterKinds} |->
                    IF groups[id] = 0 THEN NoRoster
                    ELSE [stored |-> TRUE,
                          at |-> IF k = "roles" THEN 1 ELSE RosterAt(GroupOf(id), k),
                          tags |-> RosterTags(GroupOf(id), k)]]]
    /\ hnd = [h \in Handlers |-> Idle]
    /\ now = Epoch
    /\ up = TRUE
    /\ received = 0
    /\ fails = 0
    /\ disturbed = {}
    /\ behind = {}

-----------------------------------------------------------------------------
(* rejectEvent: an event is accepted when no check turns it down.  A        *)
(* rejected event changes nothing here and is not a step.                   *)

\* Mutant: only the new group itself is refused as its parent.
WouldCreateCycle_OneStep(new, parent) == new = parent

\* wouldCreateCycle: the walk up from parent meets new, or it never ends.  Both
\* times some set holds parent, and the Parent link of no other member than new
\* leads out of it.  (The walk gives up after 1024 links; no chain is as long.)
WouldCreateCycle(new, parent) ==
    \E S \in SUBSET GroupIds :
       /\ parent \in S
       /\ \A id \in S \ {new} : id \in Live /\ GroupOf(id).parent \in S

AcceptsCreate(e) ==
    /\ e.group \notin Live
    /\ e.author \in Present
    /\ e.parent # None =>
         /\ e.parent \in Live
         /\ Admin \in GroupOf(e.parent).roles[e.author]
         /\ ~WouldCreateCycle(e.group, e.parent)

\* The store's newest remove-user event for the user, of any group; ids break
\* ties, in an order the model leaves open.
Removals(u) == {e \in db : e.kind = "remove" /\ u \in e.users}
Newest(S) == {e \in S : \A f \in S : f.at <= e.at}

AcceptsJoin(g, e) ==
    /\ IF "closed" \in g.flags
       THEN e.code # None /\ g.invites[e.code] > 0
       ELSE e.author \in Present
    /\ e.author \notin g.members
    /\ Removals(e.author) # {} => \E r \in Newest(Removals(e.author)) : r.self

MayWrite(g, u) ==
    IF g.flags \cap {"restricted", "closed"} # {} THEN u \in g.members
    ELSE u \in Present

AcceptsEdit(g, e) ==
    /\ "private" \in g.flags => e.off \cap {"closed", "private"} = {}
    /\ "private" \in e.on => "closed" \in g.flags \cup e.on

\* Mutant: whoever may write may also hand out roles.
AcceptsModeration_AnyWriter(g, e) ==
    e.kind = "put" => \E u \in e.users : u \notin g.members \/ g.roles[u] # e.roles

AcceptsModeration(g, e) ==
    /\ g.roles[e.author] # {}
    /\ CASE e.kind = "invite" -> "closed" \in g.flags
         [] e.kind = "edit"   -> AcceptsEdit(g, e)
         [] e.kind = "put"    ->
              \E u \in e.users : u \notin g.members \/ g.roles[u] # e.roles
         [] e.kind = "remove" -> e.users \cap g.members # {}
         [] e.kind = "deleteEvent" ->
              /\ e.refs \cap (db \cup Published) # {}
              /\ Admin \in g.roles[e.author] \/
                 \A t \in e.refs \cap db :
                    t.author \in Users => Admin \notin g.roles[t.author]
         [] e.kind = "deleteGroup" -> Admin \in g.roles[e.author]

AcceptsInGroup(g, e) ==
    /\ MayWrite(g, e.author)
    /\ e \notin deletedCache
    /\ e.kind \in ModerationKinds => AcceptsModeration(g, e)

Accepts(e) ==
    \/ e.author = RelayKey
    \/ /\ e.kind \in ModerationKinds => e.at + MaxAge >= now
       /\ CASE e.kind = "create" -> AcceptsCreate(e)
            [] e.kind = "join"   -> e.group \in Live /\ AcceptsJoin(GroupOf(e.group), e)
            [] OTHER ->
                 /\ e.group \in Live
                 /\ \/ e.kind = "deleteGroup" /\ e.author = Owner
                    \/ AcceptsInGroup(GroupOf(e.group), e)

\* OnEvent accepts the event; a client's create goes on to its placeholder.
Receive(h, e) ==
    /\ At(h, {"idle"})
    /\ received < MaxEvents
    /\ Accepts(e)
    /\ received' = received + 1
    /\ Recorded(h, e)
    /\ hnd' = [hnd EXCEPT ![h] = [Idle EXCEPT !.ev = e, !.left = e.refs,
                 !.pc = IF e.kind = "create" /\ e.author # RelayKey
                        THEN "place" ELSE "store"]]
    /\ UNCHANGED <<memVars, storeVars, now, up, fails>>

\* The end of rejectEvent for a create: checks and placeholder are two steps.
Placeholder(h) ==
    /\ At(h, {"place"})
    /\ heap' = Append(heap, NewGroup(hnd[h].ev.group))
    /\ groups' = [groups EXCEPT ![hnd[h].ev.group] = Len(heap')]
    /\ behind' = behind \cup {hnd[h].ev.group}
    /\ hnd' = [hnd EXCEPT ![h].pc = "store"]
    /\ UNCHANGED <<allMembers, deletedGroups, deletedCache, storeVars,
                   now, up, received, fails, disturbed>>

-----------------------------------------------------------------------------
(* relay.StoreEvent: store.SaveEvent, with the rollback of the placeholder. *)

StoreEvent(h) ==
    LET e == hnd[h].ev IN
    /\ At(h, {"store"})
    /\ e \notin db
    /\ db' = db \cup {e}
    /\ granted' = granted \cup {e}
    /\ hnd' = [hnd EXCEPT ![h].pc = "process"]
    /\ UNCHANGED <<memVars, rosters, envVars>>

\* The message is handled; for a kind-5 event khatru goes on to its targets.
Handled(h) == IF hnd[h].ev.kind = "retract" THEN [hnd[h] EXCEPT !.pc = "retract"]
              ELSE Idle

\* ErrDupEvent: OnEventSaved does not run.
StoreDuplicate(h) ==
    /\ At(h, {"store"})
    /\ hnd[h].ev \in db
    /\ hnd' = [hnd EXCEPT ![h] = Handled(h)]
    /\ UNCHANGED <<memVars, storeVars, envVars>>

\* Mutant: the error is logged and the event processed.
StoreFails_Ignored(h) ==
    /\ At(h, {"store"})
    /\ fails < MaxFails
    /\ fails' = fails + 1
    /\ hnd' = [hnd EXCEPT ![h].pc = "process"]
    /\ UNCHANGED <<memVars, storeVars, now, up, received, disturbed, behind>>

\* Mutant: the placeholder stays.
StoreFails_KeepsPlaceholder(h) ==
    /\ At(h, {"store"})
    /\ fails < MaxFails
    /\ fails' = fails + 1
    /\ hnd' = [hnd EXCEPT ![h] = Idle]
    /\ UNCHANGED <<memVars, storeVars, now, up, received, disturbed, behind>>

StoreFails(h) ==
    LET e == hnd[h].ev IN
    /\ At(h, {"store"})
    /\ fails < MaxFails
    /\ fails' = fails + 1
    /\ groups' = IF e.kind = "create" THEN [groups EXCEPT ![e.group] = 0]
                 ELSE groups
    /\ hnd' = [hnd EXCEPT ![h] = Idle]
    /\ UNCHANGED <<heap, allMembers, deletedGroups, deletedCache, storeVars,
                   now, up, received, disturbed, behind>>

-----------------------------------------------------------------------------
(* ProcessEvent, create: register the group, link it to its parent, store   *)
(* and process the creator's put-user event, apply the creation.            *)

Register(h) ==
    LET e == hnd[h].ev IN
    /\ At(h, {"process"})
    /\ e.kind = "create"
    /\ heap' = Append(heap, [NewGroup(e.group) EXCEPT !.parent = e.parent])
    /\ groups' = [groups EXCEPT ![e.group] = Len(heap')]
    /\ deletedGroups' = deletedGroups \ {e.group}
    /\ hnd' = [hnd EXCEPT ![h].pc = IF e.parent = None THEN "creator" ELSE "link",
                          ![h].obj = Len(heap'),
                          ![h].todo = IF e.parent = None THEN <<Len(heap')>> ELSE <<>>]
    /\ UNCHANGED <<allMembers, deletedCache, storeVars, envVars>>

\* addParentChild and removeParentChild on the group object.
AddChild(g, child, when) ==
    [g EXCEPT !.children = @ \cup {child},
              !.lastMetadata = IF when > @ THEN when ELSE @]

RemoveChild(g, child, when) ==
    [g EXCEPT !.children = @ \ {child},
              !.lastMetadata = IF when > @ THEN when ELSE @]

Link(h) ==
    LET e == hnd[h].ev
        p == groups[e.parent]
        added == p # 0 /\ e.group \notin heap[p].children
    IN
    /\ At(h, {"link"})
    /\ heap' = IF added THEN [heap EXCEPT ![p] = AddChild(@, e.group, e.at)]
               ELSE heap
    /\ hnd' = [hnd EXCEPT ![h].pc = "creator",
                          ![h].todo = IF added THEN <<p, hnd[h].obj>>
                                      ELSE <<hnd[h].obj>>]
    /\ UNCHANGED <<groups, allMembers, deletedGroups, deletedCache, storeVars,
                   envVars>>

\* After the creator is processed: CreateGroup.Apply.
ApplyCreate(h) ==
    /\ At(h, {"created"})
    /\ heap' = [heap EXCEPT ![hnd[h].obj] = Apply(@, hnd[h].ev)]
    /\ hnd' = [hnd EXCEPT ![h].pc = "tail"]
    /\ UNCHANGED <<groups, allMembers, deletedGroups, deletedCache, storeVars,
                   envVars>>

-----------------------------------------------------------------------------
(* ProcessEvent, the event the relay writes itself: it is saved, and then   *)
(* processed like any other.  When saving fails the caller returns at once. *)

InnerEvent(h) ==
    LET e == hnd[h].ev IN
    CASE e.kind = "create" -> AddCreator(e)
      [] e.kind = "join"   -> AddUser(e, now)
      [] e.kind = "leave"  -> SelfRemoval(e, now)

\* Mutant: the relay's own event is saved and not processed.
SaveInner_NotProcessed(h) ==
    /\ At(h, {"creator", "reply"})
    /\ InnerEvent(h) \notin db
    /\ db' = db \cup {InnerEvent(h)}
    /\ granted' = granted \cup {InnerEvent(h)}
    /\ hnd' = [hnd EXCEPT ![h].pc = "sync"]
    /\ UNCHANGED <<memVars, rosters, envVars>>

SaveInner(h) ==
    /\ At(h, {"creator", "reply"})
    /\ InnerEvent(h) \notin db
    /\ db' = db \cup {InnerEvent(h)}
    /\ granted' = granted \cup {InnerEvent(h)}
    /\ hnd' = [hnd EXCEPT ![h].pc = "inner", ![h].inner = InnerEvent(h)]
    /\ UNCHANGED <<memVars, rosters, envVars>>

\* ErrDupEvent is an error here like any other.
SaveInnerDuplicate(h) ==
    /\ At(h, {"creator", "reply"})
    /\ InnerEvent(h) \in db
    /\ hnd' = [hnd EXCEPT ![h].pc = "sync"]
    /\ UNCHANGED <<memVars, storeVars, envVars>>

\* Mutant: the error is logged and the event processed.
SaveInnerFails_Ignored(h) ==
    /\ At(h, {"creator", "reply"})
    /\ fails < MaxFails
    /\ fails' = fails + 1
    /\ hnd' = [hnd EXCEPT ![h].pc = "inner", ![h].inner = InnerEvent(h)]
    /\ UNCHANGED <<memVars, storeVars, now, up, received, disturbed, behind>>

SaveInnerFails(h) ==
    /\ At(h, {"creator", "reply"})
    /\ fails < MaxFails
    /\ fails' = fails + 1
    /\ hnd' = [hnd EXCEPT ![h].pc = "sync"]
    /\ UNCHANGED <<memVars, storeVars, now, up, received, disturbed, behind>>

-----------------------------------------------------------------------------
(* ProcessEvent, the moderation action of the event, or of the event the    *)
(* relay wrote in answer to it: load the group, then apply under its lock.  *)

Action(h) == IF hnd[h].ev.kind \in Answered THEN hnd[h].inner ELSE hnd[h].ev

Loads(h) ==
    \/ At(h, {"inner"})
    \/ At(h, {"process"}) /\ hnd[h].ev.kind \in ModerationKinds \ {"create"}

Load(h) ==
    /\ Loads(h)
    /\ groups[Action(h).group] # 0
    /\ hnd' = [hnd EXCEPT ![h].pc = "apply",
                          ![h].target = groups[Action(h).group]]
    /\ UNCHANGED <<memVars, storeVars, envVars>>

\* group.mu is dereferenced: a nil group panics, and nothing recovers.
Panic(h) ==
    /\ Loads(h)
    /\ groups[Action(h).group] = 0
    /\ up' = FALSE
    /\ UNCHANGED <<memVars, storeVars, hnd, now, received, fails, disturbed, behind>>

\* Mutant: a deleted group stays in its parent's list.
AfterApply_StaysLinked(e, g) ==
    CASE e.kind = "create"          -> "created"
      [] e.kind \in {"join", "leave"} -> "sync"
      [] e.kind = "deleteEvent"     -> "erase"
      [] e.kind = "deleteGroup"     -> "drop"
      [] OTHER                      -> "tail"

AfterApply(e, g) ==
    CASE e.kind = "create"          -> "created"
      [] e.kind \in {"join", "leave"} -> "sync"
      [] e.kind = "deleteEvent"     -> "erase"
      [] e.kind = "deleteGroup"     -> IF g.parent = None THEN "drop" ELSE "unlink"
      [] OTHER                      -> "tail"

\* action.Apply, then the AllMembers counts.
ApplyAction(h) ==
    LET p == hnd[h].target IN
    /\ At(h, {"apply"})
    /\ heap' = [heap EXCEPT ![p] = Apply(@, Action(h))]
    /\ allMembers' = CountMembers(allMembers, Action(h))
    /\ hnd' = [hnd EXCEPT ![h].pc = AfterApply(hnd[h].ev, heap[p])]
    /\ UNCHANGED <<groups, deletedGroups, deletedCache, storeVars, envVars>>

\* delete-event: one target after the other leaves the store, and enters the
\* cache unless the store failed.
Erase(h) ==
    /\ At(h, {"erase"})
    /\ \E t \in hnd[h].left :
         /\ DeleteFromStore(t)
         /\ hnd' = [hnd EXCEPT ![h].pc = "cache", ![h].left = @ \ {t}, ![h].hit = {t}]
    /\ UNCHANGED <<memVars, granted, now, up, received, fails, disturbed>>

EraseFails(h) ==
    /\ At(h, {"erase"})
    /\ fails < MaxFails
    /\ fails' = fails + 1
    /\ \E t \in hnd[h].left : hnd' = [hnd EXCEPT ![h].left = @ \ {t}]
    /\ UNCHANGED <<memVars, storeVars, now, up, received, disturbed, behind>>

CacheDeleted(h) ==
    /\ At(h, {"cache"})
    /\ deletedCache' = deletedCache \cup hnd[h].hit
    /\ hnd' = [hnd EXCEPT ![h].pc = "erase", ![h].hit = {}]
    /\ UNCHANGED <<heap, groups, allMembers, deletedGroups, storeVars, envVars>>

EraseDone(h) ==
    /\ At(h, {"erase"})
    /\ hnd[h].left = {}
    /\ hnd' = [hnd EXCEPT ![h].pc = "tail"]
    /\ UNCHANGED <<memVars, storeVars, envVars>>

\* delete-group: leave the parent, leave the map.  The deleted group itself is
\* not among the groups to republish.
Unlink(h) ==
    LET e == hnd[h].ev
        p == groups[heap[hnd[h].target].parent]
        removed == p # 0 /\ e.group \in heap[p].children
    IN
    /\ At(h, {"unlink"})
    /\ heap' = IF removed THEN [heap EXCEPT ![p] = RemoveChild(@, e.group, e.at)]
               ELSE heap
    /\ hnd' = [hnd EXCEPT ![h].pc = "drop",
                          ![h].todo = IF removed THEN <<p>> ELSE <<>>]
    /\ UNCHANGED <<groups, allMembers, deletedGroups, deletedCache, storeVars,
                   envVars>>

Drop(h) ==
    LET e == hnd[h].ev IN
    /\ At(h, {"drop"})
    /\ deletedGroups' = deletedGroups \cup {e.group}
    /\ groups' = [groups EXCEPT ![e.group] = 0]
    /\ hnd' = [hnd EXCEPT ![h].pc = "sync"]
    /\ UNCHANGED <<heap, allMembers, deletedCache, storeVars, envVars>>

\* The common end looks the group up again, and it may be another object now.
LookAgain(h) ==
    LET q == groups[hnd[h].ev.group]
        known == \E i \in DOMAIN hnd[h].todo : hnd[h].todo[i] = q
    IN
    /\ At(h, {"tail"})
    /\ hnd' = [hnd EXCEPT ![h].pc = "sync",
                          ![h].todo = IF q = 0 \/ known THEN @ ELSE Append(@, q)]
    /\ UNCHANGED <<memVars, storeVars, envVars>>

-----------------------------------------------------------------------------
(* ProcessEvent, join and leave requests and everything else                *)

React(h) ==
    LET e == hnd[h].ev
        p == groups[e.group]
        answers == \/ e.kind = "join"
                   \/ e.kind = "leave" /\ e.author \in heap[p].members
    IN
    /\ At(h, {"process"})
    /\ e.kind \in {"join", "leave", "note", "retract"}
    /\ hnd' = [hnd EXCEPT ![h] =
                 IF p = 0 THEN Handled(h)
                 ELSE [@ EXCEPT !.obj = p, !.todo = <<p>>,
                                !.pc = IF answers THEN "reply" ELSE "sync"]]
    /\ UNCHANGED <<memVars, storeVars, envVars>>

-----------------------------------------------------------------------------
(* SyncGroupMetadataEvents for every affected group: a snapshot under the   *)
(* read lock, then for each kind read the stored event and replace it.      *)

Candidates(g) ==
    [i \in DOMAIN RosterKinds |->
       [id |-> g.id, kind |-> RosterKinds[i],
        at |-> RosterAt(g, RosterKinds[i]),
        tags |-> RosterTags(g, RosterKinds[i])]]

Snapshot(h) ==
    /\ At(h, {"sync"})
    /\ hnd[h].todo # <<>>
    /\ hnd' = [hnd EXCEPT ![h].pc = "read",
                          ![h].cand = Candidates(heap[Head(hnd[h].todo)]),
                          ![h].todo = Tail(@)]
    /\ LET id == heap[Head(hnd[h].todo)].id IN
       behind' = IF Alone(h, id) /\ groups[id] = Head(hnd[h].todo)
                 THEN behind \ {id} ELSE behind
    /\ UNCHANGED <<memVars, storeVars, now, up, received, fails, disturbed>>

Finish(h) ==
    /\ At(h, {"sync"})
    /\ hnd[h].todo = <<>>
    /\ hnd' = [hnd EXCEPT ![h] = Handled(h)]
    /\ UNCHANGED <<memVars, storeVars, envVars>>

StoredRoster(c) == rosters[c.id][c.kind]

\* The stored event has the same tags in the same order.
SkipRoster(h) ==
    LET c == Head(hnd[h].cand) IN
    /\ At(h, {"read"})
    /\ hnd[h].cand # <<>>
    /\ StoredRoster(c).stored /\ StoredRoster(c).tags = c.tags
    /\ hnd' = [hnd EXCEPT ![h].cand = Tail(@)]
    /\ UNCHANGED <<memVars, storeVars, envVars>>

ReadRoster(h) ==
    LET c == Head(hnd[h].cand) IN
    /\ At(h, {"read"})
    /\ hnd[h].cand # <<>>
    /\ \/ ~StoredRoster(c).stored
       \/ StoredRoster(c).tags # c.tags
       \/ MayReorder(c.tags)
    /\ hnd' = [hnd EXCEPT ![h].pc = "write", ![h].cur = StoredRoster(c).at]
    /\ UNCHANGED <<memVars, storeVars, envVars>>

RostersDone(h) ==
    /\ At(h, {"read"})
    /\ hnd[h].cand = <<>>
    /\ hnd' = [hnd EXCEPT ![h].pc = "sync", ![h].cur = 0]
    /\ UNCHANGED <<memVars, storeVars, envVars>>

\* Mutant: the time of the triggering event is kept.
Bumped_Copied(c, cur) == c.at

\* The candidate's created_at, moved past the event that was read.
Bumped(c, cur) == IF cur >= c.at THEN cur + 1 ELSE c.at

\* mmm.ReplaceEvent stores the event if the stored one is older; equal times
\* are decided by the ids, in an order the model leaves open.  It returns no
\* error either way.
WriteRoster(h) ==
    LET c == Head(hnd[h].cand)
        at == Bumped(c, hnd[h].cur)
        old == StoredRoster(c)
    IN
    /\ At(h, {"write"})
    /\ \/ /\ old.stored => old.at <= at
          /\ rosters' = [rosters EXCEPT ![c.id][c.kind] =
                           [stored |-> TRUE, at |-> at, tags |-> c.tags]]
       \/ /\ old.stored /\ old.at >= at
          /\ UNCHANGED rosters
    /\ hnd' = [hnd EXCEPT ![h].pc = "read", ![h].cand = Tail(@)]
    /\ UNCHANGED <<memVars, db, granted, envVars>>

WriteRosterFails(h) ==
    /\ At(h, {"write"})
    /\ fails < MaxFails
    /\ fails' = fails + 1
    /\ behind' = behind \cup {Head(hnd[h].cand).id}
    /\ hnd' = [hnd EXCEPT ![h].pc = "read", ![h].cand = Tail(@)]
    /\ UNCHANGED <<memVars, storeVars, now, up, received, disturbed>>

-----------------------------------------------------------------------------
(* khatru, handleDeleteRequest: the targets of a kind-5 event that the relay *)
(* finds are deleted, until one is somebody else's or cannot be deleted.    *)

\* query with the id of the target: an event of no live group stays hidden.
Finds(t) == t \in db \cup Published /\ t.group \in Live

\* Rosters are the relay's own events.
Wrote(u, t) == u = IF t \in db THEN t.author ELSE RelayKey

Retract(h) ==
    /\ At(h, {"retract"})
    /\ \E t \in hnd[h].left :
         /\ Finds(t) => Wrote(hnd[h].ev.author, t)
         /\ IF Finds(t) THEN DeleteFromStore(t) ELSE UNCHANGED <<db, rosters, behind>>
         /\ hnd' = [hnd EXCEPT ![h].left = @ \ {t}]
    /\ UNCHANGED <<memVars, granted, now, up, received, fails, disturbed>>

RetractEnds(h) ==
    /\ At(h, {"retract"})
    /\ hnd[h].left # {} =>
         \E t \in hnd[h].left : Finds(t) /\ ~Wrote(hnd[h].ev.author, t)
    /\ hnd' = [hnd EXCEPT ![h] = Idle]
    /\ UNCHANGED <<memVars, storeVars, envVars>>

RetractFails(h) ==
    /\ At(h, {"retract"})
    /\ \E t \in hnd[h].left : Finds(t) /\ Wrote(hnd[h].ev.author, t)
    /\ fails < MaxFails
    /\ fails' = fails + 1
    /\ hnd' = [hnd EXCEPT ![h] = Idle]
    /\ UNCHANGED <<memVars, storeVars, now, up, received, disturbed, behind>>

-----------------------------------------------------------------------------
(* wipeGroupHandler: delete the group's events, newest first, then its       *)
(* rosters, then forget the group.  An event the store does not delete is    *)
(* logged and left.                                                          *)

Wipe(h, id) ==
    /\ At(h, {"idle"})
    /\ received < MaxEvents
    /\ received' = received + 1
    /\ id \in Live
    /\ Recorded(h, [NoEvent EXCEPT !.group = id])
    /\ hnd' = [hnd EXCEPT ![h] = [Idle EXCEPT !.pc = "wipeEvents",
                 !.ev = [NoEvent EXCEPT !.group = id], !.obj = groups[id],
                 !.left = {e \in db : e.group = id}]]
    /\ UNCHANGED <<memVars, storeVars, now, up, fails>>

\* The target whose turn it is.
WipeTurn(h, t) ==
    /\ At(h, {"wipeEvents", "wipeRosters"})
    /\ t \in hnd[h].left
    /\ \A x \in hnd[h].left : x.at <= t.at

WipeOne(h) ==
    /\ \E t \in hnd[h].left :
         /\ WipeTurn(h, t)
         /\ DeleteFromStore(t)
         /\ hnd' = [hnd EXCEPT ![h].left = @ \ {t}]
    /\ UNCHANGED <<memVars, granted, now, up, received, fails, disturbed>>

WipeOneFails(h) ==
    /\ fails < MaxFails
    /\ fails' = fails + 1
    /\ \E t \in hnd[h].left :
         WipeTurn(h, t) /\ hnd' = [hnd EXCEPT ![h].left = @ \ {t}]
    /\ disturbed' = disturbed \cup {hnd[h].ev.group}
    /\ UNCHANGED <<memVars, storeVars, now, up, received, behind>>

\* Mutant: only the events that carry the group's h tag are deleted.
WipeRosters_Kept(h) ==
    /\ At(h, {"wipeEvents"})
    /\ hnd[h].left = {}
    /\ hnd' = [hnd EXCEPT ![h].pc = "wipeRosters"]
    /\ UNCHANGED <<memVars, storeVars, envVars>>

\* The second query, for the events with the group's d tag.
WipeRosters(h) ==
    /\ At(h, {"wipeEvents"})
    /\ hnd[h].left = {}
    /\ hnd' = [hnd EXCEPT ![h].pc = "wipeRosters",
                          ![h].left = Versions(hnd[h].ev.group)]
    /\ UNCHANGED <<memVars, storeVars, envVars>>

WipeMemory(h) ==
    LET g == heap[hnd[h].obj] IN
    /\ At(h, {"wipeRosters"})
    /\ hnd[h].left = {}
    /\ allMembers' = [u \in Users |-> IF u \in g.members
                        THEN Monus(allMembers[u], 1) ELSE allMembers[u]]
    /\ groups' = [groups EXCEPT ![g.id] = 0]
    /\ hnd' = [hnd EXCEPT ![h] = Idle]
    /\ UNCHANGED <<heap, deletedGroups, deletedCache, storeVars, envVars>>

-----------------------------------------------------------------------------

Tick ==
    /\ up
    /\ now < MaxTime
    /\ now' = now + 1
    /\ UNCHANGED <<memVars, storeVars, hnd, up, received, fails, disturbed, behind>>

\* What a handler does with the message it took.
Step(h) ==
    \/ Placeholder(h) \/ StoreEvent(h) \/ StoreDuplicate(h)
    \/ Register(h) \/ Link(h) \/ ApplyCreate(h)
    \/ SaveInner(h) \/ SaveInnerDuplicate(h) \/ Load(h) \/ ApplyAction(h)
    \/ Erase(h) \/ CacheDeleted(h) \/ EraseDone(h) \/ Unlink(h) \/ Drop(h)
    \/ LookAgain(h) \/ React(h)
    \/ Snapshot(h) \/ Finish(h) \/ SkipRoster(h) \/ ReadRoster(h)
    \/ RostersDone(h) \/ WriteRoster(h) \/ Retract(h) \/ RetractEnds(h)
    \/ WipeOne(h) \/ WipeRosters(h) \/ WipeMemory(h)

Failure(h) ==
    \/ StoreFails(h) \/ SaveInnerFails(h) \/ EraseFails(h)
    \/ WriteRosterFails(h) \/ RetractFails(h) \/ WipeOneFails(h) \/ Panic(h)

Arrival(h) ==
    \/ \E e \in Submissions, t \in Epoch..MaxTime : Receive(h, [e EXCEPT !.at = t])
    \/ \E id \in Wipes : Wipe(h, id)

Next ==
    \/ \E h \in Handlers : Step(h) \/ Failure(h) \/ Arrival(h)
    \/ Tick

Spec == Init /\ [][Next]_vars

-----------------------------------------------------------------------------
(* Properties *)

Quiet == up /\ \A h \in Handlers : hnd[h].pc = "idle"

Places == {"idle", "place", "store", "process", "link", "creator", "inner",
           "apply", "created", "erase", "cache", "unlink", "drop", "tail",
           "reply", "sync", "read", "write", "retract", "wipeEvents",
           "wipeRosters"}

\* The types of the relay's state; the map only points at objects of its id.
TypeOK ==
    /\ heap \in Seq(GroupRecords)
    /\ groups \in [GroupIds -> 0..Len(heap)]
    /\ \A id \in Live : GroupOf(id).id = id
    /\ allMembers \in [Users -> Nat]
    /\ deletedGroups \subseteq GroupIds
    /\ \A h \in Handlers :
         /\ hnd[h].pc \in Places
         /\ hnd[h].obj \in 0..Len(heap) /\ hnd[h].target \in 0..Len(heap)
         /\ \A i \in DOMAIN hnd[h].todo : hnd[h].todo[i] \in 1..Len(heap)
    /\ now \in Nat /\ up \in BOOLEAN /\ received \in Nat /\ fails \in Nat
    /\ disturbed \subseteq GroupIds

Puts(id) == {e \in granted : e.kind = "put" /\ e.group = id}

\* relay.go:46-59, process_event.go:38-60: memory never runs ahead of the
\* store.  Whatever handlers interleave, every member of every live group, with
\* exactly the roles held, goes back to a put-user event that was stored.
MembersAreRecorded ==
    \A id \in Live : \A u \in GroupOf(id).members :
       \E e \in Puts(id) : u \in e.users /\ e.roles = GroupOf(id).roles[u]

\* reject_event.go:180-187: roles are only handed out by the relay itself (to a
\* creator) or by someone who had been given roles in that group before.
RolesTraceToAuthority ==
    \A id \in Live : \A u \in Users :
       GroupOf(id).roles[u] # {} =>
          \E e \in Puts(id) :
             /\ u \in e.users /\ e.roles = GroupOf(id).roles[u]
             /\ \/ e.author = RelayKey
                \/ \E f \in Puts(id) : e.author \in f.users /\ f.roles # {}

\* group.go:276-352: rosters come from snapshots of possibly dropped objects,
\* yet nobody is ever published who was not put into a group of that id.
PublishedPeopleWerePut ==
    \A id \in GroupIds : \A k \in DOMAIN rosters[id] :
       \A u \in rosters[id][k].tags.people :
          \E e \in granted : e.kind = "put" /\ e.group = id /\ u \in e.users

\* group.go:322-331 "the freshest roster always lands": once no message is in
\* progress, what is published about a group is what memory holds.  A failing
\* write, a deleted roster, a placeholder or messages that overlapped may leave a
\* group behind; the next message that has the group to itself must make up for
\* it, whatever times and snapshots the others left in the store.
FreshestRosterLands ==
    Quiet => \A id \in Live \ behind : \A k \in DOMAIN rosters[id] :
       rosters[id][k].stored /\ rosters[id][k].tags = RosterTags(GroupOf(id), k)

Joins(id, c) ==
    {e \in granted : e.kind = "put" /\ e.author = RelayKey /\ e.group = id /\ e.code = c}
Invites(id, c) == {e \in granted : e.kind = "invite" /\ e.group = id /\ e.code = c}

\* The group has been there and closed since the start.
AlwaysClosed(id) ==
    /\ groups[id] \in 1..Cardinality(Founded)
    /\ \A e \in granted : e.group = id =>
         "closed" \notin e.off /\ (e.replace => "closed" \in e.on)

PerCopy(id) == IF id \in disturbed THEN Cardinality(Handlers) ELSE 1

\* reject_event.go:110, moderation_actions.go:252-257 (nip29): a code is checked
\* when a join is accepted and used up when its answer is applied.  Each copy
\* issued admits one person where messages do not overlap and, however they do,
\* at most one per handler.  The empty code is never used up, and an invite that
\* its author deleted may be sent again.
InvitesAreSpent ==
    \A id \in ClosedGroups, c \in Codes \ {EmptyCode} :
       (AlwaysClosed(id) /\ \A e \in granted : e.refs \cap Invites(id, c) = {}) =>
          Cardinality(Joins(id, c)) <= PerCopy(id) * Cardinality(Invites(id, c))

\* reject_event.go:65-67 "the link must not form a cycle": every set of live
\* groups has a member whose parent is outside it, unless two subgroups were
\* being created at once: both checks then walk links without the other's.
ParentsAreAcyclic ==
    \A S \in SUBSET (Live \ disturbed) :
       S # {} => \E id \in S : GroupOf(id).parent \notin S

\* group.go:28 read from the parent: every listed child is a live group that
\* names this group as its parent.
ChildrenAreLive ==
    Quiet => \A id \in Live : \A c \in GroupOf(id).children :
                c \in Live /\ GroupOf(c).parent = id

HasItsMembers(id) ==
    \A e \in Puts(id) \cap db : \A u \in e.users :
       \/ u \in GroupOf(id).members
       \/ \E f \in granted : /\ f.group = id
                            /\ \/ f.kind = "remove" /\ u \in f.users
                               \/ f.kind = "deleteGroup"

\* process_event.go:38-60, 133-162: once nothing is in progress, memory has
\* caught up with the store: whoever a stored put-user event added, and no
\* event ever removed, is a member, of a group whose messages did not overlap.
StoredMembersAreInMemory ==
    Quiet => \A id \in Live \ disturbed : HasItsMembers(id)

\* reject_event.go:86-88 "Eagerly register a placeholder so concurrent events for
\* this group don't race against the async handleEventSaved": the same, with
\* messages that overlap.
NoMemberIsLost ==
    Quiet => \A id \in Live : HasItsMembers(id)

\* wipe.go:36-55, group.templ:196 "This will delete this group and all its
\* events": once a wipe is over, neither the store nor the published rosters hold
\* anything of the group, unless another message of it was in progress or the
\* store failed to delete something.
WipedLeavesNothing ==
    Quiet => \A id \in Wipes \ (Live \cup deletedGroups \cup disturbed) :
       /\ \A e \in db : e.group # id
       /\ \A k \in DOMAIN rosters[id] : ~rosters[id][k].stored

\* relay.go:46-59: a create that is not stored leaves no group behind: once
\* nothing is in progress every live group has a create event that was stored.
LiveGroupsWereCreated ==
    Quiet => \A id \in Live : \E e \in granted : e.kind = "create" /\ e.group = id

\* process_event_panic_test.go:67 "khatru runs OnEventSaved in a way that would
\* recover a panic": a panicking handler does not end the process.
ProcessSurvives == up
=============================================================================
