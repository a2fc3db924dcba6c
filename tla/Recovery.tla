------------------------------ MODULE Recovery ------------------------------
(***************************************************************************)
(* Groups with crashes: the process stops at any step, memory is lost, and  *)
(* loadGroupsFromDB (group.go) builds it again from the stored moderation   *)
(* events before the relay serves: scan the create events, newest first,    *)
(* replay each group's events, oldest first, link children to parents, and  *)
(* synchronise the rosters.  Events of one second have no order of their    *)
(* own; the model takes them in any.                                        *)
(***************************************************************************)
EXTENDS Groups

CONSTANT MaxCrashes \* bound: crashes

ASSUME RecoveryAssumption == MaxCrashes \in Nat

VARIABLES boot,       \* where loadGroupsFromDB stands
          crashes,
          before,     \* history: the groups at a crash while nothing was handled
          muddled     \* history: ids with events stored out of order, or in one
                      \* second, or erased, or left in the store by a wipe

recoveryVars == <<boot, crashes, before, muddled>>
allVars == <<vars, recoveryVars>>

Served == [pc |-> "served", creates |-> {}, id |-> None, todo |-> {},
           g |-> NoRoster, kids |-> {}]
Unknown == [id \in GroupIds |-> NoRoster]

RecoveryInit ==
    /\ Init
    /\ boot = Served
    /\ crashes = 0
    /\ before = Unknown
    /\ muddled = ClosedGroups

Oldest(S) == {e \in S : \A f \in S : e.at <= f.at}
Creates == {e \in db : e.kind = "create"}
Moderation(id) == {e \in db : e.group = id /\ e.kind \in ModerationKinds}
IsDeleted(id) == \E e \in Moderation(id) : e.kind = "deleteGroup"

\* The process stops, while serving or starting, and starts again.
Crash ==
    /\ crashes < MaxCrashes
    /\ crashes' = crashes + 1
    /\ up' = FALSE
    /\ heap' = <<>>
    /\ groups' = [id \in GroupIds |-> 0]
    /\ allMembers' = [u \in Users |-> 0]
    /\ deletedGroups' = {} /\ deletedCache' = {}
    /\ hnd' = [h \in Handlers |-> Idle]
    /\ boot' = [Served EXCEPT !.pc = "scan", !.creates = Creates]
    /\ before' = IF Quiet /\ boot.pc = "served"
                 THEN [id \in GroupIds |-> IF id \in Live THEN GroupOf(id) ELSE NoRoster]
                 ELSE Unknown
    /\ UNCHANGED <<storeVars, now, received, fails, disturbed, behind, muddled>>

-----------------------------------------------------------------------------
(* loadGroupsFromDB *)

\* Mutant: a stored deletion is replayed like any other event.
ScanCreate_Replays(e) ==
    /\ boot.pc = "scan" /\ e \in Newest(boot.creates)
    /\ boot' = [boot EXCEPT !.pc = "replay", !.creates = @ \ {e}, !.id = e.group,
                   !.todo = Moderation(e.group),
                   !.g = [NewGroup(e.group) EXCEPT !.parent = e.parent]]
    /\ UNCHANGED <<memVars, storeVars, envVars, hnd>>

\* The next create event; a group with any stored delete event is skipped.
ScanCreate(e) ==
    LET rest == boot.creates \ {e} IN
    /\ boot.pc = "scan" /\ e \in Newest(boot.creates)
    /\ IF IsDeleted(e.group)
       THEN /\ deletedGroups' = deletedGroups \cup {e.group}
            /\ boot' = [boot EXCEPT !.creates = rest]
       ELSE /\ boot' = [boot EXCEPT !.pc = "replay", !.creates = rest, !.id = e.group,
                          !.todo = Moderation(e.group),
                          !.g = [NewGroup(e.group) EXCEPT !.parent = e.parent]]
            /\ UNCHANGED deletedGroups
    /\ UNCHANGED <<heap, groups, allMembers, deletedCache, storeVars, envVars, hnd>>

\* Mutant: the events are applied as the store yields them, newest first.
Replay_NewestFirst(e) ==
    /\ boot.pc = "replay" /\ e \in Newest(boot.todo)
    /\ boot' = [boot EXCEPT !.g = Apply(@, e), !.todo = @ \ {e}]
    /\ allMembers' = CountMembers(allMembers, e)
    /\ UNCHANGED <<heap, groups, deletedGroups, deletedCache, storeVars, envVars, hnd>>

Replay(e) ==
    /\ boot.pc = "replay" /\ e \in Oldest(boot.todo)
    /\ boot' = [boot EXCEPT !.g = Apply(@, e), !.todo = @ \ {e}]
    /\ allMembers' = CountMembers(allMembers, e)
    /\ UNCHANGED <<heap, groups, deletedGroups, deletedCache, storeVars, envVars, hnd>>

Loaded ==
    /\ boot.pc = "replay" /\ boot.todo = {}
    /\ heap' = Append(heap, boot.g)
    /\ groups' = [groups EXCEPT ![boot.id] = Len(heap')]
    /\ deletedGroups' = deletedGroups \ {boot.id}
    /\ boot' = [Served EXCEPT !.pc = "scan", !.creates = boot.creates]
    /\ UNCHANGED <<allMembers, deletedCache, storeVars, envVars, hnd>>

ScanDone ==
    /\ boot.pc = "scan" /\ boot.creates = {}
    /\ boot' = [boot EXCEPT !.pc = "link", !.kids = Live]
    /\ UNCHANGED <<memVars, storeVars, envVars, hnd>>

\* Mutant: the children of a group are left to later events.
LinkChild_Skips(c) ==
    /\ boot.pc = "link" /\ c \in boot.kids
    /\ boot' = [boot EXCEPT !.kids = @ \ {c}]
    /\ UNCHANGED <<memVars, storeVars, envVars, hnd>>

\* addParentChild for each group that has a live parent, in the map's order.
LinkChild(c) ==
    LET parent == GroupOf(c).parent
        p == IF parent = None THEN 0 ELSE groups[parent]
    IN
    /\ boot.pc = "link" /\ c \in boot.kids
    /\ boot' = [boot EXCEPT !.kids = @ \ {c}]
    /\ heap' = IF p # 0 THEN [heap EXCEPT ![p] = AddChild(@, c, GroupOf(c).lastMetadata)]
               ELSE heap
    /\ UNCHANGED <<groups, allMembers, deletedGroups, deletedCache, storeVars, envVars, hnd>>

\* Mutant: the relay serves at once, with the rosters it finds.
StartSync_Skips ==
    /\ boot.pc = "link" /\ boot.kids = {}
    /\ boot' = [boot EXCEPT !.pc = "sync"]
    /\ up' = TRUE
    /\ UNCHANGED <<memVars, storeVars, hnd, now, received, fails, disturbed, behind>>

\* The rosters of all groups are synchronised, in the map's order, by a handler
\* that is free: no other runs before the relay serves.
StartSync ==
    /\ boot.pc = "link" /\ boot.kids = {}
    /\ boot' = [boot EXCEPT !.pc = "sync"]
    /\ up' = TRUE
    /\ \E h \in Handlers, order \in [1..Cardinality(Live) -> {groups[id] : id \in Live}] :
         /\ \A id \in Live : \E i \in DOMAIN order : order[i] = groups[id]
         /\ hnd' = [hnd EXCEPT ![h].pc = "sync", ![h].todo = order]
    /\ UNCHANGED <<memVars, storeVars, now, received, fails, disturbed, behind>>

ServeAgain ==
    /\ boot.pc = "sync" /\ Quiet
    /\ boot' = Served
    /\ UNCHANGED vars

Boot ==
    \/ \E e \in boot.creates : ScanCreate(e)
    \/ \E e \in boot.todo : Replay(e)
    \/ Loaded \/ ScanDone \/ StartSync \/ ServeAgain
    \/ \E c \in boot.kids : LinkChild(c)

-----------------------------------------------------------------------------

\* What the steps of handlers add to the history: a create event shares its time
\* with the put of the creator, and they commute.
Muddles ==
    {e.group : e \in {x \in db' \ db : x.kind # "create" /\ \E f \in db :
                        f.group = x.group /\ f.kind # "create" /\ f.at >= x.at}}
    \cup {e.group : e \in db \ db'}
    \cup {e.group : e \in {x \in db' \ db : x.kind = "create"
                             /\ \E f \in granted : f.group = x.group}}
    \cup {id \in Live \ Live' : \E e \in db' : e.group = id}

ServeStep ==
    /\ \/ \E h \in Handlers : Step(h) \/ Failure(h)
       \/ boot.pc = "served" /\ \E h \in Handlers : Arrival(h)
       \/ Tick
    /\ muddled' = muddled \cup Muddles
    /\ UNCHANGED <<boot, crashes, before>>

RecoveryNext ==
    \/ ServeStep
    \/ Crash
    \/ Boot /\ UNCHANGED <<crashes, before, muddled>>

RecoverySpec == RecoveryInit /\ [][RecoveryNext]_allVars

-----------------------------------------------------------------------------
(* Properties *)

Rebuilt == boot.pc = "sync"

SameGroup(g, f) ==
    /\ g.members = f.members /\ g.roles = f.roles
    /\ g.flags = f.flags /\ g.invites = f.invites /\ g.parent = f.parent

\* group.go:63-125: a group that was live at a quiet moment comes back from a
\* restart with the members, roles, flags and invite codes it had, as long as
\* its events were stored in the order of their times, none was erased or left
\* behind by a wipe, and it is not one that was deleted and created again.
RestartRestoresGroups ==
    Rebuilt => \A id \in GroupIds \ muddled :
       (before[id] # NoRoster /\ ~IsDeleted(id)) =>
          id \in Live /\ SameGroup(GroupOf(id), before[id])

\* group.go:128 "This makes restart a repair operation for older one-sided
\* subgroup metadata": whichever links were lost, after a restart a group lists
\* exactly the live groups that name it as their parent.
RestartRepairsChildren ==
    Rebuilt => \A p, c \in Live : c \in GroupOf(p).children <=> GroupOf(c).parent = p

\* group.go:141-147: whatever a crash left unpublished, when the relay serves
\* again every live group's stored rosters are what memory holds, if no
\* write has failed.
RestartRefreshesRosters ==
    (boot.pc = "sync" /\ Quiet /\ fails = 0) => \A id \in Live : \A k \in DOMAIN rosters[id] :
       rosters[id][k].tags = RosterTags(GroupOf(id), k)

\* group.go:76-87, 124: what was deleted is deleted after a restart, in the list
\* of deleted groups too, wherever the crash came after the event was stored.
DeletedStaysDeletedAcrossRestart ==
    Rebuilt => \A id \in GroupIds : IsDeleted(id) =>
       id \notin Live /\ ((\E e \in Creates : e.group = id) => id \in deletedGroups)
=============================================================================
