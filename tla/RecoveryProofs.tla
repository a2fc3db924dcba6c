--------------------------- MODULE RecoveryProofs ---------------------------
(***************************************************************************)
(* Proofs about Recovery: what a restart rebuilds, for any number of        *)
(* handlers, any crashes and any groups and messages; then, with one        *)
(* handler, what holds of Groups and of Recovery because messages are       *)
(* handled one at a time.                                                   *)
(***************************************************************************)
EXTENDS Recovery, GroupsProofs

BootPlaces == {"served", "scan", "replay", "link", "sync"}
Starting == {"scan", "replay", "link"}
Publishing == {"idle", "sync", "read", "write"}

BootRecords ==
    [pc: BootPlaces, creates: SUBSET Messages, id: GroupIds \cup {None},
     todo: SUBSET Messages, g: GroupRecords \cup {NoRoster}, kids: SUBSET GroupIds]

\* Nothing is handled while memory is rebuilt, and one handler publishes after.
PhaseInv ==
    /\ boot \in BootRecords
    /\ boot.pc \in Starting => ~up /\ \A h \in Handlers : hnd[h] = Idle
    /\ boot.pc = "sync" =>
         /\ boot.creates = {} /\ boot.kids = {}
         /\ \A h \in Handlers : hnd[h].pc \in Publishing /\ hnd[h].ev = NoEvent
         /\ \A h, k \in Handlers : hnd[h].pc # "idle" /\ hnd[k].pc # "idle" => h = k
    /\ boot.pc \in {"scan", "replay"} => boot.creates \subseteq Creates
    /\ boot.pc = "link" => boot.creates = {} /\ boot.kids \subseteq Live

\* A create event of this id with this parent is stored.
StoredCreate(id, p) == \E e \in Creates : e.group = id /\ e.parent = p

\* The object being rebuilt is one of a group that was created and not deleted.
ReplayInv ==
    boot.pc = "replay" =>
       /\ boot.id \in GroupIds /\ boot.g \in GroupRecords /\ boot.g.id = boot.id
       /\ OnRecord(boot.g, granted)
       /\ boot.todo \subseteq Moderation(boot.id)
       /\ ~IsDeleted(boot.id)
       /\ boot.g.children = {}
       /\ StoredCreate(boot.id, boot.g.parent)

\* So is every object rebuilt, and every create event met has its effect.
RebuiltInv ==
    boot.pc # "served" =>
       /\ \A id \in Live : ~IsDeleted(id) /\ StoredCreate(id, GroupOf(id).parent)
       /\ \A e \in Creates \ boot.creates :
            IF IsDeleted(e.group) THEN e.group \in deletedGroups
            ELSE e.group \in Live \/ (boot.pc = "replay" /\ e.group = boot.id)

\* The groups not linked to their parents yet.
Waiting == IF boot.pc \in {"scan", "replay"} THEN Live ELSE boot.kids

LinksInv ==
    boot.pc # "served" =>
       /\ \A p \in Live : GroupOf(p).children \subseteq Live
       /\ \A p, c \in Live :
            c \in GroupOf(p).children <=> (GroupOf(c).parent = p /\ c \notin Waiting)

BootInv == GroupInv /\ StoreInv /\ PhaseInv /\ ReplayInv /\ RebuiltInv /\ LinksInv

-----------------------------------------------------------------------------
(* Serving *)

\* A handler only runs while the process does, and only with a message.
LEMMA HandlerRuns ==
    ASSUME NEW h \in Handlers, Step(h) \/ Failure(h)
    PROVE  up /\ hnd[h].pc # "idle"
<1>1. CASE Step(h)
    BY <1>1 DEF Step, Placeholder, StoreEvent, StoreDuplicate,
           Register, Link, ApplyCreate, SaveInner, SaveInnerDuplicate,
           Load, Loads, ApplyAction, Erase, CacheDeleted, EraseDone, Unlink, Drop,
           LookAgain, React, Snapshot, Finish, SkipRoster, ReadRoster, RostersDone,
           WriteRoster, Retract, RetractEnds, WipeOne, WipeTurn, WipeRosters, WipeMemory, At
<1>2. CASE Failure(h)
    BY <1>2 DEF Failure, StoreFails, SaveInnerFails, EraseFails, WriteRosterFails,
           RetractFails, WipeOneFails, WipeTurn, Panic, Loads, At
<1> QED
    BY <1>1, <1>2

\* group.go:141-147, main.go: while memory is rebuilt nothing is handled; while the
\* rosters are synchronised one handler publishes, and memory and the stored
\* events stay as they are.
LEMMA ServesInSync ==
    ASSUME GroupInv, PhaseInv, boot.pc # "served", ServeStep
    PROVE  /\ boot.pc = "sync"
           /\ UNCHANGED <<heap, groups, deletedGroups, db, granted, boot>>
           /\ \/ Tick
              \/ \E h \in Handlers : \/ Snapshot(h) \/ Finish(h) \/ SkipRoster(h)
                                     \/ ReadRoster(h) \/ RostersDone(h)
                                     \/ WriteRoster(h) \/ WriteRosterFails(h)
<1>1. up
    BY HandlerRuns DEF ServeStep, Tick
<1>2. boot.pc = "sync"
    BY <1>1 DEF PhaseInv, BootRecords, BootPlaces, Starting
<1>3. ASSUME NEW h \in Handlers, Step(h) \/ Failure(h)
      PROVE  \/ Snapshot(h) \/ Finish(h) \/ SkipRoster(h) \/ ReadRoster(h)
             \/ RostersDone(h) \/ WriteRoster(h) \/ WriteRosterFails(h)
  <2>1. hnd[h].pc \in {"idle", "sync", "read", "write"}
      BY <1>2 DEF PhaseInv, Publishing
  <2> QED
      BY <1>3, <2>1 DEF Step, Failure, Placeholder, StoreEvent, StoreDuplicate,
           StoreFails, Register, Link, ApplyCreate, SaveInner, SaveInnerDuplicate,
           SaveInnerFails, Load, Loads, Panic, ApplyAction, Erase, EraseFails,
           CacheDeleted, EraseDone, Unlink, Drop, LookAgain, React, Retract, RetractEnds,
           RetractFails, WipeOne, WipeOneFails, WipeTurn, WipeRosters, WipeMemory, At
<1>4. \/ Tick
      \/ \E h \in Handlers : \/ Snapshot(h) \/ Finish(h) \/ SkipRoster(h)
                             \/ ReadRoster(h) \/ RostersDone(h)
                             \/ WriteRoster(h) \/ WriteRosterFails(h)
    BY <1>2, <1>3 DEF ServeStep
<1>5. UNCHANGED <<heap, groups, deletedGroups, db, granted>>
    BY <1>4 DEF Tick, Snapshot, Finish, SkipRoster, ReadRoster, RostersDone,
                WriteRoster, WriteRosterFails, memVars, storeVars
<1> QED
    BY <1>2, <1>4, <1>5 DEF ServeStep

\* state.go: what the invariants read of memory and of the stored events.
LEMMA SameMemory ==
    ASSUME UNCHANGED <<heap, groups, deletedGroups, db, granted, boot>>
    PROVE  /\ ReplayInv' <=> ReplayInv
           /\ RebuiltInv' <=> RebuiltInv
           /\ LinksInv' <=> LinksInv
           /\ StoreInv' <=> StoreInv
           /\ Live' = Live /\ Creates' = Creates
BY DEF ReplayInv, RebuiltInv, LinksInv, StoreInv, Live, Creates, GroupOf, StoredCreate,
       IsDeleted, Moderation, Waiting

\* group.go:141-147: the handler that publishes goes on publishing, or is done.
LEMMA PublishingMoves ==
    ASSUME GroupInv, NEW h \in Handlers, hnd[h].ev = NoEvent,
           \/ Snapshot(h) \/ Finish(h) \/ SkipRoster(h) \/ ReadRoster(h)
           \/ RostersDone(h) \/ WriteRoster(h) \/ WriteRosterFails(h)
    PROVE  /\ hnd[h].pc # "idle" /\ hnd'[h].pc \in Publishing /\ hnd'[h].ev = NoEvent
           /\ \A k \in Handlers \ {h} : hnd'[k] = hnd[k]
<1>1. hnd \in [Handlers -> HandlerRecords] /\ hnd[h] \in HandlerRecords
    BY DEF GroupInv, GroupsTypeOK
<1>2. hnd[h].pc \in {"sync", "read", "write"}
    BY DEF Snapshot, Finish, SkipRoster, ReadRoster, RostersDone, WriteRoster,
           WriteRosterFails, At
<1>3. CASE Finish(h)
  <2>1. Handled(h) = Idle
      BY DEF Handled, NoEvent, Event
  <2> QED
      BY <1>1, <1>2, <1>3, <2>1 DEF Finish, Idle, Publishing
<1>4. CASE Snapshot(h)
    BY <1>1, <1>2, <1>4 DEF Snapshot, Publishing, HandlerRecords
<1>5. CASE SkipRoster(h)
    BY <1>1, <1>2, <1>5 DEF SkipRoster, Publishing, HandlerRecords
<1>6. CASE ReadRoster(h)
    BY <1>1, <1>2, <1>6 DEF ReadRoster, Publishing, HandlerRecords
<1>7. CASE RostersDone(h)
    BY <1>1, <1>2, <1>7 DEF RostersDone, Publishing, HandlerRecords
<1>8. CASE WriteRoster(h) \/ WriteRosterFails(h)
    BY <1>1, <1>2, <1>8 DEF WriteRoster, WriteRosterFails, Publishing, HandlerRecords
<1> QED
    BY <1>3, <1>4, <1>5, <1>6, <1>7, <1>8

\* Serving, and synchronising after a restart, keep the invariant.
LEMMA ServeKeeps ==
    ASSUME BootInv, ServeStep PROVE BootInv'
<1>1. GroupInv /\ StoreInv /\ PhaseInv /\ ReplayInv /\ RebuiltInv /\ LinksInv
    BY DEF BootInv
<1>2. Next
    BY DEF ServeStep, Next
<1>3. GroupInv' /\ StoreInv'
    BY <1>1, <1>2, StepKeeps
<1>4. boot' = boot
    BY DEF ServeStep
<1>5. CASE boot.pc = "served"
    BY <1>1, <1>3, <1>4, <1>5
       DEF BootInv, PhaseInv, ReplayInv, RebuiltInv, LinksInv, Starting
<1>6. CASE boot.pc # "served"
  <2>1. /\ boot.pc = "sync"
        /\ UNCHANGED <<heap, groups, deletedGroups, db, granted, boot>>
        /\ \/ Tick
           \/ \E h \in Handlers : \/ Snapshot(h) \/ Finish(h) \/ SkipRoster(h)
                                  \/ ReadRoster(h) \/ RostersDone(h)
                                  \/ WriteRoster(h) \/ WriteRosterFails(h)
      BY <1>1, <1>6, ServesInSync
  <2>2. ReplayInv' /\ RebuiltInv' /\ LinksInv'
      BY <1>1, <2>1, SameMemory
  <2>3. /\ \A h \in Handlers : hnd'[h].pc \in Publishing /\ hnd'[h].ev = NoEvent
        /\ \A h, k \in Handlers : hnd'[h].pc # "idle" /\ hnd'[k].pc # "idle" => h = k
    <3>1. CASE Tick
        BY <1>1, <2>1, <3>1 DEF PhaseInv, Tick
    <3>2. ASSUME NEW h \in Handlers,
                 \/ Snapshot(h) \/ Finish(h) \/ SkipRoster(h) \/ ReadRoster(h)
                 \/ RostersDone(h) \/ WriteRoster(h) \/ WriteRosterFails(h)
          PROVE  /\ \A k \in Handlers : hnd'[k].pc \in Publishing /\ hnd'[k].ev = NoEvent
                 /\ \A j, k \in Handlers : hnd'[j].pc # "idle" /\ hnd'[k].pc # "idle" => j = k
      <4>0. hnd[h].ev = NoEvent
          BY <1>1, <2>1 DEF PhaseInv
      <4>1. /\ hnd[h].pc # "idle" /\ hnd'[h].pc \in Publishing /\ hnd'[h].ev = NoEvent
            /\ \A k \in Handlers \ {h} : hnd'[k] = hnd[k]
          BY <1>1, <3>2, <4>0, PublishingMoves
      <4> QED
          BY <1>1, <2>1, <4>1 DEF PhaseInv
    <3> QED
        BY <2>1, <3>1, <3>2
  <2>4. PhaseInv'
      BY <1>1, <2>1, <2>3 DEF PhaseInv, Starting
  <2> QED
      BY <1>3, <2>2, <2>4 DEF BootInv
<1> QED
    BY <1>5, <1>6

-----------------------------------------------------------------------------
(* Stopping and starting *)

\* The process stops: memory is empty, and the scan has every create event ahead.
LEMMA CrashKeeps ==
    ASSUME BootInv, Crash PROVE BootInv'
<1>1. GroupInv /\ StoreInv /\ PhaseInv
    BY DEF BootInv
<1>2. /\ up' = FALSE /\ heap' = <<>> /\ groups' = [id \in GroupIds |-> 0]
      /\ allMembers' = [u \in Users |-> 0] /\ deletedGroups' = {}
      /\ hnd' = [h \in Handlers |-> Idle]
      /\ boot' = [Served EXCEPT !.pc = "scan", !.creates = Creates]
      /\ UNCHANGED <<db, rosters, granted, now, received, fails>>
    BY DEF Crash, storeVars
<1>3. Len(heap') = 0 /\ Idle \in HandlerRecords /\ Holds(Idle, heap', granted')
  <2>1. Len(heap') = 0
      BY <1>2
  <2> QED
      BY <2>1, IdleHolds
<1>4. GroupInv'
  <2>1. GroupsTypeOK'
    <3>1. heap' \in Seq(GroupRecords) /\ groups' \in [GroupIds -> Nat]
          /\ allMembers' \in [Users -> Nat] /\ deletedGroups' \subseteq GroupIds
        BY <1>2
    <3>2. hnd' \in [Handlers -> HandlerRecords]
        BY <1>2, <1>3
    <3>3. up' \in BOOLEAN
        BY <1>2, Zenon
    <3> QED
        BY <1>1, <1>2, <3>1, <3>2, <3>3 DEF GroupInv, GroupsTypeOK
  <2>2. MapInv' /\ HeapInv'
      BY <1>2, <1>3 DEF MapInv, HeapInv
  <2>3. GrantInv' /\ RosterInv'
      BY <1>1, <1>2 DEF GroupInv, GrantInv, RosterInv
  <2>4. HandlerInv'
      BY <1>2, <1>3 DEF HandlerInv
  <2> QED
      BY <2>1, <2>2, <2>3, <2>4 DEF GroupInv
<1>5. StoreInv'
    BY <1>1, <1>2 DEF StoreInv
<1>6. /\ boot'.pc = "scan" /\ boot'.creates = Creates /\ boot' \in BootRecords
      /\ Creates' = Creates
  <2>1. Creates \subseteq Messages
      BY <1>1 DEF Creates, StoreInv
  <2>2. PICK cr \in SUBSET Messages : cr = Creates
      BY <2>1
  <2>3. boot' = [pc |-> "scan", creates |-> cr, id |-> None, todo |-> {},
                 g |-> NoRoster, kids |-> {}]
      BY <1>2, <2>2 DEF Served
  <2>4. boot' \in BootRecords
      BY <2>3 DEF BootRecords, BootPlaces
  <2> QED
      BY <1>2, <2>2, <2>3, <2>4 DEF Creates
<1>7. PhaseInv'
    BY <1>2, <1>6 DEF PhaseInv, Starting
<1>8. Live' = {}
    BY <1>2 DEF Live
<1>9. ReplayInv' /\ RebuiltInv' /\ LinksInv'
    BY <1>6, <1>8 DEF ReplayInv, RebuiltInv, LinksInv
<1> QED
    BY <1>4, <1>5, <1>7, <1>9 DEF BootInv

\* What the invariant says while memory is rebuilt.
LEMMA StartFacts ==
    ASSUME BootInv, boot.pc \in Starting
    PROVE  /\ boot \in BootRecords /\ ~up /\ \A h \in Handlers : hnd[h] = Idle
           /\ heap \in Seq(GroupRecords) /\ Len(heap) \in Nat
           /\ groups \in [GroupIds -> Nat]
           /\ \A id \in Live : GroupOf(id) \in GroupRecords /\ groups[id] \in 1..Len(heap)
<1>1. \A id \in Live : GroupOf(id) \in GroupRecords
    BY LiveObject DEF BootInv
<1>2. \A id \in Live : groups[id] \in 1..Len(heap)
    BY DEF Live, BootInv, GroupInv, MapInv
<1> QED
    BY <1>1, <1>2 DEF BootInv, PhaseInv, Starting, GroupInv, GroupsTypeOK

\* group.go:63-98: the next create event is taken; its group is skipped if a delete
\* event is stored, and rebuilt from a new object otherwise.
LEMMA ScanKeeps ==
    ASSUME BootInv, NEW e \in boot.creates, ScanCreate(e) PROVE BootInv'
<1>1. /\ boot.pc = "scan" /\ boot \in BootRecords /\ boot.pc \in Starting
      /\ ~up /\ \A h \in Handlers : hnd[h] = Idle
      /\ UNCHANGED <<heap, groups, db, granted, hnd, up, rosters, allMembers, now,
                     received, fails>>
    BY StartFacts DEF ScanCreate, Starting, storeVars, envVars
<1>2. boot.creates \subseteq Creates /\ e \in Creates /\ e \in Messages /\ e.group \in GroupIds
      /\ e.parent \in GroupIds \cup {None}
    BY <1>1 DEF BootInv, PhaseInv, Creates, StoreInv, Messages
<1>3. StoreInv' /\ Live' = Live /\ Creates' = Creates
      /\ \A id \in GroupIds : /\ GroupOf(id)' = GroupOf(id)
                              /\ Moderation(id)' = Moderation(id)
                              /\ IsDeleted(id)' = IsDeleted(id)
    BY <1>1 DEF BootInv, StoreInv, Live, Creates, GroupOf, Moderation, IsDeleted
<1>4. ASSUME NEW id, NEW p PROVE StoredCreate(id, p)' <=> StoredCreate(id, p)
    BY <1>1 DEF StoredCreate, Creates
<1>5. \A c \in Creates : c.group \in GroupIds
    BY DEF BootInv, Creates, StoreInv, Messages
<1>6. CASE IsDeleted(e.group)
  <2>1. deletedGroups' = deletedGroups \cup {e.group}
        /\ boot' = [boot EXCEPT !.creates = boot.creates \ {e}]
      BY <1>6 DEF ScanCreate
  <2>2. /\ boot' \in BootRecords /\ boot'.pc = "scan" /\ boot'.creates = boot.creates \ {e}
        /\ boot'.kids = boot.kids
      BY <1>1, <2>1 DEF BootRecords
  <2>3. GroupInv'
      BY <1>1, <1>2, <2>1 DEF BootInv, GroupInv, GroupsTypeOK, MapInv, HeapInv, GrantInv,
                          RosterInv, HandlerInv
  <2>4. PhaseInv' /\ ReplayInv'
      BY <1>1, <1>2, <1>3, <2>2 DEF PhaseInv, ReplayInv, Starting
  <2>5. RebuiltInv'
    <3>1. \A id \in Live : ~IsDeleted(id) /\ StoredCreate(id, GroupOf(id).parent)
        BY <1>1 DEF BootInv, RebuiltInv
    <3>2. \A id \in Live' : ~IsDeleted(id)' /\ StoredCreate(id, GroupOf(id).parent)'
        BY <1>3, <1>4, <3>1 DEF Live
    <3>3. ASSUME NEW c \in Creates' \ boot'.creates
          PROVE  IF IsDeleted(c.group)' THEN c.group \in deletedGroups'
                 ELSE c.group \in Live' \/ (boot'.pc = "replay" /\ c.group = boot'.id)
        BY <1>1, <1>3, <1>5, <1>6, <2>1, <2>2, <3>3 DEF BootInv, RebuiltInv
    <3> QED
        BY <3>2, <3>3 DEF RebuiltInv
  <2>6. LinksInv'
    <3>1. Waiting' = Live' /\ Waiting = Live
        BY <1>1, <2>2 DEF Waiting
    <3> QED
        BY <1>1, <1>3, <3>1 DEF BootInv, LinksInv, Live
  <2> QED
      BY <1>3, <2>3, <2>4, <2>5, <2>6 DEF BootInv
<1>7. CASE ~IsDeleted(e.group)
  <2>1. PICK g \in GroupRecords : /\ g = [NewGroup(e.group) EXCEPT !.parent = e.parent]
                                  /\ g.id = e.group /\ g.parent = e.parent
                                  /\ OnRecord(g, granted)
      BY <1>2, NewShape
  <2>2. deletedGroups' = deletedGroups
        /\ boot' = [boot EXCEPT !.pc = "replay", !.creates = boot.creates \ {e},
                       !.id = e.group, !.todo = Moderation(e.group), !.g = g]
      BY <1>7, <2>1 DEF ScanCreate
  <2>3. g.children = {}
      BY <2>1 DEF NewGroup
  <2>4. Moderation(e.group) \in SUBSET Messages
      BY DEF BootInv, StoreInv, Moderation
  <2>5. /\ boot' \in BootRecords /\ boot'.pc = "replay"
        /\ boot'.creates = boot.creates \ {e} /\ boot'.id = e.group
        /\ boot'.todo = Moderation(e.group) /\ boot'.g = g
    <3>1. PICK todo \in SUBSET Messages : todo = Moderation(e.group)
        BY <2>4
    <3>2. boot' = [boot EXCEPT !.pc = "replay", !.creates = boot.creates \ {e},
                       !.id = e.group, !.todo = todo, !.g = g]
        BY <2>2, <3>1
    <3> QED
        BY <1>1, <1>2, <3>1, <3>2 DEF BootRecords, BootPlaces
  <2>6. GroupInv'
      BY <1>1, <2>2 DEF BootInv, GroupInv, GroupsTypeOK, MapInv, HeapInv, GrantInv,
                          RosterInv, HandlerInv
  <2>7. PhaseInv'
      BY <1>1, <1>2, <1>3, <2>5 DEF PhaseInv
  <2>8. ReplayInv'
    <3>1. StoredCreate(e.group, e.parent)
        BY <1>2 DEF StoredCreate
    <3> QED
        BY <1>1, <1>2, <1>3, <1>4, <1>7, <2>1, <2>3, <2>5, <3>1 DEF ReplayInv
  <2>9. RebuiltInv'
    <3>1. \A id \in Live : ~IsDeleted(id) /\ StoredCreate(id, GroupOf(id).parent)
        BY <1>1 DEF BootInv, RebuiltInv
    <3>2. \A id \in Live' : ~IsDeleted(id)' /\ StoredCreate(id, GroupOf(id).parent)'
        BY <1>3, <1>4, <3>1 DEF Live
    <3>3. ASSUME NEW c \in Creates' \ boot'.creates
          PROVE  IF IsDeleted(c.group)' THEN c.group \in deletedGroups'
                 ELSE c.group \in Live' \/ (boot'.pc = "replay" /\ c.group = boot'.id)
        BY <1>1, <1>3, <1>5, <1>7, <2>2, <2>5, <3>3 DEF BootInv, RebuiltInv
    <3> QED
        BY <3>2, <3>3 DEF RebuiltInv
  <2>10. LinksInv'
    <3>1. Waiting' = Live' /\ Waiting = Live
        BY <1>1, <2>5 DEF Waiting
    <3> QED
        BY <1>1, <1>3, <3>1 DEF BootInv, LinksInv, Live
  <2> QED
      BY <1>3, <2>6, <2>7, <2>8, <2>9, <2>10 DEF BootInv
<1> QED
    BY <1>6, <1>7

\* group.go:99-117: the oldest event not yet replayed is applied to the object.
LEMMA ReplayKeeps ==
    ASSUME BootInv, NEW e \in boot.todo, Replay(e) PROVE BootInv'
<1>1. /\ boot.pc = "replay" /\ boot \in BootRecords /\ boot.pc \in Starting
      /\ ~up /\ \A h \in Handlers : hnd[h] = Idle
      /\ UNCHANGED <<heap, groups, db, granted, hnd, up, rosters, deletedGroups, now,
                     received, fails>>
      /\ allMembers' = CountMembers(allMembers, e)
    BY StartFacts DEF Replay, Starting, storeVars, envVars
<1>2. /\ boot.g \in GroupRecords /\ boot.g.id = boot.id /\ OnRecord(boot.g, granted)
      /\ boot.todo \subseteq Moderation(boot.id)
      /\ boot.g.children = {} /\ boot.id \in GroupIds /\ ~IsDeleted(boot.id)
      /\ StoredCreate(boot.id, boot.g.parent)
    BY <1>1 DEF BootInv, ReplayInv
<1>3. e \in Messages /\ e \in granted /\ e.group = boot.id
    BY <1>2 DEF Moderation, BootInv, StoreInv
<1>4. PICK g \in GroupRecords : /\ g = Apply(boot.g, e) /\ g.id = boot.id
                                /\ g.parent = boot.g.parent /\ OnRecord(g, granted)
    BY <1>2, <1>3, ApplyShape, ApplyRecorded
<1>5. g.children = {}
    BY <1>2, <1>4 DEF Apply, PutUser, RemoveUser, EditMetadata, CreateGroup, DeleteGroup,
                      CreateInvite, GroupRecords
<1>6. boot' = [boot EXCEPT !.g = g, !.todo = boot.todo \ {e}]
    BY <1>4 DEF Replay
<1>7. /\ boot' \in BootRecords /\ boot'.pc = "replay" /\ boot'.creates = boot.creates
      /\ boot'.id = boot.id /\ boot'.todo = boot.todo \ {e} /\ boot'.g = g
    BY <1>1, <1>6 DEF BootRecords
<1>8. allMembers' \in [Users -> Nat]
  <2>1. allMembers \in [Users -> Nat]
      BY DEF BootInv, GroupInv, GroupsTypeOK
  <2>2. \A u \in Users : Monus(allMembers[u], 1) \in Nat
      BY <2>1, MonusType
  <2> QED
      BY <1>1, <2>1, <2>2 DEF CountMembers
<1>9. GroupInv'
    BY <1>1, <1>8 DEF BootInv, GroupInv, GroupsTypeOK, MapInv, HeapInv, GrantInv,
                      RosterInv, HandlerInv
<1>10. StoreInv' /\ PhaseInv' /\ RebuiltInv' /\ LinksInv'
    BY <1>1, <1>7 DEF BootInv, StoreInv, PhaseInv, RebuiltInv, LinksInv, Waiting, Live,
                      Creates, IsDeleted, Moderation, StoredCreate, GroupOf, Starting
<1>11. ReplayInv'
    BY <1>1, <1>2, <1>4, <1>5, <1>7
       DEF ReplayInv, IsDeleted, Moderation, StoredCreate, Creates
<1> QED
    BY <1>9, <1>10, <1>11 DEF BootInv

\* group.go:118-125: the rebuilt object takes its place in the map.
LEMMA LoadedKeeps ==
    ASSUME BootInv, Loaded PROVE BootInv'
<1>1. /\ boot.pc = "replay" /\ boot \in BootRecords /\ boot.pc \in Starting
      /\ ~up /\ \A h \in Handlers : hnd[h] = Idle
      /\ heap \in Seq(GroupRecords) /\ Len(heap) \in Nat /\ groups \in [GroupIds -> Nat]
      /\ \A id \in Live : GroupOf(id) \in GroupRecords /\ groups[id] \in 1..Len(heap)
      /\ UNCHANGED <<db, granted, hnd, up, rosters, allMembers, now, received, fails>>
    BY StartFacts DEF Loaded, Starting, storeVars, envVars
<1>2. /\ boot.g \in GroupRecords /\ boot.g.id = boot.id /\ OnRecord(boot.g, granted)
      /\ boot.g.children = {} /\ boot.id \in GroupIds /\ ~IsDeleted(boot.id)
      /\ StoredCreate(boot.id, boot.g.parent)
    BY <1>1 DEF BootInv, ReplayInv
<1>3. /\ heap' = Append(heap, boot.g) /\ groups' = [groups EXCEPT ![boot.g.id] = Len(heap')]
      /\ deletedGroups' = deletedGroups \ {boot.id}
      /\ boot' = [Served EXCEPT !.pc = "scan", !.creates = boot.creates]
    BY <1>2 DEF Loaded
<1>4. /\ Len(heap') = Len(heap) + 1 /\ heap'[Len(heap')] = boot.g
      /\ \A i \in 1..Len(heap) : heap'[i] = heap[i]
      /\ groups'[boot.id] = Len(heap')
      /\ \A id \in GroupIds : id # boot.id => groups'[id] = groups[id]
    BY <1>1, <1>2, <1>3
<1>5. GroupInv'
  <2>1. HandlerInv' /\ hnd' \in [Handlers -> HandlerRecords]
      BY <1>1, <1>4, IdleHolds DEF BootInv, GroupInv, GroupsTypeOK, HandlerInv
  <2>2. deletedGroups' \subseteq GroupIds /\ GroupInv
      BY <1>3 DEF BootInv, GroupInv, GroupsTypeOK
  <2> QED
      BY <1>1, <1>2, <1>3, <2>1, <2>2, NewObject
<1>6. /\ boot'.pc = "scan" /\ boot'.creates = boot.creates /\ boot' \in BootRecords
  <2>1. PICK cr \in SUBSET Messages : cr = boot.creates
      BY <1>1 DEF BootRecords
  <2>2. boot' = [pc |-> "scan", creates |-> cr, id |-> None, todo |-> {},
                 g |-> NoRoster, kids |-> {}]
      BY <1>3, <2>1 DEF Served
  <2>3. boot' \in BootRecords
      BY <2>2 DEF BootRecords, BootPlaces
  <2> QED
      BY <2>1, <2>2, <2>3
<1>0. PICK b \in GroupIds : b = boot.id
    BY <1>2
<1>7. Live' = Live \cup {b}
    BY <1>0, <1>1, <1>2, <1>4 DEF Live
<1>8. /\ GroupOf(b)' = boot.g
      /\ \A id \in Live : id # b => GroupOf(id)' = GroupOf(id)
  <2>1. GroupOf(b)' = boot.g
      BY <1>0, <1>4 DEF GroupOf
  <2>2. ASSUME NEW id \in Live, id # b PROVE GroupOf(id)' = GroupOf(id)
    <3>1. groups[id] \in 1..Len(heap) /\ groups'[id] = groups[id]
        BY <1>0, <1>1, <1>4, <2>2 DEF Live
    <3> QED
        BY <1>4, <3>1 DEF GroupOf
  <2> QED
      BY <2>1, <2>2
<1>9. /\ StoreInv' /\ Creates' = Creates
      /\ \A id \in GroupIds : IsDeleted(id)' = IsDeleted(id)
    BY <1>1 DEF BootInv, StoreInv, Creates, Moderation, IsDeleted
<1>10. ASSUME NEW id, NEW p PROVE StoredCreate(id, p)' <=> StoredCreate(id, p)
    BY <1>1 DEF StoredCreate, Creates
<1>11. PhaseInv' /\ ReplayInv'
    BY <1>1, <1>6, <1>9 DEF BootInv, PhaseInv, ReplayInv
<1>12. RebuiltInv'
  <2>1. ASSUME NEW id \in Live'
        PROVE  ~IsDeleted(id)' /\ StoredCreate(id, GroupOf(id).parent)'
    <3>1. CASE id = b
        BY <1>0, <1>2, <1>8, <1>9, <1>10, <3>1
    <3>2. CASE id # b
      <4>1. id \in Live /\ id \in GroupIds
          BY <1>7, <3>2 DEF Live
      <4>2. ~IsDeleted(id) /\ StoredCreate(id, GroupOf(id).parent)
          BY <1>1, <4>1 DEF BootInv, RebuiltInv
      <4> QED
          BY <1>8, <1>9, <1>10, <3>2, <4>1, <4>2
    <3> QED
        BY <3>1, <3>2
  <2>2. ASSUME NEW c \in Creates' \ boot'.creates
        PROVE  IF IsDeleted(c.group)' THEN c.group \in deletedGroups'
               ELSE c.group \in Live' \/ (boot'.pc = "replay" /\ c.group = boot'.id)
    <3>1. c \in Creates \ boot.creates /\ c.group \in GroupIds
        BY <1>6, <1>9, <2>2 DEF BootInv, Creates, StoreInv, Messages
    <3> QED
        BY <1>0, <1>1, <1>2, <1>3, <1>7, <1>9, <3>1 DEF BootInv, RebuiltInv
  <2> QED
      BY <2>1, <2>2 DEF RebuiltInv
<1>13. LinksInv'
  <2>1. Waiting' = Live' /\ Waiting = Live
      BY <1>1, <1>6 DEF Waiting
  <2>2. \A p \in Live : GroupOf(p).children = {}
      BY <1>1, <2>1 DEF BootInv, LinksInv
  <2>3. \A p \in Live' : GroupOf(p)'.children = {}
      BY <1>2, <1>7, <1>8, <2>2
  <2> QED
      BY <2>1, <2>3 DEF LinksInv
<1> QED
    BY <1>5, <1>9, <1>11, <1>12, <1>13 DEF BootInv

\* group.go:126-128: every create event is met, and no group is linked.
LEMMA ScanDoneKeeps ==
    ASSUME BootInv, ScanDone PROVE BootInv'
<1>1. /\ boot.pc = "scan" /\ boot.creates = {} /\ boot \in BootRecords /\ boot.pc \in Starting
      /\ UNCHANGED <<heap, groups, deletedGroups, db, granted, hnd, up, rosters, allMembers,
                     now, received, fails>>
    BY StartFacts DEF ScanDone, Starting, memVars, storeVars, envVars
<1>2. PICK kids \in SUBSET GroupIds : kids = Live
    BY DEF Live
<1>3. /\ boot'.pc = "link" /\ boot'.creates = {} /\ boot'.kids = Live
      /\ boot' \in BootRecords
  <2>1. boot' = [boot EXCEPT !.pc = "link", !.kids = kids]
      BY <1>2 DEF ScanDone
  <2> QED
      BY <1>1, <1>2, <2>1 DEF BootRecords, BootPlaces
<1>4. GroupInv' /\ StoreInv'
    BY <1>1 DEF BootInv, GroupInv, GroupsTypeOK, MapInv, HeapInv, GrantInv, RosterInv,
                HandlerInv, StoreInv
<1>5. Live' = Live
    BY <1>1 DEF Live
<1>6. PhaseInv' /\ ReplayInv'
    BY <1>1, <1>3, <1>5 DEF BootInv, PhaseInv, ReplayInv, Starting
<1>7. RebuiltInv'
    BY <1>1, <1>3, <1>5 DEF BootInv, RebuiltInv, Creates, IsDeleted, Moderation,
                            StoredCreate, GroupOf
<1>8. LinksInv'
  <2>1. Waiting' = Live /\ Waiting = Live
      BY <1>1, <1>3, <1>5 DEF Waiting
  <2> QED
      BY <1>1, <1>3, <1>5, <2>1 DEF BootInv, LinksInv, GroupOf
<1> QED
    BY <1>4, <1>6, <1>7, <1>8 DEF BootInv

\* group.go:129-140: one more group is linked to its parent, if that is there.
LEMMA LinkChildKeeps ==
    ASSUME BootInv, NEW c \in boot.kids, LinkChild(c) PROVE BootInv'
<1>1. /\ boot.pc = "link" /\ boot \in BootRecords /\ boot.pc \in Starting
      /\ ~up /\ \A h \in Handlers : hnd[h] = Idle
      /\ heap \in Seq(GroupRecords) /\ Len(heap) \in Nat /\ groups \in [GroupIds -> Nat]
      /\ \A id \in Live : GroupOf(id) \in GroupRecords /\ groups[id] \in 1..Len(heap)
      /\ UNCHANGED <<groups, deletedGroups, db, granted, hnd, up, rosters, allMembers, now,
                     received, fails>>
    BY StartFacts DEF LinkChild, Starting, storeVars, envVars
<1>2. /\ boot' \in BootRecords /\ boot'.pc = "link" /\ boot'.creates = boot.creates
      /\ boot'.kids = boot.kids \ {c}
    BY <1>1 DEF LinkChild, BootRecords
<1>3. boot.kids \subseteq Live /\ boot.creates = {} /\ c \in Live /\ Live' = Live
    BY <1>1 DEF BootInv, PhaseInv, Live
<1>4. PICK g \in GroupRecords : g = GroupOf(c)
    BY <1>1, <1>3
<1>5. g.parent \in GroupIds \cup {None} /\ g.lastMetadata \in Nat
    BY DEF GroupRecords
<1>6. StoreInv'
    BY <1>1 DEF BootInv, StoreInv
<1>7. CASE g.parent = None \/ g.parent \notin Live
  <2>1. heap' = heap
      BY <1>4, <1>5, <1>7 DEF LinkChild, Live
  <2>2. GroupInv'
      BY <1>1, <2>1 DEF BootInv, GroupInv, GroupsTypeOK, MapInv, HeapInv, GrantInv,
                        RosterInv, HandlerInv
  <2>3. PhaseInv' /\ ReplayInv' /\ RebuiltInv'
      BY <1>1, <1>2, <1>3, <2>1 DEF BootInv, PhaseInv, ReplayInv, RebuiltInv, Creates,
           IsDeleted, Moderation, StoredCreate, GroupOf, Starting
  <2>4. LinksInv'
    <3>1. /\ \A p \in Live : GroupOf(p).children \subseteq Live
          /\ \A p, d \in Live : d \in GroupOf(p).children
                                  <=> (GroupOf(d).parent = p /\ d \notin boot.kids)
        BY <1>1 DEF BootInv, LinksInv, Waiting
    <3>2. None \notin Live
        BY Nip29Assumption DEF Live
    <3>3. \A p, d \in Live : d \in GroupOf(p).children
                               <=> (GroupOf(d).parent = p /\ d \notin boot.kids \ {c})
        BY <1>3, <1>4, <1>7, <3>1, <3>2
    <3> QED
        BY <1>1, <1>2, <1>3, <2>1, <3>1, <3>3 DEF LinksInv, Waiting, GroupOf
  <2> QED
      BY <1>6, <2>2, <2>3, <2>4 DEF BootInv
<1>8. CASE g.parent \in Live
  <2>1. PICK q \in Live : q = g.parent
      BY <1>8
  <2>2. q # None /\ q \in GroupIds
      BY Nip29Assumption DEF Live
  <2>3. PICK p \in 1..Len(heap) : p = groups[q] /\ p # 0
      BY <1>1, <2>1
  <2>4. PICK f \in GroupRecords : f = heap[p] /\ f = GroupOf(q) /\ f.id = q
                                  /\ OnRecord(f, granted)
      BY <2>1, <2>3, LiveObject DEF BootInv, GroupOf
  <2>5. PICK f2 \in GroupRecords : /\ f2 = AddChild(f, c, g.lastMetadata) /\ f2.id = f.id
                                   /\ f2.parent = f.parent /\ OnRecord(f2, granted)
      BY <1>3, <1>5, <2>4, ChildShape DEF Live
  <2>6. f2.children = f.children \cup {c}
      BY <2>5 DEF AddChild, GroupRecords
  <2>7. heap' = [heap EXCEPT ![p] = f2]
      BY <1>4, <2>1, <2>2, <2>3, <2>4, <2>5 DEF LinkChild
  <2>8. heap'[p] = f2 /\ Len(heap') = Len(heap)
        /\ \A i \in 1..Len(heap) : i # p => heap'[i] = heap[i]
      BY <1>1, <2>7
  <2>9. GroupInv'
    <3>1. hnd' \in [Handlers -> HandlerRecords] /\ allMembers' \in [Users -> Nat]
          /\ GroupInv
        BY <1>1 DEF BootInv, GroupInv, GroupsTypeOK
    <3>2. \A h \in Handlers : Holds(hnd'[h], heap, granted)
        BY <1>1, IdleHolds
    <3> QED
        BY <1>1, <2>4, <2>5, <2>7, <3>1, <3>2, ChangedObject
  <2>10. GroupOf(q)' = f2 /\ \A id \in Live : id # q => GroupOf(id)' = GroupOf(id)
    <3>1. GroupOf(q)' = f2
        BY <1>1, <2>3, <2>8 DEF GroupOf
    <3>2. ASSUME NEW id \in Live, id # q PROVE GroupOf(id)' = GroupOf(id)
      <4>1. groups[id] \in 1..Len(heap) /\ heap[groups[id]].id = id
          BY <1>1, LiveObject DEF BootInv, GroupOf
      <4>2. groups[id] # p
          BY <2>4, <3>2, <4>1
      <4> QED
          BY <1>1, <2>8, <4>1, <4>2 DEF GroupOf
    <3> QED
        BY <3>1, <3>2
  <2>11. \A id \in Live : GroupOf(id)'.parent = GroupOf(id).parent
      BY <2>4, <2>5, <2>10
  <2>12. PhaseInv' /\ ReplayInv'
      BY <1>1, <1>2, <1>3 DEF BootInv, PhaseInv, ReplayInv, Starting
  <2>13. RebuiltInv'
      BY <1>1, <1>2, <1>3, <2>11 DEF BootInv, RebuiltInv, Creates, IsDeleted, Moderation,
                                     StoredCreate
  <2>14. LinksInv'
    <3>1. /\ \A r \in Live : GroupOf(r).children \subseteq Live
          /\ \A r, d \in Live : d \in GroupOf(r).children
                                  <=> (GroupOf(d).parent = r /\ d \notin boot.kids)
        BY <1>1 DEF BootInv, LinksInv, Waiting
    <3>2. \A r \in Live : GroupOf(r)'.children \subseteq Live
        BY <1>3, <2>4, <2>6, <2>10, <3>1
    <3>3. \A r, d \in Live : d \in GroupOf(r)'.children
                               <=> (GroupOf(d).parent = r /\ d \notin boot.kids \ {c})
        BY <1>3, <1>4, <2>1, <2>4, <2>6, <2>10, <3>1
    <3>4. Waiting' = boot.kids \ {c}
        BY <1>2 DEF Waiting
    <3> QED
        BY <1>3, <2>11, <3>2, <3>3, <3>4 DEF LinksInv
  <2> QED
      BY <1>6, <2>9, <2>12, <2>13, <2>14 DEF BootInv
<1> QED
    BY <1>5, <1>7, <1>8

\* group.go:141-147: a free handler gets every group to synchronise.
LEMMA StartSyncKeeps ==
    ASSUME BootInv, StartSync PROVE BootInv'
<1>1. /\ boot.pc = "link" /\ boot.kids = {} /\ boot \in BootRecords /\ boot.pc \in Starting
      /\ \A h \in Handlers : hnd[h] = Idle
      /\ heap \in Seq(GroupRecords) /\ Len(heap) \in Nat
      /\ \A id \in Live : groups[id] \in 1..Len(heap)
      /\ UNCHANGED <<heap, groups, deletedGroups, db, granted, rosters, allMembers,
                     now, received, fails>>
      /\ up' = TRUE /\ boot' = [boot EXCEPT !.pc = "sync"]
    BY StartFacts DEF StartSync, Starting, memVars, storeVars
<1>2. PICK h \in Handlers, order \in [1..Cardinality(Live) -> {groups[id] : id \in Live}] :
         hnd' = [hnd EXCEPT ![h].pc = "sync", ![h].todo = order]
    BY DEF StartSync
<1>3. boot.creates = {}
    BY <1>1 DEF BootInv, PhaseInv
<1>4. /\ boot' \in BootRecords /\ boot'.pc = "sync" /\ boot'.kids = {} /\ boot'.creates = {}
    BY <1>1, <1>3 DEF BootRecords, BootPlaces
<1>5. order \in Seq(Nat) /\ \A i \in DOMAIN order : order[i] \in 1..Len(heap)
  <2>1. Cardinality(Live) \in Nat
    <3>1. IsFiniteSet(Live)
      <4>1. IsFiniteSet(1..Len(heap))
        <5>1. PICK n \in Int : n = Len(heap)
            BY <1>1
        <5>2. IsFiniteSet(1..n)
            BY FS_Interval
        <5> QED
            BY <5>1, <5>2
      <4> DEFINE at == [id \in Live |-> groups[id]]
      <4>2. at \in Injection(Live, 1..Len(heap))
        <5>1. at \in [Live -> 1..Len(heap)]
            BY <1>1
        <5>2. ASSUME NEW a \in Live, NEW b \in Live, at[a] = at[b] PROVE a = b
          <6>1. groups[a] = groups[b]
              BY <5>2
          <6>2. GroupOf(a).id = a /\ GroupOf(b).id = b
              BY LiveObject DEF BootInv
          <6> QED
              BY <6>1, <6>2 DEF GroupOf
        <5> QED
            BY <5>1, <5>2 DEF Injection, IsInjective
      <4> HIDE DEF at
      <4> QED
          BY <4>1, <4>2, FS_Injection
    <3> QED
        BY <3>1, FS_CardinalityType
  <2>2. \A id \in Live : groups[id] \in Nat
      BY <1>1
  <2> QED
      BY <1>1, <2>1, <2>2
<1>6. PICK s : s = [Idle EXCEPT !.pc = "sync", !.todo = order]
    OBVIOUS
<1>7. s = [pc |-> "sync", ev |-> NoEvent, inner |-> NoEvent, obj |-> 0, target |-> 0,
           todo |-> order, cand |-> <<>>, cur |-> 0, left |-> {}, hit |-> {}]
    BY <1>6 DEF Idle
<1>8. s \in HandlerRecords
    BY <1>5, <1>7 DEF HandlerRecords, Places
<1>9. hnd \in [Handlers -> HandlerRecords] /\ hnd' = [hnd EXCEPT ![h] = s]
    BY <1>1, <1>2, <1>6 DEF BootInv, GroupInv, GroupsTypeOK
<1>10. hnd' \in [Handlers -> HandlerRecords] /\ hnd'[h] = s
       /\ \A k \in Handlers : k # h => hnd'[k] = Idle
    BY <1>1, <1>8, <1>9
<1>11. Holds(s, heap, granted)
  <2>1. HoldsObjects(s, heap)
      BY <1>1, <1>5, <1>7 DEF HoldsObjects
  <2>2. HoldsMessage(s, granted)
      BY <1>7 DEF HoldsMessage, Wiping
  <2>3. HoldsGroup(s, heap) /\ HoldsRosters(s, granted)
      BY <1>7 DEF HoldsGroup, HoldsRosters, Wiping
  <2> QED
      BY <2>1, <2>2, <2>3 DEF Holds
<1>12. GroupInv'
  <2>1. HandlerInv'
      BY <1>1, <1>10, <1>11, IdleHolds DEF HandlerInv
  <2>2. up' \in BOOLEAN
      BY <1>1, Zenon
  <2>3. GroupsTypeOK'
      BY <1>1, <1>10, <2>2 DEF BootInv, GroupInv, GroupsTypeOK
  <2> QED
      BY <1>1, <2>1, <2>3 DEF BootInv, GroupInv, MapInv, HeapInv, GrantInv, RosterInv
<1>13. Live' = Live /\ StoreInv'
    BY <1>1 DEF Live, BootInv, StoreInv
<1>14. PhaseInv'
  <2>1. s.pc = "sync" /\ Idle.pc = "idle" /\ s.ev = NoEvent /\ Idle.ev = NoEvent
      BY <1>7 DEF Idle
  <2> QED
      BY <1>4, <1>10, <2>1 DEF PhaseInv, Starting, Publishing
<1>15. ReplayInv' /\ RebuiltInv'
    BY <1>1, <1>3, <1>4, <1>13 DEF BootInv, ReplayInv, RebuiltInv, Creates, IsDeleted,
         Moderation, StoredCreate, GroupOf
<1>16. LinksInv'
    BY <1>1, <1>4, <1>13 DEF BootInv, LinksInv, Waiting, GroupOf
<1> QED
    BY <1>12, <1>13, <1>14, <1>15, <1>16 DEF BootInv

\* main.go: the groups are loaded and the relay serves.
LEMMA ServeAgainKeeps ==
    ASSUME BootInv, ServeAgain PROVE BootInv'
<1>1. UNCHANGED vars /\ boot' = Served
    BY DEF ServeAgain
<1>2. GroupInv'
    BY <1>1, StutterKeeps DEF BootInv
<1>3. boot'.pc = "served" /\ boot' \in BootRecords
  <2>1. boot' = [pc |-> "served", creates |-> {}, id |-> None, todo |-> {},
                 g |-> NoRoster, kids |-> {}]
      BY <1>1 DEF Served
  <2> QED
      BY <2>1 DEF BootRecords, BootPlaces
<1>4. StoreInv'
    BY <1>1 DEF BootInv, StoreInv, vars, storeVars
<1> QED
    BY <1>2, <1>3, <1>4 DEF BootInv, PhaseInv, ReplayInv, RebuiltInv, LinksInv, Starting

\* The relay starts by serving, with the messages of the founded groups stored.
LEMMA RecoveryInitHolds == RecoveryInit => BootInv
<1> SUFFICES ASSUME RecoveryInit PROVE BootInv
    OBVIOUS
<1>1. GroupInv
    BY InitHolds DEF RecoveryInit
<1>2. boot.pc = "served" /\ boot \in BootRecords
  <2>1. boot = [pc |-> "served", creates |-> {}, id |-> None, todo |-> {},
                g |-> NoRoster, kids |-> {}]
      BY DEF RecoveryInit, Served
  <2> QED
      BY <2>1 DEF BootRecords, BootPlaces
<1>3. StoreInv
    BY InitStore DEF RecoveryInit
<1> QED
    BY <1>1, <1>2, <1>3 DEF BootInv, PhaseInv, ReplayInv, RebuiltInv, LinksInv, Starting

\* Every step of the relay, of a crash and of a restart keeps the invariant.
LEMMA RecoveryKeeps ==
    ASSUME BootInv, [RecoveryNext]_allVars PROVE BootInv'
<1>1. CASE ServeStep
    BY <1>1, ServeKeeps
<1>2. CASE Crash
    BY <1>2, CrashKeeps
<1>3. CASE Boot
    BY <1>3, ScanKeeps, ReplayKeeps, LoadedKeeps, ScanDoneKeeps, LinkChildKeeps,
       StartSyncKeeps, ServeAgainKeeps DEF Boot
<1>4. CASE UNCHANGED allVars
  <2>1. UNCHANGED vars /\ UNCHANGED <<heap, groups, deletedGroups, db, granted, boot, hnd, up>>
      BY <1>4 DEF allVars, recoveryVars, vars, memVars, storeVars, envVars
  <2>2. GroupInv'
      BY <2>1, StutterKeeps DEF BootInv
  <2>3. ReplayInv' /\ RebuiltInv' /\ LinksInv' /\ StoreInv' /\ Live' = Live
        /\ Creates' = Creates
      BY <2>1, SameMemory DEF BootInv
  <2>4. PhaseInv'
      BY <2>1, <2>3 DEF BootInv, PhaseInv
  <2> QED
      BY <2>2, <2>3, <2>4 DEF BootInv
<1> QED
    BY <1>1, <1>2, <1>3, <1>4 DEF RecoveryNext

\* The invariant holds through any number of crashes and restarts.
LEMMA RecoveryInvariance == RecoverySpec => []BootInv
<1>1. BootInv /\ [RecoveryNext]_allVars => BootInv'
    BY RecoveryKeeps
<1> QED
    BY <1>1, RecoveryInitHolds, PTL DEF RecoverySpec

-----------------------------------------------------------------------------
(* The theorems about any number of handlers *)

\* group.go:76-87, 124: wherever the process died, a group with a stored delete
\* event does not come back, and the list of deleted groups names it.
THEOREM DeletedGroupsDoNotReturn == RecoverySpec => []DeletedStaysDeletedAcrossRestart
<1>1. ASSUME BootInv PROVE DeletedStaysDeletedAcrossRestart
  <2> SUFFICES ASSUME boot.pc = "sync", NEW id \in GroupIds, IsDeleted(id)
               PROVE  id \notin Live
                      /\ ((\E e \in Creates : e.group = id) => id \in deletedGroups)
      BY DEF DeletedStaysDeletedAcrossRestart, Rebuilt
  <2>1. boot.creates = {}
      BY <1>1 DEF BootInv, PhaseInv
  <2> QED
      BY <1>1, <2>1 DEF BootInv, RebuiltInv
<1> QED
    BY <1>1, RecoveryInvariance, PTL

\* group.go:128: whatever links a crash or a lost update had left out, the
\* rebuilt groups list exactly the groups that name them as parent.
THEOREM LinksAreRepaired == RecoverySpec => []RestartRepairsChildren
<1>1. ASSUME BootInv PROVE RestartRepairsChildren
  <2> SUFFICES ASSUME boot.pc = "sync", NEW p \in Live, NEW c \in Live
               PROVE  c \in GroupOf(p).children <=> GroupOf(c).parent = p
      BY DEF RestartRepairsChildren, Rebuilt
  <2>1. Waiting = {}
      BY <1>1 DEF BootInv, PhaseInv, Waiting
  <2> QED
      BY <1>1, <2>1 DEF BootInv, LinksInv
<1> QED
    BY <1>1, RecoveryInvariance, PTL

-----------------------------------------------------------------------------
(* Live groups have create events *)

\* khatru's goroutines: a step of one handler moves no other.
LEMMA OthersStay ==
    ASSUME GroupInv, NEW h \in Handlers, Step(h) \/ Failure(h) \/ Arrival(h)
    PROVE  \A k \in Handlers : k # h => hnd'[k] = hnd[k]
<1>1. DOMAIN hnd = Handlers
    BY DEF GroupInv, GroupsTypeOK
<1>2. CASE Arrival(h)
    BY <1>1, <1>2 DEF Arrival, Receive, Wipe
<1>3. CASE Failure(h)
    BY <1>1, <1>3 DEF Failure, StoreFails, SaveInnerFails, EraseFails, WriteRosterFails,
                      RetractFails, WipeOneFails, Panic
<1>4. CASE Step(h)
  <2>1. CASE \/ Placeholder(h) \/ StoreEvent(h) \/ StoreDuplicate(h)
             \/ Register(h) \/ Link(h) \/ ApplyCreate(h)
      BY <1>1, <2>1 DEF Placeholder, StoreEvent, StoreDuplicate, Register, Link, ApplyCreate
  <2>2. CASE \/ SaveInner(h) \/ SaveInnerDuplicate(h) \/ Load(h) \/ ApplyAction(h)
             \/ Erase(h) \/ CacheDeleted(h) \/ EraseDone(h)
      BY <1>1, <2>2 DEF SaveInner, SaveInnerDuplicate, Load, ApplyAction, Erase, CacheDeleted,
                        EraseDone
  <2>3. CASE Unlink(h) \/ Drop(h) \/ LookAgain(h) \/ React(h) \/ Snapshot(h) \/ Finish(h)
      BY <1>1, <2>3 DEF Unlink, Drop, LookAgain, React, Snapshot, Finish
  <2>4. CASE \/ SkipRoster(h) \/ ReadRoster(h) \/ RostersDone(h) \/ WriteRoster(h)
             \/ WipeRosters(h) \/ WipeMemory(h)
      BY <1>1, <2>4 DEF SkipRoster, ReadRoster, RostersDone, WriteRoster, WipeRosters,
                        WipeMemory
  <2>5. CASE Retract(h) \/ RetractEnds(h) \/ WipeOne(h)
      BY <1>1, <2>5 DEF Retract, RetractEnds, WipeOne
  <2> QED
      BY <1>4, <2>1, <2>2, <2>3, <2>4, <2>5 DEF Step
<1> QED
    BY <1>2, <1>3, <1>4

\* The history of stored events only grows.
LEMMA GrantedGrows ==
    ASSUME NEW h \in Handlers, Step(h) \/ Failure(h) \/ Arrival(h)
    PROVE  granted \subseteq granted'
<1>1. CASE Arrival(h) \/ Failure(h)
    BY <1>1 DEF Arrival, Receive, Wipe, Failure, StoreFails, SaveInnerFails,
                EraseFails, RetractFails, WipeOneFails, WipeTurn,
             WriteRosterFails, Panic, storeVars
<1>2. CASE Step(h)
    BY <1>2 DEF Step, Placeholder, StoreEvent, StoreDuplicate, Register, Link, ApplyCreate,
           SaveInner, SaveInnerDuplicate, Load, ApplyAction, Erase, CacheDeleted, EraseDone,
             Retract, RetractEnds, WipeOne, WipeTurn, Unlink,
           Drop, LookAgain, React, Snapshot, Finish, SkipRoster, ReadRoster, RostersDone,
           WriteRoster, WipeRosters, WipeMemory, storeVars
<1> QED
    BY <1>1, <1>2

\* A create event of this id was stored, in the events gr.
WasCreated(id, gr) == \E e \in gr : e.kind = "create" /\ e.group = id

\* A handler is about to store a create event of this id.
Storing(id, h) ==
    hnd[h].pc = "store" /\ hnd[h].ev.kind = "create" /\ hnd[h].ev.group = id

MadeInv ==
    \A id \in Live : WasCreated(id, granted) \/ \E h \in Handlers : Storing(id, h)

\* relay.go:46-59, reject_event.go:86-91: a placeholder goes with the handler that
\* made it, or its create event is stored.
LEMMA MadeServes ==
    ASSUME GroupInv, StoreInv, MadeInv, NEW h \in Handlers,
           Step(h) \/ Failure(h) \/ Arrival(h)
    PROVE  MadeInv'
<1>1. /\ \A k \in Handlers : k # h => hnd'[k] = hnd[k]
      /\ granted \subseteq granted'
    BY OthersStay, GrantedGrows
<1>2. hnd \in [Handlers -> HandlerRecords] /\ hnd[h] \in HandlerRecords
      /\ groups \in [GroupIds -> Nat]
    BY DEF GroupInv, GroupsTypeOK
<1>3. ASSUME NEW id \in Live PROVE WasCreated(id, granted') \/ \E k \in Handlers : Storing(id, k)
    BY <1>1 DEF MadeInv, WasCreated
<1>4. SUFFICES ASSUME NEW id \in Live'
               PROVE  WasCreated(id, granted') \/ \E k \in Handlers : Storing(id, k)'
    BY DEF MadeInv
<1>5. id \in GroupIds /\ groups'[id] # 0
    BY <1>4 DEF Live
<1>6. CASE Placeholder(h)
  <2>1. hnd[h].ev.kind = "create" /\ hnd[h].pc = "place"
      BY <1>6, HandlerFacts DEF Placeholder, At, HoldsMessage
  <2>2. hnd'[h].pc = "store" /\ hnd'[h].ev = hnd[h].ev
      BY <1>2, <1>6 DEF Placeholder, HandlerRecords
  <2>3. CASE id = hnd[h].ev.group
      BY <2>1, <2>2, <2>3 DEF Storing
  <2>4. CASE id # hnd[h].ev.group
    <3>1. id \in Live
        BY <1>2, <1>5, <1>6, <2>4 DEF Placeholder, Live
    <3> QED
        BY <1>1, <1>3, <2>1, <3>1 DEF Storing
  <2> QED
      BY <2>3, <2>4
<1>7. CASE Register(h)
  <2>1. hnd[h].ev.kind = "create" /\ hnd[h].pc = "process"
      BY <1>7 DEF Register, At
  <2>2. hnd[h].ev \in granted
      BY <2>1, HandlerFacts DEF HoldsMessage, Wiping
  <2>3. CASE id = hnd[h].ev.group
      BY <1>1, <2>1, <2>2, <2>3 DEF WasCreated
  <2>4. CASE id # hnd[h].ev.group
    <3>1. id \in Live
        BY <1>2, <1>5, <1>7, <2>4 DEF Register, Live
    <3> QED
        BY <1>1, <1>3, <2>1, <3>1 DEF Storing
  <2> QED
      BY <2>3, <2>4
<1>8. CASE StoreEvent(h) \/ StoreDuplicate(h)
  <2>1. groups' = groups /\ hnd[h].ev \in granted'
      BY <1>1, <1>8 DEF StoreEvent, StoreDuplicate, memVars, storeVars, StoreInv
  <2>2. id \in Live
      BY <1>5, <2>1 DEF Live
  <2>3. CASE Storing(id, h)
      BY <2>1, <2>3 DEF Storing, WasCreated
  <2>4. CASE ~Storing(id, h)
      BY <1>1, <1>3, <2>2, <2>4 DEF Storing
  <2> QED
      BY <2>3, <2>4
<1>9. CASE StoreFails(h)
  <2>1. id \in Live /\ ~Storing(id, h)
      BY <1>2, <1>5, <1>9 DEF StoreFails, Live, Storing
  <2> QED
      BY <1>1, <1>3, <2>1 DEF Storing
<1>10. CASE ~(\/ Placeholder(h) \/ Register(h) \/ StoreEvent(h) \/ StoreDuplicate(h)
              \/ StoreFails(h))
  <2>1. hnd[h].pc # "store"
    <3>1. CASE Step(h)
        BY <1>10, <3>1 DEF Step, Link, ApplyCreate, SaveInner, SaveInnerDuplicate, Load,
             Loads, ApplyAction, Erase, CacheDeleted, EraseDone,
             Retract, RetractEnds, WipeOne, WipeTurn, Unlink, Drop, LookAgain, React,
             Snapshot, Finish, SkipRoster, ReadRoster, RostersDone, WriteRoster,
             WipeRosters, WipeMemory, At
    <3>2. CASE Failure(h) \/ Arrival(h)
        BY <1>10, <3>2 DEF Failure, SaveInnerFails, EraseFails, RetractFails, WipeOneFails, WipeTurn,
             WriteRosterFails, Panic,
             Loads, Arrival, Receive, Wipe, At
    <3> QED
        BY <3>1, <3>2
  <2>2. groups'[id] \in {groups[id], 0}
    <3>1. CASE Drop(h) \/ WipeMemory(h)
        BY <1>2, <1>5, <3>1 DEF Drop, WipeMemory
    <3>2. CASE ~(Drop(h) \/ WipeMemory(h))
      <4>1. CASE Step(h)
          BY <1>10, <3>2, <4>1 DEF Step, Link, ApplyCreate, SaveInner, SaveInnerDuplicate,
               Load, ApplyAction, Erase, CacheDeleted, EraseDone,
             Retract, RetractEnds, WipeOne, WipeTurn, Unlink, LookAgain, React,
               Snapshot, Finish, SkipRoster, ReadRoster, RostersDone, WriteRoster,
               WipeRosters, memVars
      <4>2. CASE Failure(h) \/ Arrival(h)
          BY <1>10, <4>2 DEF Failure, SaveInnerFails, EraseFails, RetractFails, WipeOneFails, WipeTurn,
             WriteRosterFails, Panic,
               Arrival, Receive, Wipe, memVars
      <4> QED
          BY <4>1, <4>2
    <3> QED
        BY <3>1, <3>2
  <2>3. id \in Live
      BY <1>5, <2>2 DEF Live
  <2> QED
      BY <1>1, <1>3, <2>1, <2>3 DEF Storing
<1> QED
    BY <1>6, <1>7, <1>8, <1>9, <1>10

\* relay.go:46-59, group.go:63-125: once nothing is in progress, with any number of
\* handlers and through any crashes, every live group has a create event that
\* was stored.
THEOREM EveryLiveGroupWasCreated == RecoverySpec => []LiveGroupsWereCreated
<1>1. RecoveryInit => MadeInv
  <2> SUFFICES ASSUME RecoveryInit, NEW id \in Live PROVE WasCreated(id, granted)
      BY DEF MadeInv
  <2>1. PICK order \in [1..Cardinality(Founded) -> Founded] :
           groups = [x \in GroupIds |->
                       IF \E i \in DOMAIN order : order[i].group = x
                       THEN CHOOSE i \in DOMAIN order : order[i].group = x
                       ELSE 0]
      BY DEF RecoveryInit, Init, InitMemory
  <2>2. PICK i \in DOMAIN order : order[i].group = id
      BY <2>1 DEF Live
  <2>3. order[i] \in Founded
      OBVIOUS
  <2> QED
      BY <2>2, <2>3, GroupsAssumption DEF RecoveryInit, Init, WasCreated
<1>2. ASSUME BootInv, MadeInv, [RecoveryNext]_allVars PROVE MadeInv'
  <2>1. CASE ServeStep
    <3>1. CASE Tick
        BY <1>2, <3>1 DEF Tick, memVars, storeVars, MadeInv, Live, Storing
    <3>2. CASE ~Tick
        BY <1>2, <2>1, <3>2, MadeServes DEF ServeStep, BootInv
    <3> QED
        BY <3>1, <3>2
  <2>2. CASE Crash
      BY <2>2 DEF Crash, MadeInv, Live
  <2>3. CASE Boot
    <3>1. CASE StartSync
      <4>1. ASSUME NEW id \in Live, NEW h \in Handlers PROVE ~Storing(id, h)
          BY <1>2, <3>1 DEF StartSync, BootInv, PhaseInv, Starting, Storing, Idle
      <4> QED
          BY <1>2, <3>1, <4>1 DEF StartSync, MadeInv, Live, memVars, storeVars
    <3>2. CASE Loaded
      <4>1. StoredCreate(boot.id, boot.g.parent) /\ groups \in [GroupIds -> Nat]
          BY <1>2, <3>2 DEF Loaded, BootInv, ReplayInv, GroupInv, GroupsTypeOK
      <4>2. WasCreated(boot.id, granted)
          BY <1>2, <4>1 DEF StoredCreate, Creates, WasCreated, BootInv, StoreInv
      <4>3. Live' \subseteq Live \cup {boot.id}
          BY <3>2, <4>1 DEF Loaded, Live
      <4> QED
          BY <1>2, <3>2, <4>2, <4>3 DEF Loaded, MadeInv, Storing, storeVars
    <3>3. CASE ~(StartSync \/ Loaded)
      <4>1. UNCHANGED <<groups, granted, hnd>>
          BY <2>3, <3>3 DEF Boot, ScanCreate, Replay, ScanDone, LinkChild, ServeAgain,
               vars, memVars, storeVars
      <4> QED
          BY <1>2, <4>1 DEF MadeInv, Live, Storing
    <3> QED
        BY <3>1, <3>2, <3>3
  <2>4. CASE UNCHANGED allVars
      BY <1>2, <2>4 DEF allVars, vars, memVars, storeVars, MadeInv, Live, Storing
  <2> QED
      BY <1>2, <2>1, <2>2, <2>3, <2>4 DEF RecoveryNext
<1>3. MadeInv => LiveGroupsWereCreated
    BY DEF MadeInv, LiveGroupsWereCreated, Quiet, Storing, WasCreated
<1> QED
    BY <1>1, <1>2, <1>3, RecoveryInvariance, PTL DEF RecoverySpec

-----------------------------------------------------------------------------
(* Publishing: what one handler does to the rosters while no other runs.    *)

\* What is published of the group is what memory holds.
Current(id, k) == rosters[id][k].tags = RosterTags(GroupOf(id), k)

\* The handler will come to this roster.
Awaits(s, id, k) ==
    \/ \E i \in DOMAIN s.todo : s.todo[i] = groups[id]
    \/ \E j \in DOMAIN s.cand : s.cand[j].id = id /\ s.cand[j].kind = k

AwaitedBy(h, id, k) == hnd[h].pc \in {"sync", "read", "write"} /\ Awaits(hnd[h], id, k)
Fresh(id, k) == Current(id, k) \/ \E h \in Handlers : AwaitedBy(h, id, k)

\* A handler that publishes has live groups ahead and what memory holds of them;
\* when it writes, the time it read is still the stored one.
PublishOK(h) ==
    hnd[h].pc \in {"sync", "read", "write"} =>
       /\ \A i \in DOMAIN hnd[h].todo : \E id \in Live : hnd[h].todo[i] = groups[id]
       /\ \A j \in DOMAIN hnd[h].cand :
            /\ hnd[h].cand[j].id \in Live
            /\ hnd[h].cand[j].tags = RosterTags(GroupOf(hnd[h].cand[j].id), hnd[h].cand[j].kind)
       /\ hnd[h].pc = "sync" => hnd[h].cand = <<>>
       /\ hnd[h].pc = "write" =>
            hnd[h].cand # <<>> /\ hnd[h].cur = StoredRoster(Head(hnd[h].cand)).at

\* group.go:276-352: a handler that publishes alone leaves no roster behind that it
\* had ahead, and what it has ahead stays right.
LEMMA PublishStep ==
    ASSUME GroupInv, NEW h \in Handlers, PublishOK(h), hnd[h].ev = NoEvent,
           \/ Snapshot(h) \/ Finish(h) \/ SkipRoster(h) \/ ReadRoster(h)
           \/ RostersDone(h) \/ WriteRoster(h)
    PROVE  /\ PublishOK(h)'
           /\ \A id \in Live : \A k \in RosterNames : Fresh(id, k) => Fresh(id, k)'
<1>1. /\ hnd \in [Handlers -> HandlerRecords] /\ hnd[h] \in HandlerRecords
      /\ hnd[h].todo \in Seq(Nat) /\ hnd[h].cand \in Seq(CandidateRecords)
      /\ hnd[h].pc \in {"sync", "read", "write"}
    BY DEF GroupInv, GroupsTypeOK, HandlerRecords, Snapshot, Finish, SkipRoster, ReadRoster,
           RostersDone, WriteRoster, At
<1>2. UNCHANGED <<heap, groups>> /\ Live' = Live
      /\ \A id : GroupOf(id)' = GroupOf(id)
    BY DEF Snapshot, Finish, SkipRoster, ReadRoster, RostersDone, WriteRoster, memVars,
           Live, GroupOf
<1>3. \A k \in Handlers : k # h => hnd'[k] = hnd[k]
    BY OthersStay DEF Step
<1>4. ASSUME NEW id \in Live, NEW k \in RosterNames, Fresh(id, k), rosters' = rosters,
             AwaitedBy(h, id, k) => AwaitedBy(h, id, k)' \/ Current(id, k)
      PROVE  Fresh(id, k)'
    BY <1>2, <1>3, <1>4 DEF Fresh, Current, AwaitedBy, Awaits
<1>5. CASE Finish(h)
  <2>1. hnd[h].todo = <<>> /\ hnd[h].cand = <<>> /\ hnd'[h] = Idle /\ rosters' = rosters
    <3>1. Handled(h) = Idle
        BY DEF Handled, NoEvent, Event
    <3> QED
        BY <1>1, <1>5, <3>1 DEF Finish, At, PublishOK, storeVars
  <2>2. PublishOK(h)'
      BY <2>1 DEF PublishOK, Idle
  <2>3. \A id, k : ~AwaitedBy(h, id, k)
      BY <2>1 DEF AwaitedBy, Awaits
  <2> QED
      BY <1>4, <2>1, <2>2, <2>3
<1>6. CASE Snapshot(h)
  <2>1. /\ hnd[h].pc = "sync" /\ hnd[h].todo # <<>> /\ hnd[h].cand = <<>>
        /\ hnd'[h].pc = "read" /\ hnd'[h].todo = Tail(hnd[h].todo)
        /\ hnd'[h].cand = Candidates(heap[Head(hnd[h].todo)])
        /\ rosters' = rosters
      BY <1>1, <1>6 DEF Snapshot, At, PublishOK, storeVars, HandlerRecords
  <2>2. /\ hnd[h].todo[1] = Head(hnd[h].todo) /\ 1 \in DOMAIN hnd[h].todo
        /\ \A i \in DOMAIN Tail(hnd[h].todo) : /\ i + 1 \in DOMAIN hnd[h].todo
                                              /\ Tail(hnd[h].todo)[i] = hnd[h].todo[i + 1]
        /\ \A i \in DOMAIN hnd[h].todo : i # 1 =>
              i - 1 \in DOMAIN Tail(hnd[h].todo) /\ Tail(hnd[h].todo)[i - 1] = hnd[h].todo[i]
    <3>1. ASSUME NEW s \in Seq(Nat), s # <<>>
          PROVE  /\ s[1] = Head(s) /\ 1 \in DOMAIN s
                 /\ \A i \in DOMAIN Tail(s) : i + 1 \in DOMAIN s /\ Tail(s)[i] = s[i + 1]
                 /\ \A i \in DOMAIN s : i # 1 =>
                      i - 1 \in DOMAIN Tail(s) /\ Tail(s)[i - 1] = s[i]
        BY <3>1
    <3> QED
        BY <1>1, <2>1, <3>1
  <2>3. PICK id \in Live : hnd[h].todo[1] = groups[id]
      BY <1>1, <2>2 DEF PublishOK
  <2>4. heap[Head(hnd[h].todo)] = GroupOf(id) /\ GroupOf(id).id = id
      BY <2>2, <2>3, LiveObject DEF GroupOf
  <2>5. /\ DOMAIN hnd'[h].cand = DOMAIN RosterKinds
        /\ \A i \in DOMAIN RosterKinds :
             /\ hnd'[h].cand[i].id = id /\ hnd'[h].cand[i].kind = RosterKinds[i]
             /\ hnd'[h].cand[i].tags = RosterTags(GroupOf(id), RosterKinds[i])
      BY <2>1, <2>4 DEF Candidates
  <2>6. PublishOK(h)'
    <3>1. \A i \in DOMAIN hnd'[h].todo : \E x \in Live : hnd'[h].todo[i] = groups[x]
        BY <1>1, <2>1, <2>2 DEF PublishOK
    <3> QED
        BY <1>2, <2>1, <2>5, <3>1 DEF PublishOK
  <2>7. ASSUME NEW x \in Live, NEW k \in RosterNames, AwaitedBy(h, x, k)
        PROVE  AwaitedBy(h, x, k)'
    <3>1. PICK i \in DOMAIN hnd[h].todo : hnd[h].todo[i] = groups[x]
        BY <2>1, <2>7 DEF AwaitedBy, Awaits
    <3>2. CASE i = 1
      <4>1. GroupOf(x) = GroupOf(id)
          BY <2>3, <3>1, <3>2 DEF GroupOf
      <4>2. x = id
          BY <4>1, LiveObject
      <4>3. PICK j \in DOMAIN RosterKinds : RosterKinds[j] = k
          BY DEF RosterNames
      <4> QED
          BY <2>1, <2>5, <4>2, <4>3 DEF AwaitedBy, Awaits
    <3>3. CASE i # 1
      <4>1. i - 1 \in DOMAIN hnd'[h].todo /\ hnd'[h].todo[i - 1] = groups'[x]
          BY <1>2, <2>1, <2>2, <3>1, <3>3
      <4> QED
          BY <2>1, <4>1 DEF AwaitedBy, Awaits
    <3> QED
        BY <3>2, <3>3
  <2> QED
      BY <1>4, <2>1, <2>6, <2>7
<1>7. CASE RostersDone(h)
  <2>1. /\ hnd[h].cand = <<>> /\ hnd'[h].pc = "sync" /\ hnd'[h].todo = hnd[h].todo
        /\ hnd'[h].cand = <<>> /\ rosters' = rosters
      BY <1>1, <1>7 DEF RostersDone, storeVars, HandlerRecords
  <2>2. PublishOK(h)'
      BY <1>1, <1>2, <2>1 DEF PublishOK
  <2>3. \A id, k : AwaitedBy(h, id, k) => AwaitedBy(h, id, k)'
      BY <1>2, <2>1 DEF AwaitedBy, Awaits
  <2> QED
      BY <1>4, <2>1, <2>2, <2>3
<1>8. CASE ReadRoster(h)
  <2>1. /\ hnd[h].cand # <<>> /\ hnd'[h].pc = "write" /\ hnd'[h].todo = hnd[h].todo
        /\ hnd'[h].cand = hnd[h].cand /\ rosters' = rosters
        /\ hnd'[h].cur = StoredRoster(Head(hnd[h].cand)).at
      BY <1>1, <1>8 DEF ReadRoster, storeVars, HandlerRecords
  <2>2. PublishOK(h)'
      BY <1>1, <1>2, <2>1 DEF PublishOK, StoredRoster
  <2>3. \A id, k : AwaitedBy(h, id, k) => AwaitedBy(h, id, k)'
      BY <1>2, <2>1 DEF AwaitedBy, Awaits
  <2> QED
      BY <1>4, <2>1, <2>2, <2>3
<1>9. ASSUME SkipRoster(h) \/ WriteRoster(h)
      PROVE  /\ hnd[h].cand # <<>> /\ hnd'[h].pc = "read" /\ hnd'[h].todo = hnd[h].todo
             /\ hnd'[h].cand = Tail(hnd[h].cand)
             /\ Head(hnd[h].cand) = hnd[h].cand[1] /\ 1 \in DOMAIN hnd[h].cand
             /\ \A i \in DOMAIN Tail(hnd[h].cand) :
                  i + 1 \in DOMAIN hnd[h].cand /\ Tail(hnd[h].cand)[i] = hnd[h].cand[i + 1]
             /\ \A i \in DOMAIN hnd[h].cand : i # 1 =>
                  i - 1 \in DOMAIN Tail(hnd[h].cand)
                  /\ Tail(hnd[h].cand)[i - 1] = hnd[h].cand[i]
             /\ PublishOK(h)'
  <2>1. hnd[h].cand # <<>>
      BY <1>1, <1>9 DEF SkipRoster, WriteRoster, At, PublishOK
  <2>2. hnd'[h].pc = "read" /\ hnd'[h].todo = hnd[h].todo /\ hnd'[h].cand = Tail(hnd[h].cand)
    <3>1. CASE SkipRoster(h)
        BY <1>1, <3>1 DEF SkipRoster, At, HandlerRecords
    <3>2. CASE WriteRoster(h)
        BY <1>1, <3>2 DEF WriteRoster, HandlerRecords
    <3> QED
        BY <1>9, <3>1, <3>2
  <2>3. /\ Head(hnd[h].cand) = hnd[h].cand[1] /\ 1 \in DOMAIN hnd[h].cand
        /\ \A i \in DOMAIN Tail(hnd[h].cand) :
             i + 1 \in DOMAIN hnd[h].cand /\ Tail(hnd[h].cand)[i] = hnd[h].cand[i + 1]
        /\ \A i \in DOMAIN hnd[h].cand : i # 1 =>
             i - 1 \in DOMAIN Tail(hnd[h].cand)
             /\ Tail(hnd[h].cand)[i - 1] = hnd[h].cand[i]
      BY <1>1, <2>1
  <2>4. PublishOK(h)'
      BY <1>1, <1>2, <2>2, <2>3 DEF PublishOK
  <2> QED
      BY <2>1, <2>2, <2>3, <2>4
<1>10. ASSUME NEW x \in Live, NEW k \in RosterNames, AwaitedBy(h, x, k),
              SkipRoster(h) \/ WriteRoster(h)
       PROVE  \/ AwaitedBy(h, x, k)'
              \/ Head(hnd[h].cand).id = x /\ Head(hnd[h].cand).kind = k
  <2>1. CASE \E i \in DOMAIN hnd[h].todo : hnd[h].todo[i] = groups[x]
      BY <1>2, <1>9, <1>10, <2>1 DEF AwaitedBy, Awaits
  <2>2. CASE \E j \in DOMAIN hnd[h].cand : hnd[h].cand[j].id = x /\ hnd[h].cand[j].kind = k
    <3>1. PICK j \in DOMAIN hnd[h].cand : hnd[h].cand[j].id = x /\ hnd[h].cand[j].kind = k
        BY <2>2
    <3>2. CASE j = 1
        BY <1>9, <1>10, <3>1, <3>2
    <3>3. CASE j # 1
      <4>1. j - 1 \in DOMAIN hnd'[h].cand /\ hnd'[h].cand[j - 1] = hnd[h].cand[j]
          BY <1>9, <1>10, <3>1, <3>3
      <4>2. Awaits(hnd[h], x, k)'
          BY <3>1, <4>1 DEF Awaits
      <4> QED
          BY <1>9, <1>10, <4>2 DEF AwaitedBy
    <3> QED
        BY <3>2, <3>3
  <2> QED
      BY <1>10, <2>1, <2>2 DEF AwaitedBy, Awaits
<1>11. ASSUME SkipRoster(h) \/ WriteRoster(h)
       PROVE  \E c \in CandidateRecords :
                 /\ c = Head(hnd[h].cand) /\ c.id \in Live /\ c.id \in GroupIds
                 /\ c.kind \in RosterNames /\ c.at \in Nat
                 /\ c.tags = RosterTags(GroupOf(c.id), c.kind)
  <2>1. Head(hnd[h].cand) \in CandidateRecords
      BY <1>1, <1>9, <1>11
  <2>2. PICK c \in CandidateRecords : c = Head(hnd[h].cand) /\ c = hnd[h].cand[1]
      BY <1>9, <1>11, <2>1
  <2>3. c.id \in Live /\ c.tags = RosterTags(GroupOf(c.id), c.kind)
      BY <1>1, <1>9, <1>11, <2>2 DEF PublishOK
  <2> QED
      BY <2>2, <2>3 DEF CandidateRecords
<1>12. CASE SkipRoster(h)
  <2>1. PICK c \in CandidateRecords :
           c = Head(hnd[h].cand) /\ c.tags = RosterTags(GroupOf(c.id), c.kind)
      BY <1>11, <1>12
  <2>2. Current(c.id, c.kind) /\ rosters' = rosters
      BY <1>12, <2>1 DEF SkipRoster, StoredRoster, Current, storeVars
  <2> QED
      BY <1>4, <1>9, <1>10, <1>12, <2>1, <2>2
<1>13. CASE WriteRoster(h)
  <2>1. PICK c \in CandidateRecords :
           /\ c = Head(hnd[h].cand) /\ c.id \in Live /\ c.id \in GroupIds
           /\ c.kind \in RosterNames /\ c.at \in Nat
           /\ c.tags = RosterTags(GroupOf(c.id), c.kind)
      BY <1>11, <1>13
  <2>2. hnd[h].pc = "write" /\ hnd[h].cur = StoredRoster(c).at
      BY <1>1, <1>13, <2>1 DEF WriteRoster, At, PublishOK
  <2>3. rosters \in [GroupIds -> [RosterNames -> RosterRecords]]
        /\ StoredRoster(c).at \in Nat
    <3>1. rosters \in [GroupIds -> [RosterNames -> RosterRecords]]
        BY DEF GroupInv, GroupsTypeOK
    <3>2. rosters[c.id][c.kind] \in RosterRecords
        BY <2>1, <3>1
    <3> QED
        BY <3>1, <3>2 DEF StoredRoster, RosterRecords
  <2>4. ~(StoredRoster(c).at >= Bumped(c, hnd[h].cur))
      BY <2>1, <2>2, <2>3 DEF Bumped
  <2>5. rosters' = [rosters EXCEPT ![c.id][c.kind] =
                      [stored |-> TRUE, at |-> Bumped(c, hnd[h].cur), tags |-> c.tags]]
      BY <1>13, <2>1, <2>4 DEF WriteRoster
  <2>6. rosters'[c.id][c.kind].tags = c.tags
      BY <2>1, <2>3, <2>5
  <2>7. \A x \in GroupIds, k \in RosterNames :
           (x # c.id \/ k # c.kind) => rosters'[x][k] = rosters[x][k]
      BY <2>1, <2>3, <2>5
  <2>8. ASSUME NEW x \in Live, NEW k \in RosterNames, Fresh(x, k) PROVE Fresh(x, k)'
    <3>1. CASE x = c.id /\ k = c.kind
        BY <1>2, <2>1, <2>6, <3>1 DEF Fresh, Current
    <3>2. CASE ~(x = c.id /\ k = c.kind)
      <4>1. rosters'[x][k] = rosters[x][k]
          BY <2>7, <3>2 DEF Live
      <4>2. CASE Current(x, k)
          BY <1>2, <4>1, <4>2 DEF Fresh, Current
      <4>3. CASE AwaitedBy(h, x, k)
          BY <1>10, <1>13, <2>1, <3>2, <4>3 DEF Fresh
      <4>4. CASE \E j \in Handlers : j # h /\ AwaitedBy(j, x, k)
          BY <1>2, <1>3, <4>4 DEF Fresh, AwaitedBy, Awaits
      <4> QED
          BY <2>8, <4>2, <4>3, <4>4 DEF Fresh
    <3> QED
        BY <3>1, <3>2
  <2> QED
      BY <1>9, <1>13, <2>8
<1> QED
    BY <1>5, <1>6, <1>7, <1>8, <1>12, <1>13

\* What a restart has still to publish, if no write has failed.
SyncInv ==
    (boot.pc = "sync" /\ fails = 0) =>
       /\ \A h \in Handlers : PublishOK(h)
       /\ \A id \in Live : \A k \in RosterNames : Fresh(id, k)

\* Idle handlers publish nothing.
LEMMA IdlePublishes ==
    ASSUME NEW h \in Handlers, hnd[h].pc = "idle" PROVE PublishOK(h)
BY DEF PublishOK

\* group.go:141-147: the handler that synchronises after a restart.
LEMMA SyncServes ==
    ASSUME BootInv, SyncInv, ServeStep PROVE SyncInv'
<1>1. SUFFICES ASSUME boot'.pc = "sync", fails' = 0
               PROVE  /\ \A h \in Handlers : PublishOK(h)'
                      /\ \A id \in Live' : \A k \in RosterNames : Fresh(id, k)'
    BY DEF SyncInv
<1>2. boot.pc = "sync" /\ GroupInv /\ PhaseInv
    BY <1>1 DEF ServeStep, BootInv
<1>3. /\ UNCHANGED <<heap, groups, deletedGroups, db, granted, boot>>
      /\ \/ Tick
         \/ \E h \in Handlers : \/ Snapshot(h) \/ Finish(h) \/ SkipRoster(h)
                                \/ ReadRoster(h) \/ RostersDone(h)
                                \/ WriteRoster(h) \/ WriteRosterFails(h)
    BY <1>2, ServesInSync
<1>4. Live' = Live
    BY <1>3 DEF Live
<1>5. CASE Tick
  <2>1. UNCHANGED <<rosters, hnd, fails>>
      BY <1>5 DEF Tick, storeVars
  <2>2. \A h \in Handlers : PublishOK(h) => PublishOK(h)'
      BY <1>3, <1>4, <2>1 DEF PublishOK, GroupOf, StoredRoster
  <2>3. \A id, k : Fresh(id, k) => Fresh(id, k)'
      BY <1>3, <2>1 DEF Fresh, Current, AwaitedBy, Awaits, GroupOf
  <2> QED
      BY <1>1, <1>2, <1>4, <2>1, <2>2, <2>3 DEF SyncInv
<1>6. ASSUME NEW h \in Handlers,
             \/ Snapshot(h) \/ Finish(h) \/ SkipRoster(h)
             \/ ReadRoster(h) \/ RostersDone(h)
             \/ WriteRoster(h) \/ WriteRosterFails(h)
      PROVE  /\ \A k \in Handlers : PublishOK(k)'
             /\ \A id \in Live' : \A k \in RosterNames : Fresh(id, k)'
  <2>1. ~WriteRosterFails(h) /\ fails' = fails
    <3>1. fails \in Nat
        BY <1>2 DEF GroupInv, GroupsTypeOK
    <3>2. ~WriteRosterFails(h)
        BY <1>1, <3>1 DEF WriteRosterFails
    <3> QED
        BY <1>6, <3>2 DEF Snapshot, Finish, SkipRoster, ReadRoster, RostersDone, WriteRoster,
                          envVars
  <2>2. (\A k \in Handlers : PublishOK(k)) /\ \A id \in Live : \A k \in RosterNames : Fresh(id, k)
      BY <1>1, <1>2, <2>1 DEF SyncInv
  <2>6. hnd[h].ev = NoEvent
      BY <1>2 DEF PhaseInv
  <2>3. /\ hnd[h].pc # "idle" /\ \A k \in Handlers \ {h} : hnd'[k] = hnd[k]
      BY <1>2, <1>6, <2>6, PublishingMoves
  <2>4. \A k \in Handlers : k # h => hnd'[k].pc = "idle"
      BY <1>2, <2>3 DEF PhaseInv
  <2>5. /\ PublishOK(h)'
        /\ \A id \in Live : \A k \in RosterNames : Fresh(id, k) => Fresh(id, k)'
      BY <1>2, <1>6, <2>1, <2>2, <2>6, PublishStep
  <2>7. ASSUME NEW k \in Handlers, k # h PROVE PublishOK(k)'
      BY <2>4, <2>7 DEF PublishOK
  <2> QED
      BY <1>4, <2>2, <2>5, <2>7
<1> QED
    BY <1>3, <1>5, <1>6

\* group.go:141-147: whatever a crash left unpublished, when the relay serves again
\* the stored rosters of every live group are what memory holds, if no write
\* has failed.
THEOREM RostersAreRefreshed == RecoverySpec => []RestartRefreshesRosters
<1>1. RecoveryInit => SyncInv
    BY DEF RecoveryInit, Served, SyncInv
<1>2. ASSUME BootInv, SyncInv, [RecoveryNext]_allVars PROVE SyncInv'
  <2>1. CASE ServeStep
      BY <1>2, <2>1, SyncServes
  <2>2. CASE Crash
      BY <2>2 DEF Crash, Served, SyncInv
  <2>3. CASE StartSync
    <3>1. PICK h \in Handlers, order \in [1..Cardinality(Live) -> {groups[id] : id \in Live}] :
             /\ \A id \in Live : \E i \in DOMAIN order : order[i] = groups[id]
             /\ hnd' = [hnd EXCEPT ![h].pc = "sync", ![h].todo = order]
        BY <2>3 DEF StartSync
    <3>2. UNCHANGED <<heap, groups, rosters>> /\ Live' = Live
        BY <2>3 DEF StartSync, memVars, storeVars, Live
    <3>3. boot.pc = "link" /\ \A k \in Handlers : hnd[k] = Idle
        BY <1>2, <2>3 DEF StartSync, BootInv, PhaseInv, Starting
    <3>4. hnd \in [Handlers -> HandlerRecords]
        BY <1>2 DEF BootInv, GroupInv, GroupsTypeOK
    <3>5. /\ hnd'[h].pc = "sync" /\ hnd'[h].todo = order /\ hnd'[h].cand = <<>>
          /\ \A k \in Handlers : k # h => hnd'[k].pc = "idle"
        BY <3>1, <3>3, <3>4 DEF Idle
    <3>6. PublishOK(h)'
        BY <3>2, <3>5 DEF PublishOK
    <3>7. ASSUME NEW k \in Handlers, k # h PROVE PublishOK(k)'
        BY <3>5, <3>7 DEF PublishOK
    <3>8. \A id \in Live : \A k \in RosterNames : Fresh(id, k)'
        BY <3>1, <3>2, <3>5 DEF Fresh, AwaitedBy, Awaits
    <3> QED
        BY <3>2, <3>6, <3>7, <3>8 DEF SyncInv
  <2>4. CASE Boot /\ ~StartSync
    <3>1. boot \in BootRecords
        BY <1>2 DEF BootInv, PhaseInv
    <3>2. CASE \E e \in boot.creates : ScanCreate(e)
        BY <3>1, <3>2 DEF ScanCreate, BootRecords, SyncInv
    <3>3. CASE (\E e \in boot.todo : Replay(e)) \/ (\E c \in boot.kids : LinkChild(c))
        BY <3>1, <3>3 DEF Replay, LinkChild, BootRecords, SyncInv
    <3>4. CASE Loaded
        BY <3>4 DEF Loaded, Served, SyncInv
    <3>5. CASE ScanDone
        BY <3>1, <3>5 DEF ScanDone, BootRecords, SyncInv
    <3>6. CASE ServeAgain
        BY <3>6 DEF ServeAgain, Served, SyncInv
    <3> QED
        BY <2>4, <3>2, <3>3, <3>4, <3>5, <3>6 DEF Boot
  <2>5. CASE UNCHANGED allVars
    <3>1. UNCHANGED <<heap, groups, rosters, hnd, boot, fails>> /\ Live' = Live
        BY <2>5 DEF allVars, recoveryVars, vars, memVars, storeVars, envVars, Live
    <3>2. \A h \in Handlers : PublishOK(h) => PublishOK(h)'
        BY <3>1 DEF PublishOK, GroupOf, StoredRoster
    <3>3. \A id, k : Fresh(id, k) => Fresh(id, k)'
        BY <3>1 DEF Fresh, Current, AwaitedBy, Awaits, GroupOf
    <3> QED
        BY <1>2, <3>1, <3>2, <3>3 DEF SyncInv
  <2> QED
      BY <1>2, <2>1, <2>2, <2>3, <2>4, <2>5 DEF RecoveryNext
<1>3. ASSUME BootInv, SyncInv PROVE RestartRefreshesRosters
  <2> SUFFICES ASSUME boot.pc = "sync", Quiet, fails = 0,
                      NEW id \in Live, NEW k \in DOMAIN rosters[id]
               PROVE  rosters[id][k].tags = RosterTags(GroupOf(id), k)
      BY DEF RestartRefreshesRosters
  <2>1. k \in RosterNames
      BY <1>3 DEF BootInv, GroupInv, GroupsTypeOK, Live
  <2>2. Fresh(id, k)
      BY <1>3, <2>1 DEF SyncInv
  <2> QED
      BY <2>2 DEF Fresh, Current, AwaitedBy, Quiet
<1> QED
    BY <1>1, <1>2, <1>3, RecoveryInvariance, PTL DEF RecoverySpec

-----------------------------------------------------------------------------
(* What each step does, in terms of the map and of the handler's fields     *)

\* The handler goes to p and keeps the rest.
Keeps(h, p) ==
    /\ hnd'[h].pc = p /\ hnd'[h].ev = hnd[h].ev /\ hnd'[h].inner = hnd[h].inner
    /\ hnd'[h].obj = hnd[h].obj /\ hnd'[h].target = hnd[h].target
    /\ hnd'[h].todo = hnd[h].todo /\ hnd'[h].cand = hnd[h].cand

\* g is the new object of id, and the other groups stay.
NewAt(id, g) ==
    /\ groups'[id] = Len(heap) + 1 /\ heap'[groups'[id]] = g
    /\ \A x \in GroupIds : x # id =>
         /\ groups'[x] = groups[x]
         /\ groups[x] # 0 => heap'[groups[x]] = heap[groups[x]]

\* The object of id becomes g, and the other groups stay.
ChangedAt(id, g) ==
    /\ groups' = groups /\ heap'[groups[id]] = g
    /\ \A x \in Live : x # id => heap'[groups[x]] = heap[groups[x]]

\* The map has no object for id any more, and the other groups stay.
ForgottenAt(id) ==
    /\ heap' = heap /\ groups'[id] = 0
    /\ \A x \in GroupIds : x # id => groups'[x] = groups[x]

SameEvents == UNCHANGED <<db, granted>>
SameRosters == UNCHANGED <<rosters, deletedGroups>>

\* The types of what a handler holds and of the map.
LEMMA SerialFacts ==
    ASSUME GroupInv, NEW h \in Handlers
    PROVE  /\ hnd \in [Handlers -> HandlerRecords] /\ hnd[h] \in HandlerRecords
           /\ hnd[h].ev \in Messages \cup {NoEvent} \cup WipeMarks /\ hnd[h].pc \in Places
           /\ hnd[h].todo \in Seq(Nat) /\ hnd[h].cand \in Seq(CandidateRecords)
           /\ heap \in Seq(GroupRecords) /\ Len(heap) \in Nat
           /\ groups \in [GroupIds -> Nat]
           /\ \A id \in GroupIds : groups[id] # 0 => groups[id] \in 1..Len(heap)
           /\ \A x, y \in GroupIds : groups[x] # 0 /\ groups[x] = groups[y] => x = y
<1>1. \A x, y \in GroupIds : groups[x] # 0 /\ groups[x] = groups[y] => x = y
    BY DEF GroupInv, MapInv
<1> QED
    BY <1>1 DEF GroupInv, GroupsTypeOK, MapInv, HandlerRecords

\* The message of a handler that is not publishing.
LEMMA EventFacts ==
    ASSUME GroupInv, NEW h \in Handlers,
           hnd[h].pc \notin Wiping \cup {"idle", "sync", "read", "write", "retract"}
    PROVE  /\ hnd[h].ev \in Messages /\ hnd[h].ev.group \in GroupIds
           /\ hnd[h].ev.parent \in GroupIds \cup {None} /\ hnd[h].ev.at \in Nat
           /\ hnd[h].ev.kind \in ModerationKinds \cup Answered \cup {"note", "retract"}
           /\ hnd[h].ev.kind \in Answered => hnd[h].ev.author \in Users
BY HandlerFacts DEF HoldsMessage, Messages

\* group.go NewGroup, state.go: a new object takes its place in the map.
LEMMA AppendEffect ==
    ASSUME GroupInv, NEW id \in GroupIds, NEW g,
           heap' = Append(heap, g), groups' = [groups EXCEPT ![id] = Len(heap')]
    PROVE  NewAt(id, g) /\ groups'[id] # 0
<1>1. /\ heap \in Seq(GroupRecords) /\ Len(heap) \in Nat /\ groups \in [GroupIds -> Nat]
      /\ \A x \in GroupIds : groups[x] # 0 => groups[x] \in 1..Len(heap)
    BY DEF GroupInv, GroupsTypeOK, MapInv
<1>2. Len(heap') = Len(heap) + 1 /\ heap'[Len(heap) + 1] = g
      /\ \A i \in 1..Len(heap) : heap'[i] = heap[i]
    BY <1>1
<1>3. groups'[id] = Len(heap) + 1 /\ \A x \in GroupIds : x # id => groups'[x] = groups[x]
    BY <1>1, <1>2
<1> QED
    BY <1>1, <1>2, <1>3 DEF NewAt

\* state.go: an object that is in the map is changed.
LEMMA ExceptEffect ==
    ASSUME GroupInv, NEW id \in Live, NEW g, groups' = groups,
           heap' = [heap EXCEPT ![groups[id]] = g]
    PROVE  ChangedAt(id, g)
<1>1. /\ heap \in Seq(GroupRecords) /\ Len(heap) \in Nat /\ groups \in [GroupIds -> Nat]
      /\ \A x \in GroupIds : groups[x] # 0 => groups[x] \in 1..Len(heap)
      /\ \A x, y \in GroupIds : groups[x] # 0 /\ groups[x] = groups[y] => x = y
    BY DEF GroupInv, GroupsTypeOK, MapInv
<1>2. id \in GroupIds /\ groups[id] # 0
    BY DEF Live
<1> QED
    BY <1>1, <1>2 DEF ChangedAt, Live

\* reject_event.go, relay.go: a message is taken on.
LEMMA ReceiveEffect ==
    ASSUME GroupInv, NEW h \in Handlers, NEW m \in Submissions,
           NEW t \in Epoch..MaxTime, Receive(h, [m EXCEPT !.at = t])
    PROVE  /\ hnd[h].pc = "idle"
           /\ hnd'[h].ev \in Messages /\ Accepts(hnd'[h].ev)
           /\ hnd'[h].ev.kind = m.kind /\ hnd'[h].ev.author = m.author
           /\ hnd'[h].ev.refs = m.refs
           /\ hnd'[h].ev.kind \in Answered => hnd'[h].ev.author \in Users
           /\ hnd'[h].pc = IF hnd'[h].ev.kind = "create" THEN "place" ELSE "store"
           /\ hnd'[h].todo = <<>> /\ hnd'[h].cand = <<>>
           /\ UNCHANGED <<heap, groups, deletedCache, fails>> /\ SameEvents /\ SameRosters
<1>1. t \in Nat /\ m \in Messages /\ (m.kind \in Answered => m.author \in Users)
    BY GroupsAssumption
<1>2. PICK e : e = [m EXCEPT !.at = t]
    OBVIOUS
<1>3. /\ e \in Messages /\ e.kind = m.kind /\ e.author = m.author /\ e.refs = m.refs
      /\ e.kind = "create" => e.author # RelayKey
    BY <1>1, <1>2, Nip29Assumption DEF Messages, Answered
<1>4. PICK s : s = [Idle EXCEPT !.ev = e, !.left = e.refs,
                      !.pc = IF e.kind = "create" /\ e.author # RelayKey THEN "place" ELSE "store"]
    OBVIOUS
<1>5. /\ s.ev = e /\ s.todo = <<>> /\ s.cand = <<>>
      /\ s.pc = IF e.kind = "create" THEN "place" ELSE "store"
    BY <1>3, <1>4 DEF Idle
<1>6. hnd'[h] = s
    BY <1>2, <1>4, SerialFacts DEF Receive
<1>7. Accepts(e) /\ hnd[h].pc = "idle"
    BY <1>2 DEF Receive, At
<1>8. UNCHANGED <<heap, groups, deletedCache, fails>> /\ SameEvents /\ SameRosters
    BY DEF Receive, memVars, storeVars, SameEvents, SameRosters
<1> QED
    BY <1>1, <1>3, <1>5, <1>6, <1>7, <1>8

\* wipe.go:13-34: a wipe begins.
LEMMA WipeEffect ==
    ASSUME GroupInv, NEW h \in Handlers, NEW id \in Wipes, Wipe(h, id)
    PROVE  /\ hnd[h].pc = "idle" /\ id \in Live /\ hnd'[h].pc = "wipeEvents"
           /\ hnd'[h].obj = groups[id] /\ heap[groups[id]].id = id
           /\ hnd'[h].ev = [NoEvent EXCEPT !.group = id]
           /\ hnd'[h].todo = <<>> /\ hnd'[h].cand = <<>>
           /\ UNCHANGED <<heap, groups, deletedCache, fails>> /\ SameEvents /\ SameRosters
<1>1. PICK s : s = [Idle EXCEPT !.pc = "wipeEvents", !.ev = [NoEvent EXCEPT !.group = id],
                      !.obj = groups[id], !.left = {e \in db : e.group = id}]
    OBVIOUS
<1>2. hnd'[h] = s
    BY <1>1, SerialFacts DEF Wipe
<1>3. /\ s.pc = "wipeEvents" /\ s.obj = groups[id] /\ s.ev = [NoEvent EXCEPT !.group = id]
      /\ s.todo = <<>> /\ s.cand = <<>>
    BY <1>1 DEF Idle
<1>4. id \in Live /\ heap[groups[id]].id = id
    BY DEF Wipe, GroupInv, MapInv, Live
<1>5. /\ hnd[h].pc = "idle"
      /\ UNCHANGED <<heap, groups, deletedCache, fails>> /\ SameEvents /\ SameRosters
    BY DEF Wipe, At, memVars, storeVars, SameEvents, SameRosters
<1> QED
    BY <1>2, <1>3, <1>4, <1>5

\* reject_event.go:86-91: the placeholder.
LEMMA PlaceholderEffect ==
    ASSUME GroupInv, NEW h \in Handlers, Placeholder(h)
    PROVE  /\ hnd[h].pc = "place" /\ hnd[h].ev.kind = "create" /\ Keeps(h, "store")
           /\ NewAt(hnd[h].ev.group, NewGroup(hnd[h].ev.group))
           /\ groups'[hnd[h].ev.group] # 0
           /\ UNCHANGED <<deletedCache, fails>> /\ SameEvents /\ SameRosters
<1>1. hnd[h].pc = "place" /\ hnd[h].ev.kind = "create" /\ hnd[h].ev.group \in GroupIds
    BY HandlerFacts DEF Placeholder, At, HoldsMessage, Wiping, Messages
<1>2. Keeps(h, "store")
    BY PcMoves DEF Placeholder, Keeps, Places
<1> QED
    BY <1>1, <1>2, AppendEffect DEF Placeholder, storeVars, envVars, SameEvents, SameRosters

\* relay.go:46-59: the message is stored.
LEMMA StoreEventEffect ==
    ASSUME GroupInv, NEW h \in Handlers, StoreEvent(h)
    PROVE  /\ hnd[h].pc = "store" /\ Keeps(h, "process") /\ hnd[h].ev \notin db
           /\ db' = db \cup {hnd[h].ev} /\ granted' = granted \cup {hnd[h].ev}
           /\ UNCHANGED <<heap, groups, deletedCache, fails>> /\ SameRosters
BY PcMoves DEF StoreEvent, At, Keeps, Places, memVars, envVars, SameRosters

\* A handler that is done.
LEMMA IdleEffect ==
    ASSUME GroupInv, NEW h \in Handlers, hnd' = [hnd EXCEPT ![h] = Idle]
    PROVE  hnd'[h] = Idle /\ hnd'[h].pc = "idle" /\ hnd'[h].ev = NoEvent
           /\ hnd'[h].todo = <<>> /\ hnd'[h].cand = <<>>
BY SerialFacts DEF Idle

\* relay.go:50-58: the store refuses the message, and a placeholder is taken back.
LEMMA StoreFailsEffect ==
    ASSUME GroupInv, NEW h \in Handlers, StoreFails(h)
    PROVE  /\ hnd[h].pc = "store" /\ hnd'[h] = Idle
           /\ IF hnd[h].ev.kind = "create" THEN ForgottenAt(hnd[h].ev.group)
              ELSE UNCHANGED <<heap, groups>>
           /\ fails' = fails + 1
           /\ UNCHANGED deletedCache /\ SameEvents /\ SameRosters
<1>1. hnd[h].pc = "store" /\ hnd[h].ev.group \in GroupIds
    BY EventFacts DEF StoreFails, At, Wiping
<1>2. hnd'[h] = Idle
    BY IdleEffect DEF StoreFails
<1> QED
    BY <1>1, <1>2, SerialFacts DEF StoreFails, ForgottenAt, storeVars, SameEvents, SameRosters

\* process_event.go:28-37: the group is registered.
LEMMA RegisterEffect ==
    ASSUME GroupInv, NEW h \in Handlers, Register(h)
    PROVE  /\ hnd[h].pc = "process" /\ hnd[h].ev.kind = "create"
           /\ NewAt(hnd[h].ev.group, [NewGroup(hnd[h].ev.group) EXCEPT !.parent = hnd[h].ev.parent])
           /\ groups'[hnd[h].ev.group] # 0
           /\ hnd'[h].pc = IF hnd[h].ev.parent = None THEN "creator" ELSE "link"
           /\ hnd'[h].ev = hnd[h].ev /\ hnd'[h].obj = groups'[hnd[h].ev.group]
           /\ hnd'[h].todo = IF hnd[h].ev.parent = None THEN <<hnd'[h].obj>> ELSE <<>>
           /\ hnd'[h].cand = hnd[h].cand
           /\ deletedGroups' = deletedGroups \ {hnd[h].ev.group}
           /\ UNCHANGED <<deletedCache, rosters, fails>> /\ SameEvents
<1>1. hnd[h].pc = "process" /\ hnd[h].ev.kind = "create" /\ hnd[h].ev.group \in GroupIds
    BY EventFacts DEF Register, At, Wiping
<1>2. /\ NewAt(hnd[h].ev.group, [NewGroup(hnd[h].ev.group) EXCEPT !.parent = hnd[h].ev.parent])
      /\ groups'[hnd[h].ev.group] # 0
    BY <1>1, AppendEffect DEF Register
<1>3. groups'[hnd[h].ev.group] = Len(heap')
    BY <1>1, SerialFacts DEF Register
<1> QED
    BY <1>1, <1>2, <1>3, SerialFacts DEF Register, HandlerRecords, storeVars, envVars, SameEvents

\* process_event.go:38-60, 133-187: the relay's own event is stored.
LEMMA SaveInnerEffect ==
    ASSUME GroupInv, NEW h \in Handlers, SaveInner(h)
    PROVE  \E m \in Messages :
             /\ m = InnerEvent(h) /\ m.author = RelayKey /\ m.group = hnd[h].ev.group
             /\ hnd[h].pc \in {"creator", "reply"} /\ hnd[h].ev.kind \in Answered /\ m \notin db
             /\ db' = db \cup {m} /\ granted' = granted \cup {m}
             /\ hnd'[h].pc = "inner" /\ hnd'[h].inner = m /\ hnd'[h].ev = hnd[h].ev
             /\ hnd'[h].obj = hnd[h].obj /\ hnd'[h].target = hnd[h].target
             /\ hnd'[h].todo = hnd[h].todo /\ hnd'[h].cand = hnd[h].cand
             /\ UNCHANGED <<heap, groups, deletedCache, fails>> /\ SameRosters
<1>1. hnd[h].pc \in {"creator", "reply"}
    BY DEF SaveInner, At
<1>2. hnd[h].ev.kind \in Answered
    BY <1>1, HandlerFacts DEF HoldsMessage, Answered
<1>3. PICK m \in Messages : m = InnerEvent(h) /\ m.author = RelayKey /\ m.group = hnd[h].ev.group
    BY <1>1, InnerShape
<1>4. hnd' = [hnd EXCEPT ![h].pc = "inner", ![h].inner = m]
    BY <1>3 DEF SaveInner
<1> QED
    BY <1>1, <1>2, <1>3, <1>4, SerialFacts
       DEF SaveInner, HandlerRecords, memVars, envVars, SameRosters

\* The event an action is about.
LEMMA ActionFacts ==
    ASSUME GroupInv, NEW h \in Handlers,
           hnd[h].pc \in {"inner", "apply"} \/ (hnd[h].pc = "process" /\ hnd[h].ev.kind \notin Answered)
    PROVE  /\ Action(h) \in Messages /\ Action(h).group = hnd[h].ev.group
           /\ Action(h) \in granted
<1>1. hnd[h].ev \in Messages /\ hnd[h].ev \in granted
    BY HandlerFacts DEF HoldsMessage, Wiping
<1>2. hnd[h].ev.kind \in Answered =>
        hnd[h].inner \in Messages /\ hnd[h].inner \in granted /\ hnd[h].inner.group = hnd[h].ev.group
    BY HandlerFacts DEF HoldsMessage
<1> QED
    BY <1>1, <1>2 DEF Action

\* process_event.go:61-64: the group is looked up.
LEMMA LoadEffect ==
    ASSUME GroupInv, NEW h \in Handlers, Load(h)
    PROVE  /\ \/ hnd[h].pc = "inner"
              \/ hnd[h].pc = "process" /\ hnd[h].ev.kind \in ModerationKinds \ {"create"}
           /\ hnd[h].pc = "inner" => hnd[h].ev.kind \in Answered
           /\ hnd[h].ev.group \in Live /\ hnd'[h].pc = "apply"
           /\ hnd'[h].target = groups[hnd[h].ev.group]
           /\ hnd'[h].ev = hnd[h].ev /\ hnd'[h].inner = hnd[h].inner /\ hnd'[h].obj = hnd[h].obj
           /\ hnd'[h].todo = hnd[h].todo /\ hnd'[h].cand = hnd[h].cand
           /\ UNCHANGED <<heap, groups, deletedCache, fails>> /\ SameEvents /\ SameRosters
<1>1. \/ hnd[h].pc = "inner"
      \/ hnd[h].pc = "process" /\ hnd[h].ev.kind \in ModerationKinds \ {"create"}
    BY DEF Load, Loads, At
<1>2. hnd[h].pc = "inner" => hnd[h].ev.kind \in Answered
    BY HandlerFacts DEF HoldsMessage
<1>3. Action(h).group = hnd[h].ev.group /\ hnd[h].ev.group \in GroupIds
  <2>1. hnd[h].pc = "process" => hnd[h].ev.kind \notin Answered
      BY <1>1 DEF Answered, ModerationKinds
  <2> QED
      BY <1>1, <2>1, ActionFacts, EventFacts DEF Wiping
<1>4. hnd[h].ev.group \in Live /\ hnd' = [hnd EXCEPT ![h].pc = "apply", ![h].target = groups[hnd[h].ev.group]]
    BY <1>3 DEF Load, Live
<1> QED
    BY <1>1, <1>2, <1>4, SerialFacts
       DEF Load, HandlerRecords, memVars, storeVars, envVars, SameEvents, SameRosters

\* m is applied to the object the map has for the handler's group.
AppliedTo(h, m) ==
    /\ ChangedAt(hnd[h].ev.group, Apply(GroupOf(hnd[h].ev.group), m))
    /\ UNCHANGED <<deletedCache, fails>> /\ SameEvents /\ SameRosters

\* process_event.go:34-36, group.go addParentChild: the group is listed by its parent.
LEMMA LinkEffect ==
    ASSUME GroupInv, NEW h \in Handlers, Link(h)
    PROVE  LET e == hnd[h].ev
               p == e.parent
           IN
           /\ hnd[h].pc = "link" /\ e.kind = "create" /\ p \in GroupIds
           /\ hnd'[h].pc = "creator" /\ hnd'[h].ev = e /\ hnd'[h].obj = hnd[h].obj
           /\ hnd'[h].inner = hnd[h].inner
           /\ hnd'[h].target = hnd[h].target /\ hnd'[h].cand = hnd[h].cand
           /\ IF p \in Live /\ e.group \notin GroupOf(p).children
              THEN /\ ChangedAt(p, AddChild(GroupOf(p), e.group, e.at))
                   /\ hnd'[h].todo = <<groups[p], hnd[h].obj>>
              ELSE UNCHANGED <<heap, groups>> /\ hnd'[h].todo = <<hnd[h].obj>>
           /\ UNCHANGED <<deletedCache, fails>> /\ SameEvents /\ SameRosters
<1>1. /\ hnd[h].pc = "link" /\ hnd[h].ev.kind = "create" /\ hnd[h].ev.parent \in GroupIds
    BY HandlerFacts DEF Link, At, HoldsMessage
<1>2. UNCHANGED <<groups, deletedCache, fails>> /\ SameEvents /\ SameRosters
    BY DEF Link, storeVars, envVars, SameEvents, SameRosters
<1>3. PICK added \in BOOLEAN :
         added <=> groups[hnd[h].ev.parent] # 0
                   /\ hnd[h].ev.group \notin heap[groups[hnd[h].ev.parent]].children
    OBVIOUS
<1>4. added <=> hnd[h].ev.parent \in Live
                /\ hnd[h].ev.group \notin GroupOf(hnd[h].ev.parent).children
    BY <1>1, <1>3 DEF Live, GroupOf
<1>5. hnd' = [hnd EXCEPT ![h].pc = "creator",
                 ![h].todo = IF added THEN <<groups[hnd[h].ev.parent], hnd[h].obj>>
                             ELSE <<hnd[h].obj>>]
    BY <1>3 DEF Link
<1>6. /\ hnd'[h].pc = "creator" /\ hnd'[h].ev = hnd[h].ev /\ hnd'[h].obj = hnd[h].obj
      /\ hnd'[h].inner = hnd[h].inner
      /\ hnd'[h].target = hnd[h].target /\ hnd'[h].cand = hnd[h].cand
      /\ hnd'[h].todo = IF added THEN <<groups[hnd[h].ev.parent], hnd[h].obj>>
                        ELSE <<hnd[h].obj>>
    BY <1>5, SerialFacts DEF HandlerRecords
<1>7. CASE added
  <2>1. heap' = [heap EXCEPT ![groups[hnd[h].ev.parent]] =
                   AddChild(GroupOf(hnd[h].ev.parent), hnd[h].ev.group, hnd[h].ev.at)]
      BY <1>3, <1>7 DEF Link, GroupOf
  <2>2. ChangedAt(hnd[h].ev.parent,
                  AddChild(GroupOf(hnd[h].ev.parent), hnd[h].ev.group, hnd[h].ev.at))
      BY <1>2, <1>4, <1>7, <2>1, ExceptEffect
  <2> QED
      BY <1>1, <1>2, <1>4, <1>6, <1>7, <2>2
<1>8. CASE ~added
  <2>1. heap' = heap
      BY <1>3, <1>8 DEF Link
  <2> QED
      BY <1>1, <1>2, <1>4, <1>6, <1>8, <2>1
<1> QED
    BY <1>7, <1>8

\* process_event.go:60: the creation is applied to the object in the map.
LEMMA ApplyCreateEffect ==
    ASSUME GroupInv, NEW h \in Handlers, ApplyCreate(h),
           hnd[h].ev.group \in Live, hnd[h].obj = groups[hnd[h].ev.group]
    PROVE  /\ hnd[h].pc = "created" /\ hnd[h].ev.kind = "create" /\ Keeps(h, "tail")
           /\ AppliedTo(h, hnd[h].ev)
<1>1. hnd[h].pc = "created" /\ hnd[h].ev.kind = "create"
    BY HandlerFacts DEF ApplyCreate, At, HoldsMessage
<1>2. Keeps(h, "tail")
    BY PcMoves DEF ApplyCreate, Keeps, Places
<1>3. heap' = [heap EXCEPT ![groups[hnd[h].ev.group]] = Apply(GroupOf(hnd[h].ev.group), hnd[h].ev)]
      /\ UNCHANGED <<groups, deletedCache, fails>> /\ SameEvents /\ SameRosters
    BY DEF ApplyCreate, GroupOf, storeVars, envVars, SameEvents, SameRosters
<1> QED
    BY <1>1, <1>2, <1>3, ExceptEffect DEF AppliedTo

\* process_event.go:64-73: the action is applied to the object in the map.
LEMMA ApplyActionEffect ==
    ASSUME GroupInv, NEW h \in Handlers, ApplyAction(h),
           hnd[h].ev.group \in Live, hnd[h].target = groups[hnd[h].ev.group]
    PROVE  /\ hnd[h].pc = "apply"
           /\ Keeps(h, AfterApply(hnd[h].ev, GroupOf(hnd[h].ev.group)))
           /\ AppliedTo(h, Action(h))
<1>1. hnd[h].pc = "apply"
    BY DEF ApplyAction, At
<1>2. AfterApply(hnd[h].ev, GroupOf(hnd[h].ev.group)) \in Places
    BY DEF AfterApply, Places
<1>3. hnd' = [hnd EXCEPT ![h].pc = AfterApply(hnd[h].ev, GroupOf(hnd[h].ev.group))]
    BY DEF ApplyAction, GroupOf
<1>4. Keeps(h, AfterApply(hnd[h].ev, GroupOf(hnd[h].ev.group)))
    BY <1>2, <1>3, PcMoves DEF Keeps
<1>5. heap' = [heap EXCEPT ![groups[hnd[h].ev.group]] = Apply(GroupOf(hnd[h].ev.group), Action(h))]
      /\ UNCHANGED <<groups, deletedCache, fails>> /\ SameEvents /\ SameRosters
    BY DEF ApplyAction, GroupOf, storeVars, envVars, SameEvents, SameRosters
<1> QED
    BY <1>1, <1>4, <1>5, ExceptEffect DEF AppliedTo

\* process_event.go:107-118, group.go removeParentChild: the parent lists the group no more.
LEMMA UnlinkEffect ==
    ASSUME GroupInv, NEW h \in Handlers, Unlink(h),
           hnd[h].ev.group \in Live, hnd[h].target = groups[hnd[h].ev.group]
    PROVE  LET e == hnd[h].ev
               p == GroupOf(e.group).parent
           IN
           /\ hnd[h].pc = "unlink" /\ p \in GroupIds
           /\ hnd'[h].pc = "drop" /\ hnd'[h].ev = e /\ hnd'[h].cand = hnd[h].cand
           /\ IF p \in Live /\ e.group \in GroupOf(p).children
              THEN /\ ChangedAt(p, RemoveChild(GroupOf(p), e.group, e.at))
                   /\ hnd'[h].todo = <<groups[p]>>
              ELSE UNCHANGED <<heap, groups>> /\ hnd'[h].todo = <<>>
           /\ UNCHANGED <<deletedCache, fails>> /\ SameEvents /\ SameRosters
<1> DEFINE p == GroupOf(hnd[h].ev.group).parent
<1>1. hnd[h].pc = "unlink" /\ p \in GroupIds
    BY HandlerFacts DEF Unlink, At, HoldsGroup, GroupOf
<1>2. UNCHANGED <<groups, deletedCache, fails>> /\ SameEvents /\ SameRosters
    BY DEF Unlink, storeVars, envVars, SameEvents, SameRosters
<1>3. PICK removed \in BOOLEAN :
         removed <=> groups[p] # 0 /\ hnd[h].ev.group \in heap[groups[p]].children
    OBVIOUS
<1>4. removed <=> p \in Live /\ hnd[h].ev.group \in GroupOf(p).children
    BY <1>1, <1>3 DEF Live, GroupOf
<1>5. /\ hnd' = [hnd EXCEPT ![h].pc = "drop",
                    ![h].todo = IF removed THEN <<groups[p]>> ELSE <<>>]
      /\ heap' = IF removed
                 THEN [heap EXCEPT ![groups[p]] =
                         RemoveChild(GroupOf(p), hnd[h].ev.group, hnd[h].ev.at)]
                 ELSE heap
    BY <1>3 DEF Unlink, GroupOf
<1>6. /\ hnd'[h].pc = "drop" /\ hnd'[h].ev = hnd[h].ev /\ hnd'[h].cand = hnd[h].cand
      /\ hnd'[h].todo = IF removed THEN <<groups[p]>> ELSE <<>>
    BY <1>5, SerialFacts DEF HandlerRecords
<1>7. CASE removed
  <2>1. ChangedAt(p, RemoveChild(GroupOf(p), hnd[h].ev.group, hnd[h].ev.at))
      BY <1>2, <1>4, <1>5, <1>7, ExceptEffect
  <2> QED
      BY <1>1, <1>2, <1>4, <1>6, <1>7, <2>1
<1>8. CASE ~removed
    BY <1>1, <1>2, <1>4, <1>5, <1>6, <1>8
<1> QED
    BY <1>7, <1>8

\* process_event.go:119-122: the group leaves the map.
LEMMA DropEffect ==
    ASSUME GroupInv, NEW h \in Handlers, Drop(h)
    PROVE  /\ hnd[h].pc = "drop" /\ hnd[h].ev.group \in GroupIds /\ Keeps(h, "sync")
           /\ ForgottenAt(hnd[h].ev.group)
           /\ deletedGroups' = deletedGroups \cup {hnd[h].ev.group}
           /\ UNCHANGED <<deletedCache, rosters, fails>> /\ SameEvents
<1>1. hnd[h].pc = "drop" /\ hnd[h].ev.group \in GroupIds
    BY EventFacts DEF Drop, At, Wiping
<1>2. Keeps(h, "sync")
    BY PcMoves DEF Drop, Keeps, Places
<1> QED
    BY <1>1, <1>2, SerialFacts DEF Drop, ForgottenAt, storeVars, envVars, SameEvents

\* process_event.go:124-130: the group in the map is among those to publish.
LEMMA LookAgainEffect ==
    ASSUME GroupInv, NEW h \in Handlers, LookAgain(h)
    PROVE  /\ hnd[h].pc = "tail" /\ hnd[h].ev.group \in GroupIds
           /\ hnd'[h].pc = "sync" /\ hnd'[h].ev = hnd[h].ev /\ hnd'[h].cand = hnd[h].cand
           /\ \A i \in DOMAIN hnd'[h].todo :
                \/ hnd[h].ev.group \in Live /\ hnd'[h].todo[i] = groups[hnd[h].ev.group]
                \/ \E j \in DOMAIN hnd[h].todo : hnd'[h].todo[i] = hnd[h].todo[j]
           /\ \A j \in DOMAIN hnd[h].todo : \E i \in DOMAIN hnd'[h].todo :
                hnd'[h].todo[i] = hnd[h].todo[j]
           /\ hnd[h].ev.group \in Live => \E i \in DOMAIN hnd'[h].todo :
                hnd'[h].todo[i] = groups[hnd[h].ev.group]
           /\ UNCHANGED <<heap, groups, deletedCache, fails>> /\ SameEvents /\ SameRosters
<1>1. hnd[h].pc = "tail" /\ hnd[h].ev.group \in GroupIds
    BY EventFacts DEF LookAgain, At, Wiping
<1>2. UNCHANGED <<heap, groups, deletedCache, fails>> /\ SameEvents /\ SameRosters
    BY DEF LookAgain, memVars, storeVars, envVars, SameEvents, SameRosters
<1>3. PICK q \in Nat : q = groups[hnd[h].ev.group]
    BY <1>1, SerialFacts
<1>4. PICK todo : /\ todo = IF q = 0 \/ \E i \in DOMAIN hnd[h].todo : hnd[h].todo[i] = q
                            THEN hnd[h].todo ELSE Append(hnd[h].todo, q)
                  /\ hnd' = [hnd EXCEPT ![h].pc = "sync", ![h].todo = todo]
    BY <1>3 DEF LookAgain
<1>5. /\ hnd'[h].pc = "sync" /\ hnd'[h].ev = hnd[h].ev /\ hnd'[h].cand = hnd[h].cand
      /\ hnd'[h].todo = todo
    BY <1>4, SerialFacts DEF HandlerRecords
<1>6. hnd[h].ev.group \in Live <=> q # 0
    BY <1>1, <1>3 DEF Live
<1>7. CASE q = 0 \/ \E i \in DOMAIN hnd[h].todo : hnd[h].todo[i] = q
    BY <1>1, <1>2, <1>3, <1>4, <1>5, <1>6, <1>7
<1>8. CASE ~(q = 0 \/ \E i \in DOMAIN hnd[h].todo : hnd[h].todo[i] = q)
  <2>1. todo = Append(hnd[h].todo, q) /\ hnd[h].todo \in Seq(Nat) /\ q \in Nat
      BY <1>3, <1>4, <1>8, SerialFacts
  <2>2. /\ \A i \in DOMAIN todo : todo[i] = q \/ \E j \in DOMAIN hnd[h].todo : todo[i] = hnd[h].todo[j]
        /\ \A j \in DOMAIN hnd[h].todo : \E i \in DOMAIN todo : todo[i] = hnd[h].todo[j]
        /\ \E i \in DOMAIN todo : todo[i] = q
    <3>1. /\ DOMAIN todo = 1..(Len(hnd[h].todo) + 1) /\ Len(hnd[h].todo) \in Nat
          /\ DOMAIN hnd[h].todo = 1..Len(hnd[h].todo)
          /\ todo[Len(hnd[h].todo) + 1] = q
          /\ \A i \in 1..Len(hnd[h].todo) : todo[i] = hnd[h].todo[i]
        BY <2>1
    <3> QED
        BY <3>1
  <2> QED
      BY <1>1, <1>2, <1>3, <1>5, <1>6, <1>8, <2>2
<1> QED
    BY <1>7, <1>8

\* khatru handlers.go:264-270: a message is over, or a kind-5 event goes on to its targets.
LEMMA HandledEffect ==
    ASSUME GroupInv, NEW h \in Handlers, hnd' = [hnd EXCEPT ![h] = Handled(h)]
    PROVE  hnd'[h] = Idle \/ (hnd[h].ev.kind = "retract" /\ Keeps(h, "retract"))
<1>1. CASE hnd[h].ev.kind # "retract"
    BY <1>1, SerialFacts DEF Handled
<1>2. CASE hnd[h].ev.kind = "retract"
  <2>1. hnd' = [hnd EXCEPT ![h].pc = "retract"] /\ "retract" \in Places
      BY <1>2 DEF Handled, Places
  <2> QED
      BY <1>2, <2>1, PcMoves DEF Keeps
<1> QED
    BY <1>1, <1>2

\* process_event.go:131-190: a request or another event finds its group.
LEMMA ReactEffect ==
    ASSUME GroupInv, NEW h \in Handlers, React(h)
    PROVE  /\ hnd[h].pc = "process" /\ hnd[h].ev.kind \in {"join", "leave", "note", "retract"}
           /\ hnd[h].ev.group \in GroupIds
           /\ UNCHANGED <<heap, groups, deletedCache, fails>> /\ SameEvents /\ SameRosters
           /\ IF hnd[h].ev.group \in Live
              THEN /\ hnd'[h].pc \in {"reply", "sync"} /\ hnd'[h].ev = hnd[h].ev
                   /\ hnd'[h].pc = "reply" => hnd[h].ev.kind \in Answered
                   /\ hnd'[h].todo = <<groups[hnd[h].ev.group]>> /\ hnd'[h].cand = hnd[h].cand
              ELSE hnd'[h] = Idle \/ Keeps(h, "retract")
<1>1. hnd[h].pc = "process" /\ hnd[h].ev.group \in GroupIds
      /\ hnd[h].ev.kind \in {"join", "leave", "note", "retract"}
    BY EventFacts DEF React, At, Wiping
<1>2. UNCHANGED <<heap, groups, deletedCache, fails>> /\ SameEvents /\ SameRosters
    BY DEF React, memVars, storeVars, envVars, SameEvents, SameRosters
<1>3. CASE hnd[h].ev.group \in Live
  <2>1. groups[hnd[h].ev.group] # 0
      BY <1>3 DEF Live
  <2>2. PICK p : /\ p = "reply" => hnd[h].ev.kind \in Answered
                 /\ p \in {"reply", "sync"}
                 /\ hnd'[h] = [hnd[h] EXCEPT !.obj = groups[hnd[h].ev.group],
                                 !.todo = <<groups[hnd[h].ev.group]>>, !.pc = p]
    <3>1. PICK answers \in BOOLEAN :
             answers <=> \/ hnd[h].ev.kind = "join"
                         \/ /\ hnd[h].ev.kind = "leave"
                            /\ hnd[h].ev.author \in heap[groups[hnd[h].ev.group]].members
        OBVIOUS
    <3>2. hnd'[h] = [hnd[h] EXCEPT !.obj = groups[hnd[h].ev.group],
                       !.todo = <<groups[hnd[h].ev.group]>>,
                       !.pc = IF answers THEN "reply" ELSE "sync"]
        BY <2>1, <3>1, SerialFacts DEF React
    <3> QED
        BY <3>1, <3>2 DEF Answered
  <2> QED
      BY <1>1, <1>2, <1>3, <2>2, SerialFacts DEF HandlerRecords
<1>4. CASE hnd[h].ev.group \notin Live
  <2>1. groups[hnd[h].ev.group] = 0
      BY <1>1, <1>4 DEF Live
  <2>2. hnd' = [hnd EXCEPT ![h] = Handled(h)]
      BY <2>1 DEF React
  <2> QED
      BY <1>1, <1>2, <1>4, <2>2, HandledEffect
<1> QED
    BY <1>3, <1>4

\* wipe.go:48-55: the wiped group leaves the map.
LEMMA WipeMemoryEffect ==
    ASSUME GroupInv, NEW h \in Handlers, WipeMemory(h)
    PROVE  /\ hnd[h].pc = "wipeRosters" /\ hnd'[h] = Idle
           /\ heap[hnd[h].obj].id \in GroupIds
           /\ ForgottenAt(heap[hnd[h].obj].id)
           /\ UNCHANGED <<deletedCache, fails>> /\ SameEvents /\ SameRosters
<1>1. hnd[h].pc = "wipeRosters"
    BY DEF WipeMemory, At
<1>2. hnd'[h] = Idle
    BY IdleEffect DEF WipeMemory
<1>3. hnd[h].obj \in 1..Len(heap)
    BY <1>1, HandlerFacts DEF HoldsObjects, HoldsGroup, Wiping, HandlerRecords
<1>4. heap[hnd[h].obj].id \in GroupIds
  <2>1. heap[hnd[h].obj] \in GroupRecords
      BY <1>3, SerialFacts
  <2> QED
      BY <2>1 DEF GroupRecords
<1>5. ForgottenAt(heap[hnd[h].obj].id)
    BY <1>4, SerialFacts DEF WipeMemory, ForgottenAt
<1> QED
    BY <1>1, <1>2, <1>4, <1>5 DEF WipeMemory, storeVars, envVars, SameEvents, SameRosters

\* The steps that leave memory alone: the relay's own event is not saved, or something
\* is deleted from the store.
EndMove(h) ==
    \/ SaveInnerDuplicate(h) \/ SaveInnerFails(h)
    \/ Erase(h) \/ EraseFails(h) \/ CacheDeleted(h) \/ EraseDone(h)
    \/ Retract(h) \/ RetractEnds(h) \/ RetractFails(h)
    \/ WipeOne(h) \/ WipeOneFails(h) \/ WipeRosters(h)

\* process_event.go:51-54, 92-106, 152-187, khatru deleting.go, wipe.go:23-47: where such
\* a step leaves the handler.
LEMMA EndMoveEffect ==
    ASSUME GroupInv, NEW h \in Handlers, EndMove(h)
    PROVE  /\ \/ hnd[h].pc \in {"creator", "reply"} /\ Keeps(h, "sync")
              \/ hnd[h].pc \in {"erase", "cache"} /\ \E p \in {"erase", "cache", "tail"} : Keeps(h, p)
              \/ hnd[h].pc = "retract" /\ (Keeps(h, "retract") \/ hnd'[h] = Idle)
              \/ hnd[h].pc \in Wiping /\ \E p \in Wiping : Keeps(h, p)
           /\ UNCHANGED <<heap, groups, deletedGroups, granted>> /\ db' \subseteq db
<1>1. hnd \in [Handlers -> HandlerRecords] /\ hnd[h] \in HandlerRecords
    BY SerialFacts
<1>2. CASE SaveInnerDuplicate(h) \/ SaveInnerFails(h)
  <2>1. Keeps(h, "sync")
      BY <1>2, PcMoves DEF SaveInnerDuplicate, SaveInnerFails, Keeps, Places
  <2> QED
      BY <1>2, <2>1 DEF SaveInnerDuplicate, SaveInnerFails, At, memVars, storeVars
<1>3. CASE Erase(h)
  <2>1. PICK t : /\ DeleteFromStore(t)
                 /\ hnd' = [hnd EXCEPT ![h].pc = "cache", ![h].left = @ \ {t}, ![h].hit = {t}]
      BY <1>3 DEF Erase
  <2>2. Keeps(h, "cache")
      BY <1>1, <2>1 DEF Keeps, HandlerRecords
  <2> QED
      BY <1>3, <2>1, <2>2 DEF Erase, At, memVars, DeleteFromStore
<1>4. CASE EraseFails(h) \/ EraseDone(h)
  <2>1. Keeps(h, "erase") \/ Keeps(h, "tail")
      BY <1>1, <1>4 DEF EraseFails, EraseDone, At, Keeps, HandlerRecords
  <2> QED
      BY <1>4, <2>1 DEF EraseFails, EraseDone, At, memVars, storeVars
<1>5. CASE CacheDeleted(h)
  <2>1. Keeps(h, "erase")
      BY <1>1, <1>5 DEF CacheDeleted, Keeps, HandlerRecords
  <2> QED
      BY <1>5, <2>1 DEF CacheDeleted, At, storeVars
<1>6. CASE Retract(h)
  <2>1. PICK t : /\ DeleteFromStore(t) \/ UNCHANGED db
                 /\ hnd' = [hnd EXCEPT ![h].left = @ \ {t}]
      BY <1>6 DEF Retract
  <2>2. Keeps(h, "retract") /\ hnd[h].pc = "retract"
      BY <1>1, <1>6, <2>1 DEF Retract, At, Keeps, HandlerRecords
  <2> QED
      BY <1>6, <2>1, <2>2 DEF Retract, memVars, DeleteFromStore
<1>7. CASE RetractEnds(h) \/ RetractFails(h)
  <2>1. hnd'[h] = Idle /\ hnd[h].pc = "retract"
      BY <1>1, <1>7 DEF RetractEnds, RetractFails, At
  <2> QED
      BY <1>7, <2>1 DEF RetractEnds, RetractFails, memVars, storeVars
<1>8. CASE WipeOne(h)
  <2>1. PICK t : /\ DeleteFromStore(t) /\ hnd[h].pc \in Wiping
                 /\ hnd' = [hnd EXCEPT ![h].left = @ \ {t}]
      BY <1>8 DEF WipeOne, WipeTurn, At, Wiping
  <2>2. Keeps(h, hnd[h].pc)
      BY <1>1, <2>1 DEF Keeps, HandlerRecords
  <2> QED
      BY <1>8, <2>1, <2>2 DEF WipeOne, memVars, DeleteFromStore
<1>9. CASE WipeOneFails(h)
  <2>0. PICK t : WipeTurn(h, t) /\ hnd' = [hnd EXCEPT ![h].left = @ \ {t}]
      BY <1>9 DEF WipeOneFails
  <2>1. hnd[h].pc \in Wiping
      BY <2>0 DEF WipeTurn, At, Wiping
  <2>2. Keeps(h, hnd[h].pc)
      BY <1>1, <2>0 DEF Keeps, HandlerRecords
  <2> QED
      BY <1>9, <2>1, <2>2 DEF WipeOneFails, memVars, storeVars
<1>10. CASE WipeRosters(h)
  <2>1. Keeps(h, "wipeRosters") /\ hnd[h].pc \in Wiping /\ "wipeRosters" \in Wiping
      BY <1>1, <1>10 DEF WipeRosters, At, Keeps, HandlerRecords, Wiping
  <2> QED
      BY <1>10, <2>1 DEF WipeRosters, memVars, storeVars
<1> QED
    BY <1>2, <1>3, <1>4, <1>5, <1>6, <1>7, <1>8, <1>9, <1>10 DEF EndMove

-----------------------------------------------------------------------------
(* One handler at a time                                                    *)

\* Messages are handled one after the other: there is one handler.
Sequential == \A h, k \in Handlers : h = k

\* A handler that is done with the store has its group in the map.
Making == {"link", "creator", "inner", "apply", "created"}
Working == Making \cup {"reply", "erase", "cache", "unlink", "drop", "tail"}

\* The create event leads to no cycle.
Rooted(e) == e.parent # None => e.parent \in Live /\ ~WouldCreateCycle(e.group, e.parent)

\* The objects a handler holds are the ones in the map, and a new group has the
\* parent its create event names.
SerialCreate(s) ==
    s.ev.kind = "create" =>
       /\ s.pc = "place" => s.ev.group \notin Live
       /\ s.pc \in {"place", "store", "process"} => Rooted(s.ev)
       /\ s.pc \in {"store", "process"} =>
            s.ev.group \in Live /\ GroupOf(s.ev.group) = NewGroup(s.ev.group)
       /\ s.pc \in Making =>
            s.obj = groups[s.ev.group] /\ GroupOf(s.ev.group).parent = s.ev.parent

SerialGroup(s) ==
    /\ s.pc \in Working => s.ev.group \in Live
    /\ s.pc \in {"apply", "unlink"} => s.target = groups[s.ev.group]
    /\ s.pc \in {"unlink", "drop"} => s.ev.kind = "deleteGroup"
    /\ (s.pc \in {"process", "apply", "unlink", "drop"} /\ s.ev.kind = "deleteGroup")
         => s.ev \in db
    /\ s.pc \in {"erase", "cache"} => s.ev.kind = "deleteEvent"
    /\ s.pc \in Wiping => heap[s.obj].id \in Live /\ s.obj = groups[heap[s.obj].id]

\* What it will publish are live groups.
SerialRosters(s) ==
    /\ \A i \in DOMAIN s.todo : \E id \in Live : s.todo[i] = groups[id]
    /\ \A j \in DOMAIN s.cand : s.cand[j].id \in Live
    /\ s.pc \notin {"read", "write"} => s.cand = <<>>
    /\ s.pc \in {"idle", "place", "store", "process", "link", "unlink", "retract"} \cup Wiping
         => s.todo = <<>>
    /\ (s.pc = "apply" /\ s.ev.kind \notin Answered) => s.todo = <<>>
    /\ s.pc = "drop" => \A i \in DOMAIN s.todo : s.todo[i] # groups[s.ev.group]

Serial(s) == SerialCreate(s) /\ SerialGroup(s) /\ SerialRosters(s)

NoneIsItsParent ==
    /\ \A id \in Live : GroupOf(id).parent # id
    /\ \A e \in granted : e.kind = "create" => e.parent # e.group

SerialInv == (\A h \in Handlers : Serial(hnd[h])) /\ NoneIsItsParent

\* A handler that is done holds nothing.
LEMMA IdleSerial ==
    ASSUME NEW h \in Handlers, hnd'[h] = Idle PROVE Serial(hnd[h])'
<1>1. hnd'[h].pc = "idle" /\ hnd'[h].todo = <<>> /\ hnd'[h].cand = <<>>
    BY DEF Idle
<1>2. SerialCreate(hnd[h])' /\ SerialGroup(hnd[h])'
    BY <1>1 DEF SerialCreate, SerialGroup, Making, Working, Wiping
<1>3. SerialRosters(hnd[h])'
    BY <1>1 DEF SerialRosters
<1> QED
    BY <1>2, <1>3 DEF Serial

\* A handler that goes on to the targets of a kind-5 event holds nothing else.
LEMMA RetractSerial ==
    ASSUME NEW h \in Handlers, Keeps(h, "retract"),
           hnd[h].todo = <<>>, hnd[h].cand = <<>>
    PROVE  Serial(hnd[h])'
<1>1. hnd'[h].pc = "retract" /\ hnd'[h].todo = <<>> /\ hnd'[h].cand = <<>>
    BY DEF Keeps
<1>2. SerialCreate(hnd[h])' /\ SerialGroup(hnd[h])'
    BY <1>1 DEF SerialCreate, SerialGroup, Making, Working, Wiping
<1>3. SerialRosters(hnd[h])'
    BY <1>1 DEF SerialRosters
<1> QED
    BY <1>2, <1>3 DEF Serial

\* reject_event.go:86-91, process_event.go:28-37: what the map says once an id has a new object.
LEMMA NewFacts ==
    ASSUME GroupInv, NEW id \in GroupIds, NEW g, NewAt(id, g), groups'[id] # 0
    PROVE  /\ Live' = Live \cup {id} /\ GroupOf(id)' = g
           /\ \A x \in Live : x # id => groups'[x] = groups[x] /\ GroupOf(x)' = GroupOf(x)
<1>1. \A x \in GroupIds : x # id => groups'[x] = groups[x]
    BY DEF NewAt
<1>2. Live' = Live \cup {id}
    BY <1>1 DEF Live
<1> QED
    BY <1>1, <1>2 DEF NewAt, GroupOf, Live

\* process_event.go: an action applied to an object leaves the map and the other objects alone.
LEMMA ChangedFacts ==
    ASSUME NEW id \in Live, NEW g, ChangedAt(id, g)
    PROVE  /\ groups' = groups /\ Live' = Live /\ GroupOf(id)' = g
           /\ \A x \in Live : x # id => GroupOf(x)' = GroupOf(x)
BY DEF ChangedAt, GroupOf, Live

\* process_event.go:119, wipe.go:55: Groups.Delete drops one id and leaves the others.
LEMMA ForgottenFacts ==
    ASSUME NEW id \in GroupIds, ForgottenAt(id)
    PROVE  /\ Live' = Live \ {id}
           /\ \A x \in Live : x # id => groups'[x] = groups[x] /\ GroupOf(x)' = GroupOf(x)
BY DEF ForgottenAt, GroupOf, Live

\* A step that changes neither the objects nor the map changes no group.
LEMMA SameFacts ==
    ASSUME UNCHANGED <<heap, groups>>
    PROVE  Live' = Live /\ \A x : GroupOf(x)' = GroupOf(x)
BY DEF GroupOf, Live

\* reject_event.go wouldCreateCycle: the walk up looks at every group but the new one.
LEMMA CycleFrame ==
    ASSUME NEW id, NEW p,
           \A x \in GroupIds : x # id => (x \in Live' => x \in Live /\ GroupOf(x)' = GroupOf(x)),
           WouldCreateCycle(id, p)'
    PROVE  WouldCreateCycle(id, p)
<1>1. PICK S \in SUBSET GroupIds : /\ p \in S
                                   /\ \A x \in S \ {id} : x \in Live' /\ GroupOf(x)'.parent \in S
    BY DEF WouldCreateCycle
<1>2. \A x \in S \ {id} : x \in Live /\ GroupOf(x).parent \in S
    BY <1>1
<1> QED
    BY <1>1, <1>2 DEF WouldCreateCycle

\* A group is not made its own parent.
LEMMA RootedFacts ==
    ASSUME NEW e, e.group \in GroupIds, Rooted(e), None \notin GroupIds
    PROVE  e.parent # e.group
<1> SUFFICES ASSUME e.parent = e.group PROVE FALSE
    OBVIOUS
<1>1. WouldCreateCycle(e.group, e.parent)
  <2>1. {e.group} \in SUBSET GroupIds /\ {e.group} \ {e.group} = {}
      OBVIOUS
  <2> QED
      BY <2>1 DEF WouldCreateCycle
<1> QED
    BY <1>1 DEF Rooted
\* What h holds, when the invariant holds.
LEMMA SerialOf ==
    ASSUME SerialInv, NEW h \in Handlers
    PROVE  SerialCreate(hnd[h]) /\ SerialGroup(hnd[h]) /\ SerialRosters(hnd[h])
BY DEF SerialInv, Serial

\* reject_event.go:56-91, wipe.go:13-38: a message or a wipe begins.
LEMMA ArrivalSerial ==
    ASSUME GroupInv, SerialInv, NEW h \in Handlers, Arrival(h)
    PROVE  Serial(hnd[h])' /\ NoneIsItsParent'
<1>1. ASSUME NEW m \in Submissions, NEW t \in Epoch..MaxTime, Receive(h, [m EXCEPT !.at = t])
      PROVE  Serial(hnd[h])' /\ NoneIsItsParent'
  <2>1. /\ hnd'[h].ev \in Messages /\ Accepts(hnd'[h].ev)
        /\ hnd'[h].ev.kind \in Answered => hnd'[h].ev.author \in Users
        /\ hnd'[h].pc = IF hnd'[h].ev.kind = "create" THEN "place" ELSE "store"
        /\ hnd'[h].todo = <<>> /\ hnd'[h].cand = <<>>
        /\ UNCHANGED <<heap, groups>> /\ SameEvents
      BY <1>1, ReceiveEffect
  <2>2. Live' = Live /\ \A x : GroupOf(x)' = GroupOf(x)
      BY <2>1, SameFacts
  <2>3. CASE hnd'[h].ev.kind = "create"
    <3>1. AcceptsCreate(hnd'[h].ev)
        BY <2>1, <2>3, Nip29Assumption DEF Accepts, Answered
    <3>2. hnd'[h].ev.group \notin Live /\ Rooted(hnd'[h].ev)
        BY <3>1 DEF AcceptsCreate, Rooted
    <3>3. PICK e : e = hnd'[h].ev
        OBVIOUS
    <3>4. WouldCreateCycle(e.group, e.parent)' => WouldCreateCycle(e.group, e.parent)
        BY <2>2, CycleFrame
    <3>5. Rooted(hnd[h].ev)'
        BY <2>2, <3>2, <3>3, <3>4 DEF Rooted
    <3>6. SerialCreate(hnd[h])'
        BY <2>1, <2>2, <2>3, <3>2, <3>5 DEF SerialCreate, Making
    <3> QED
        BY <2>1, <2>2, <2>3, <3>6 DEF Serial, SerialGroup, SerialRosters, Working, Making, Wiping,
             SerialInv, NoneIsItsParent, SameEvents
  <2>4. CASE hnd'[h].ev.kind # "create"
      BY <2>1, <2>2, <2>4 DEF Serial, SerialCreate, SerialGroup, SerialRosters, Working, Making,
           Wiping, SerialInv, NoneIsItsParent, SameEvents
  <2> QED
      BY <2>3, <2>4
<1>2. ASSUME NEW id \in Wipes, Wipe(h, id)
      PROVE  Serial(hnd[h])' /\ NoneIsItsParent'
  <2>1. /\ id \in Live /\ hnd'[h].pc = "wipeEvents"
        /\ hnd'[h].obj = groups[id] /\ heap[groups[id]].id = id
        /\ hnd'[h].ev = [NoEvent EXCEPT !.group = id]
        /\ hnd'[h].todo = <<>> /\ hnd'[h].cand = <<>>
        /\ UNCHANGED <<heap, groups>> /\ SameEvents
      BY <1>2, WipeEffect
  <2>2. Live' = Live /\ \A x : GroupOf(x)' = GroupOf(x)
      BY <2>1, SameFacts
  <2>3. SerialCreate(hnd[h])' /\ SerialGroup(hnd[h])'
      BY <2>1, <2>2 DEF SerialCreate, SerialGroup, Working, Making, Wiping
  <2> QED
      BY <2>1, <2>2, <2>3 DEF Serial, SerialRosters, SerialInv, NoneIsItsParent, SameEvents
<1> QED
    BY <1>1, <1>2 DEF Arrival

\* reject_event.go:86-91, relay.go:46-59, process_event.go:28-37: a group is made.
LEMMA CreateSerial ==
    ASSUME GroupInv, SerialInv, NEW h \in Handlers,
           Placeholder(h) \/ StoreEvent(h) \/ Register(h)
    PROVE  Serial(hnd[h])' /\ NoneIsItsParent'
<1>1. SerialCreate(hnd[h]) /\ SerialGroup(hnd[h]) /\ SerialRosters(hnd[h]) /\ NoneIsItsParent
    BY SerialOf DEF SerialInv
<1>2. hnd[h].ev.group \in GroupIds
    BY EventFacts DEF Placeholder, StoreEvent, Register, At, Wiping
<1>3. CASE Placeholder(h)
  <2>1. /\ hnd[h].pc = "place" /\ hnd[h].ev.kind = "create" /\ Keeps(h, "store")
        /\ NewAt(hnd[h].ev.group, NewGroup(hnd[h].ev.group))
        /\ groups'[hnd[h].ev.group] # 0 /\ SameEvents
      BY <1>3, PlaceholderEffect
  <2>2. /\ Live' = Live \cup {hnd[h].ev.group}
        /\ (heap'[groups'[hnd[h].ev.group]]) = NewGroup(hnd[h].ev.group)
        /\ \A x \in Live : x # hnd[h].ev.group => groups'[x] = groups[x] /\ GroupOf(x)' = GroupOf(x)
    <3>1. PICK id, g : id \in GroupIds /\ id = hnd[h].ev.group /\ g = NewGroup(hnd[h].ev.group)
        BY <1>2
    <3> QED
        BY <2>1, <3>1, NewFacts DEF GroupOf
  <2>3. PICK e : e = hnd[h].ev /\ hnd'[h].ev = e
      BY <2>1 DEF Keeps
  <2>4. WouldCreateCycle(e.group, e.parent)' => WouldCreateCycle(e.group, e.parent)
      BY <2>2, <2>3, CycleFrame DEF Live
  <2>5. Rooted(hnd[h].ev)'
      BY <1>1, <2>1, <2>2, <2>3, <2>4 DEF SerialCreate, Rooted
  <2>6. SerialCreate(hnd[h])'
      BY <1>2, <2>1, <2>2, <2>3, <2>5 DEF SerialCreate, Keeps, Making, GroupOf
  <2>7. SerialGroup(hnd[h])' /\ SerialRosters(hnd[h])'
      BY <1>1, <2>1 DEF SerialGroup, SerialRosters, Keeps, Working, Making, Wiping
  <2>8. NewGroup(hnd[h].ev.group).parent = None
      BY DEF NewGroup
  <2>9. NoneIsItsParent'
      BY <1>1, <1>2, <2>1, <2>2, <2>8, Nip29Assumption DEF NoneIsItsParent, SameEvents, GroupOf
  <2> QED
      BY <2>6, <2>7, <2>9 DEF Serial
<1>4. CASE StoreEvent(h)
  <2>1. /\ hnd[h].pc = "store" /\ Keeps(h, "process")
        /\ db' = db \cup {hnd[h].ev} /\ granted' = granted \cup {hnd[h].ev}
        /\ UNCHANGED <<heap, groups>>
      BY <1>4, StoreEventEffect
  <2>2. Live' = Live /\ \A x : GroupOf(x)' = GroupOf(x)
      BY <2>1, SameFacts
  <2>3. PICK e : e = hnd[h].ev /\ hnd'[h].ev = e
      BY <2>1 DEF Keeps
  <2>4. WouldCreateCycle(e.group, e.parent)' => WouldCreateCycle(e.group, e.parent)
      BY <2>2, CycleFrame
  <2>5. e.kind = "create" => Rooted(hnd[h].ev)'
      BY <1>1, <2>1, <2>2, <2>3, <2>4 DEF SerialCreate, Rooted
  <2>6. SerialCreate(hnd[h])'
    <3>1. e.kind = "create" => e.group \in Live /\ GroupOf(e.group) = NewGroup(e.group)
        BY <1>1, <2>1, <2>3 DEF SerialCreate
    <3> QED
        BY <2>1, <2>2, <2>3, <2>5, <3>1 DEF SerialCreate, Keeps, Making, GroupOf
  <2>7. SerialGroup(hnd[h])' /\ SerialRosters(hnd[h])'
      BY <1>1, <2>1 DEF SerialGroup, SerialRosters, Keeps, Working, Making, Wiping
  <2>8. e.kind = "create" => e.parent # e.group
      BY <1>1, <1>2, <2>1, <2>3, RootedFacts, Nip29Assumption DEF SerialCreate
  <2>9. NoneIsItsParent'
      BY <1>1, <2>1, <2>2, <2>3, <2>8 DEF NoneIsItsParent
  <2> QED
      BY <2>6, <2>7, <2>9 DEF Serial
<1>5. CASE Register(h)
  <2>1. /\ hnd[h].pc = "process" /\ hnd[h].ev.kind = "create"
        /\ NewAt(hnd[h].ev.group, [NewGroup(hnd[h].ev.group) EXCEPT !.parent = hnd[h].ev.parent])
        /\ groups'[hnd[h].ev.group] # 0
        /\ hnd'[h].pc = IF hnd[h].ev.parent = None THEN "creator" ELSE "link"
        /\ hnd'[h].ev = hnd[h].ev /\ hnd'[h].obj = groups'[hnd[h].ev.group]
        /\ hnd'[h].todo = IF hnd[h].ev.parent = None THEN <<hnd'[h].obj>> ELSE <<>>
        /\ hnd'[h].cand = hnd[h].cand /\ SameEvents
      BY <1>5, RegisterEffect
  <2>2. PICK id, g :
           /\ id \in GroupIds
           /\ id = hnd[h].ev.group /\ g = [NewGroup(id) EXCEPT !.parent = hnd[h].ev.parent]
      BY <1>2
  <2>3. /\ Live' = Live \cup {id} /\ GroupOf(id)' = g
        /\ \A x \in Live : x # id => groups'[x] = groups[x] /\ GroupOf(x)' = GroupOf(x)
      BY <2>1, <2>2, NewFacts
  <2>4. g.parent = hnd[h].ev.parent
      BY <2>2 DEF NewGroup
  <2>5. SerialCreate(hnd[h])'
      BY <2>1, <2>2, <2>3, <2>4 DEF SerialCreate, Making, GroupOf
  <2>6. SerialGroup(hnd[h])'
      BY <2>1, <2>2, <2>3 DEF SerialGroup, Working, Making, Wiping
  <2>7. SerialRosters(hnd[h])'
    <3>1. hnd[h].cand = <<>>
        BY <1>1, <2>1 DEF SerialRosters
    <3> QED
        BY <2>1, <2>2, <2>3, <3>1 DEF SerialRosters, Wiping
  <2>8. id # g.parent
    <3>1. Rooted(hnd[h].ev)
        BY <1>1, <2>1 DEF SerialCreate
    <3> QED
        BY <1>2, <2>2, <2>4, <3>1, RootedFacts, Nip29Assumption
  <2>9. NoneIsItsParent'
      BY <1>1, <2>1, <2>3, <2>8 DEF NoneIsItsParent, SameEvents
  <2> QED
      BY <2>5, <2>6, <2>7, <2>9 DEF Serial
<1> QED
    BY <1>3, <1>4, <1>5

\* process_event.go:34-36, 64-73: an object in the map changes; ids and parents stay.
LEMMA ChangeSerial ==
    ASSUME GroupInv, NoneIsItsParent, NEW id \in Live, NEW g, ChangedAt(id, g),
           g.parent = GroupOf(id).parent, SameEvents
    PROVE  NoneIsItsParent'
<1>1. /\ Live' = Live /\ GroupOf(id)' = g
      /\ \A x \in Live : x # id => GroupOf(x)' = GroupOf(x)
    BY ChangedFacts
<1> QED
    BY <1>1 DEF NoneIsItsParent, SameEvents

\* State.Groups: a live group has an object.
LEMMA LiveRecord ==
    ASSUME GroupInv, NEW id \in Live
    PROVE  /\ GroupOf(id) \in GroupRecords /\ GroupOf(id).id = id
           /\ OnRecord(GroupOf(id), granted)
<1>1. groups[id] \in 1..Len(heap) /\ heap[groups[id]].id = id /\ heap \in Seq(GroupRecords)
    BY DEF GroupInv, MapInv, GroupsTypeOK, Live
<1>2. OnRecord(heap[groups[id]], granted)
    BY <1>1 DEF GroupInv, HeapInv
<1> QED
    BY <1>1, <1>2 DEF GroupOf

\* process_event.go:34-36: the new group is listed by its parent.
LEMMA LinkSerial ==
    ASSUME GroupInv, SerialInv, NEW h \in Handlers, Link(h)
    PROVE  Serial(hnd[h])' /\ NoneIsItsParent'
<1>1. SerialCreate(hnd[h]) /\ SerialGroup(hnd[h]) /\ SerialRosters(hnd[h]) /\ NoneIsItsParent
    BY SerialOf DEF SerialInv
<1>2. PICK e, p : e = hnd[h].ev /\ p = e.parent
    OBVIOUS
<1>3. /\ hnd[h].pc = "link" /\ e.kind = "create"
      /\ hnd'[h].pc = "creator" /\ hnd'[h].ev = e /\ hnd'[h].obj = hnd[h].obj
      /\ hnd'[h].cand = hnd[h].cand /\ SameEvents
    BY <1>2, LinkEffect
<1>4. /\ e.group \in Live /\ hnd[h].obj = groups[e.group] /\ GroupOf(e.group).parent = e.parent
      /\ hnd[h].cand = <<>>
    BY <1>1, <1>2, <1>3 DEF SerialCreate, SerialGroup, SerialRosters, Making, Working
<1>5. /\ groups' = groups /\ Live' = Live /\ NoneIsItsParent'
      /\ \A x \in Live : GroupOf(x)'.parent = GroupOf(x).parent
      /\ \A i \in DOMAIN hnd'[h].todo : \E id \in Live : hnd'[h].todo[i] = groups[id]
  <2>1. CASE p \in Live /\ e.group \notin GroupOf(p).children
    <3>1. PICK g : /\ ChangedAt(p, g) /\ g = AddChild(GroupOf(p), e.group, e.at)
                   /\ hnd'[h].todo = <<groups[p], hnd[h].obj>>
        BY <1>2, <2>1, LinkEffect
    <3>2. g.parent = GroupOf(p).parent
        BY <2>1, <3>1, LiveRecord DEF AddChild, GroupRecords
    <3>3. NoneIsItsParent'
        BY <1>1, <1>3, <2>1, <3>1, <3>2, ChangeSerial
    <3> QED
        BY <1>4, <2>1, <3>1, <3>2, <3>3, ChangedFacts
  <2>2. CASE ~(p \in Live /\ e.group \notin GroupOf(p).children)
    <3>1. UNCHANGED <<heap, groups>> /\ hnd'[h].todo = <<hnd[h].obj>>
        BY <1>2, <2>2, LinkEffect
    <3> QED
        BY <1>1, <1>3, <1>4, <3>1, SameFacts DEF NoneIsItsParent, SameEvents
  <2> QED
      BY <2>1, <2>2
<1>6. SerialCreate(hnd[h])' /\ SerialGroup(hnd[h])'
    BY <1>3, <1>4, <1>5 DEF SerialCreate, SerialGroup, Making, Working, Wiping, GroupOf
<1>7. SerialRosters(hnd[h])'
    BY <1>3, <1>4, <1>5 DEF SerialRosters, Wiping
<1> QED
    BY <1>5, <1>6, <1>7 DEF Serial

\* process_event.go:38-64, 133-187: the relay's own event is saved, and the group of
\* an action is looked up.
LEMMA InnerSerial ==
    ASSUME GroupInv, SerialInv, NEW h \in Handlers, SaveInner(h) \/ Load(h)
    PROVE  Serial(hnd[h])' /\ NoneIsItsParent'
<1>1. SerialCreate(hnd[h]) /\ SerialGroup(hnd[h]) /\ SerialRosters(hnd[h]) /\ NoneIsItsParent
    BY SerialOf DEF SerialInv
<1>2. CASE SaveInner(h)
  <2>1. PICK m \in Messages :
           /\ m = InnerEvent(h)
           /\ hnd[h].pc \in {"creator", "reply"} /\ hnd[h].ev.kind \in Answered
           /\ granted' = granted \cup {m}
           /\ hnd'[h].pc = "inner" /\ hnd'[h].ev = hnd[h].ev
           /\ hnd'[h].obj = hnd[h].obj
           /\ hnd'[h].todo = hnd[h].todo /\ hnd'[h].cand = hnd[h].cand
           /\ UNCHANGED <<heap, groups>>
      BY <1>2, SaveInnerEffect
  <2>2. Live' = Live /\ \A x : GroupOf(x)' = GroupOf(x)
      BY <2>1, SameFacts
  <2>3. hnd[h].pc = "reply" => hnd[h].ev.kind # "create"
      BY HandlerFacts DEF HoldsMessage
  <2>4. SerialCreate(hnd[h])'
      BY <1>1, <2>1, <2>2, <2>3 DEF SerialCreate, Making, GroupOf
  <2>5. SerialGroup(hnd[h])'
      BY <1>1, <2>1, <2>2 DEF SerialGroup, Working, Making, Wiping
  <2>6. SerialRosters(hnd[h])'
      BY <1>1, <2>1, <2>2 DEF SerialRosters, Wiping
  <2>7. m.kind # "create"
      BY <2>1 DEF InnerEvent, AddCreator, AddUser, SelfRemoval, Event, Answered
  <2>8. NoneIsItsParent'
      BY <1>1, <2>1, <2>2, <2>7 DEF NoneIsItsParent
  <2> QED
      BY <2>4, <2>5, <2>6, <2>8 DEF Serial
<1>3. CASE Load(h)
  <2>1. /\ \/ hnd[h].pc = "inner" /\ hnd[h].ev.kind \in Answered
           \/ hnd[h].pc = "process" /\ hnd[h].ev.kind \in ModerationKinds \ {"create"}
        /\ hnd[h].ev.group \in Live /\ hnd'[h].pc = "apply"
        /\ hnd'[h].target = groups[hnd[h].ev.group]
        /\ hnd'[h].ev = hnd[h].ev /\ hnd'[h].obj = hnd[h].obj
        /\ hnd'[h].todo = hnd[h].todo /\ hnd'[h].cand = hnd[h].cand
        /\ UNCHANGED <<heap, groups>> /\ SameEvents
      BY <1>3, LoadEffect
  <2>2. Live' = Live /\ \A x : GroupOf(x)' = GroupOf(x)
      BY <2>1, SameFacts
  <2>4. SerialCreate(hnd[h])'
      BY <1>1, <2>1, <2>2 DEF SerialCreate, Making, GroupOf
  <2>5. SerialGroup(hnd[h])'
      BY <1>1, <2>1, <2>2 DEF SerialGroup, Working, Making, Wiping, Answered, SameEvents
  <2>6. SerialRosters(hnd[h])'
      BY <1>1, <2>1, <2>2 DEF SerialRosters, Wiping
  <2>8. NoneIsItsParent'
      BY <1>1, <2>1, <2>2 DEF NoneIsItsParent, SameEvents
  <2> QED
      BY <2>4, <2>5, <2>6, <2>8 DEF Serial
<1> QED
    BY <1>2, <1>3

\* process_event.go:60-73: an action is applied.
LEMMA ApplySerial ==
    ASSUME GroupInv, SerialInv, NEW h \in Handlers, ApplyCreate(h) \/ ApplyAction(h)
    PROVE  Serial(hnd[h])' /\ NoneIsItsParent'
<1>1. SerialCreate(hnd[h]) /\ SerialGroup(hnd[h]) /\ SerialRosters(hnd[h]) /\ NoneIsItsParent
    BY SerialOf DEF SerialInv
<1>2. hnd[h].ev.group \in Live /\ hnd[h].ev \in Messages /\ hnd[h].pc \in {"created", "apply"}
    BY <1>1, EventFacts DEF ApplyCreate, ApplyAction, At, SerialGroup, Working, Making, Wiping
<1>3. PICK m \in Messages : AppliedTo(h, m)
  <2>1. CASE ApplyCreate(h)
    <3>1. hnd[h].ev.kind = "create"
        BY <2>1, HandlerFacts DEF ApplyCreate, At, HoldsMessage
    <3>2. hnd[h].obj = groups[hnd[h].ev.group]
        BY <1>1, <1>2, <2>1, <3>1 DEF SerialCreate, Making
    <3> QED
        BY <1>2, <2>1, <3>2, ApplyCreateEffect
  <2>2. CASE ApplyAction(h)
    <3>1. hnd[h].target = groups[hnd[h].ev.group] /\ hnd[h].pc = "apply"
        BY <1>1, <2>2 DEF ApplyAction, At, SerialGroup
    <3> QED
        BY <1>2, <2>2, <3>1, ApplyActionEffect, ActionFacts
  <2> QED
      BY <2>1, <2>2
<1>4. /\ groups' = groups /\ Live' = Live /\ SameEvents
      /\ \A x \in Live : GroupOf(x)'.parent = GroupOf(x).parent
      /\ NoneIsItsParent'
  <2>1. PICK id, g : /\ id = hnd[h].ev.group /\ g = Apply(GroupOf(id), m)
                     /\ ChangedAt(id, g) /\ SameEvents
      BY <1>3 DEF AppliedTo
  <2>2. g.parent = GroupOf(id).parent
      BY <1>2, <2>1, LiveRecord, ApplyShape
  <2>3. NoneIsItsParent'
      BY <1>1, <1>2, <2>1, <2>2, ChangeSerial
  <2> QED
      BY <1>2, <2>1, <2>2, <2>3, ChangedFacts
<1>5. hnd[h].cand = <<>>
    BY <1>1, <1>2 DEF SerialRosters
<1>6. CASE ApplyCreate(h)
  <2>1. Keeps(h, "tail") /\ hnd[h].pc = "created" /\ hnd[h].ev.kind = "create"
    <3>1. hnd[h].ev.kind = "create"
        BY <1>6, HandlerFacts DEF ApplyCreate, At, HoldsMessage
    <3>2. hnd[h].obj = groups[hnd[h].ev.group]
        BY <1>1, <1>2, <1>6, <3>1 DEF SerialCreate, Making
    <3> QED
        BY <1>2, <1>6, <3>2, ApplyCreateEffect
  <2>2. SerialCreate(hnd[h])' /\ SerialGroup(hnd[h])'
      BY <1>2, <1>4, <2>1 DEF SerialCreate, SerialGroup, Keeps, Making, Working, Wiping
  <2>3. SerialRosters(hnd[h])'
      BY <1>1, <1>4, <1>5, <2>1 DEF SerialRosters, Keeps, Wiping
  <2> QED
      BY <1>4, <2>2, <2>3 DEF Serial
<1>7. CASE ApplyAction(h)
  <2>1. hnd[h].target = groups[hnd[h].ev.group] /\ hnd[h].pc = "apply"
      BY <1>1, <1>7 DEF ApplyAction, At, SerialGroup
  <2>2. Keeps(h, AfterApply(hnd[h].ev, GroupOf(hnd[h].ev.group)))
      BY <1>2, <1>7, <2>1, ApplyActionEffect
  <2>3. PICK q : q = AfterApply(hnd[h].ev, GroupOf(hnd[h].ev.group))
      OBVIOUS
  <2>4. /\ q \in {"created", "sync", "erase", "drop", "unlink", "tail"}
        /\ q = "created" => hnd[h].ev.kind = "create"
        /\ q = "erase" => hnd[h].ev.kind = "deleteEvent"
        /\ q \in {"drop", "unlink"} => hnd[h].ev.kind = "deleteGroup"
        /\ hnd[h].ev.kind = "create" => q = "created"
      BY <2>3 DEF AfterApply
  <2>5. SerialCreate(hnd[h])'
      BY <1>1, <1>2, <1>4, <2>1, <2>2, <2>3, <2>4 DEF SerialCreate, Keeps, Making
  <2>6. SerialGroup(hnd[h])'
      BY <1>1, <1>2, <1>4, <2>1, <2>2, <2>3, <2>4
         DEF SerialGroup, Keeps, Making, Working, Wiping, SameEvents
  <2>7. q \in {"drop", "unlink"} => hnd[h].todo = <<>>
      BY <1>1, <2>1, <2>4 DEF SerialRosters, Answered
  <2>8. SerialRosters(hnd[h])'
      BY <1>1, <1>4, <1>5, <2>2, <2>3, <2>4, <2>7 DEF SerialRosters, Keeps, Wiping
  <2> QED
      BY <1>4, <2>5, <2>6, <2>8 DEF Serial
<1> QED
    BY <1>6, <1>7

\* process_event.go:107-122: a group is deleted.
LEMMA DeleteSerial ==
    ASSUME GroupInv, SerialInv, NEW h \in Handlers, Unlink(h) \/ Drop(h)
    PROVE  Serial(hnd[h])' /\ NoneIsItsParent'
<1>1. SerialCreate(hnd[h]) /\ SerialGroup(hnd[h]) /\ SerialRosters(hnd[h]) /\ NoneIsItsParent
    BY SerialOf DEF SerialInv
<1>2. PICK e, p : e = hnd[h].ev /\ p = GroupOf(e.group).parent
    OBVIOUS
<1>3. e.group \in Live /\ e.kind = "deleteGroup" /\ e \in db /\ hnd[h].cand = <<>>
      /\ hnd[h].pc \in {"unlink", "drop"}
    BY <1>1, <1>2 DEF Unlink, Drop, At, SerialGroup, SerialRosters, Working
<1>4. CASE Unlink(h)
  <2>1. hnd[h].target = groups[e.group]
      BY <1>1, <1>2, <1>4 DEF Unlink, At, SerialGroup
  <2>2. /\ hnd'[h].pc = "drop" /\ hnd'[h].ev = e /\ hnd'[h].cand = hnd[h].cand /\ SameEvents
      BY <1>2, <1>3, <1>4, <2>1, UnlinkEffect
  <2>3. /\ groups' = groups /\ Live' = Live /\ NoneIsItsParent'
        /\ \A i \in DOMAIN hnd'[h].todo : \E id \in Live : id # e.group /\ hnd'[h].todo[i] = groups[id]
    <3>1. CASE p \in Live /\ e.group \in GroupOf(p).children
      <4>1. PICK g : /\ ChangedAt(p, g) /\ g = RemoveChild(GroupOf(p), e.group, e.at)
                     /\ hnd'[h].todo = <<groups[p]>>
          BY <1>2, <1>3, <1>4, <2>1, <3>1, UnlinkEffect
      <4>2. g.parent = GroupOf(p).parent
          BY <3>1, <4>1, LiveRecord DEF RemoveChild, GroupRecords
      <4>3. NoneIsItsParent'
          BY <1>1, <2>2, <3>1, <4>1, <4>2, ChangeSerial
      <4>4. p # e.group
          BY <1>1, <1>2, <1>3 DEF NoneIsItsParent
      <4> QED
          BY <3>1, <4>1, <4>3, <4>4, ChangedFacts
    <3>2. CASE ~(p \in Live /\ e.group \in GroupOf(p).children)
      <4>1. UNCHANGED <<heap, groups>> /\ hnd'[h].todo = <<>>
          BY <1>2, <1>3, <1>4, <2>1, <3>2, UnlinkEffect
      <4> QED
          BY <1>1, <2>2, <4>1, SameFacts DEF NoneIsItsParent, SameEvents
    <3> QED
        BY <3>1, <3>2
  <2>4. SerialCreate(hnd[h])' /\ SerialGroup(hnd[h])'
      BY <1>3, <2>2, <2>3 DEF SerialCreate, SerialGroup, Making, Working, Wiping, SameEvents
  <2>5. \A id \in Live : id # e.group => groups[id] # groups[e.group]
      BY <1>3, SerialFacts DEF Live
  <2>6. SerialRosters(hnd[h])'
      BY <1>3, <2>2, <2>3, <2>5 DEF SerialRosters, Wiping
  <2> QED
      BY <2>3, <2>4, <2>6 DEF Serial
<1>5. CASE Drop(h)
  <2>1. /\ hnd[h].pc = "drop" /\ e.group \in GroupIds /\ Keeps(h, "sync")
        /\ ForgottenAt(e.group) /\ SameEvents
      BY <1>2, <1>5, DropEffect
  <2>2. /\ Live' = Live \ {e.group}
        /\ \A x \in Live : x # e.group => groups'[x] = groups[x] /\ GroupOf(x)' = GroupOf(x)
      BY <2>1, ForgottenFacts
  <2>3. SerialCreate(hnd[h])' /\ SerialGroup(hnd[h])'
      BY <2>1 DEF SerialCreate, SerialGroup, Keeps, Making, Working, Wiping
  <2>4. \A i \in DOMAIN hnd[h].todo : \E id \in Live : id # e.group /\ hnd[h].todo[i] = groups[id]
      BY <1>1, <1>2, <2>1 DEF SerialRosters
  <2>5. SerialRosters(hnd[h])'
      BY <1>3, <2>1, <2>2, <2>4 DEF SerialRosters, Keeps, Wiping
  <2>6. NoneIsItsParent'
      BY <1>1, <2>1, <2>2 DEF NoneIsItsParent, SameEvents
  <2> QED
      BY <2>3, <2>5, <2>6 DEF Serial
<1> QED
    BY <1>4, <1>5

\* process_event.go:51-54, 92-106, 152-187, khatru deleting.go, wipe.go:23-47: h goes to
\* the end of its message, or deletes from the store.
LEMMA EndSerial ==
    ASSUME GroupInv, SerialInv, NEW h \in Handlers, EndMove(h)
    PROVE  Serial(hnd[h])' /\ NoneIsItsParent'
<1>1. SerialCreate(hnd[h]) /\ SerialGroup(hnd[h]) /\ SerialRosters(hnd[h]) /\ NoneIsItsParent
    BY SerialOf DEF SerialInv
<1>2. UNCHANGED <<heap, groups, granted>>
    BY EndMoveEffect
<1>3. Live' = Live /\ \A x : GroupOf(x)' = GroupOf(x)
    BY <1>2, SameFacts
<1>4. NoneIsItsParent'
    BY <1>1, <1>2, <1>3 DEF NoneIsItsParent
<1>5. CASE hnd'[h] = Idle
    BY <1>4, <1>5, IdleSerial
<1>6. CASE hnd'[h] # Idle
  <2>1. /\ hnd'[h].ev = hnd[h].ev /\ hnd'[h].obj = hnd[h].obj
        /\ hnd'[h].todo = hnd[h].todo /\ hnd'[h].cand = hnd[h].cand
        /\ \/ hnd[h].pc \in {"creator", "reply"} /\ hnd'[h].pc = "sync"
           \/ hnd[h].pc \in {"erase", "cache"} /\ hnd'[h].pc \in {"erase", "cache", "tail"}
           \/ hnd[h].pc = "retract" /\ hnd'[h].pc = "retract"
           \/ hnd[h].pc \in Wiping /\ hnd'[h].pc \in Wiping
      BY <1>6, EndMoveEffect DEF Keeps
  <2>2. SerialCreate(hnd[h])' /\ SerialGroup(hnd[h])'
      BY <1>1, <1>2, <1>3, <2>1 DEF SerialCreate, SerialGroup, Making, Working, Wiping
  <2>3. SerialRosters(hnd[h])'
      BY <1>1, <1>2, <1>3, <2>1 DEF SerialRosters, Wiping
  <2> QED
      BY <1>4, <2>2, <2>3 DEF Serial
<1> QED
    BY <1>5, <1>6

\* process_event.go:124-190: the group is looked up to be published or answered.
LEMMA LookSerial ==
    ASSUME GroupInv, SerialInv, NEW h \in Handlers, LookAgain(h) \/ React(h)
    PROVE  Serial(hnd[h])' /\ NoneIsItsParent'
<1>1. SerialCreate(hnd[h]) /\ SerialGroup(hnd[h]) /\ SerialRosters(hnd[h]) /\ NoneIsItsParent
    BY SerialOf DEF SerialInv
<1>2. UNCHANGED <<heap, groups>> /\ SameEvents
    BY LookAgainEffect, ReactEffect
<1>3. Live' = Live /\ \A x : GroupOf(x)' = GroupOf(x)
    BY <1>2, SameFacts
<1>4. NoneIsItsParent'
    BY <1>1, <1>2, <1>3 DEF NoneIsItsParent, SameEvents
<1>5. CASE hnd'[h] = Idle
    BY <1>4, <1>5, IdleSerial
<1>6. CASE LookAgain(h)
  <2>1. /\ hnd[h].pc = "tail" /\ hnd'[h].pc = "sync" /\ hnd'[h].cand = hnd[h].cand
        /\ \A i \in DOMAIN hnd'[h].todo :
             \/ hnd[h].ev.group \in Live /\ hnd'[h].todo[i] = groups[hnd[h].ev.group]
             \/ \E j \in DOMAIN hnd[h].todo : hnd'[h].todo[i] = hnd[h].todo[j]
      BY <1>6, LookAgainEffect
  <2>2. SerialCreate(hnd[h])' /\ SerialGroup(hnd[h])'
      BY <2>1 DEF SerialCreate, SerialGroup, Making, Working, Wiping
  <2>3. SerialRosters(hnd[h])'
      BY <1>1, <1>2, <1>3, <2>1 DEF SerialRosters, Wiping
  <2> QED
      BY <1>4, <2>2, <2>3 DEF Serial
<1>8. CASE React(h) /\ Keeps(h, "retract")
  <2>1. hnd[h].pc = "process"
      BY <1>8, ReactEffect
  <2>2. hnd[h].todo = <<>> /\ hnd[h].cand = <<>>
      BY <1>1, <2>1 DEF SerialRosters
  <2> QED
      BY <1>4, <1>8, <2>2, RetractSerial
<1>7. CASE React(h) /\ hnd'[h] # Idle /\ ~Keeps(h, "retract")
  <2>1. /\ hnd[h].pc = "process" /\ hnd[h].ev.kind \in {"join", "leave", "note", "retract"}
        /\ hnd[h].ev.group \in Live
        /\ hnd'[h].pc \in {"reply", "sync"} /\ hnd'[h].ev = hnd[h].ev
        /\ hnd'[h].todo = <<groups[hnd[h].ev.group]>> /\ hnd'[h].cand = hnd[h].cand
      BY <1>7, ReactEffect
  <2>2. SerialCreate(hnd[h])' /\ SerialGroup(hnd[h])'
      BY <1>3, <2>1 DEF SerialCreate, SerialGroup, Making, Working, Wiping
  <2>3. hnd[h].cand = <<>>
      BY <1>1, <2>1 DEF SerialRosters
  <2>4. SerialRosters(hnd[h])'
      BY <1>2, <1>3, <2>1, <2>3 DEF SerialRosters, Wiping
  <2> QED
      BY <1>4, <2>2, <2>4 DEF Serial
<1> QED
    BY <1>5, <1>6, <1>7, <1>8

\* The steps that publish.
Publishes(h) ==
    \/ Snapshot(h) \/ Finish(h) \/ SkipRoster(h) \/ ReadRoster(h) \/ RostersDone(h)
    \/ WriteRoster(h) \/ WriteRosterFails(h)

\* group.go:276-352: publishing changes nothing but the rosters.
LEMMA PublishEffect ==
    ASSUME GroupInv, NEW h \in Handlers, Publishes(h)
    PROVE  /\ hnd[h].pc \in {"sync", "read", "write"}
           /\ UNCHANGED <<heap, groups, deletedGroups, deletedCache>> /\ SameEvents
           /\ \/ hnd'[h] = Idle
              \/ Keeps(h, "retract") /\ hnd[h].pc = "sync" /\ hnd[h].todo = <<>>
              \/ /\ hnd'[h].pc \in {"sync", "read", "write"} /\ hnd'[h].ev = hnd[h].ev
                 /\ hnd'[h].pc = "sync" => hnd'[h].cand = <<>>
                 /\ \A i \in DOMAIN hnd'[h].todo :
                      \E j \in DOMAIN hnd[h].todo : hnd'[h].todo[i] = hnd[h].todo[j]
                 /\ \A i \in DOMAIN hnd'[h].cand :
                      \/ \E j \in DOMAIN hnd[h].cand : hnd'[h].cand[i].id = hnd[h].cand[j].id
                      \/ \E j \in DOMAIN hnd[h].todo : hnd'[h].cand[i].id = heap[hnd[h].todo[j]].id
<1> USE DEF Publishes
<1>1. hnd[h].pc \in {"sync", "read", "write"}
    BY DEF Snapshot, Finish, SkipRoster, ReadRoster, RostersDone, WriteRoster,
           WriteRosterFails, At
<1>2. UNCHANGED <<heap, groups, deletedGroups, deletedCache>> /\ SameEvents
    BY DEF Snapshot, Finish, SkipRoster, ReadRoster, RostersDone, WriteRoster,
           WriteRosterFails, memVars, storeVars, SameEvents
<1>3. /\ hnd \in [Handlers -> HandlerRecords] /\ hnd[h] \in HandlerRecords
      /\ hnd[h].todo \in Seq(Nat) /\ hnd[h].cand \in Seq(CandidateRecords)
    BY SerialFacts
<1>4. CASE Finish(h)
  <2>1. hnd'[h] = Idle \/ Keeps(h, "retract")
      BY <1>4, HandledEffect DEF Finish
  <2> QED
      BY <1>1, <1>2, <1>4, <2>1 DEF Finish, At
<1>5. CASE Snapshot(h)
  <2>1. /\ hnd[h].todo # <<>> /\ hnd'[h].pc = "read" /\ hnd'[h].todo = Tail(hnd[h].todo)
        /\ hnd'[h].ev = hnd[h].ev
        /\ hnd'[h].cand = Candidates(heap[Head(hnd[h].todo)])
      BY <1>3, <1>5 DEF Snapshot, HandlerRecords
  <2>2. \A i \in DOMAIN Candidates(heap[Head(hnd[h].todo)]) :
           Candidates(heap[Head(hnd[h].todo)])[i].id = heap[Head(hnd[h].todo)].id
      BY DEF Candidates
  <2>3. Head(hnd[h].todo) = hnd[h].todo[1] /\ 1 \in DOMAIN hnd[h].todo
      BY <1>3, <2>1
  <2>4. \A i \in DOMAIN Tail(hnd[h].todo) :
           i + 1 \in DOMAIN hnd[h].todo /\ Tail(hnd[h].todo)[i] = hnd[h].todo[i + 1]
      BY <1>3, <2>1
  <2> QED
      BY <1>1, <1>2, <2>1, <2>2, <2>3, <2>4
<1>6. CASE ReadRoster(h)
    BY <1>1, <1>2, <1>3, <1>6 DEF ReadRoster, HandlerRecords
<1>7. CASE RostersDone(h)
    BY <1>1, <1>2, <1>3, <1>7 DEF RostersDone, HandlerRecords
<1>8. CASE SkipRoster(h) \/ WriteRoster(h) \/ WriteRosterFails(h)
  <2>1. /\ hnd[h].cand # <<>> /\ hnd'[h].pc = "read" /\ hnd'[h].todo = hnd[h].todo
        /\ hnd'[h].ev = hnd[h].ev
        /\ hnd'[h].cand = Tail(hnd[h].cand)
    <3>1. hnd[h].pc = "write" => hnd[h].cand # <<>>
        BY HandlerFacts DEF HoldsRosters
    <3>2. CASE SkipRoster(h)
        BY <1>3, <3>2 DEF SkipRoster, HandlerRecords, At
    <3>3. CASE WriteRoster(h) \/ WriteRosterFails(h)
        BY <1>3, <3>1, <3>3 DEF WriteRoster, WriteRosterFails, HandlerRecords, At
    <3> QED
        BY <1>8, <3>2, <3>3
  <2>2. \A i \in DOMAIN Tail(hnd[h].cand) :
           i + 1 \in DOMAIN hnd[h].cand /\ Tail(hnd[h].cand)[i] = hnd[h].cand[i + 1]
      BY <1>3, <2>1
  <2> QED
      BY <1>1, <1>2, <2>1, <2>2
<1> QED
    BY <1>4, <1>5, <1>6, <1>7, <1>8

\* group.go:276-352: the groups still to publish are live.
LEMMA PublishSerial ==
    ASSUME GroupInv, SerialInv, NEW h \in Handlers, Publishes(h)
    PROVE  Serial(hnd[h])' /\ NoneIsItsParent'
<1>1. SerialRosters(hnd[h]) /\ NoneIsItsParent
    BY SerialOf DEF SerialInv
<1>2. UNCHANGED <<heap, groups>> /\ SameEvents
    BY PublishEffect
<1>3. Live' = Live /\ \A x : GroupOf(x)' = GroupOf(x)
    BY <1>2, SameFacts
<1>4. NoneIsItsParent'
    BY <1>1, <1>2, <1>3 DEF NoneIsItsParent, SameEvents
<1>5. CASE hnd'[h] = Idle
    BY <1>4, <1>5, IdleSerial
<1>7. CASE Keeps(h, "retract")
  <2>1. hnd[h].todo = <<>> /\ hnd[h].cand = <<>>
      BY <1>1, <1>7, PublishEffect DEF SerialRosters, Keeps, Idle
  <2> QED
      BY <1>4, <1>7, <2>1, RetractSerial
<1>6. CASE hnd'[h] # Idle /\ ~Keeps(h, "retract")
  <2>1. /\ hnd'[h].pc \in {"sync", "read", "write"}
        /\ hnd'[h].pc = "sync" => hnd'[h].cand = <<>>
        /\ \A i \in DOMAIN hnd'[h].todo :
             \E j \in DOMAIN hnd[h].todo : hnd'[h].todo[i] = hnd[h].todo[j]
        /\ \A i \in DOMAIN hnd'[h].cand :
             \/ \E j \in DOMAIN hnd[h].cand : hnd'[h].cand[i].id = hnd[h].cand[j].id
             \/ \E j \in DOMAIN hnd[h].todo : hnd'[h].cand[i].id = heap[hnd[h].todo[j]].id
      BY <1>6, PublishEffect
  <2>2. SerialCreate(hnd[h])' /\ SerialGroup(hnd[h])'
      BY <2>1 DEF SerialCreate, SerialGroup, Making, Working, Wiping
  <2>3. \A j \in DOMAIN hnd[h].todo : heap[hnd[h].todo[j]].id \in Live
      BY <1>1, LiveRecord DEF SerialRosters, GroupOf
  <2>4. SerialRosters(hnd[h])'
      BY <1>1, <1>2, <1>3, <2>1, <2>3 DEF SerialRosters, Wiping
  <2> QED
      BY <1>4, <2>2, <2>4 DEF Serial
<1> QED
    BY <1>5, <1>6, <1>7

\* wipe.go:48-55, relay.go:50-58: a wipe is over; a message is turned away.
LEMMA ForgetSerial ==
    ASSUME GroupInv, SerialInv, NEW h \in Handlers,
           WipeMemory(h) \/ StoreFails(h) \/ StoreDuplicate(h) \/ Panic(h)
    PROVE  Serial(hnd[h])' /\ NoneIsItsParent'
<1>1. SerialCreate(hnd[h]) /\ SerialGroup(hnd[h]) /\ SerialRosters(hnd[h]) /\ NoneIsItsParent
    BY SerialOf DEF SerialInv
<1>2. CASE StoreDuplicate(h)
  <2>1. hnd[h].pc = "store" /\ UNCHANGED <<heap, groups>> /\ SameEvents
      BY <1>2 DEF StoreDuplicate, At, memVars, storeVars, SameEvents
  <2>2. Live' = Live /\ \A x : GroupOf(x)' = GroupOf(x)
      BY <2>1, SameFacts
  <2>3. NoneIsItsParent'
      BY <1>1, <2>1, <2>2 DEF NoneIsItsParent, SameEvents
  <2>4. hnd'[h] = Idle \/ Keeps(h, "retract")
      BY <1>2, HandledEffect DEF StoreDuplicate
  <2>5. hnd[h].todo = <<>> /\ hnd[h].cand = <<>>
      BY <1>1, <2>1 DEF SerialRosters
  <2> QED
      BY <1>1, <2>3, <2>4, <2>5, IdleSerial, RetractSerial
<1>3. CASE WipeMemory(h) \/ StoreFails(h)
  <2>1. hnd'[h] = Idle /\ SameEvents
      BY <1>3, WipeMemoryEffect, StoreFailsEffect
  <2>2. Live' \subseteq Live /\ \A x \in Live' : GroupOf(x)' = GroupOf(x)
    <3>1. CASE WipeMemory(h)
        BY <3>1, WipeMemoryEffect, ForgottenFacts
    <3>3. CASE StoreFails(h)
      <4>1. hnd[h].ev.group \in GroupIds
          BY <3>3, EventFacts DEF StoreFails, At, Wiping
      <4>2. ForgottenAt(hnd[h].ev.group) \/ UNCHANGED <<heap, groups>>
          BY <3>3, StoreFailsEffect
      <4> QED
          BY <4>1, <4>2, ForgottenFacts, SameFacts
    <3> QED
        BY <1>3, <3>1, <3>3
  <2>3. NoneIsItsParent'
      BY <1>1, <2>1, <2>2 DEF NoneIsItsParent, SameEvents
  <2> QED
      BY <2>1, <2>3, IdleSerial
<1>4. CASE Panic(h)
  <2>1. UNCHANGED <<heap, groups, db, granted, hnd>>
      BY <1>4 DEF Panic, memVars, storeVars
  <2>2. Live' = Live /\ \A x : GroupOf(x)' = GroupOf(x)
      BY <2>1, SameFacts
  <2>3. PICK e : e = hnd[h].ev
      OBVIOUS
  <2>4. WouldCreateCycle(e.group, e.parent)' => WouldCreateCycle(e.group, e.parent)
      BY <2>2, CycleFrame
  <2>5. Rooted(e) => Rooted(e)'
      BY <2>2, <2>4 DEF Rooted
  <2>6. SerialCreate(hnd[h])'
      BY <1>1, <2>1, <2>2, <2>3, <2>5 DEF SerialCreate
  <2>7. SerialGroup(hnd[h])' /\ SerialRosters(hnd[h])' /\ NoneIsItsParent'
      BY <1>1, <2>1, <2>2 DEF SerialGroup, SerialRosters, NoneIsItsParent
  <2> QED
      BY <2>6, <2>7 DEF Serial
<1> QED
    BY <1>2, <1>3, <1>4

\* One handler at a time, the objects it holds stay the ones in the map.
LEMMA SerialStep ==
    ASSUME Sequential, GroupInv, SerialInv, NEW h \in Handlers,
           Step(h) \/ Failure(h) \/ Arrival(h)
    PROVE  SerialInv'
<1>1. Serial(hnd[h])' /\ NoneIsItsParent'
    BY ArrivalSerial, CreateSerial, LinkSerial, InnerSerial, ApplySerial, DeleteSerial,
       EndSerial, LookSerial, PublishSerial, ForgetSerial
       DEF Step, Failure, EndMove, Publishes
<1> QED
    BY <1>1 DEF SerialInv, Sequential

\* group.go loadGroupsFromDB: what a loaded group is made of.
LEMMA FoundedFields ==
    ASSUME NEW e \in Founded
    PROVE  /\ FoundedObject(e).parent = e.parent
           /\ FoundedObject(e).children = {f.group : f \in {x \in Founded : x.parent = e.group}}
           /\ FoundedObject(e).members = {e.author}
<1>1. e \in Messages /\ e.kind = "create" /\ e.author \in Users
    BY GroupsAssumption DEF Answered
<1>2. PICK g0 \in GroupRecords : g0 = NewGroup(e.group) /\ g0.members = {}
  <2>1. NewGroup(e.group) \in GroupRecords
      BY <1>1, NewShape DEF Messages
  <2> QED
      BY <2>1 DEF NewGroup
<1>3. PICK g1 \in GroupRecords : g1 = CreateGroup(g0, e) /\ g1.members = {}
  <2>1. Apply(g0, e) = CreateGroup(g0, e)
      BY <1>1 DEF Apply
  <2>2. CreateGroup(g0, e) \in GroupRecords
      BY <1>1, <2>1, ApplyShape
  <2>3. CreateGroup(g0, e).members = {}
      BY <1>2 DEF CreateGroup, GroupRecords
  <2> QED
      BY <2>2, <2>3
<1>4. PICK a \in Messages : a = AddCreator(e) /\ a.kind = "put" /\ a.users = {e.author}
  <2>1. AddCreator(e).users = {e.author}
      BY DEF AddCreator, Event
  <2> QED
      BY <1>1, <2>1, AddCreatorShape
<1>5. PICK g2 \in GroupRecords : g2 = PutUser(g1, a) /\ g2.members = {e.author}
  <2>1. Apply(g1, a) = PutUser(g1, a)
      BY <1>4 DEF Apply
  <2>2. PutUser(g1, a) \in GroupRecords
      BY <1>4, <2>1, ApplyShape
  <2>3. PutUser(g1, a).members = {e.author}
      BY <1>3, <1>4 DEF PutUser, GroupRecords
  <2> QED
      BY <2>2, <2>3
<1>6. PICK c \in Messages : c = CloseEvent(e) /\ c.kind = "edit"
    BY <1>1, CloseShape
<1>7. PICK g3 \in GroupRecords :
         /\ g3 = IF e.group \in ClosedGroups THEN Apply(g2, c) ELSE g2
         /\ g3.members = {e.author}
  <2>1. Apply(g2, c) = EditMetadata(g2, c)
      BY <1>6 DEF Apply
  <2>2. Apply(g2, c) \in GroupRecords
      BY <1>6, ApplyShape
  <2>3. EditMetadata(g2, c).members = g2.members
      BY DEF EditMetadata, GroupRecords
  <2> QED
      BY <1>5, <2>1, <2>2, <2>3
<1>8. PICK kids : kids = {f.group : f \in {x \in Founded : x.parent = e.group}}
    OBVIOUS
<1>9. PICK g : g = FoundedObject(e)
    OBVIOUS
<1>10. g = [g3 EXCEPT !.parent = e.parent, !.children = kids]
    BY <1>2, <1>3, <1>4, <1>5, <1>6, <1>7, <1>8, <1>9 DEF FoundedObject
<1>11. g.parent = e.parent /\ g.children = kids /\ g.members = g3.members
    BY <1>10 DEF GroupRecords
<1> QED
    BY <1>7, <1>8, <1>9, <1>11

\* The groups, the events and the rosters the relay starts with.
LEMMA FirstFacts ==
    ASSUME Init
    PROVE  /\ \A e \in Founded : e.group \in Live /\ GroupOf(e.group) = FoundedObject(e)
           /\ \A id \in Live : \E e \in Founded : e.group = id
           /\ db = granted /\ \A h \in Handlers : hnd[h] = Idle
           /\ \A m \in db : \/ m \in Founded /\ m.kind = "create"
                            \/ \E f \in Founded : /\ m = AddCreator(f) \/ m = CloseEvent(f)
                                                  /\ m.kind # "create" /\ m.kind # "deleteGroup"
<1>1. PICK order \in [1..Cardinality(Founded) -> Founded] :
         /\ \A e \in Founded : \E i \in DOMAIN order : order[i] = e
         /\ heap = [i \in DOMAIN order |-> FoundedObject(order[i])]
         /\ groups = [id \in GroupIds |->
                        IF \E i \in DOMAIN order : order[i].group = id
                        THEN CHOOSE i \in DOMAIN order : order[i].group = id
                        ELSE 0]
    BY DEF Init, InitMemory
<1>2. \A e \in Founded : e \in Messages /\ e.group \in GroupIds /\ e.kind = "create" /\ e.author \in Users
    BY GroupsAssumption DEF Messages, Answered
<1>3. Cardinality(Founded) \in Nat
    BY GroupsAssumption, FS_CardinalityType
<1>4. ASSUME NEW e \in Founded PROVE e.group \in Live /\ GroupOf(e.group) = FoundedObject(e)
  <2>1. \E i \in DOMAIN order : order[i].group = e.group
      BY <1>1
  <2>2. PICK p : p = CHOOSE i \in DOMAIN order : order[i].group = e.group
      OBVIOUS
  <2>3. p \in DOMAIN order /\ order[p].group = e.group
      BY <2>1, <2>2
  <2>4. groups[e.group] = p
      BY <1>1, <1>2, <2>1, <2>2
  <2>5. order[p] = e
      BY <2>3, GroupsAssumption
  <2>6. p # 0
      BY <1>3, <2>3
  <2> QED
      BY <1>1, <1>2, <2>3, <2>4, <2>5, <2>6 DEF Live, GroupOf
<1>5. ASSUME NEW id \in Live PROVE \E e \in Founded : e.group = id
  <2>1. PICK i \in DOMAIN order : order[i].group = id
      BY <1>1 DEF Live
  <2>2. order[i] \in Founded
      OBVIOUS
  <2> QED
      BY <2>1, <2>2
<1>6. db = granted /\ \A h \in Handlers : hnd[h] = Idle
    BY DEF Init
<1>7. ASSUME NEW m \in db
      PROVE  \/ m \in Founded /\ m.kind = "create"
             \/ \E f \in Founded : /\ m = AddCreator(f) \/ m = CloseEvent(f)
                                   /\ m.kind # "create" /\ m.kind # "deleteGroup"
  <2>1. \/ m \in Founded
        \/ \E f \in Founded : m = AddCreator(f) \/ m = CloseEvent(f)
      BY DEF Init
  <2>2. \A f \in Founded : AddCreator(f).kind = "put" /\ CloseEvent(f).kind = "edit"
      BY <1>2, AddCreatorShape, CloseShape
  <2> QED
      BY <1>2, <2>1, <2>2
<1> QED
    BY <1>4, <1>5, <1>6, <1>7

\* The handlers are idle and no founded group is its own parent.
LEMMA SerialInit ==
    ASSUME Init PROVE SerialInv
<1>1. \A e \in Founded : e.parent # e.group
  <2> SUFFICES ASSUME NEW e \in Founded PROVE e.parent # e.group
      OBVIOUS
  <2>1. {e} \in SUBSET Founded /\ {e} # {}
      OBVIOUS
  <2> QED
      BY <2>1, GroupsAssumption
<1>2. NoneIsItsParent
    BY <1>1, FirstFacts, FoundedFields DEF NoneIsItsParent
<1>3. \A h \in Handlers : Serial(hnd[h])
  <2> SUFFICES ASSUME NEW h \in Handlers PROVE Serial(hnd[h])
      OBVIOUS
  <2>1. hnd[h].pc = "idle" /\ hnd[h].todo = <<>> /\ hnd[h].cand = <<>>
      BY FirstFacts DEF Idle
  <2>2. SerialCreate(hnd[h]) /\ SerialGroup(hnd[h])
      BY <2>1 DEF SerialCreate, SerialGroup, Making, Working, Wiping
  <2>3. SerialRosters(hnd[h])
      BY <2>1 DEF SerialRosters
  <2> QED
      BY <2>2, <2>3 DEF Serial
<1> QED
    BY <1>2, <1>3 DEF SerialInv

\* A step that changes neither memory nor stored events nor handlers.
LEMMA SerialSame ==
    ASSUME SerialInv, UNCHANGED <<heap, groups, db, granted, hnd>> PROVE SerialInv'
<1>1. Live' = Live /\ \A x : GroupOf(x)' = GroupOf(x)
    BY SameFacts
<1>2. \A id, p : WouldCreateCycle(id, p)' => WouldCreateCycle(id, p)
    BY <1>1, CycleFrame
<1>3. \A e : Rooted(e) => Rooted(e)'
    BY <1>1, <1>2 DEF Rooted
<1>4. ASSUME NEW h \in Handlers PROVE Serial(hnd[h])'
  <2>1. SerialCreate(hnd[h]) /\ SerialGroup(hnd[h]) /\ SerialRosters(hnd[h])
      BY SerialOf
  <2>2. SerialCreate(hnd[h])'
      BY <1>1, <1>3, <2>1 DEF SerialCreate
  <2>3. SerialGroup(hnd[h])' /\ SerialRosters(hnd[h])'
      BY <1>1, <2>1 DEF SerialGroup, SerialRosters
  <2> QED
      BY <2>2, <2>3 DEF Serial
<1>5. NoneIsItsParent'
    BY <1>1 DEF SerialInv, NoneIsItsParent
<1> QED
    BY <1>4, <1>5 DEF SerialInv

BaseInv == GroupInv /\ StoreInv /\ SerialInv

\* One handler at a time, in every state of the relay.
LEMMA SerialInvariance == ASSUME Sequential PROVE Spec => []BaseInv
<1>1. Init => SerialInv
    BY SerialInit
<1>2. GroupInv /\ SerialInv /\ [Next]_vars => SerialInv'
  <2>1. ASSUME SerialInv, UNCHANGED vars \/ Tick PROVE SerialInv'
      BY <2>1, SerialSame DEF vars, Tick, memVars, storeVars
  <2> QED
      BY <2>1, SerialStep DEF Next
<1>3. GroupInv /\ StoreInv /\ SerialInv => BaseInv
    BY DEF BaseInv
<1> QED
    BY <1>1, <1>2, <1>3, Invariance, PTL DEF Spec

\* group.go:63-147: while memory is rebuilt no handler holds anything; then one
\* publishes the live groups.
LEMMA BootSerial ==
    ASSUME BootInv, SerialInv, Crash \/ Boot PROVE SerialInv'
<1>1. GroupInv /\ StoreInv /\ PhaseInv /\ NoneIsItsParent
    BY DEF BootInv, SerialInv
<1>2. CASE Crash
  <2>1. /\ Live' = {} /\ \A h \in Handlers : hnd'[h] = Idle
        /\ granted' = granted
      BY <1>2 DEF Crash, Live, storeVars
  <2> QED
      BY <1>1, <2>1, IdleSerial DEF SerialInv, NoneIsItsParent
<1>3. CASE Loaded
  <2>1. /\ boot.id \in GroupIds /\ StoredCreate(boot.id, boot.g.parent)
        /\ boot.pc = "replay"
      BY <1>3 DEF Loaded, BootInv, ReplayInv
  <2>2. boot.g.parent # boot.id
      BY <1>1, <2>1 DEF StoredCreate, Creates, NoneIsItsParent, StoreInv
  <2>3. NewAt(boot.id, boot.g) /\ groups'[boot.id] # 0
      BY <1>1, <1>3, <2>1, AppendEffect DEF Loaded
  <2>4. PICK id, g : id \in GroupIds /\ id = boot.id /\ g = boot.g
      BY <2>1
  <2>5. /\ Live' = Live \cup {id} /\ GroupOf(id)' = g
        /\ \A x \in Live : x # id => groups'[x] = groups[x] /\ GroupOf(x)' = GroupOf(x)
      BY <1>1, <2>3, <2>4, NewFacts
  <2>6. granted' = granted /\ \A h \in Handlers : hnd'[h] = Idle
      BY <1>1, <1>3, <2>1 DEF Loaded, storeVars, PhaseInv, Starting
  <2>7. NoneIsItsParent'
      BY <1>1, <2>2, <2>4, <2>5, <2>6 DEF NoneIsItsParent
  <2> QED
      BY <2>6, <2>7, IdleSerial DEF SerialInv
<1>4. ASSUME NEW c \in boot.kids, LinkChild(c) PROVE SerialInv'
  <2>1. boot.pc = "link" /\ c \in Live /\ groups' = groups /\ SameEvents
        /\ \A h \in Handlers : hnd'[h] = Idle
      BY <1>1, <1>4 DEF LinkChild, PhaseInv, Starting, storeVars, SameEvents
  <2>2. GroupOf(c) \in GroupRecords
      BY <1>1, <2>1, LiveRecord
  <2>3. NoneIsItsParent'
    <3>1. CASE heap' = heap
        BY <1>1, <2>1, <3>1, SameFacts DEF NoneIsItsParent, SameEvents
    <3>2. CASE heap' # heap
      <4>1. PICK p : p = GroupOf(c).parent
          OBVIOUS
      <4>2. /\ p # None /\ groups[p] # 0
            /\ heap' = [heap EXCEPT ![groups[p]] = AddChild(GroupOf(p), c, GroupOf(c).lastMetadata)]
          BY <1>4, <3>2, <4>1 DEF LinkChild, GroupOf
      <4>3. p \in Live
          BY <2>2, <4>1, <4>2 DEF GroupRecords, Live
      <4>4. PICK g : g = AddChild(GroupOf(p), c, GroupOf(c).lastMetadata) /\ ChangedAt(p, g)
          BY <1>1, <2>1, <4>2, <4>3, ExceptEffect
      <4>5. g.parent = GroupOf(p).parent
          BY <1>1, <4>3, <4>4, LiveRecord DEF AddChild, GroupRecords
      <4> QED
          BY <1>1, <2>1, <4>3, <4>4, <4>5, ChangeSerial
    <3> QED
        BY <3>1, <3>2
  <2> QED
      BY <2>1, <2>3, IdleSerial DEF SerialInv
<1>5. CASE StartSync
  <2>1. PICK h \in Handlers, order \in [1..Cardinality(Live) -> {groups[id] : id \in Live}] :
           hnd' = [hnd EXCEPT ![h].pc = "sync", ![h].todo = order]
      BY <1>5 DEF StartSync
  <2>2. UNCHANGED <<heap, groups>> /\ SameEvents /\ Live' = Live
        /\ \A x : GroupOf(x)' = GroupOf(x)
      BY <1>5, SameFacts DEF StartSync, memVars, storeVars, SameEvents
  <2>3. hnd \in [Handlers -> HandlerRecords] /\ \A k \in Handlers : hnd[k] = Idle
      BY <1>1, <1>5, SerialFacts DEF StartSync, PhaseInv, Starting, GroupInv, GroupsTypeOK
  <2>4. hnd'[h].pc = "sync" /\ hnd'[h].todo = order /\ hnd'[h].cand = <<>>
      BY <2>1, <2>3 DEF Idle
  <2>5. \A k \in Handlers : k # h => hnd'[k] = Idle
      BY <2>1, <2>3
  <2>6. SerialCreate(hnd[h])' /\ SerialGroup(hnd[h])'
      BY <2>4 DEF SerialCreate, SerialGroup, Making, Working, Wiping
  <2>7. SerialRosters(hnd[h])'
      BY <2>2, <2>4 DEF SerialRosters, Wiping
  <2>8. NoneIsItsParent'
      BY <1>1, <2>2 DEF NoneIsItsParent, SameEvents
  <2> QED
      BY <2>5, <2>6, <2>7, <2>8, IdleSerial DEF SerialInv, Serial
<1>6. CASE \/ \E e \in boot.creates : ScanCreate(e)
           \/ \E e \in boot.todo : Replay(e)
           \/ ScanDone \/ ServeAgain
  <2>1. UNCHANGED <<heap, groups, db, granted, hnd>>
      BY <1>6 DEF ScanCreate, Replay, ScanDone, ServeAgain, vars, memVars, storeVars
  <2> QED
      BY <2>1, SerialSame
<1> QED
    BY <1>2, <1>3, <1>4, <1>5, <1>6 DEF Boot

\* One handler at a time, through any crashes and restarts.
LEMMA SerialRecovery == ASSUME Sequential PROVE RecoverySpec => [](BootInv /\ SerialInv)
<1>1. RecoveryInit => SerialInv
    BY SerialInit DEF RecoveryInit
<1>2. BootInv /\ SerialInv /\ [RecoveryNext]_allVars => SerialInv'
  <2>1. ASSUME SerialInv, UNCHANGED allVars \/ Tick PROVE SerialInv'
      BY <2>1, SerialSame DEF allVars, vars, Tick, memVars, storeVars
  <2>2. ASSUME BootInv, SerialInv, ServeStep PROVE SerialInv'
      BY <2>1, <2>2, SerialStep DEF ServeStep, BootInv
  <2> QED
      BY <2>1, <2>2, BootSerial DEF RecoveryNext
<1> QED
    BY <1>1, <1>2, RecoveryInvariance, PTL DEF RecoverySpec

-----------------------------------------------------------------------------
(* Parents and children, one handler at a time                              *)

\* The steps that leave the map and its objects alone.
Still(h) ==
    \/ \E e \in Submissions, t \in Epoch..MaxTime : Receive(h, [e EXCEPT !.at = t])
    \/ StoreEvent(h) \/ StoreDuplicate(h) \/ SaveInner(h) \/ Load(h) \/ LookAgain(h)
    \/ React(h) \/ EndMove(h) \/ Publishes(h) \/ Panic(h)
    \/ \E id \in Wipes : Wipe(h, id)

\* relay.go:46-66, process_event.go, wipe.go: where those steps leave the handler.
LEMMA StillEffect ==
    ASSUME GroupInv, NEW h \in Handlers, Still(h)
    PROVE  /\ UNCHANGED <<heap, groups, deletedGroups>>
           /\ hnd'[h].pc \notin {"unlink", "drop", "link", "created"}
           /\ hnd'[h].pc \in Wiping => hnd[h].pc \in Wiping \/ \E id \in Wipes : Wipe(h, id)
<1>1. ASSUME NEW m \in Submissions, NEW t \in Epoch..MaxTime, Receive(h, [m EXCEPT !.at = t])
      PROVE  UNCHANGED <<heap, groups, deletedGroups>> /\ hnd'[h].pc \in {"place", "store"}
    BY <1>1, ReceiveEffect DEF SameRosters
<1>2. CASE StoreEvent(h)
    BY <1>2, StoreEventEffect DEF Keeps, Wiping, SameRosters
<1>3. CASE StoreDuplicate(h)
  <2>1. hnd'[h] = Idle \/ Keeps(h, "retract")
      BY <1>3, HandledEffect DEF StoreDuplicate
  <2>2. hnd'[h].pc \in {"idle", "retract"}
      BY <2>1 DEF Idle, Keeps
  <2> QED
      BY <1>3, <2>2 DEF StoreDuplicate, memVars, Wiping
<1>4. CASE SaveInner(h)
    BY <1>4, SaveInnerEffect DEF Wiping, SameRosters
<1>5. CASE Load(h)
    BY <1>5, LoadEffect DEF Wiping, SameRosters
<1>6. CASE LookAgain(h)
    BY <1>6, LookAgainEffect DEF Wiping, SameRosters
<1>7. CASE React(h)
  <2>1. hnd'[h].pc \in {"reply", "sync"} \/ hnd'[h] = Idle \/ Keeps(h, "retract")
      BY <1>7, ReactEffect
  <2>2. hnd'[h].pc \in {"reply", "sync", "idle", "retract"}
      BY <2>1 DEF Idle, Keeps
  <2> QED
      BY <1>7, <2>2, ReactEffect DEF Wiping, SameRosters
<1>8. CASE EndMove(h)
  <2>1. /\ hnd'[h].pc \in {"sync", "erase", "cache", "tail", "retract", "idle"} \cup Wiping
        /\ hnd'[h].pc \in Wiping => hnd[h].pc \in Wiping
      BY <1>8, EndMoveEffect DEF Keeps, Wiping, Idle
  <2> QED
      BY <1>8, <2>1, EndMoveEffect DEF Wiping
<1>9. CASE Publishes(h)
  <2>1. hnd'[h].pc \in {"sync", "read", "write"} \/ hnd'[h] = Idle \/ Keeps(h, "retract")
      BY <1>9, PublishEffect
  <2>2. hnd'[h].pc \in {"sync", "read", "write", "idle", "retract"}
      BY <2>1 DEF Idle, Keeps
  <2> QED
      BY <1>9, <2>2, PublishEffect DEF Wiping
<1>11. ASSUME NEW id \in Wipes, Wipe(h, id)
       PROVE UNCHANGED <<heap, groups, deletedGroups>> /\ hnd'[h].pc = "wipeEvents"
    BY <1>11, WipeEffect DEF SameRosters
<1>12. CASE Panic(h)
    BY <1>12 DEF Panic, Loads, At, memVars, Wiping
<1> QED
    BY <1>1, <1>2, <1>3, <1>4, <1>5, <1>6, <1>7, <1>8, <1>9, <1>11, <1>12 DEF Still, Wiping

\* The other steps.
LEMMA StillOrNot ==
    ASSUME NEW h \in Handlers, Step(h) \/ Failure(h) \/ Arrival(h)
    PROVE  \/ Still(h) \/ Placeholder(h) \/ Register(h) \/ Link(h) \/ ApplyCreate(h)
           \/ ApplyAction(h) \/ Unlink(h) \/ Drop(h) \/ WipeMemory(h) \/ StoreFails(h)
BY DEF Step, Failure, Arrival, Still, EndMove, Publishes

\* moderation_actions.go (nip29): no action touches the list of children.
LEMMA ApplyChildren ==
    ASSUME NEW g \in GroupRecords, NEW e \in Messages
    PROVE  Apply(g, e).children = g.children
BY DEF Apply, PutUser, RemoveUser, EditMetadata, CreateGroup, DeleteGroup, CreateInvite,
       GroupRecords

\* What an action does to the object in the map.
LEMMA AppliedFacts ==
    ASSUME GroupInv, SerialInv, NEW h \in Handlers, ApplyCreate(h) \/ ApplyAction(h)
    PROVE  /\ hnd[h].ev.group \in Live /\ SameEvents /\ SameRosters
           /\ \E m \in Messages : /\ ChangedAt(hnd[h].ev.group, Apply(GroupOf(hnd[h].ev.group), m))
                                  /\ ApplyAction(h) => m = Action(h)
                                  /\ ApplyCreate(h) => m = hnd[h].ev
           /\ ApplyCreate(h) => Keeps(h, "tail") /\ hnd[h].ev.kind = "create" /\ hnd[h].pc = "created"
           /\ ApplyAction(h) => hnd[h].pc = "apply"
                                /\ Keeps(h, AfterApply(hnd[h].ev, GroupOf(hnd[h].ev.group)))
<1>1. SerialCreate(hnd[h]) /\ SerialGroup(hnd[h])
    BY SerialOf
<1>2. hnd[h].ev.group \in Live /\ hnd[h].ev \in Messages /\ hnd[h].pc \in {"created", "apply"}
    BY <1>1, EventFacts DEF ApplyCreate, ApplyAction, At, SerialGroup, Working, Making, Wiping
<1>3. CASE ApplyCreate(h)
  <2>1. hnd[h].pc = "created" /\ hnd[h].ev.kind = "create"
      BY <1>3, HandlerFacts DEF ApplyCreate, At, HoldsMessage
  <2>2. hnd[h].obj = groups[hnd[h].ev.group]
      BY <1>1, <2>1 DEF SerialCreate, Making
  <2>3. ~ApplyAction(h)
      BY <2>1 DEF ApplyAction, At
  <2> QED
      BY <1>2, <1>3, <2>2, <2>3, ApplyCreateEffect DEF AppliedTo
<1>4. CASE ApplyAction(h)
  <2>1. hnd[h].pc = "apply"
      BY <1>4 DEF ApplyAction, At
  <2>2. hnd[h].target = groups[hnd[h].ev.group]
      BY <1>1, <2>1 DEF SerialGroup
  <2>3. ~ApplyCreate(h) /\ Action(h) \in Messages
      BY <2>1, ActionFacts DEF ApplyCreate, At
  <2> QED
      BY <1>2, <1>4, <2>2, <2>3, ApplyActionEffect DEF AppliedTo
<1> QED
    BY <1>3, <1>4

\* Every listed child is a live group of this parent; a group on its way out
\* is listed by none, and none is being wiped.
KidsInv ==
    /\ \A p \in Live : \A c \in GroupOf(p).children : c \in Live /\ GroupOf(c).parent = p
    /\ \A h \in Handlers :
         /\ hnd[h].pc \notin Wiping
         /\ hnd[h].pc = "drop" => \A p \in Live : hnd[h].ev.group \notin GroupOf(p).children

\* process_event.go:28-37, 107-122: the lists of children follow the parents, as groups
\* are created and deleted.
LEMMA KidsStep ==
    ASSUME Sequential, Wipes = {}, GroupInv, SerialInv, KidsInv, NEW h \in Handlers,
           Step(h) \/ Failure(h) \/ Arrival(h)
    PROVE  KidsInv'
<1>1. SerialCreate(hnd[h]) /\ SerialGroup(hnd[h]) /\ SerialRosters(hnd[h]) /\ NoneIsItsParent
    BY SerialOf DEF SerialInv
<1>2. /\ \A p \in Live : \A c \in GroupOf(p).children : c \in Live /\ GroupOf(c).parent = p
      /\ hnd[h].pc \notin Wiping
      /\ hnd[h].pc = "drop" => \A p \in Live : hnd[h].ev.group \notin GroupOf(p).children
    BY DEF KidsInv
<1>3. SUFFICES /\ \A p \in Live' : \A c \in GroupOf(p)'.children : c \in Live' /\ GroupOf(c)'.parent = p
               /\ hnd'[h].pc \notin Wiping
               /\ hnd'[h].pc = "drop" => \A p \in Live' : hnd'[h].ev.group \notin GroupOf(p)'.children
    BY DEF KidsInv, Sequential
<1>4. None \notin GroupIds
    BY Nip29Assumption
<1>5. CASE Still(h)
  <2>1. UNCHANGED <<heap, groups>> /\ hnd'[h].pc # "drop"
      BY <1>5, StillEffect
  <2>2. hnd'[h].pc \notin Wiping
      BY <1>2, <1>5, StillEffect
  <2> QED
      BY <1>2, <2>1, <2>2, SameFacts
<1>6. CASE Placeholder(h)
  <2>1. /\ hnd[h].pc = "place" /\ hnd[h].ev.kind = "create" /\ hnd'[h].pc = "store"
        /\ NewAt(hnd[h].ev.group, NewGroup(hnd[h].ev.group))
        /\ groups'[hnd[h].ev.group] # 0
      BY <1>6, PlaceholderEffect DEF Keeps
  <2>2. PICK id, g : id \in GroupIds /\ id = hnd[h].ev.group /\ g = NewGroup(id)
      BY <2>1, EventFacts DEF Wiping
  <2>3. /\ Live' = Live \cup {id} /\ GroupOf(id)' = g
        /\ \A x \in Live : x # id => GroupOf(x)' = GroupOf(x)
      BY <2>1, <2>2, NewFacts
  <2>4. g.children = {} /\ id \notin Live
      BY <1>1, <2>1, <2>2 DEF NewGroup, SerialCreate
  <2> QED
      BY <1>2, <2>1, <2>3, <2>4 DEF Wiping
<1>7. CASE Register(h)
  <2>1. /\ hnd[h].pc = "process" /\ hnd[h].ev.kind = "create" /\ hnd'[h].pc \in {"creator", "link"}
        /\ NewAt(hnd[h].ev.group, [NewGroup(hnd[h].ev.group) EXCEPT !.parent = hnd[h].ev.parent])
        /\ groups'[hnd[h].ev.group] # 0
      BY <1>7, RegisterEffect
  <2>2. PICK id, g :
           /\ id \in GroupIds
           /\ id = hnd[h].ev.group /\ g = [NewGroup(id) EXCEPT !.parent = hnd[h].ev.parent]
      BY <2>1, EventFacts DEF Wiping
  <2>3. /\ Live' = Live \cup {id} /\ GroupOf(id)' = g
        /\ \A x \in Live : x # id => GroupOf(x)' = GroupOf(x)
      BY <2>1, <2>2, NewFacts
  <2>4. g.children = {} /\ GroupOf(id).parent = None
      BY <1>1, <2>1, <2>2 DEF NewGroup, SerialCreate
  <2>5. \A p \in Live : id \notin GroupOf(p).children
      BY <1>2, <1>4, <2>4 DEF Live
  <2> QED
      BY <1>2, <2>1, <2>3, <2>4, <2>5 DEF Wiping
<1>8. CASE Link(h)
  <2>1. PICK e, p : e = hnd[h].ev /\ p = e.parent
      OBVIOUS
  <2>2. hnd[h].pc = "link" /\ e.kind = "create" /\ hnd'[h].pc = "creator"
      BY <1>8, <2>1, LinkEffect
  <2>3. e.group \in Live /\ GroupOf(e.group).parent = p
      BY <1>1, <2>1, <2>2 DEF SerialCreate, SerialGroup, Making, Working
  <2>4. CASE p \in Live /\ e.group \notin GroupOf(p).children
    <3>1. PICK g : ChangedAt(p, g) /\ g = AddChild(GroupOf(p), e.group, e.at)
        BY <1>8, <2>1, <2>4, LinkEffect
    <3>2. g.parent = GroupOf(p).parent /\ g.children = GroupOf(p).children \cup {e.group}
        BY <2>4, <3>1, LiveRecord DEF AddChild, GroupRecords
    <3>3. /\ Live' = Live /\ GroupOf(p)' = g
          /\ \A x \in Live : x # p => GroupOf(x)' = GroupOf(x)
        BY <2>4, <3>1, ChangedFacts
    <3> QED
        BY <1>2, <2>2, <2>3, <3>2, <3>3 DEF Wiping
  <2>5. CASE ~(p \in Live /\ e.group \notin GroupOf(p).children)
    <3>1. UNCHANGED <<heap, groups>>
        BY <1>8, <2>1, <2>5, LinkEffect
    <3> QED
        BY <1>2, <2>2, <3>1, SameFacts DEF Wiping
  <2> QED
      BY <2>4, <2>5
<1>9. CASE ApplyCreate(h) \/ ApplyAction(h)
  <2>1. PICK m \in Messages : ChangedAt(hnd[h].ev.group, Apply(GroupOf(hnd[h].ev.group), m))
      BY <1>9, AppliedFacts
  <2>2. PICK id, g : id \in Live /\ id = hnd[h].ev.group /\ g = Apply(GroupOf(id), m)
      BY <1>9, AppliedFacts
  <2>3. /\ Live' = Live /\ GroupOf(id)' = g
        /\ \A x \in Live : x # id => GroupOf(x)' = GroupOf(x)
      BY <2>1, <2>2, ChangedFacts
  <2>4. g.parent = GroupOf(id).parent /\ g.children = GroupOf(id).children
      BY <2>2, LiveRecord, ApplyShape, ApplyChildren
  <2>5. \A p \in Live : GroupOf(p)'.children = GroupOf(p).children /\ GroupOf(p)'.parent = GroupOf(p).parent
      BY <2>3, <2>4
  <2>6. \/ Keeps(h, "tail")
        \/ Keeps(h, AfterApply(hnd[h].ev, GroupOf(id)))
      BY <1>9, <2>2, AppliedFacts
  <2>7. /\ hnd'[h].pc \notin Wiping /\ hnd'[h].ev = hnd[h].ev
        /\ hnd'[h].pc = "drop" => GroupOf(id).parent = None
      BY <2>6 DEF Keeps, AfterApply, Wiping
  <2> QED
      BY <1>2, <1>4, <2>2, <2>3, <2>5, <2>7 DEF Live
<1>10. CASE Unlink(h)
  <2>1. PICK e, p : e = hnd[h].ev /\ p = GroupOf(e.group).parent
      OBVIOUS
  <2>2. e.group \in Live /\ hnd[h].target = groups[e.group]
      BY <1>1, <1>10, <2>1 DEF Unlink, At, SerialGroup, Working
  <2>3. hnd'[h].pc = "drop" /\ hnd'[h].ev = e
      BY <1>10, <2>1, <2>2, UnlinkEffect
  <2>4. CASE p \in Live /\ e.group \in GroupOf(p).children
    <3>1. PICK g : ChangedAt(p, g) /\ g = RemoveChild(GroupOf(p), e.group, e.at)
        BY <1>10, <2>1, <2>2, <2>4, UnlinkEffect
    <3>2. g.parent = GroupOf(p).parent /\ g.children = GroupOf(p).children \ {e.group}
        BY <2>4, <3>1, LiveRecord DEF RemoveChild, GroupRecords
    <3>3. /\ Live' = Live /\ GroupOf(p)' = g
          /\ \A x \in Live : x # p => GroupOf(x)' = GroupOf(x)
        BY <2>4, <3>1, ChangedFacts
    <3> QED
        BY <1>2, <2>1, <2>2, <2>3, <3>2, <3>3 DEF Wiping
  <2>5. CASE ~(p \in Live /\ e.group \in GroupOf(p).children)
    <3>1. UNCHANGED <<heap, groups>>
        BY <1>10, <2>1, <2>2, <2>5, UnlinkEffect
    <3> QED
        BY <1>2, <2>1, <2>3, <2>5, <3>1, SameFacts DEF Wiping
  <2> QED
      BY <2>4, <2>5
<1>11. CASE Drop(h) \/ WipeMemory(h) \/ StoreFails(h)
  <2>1. CASE Drop(h)
    <3>1. /\ hnd[h].pc = "drop" /\ hnd[h].ev.group \in GroupIds /\ hnd'[h].pc = "sync"
          /\ ForgottenAt(hnd[h].ev.group)
        BY <2>1, DropEffect DEF Keeps
    <3> QED
        BY <1>2, <3>1, ForgottenFacts DEF Wiping
  <2>2. CASE WipeMemory(h)
      BY <1>2, <2>2 DEF WipeMemory, At, Wiping
  <2>3. CASE StoreFails(h)
    <3>1. hnd[h].pc = "store" /\ hnd'[h].pc = "idle" /\ hnd[h].ev.group \in GroupIds
      <4>1. hnd[h].pc = "store" /\ hnd'[h] = Idle
          BY <2>3, StoreFailsEffect
      <4> QED
          BY <4>1, EventFacts DEF Idle, Wiping
    <3>2. CASE hnd[h].ev.kind = "create"
      <4>1. ForgottenAt(hnd[h].ev.group)
          BY <2>3, <3>2, StoreFailsEffect
      <4>2. hnd[h].ev.group \in Live /\ GroupOf(hnd[h].ev.group).parent = None
          BY <1>1, <3>1, <3>2 DEF SerialCreate, NewGroup
      <4>3. \A p \in Live : hnd[h].ev.group \notin GroupOf(p).children
          BY <1>2, <1>4, <4>2 DEF Live
      <4> QED
          BY <1>2, <3>1, <4>1, <4>3, ForgottenFacts DEF Wiping
    <3>3. CASE hnd[h].ev.kind # "create"
      <4>1. UNCHANGED <<heap, groups>>
          BY <2>3, <3>3, StoreFailsEffect
      <4> QED
          BY <1>2, <3>1, <4>1, SameFacts DEF Wiping
    <3> QED
        BY <3>2, <3>3
  <2> QED
      BY <1>11, <2>1, <2>2, <2>3
<1> QED
    BY <1>5, <1>6, <1>7, <1>8, <1>9, <1>10, <1>11, StillOrNot

\* group.go:28: messages handled one at a time and no group wiped, through any
\* crashes, every listed child is a live group of that parent.
THEOREM ChildrenFollowParents ==
    ASSUME Sequential, Wipes = {} PROVE RecoverySpec => []ChildrenAreLive
<1> DEFINE Inv == boot.pc = "served" => KidsInv
<1>1. RecoveryInit => Inv
  <2> SUFFICES ASSUME Init PROVE KidsInv
      BY DEF RecoveryInit
  <2>1. ASSUME NEW p \in Live, NEW c \in GroupOf(p).children
        PROVE  c \in Live /\ GroupOf(c).parent = p
    <3>1. PICK e \in Founded : e.group = p
        BY FirstFacts
    <3>2. PICK f \in Founded : f.parent = p /\ f.group = c
        BY <3>1, FirstFacts, FoundedFields
    <3> QED
        BY <3>2, FirstFacts, FoundedFields
  <2> QED
      BY <2>1, FirstFacts DEF KidsInv, Idle, Wiping
<1>2. BootInv /\ SerialInv /\ Inv /\ [RecoveryNext]_allVars => Inv'
  <2> SUFFICES ASSUME BootInv, SerialInv, Inv, [RecoveryNext]_allVars, boot'.pc = "served"
               PROVE  KidsInv'
      OBVIOUS
  <2>1. CASE UNCHANGED allVars \/ (ServeStep /\ Tick)
    <3>1. UNCHANGED <<heap, groups, hnd, boot>>
        BY <2>1 DEF allVars, recoveryVars, vars, Tick, memVars, ServeStep
    <3> QED
        BY <3>1, SameFacts DEF KidsInv
  <2>2. CASE ServeStep /\ ~Tick
    <3>1. boot' = boot /\ \E h \in Handlers : Step(h) \/ Failure(h) \/ Arrival(h)
        BY <2>2 DEF ServeStep
    <3> QED
        BY <3>1, KidsStep DEF BootInv
  <2>3. ~Crash
      BY DEF Crash, Served
  <2>4. CASE Boot
    <3>1. boot \in BootRecords
        BY DEF BootInv, PhaseInv
    <3>2. ServeAgain
        BY <2>4, <3>1 DEF Boot, ScanCreate, Replay, Loaded, ScanDone, StartSync, LinkChild,
             Served, BootRecords
    <3>3. /\ boot.pc = "sync" /\ UNCHANGED <<heap, groups, hnd>>
          /\ \A h \in Handlers : hnd[h].pc = "idle"
        BY <3>2 DEF ServeAgain, Quiet, vars, memVars
    <3>4. Waiting = {}
        BY <3>3 DEF BootInv, PhaseInv, Waiting
    <3>5. \A p \in Live : \A c \in GroupOf(p).children : c \in Live /\ GroupOf(c).parent = p
        BY <3>3, <3>4 DEF BootInv, LinksInv
    <3> QED
        BY <3>3, <3>5, SameFacts DEF KidsInv, Wiping
  <2> QED
      BY <2>1, <2>2, <2>3, <2>4 DEF RecoveryNext
<1>3. BootInv /\ Inv => ChildrenAreLive
  <2> SUFFICES ASSUME BootInv, Inv, Quiet, NEW p \in Live, NEW c \in GroupOf(p).children
               PROVE  c \in Live /\ GroupOf(c).parent = p
      BY DEF ChildrenAreLive
  <2>1. CASE boot.pc = "served"
      BY <2>1 DEF KidsInv
  <2>2. CASE boot.pc # "served"
    <3>1. boot.pc = "sync"
        BY <2>2 DEF BootInv, PhaseInv, BootRecords, BootPlaces, Starting, Quiet
    <3>2. Waiting = {}
        BY <3>1 DEF BootInv, PhaseInv, Waiting
    <3> QED
        BY <3>1, <3>2 DEF BootInv, LinksInv
  <2> QED
      BY <2>1, <2>2
<1> QED
    BY <1>1, <1>2, <1>3, SerialRecovery, PTL DEF RecoverySpec

-----------------------------------------------------------------------------
(* A restart restores the groups                                            *)

\* What a restart has to bring back of a group: everything but the links, which
\* are made again, and the times of the rosters.
Core(g) ==
    [id |-> g.id, parent |-> g.parent, children |-> {}, members |-> g.members,
     roles |-> g.roles, flags |-> g.flags, invites |-> g.invites,
     lastMetadata |-> 0, lastAdmins |-> 0, lastMembers |-> 0]
After(g, e) == Core(Apply(g, e))

\* group.go: two groups with the same core differ in links and times alone.
LEMMA SameCore ==
    ASSUME NEW g \in GroupRecords, NEW f \in GroupRecords
    PROVE  /\ Core(g) \in GroupRecords
           /\ Core(g) = Core(f) => SameGroup(g, f)
           /\ (SameGroup(g, f) /\ g.id = f.id) => Core(g) = Core(f)
           /\ SameGroup(Core(g), g) /\ Core(g).id = g.id
<1>1. Core(g) \in GroupRecords /\ SameGroup(Core(g), g) /\ Core(g).id = g.id
    BY DEF Core, GroupRecords, SameGroup
<1>2. SameGroup(Core(f), f)
    BY DEF Core, SameGroup
<1>3. Core(g) = Core(f) => SameGroup(g, f)
    BY <1>1, <1>2 DEF SameGroup
<1>4. (SameGroup(g, f) /\ g.id = f.id) => Core(g) = Core(f)
    BY DEF Core, SameGroup
<1> QED
    BY <1>1, <1>3, <1>4

\* moderation_actions.go (nip29): what an action makes of the core depends on the
\* core alone.
LEMMA CoreApply ==
    ASSUME NEW g \in GroupRecords, NEW e \in Messages
    PROVE  After(Core(g), e) = After(g, e) /\ After(g, e) \in GroupRecords
<1>1. PICK f \in GroupRecords : f = Core(g) /\ SameGroup(f, g) /\ f.id = g.id
    BY SameCore
<1>2. Apply(f, e) \in GroupRecords /\ Apply(g, e) \in GroupRecords
      /\ Apply(f, e).id = Apply(g, e).id
    BY <1>1, ApplyShape
<1>3. SameGroup(Apply(f, e), Apply(g, e))
  <2>1. CASE e.kind = "put"
      BY <1>1, <2>1 DEF Apply, PutUser, SameGroup, GroupRecords
  <2>2. CASE e.kind = "remove"
      BY <1>1, <2>2 DEF Apply, RemoveUser, SameGroup, GroupRecords
  <2>3. CASE e.kind = "edit"
      BY <1>1, <2>3 DEF Apply, EditMetadata, SameGroup, GroupRecords
  <2>4. CASE e.kind = "create"
      BY <1>1, <2>4 DEF Apply, CreateGroup, SameGroup, GroupRecords
  <2>5. CASE e.kind = "deleteGroup"
      BY <1>1, <2>5 DEF Apply, DeleteGroup, SameGroup, GroupRecords
  <2>6. CASE e.kind = "invite"
      BY <1>1, <2>6 DEF Apply, CreateInvite, SameGroup, GroupRecords
  <2>7. CASE e.kind \notin {"put", "remove", "edit", "create", "deleteGroup", "invite"}
      BY <1>1, <2>7 DEF Apply
  <2> QED
      BY <2>1, <2>2, <2>3, <2>4, <2>5, <2>6, <2>7
<1> QED
    BY <1>1, <1>2, <1>3, SameCore DEF After

\* group.go addParentChild, moderation_actions.go CreateGroup: links and the creation
\* leave the core alone.
LEMMA CoreStays ==
    ASSUME NEW g \in GroupRecords, NEW e \in Messages, NEW c \in GroupIds, NEW t \in Nat
    PROVE  /\ e.kind = "create" => Core(Apply(g, e)) = Core(g)
           /\ Core(AddChild(g, c, t)) = Core(g) /\ Core(RemoveChild(g, c, t)) = Core(g)
<1>1. e.kind = "create" => Core(Apply(g, e)) = Core(g)
  <2> SUFFICES ASSUME e.kind = "create" PROVE Core(Apply(g, e)) = Core(g)
      OBVIOUS
  <2>1. SameGroup(Apply(g, e), g)
      BY DEF Apply, CreateGroup, SameGroup, GroupRecords
  <2> QED
      BY <2>1, SameCore, ApplyShape
<1>2. SameGroup(AddChild(g, c, t), g) /\ AddChild(g, c, t) \in GroupRecords
      /\ AddChild(g, c, t).id = g.id
    BY DEF AddChild, SameGroup, GroupRecords
<1>3. SameGroup(RemoveChild(g, c, t), g) /\ RemoveChild(g, c, t) \in GroupRecords
      /\ RemoveChild(g, c, t).id = g.id
    BY DEF RemoveChild, SameGroup, GroupRecords
<1> QED
    BY <1>1, <1>2, <1>3, SameCore

-----------------------------------------------------------------------------
(* What a log of events says, with no recursion: T gives the core after each *)
(* event of the log E, and b the core before all of them.                   *)

\* c is the core after the events of A, an initial part of the log.
Ends(c, T, A, b) ==
    IF A = {} THEN c = b ELSE \E f \in A : c = T[f] /\ \A e \in A : e.at <= f.at

Earlier(E, e) == {f \in E : f.at < e.at}

Chain(T, E, b) ==
    \A e \in E : \A c \in GroupRecords : Ends(c, T, Earlier(E, e), b) => T[e] = After(c, e)

Distinct(E) == \A e, f \in E : e.at = f.at => e = f

\* Some T explains every claim of P: each is a core and the events that led to it.
Told(E, b, P) ==
    \E T \in [E -> GroupRecords] :
       Chain(T, E, b) /\ \A p \in P : Ends(p.core, T, p.of, b)

Claim(c, A) == [core |-> c, of |-> A]

\* group.go:100-118: two that applied the same events are the same.
LEMMA ToldOnce ==
    ASSUME NEW E \in SUBSET Messages, Distinct(E), NEW b, NEW P, Told(E, b, P),
           NEW A \in SUBSET E, NEW c, NEW d, Claim(c, A) \in P, Claim(d, A) \in P
    PROVE  c = d
<1>1. PICK T \in [E -> GroupRecords] : \A p \in P : Ends(p.core, T, p.of, b)
    BY DEF Told
<1>2. Ends(c, T, A, b) /\ Ends(d, T, A, b)
  <2>1. PICK p \in P : p = Claim(c, A)
      OBVIOUS
  <2>2. PICK q \in P : q = Claim(d, A)
      OBVIOUS
  <2>3. p.core = c /\ p.of = A /\ q.core = d /\ q.of = A
      BY <2>1, <2>2 DEF Claim
  <2>4. Ends(p.core, T, p.of, b) /\ Ends(q.core, T, q.of, b)
      BY <1>1
  <2> QED
      BY <2>3, <2>4
<1>3. CASE A = {}
    BY <1>2, <1>3 DEF Ends
<1>4. CASE A # {}
  <2>1. PICK f \in A : c = T[f] /\ \A e \in A : e.at <= f.at
      BY <1>2, <1>4 DEF Ends
  <2>2. PICK g \in A : d = T[g] /\ \A e \in A : e.at <= g.at
      BY <1>2, <1>4 DEF Ends
  <2>3. f.at = g.at
      BY <2>1, <2>2 DEF Messages
  <2> QED
      BY <2>1, <2>2, <2>3 DEF Distinct
<1> QED
    BY <1>3, <1>4

\* Fewer claims need no other explanation.
LEMMA ToldLess ==
    ASSUME NEW E, NEW b, NEW P, Told(E, b, P), NEW Q \in SUBSET P
    PROVE  Told(E, b, Q)
BY DEF Told

\* process_event.go:75, group.go:116: the next event is applied.
LEMMA ToldNext ==
    ASSUME NEW E \in SUBSET Messages, NEW b, NEW P, Told(E, b, P),
           NEW c \in GroupRecords, NEW A, NEW e \in E, Claim(c, A) \in P,
           \A f \in E : f \in A <=> f.at < e.at, A \subseteq E
    PROVE  Told(E, b, P \cup {Claim(After(c, e), A \cup {e})})
<1>1. PICK T \in [E -> GroupRecords] : Chain(T, E, b) /\ \A p \in P : Ends(p.core, T, p.of, b)
    BY DEF Told
<1>2. A = Earlier(E, e)
    BY DEF Earlier
<1>3. Ends(c, T, A, b)
  <2>1. PICK p \in P : p = Claim(c, A)
      OBVIOUS
  <2>2. p.core = c /\ p.of = A
      BY <2>1 DEF Claim
  <2> QED
      BY <1>1, <2>2
<1>4. T[e] = After(c, e)
    BY <1>1, <1>2, <1>3 DEF Chain
<1>5. \A f \in A : f.at <= e.at
    BY DEF Messages
<1>6. Ends(After(c, e), T, A \cup {e}, b)
    BY <1>4, <1>5 DEF Ends, Messages
<1>7. ASSUME NEW p \in P \cup {Claim(After(c, e), A \cup {e})} PROVE Ends(p.core, T, p.of, b)
  <2>1. CASE p \in P
      BY <1>1, <2>1
  <2>2. CASE p = Claim(After(c, e), A \cup {e})
    <3>1. p.core = After(c, e) /\ p.of = A \cup {e}
        BY <2>2 DEF Claim
    <3> QED
        BY <1>6, <3>1
  <2> QED
      BY <2>1, <2>2
<1> QED
    BY <1>1, <1>7 DEF Told

\* relay.go:46-59: an event later than all of the log is stored.
LEMMA ToldMore ==
    ASSUME NEW E \in SUBSET Messages, Distinct(E), NEW b, NEW P, Told(E, b, P),
           NEW c \in GroupRecords, Claim(c, E) \in P, \A p \in P : p.of \subseteq E,
           NEW e \in Messages, \A f \in E : f.at < e.at
    PROVE  Told(E \cup {e}, b, P)
<1>1. PICK T \in [E -> GroupRecords] : Chain(T, E, b) /\ \A p \in P : Ends(p.core, T, p.of, b)
    BY DEF Told
<1>2. e \notin E
    BY DEF Messages
<1>3. PICK S : S = [f \in E \cup {e} |-> IF f = e THEN After(c, e) ELSE T[f]]
    OBVIOUS
<1>4. /\ S \in [E \cup {e} -> GroupRecords] /\ S[e] = After(c, e)
      /\ \A f \in E : S[f] = T[f]
    BY <1>2, <1>3, CoreApply
<1>5. ASSUME NEW A \in SUBSET E, NEW d PROVE Ends(d, S, A, b) <=> Ends(d, T, A, b)
    BY <1>4 DEF Ends
<1>6. Chain(S, E \cup {e}, b)
  <2> SUFFICES ASSUME NEW f \in E \cup {e}, NEW d \in GroupRecords,
                      Ends(d, S, Earlier(E \cup {e}, f), b)
               PROVE  S[f] = After(d, f)
      BY DEF Chain
  <2>1. CASE f = e
    <3>1. Earlier(E \cup {e}, e) = E
        BY DEF Earlier, Messages
    <3>2. Ends(d, T, E, b)
        BY <1>5, <2>1, <3>1
    <3>3. Told(E, b, {Claim(c, E), Claim(d, E)})
      <4>1. PICK p \in P : p = Claim(c, E)
          OBVIOUS
      <4>2. \A q \in {Claim(c, E), Claim(d, E)} : q.of = E /\ (q.core = c \/ q.core = d)
          BY DEF Claim
      <4>3. Ends(c, T, E, b)
          BY <1>1, <4>1 DEF Claim
      <4> QED
          BY <1>1, <3>2, <4>2, <4>3 DEF Told
    <3>4. c = d
        BY <3>3, ToldOnce
    <3> QED
        BY <1>4, <2>1, <3>4
  <2>2. CASE f \in E
    <3>1. Earlier(E \cup {e}, f) = Earlier(E, f) /\ Earlier(E, f) \in SUBSET E
        BY <2>2 DEF Earlier, Messages
    <3>2. Ends(d, T, Earlier(E, f), b)
        BY <1>5, <3>1
    <3> QED
        BY <1>1, <1>4, <2>2, <3>2 DEF Chain
  <2> QED
      BY <2>1, <2>2
<1>7. \A p \in P : Ends(p.core, S, p.of, b)
    BY <1>1, <1>5
<1> QED
    BY <1>4, <1>6, <1>7 DEF Told

\* process_event.go:24, group.go:92: a new group has an empty log.
LEMMA ToldFirst ==
    ASSUME NEW b \in GroupRecords, NEW P, \A p \in P : p = Claim(b, {})
    PROVE  Told({}, b, P)
<1>1. PICK T \in [{} -> GroupRecords] : TRUE
  <2>1. [x \in {} |-> b] \in [{} -> GroupRecords]
      OBVIOUS
  <2> QED
      BY <2>1
<1>2. Chain(T, {}, b)
    BY DEF Chain
<1>3. \A p \in P : Ends(p.core, T, p.of, b)
    BY DEF Ends, Claim
<1> QED
    BY <1>2, <1>3 DEF Told

-----------------------------------------------------------------------------
(* The log of a group, and what has been made of it                         *)

Log(id) == {e \in db : e.group = id /\ e.kind \in ModerationKinds \ {"create"}}
CreatesOf(id) == {e \in Creates : e.group = id}
Base(c) == Core([NewGroup(c.group) EXCEPT !.parent = c.parent])
Good(id) == id \notin muddled /\ ~IsDeleted(id)

\* The stored event a handler has yet to apply; a group on its way to be made.
Unapplied(s) ==
    IF s.pc \in {"process", "apply"} /\ s.ev.kind \notin Answered THEN {s.ev}
    ELSE IF s.pc \in {"inner", "apply"} /\ s.ev.kind \in Answered THEN {s.inner} ELSE {}
Unmade(s, id) == s.pc \in {"store", "process"} /\ s.ev.kind = "create" /\ s.ev.group = id
Placing(s, id) == s.pc \in {"place", "store"} /\ s.ev.kind = "create" /\ s.ev.group = id

Kept(id) == {e \in Log(id) : \A h \in Handlers : e \notin Unapplied(hnd[h])}

\* Memory has applied the log but for what is under way, a replay what it has
\* taken, and memory before the crash had applied all of it.
Claims(id) ==
    {p \in {Claim(Core(GroupOf(id)), Kept(id))} :
        id \in Live /\ \A h \in Handlers : ~Unmade(hnd[h], id)}
    \cup {p \in {Claim(Core(boot.g), Log(id) \ boot.todo)} : boot.pc = "replay" /\ boot.id = id}
    \cup {p \in {Claim(Core(before[id]), Log(id))} : boot.pc # "served" /\ before[id] # NoRoster}

HandlerTale(s, id) ==
    /\ Placing(s, id) => CreatesOf(id) = {}
    /\ (s.pc = "process" /\ Unmade(s, id)) => Log(id) = {}
    /\ \A e \in Unapplied(s) \cap Log(id) : \A f \in Log(id) \ {e} : f.at < e.at

Tale(id) ==
    /\ \A c, d \in CreatesOf(id) : c = d
    /\ Distinct(Log(id))
    /\ (boot.pc = "served" /\ CreatesOf(id) # {}) => id \in Live
    /\ id \in Live => CreatesOf(id) # {} \/ \E h \in Handlers : Unmade(hnd[h], id)
    /\ \A h \in Handlers : HandlerTale(hnd[h], id)
    /\ (boot.pc = "replay" /\ boot.id = id) =>
         \A e \in Log(id) \ boot.todo, f \in Log(id) \cap boot.todo : e.at < f.at
    /\ (boot.pc # "served" /\ before[id] # NoRoster) =>
         before[id] \in GroupRecords /\ CreatesOf(id) # {}
    /\ \A c \in CreatesOf(id) : Told(Log(id), Base(c), Claims(id))

\* What a handler has yet to apply is stored.
Held(s) == (s.pc = "process" => s.ev \in db) /\ Unapplied(s) \subseteq db

TaleInv == (\A h \in Handlers : Held(hnd[h])) /\ \A id \in GroupIds : Good(id) => Tale(id)

\* Where a handler may have something to apply or to make.
Busy == {"place", "store", "process", "inner", "apply"}

\* process_event.go, wipe.go: elsewhere a handler has neither.
LEMMA NotBusy ==
    ASSUME NEW s, s.pc \notin Busy, NEW id
    PROVE  Unapplied(s) = {} /\ ~Unmade(s, id) /\ ~Placing(s, id) /\ s.pc # "process"
BY DEF Unapplied, Unmade, Placing, Busy

\* relay.go:46-59: what the events stored by a step say of a group that is not muddled
\* by it.
LEMMA GoodBefore ==
    ASSUME StoreInv, StoreInv', NEW id, muddled' = muddled \cup Muddles, Good(id)'
    PROVE  /\ Good(id)
           /\ \A e \in db : e.group = id => e \in db'
           /\ \A e \in db' \ db : e.group = id =>
                IF e.kind = "create" THEN \A f \in granted : f.group # id
                ELSE \A f \in Log(id) : f.at < e.at
           /\ (id \in Live /\ id \notin Live') => \A e \in db' : e.group # id
<1>1. id \notin muddled /\ id \notin Muddles
    BY DEF Good
<1>2. \A e \in db : e.group = id => e \in db'
    BY <1>1 DEF Muddles
<1>3. ASSUME NEW e \in db' \ db, e.group = id, e.kind = "create" PROVE \A f \in granted : f.group # id
    BY <1>1, <1>3 DEF Muddles
<1>4. ASSUME NEW e \in db' \ db, e.group = id, e.kind # "create", NEW f \in Log(id)
      PROVE  f.at < e.at
  <2>1. e.at \in Nat /\ f.at \in Nat
      BY DEF StoreInv, Log, Messages
  <2>2. ~(f.at >= e.at)
      BY <1>1, <1>4 DEF Muddles, Log
  <2> QED
      BY <2>1, <2>2
<1>5. ~IsDeleted(id)
    BY <1>2 DEF Good, IsDeleted, Moderation
<1>6. (id \in Live /\ id \notin Live') => \A e \in db' : e.group # id
    BY <1>1 DEF Muddles
<1> QED
    BY <1>1, <1>2, <1>3, <1>4, <1>5, <1>6 DEF Good

\* A step that changes nothing of a group's log, creation and core, and leaves its
\* handler with as much to do.
LEMMA TaleFrame ==
    ASSUME Sequential, NEW h \in Handlers, NEW id, Tale(id), boot.pc = "served", boot' = boot,
           Log(id)' = Log(id), CreatesOf(id)' = CreatesOf(id),
           id \in Live' <=> id \in Live,
           id \in Live => Core(GroupOf(id))' = Core(GroupOf(id)),
           \A e \in Log(id) : e \in Unapplied(hnd'[h]) <=> e \in Unapplied(hnd[h]),
           Unmade(hnd'[h], id) <=> Unmade(hnd[h], id),
           Placing(hnd'[h], id) => Placing(hnd[h], id) \/ CreatesOf(id) = {},
           (hnd'[h].pc = "process" /\ Unmade(hnd'[h], id)) => hnd[h].pc = "process"
    PROVE  Tale(id)'
<1>1. Kept(id)' = Kept(id)
    BY DEF Kept, Sequential, Unapplied
<1>2. (\A k \in Handlers : ~Unmade(hnd[k], id)) <=> (\A k \in Handlers : ~Unmade(hnd'[k], id))
    BY DEF Sequential
<1>3. Claims(id)' \subseteq Claims(id)
    BY <1>1, <1>2 DEF Claims, Unmade
<1>4. \A c \in CreatesOf(id)' : Told(Log(id)', Base(c), Claims(id)')
    BY <1>3, ToldLess DEF Tale
<1>5. HandlerTale(hnd[h], id)'
    BY DEF Tale, HandlerTale, Unapplied, Unmade, Placing
<1>6. \A k \in Handlers : HandlerTale(hnd[k], id)'
    BY <1>5 DEF Sequential
<1>7. id \in Live' => CreatesOf(id)' # {} \/ \E k \in Handlers : Unmade(hnd'[k], id)
    BY <1>2 DEF Tale
<1> QED
    BY <1>4, <1>6, <1>7 DEF Tale, Distinct

\* What leaves the handler with nothing to apply and nothing to make, as it was.
Freely(h) ==
    \/ Link(h) \/ Unlink(h) \/ ApplyCreate(h) \/ Drop(h) \/ WipeMemory(h) \/ EndMove(h)
    \/ LookAgain(h) \/ Publishes(h) \/ \E id \in Wipes : Wipe(h, id)

\* process_event.go, wipe.go: such a step is neither before nor after an action.
LEMMA FreeMoves ==
    ASSUME GroupInv, SerialInv, NEW h \in Handlers, Freely(h)
    PROVE  hnd[h].pc \notin Busy /\ hnd'[h].pc \notin Busy
<1>1. CASE Link(h)
    BY <1>1, LinkEffect DEF Busy
<1>2. CASE Unlink(h)
  <2>1. hnd[h].pc = "unlink"
      BY <1>2 DEF Unlink, At
  <2>2. hnd[h].ev.group \in Live /\ hnd[h].target = groups[hnd[h].ev.group]
      BY <2>1, SerialOf DEF SerialGroup, Working
  <2> QED
      BY <1>2, <2>1, <2>2, UnlinkEffect DEF Busy
<1>3. CASE ApplyCreate(h)
    BY <1>3, AppliedFacts DEF Keeps, Busy
<1>4. CASE Drop(h)
    BY <1>4, DropEffect DEF Keeps, Busy
<1>5. CASE WipeMemory(h)
    BY <1>5, WipeMemoryEffect DEF Idle, Busy
<1>6. CASE EndMove(h)
  <2>1. /\ hnd[h].pc \in {"creator", "reply", "erase", "cache", "retract"} \cup Wiping
        /\ hnd'[h].pc \in {"sync", "erase", "cache", "tail", "retract", "idle"} \cup Wiping
      BY <1>6, EndMoveEffect DEF Keeps, Idle
  <2> QED
      BY <2>1 DEF Busy, Wiping
<1>7. CASE LookAgain(h)
    BY <1>7, LookAgainEffect DEF Busy
<1>8. CASE Publishes(h)
  <2>1. hnd'[h].pc \in {"sync", "read", "write"} \/ hnd'[h] = Idle \/ Keeps(h, "retract")
      BY <1>8, PublishEffect
  <2>2. hnd'[h].pc \in {"sync", "read", "write", "idle", "retract"}
      BY <2>1 DEF Idle, Keeps
  <2> QED
      BY <1>8, <2>2, PublishEffect DEF Busy
<1>10. CASE \E id \in Wipes : Wipe(h, id)
    BY <1>10, WipeEffect DEF Busy
<1> QED
    BY <1>1, <1>2, <1>3, <1>4, <1>5, <1>6, <1>7, <1>8, <1>10 DEF Freely

\* khatru, relay.go, process_event.go: the steps there are, sorted by what they change.
LEMMA StepSorts ==
    ASSUME NEW h \in Handlers, Step(h) \/ Failure(h) \/ Arrival(h)
    PROVE  \/ Freely(h) \/ Placeholder(h) \/ StoreEvent(h) \/ StoreDuplicate(h) \/ StoreFails(h)
           \/ Register(h) \/ SaveInner(h) \/ Load(h) \/ ApplyAction(h) \/ React(h) \/ Panic(h)
           \/ \E m \in Submissions, t \in Epoch..MaxTime : Receive(h, [m EXCEPT !.at = t])
BY DEF Step, Failure, Arrival, Freely, EndMove, Publishes

\* relay.go:46-59, process_event.go: what a handler is about to apply has been stored.
LEMMA HeldStep ==
    ASSUME GroupInv, SerialInv, NEW h \in Handlers, Held(hnd[h]),
           Step(h) \/ Failure(h) \/ Arrival(h)
    PROVE  Held(hnd[h])'
<1>1. ASSUME hnd'[h].pc \notin {"process", "inner", "apply"} PROVE Held(hnd[h])'
    BY <1>1 DEF Held, Unapplied
<1>2. CASE Freely(h)
    BY <1>1, <1>2, FreeMoves DEF Busy
<1>3. CASE Placeholder(h)
    BY <1>1, <1>3, PlaceholderEffect DEF Keeps
<1>4. CASE StoreEvent(h)
    BY <1>4, StoreEventEffect DEF Keeps, Held, Unapplied
<1>5. CASE StoreDuplicate(h)
  <2>1. hnd'[h] = Idle \/ Keeps(h, "retract")
      BY <1>5, HandledEffect DEF StoreDuplicate
  <2>2. hnd'[h].pc \in {"idle", "retract"}
      BY <2>1 DEF Idle, Keeps
  <2> QED
      BY <1>1, <2>2
<1>6. CASE StoreFails(h)
    BY <1>1, <1>6, StoreFailsEffect DEF Idle
<1>7. CASE Register(h)
    BY <1>1, <1>7, RegisterEffect
<1>8. CASE SaveInner(h)
    BY <1>8, SaveInnerEffect DEF Held, Unapplied
<1>9. CASE Load(h)
    BY <1>9, LoadEffect DEF Held, Unapplied, SameEvents, Answered, ModerationKinds
<1>10. CASE ApplyAction(h)
  <2>1. hnd'[h].pc \in {"created", "sync", "erase", "drop", "unlink", "tail"}
      BY <1>10, AppliedFacts DEF Keeps, AfterApply
  <2> QED
      BY <1>1, <2>1
<1>11. CASE React(h)
  <2>1. hnd'[h].pc \in {"reply", "sync"} \/ hnd'[h] = Idle \/ Keeps(h, "retract")
      BY <1>11, ReactEffect
  <2> QED
      BY <1>1, <2>1 DEF Idle, Keeps
<1>12. CASE Panic(h)
    BY <1>12 DEF Panic, storeVars, Held, Unapplied
<1>13. ASSUME NEW m \in Submissions, NEW t \in Epoch..MaxTime, Receive(h, [m EXCEPT !.at = t])
       PROVE  Held(hnd[h])'
    BY <1>1, <1>13, ReceiveEffect
<1> QED
    BY <1>2, <1>3, <1>4, <1>5, <1>6, <1>7, <1>8, <1>9, <1>10, <1>11, <1>12, <1>13, StepSorts

\* The log and the creation of a group stay when no event of it comes or goes.
LEMMA SameLog ==
    ASSUME NEW id, \A e : e.group = id => (e \in db' <=> e \in db)
    PROVE  Log(id)' = Log(id) /\ CreatesOf(id)' = CreatesOf(id)
BY DEF Log, CreatesOf, Creates

\* A step that neither stores an event of the group nor changes its object.
LEMMA TaleStays ==
    ASSUME Sequential, GroupInv, SerialInv, NEW h \in Handlers, NEW id \in GroupIds, Tale(id),
           boot.pc = "served", boot' = boot, \A e : e.group = id => (e \in db' <=> e \in db),
           \/ Freely(h) \/ StoreDuplicate(h) \/ Load(h) \/ React(h) \/ Panic(h)
           \/ \E m \in Submissions, t \in Epoch..MaxTime : Receive(h, [m EXCEPT !.at = t]),
           id \in Live' <=> id \in Live,
           id \in Live => Core(GroupOf(id))' = Core(GroupOf(id))
    PROVE  Tale(id)'
<1>1. Log(id)' = Log(id) /\ CreatesOf(id)' = CreatesOf(id)
    BY SameLog
<1>2. SUFFICES /\ \A e \in Log(id) : e \in Unapplied(hnd'[h]) <=> e \in Unapplied(hnd[h])
               /\ Unmade(hnd'[h], id) <=> Unmade(hnd[h], id)
               /\ Placing(hnd'[h], id) => Placing(hnd[h], id) \/ CreatesOf(id) = {}
               /\ (hnd'[h].pc = "process" /\ Unmade(hnd'[h], id)) => hnd[h].pc = "process"
    BY <1>1, TaleFrame
<1>3. CASE Freely(h)
    BY <1>3, FreeMoves, NotBusy
<1>4. CASE StoreDuplicate(h)
  <2>0. hnd'[h] = Idle \/ Keeps(h, "retract")
      BY <1>4, HandledEffect DEF StoreDuplicate
  <2>1. hnd[h].pc = "store" /\ hnd[h].ev \in db /\ hnd'[h].pc \in {"idle", "retract"}
      BY <1>4, <2>0 DEF StoreDuplicate, At, Idle, Keeps
  <2>2. ~Placing(hnd[h], id)
      BY <2>1 DEF Tale, HandlerTale, CreatesOf, Creates, Placing
  <2>3. ~Unmade(hnd[h], id)
      BY <2>1, <2>2 DEF Unmade, Placing
  <2> QED
      BY <2>1, <2>3 DEF Unapplied, Unmade, Placing
<1>5. CASE Load(h)
    BY <1>5, LoadEffect DEF Unapplied, Unmade, Placing, Answered, ModerationKinds
<1>6. CASE React(h)
  <2>1. hnd'[h].pc \in {"reply", "sync"} \/ hnd'[h] = Idle \/ Keeps(h, "retract")
      BY <1>6, ReactEffect
  <2>2. hnd'[h].pc \notin Busy
      BY <2>1 DEF Idle, Busy, Keeps
  <2>3. hnd[h].pc = "process" /\ hnd[h].ev.kind \in {"join", "leave", "note", "retract"}
      BY <1>6, ReactEffect
  <2>4. \A e \in Log(id) : e \notin Unapplied(hnd[h])
      BY <2>3 DEF Unapplied, Log, ModerationKinds, Answered
  <2> QED
      BY <2>2, <2>3, <2>4, NotBusy DEF Unmade, Placing
<1>7. CASE Panic(h)
    BY <1>7 DEF Panic
<1>8. ASSUME NEW m \in Submissions, NEW t \in Epoch..MaxTime, Receive(h, [m EXCEPT !.at = t])
      PROVE  /\ \A e \in Log(id) : e \in Unapplied(hnd'[h]) <=> e \in Unapplied(hnd[h])
             /\ Unmade(hnd'[h], id) <=> Unmade(hnd[h], id)
             /\ Placing(hnd'[h], id) => CreatesOf(id) = {}
             /\ hnd'[h].pc # "process"
  <2>1. /\ hnd[h].pc = "idle" /\ Accepts(hnd'[h].ev)
        /\ hnd'[h].ev.kind \in Answered => hnd'[h].ev.author \in Users
        /\ hnd'[h].pc = IF hnd'[h].ev.kind = "create" THEN "place" ELSE "store"
      BY <1>8, ReceiveEffect
  <2>2. ASSUME Placing(hnd'[h], id) PROVE id \notin Live
      BY <2>1, <2>2, Nip29Assumption DEF Placing, Accepts, AcceptsCreate, Answered
  <2>3. Placing(hnd'[h], id) => CreatesOf(id) = {}
      BY <2>2 DEF Tale
  <2> QED
      BY <2>1, <2>3 DEF Unapplied, Unmade
<1> QED
    BY <1>3, <1>4, <1>5, <1>6, <1>7, <1>8

\* process_event.go:34-36, 70-73, 107-117: links and the creation change no core.
LEMMA CoreLinks ==
    ASSUME GroupInv, SerialInv, NEW h \in Handlers, Link(h) \/ Unlink(h) \/ ApplyCreate(h)
    PROVE  /\ Live' = Live /\ SameEvents
           /\ \A x \in Live : Core(GroupOf(x))' = Core(GroupOf(x))
<1>1. CASE ApplyCreate(h)
  <2>1. PICK m \in Messages :
           ChangedAt(hnd[h].ev.group, Apply(GroupOf(hnd[h].ev.group), m)) /\ m.kind = "create"
      BY <1>1, AppliedFacts
  <2>2. PICK x, g : x \in Live /\ x = hnd[h].ev.group /\ g = Apply(GroupOf(x), m)
      BY <1>1, AppliedFacts
  <2>3. Live' = Live /\ GroupOf(x)' = g /\ \A y \in Live : y # x => GroupOf(y)' = GroupOf(y)
      BY <2>1, <2>2, ChangedFacts
  <2>4. x \in GroupIds /\ 0 \in Nat
      BY <2>2 DEF Live
  <2>5. Core(g) = Core(GroupOf(x))
      BY <2>1, <2>2, <2>4, LiveRecord, CoreStays
  <2> QED
      BY <1>1, <2>3, <2>5, AppliedFacts DEF Core
<1>2. CASE (Link(h) \/ Unlink(h)) /\ UNCHANGED <<heap, groups>>
  <2>1. SameEvents
      BY <1>2 DEF Link, Unlink, storeVars, SameEvents
  <2> QED
      BY <1>2, <2>1, SameFacts DEF Core
<1>3. CASE (Link(h) \/ Unlink(h)) /\ ~UNCHANGED <<heap, groups>>
  <2>1. /\ hnd[h].ev \in Messages /\ hnd[h].ev.group \in GroupIds /\ hnd[h].ev.at \in Nat
      BY <1>3, EventFacts DEF Link, Unlink, At, Wiping
  <2>2. PICK p, g : /\ p \in Live /\ ChangedAt(p, g)
                    /\ \/ g = AddChild(GroupOf(p), hnd[h].ev.group, hnd[h].ev.at)
                       \/ g = RemoveChild(GroupOf(p), hnd[h].ev.group, hnd[h].ev.at)
    <3>1. CASE Link(h)
        BY <1>3, <3>1, LinkEffect
    <3>2. CASE Unlink(h)
      <4>1. hnd[h].pc = "unlink"
          BY <3>2 DEF Unlink, At
      <4>2. hnd[h].ev.group \in Live /\ hnd[h].target = groups[hnd[h].ev.group]
          BY <4>1, SerialOf DEF SerialGroup, Working
      <4> QED
          BY <1>3, <3>2, <4>2, UnlinkEffect
    <3> QED
        BY <1>3, <3>1, <3>2
  <2>3. Live' = Live /\ GroupOf(p)' = g /\ \A y \in Live : y # p => GroupOf(y)' = GroupOf(y)
      BY <2>2, ChangedFacts
  <2>4. Core(g) = Core(GroupOf(p))
      BY <2>1, <2>2, LiveRecord, CoreStays
  <2>5. SameEvents
      BY <1>3 DEF Link, Unlink, storeVars, SameEvents
  <2> QED
      BY <2>3, <2>4, <2>5 DEF Core
<1> QED
    BY <1>1, <1>2, <1>3

\* reject_event.go:86-91, relay.go:46-59, process_event.go:28-37, 118-121, wipe.go:55: an
\* id gets an object, or loses it.
LEMMA TaleMade ==
    ASSUME Sequential, GroupInv, SerialInv, NEW h \in Handlers, Held(hnd[h]),
           NEW id \in GroupIds, Tale(id), Good(id), boot.pc = "served", boot' = boot,
           (id \in Live /\ id \notin Live') => \A e \in db' : e.group # id,
           Placeholder(h) \/ StoreFails(h) \/ Register(h) \/ Drop(h) \/ WipeMemory(h)
    PROVE  Tale(id)'
<1>1. SerialGroup(hnd[h]) /\ HandlerTale(hnd[h], id)
    BY SerialOf DEF Tale
<1>2. SameEvents
    BY PlaceholderEffect, StoreFailsEffect, RegisterEffect, DropEffect, WipeMemoryEffect
<1>3. Log(id)' = Log(id) /\ CreatesOf(id)' = CreatesOf(id)
    BY <1>2, SameLog DEF SameEvents
<1>4. CASE Placeholder(h)
  <2>1. PICK x, g : /\ x \in GroupIds /\ x = hnd[h].ev.group /\ NewAt(x, g) /\ groups'[x] # 0
                    /\ hnd[h].pc = "place" /\ hnd[h].ev.kind = "create" /\ hnd'[h].ev = hnd[h].ev
                    /\ hnd'[h].pc = "store"
      BY <1>4, PlaceholderEffect, EventFacts DEF Keeps, Wiping
  <2>2. Live' = Live \cup {x} /\ \A y \in Live : y # x => GroupOf(y)' = GroupOf(y)
      BY <2>1, NewFacts
  <2>3. CASE id # x
    <3>1. id \in Live => Core(GroupOf(id))' = Core(GroupOf(id))
        BY <2>2, <2>3 DEF Core
    <3>2. Unapplied(hnd[h]) = {} /\ Unapplied(hnd'[h]) = {} /\ ~Unmade(hnd[h], id)
          /\ ~Unmade(hnd'[h], id) /\ ~Placing(hnd'[h], id)
        BY <2>1, <2>3 DEF Unapplied, Unmade, Placing
    <3> QED
        BY <1>3, <2>2, <2>3, <3>1, <3>2, TaleFrame
  <2>4. CASE id = x
    <3>1. CreatesOf(id) = {}
        BY <1>1, <2>1, <2>4 DEF HandlerTale, Placing
    <3>2. Unmade(hnd'[h], id)
        BY <2>1, <2>4 DEF Unmade
    <3>3. HandlerTale(hnd[h], id)'
        BY <1>3, <2>1, <3>1 DEF HandlerTale, Unapplied
    <3> QED
        BY <1>3, <3>1, <3>2, <3>3 DEF Tale, Sequential, Distinct, Unmade
  <2> QED
      BY <2>3, <2>4
<1>5. CASE StoreFails(h)
  <2>1. hnd[h].pc = "store" /\ hnd'[h].pc = "idle" /\ hnd[h].ev.group \in GroupIds
      BY <1>5, StoreFailsEffect, EventFacts DEF Wiping, Idle
  <2>2. CASE Placing(hnd[h], id)
    <3>1. CreatesOf(id) = {}
        BY <1>1, <2>2 DEF HandlerTale
    <3>2. ForgottenAt(id)
        BY <1>5, <2>2, StoreFailsEffect DEF Placing
    <3>3. id \notin Live'
        BY <3>2 DEF ForgottenAt, Live
    <3>4. HandlerTale(hnd[h], id)'
        BY <2>1 DEF HandlerTale, Unapplied, Unmade, Placing
    <3> QED
        BY <1>3, <3>1, <3>3, <3>4 DEF Tale, Sequential, Distinct
  <2>3. CASE ~Placing(hnd[h], id)
    <3>1. /\ id \in Live' <=> id \in Live
          /\ id \in Live => GroupOf(id)' = GroupOf(id)
      <4>1. CASE hnd[h].ev.kind = "create"
        <5>1. PICK x \in GroupIds : x = hnd[h].ev.group
            BY <2>1
        <5>2. ForgottenAt(x) /\ x # id
            BY <1>5, <2>1, <2>3, <4>1, <5>1, StoreFailsEffect DEF Placing
        <5> QED
            BY <5>2, ForgottenFacts
      <4>2. CASE hnd[h].ev.kind # "create"
          BY <1>5, <4>2, StoreFailsEffect, SameFacts
      <4> QED
          BY <4>1, <4>2
    <3>2. id \in Live => Core(GroupOf(id))' = Core(GroupOf(id))
        BY <3>1 DEF Core
    <3>3. Unapplied(hnd[h]) = {} /\ Unapplied(hnd'[h]) = {} /\ ~Unmade(hnd[h], id)
          /\ ~Unmade(hnd'[h], id) /\ ~Placing(hnd'[h], id)
        BY <2>1, <2>3 DEF Unapplied, Unmade, Placing
    <3> QED
        BY <1>3, <3>1, <3>2, <3>3, TaleFrame
  <2> QED
      BY <2>2, <2>3
<1>6. CASE Register(h)
  <2>1. PICK x, g : /\ x \in GroupIds /\ x = hnd[h].ev.group /\ NewAt(x, g) /\ groups'[x] # 0
                    /\ g = [NewGroup(hnd[h].ev.group) EXCEPT !.parent = hnd[h].ev.parent]
                    /\ hnd[h].pc = "process" /\ hnd[h].ev.kind = "create"
                    /\ hnd'[h].pc \in {"creator", "link"}
      BY <1>6, RegisterEffect, EventFacts DEF Wiping
  <2>2. Live' = Live \cup {x} /\ GroupOf(x)' = g /\ \A y \in Live : y # x => GroupOf(y)' = GroupOf(y)
      BY <2>1, NewFacts
  <2>3. /\ Unapplied(hnd[h]) = {} /\ Unapplied(hnd'[h]) = {}
        /\ ~Unmade(hnd'[h], id) /\ ~Placing(hnd'[h], id)
      BY <2>1 DEF Unapplied, Unmade, Placing, Answered
  <2>4. CASE id # x
    <3>1. id \in Live => Core(GroupOf(id))' = Core(GroupOf(id))
        BY <2>2, <2>4 DEF Core
    <3>2. ~Unmade(hnd[h], id)
        BY <2>1, <2>4 DEF Unmade
    <3> QED
        BY <1>3, <2>2, <2>3, <2>4, <3>1, <3>2, TaleFrame
  <2>5. CASE id = x
    <3>1. hnd[h].ev \in CreatesOf(id) /\ hnd[h].ev \in Messages
        BY <2>1, <2>5, EventFacts DEF Held, CreatesOf, Creates, Wiping
    <3>2. Log(id) = {}
        BY <1>1, <2>1, <2>5 DEF HandlerTale, Unmade
    <3>3. Base(hnd[h].ev) = Core(g) /\ Core(g) \in GroupRecords
        BY <2>1, <3>1, NewShape, SameCore DEF Base, Messages
    <3>4. Kept(id)' = {}
        BY <1>3, <3>2 DEF Kept
    <3>5. Core(GroupOf(id))' = Core(g)
        BY <2>2, <2>5 DEF Core
    <3>6. \A p \in Claims(id)' : p = Claim(Core(g), {})
        BY <3>4, <3>5 DEF Claims
    <3>7. Told({}, Core(g), Claims(id)')
        BY <3>3, <3>6, ToldFirst
    <3>8. \A c \in CreatesOf(id)' : Told(Log(id)', Base(c), Claims(id)')
        BY <1>3, <3>1, <3>2, <3>3, <3>7 DEF Tale
    <3>9. HandlerTale(hnd[h], id)'
        BY <1>3, <2>3, <3>2 DEF HandlerTale, Unmade, Placing
    <3>10. id \in Live'
        BY <2>2, <2>5
    <3> QED
        BY <1>3, <3>1, <3>8, <3>9, <3>10 DEF Tale, Sequential, Distinct
  <2> QED
      BY <2>4, <2>5
<1>7. CASE Drop(h)
  <2>1. PICK x \in GroupIds : x = hnd[h].ev.group /\ ForgottenAt(x) /\ hnd[h].pc = "drop"
      BY <1>7, DropEffect
  <2>2. IsDeleted(x)
      BY <1>1, <2>1 DEF SerialGroup, IsDeleted, Moderation, ModerationKinds
  <2>3. x # id
      BY <2>2 DEF Good
  <2>4. /\ id \in Live' <=> id \in Live
        /\ id \in Live => Core(GroupOf(id))' = Core(GroupOf(id))
      BY <2>1, <2>3, ForgottenFacts DEF Core
  <2> QED
      BY <1>2, <1>7, <2>4, TaleStays DEF Freely, SameEvents
<1>8. CASE WipeMemory(h)
  <2>1. PICK x \in GroupIds : x = heap[hnd[h].obj].id /\ ForgottenAt(x) /\ hnd[h].pc = "wipeRosters"
      BY <1>8, WipeMemoryEffect
  <2>3. CASE id # x
    <3>1. /\ id \in Live' <=> id \in Live
          /\ id \in Live => Core(GroupOf(id))' = Core(GroupOf(id))
        BY <2>1, <2>3, ForgottenFacts DEF Core
    <3> QED
        BY <1>2, <1>8, <3>1, TaleStays DEF Freely, SameEvents
  <2>4. CASE id = x
    <3>1. id \notin Live'
        BY <2>1, <2>4 DEF ForgottenAt, Live
    <3>5. CreatesOf(id)' = {}
        BY <3>1, <1>3 DEF CreatesOf, Creates, Tale
    <3>2. HandlerTale(hnd[h], id)'
        BY <1>8, FreeMoves, NotBusy DEF HandlerTale, Freely, Unapplied, Unmade, Placing, Busy
    <3> QED
        BY <1>3, <3>1, <3>2, <3>5 DEF Tale, Sequential, Distinct
  <2> QED
      BY <2>3, <2>4
<1> QED
    BY <1>4, <1>5, <1>6, <1>7, <1>8

\* process_event.go:24-90: an event is stored at the end of its group's log, and has yet
\* to be applied.
LEMMA LogGrows ==
    ASSUME Sequential, GroupInv, StoreInv, NEW h \in Handlers, NEW id \in GroupIds, Tale(id),
           boot.pc = "served", boot' = boot, UNCHANGED <<heap, groups>>,
           NEW m \in Messages, db' = db \cup {m}, m.group = id,
           m.kind \in ModerationKinds \ {"create"}, \A f \in Log(id) : f.at < m.at,
           Unapplied(hnd[h]) = {}, ~Unmade(hnd[h], id), Unapplied(hnd'[h]) = {m},
           ~Unmade(hnd'[h], id), ~Placing(hnd'[h], id)
    PROVE  Tale(id)'
<1>1. Log(id)' = Log(id) \cup {m} /\ CreatesOf(id)' = CreatesOf(id) /\ m \notin Log(id)
  <2>1. m \notin Log(id)
      BY DEF Messages
  <2> QED
      BY <2>1 DEF Log, CreatesOf, Creates
<1>2. Kept(id) = Log(id) /\ Kept(id)' = Log(id)
    BY <1>1 DEF Kept, Sequential, Unapplied
<1>3. Live' = Live /\ GroupOf(id)' = GroupOf(id) /\ Core(GroupOf(id))' = Core(GroupOf(id))
    BY SameFacts DEF Core
<1>4. \A k \in Handlers : ~Unmade(hnd[k], id)
    BY DEF Sequential
<1>5. Claims(id)' \subseteq Claims(id) /\ \A p \in Claims(id) : p.of \subseteq Log(id)
    BY <1>2, <1>3, <1>4 DEF Claims, Claim
<1>6. Log(id) \in SUBSET Messages /\ Distinct(Log(id))
    BY DEF Log, StoreInv, Tale
<1>7. ASSUME NEW c \in CreatesOf(id) PROVE Told(Log(id)', Base(c), Claims(id)')
  <2>1. id \in Live
      BY DEF Tale
  <2>2. Core(GroupOf(id)) \in GroupRecords
      BY <2>1, LiveRecord, SameCore
  <2>3. Claim(Core(GroupOf(id)), Log(id)) \in Claims(id)
      BY <1>2, <1>4, <2>1 DEF Claims
  <2>4. Told(Log(id), Base(c), Claims(id))
      BY DEF Tale
  <2>5. Told(Log(id) \cup {m}, Base(c), Claims(id))
      BY <1>5, <1>6, <2>2, <2>3, <2>4, ToldMore
  <2> QED
      BY <1>1, <1>5, <2>5, ToldLess
<1>8. HandlerTale(hnd[h], id)'
    BY <1>1 DEF HandlerTale, Unapplied, Unmade, Placing
<1>9. Distinct(Log(id)')
    BY <1>1, <1>6 DEF Distinct, Messages
<1>10. id \in Live' => CreatesOf(id)' # {}
    BY <1>1, <1>3, <1>4 DEF Tale
<1> QED
    BY <1>1, <1>3, <1>7, <1>8, <1>9, <1>10 DEF Tale, Sequential, Distinct

\* relay.go:46-59, process_event.go:51, 152, 182: an event is stored.
LEMMA TaleStored ==
    ASSUME Sequential, GroupInv, StoreInv, SerialInv, NEW h \in Handlers, NEW id \in GroupIds,
           Tale(id), boot.pc = "served", boot' = boot, StoreEvent(h) \/ SaveInner(h),
           \A e \in db' \ db : e.group = id =>
              IF e.kind = "create" THEN \A f \in granted : f.group # id
              ELSE \A f \in Log(id) : f.at < e.at
    PROVE  Tale(id)'
<1>1. PICK m \in Messages :
         /\ db' = db \cup {m} /\ m \notin db /\ UNCHANGED <<heap, groups>>
         /\ hnd'[h].ev = hnd[h].ev /\ m.group = hnd[h].ev.group
         /\ \/ /\ hnd[h].pc = "store" /\ hnd'[h].pc = "process" /\ m = hnd[h].ev
            \/ /\ hnd[h].pc \in {"creator", "reply"} /\ hnd'[h].pc = "inner" /\ m = hnd'[h].inner
               /\ hnd[h].ev.kind \in Answered /\ m.kind \in {"put", "remove"}
  <2>1. CASE StoreEvent(h)
      BY <2>1, StoreEventEffect, EventFacts DEF Keeps, Wiping
  <2>2. CASE SaveInner(h)
    <3>1. PICK m \in Messages :
             /\ m = InnerEvent(h) /\ m.group = hnd[h].ev.group
             /\ hnd[h].pc \in {"creator", "reply"} /\ hnd[h].ev.kind \in Answered /\ m \notin db
             /\ db' = db \cup {m} /\ hnd'[h].pc = "inner" /\ hnd'[h].inner = m
             /\ hnd'[h].ev = hnd[h].ev /\ UNCHANGED <<heap, groups>>
        BY <2>2, SaveInnerEffect
    <3>2. m.kind \in {"put", "remove"}
        BY <3>1 DEF InnerEvent, AddCreator, AddUser, SelfRemoval, Event, Answered
    <3> QED
        BY <3>1, <3>2
  <2> QED
      BY <2>1, <2>2
<1>2. id \in Live' <=> id \in Live
    BY <1>1, SameFacts
<1>3. Core(GroupOf(id))' = Core(GroupOf(id))
    BY <1>1, SameFacts DEF Core
<1>4. CASE id # m.group
  <2>1. Log(id)' = Log(id) /\ CreatesOf(id)' = CreatesOf(id)
      BY <1>1, <1>4, SameLog
  <2>2. /\ \A e \in Log(id) : e \notin Unapplied(hnd'[h]) /\ e \notin Unapplied(hnd[h])
        /\ ~Unmade(hnd[h], id) /\ ~Unmade(hnd'[h], id) /\ ~Placing(hnd'[h], id)
      BY <1>1, <1>4 DEF Log, Unapplied, Unmade, Placing
  <2> QED
      BY <1>2, <1>3, <2>1, <2>2, TaleFrame
<1>5. CASE id = m.group /\ m.kind \notin ModerationKinds
  <2>1. Log(id)' = Log(id) /\ CreatesOf(id)' = CreatesOf(id)
      BY <1>1, <1>5 DEF Log, CreatesOf, Creates, ModerationKinds
  <2>2. /\ \A e \in Log(id) : e \notin Unapplied(hnd'[h]) /\ e \notin Unapplied(hnd[h])
        /\ ~Unmade(hnd[h], id) /\ ~Unmade(hnd'[h], id) /\ ~Placing(hnd'[h], id)
      BY <1>1, <1>5 DEF Log, Unapplied, Unmade, Placing, ModerationKinds, Answered
  <2> QED
      BY <1>2, <1>3, <2>1, <2>2, TaleFrame
<1>6. CASE id = m.group /\ m.kind = "create"
  <2>1. hnd[h].pc = "store" /\ hnd'[h].pc = "process" /\ m = hnd[h].ev
      BY <1>1, <1>6
  <2>2. \A f \in db : f.group # id
      BY <1>1, <1>6 DEF StoreInv
  <2>3. Log(id)' = {} /\ CreatesOf(id)' = {m}
      BY <1>1, <1>6, <2>2 DEF Log, CreatesOf, Creates
  <2>4. id \in Live
      BY <1>6, <2>1, SerialOf DEF SerialCreate
  <2>5. Unmade(hnd'[h], id) /\ Unapplied(hnd'[h]) = {} /\ ~Placing(hnd'[h], id)
      BY <1>1, <1>6, <2>1 DEF Unmade, Unapplied, Placing, Answered
  <2>6. Claims(id)' = {}
      BY <2>5 DEF Claims, Unmade
  <2>7. Base(m) \in GroupRecords
      BY <1>6, NewShape, SameCore DEF Base, Messages
  <2>8. Told({}, Base(m), {})
      BY <2>7, ToldFirst
  <2>9. \A c \in CreatesOf(id)' : Told(Log(id)', Base(c), Claims(id)')
      BY <2>3, <2>6, <2>8
  <2>10. HandlerTale(hnd[h], id)'
      BY <2>3, <2>5 DEF HandlerTale, Unapplied, Placing, Unmade
  <2> QED
      BY <1>2, <2>3, <2>4, <2>9, <2>10 DEF Tale, Sequential, Distinct
<1>7. CASE id = m.group /\ m.kind \in ModerationKinds \ {"create"}
  <2>1. \A f \in Log(id) : f.at < m.at
      BY <1>1, <1>7
  <2>2. Unapplied(hnd[h]) = {} /\ Unapplied(hnd'[h]) = {m}
      BY <1>1, <1>7 DEF Unapplied, ModerationKinds, Answered
  <2>3. ~Unmade(hnd[h], id) /\ ~Unmade(hnd'[h], id) /\ ~Placing(hnd'[h], id)
      BY <1>1, <1>7 DEF Unmade, Placing
  <2> QED
      BY <1>1, <1>7, <2>1, <2>2, <2>3, LogGrows
<1> QED
    BY <1>4, <1>5, <1>6, <1>7

\* process_event.go:60-90: the event a handler holds, the last of the log, is applied.
LEMMA TaleApplied ==
    ASSUME Sequential, GroupInv, StoreInv, SerialInv, NEW h \in Handlers, Held(hnd[h]),
           NEW id \in GroupIds, Tale(id), boot.pc = "served", boot' = boot, ApplyAction(h)
    PROVE  Tale(id)'
<1>1. PICK m \in Messages :
         ChangedAt(hnd[h].ev.group, Apply(GroupOf(hnd[h].ev.group), m)) /\ m = Action(h)
    BY AppliedFacts
<1>2. PICK x, g : x \in Live /\ x = hnd[h].ev.group /\ g = Apply(GroupOf(x), m)
    BY AppliedFacts
<1>3. /\ Live' = Live /\ GroupOf(x)' = g /\ SameEvents
      /\ \A y \in Live : y # x => GroupOf(y)' = GroupOf(y)
    BY <1>1, <1>2, ChangedFacts, AppliedFacts
<1>4. Log(id)' = Log(id) /\ CreatesOf(id)' = CreatesOf(id)
    BY <1>3, SameLog DEF SameEvents
<1>5. /\ hnd[h].pc = "apply" /\ hnd'[h].ev = hnd[h].ev
      /\ hnd'[h].pc \in {"created", "sync", "erase", "drop", "unlink", "tail"}
    BY AppliedFacts DEF Keeps, AfterApply
<1>6. hnd'[h].pc \notin Busy
    BY <1>5 DEF Busy
<1>7. Unapplied(hnd[h]) = {m} /\ m \in db /\ m.group = x
    BY <1>1, <1>2, <1>5, ActionFacts DEF Unapplied, Action, Held
<1>8. /\ Unapplied(hnd'[h]) = {} /\ ~Unmade(hnd'[h], id) /\ ~Placing(hnd'[h], id)
      /\ ~Unmade(hnd[h], id)
    BY <1>5, <1>6, NotBusy DEF Unmade
<1>9. CASE m \notin Log(id)
  <2>1. id \in Live => Core(GroupOf(id))' = Core(GroupOf(id))
    <3>1. CASE id # x
        BY <1>3, <3>1 DEF Core
    <3>2. CASE id = x
      <4>1. m.kind \notin ModerationKinds \ {"create"}
          BY <1>7, <1>9, <3>2 DEF Log
      <4>2. Core(g) = Core(GroupOf(x))
        <5>1. CASE m.kind = "create"
          <6>1. x \in GroupIds /\ 0 \in Nat
              BY <1>2 DEF Live
          <6> QED
              BY <1>2, <5>1, <6>1, LiveRecord, CoreStays
        <5>2. CASE m.kind \notin ModerationKinds
            BY <1>2, <5>2 DEF Apply, ModerationKinds
        <5> QED
            BY <4>1, <5>1, <5>2
      <4> QED
          BY <1>3, <3>2, <4>2 DEF Core
    <3> QED
        BY <3>1, <3>2
  <2>2. \A e \in Log(id) : e \notin Unapplied(hnd[h]) /\ e \notin Unapplied(hnd'[h])
      BY <1>7, <1>8, <1>9
  <2> QED
      BY <1>3, <1>4, <1>5, <1>8, <2>1, <2>2, TaleFrame
<1>10. CASE m \in Log(id)
  <2>1. id = x
      BY <1>7, <1>10 DEF Log
  <2>2. \A f \in Log(id) \ {m} : f.at < m.at
      BY <1>7, <1>10 DEF Tale, HandlerTale
  <2>3. Kept(id) = Log(id) \ {m} /\ Kept(id)' = Log(id)
      BY <1>4, <1>7, <1>8 DEF Kept, Sequential, Unapplied
  <2>4. \A f \in Log(id) : f \in Kept(id) <=> f.at < m.at
      BY <2>2, <2>3 DEF Messages
  <2>5. GroupOf(id) \in GroupRecords /\ Core(GroupOf(id)) \in GroupRecords
      BY <1>2, <2>1, LiveRecord, SameCore
  <2>6. Core(GroupOf(id))' = After(Core(GroupOf(id)), m)
    <3>1. Core(GroupOf(id))' = Core(g)
        BY <1>3, <2>1 DEF Core
    <3>2. Core(g) = After(GroupOf(id), m)
        BY <1>2, <2>1 DEF After
    <3> QED
        BY <2>5, <3>1, <3>2, CoreApply
  <2>7. Claim(Core(GroupOf(id)), Kept(id)) \in Claims(id)
      BY <1>2, <1>8, <2>1 DEF Claims, Sequential
  <2>8. Claims(id)' \subseteq {Claim(After(Core(GroupOf(id)), m), Kept(id) \cup {m})}
      BY <1>10, <2>3, <2>6 DEF Claims
  <2>9. Log(id) \in SUBSET Messages /\ Kept(id) \subseteq Log(id)
      BY DEF Log, StoreInv, Kept
  <2>10. ASSUME NEW c \in CreatesOf(id) PROVE Told(Log(id)', Base(c), Claims(id)')
    <3>1. Told(Log(id), Base(c), Claims(id))
        BY DEF Tale
    <3>2. Told(Log(id), Base(c),
               Claims(id) \cup {Claim(After(Core(GroupOf(id)), m), Kept(id) \cup {m})})
        BY <1>10, <2>4, <2>5, <2>7, <2>9, <3>1, ToldNext
    <3> QED
        BY <1>4, <2>8, <3>2, ToldLess
  <2>11. HandlerTale(hnd[h], id)'
      BY <1>5, <1>8 DEF HandlerTale, Unapplied, Placing
  <2>12. id \in Live' => CreatesOf(id)' # {}
      BY <1>3, <1>4, <1>8 DEF Tale, Sequential
  <2> QED
      BY <1>3, <1>4, <2>10, <2>11, <2>12 DEF Tale, Sequential, Distinct
<1> QED
    BY <1>9, <1>10

\* relay.go, process_event.go, wipe.go: a handler's step keeps the tale of a group that it
\* does not muddle.
LEMMA HandlerTells ==
    ASSUME Sequential, GroupInv, StoreInv, StoreInv', SerialInv, TaleInv, boot.pc = "served",
           boot' = boot, muddled' = muddled \cup Muddles, NEW h \in Handlers,
           Step(h) \/ Failure(h) \/ Arrival(h), NEW id \in GroupIds, Good(id)'
    PROVE  Tale(id)'
<1>1. /\ Good(id) /\ \A e \in db : e.group = id => e \in db'
      /\ \A e \in db' \ db : e.group = id =>
           IF e.kind = "create" THEN \A f \in granted : f.group # id
           ELSE \A f \in Log(id) : f.at < e.at
      /\ (id \in Live /\ id \notin Live') => \A e \in db' : e.group # id
    BY GoodBefore
<1>2. Tale(id) /\ Held(hnd[h])
    BY <1>1 DEF TaleInv
<1>3. ASSUME UNCHANGED <<heap, groups>>, db' \subseteq db,
             \/ Freely(h) \/ StoreDuplicate(h) \/ Load(h) \/ React(h) \/ Panic(h)
             \/ \E m \in Submissions, t \in Epoch..MaxTime : Receive(h, [m EXCEPT !.at = t])
      PROVE  Tale(id)'
  <2>1. \A e : e.group = id => (e \in db' <=> e \in db)
      BY <1>1, <1>3
  <2>2. id \in Live' <=> id \in Live
      BY <1>3, SameFacts
  <2>3. Core(GroupOf(id))' = Core(GroupOf(id))
      BY <1>3, SameFacts DEF Core
  <2> QED
      BY <1>2, <1>3, <2>1, <2>2, <2>3, TaleStays
<1>4. CASE Link(h) \/ Unlink(h) \/ ApplyCreate(h)
  <2>1. Freely(h)
      BY <1>4 DEF Freely
  <2>2. Live' = Live /\ SameEvents /\ (id \in Live => Core(GroupOf(id))' = Core(GroupOf(id)))
      BY <1>4, CoreLinks
  <2> QED
      BY <1>2, <2>1, <2>2, TaleStays DEF SameEvents
<1>5. CASE Placeholder(h) \/ StoreFails(h) \/ Register(h) \/ Drop(h) \/ WipeMemory(h)
    BY <1>1, <1>2, <1>5, TaleMade
<1>6. CASE StoreEvent(h) \/ SaveInner(h)
    BY <1>1, <1>2, <1>6, TaleStored
<1>7. CASE ApplyAction(h)
    BY <1>2, <1>7, TaleApplied
<1>8. CASE EndMove(h)
  <2>1. UNCHANGED <<heap, groups>> /\ db' \subseteq db
      BY <1>8, EndMoveEffect
  <2> QED
      BY <1>3, <1>8, <2>1 DEF Freely
<1>9. CASE LookAgain(h)
    BY <1>3, <1>9, LookAgainEffect DEF Freely, SameEvents
<1>10. CASE Publishes(h)
    BY <1>3, <1>10, PublishEffect DEF Freely, SameEvents
<1>12. ASSUME NEW x \in Wipes, Wipe(h, x) PROVE Tale(id)'
  <2>1. UNCHANGED <<heap, groups>> /\ db' \subseteq db
      BY <1>12, WipeEffect DEF SameEvents
  <2> QED
      BY <1>3, <1>12, <2>1 DEF Freely
<1>13. CASE StoreDuplicate(h)
  <2>1. UNCHANGED <<heap, groups, db>>
      BY <1>13 DEF StoreDuplicate, memVars, storeVars
  <2> QED
      BY <1>3, <1>13, <2>1
<1>14. CASE Load(h)
    BY <1>3, <1>14, LoadEffect DEF SameEvents
<1>15. CASE React(h)
    BY <1>3, <1>15, ReactEffect DEF SameEvents
<1>16. CASE Panic(h)
  <2>1. UNCHANGED <<heap, groups, db>>
      BY <1>16 DEF Panic, memVars, storeVars
  <2> QED
      BY <1>3, <1>16, <2>1
<1>17. ASSUME NEW m \in Submissions, NEW t \in Epoch..MaxTime, Receive(h, [m EXCEPT !.at = t])
       PROVE  Tale(id)'
    BY <1>3, <1>17, ReceiveEffect DEF SameEvents
<1> QED
    BY <1>4, <1>5, <1>6, <1>7, <1>8, <1>9, <1>10, <1>12, <1>13, <1>14, <1>15, <1>16,
       <1>17, StepSorts DEF Freely

\* A handler that publishes has nothing to apply and nothing to make.
LEMMA PublishingTells ==
    ASSUME \A h \in Handlers : hnd[h].pc \in Publishing, NEW id
    PROVE  /\ \A h \in Handlers : /\ Unapplied(hnd[h]) = {} /\ ~Unmade(hnd[h], id)
                                  /\ HandlerTale(hnd[h], id) /\ Held(hnd[h])
           /\ Kept(id) = Log(id)
<1>1. ASSUME NEW h \in Handlers
      PROVE  /\ Unapplied(hnd[h]) = {} /\ ~Unmade(hnd[h], id) /\ ~Placing(hnd[h], id)
             /\ hnd[h].pc # "process"
  <2>1. hnd[h].pc \notin Busy
      BY DEF Publishing, Busy
  <2> QED
      BY <2>1, NotBusy
<1>2. \A h \in Handlers : HandlerTale(hnd[h], id) /\ Held(hnd[h])
    BY <1>1 DEF HandlerTale, Held
<1>3. Kept(id) = Log(id)
    BY <1>1 DEF Kept
<1> QED
    BY <1>1, <1>2, <1>3

\* group.go:63-147, khatru: what serving does to the tales.
LEMMA ServeTells ==
    ASSUME Sequential, BootInv, BootInv', SerialInv, TaleInv, ServeStep PROVE TaleInv'
<1>1. GroupInv /\ StoreInv /\ StoreInv' /\ PhaseInv /\ PhaseInv'
    BY DEF BootInv
<1>2. UNCHANGED <<boot, before>> /\ muddled' = muddled \cup Muddles
    BY DEF ServeStep
<1>3. ASSUME UNCHANGED <<heap, groups, db, hnd>> PROVE TaleInv'
  <2>1. muddled' = muddled
      BY <1>2, <1>3 DEF Muddles, Live
  <2>2. \A h \in Handlers : Held(hnd[h])'
      BY <1>3 DEF TaleInv, Held
  <2>3. ASSUME NEW id \in GroupIds, Good(id)' PROVE Tale(id)'
    <3>1. Tale(id)
        BY <1>3, <2>1, <2>3 DEF TaleInv, Good, IsDeleted, Moderation
    <3>2. Log(id)' = Log(id) /\ CreatesOf(id)' = CreatesOf(id)
        BY <1>3 DEF Log, CreatesOf, Creates
    <3>3. Live' = Live /\ Core(GroupOf(id))' = Core(GroupOf(id))
        BY <1>3, SameFacts DEF Core
    <3>4. Claims(id)' = Claims(id)
      <4>1. Kept(id)' = Kept(id)
          BY <1>3, <3>2 DEF Kept
      <4> QED
          BY <1>2, <1>3, <3>2, <3>3, <4>1 DEF Claims
    <3>5. \A h \in Handlers : HandlerTale(hnd[h], id)'
        BY <1>3, <3>1, <3>2 DEF Tale, HandlerTale
    <3> QED
        BY <1>2, <1>3, <3>1, <3>2, <3>3, <3>4, <3>5 DEF Tale
  <2> QED
      BY <2>2, <2>3 DEF TaleInv
<1>4. CASE boot.pc = "served" /\ ~Tick
  <2>1. PICK h \in Handlers : Step(h) \/ Failure(h) \/ Arrival(h)
      BY <1>4 DEF ServeStep
  <2>2. \A k \in Handlers : Held(hnd[k])'
      BY <1>1, <2>1, HeldStep DEF TaleInv, Sequential
  <2>3. \A id \in GroupIds : Good(id)' => Tale(id)'
      BY <1>1, <1>2, <1>4, <2>1, HandlerTells
  <2> QED
      BY <2>2, <2>3 DEF TaleInv
<1>5. CASE Tick
    BY <1>3, <1>5 DEF Tick, memVars, storeVars
<1>6. CASE boot.pc # "served"
  <2>1. boot.pc = "sync" /\ UNCHANGED <<heap, groups, db, granted, boot>>
      BY <1>1, <1>6, ServesInSync
  <2>2. \A h \in Handlers : hnd[h].pc \in Publishing /\ hnd'[h].pc \in Publishing
      BY <1>1, <2>1 DEF PhaseInv
  <2>3. \A h \in Handlers : Held(hnd[h])'
      BY <2>2 DEF Held, Unapplied, Publishing
  <2>4. ASSUME NEW id \in GroupIds, Good(id)' PROVE Tale(id)'
    <3>1. Good(id) /\ Tale(id)
        BY <1>1, <1>2, <2>4, GoodBefore DEF TaleInv
    <3>2. Log(id)' = Log(id) /\ CreatesOf(id)' = CreatesOf(id)
        BY <2>1 DEF Log, CreatesOf, Creates
    <3>3. Live' = Live /\ Core(GroupOf(id))' = Core(GroupOf(id))
        BY <2>1, SameFacts DEF Core
    <3>4. /\ \A h \in Handlers : Unapplied(hnd[h]) = {} /\ ~Unmade(hnd[h], id)
          /\ Kept(id) = Log(id)
        BY <2>2, PublishingTells
    <3>5. \A h \in Handlers : /\ Unapplied(hnd'[h]) = {} /\ ~Unmade(hnd'[h], id)
                              /\ ~Placing(hnd'[h], id)
      <4>1. \A h \in Handlers : hnd'[h].pc \notin Busy
          BY <2>2 DEF Publishing, Busy
      <4> QED
          BY <4>1, NotBusy
    <3>6. Kept(id)' = Log(id)
        BY <3>2, <3>5 DEF Kept, Unapplied
    <3>7. \A h \in Handlers : HandlerTale(hnd[h], id)'
        BY <3>5 DEF HandlerTale, Unapplied, Unmade, Placing
    <3>8. Claims(id)' \subseteq Claims(id)
        BY <1>2, <3>2, <3>3, <3>4, <3>6 DEF Claims
    <3>9. \A c \in CreatesOf(id)' : Told(Log(id)', Base(c), Claims(id)')
        BY <3>1, <3>2, <3>8, ToldLess DEF Tale
    <3>10. id \in Live' => CreatesOf(id)' # {}
        BY <3>1, <3>2, <3>3, <3>4 DEF Tale
    <3> QED
        BY <1>2, <2>1, <3>1, <3>2, <3>7, <3>9, <3>10 DEF Tale
  <2> QED
      BY <2>3, <2>4 DEF TaleInv
<1> QED
    BY <1>4, <1>5, <1>6

\* group.go:92: nothing of the log is applied to a new object.
LEMMA ToldStart ==
    ASSUME NEW E, NEW b, NEW P, Told(E, b, P)
    PROVE  Told(E, b, P \cup {Claim(b, {})})
<1>1. PICK T \in [E -> GroupRecords] : Chain(T, E, b) /\ \A p \in P : Ends(p.core, T, p.of, b)
    BY DEF Told
<1>2. PICK q : q = Claim(b, {}) /\ q.core = b /\ q.of = {}
  <2>1. Claim(b, {}).core = b /\ Claim(b, {}).of = {}
      BY DEF Claim
  <2> QED
      BY <2>1
<1>3. Ends(q.core, T, q.of, b)
    BY <1>2 DEF Ends
<1>4. \A p \in P \cup {q} : Ends(p.core, T, p.of, b)
    BY <1>1, <1>3
<1> QED
    BY <1>1, <1>2, <1>4 DEF Told

\* group.go:63-147: a step of the restart stores no event; what is left to see is the new
\* object, and where the replay stands.
LEMMA BootFrame ==
    ASSUME UNCHANGED <<db, before>>, boot.pc # "served", NEW id, Tale(id),
           \A h \in Handlers : hnd'[h].pc \in Publishing,
           id \in Live' => CreatesOf(id) # {},
           (boot'.pc = "served" /\ CreatesOf(id) # {}) => id \in Live',
           (boot'.pc = "replay" /\ boot'.id = id) =>
             \A e \in Log(id) \ boot'.todo, f \in Log(id) \cap boot'.todo : e.at < f.at,
           NEW Q, \A c \in CreatesOf(id) : Told(Log(id), Base(c), Q), Claims(id) \subseteq Q,
           id \in Live' => Claim(Core(GroupOf(id))', Log(id)) \in Q,
           (boot'.pc = "replay" /\ boot'.id = id) =>
             Claim(Core(boot'.g), Log(id) \ boot'.todo) \in Q
    PROVE  Tale(id)'
<1>1. Log(id)' = Log(id) /\ CreatesOf(id)' = CreatesOf(id)
    BY DEF Log, CreatesOf, Creates
<1>2. \A h \in Handlers : /\ Unapplied(hnd'[h]) = {} /\ ~Unmade(hnd'[h], id)
                          /\ ~Placing(hnd'[h], id)
  <2>1. \A h \in Handlers : hnd'[h].pc \notin Busy
      BY DEF Publishing, Busy
  <2> QED
      BY <2>1, NotBusy
<1>3. Kept(id)' = Log(id)
    BY <1>1, <1>2 DEF Kept, Unapplied
<1>4. \A h \in Handlers : HandlerTale(hnd[h], id)'
    BY <1>2 DEF HandlerTale, Unapplied, Unmade, Placing
<1>5. Claims(id)' \subseteq Q
  <2>1. ASSUME before[id] # NoRoster PROVE Claim(Core(before[id]), Log(id)) \in Q
      BY <2>1 DEF Claims
  <2>2. Core(before[id])' = Core(before[id])
      BY DEF Core
  <2>3. Core(boot.g)' = Core(boot'.g)
      BY DEF Core
  <2> QED
      BY <1>1, <1>3, <2>1, <2>2, <2>3 DEF Claims
<1>6. \A c \in CreatesOf(id)' : Told(Log(id)', Base(c), Claims(id)')
    BY <1>1, <1>5, ToldLess
<1> QED
    BY <1>1, <1>4, <1>6 DEF Tale

\* group.go:63-98: a create event is taken, and its group begins to be rebuilt.
LEMMA ScanTells ==
    ASSUME BootInv, NEW e \in boot.creates, ScanCreate(e), UNCHANGED before,
           \A h \in Handlers : hnd'[h].pc \in Publishing,
           NEW id \in GroupIds, Good(id), Tale(id)
    PROVE  Tale(id)'
<1>1. boot.pc = "scan" /\ boot \in BootRecords /\ UNCHANGED <<heap, groups, db, hnd>>
    BY DEF ScanCreate, BootInv, PhaseInv, storeVars
<1>2. e \in Creates /\ e \in Messages
    BY <1>1 DEF BootInv, PhaseInv, Creates, StoreInv
<1>3. Live' = Live /\ Core(GroupOf(id))' = Core(GroupOf(id))
    BY <1>1, SameFacts DEF Core
<1>4. \A h \in Handlers : hnd[h].pc \in Publishing
    BY <1>1
<1>5. Kept(id) = Log(id) /\ \A h \in Handlers : ~Unmade(hnd[h], id)
    BY <1>4, PublishingTells
<1>6. id \in Live => Claim(Core(GroupOf(id)), Log(id)) \in Claims(id)
    BY <1>5 DEF Claims
<1>7. id \in Live => CreatesOf(id) # {}
    BY <1>5 DEF Tale
<1>8. CASE IsDeleted(e.group) \/ id # e.group
  <2>1. boot'.pc # "served" /\ ~(boot'.pc = "replay" /\ boot'.id = id)
      BY <1>1, <1>8 DEF ScanCreate, BootRecords
  <2>2. \A c \in CreatesOf(id) : Told(Log(id), Base(c), Claims(id))
      BY DEF Tale
  <2> QED
      BY <1>1, <1>3, <1>6, <1>7, <2>1, <2>2, BootFrame
<1>9. CASE ~IsDeleted(e.group) /\ id = e.group
  <2>1. /\ boot'.pc = "replay" /\ boot'.id = id /\ boot'.todo = Moderation(id)
        /\ boot'.g = [NewGroup(e.group) EXCEPT !.parent = e.parent]
      BY <1>1, <1>9 DEF ScanCreate, BootRecords
  <2>2. Log(id) \ boot'.todo = {}
      BY <2>1 DEF Log, Moderation
  <2>3. Core(boot'.g) = Base(e)
      BY <2>1 DEF Base
  <2>4. \A c \in CreatesOf(id) : c = e
      BY <1>2, <1>9 DEF Tale, CreatesOf
  <2>5. PICK Q : Q = Claims(id) \cup {Claim(Base(e), {})}
      OBVIOUS
  <2>6. \A c \in CreatesOf(id) : Told(Log(id), Base(c), Q)
      BY <2>4, <2>5, ToldStart DEF Tale
  <2> QED
      BY <1>1, <1>3, <1>6, <1>7, <2>1, <2>2, <2>3, <2>5, <2>6, BootFrame
<1> QED
    BY <1>8, <1>9

\* group.go:100-118: the oldest event that is left is applied.
LEMMA ReplayTells ==
    ASSUME BootInv, NEW e \in boot.todo, Replay(e), UNCHANGED before,
           \A h \in Handlers : hnd'[h].pc \in Publishing,
           NEW id \in GroupIds, Tale(id)
    PROVE  Tale(id)'
<1>1. /\ boot.pc = "replay" /\ boot \in BootRecords /\ UNCHANGED <<heap, groups, db, hnd>>
      /\ e \in Oldest(boot.todo)
    BY DEF Replay, BootInv, PhaseInv, storeVars
<1>2. /\ boot'.pc = "replay" /\ boot'.id = boot.id /\ boot'.todo = boot.todo \ {e}
      /\ boot'.g = Apply(boot.g, e)
    BY <1>1 DEF Replay, BootRecords
<1>3. Live' = Live /\ Core(GroupOf(id))' = Core(GroupOf(id))
    BY <1>1, SameFacts DEF Core
<1>4. \A h \in Handlers : hnd[h].pc \in Publishing
    BY <1>1
<1>5. Kept(id) = Log(id) /\ \A h \in Handlers : ~Unmade(hnd[h], id)
    BY <1>4, PublishingTells
<1>6. id \in Live => Claim(Core(GroupOf(id)), Log(id)) \in Claims(id)
    BY <1>5 DEF Claims
<1>7. id \in Live => CreatesOf(id) # {}
    BY <1>5 DEF Tale
<1>8. \A c \in CreatesOf(id) : Told(Log(id), Base(c), Claims(id))
    BY DEF Tale
<1>9. CASE id # boot.id
    BY <1>1, <1>2, <1>3, <1>6, <1>7, <1>8, <1>9, BootFrame
<1>10. CASE id = boot.id
  <2>1. /\ boot.g \in GroupRecords /\ boot.todo \subseteq Moderation(id) /\ e \in Messages
      BY <1>1, <1>10 DEF BootInv, ReplayInv, StoreInv, Moderation
  <2>2. \A f \in Log(id) \ boot.todo, k \in Log(id) \cap boot.todo : f.at < k.at
      BY <1>1, <1>10 DEF Tale
  <2>3. Claim(Core(boot.g), Log(id) \ boot.todo) \in Claims(id)
      BY <1>1, <1>10 DEF Claims
  <2>4. CASE e.kind = "create"
    <3>1. Log(id) \ boot'.todo = Log(id) \ boot.todo /\ Log(id) \cap boot'.todo = Log(id) \cap boot.todo
        BY <1>2, <2>4 DEF Log
    <3>2. Core(boot'.g) = Core(boot.g)
      <4>1. 0 \in Nat
          OBVIOUS
      <4> QED
          BY <1>2, <2>1, <2>4, <4>1, CoreStays
    <3> QED
        BY <1>1, <1>2, <1>3, <1>6, <1>7, <1>8, <2>2, <2>3, <3>1, <3>2, BootFrame
  <2>5. CASE e.kind # "create"
    <3>1. e \in Log(id)
        BY <2>1, <2>5 DEF Moderation, Log
    <3>2. Log(id) \ boot'.todo = (Log(id) \ boot.todo) \cup {e}
        BY <1>2, <3>1
    <3>3. Log(id) \in SUBSET Messages /\ Distinct(Log(id))
        BY DEF Log, BootInv, StoreInv, Tale
    <3>4. \A f \in Log(id) \cap boot.todo : e.at <= f.at
        BY <1>1 DEF Oldest
    <3>5. \A f \in Log(id) : f \in Log(id) \ boot.todo <=> f.at < e.at
        BY <2>2, <3>1, <3>3, <3>4 DEF Messages
    <3>6. \A f \in Log(id) \cap boot'.todo : e.at < f.at
      <4> SUFFICES ASSUME NEW f \in Log(id) \cap boot'.todo PROVE e.at < f.at
          OBVIOUS
      <4>1. f \in Log(id) \cap boot.todo /\ f # e
          BY <1>2
      <4>2. e.at <= f.at /\ e.at # f.at /\ e.at \in Nat /\ f.at \in Nat
          BY <3>1, <3>3, <3>4, <4>1 DEF Distinct, Messages
      <4> QED
          BY <4>2
    <3>7. \A f \in Log(id) \ boot'.todo, k \in Log(id) \cap boot'.todo : f.at < k.at
        BY <1>2, <2>2, <3>2, <3>6
    <3>8. Core(boot.g) \in GroupRecords /\ Core(boot'.g) = After(Core(boot.g), e)
        BY <1>2, <2>1, CoreApply, SameCore DEF After
    <3>9. PICK Q : Q = Claims(id) \cup {Claim(Core(boot'.g), Log(id) \ boot'.todo)}
        OBVIOUS
    <3>10. ASSUME NEW c \in CreatesOf(id) PROVE Told(Log(id), Base(c), Q)
      <4>1. PICK A : A = Log(id) \ boot.todo
          OBVIOUS
      <4>2. Told(Log(id), Base(c), Claims(id) \cup {Claim(After(Core(boot.g), e), A \cup {e})})
          BY <1>8, <2>3, <3>1, <3>3, <3>5, <3>8, <4>1, ToldNext
      <4> QED
          BY <3>2, <3>8, <3>9, <4>1, <4>2
    <3> QED
        BY <1>1, <1>2, <1>3, <1>6, <1>7, <3>7, <3>9, <3>10, BootFrame
  <2> QED
      BY <2>4, <2>5
<1> QED
    BY <1>9, <1>10

\* group.go:118-125: the rebuilt object takes its place in the map.
LEMMA LoadedTells ==
    ASSUME BootInv, Loaded, UNCHANGED before,
           \A h \in Handlers : hnd'[h].pc \in Publishing,
           NEW id \in GroupIds, Tale(id)
    PROVE  Tale(id)'
<1>1. /\ boot.pc = "replay" /\ boot.todo = {} /\ UNCHANGED <<db, hnd>>
      /\ boot'.pc = "scan" /\ boot.pc \in Starting
    BY DEF Loaded, storeVars, Served, Starting
<1>2. boot.id \in GroupIds /\ StoredCreate(boot.id, boot.g.parent) /\ GroupInv
    BY <1>1 DEF BootInv, ReplayInv
<1>3. heap \in Seq(GroupRecords) /\ Len(heap) \in Nat /\ groups \in [GroupIds -> Nat]
      /\ \A x \in Live : groups[x] \in 1..Len(heap)
    BY <1>1, StartFacts
<1>4. PICK b, g : b \in GroupIds /\ b = boot.id /\ g = boot.g /\ NewAt(b, g) /\ groups'[b] # 0
  <2>1. heap' = Append(heap, boot.g) /\ groups' = [groups EXCEPT ![boot.id] = Len(heap')]
      BY DEF Loaded
  <2>2. /\ Len(heap') = Len(heap) + 1 /\ heap'[Len(heap')] = boot.g
        /\ \A i \in 1..Len(heap) : heap'[i] = heap[i]
      BY <1>2, <1>1, <1>3, <2>1 DEF BootInv, ReplayInv
  <2>3. groups'[boot.id] = Len(heap) + 1 /\ \A x \in GroupIds : x # boot.id => groups'[x] = groups[x]
      BY <1>2, <1>3, <2>1, <2>2
  <2> QED
      BY <1>2, <1>3, <2>2, <2>3 DEF NewAt, Live
<1>5. /\ Live' = Live \cup {b} /\ GroupOf(b)' = g
      /\ \A x \in Live : x # b => GroupOf(x)' = GroupOf(x)
    BY <1>2, <1>4, NewFacts
<1>6. \A h \in Handlers : hnd[h].pc \in Publishing
    BY <1>1
<1>7. Kept(id) = Log(id) /\ \A h \in Handlers : ~Unmade(hnd[h], id)
    BY <1>6, PublishingTells
<1>8. id \in Live => Claim(Core(GroupOf(id)), Log(id)) \in Claims(id)
    BY <1>7 DEF Claims
<1>9. id \in Live' => CreatesOf(id) # {}
    BY <1>2, <1>4, <1>5, <1>7 DEF Tale, StoredCreate, CreatesOf
<1>10. id \in Live' => Claim(Core(GroupOf(id))', Log(id)) \in Claims(id)
  <2>1. CASE id = b
    <3>1. Core(GroupOf(id))' = Core(g)
        BY <1>5, <2>1 DEF Core
    <3>2. Claim(Core(boot.g), Log(id) \ boot.todo) \in Claims(id)
        BY <1>1, <1>4, <2>1 DEF Claims
    <3> QED
        BY <1>1, <1>4, <3>1, <3>2
  <2>2. CASE id # b
    <3>1. id \in Live => Core(GroupOf(id))' = Core(GroupOf(id))
        BY <1>5, <2>2 DEF Core
    <3> QED
        BY <1>5, <1>8, <2>2, <3>1
  <2> QED
      BY <2>1, <2>2
<1>11. \A c \in CreatesOf(id) : Told(Log(id), Base(c), Claims(id))
    BY DEF Tale
<1> QED
    BY <1>1, <1>9, <1>10, <1>11, BootFrame

\* group.go:126-147: the links are made again, the rosters synchronised, and the relay
\* serves: no core changes.
LEMMA LinkTells ==
    ASSUME BootInv, UNCHANGED before, \A h \in Handlers : hnd'[h].pc \in Publishing,
           ScanDone \/ StartSync \/ ServeAgain \/ \E c \in boot.kids : LinkChild(c),
           NEW id \in GroupIds, Good(id), Tale(id)
    PROVE  Tale(id)'
<1>1. /\ boot.pc \in {"scan", "link", "sync"} /\ boot \in BootRecords /\ UNCHANGED db
      /\ boot'.pc # "replay"
  <2>1. boot \in BootRecords
      BY DEF BootInv, PhaseInv
  <2>2. CASE ScanDone
      BY <2>1, <2>2 DEF ScanDone, storeVars, BootRecords
  <2>4. CASE StartSync
      BY <2>1, <2>4 DEF StartSync, storeVars, BootRecords
  <2>5. CASE ServeAgain
      BY <2>1, <2>5 DEF ServeAgain, vars, storeVars, Served
  <2>3. ASSUME NEW c \in boot.kids, LinkChild(c)
        PROVE  boot.pc = "link" /\ boot'.pc = "link" /\ UNCHANGED db
      BY <2>1, <2>3 DEF LinkChild, storeVars, BootRecords
  <2> QED
      BY <2>1, <2>2, <2>3, <2>4, <2>5
<1>2. \A h \in Handlers : hnd[h].pc \in Publishing
    BY <1>1 DEF BootInv, PhaseInv, Starting, Idle, Publishing
<1>3. Kept(id) = Log(id) /\ \A h \in Handlers : ~Unmade(hnd[h], id)
    BY <1>2, PublishingTells
<1>4. id \in Live => Claim(Core(GroupOf(id)), Log(id)) \in Claims(id) /\ CreatesOf(id) # {}
    BY <1>3 DEF Claims, Tale
<1>5. \A c \in CreatesOf(id) : Told(Log(id), Base(c), Claims(id))
    BY DEF Tale
<1>6. Live' = Live /\ \A x \in Live : Core(GroupOf(x))' = Core(GroupOf(x))
  <2>1. CASE UNCHANGED <<heap, groups>>
      BY <2>1, SameFacts DEF Core
  <2>2. CASE ~UNCHANGED <<heap, groups>>
    <3>1. PICK c \in boot.kids : LinkChild(c)
        BY <2>2 DEF ScanDone, StartSync, ServeAgain, vars, memVars
    <3>2. /\ boot.pc = "link" /\ boot.kids \subseteq Live /\ boot.pc \in Starting
          /\ groups' = groups
        BY <3>1 DEF LinkChild, BootInv, PhaseInv, Starting
    <3>3. /\ heap \in Seq(GroupRecords) /\ \A x \in Live : groups[x] \in 1..Len(heap)
        BY <3>2, StartFacts
    <3>4. PICK q, t : /\ q = GroupOf(c).parent /\ t = GroupOf(c).lastMetadata
                      /\ q # None /\ groups[q] # 0
                      /\ heap' = [heap EXCEPT ![groups[q]] = AddChild(@, c, t)]
        BY <2>2, <3>1, <3>2 DEF LinkChild
    <3>5. c \in Live /\ GroupOf(c) \in GroupRecords /\ c \in GroupIds /\ GroupInv
        BY <3>2, LiveRecord DEF BootInv, Live
    <3>6. q \in Live /\ t \in Nat
        BY <3>4, <3>5 DEF GroupRecords, Live
    <3>7. PICK g : g = AddChild(GroupOf(q), c, t)
        OBVIOUS
    <3>8. \A x \in Live : x # q => groups[x] # groups[q]
        BY <3>5, <3>6, LiveRecord DEF GroupOf
    <3>9. ChangedAt(q, g)
        BY <3>2, <3>3, <3>4, <3>6, <3>7, <3>8 DEF ChangedAt, GroupOf
    <3>10. /\ Live' = Live /\ GroupOf(q)' = g
           /\ \A x \in Live : x # q => GroupOf(x)' = GroupOf(x)
        BY <3>6, <3>9, ChangedFacts
    <3>11. Core(g) = Core(GroupOf(q))
      <4>1. PICK m \in Messages : TRUE
          BY <1>1, <3>5, <3>6 DEF BootInv, RebuiltInv, StoredCreate, Creates, StoreInv
      <4> QED
          BY <3>5, <3>6, <3>7, <4>1, LiveRecord, CoreStays
    <3> QED
        BY <3>10, <3>11 DEF Core
  <2> QED
      BY <2>1, <2>2
<1>7. ASSUME boot'.pc = "served", CreatesOf(id) # {} PROVE id \in Live
  <2>1. boot.pc = "sync" /\ boot.creates = {}
      BY <1>1, <1>7 DEF ScanDone, StartSync, ServeAgain, LinkChild, BootInv, PhaseInv, BootRecords
  <2>2. PICK c \in Creates : c.group = id
      BY <1>7 DEF CreatesOf
  <2>3. ~IsDeleted(id)
      BY DEF Good
  <2> QED
      BY <2>1, <2>2, <2>3 DEF BootInv, RebuiltInv
<1> QED
    BY <1>1, <1>4, <1>5, <1>6, <1>7, BootFrame

\* main.go, group.go: the process stops; a quiet one had applied all that it had stored.
LEMMA CrashTells ==
    ASSUME BootInv, Crash, NEW id \in GroupIds, Tale(id)
    PROVE  Tale(id)'
<1>1. /\ UNCHANGED db /\ hnd' = [h \in Handlers |-> Idle] /\ groups' = [x \in GroupIds |-> 0]
      /\ boot'.pc = "scan"
    BY DEF Crash, storeVars, Served
<1>2. /\ Log(id)' = Log(id) /\ CreatesOf(id)' = CreatesOf(id) /\ id \notin Live'
    BY <1>1 DEF Log, CreatesOf, Creates, Live
<1>3. \A h \in Handlers : hnd'[h].pc \notin Busy
    BY <1>1 DEF Idle, Busy
<1>4. \A h \in Handlers : HandlerTale(hnd[h], id)'
  <2>1. \A h \in Handlers : /\ Unapplied(hnd'[h]) = {} /\ ~Placing(hnd'[h], id)
                            /\ ~Unmade(hnd'[h], id)
      BY <1>3, NotBusy
  <2> QED
      BY <2>1 DEF HandlerTale, Unapplied, Unmade, Placing
<1>5. ASSUME before'[id] # NoRoster
      PROVE  /\ before'[id] \in GroupRecords /\ CreatesOf(id) # {}
             /\ Claim(Core(before'[id]), Log(id)) \in Claims(id)
  <2>1. Quiet /\ boot.pc = "served" /\ id \in Live /\ before'[id] = GroupOf(id)
      BY <1>5 DEF Crash, Unknown
  <2>2. \A h \in Handlers : hnd[h].pc \in Publishing
      BY <2>1 DEF Quiet, Publishing
  <2>3. Kept(id) = Log(id) /\ \A h \in Handlers : ~Unmade(hnd[h], id)
      BY <2>2, PublishingTells
  <2>4. CreatesOf(id) # {} /\ Claim(Core(GroupOf(id)), Log(id)) \in Claims(id)
      BY <2>1, <2>3 DEF Tale, Claims
  <2>5. GroupOf(id) \in GroupRecords
      BY <2>1, LiveRecord DEF BootInv
  <2> QED
      BY <2>1, <2>4, <2>5
<1>6. Claims(id)' \subseteq Claims(id)
  <2>1. Core(before[id])' = Core(before'[id])
      BY DEF Core
  <2> QED
      BY <1>1, <1>2, <1>5, <2>1 DEF Claims
<1>7. \A c \in CreatesOf(id)' : Told(Log(id)', Base(c), Claims(id)')
    BY <1>2, <1>6, ToldLess DEF Tale
<1> QED
    BY <1>1, <1>2, <1>4, <1>5, <1>7 DEF Tale

\* group.go:63-147: what stopping and starting again does to the tales.
LEMMA BootTells ==
    ASSUME BootInv, BootInv', TaleInv, Crash \/ (Boot /\ UNCHANGED <<before, muddled>>)
    PROVE  TaleInv'
<1>1. UNCHANGED <<db, muddled>>
    BY DEF Crash, Boot, ScanCreate, Replay, Loaded, ScanDone, StartSync, ServeAgain, LinkChild,
           storeVars, vars
<1>2. boot.pc \in {"scan", "replay", "link", "sync"} \/ Crash
    BY DEF Boot, ScanCreate, Replay, Loaded, ScanDone, StartSync, ServeAgain, LinkChild
<1>3. \A h \in Handlers : hnd'[h].pc \in Publishing
  <2>1. CASE Crash
      BY <2>1 DEF Crash, Idle, Publishing
  <2>2. CASE ServeAgain
      BY <2>2 DEF ServeAgain, Quiet, vars, Publishing
  <2>3. CASE ~Crash /\ ~ServeAgain
    <3>1. boot'.pc \in {"scan", "replay", "link", "sync"}
        BY <2>3 DEF Boot, ScanCreate, Replay, Loaded, ScanDone, StartSync, LinkChild, BootInv,
             PhaseInv, BootRecords, Served
    <3> QED
        BY <3>1 DEF BootInv, PhaseInv, Starting, Idle, Publishing
  <2> QED
      BY <2>1, <2>2, <2>3
<1>4. \A h \in Handlers : Held(hnd[h])'
    BY <1>3 DEF Held, Unapplied, Publishing
<1>5. ASSUME NEW id \in GroupIds, Good(id)' PROVE Tale(id)'
  <2>1. Good(id) /\ Tale(id)
      BY <1>1, <1>5 DEF Good, IsDeleted, Moderation, TaleInv
  <2>2. CASE Crash
      BY <2>1, <2>2, CrashTells
  <2>3. CASE Boot /\ UNCHANGED before
      BY <1>3, <2>1, <2>3, ScanTells, ReplayTells, LoadedTells, LinkTells DEF Boot
  <2> QED
      BY <2>2, <2>3
<1> QED
    BY <1>4, <1>5 DEF TaleInv

\* group.go, process_event.go:24-90: a founded group that nothing closed is its creation
\* and the put of its creator.
LEMMA FoundedCore ==
    ASSUME NEW e \in Founded, e.group \notin ClosedGroups
    PROVE  Core(FoundedObject(e)) = After(Base(e), AddCreator(e))
<1>1. e \in Messages /\ e.kind = "create" /\ e.author \in Users
    BY GroupsAssumption DEF Answered
<1>2. PICK a \in Messages : a = AddCreator(e) /\ a.kind = "put"
    BY <1>1, AddCreatorShape
<1>3. PICK n \in GroupRecords : n = NewGroup(e.group)
    BY <1>1, NewShape DEF Messages
<1>4. PICK b \in GroupRecords : b = [NewGroup(e.group) EXCEPT !.parent = e.parent]
    BY <1>1, NewShape DEF Messages
<1>5. PICK g1 \in GroupRecords : g1 = CreateGroup(n, e) /\ SameGroup(g1, n) /\ g1.id = n.id
  <2>1. Apply(n, e) = CreateGroup(n, e)
      BY <1>1 DEF Apply
  <2>2. CreateGroup(n, e) \in GroupRecords
      BY <1>1, <2>1, ApplyShape
  <2>3. SameGroup(CreateGroup(n, e), n) /\ CreateGroup(n, e).id = n.id
      BY DEF CreateGroup, SameGroup, GroupRecords
  <2> QED
      BY <2>2, <2>3
<1>6. PICK h \in GroupRecords : h = [g1 EXCEPT !.parent = e.parent]
  <2>1. e.parent \in GroupIds \cup {None}
      BY <1>1 DEF Messages
  <2>2. [g1 EXCEPT !.parent = e.parent] \in GroupRecords
      BY <2>1 DEF GroupRecords
  <2> QED
      BY <2>2
<1>7. Core(h) = Core(b)
  <2>1. SameGroup(h, b) /\ h.id = b.id
      BY <1>3, <1>4, <1>5, <1>6 DEF SameGroup, NewGroup, GroupRecords
  <2> QED
      BY <2>1, SameCore
<1>8. PICK kids : kids = {f.group : f \in {x \in Founded : x.parent = e.group}}
    OBVIOUS
<1>9. PICK f : f = FoundedObject(e)
    OBVIOUS
<1>10. f = [PutUser(g1, a) EXCEPT !.parent = e.parent, !.children = kids]
    BY <1>2, <1>3, <1>5, <1>8, <1>9 DEF FoundedObject
<1>11. Core(f) = Core(PutUser(h, a))
    BY <1>6, <1>10 DEF Core, PutUser, GroupRecords
<1>12. Core(PutUser(h, a)) = After(h, a)
    BY <1>2 DEF After, Apply
<1>13. After(h, a) = After(Core(b), a)
    BY <1>7, CoreApply
<1> QED
    BY <1>2, <1>4, <1>9, <1>11, <1>12, <1>13 DEF Base

\* process_event.go:51, group.go:116: the log of one event, and that event applied.
LEMMA ToldOne ==
    ASSUME NEW e \in Messages, NEW b \in GroupRecords, Core(b) = b
    PROVE  Told({e}, b, {Claim(After(b, e), {e})})
<1>1. Distinct({}) /\ Told({}, b, {Claim(b, {})}) /\ \A p \in {Claim(b, {})} : p.of \subseteq {}
    BY ToldFirst DEF Distinct, Claim
<1>2. Told({} \cup {e}, b, {Claim(b, {})})
    BY <1>1, ToldMore
<1>3. Told({e}, b, {Claim(b, {})})
    BY <1>2
<1>4. Told({e}, b, {Claim(b, {})} \cup {Claim(After(b, e), {} \cup {e})})
    BY <1>3, ToldNext DEF Messages
<1>5. {} \cup {e} = {e}
    OBVIOUS
<1> QED
    BY <1>4, <1>5, ToldLess

\* group.go: the groups the relay starts with have their tales.
LEMMA FirstTales == RecoveryInit => TaleInv
<1> SUFFICES ASSUME RecoveryInit PROVE TaleInv
    OBVIOUS
<1>1. Init /\ boot.pc = "served" /\ muddled = ClosedGroups
    BY DEF RecoveryInit, Served
<1>2. /\ \A e \in Founded : e.group \in Live /\ GroupOf(e.group) = FoundedObject(e)
      /\ \A id \in Live : \E e \in Founded : e.group = id
      /\ \A h \in Handlers : hnd[h] = Idle
    BY <1>1, FirstFacts
<1>3. \A h \in Handlers : hnd[h].pc \in Publishing
    BY <1>2 DEF Idle, Publishing
<1>4. \A h \in Handlers : Held(hnd[h])
    BY <1>3, PublishingTells
<1>5. ASSUME NEW id \in GroupIds, Good(id) PROVE Tale(id)
  <2>1. id \notin ClosedGroups
      BY <1>1, <1>5 DEF Good
  <2>2. /\ \A h \in Handlers : /\ Unapplied(hnd[h]) = {} /\ ~Unmade(hnd[h], id)
                               /\ HandlerTale(hnd[h], id)
        /\ Kept(id) = Log(id)
      BY <1>3, PublishingTells
  <2>3. \A e \in Founded : /\ e.kind = "create" /\ e \in Messages
                           /\ AddCreator(e).kind = "put" /\ AddCreator(e).group = e.group
                           /\ AddCreator(e) \in Messages
                           /\ CloseEvent(e).kind = "edit" /\ CloseEvent(e).group = e.group
    <3> SUFFICES ASSUME NEW e \in Founded
                 PROVE  /\ e.kind = "create" /\ e \in Messages
                        /\ AddCreator(e).kind = "put" /\ AddCreator(e).group = e.group
                        /\ AddCreator(e) \in Messages
                        /\ CloseEvent(e).kind = "edit" /\ CloseEvent(e).group = e.group
        OBVIOUS
    <3>1. e \in Messages /\ e.kind = "create" /\ e.author \in Users
        BY GroupsAssumption DEF Answered
    <3> QED
        BY <3>1, AddCreatorShape, CloseShape DEF AddCreator, CloseEvent, Event
  <2>4. db = Founded \cup {AddCreator(e) : e \in Founded}
               \cup {CloseEvent(e) : e \in {f \in Founded : f.group \in ClosedGroups}}
      BY <1>1 DEF Init
  <2>5. CreatesOf(id) = {e \in Founded : e.group = id}
      BY <2>3, <2>4 DEF CreatesOf, Creates
  <2>6. Log(id) = {AddCreator(e) : e \in {f \in Founded : f.group = id}}
      BY <2>1, <2>3, <2>4 DEF Log, ModerationKinds
  <2>7. \A c, d \in CreatesOf(id) : c = d
      BY <2>5, GroupsAssumption
  <2>8. CreatesOf(id) # {} <=> id \in Live
      BY <1>2, <2>5
  <2>9. Distinct(Log(id))
      BY <2>5, <2>6, <2>7 DEF Distinct
  <2>10. ASSUME NEW c \in CreatesOf(id) PROVE Told(Log(id), Base(c), Claims(id))
    <3>1. PICK a \in Messages : a = AddCreator(c)
        BY <2>3, <2>5
    <3>2. Log(id) = {a}
        BY <2>5, <2>6, <2>7, <3>1
    <3>3. Core(GroupOf(id)) = After(Base(c), a)
        BY <1>2, <2>1, <2>5, <3>1, FoundedCore
    <3>4. Claims(id) \subseteq {Claim(After(Base(c), a), {a})}
        BY <1>1, <2>2, <3>2, <3>3 DEF Claims
    <3>5. Base(c) \in GroupRecords /\ Core(Base(c)) = Base(c)
      <4>1. PICK b \in GroupRecords : b = [NewGroup(c.group) EXCEPT !.parent = c.parent]
          BY <2>3, <2>5, NewShape DEF Messages
      <4>2. Core(b) \in GroupRecords /\ Core(Core(b)) = Core(b)
          BY SameCore DEF Core
      <4> QED
          BY <4>1, <4>2 DEF Base
    <3>6. Told({a}, Base(c), {Claim(After(Base(c), a), {a})})
        BY <3>5, ToldOne
    <3> QED
        BY <3>2, <3>4, <3>6, ToldLess
  <2> QED
      BY <1>1, <2>2, <2>7, <2>8, <2>9, <2>10 DEF Tale
<1> QED
    BY <1>4, <1>5 DEF TaleInv

\* group.go:63-125: messages handled one at a time, a group that was live at a quiet moment
\* comes back from a restart as it was: it is not muddled, so that its log was stored in
\* the order it is replayed in, and it is not deleted.
THEOREM GroupsAreRestored ==
    ASSUME Sequential PROVE RecoverySpec => []RestartRestoresGroups
<1>1. RecoveryInit => TaleInv
    BY FirstTales
<1>2. BootInv /\ SerialInv /\ TaleInv /\ BootInv' /\ [RecoveryNext]_allVars => TaleInv'
  <2> SUFFICES ASSUME BootInv, SerialInv, TaleInv, BootInv', [RecoveryNext]_allVars PROVE TaleInv'
      OBVIOUS
  <2>1. CASE UNCHANGED allVars
    <3>1. UNCHANGED <<heap, groups, db, hnd, boot, before, muddled>>
        BY <2>1 DEF allVars, recoveryVars, vars, memVars, storeVars
    <3>2. \A h \in Handlers : Held(hnd[h])'
        BY <3>1 DEF TaleInv, Held
    <3>3. ASSUME NEW id \in GroupIds, Good(id)' PROVE Tale(id)'
      <4>1. Tale(id)
          BY <3>1, <3>3 DEF TaleInv, Good, IsDeleted, Moderation
      <4>2. Log(id)' = Log(id) /\ CreatesOf(id)' = CreatesOf(id)
          BY <3>1 DEF Log, CreatesOf, Creates
      <4>3. Live' = Live /\ Core(GroupOf(id))' = Core(GroupOf(id))
          BY <3>1, SameFacts DEF Core
      <4>4. Claims(id)' = Claims(id)
        <5>1. Kept(id)' = Kept(id)
            BY <3>1, <4>2 DEF Kept
        <5> QED
            BY <3>1, <4>2, <4>3, <5>1 DEF Claims
      <4>5. \A h \in Handlers : HandlerTale(hnd[h], id)'
          BY <3>1, <4>1, <4>2 DEF Tale, HandlerTale
      <4> QED
          BY <3>1, <4>1, <4>2, <4>3, <4>4, <4>5 DEF Tale
    <3> QED
        BY <3>2, <3>3 DEF TaleInv
  <2>2. CASE ServeStep
      BY <2>2, ServeTells
  <2>3. CASE Crash \/ (Boot /\ UNCHANGED <<before, muddled>>)
      BY <2>3, BootTells
  <2> QED
      BY <2>1, <2>2, <2>3 DEF RecoveryNext
<1>3. BootInv /\ TaleInv => RestartRestoresGroups
  <2> SUFFICES ASSUME BootInv, TaleInv, boot.pc = "sync", NEW id \in GroupIds \ muddled,
                      before[id] # NoRoster, ~IsDeleted(id)
               PROVE  id \in Live /\ SameGroup(GroupOf(id), before[id])
      BY DEF RestartRestoresGroups, Rebuilt
  <2>1. Tale(id)
      BY DEF TaleInv, Good
  <2>2. before[id] \in GroupRecords /\ CreatesOf(id) # {}
      BY <2>1 DEF Tale
  <2>3. PICK c \in CreatesOf(id) : Told(Log(id), Base(c), Claims(id))
      BY <2>1, <2>2 DEF Tale
  <2>4. id \in Live
      BY <2>3 DEF CreatesOf, BootInv, PhaseInv, RebuiltInv
  <2>5. Kept(id) = Log(id) /\ \A h \in Handlers : ~Unmade(hnd[h], id)
    <3>1. \A h \in Handlers : hnd[h].pc \in Publishing
        BY DEF BootInv, PhaseInv
    <3> QED
        BY <3>1, PublishingTells
  <2>6. /\ Claim(Core(GroupOf(id)), Log(id)) \in Claims(id)
        /\ Claim(Core(before[id]), Log(id)) \in Claims(id)
      BY <2>4, <2>5 DEF Claims
  <2>7. Log(id) \in SUBSET Messages /\ Distinct(Log(id))
      BY <2>1 DEF Log, BootInv, StoreInv, Tale
  <2>8. Core(GroupOf(id)) = Core(before[id])
      BY <2>3, <2>6, <2>7, ToldOnce
  <2>9. GroupOf(id) \in GroupRecords
      BY <2>4, LiveRecord DEF BootInv
  <2> QED
      BY <2>2, <2>4, <2>8, <2>9, SameCore
<1> QED
    BY <1>1, <1>2, <1>3, SerialRecovery, PTL DEF RecoverySpec
=============================================================================
