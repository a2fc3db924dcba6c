---------------------------- MODULE GroupsProofs ----------------------------
(***************************************************************************)
(* Proofs about Groups, for any number of handlers, users, groups and       *)
(* messages: where members and roles come from, and who is published.       *)
(*                                                                          *)
(* A handler may hold an object that left State.Groups long ago and still   *)
(* write to it or publish it, so the inductive invariant speaks of every    *)
(* object ever made, of every event in a handler's hands and of every       *)
(* roster not yet written, and not only of the groups in the map.           *)
(***************************************************************************)
EXTENDS Groups, FiniteSetTheorems, TLAPS

RosterNames == {RosterKinds[i] : i \in DOMAIN RosterKinds}
TagRecords == [flags: SUBSET Flags, parent: GroupIds \cup {None},
               children: SUBSET GroupIds, people: SUBSET Users,
               roles: [Users -> SUBSET RoleNames]]
RosterRecords == [stored: BOOLEAN, at: Nat, tags: TagRecords]
CandidateRecords == [id: GroupIds, kind: RosterNames, at: Nat, tags: TagRecords]
VersionRecords == [group: GroupIds, roster: RosterNames, at: Nat, tags: TagRecords]
Erasable == Messages \cup Targets \cup VersionRecords
WipeMarks == {[NoEvent EXCEPT !.group = id] : id \in GroupIds}
HandlerRecords ==
    [pc: Places, ev: Messages \cup {NoEvent} \cup WipeMarks,
     inner: Messages \cup {NoEvent}, obj: Nat, target: Nat, todo: Seq(Nat),
     cand: Seq(CandidateRecords), cur: Nat, left: SUBSET Erasable, hit: SUBSET Erasable]

GroupsTypeOK ==
    /\ heap \in Seq(GroupRecords)
    /\ groups \in [GroupIds -> Nat]
    /\ allMembers \in [Users -> Nat]
    /\ deletedGroups \subseteq GroupIds
    /\ rosters \in [GroupIds -> [RosterNames -> RosterRecords]]
    /\ hnd \in [Handlers -> HandlerRecords]
    /\ now \in Nat /\ up \in BOOLEAN /\ received \in Nat /\ fails \in Nat

\* What is in the store was stored, and is a message.
StoreInv == db \subseteq granted /\ granted \subseteq Messages

\* The map points at objects of its ids.
MapInv ==
    \A id \in GroupIds :
       groups[id] # 0 => groups[id] \in 1..Len(heap) /\ heap[groups[id]].id = id

\* u was put into a group of this id, in the events gr.
WasPut(u, id, gr) == \E e \in gr : e.kind = "put" /\ e.group = id /\ u \in e.users

\* Who is in the object was put there with these roles; nobody else has any.
OnRecord(g, gr) ==
    /\ \A u \in g.members :
          \E e \in gr : /\ e.kind = "put" /\ e.group = g.id
                        /\ u \in e.users /\ e.roles = g.roles[u]
    /\ \A u \in Users : g.roles[u] # {} => u \in g.members

HeapInv == \A i \in 1..Len(heap) : OnRecord(heap[i], granted)

\* A put comes from the relay or from someone who had been given roles.
HasAuthority(e, gr) ==
    e.kind = "put" =>
       \/ e.author = RelayKey
       \/ \E f \in gr : /\ f.kind = "put" /\ f.group = e.group
                        /\ e.author \in f.users /\ f.roles # {}

GrantInv == \A e \in granted : HasAuthority(e, granted)

\* Everybody in these tags was put into a group of this id.
PeoplePut(tags, id, gr) == \A u \in tags.people : WasPut(u, id, gr)

RosterInv ==
    \A id \in GroupIds : \A k \in RosterNames :
       /\ ~rosters[id][k].stored => rosters[id][k].at = 0
       /\ PeoplePut(rosters[id][k].tags, id, granted)

-----------------------------------------------------------------------------
(* What a handler in state s knows, given the objects hp and the events gr. *)

Wiping == {"wipeEvents", "wipeRosters"}

\* The indices it holds are objects.
HoldsObjects(s, hp) ==
    /\ s.obj \in 0..Len(hp) /\ s.target \in 0..Len(hp)
    /\ \A i \in DOMAIN s.todo : s.todo[i] \in 1..Len(hp)

\* Until it publishes, its message is an event, with authority if it grants
\* anything, and stored before it is processed.
HoldsMessage(s, gr) ==
    /\ s.pc \notin Wiping \cup {"idle", "sync", "read", "write", "retract"} =>
         /\ s.ev \in Messages
         /\ s.ev.kind \in Answered => s.ev.author \in Users
         /\ HasAuthority(s.ev, gr)
    /\ s.pc \notin Wiping \cup {"idle", "sync", "read", "write", "retract", "place", "store"} =>
         s.ev \in gr
    /\ s.pc \in {"place", "link", "creator", "created"} => s.ev.kind = "create"
    /\ s.pc = "inner" => s.ev.kind \in Answered
    /\ s.pc = "reply" => s.ev.kind \in {"join", "leave"}
    /\ s.pc = "link" => s.ev.parent \in GroupIds
    /\ (s.pc \in {"inner", "apply"} /\ s.ev.kind \in Answered) =>
         s.inner \in Messages /\ s.inner \in gr /\ s.inner.group = s.ev.group

\* The object it is about to change is one of its message's group.
HoldsGroup(s, hp) ==
    /\ (s.pc \in {"link", "creator", "inner", "apply", "created"} /\ s.ev.kind = "create")
         => s.obj # 0 /\ hp[s.obj].id = s.ev.group
    /\ s.pc = "apply" => s.target # 0 /\ hp[s.target].id = s.ev.group
    /\ s.pc = "unlink" => s.target # 0 /\ hp[s.target].parent \in GroupIds
    /\ s.pc \in Wiping => s.obj # 0 /\ s.ev.group \in GroupIds

\* The rosters it will write name only people who were put.
HoldsRosters(s, gr) ==
    /\ \A i \in DOMAIN s.cand : PeoplePut(s.cand[i].tags, s.cand[i].id, gr)
    /\ s.pc = "write" => s.cand # <<>>

Holds(s, hp, gr) ==
    /\ HoldsObjects(s, hp)
    /\ HoldsMessage(s, gr)
    /\ HoldsGroup(s, hp)
    /\ HoldsRosters(s, gr)

HandlerInv == \A h \in Handlers : Holds(hnd[h], heap, granted)

GroupInv ==
    /\ GroupsTypeOK
    /\ MapInv
    /\ HeapInv
    /\ GrantInv
    /\ RosterInv
    /\ HandlerInv

-----------------------------------------------------------------------------
(* What the moderation actions do to an object *)

\* moderation_actions.go (nip29): taking copies off an invite leaves a count.
LEMMA MonusType ==
    ASSUME NEW m \in Nat, NEW n \in Nat PROVE Monus(m, n) \in Nat
BY DEF Monus

\* group.go NewGroup: a new object is a group record with nobody in it.
LEMMA NewShape ==
    ASSUME NEW id \in GroupIds, NEW p \in GroupIds \cup {None}, NEW gr
    PROVE  /\ NewGroup(id) \in GroupRecords /\ NewGroup(id).id = id
           /\ [NewGroup(id) EXCEPT !.parent = p] \in GroupRecords
           /\ [NewGroup(id) EXCEPT !.parent = p].id = id
           /\ [NewGroup(id) EXCEPT !.parent = p].parent = p
           /\ OnRecord(NewGroup(id), gr)
           /\ OnRecord([NewGroup(id) EXCEPT !.parent = p], gr)
<1>1. [u \in Users |-> {}] \in [Users -> SUBSET RoleNames]
    OBVIOUS
<1>2. [c \in Codes |-> 0] \in [Codes -> Nat]
    OBVIOUS
<1>3. NewGroup(id) \in GroupRecords
    BY <1>1, <1>2 DEF NewGroup, GroupRecords
<1>4. [NewGroup(id) EXCEPT !.parent = p] \in GroupRecords
    BY <1>3 DEF GroupRecords
<1> QED
    BY <1>3, <1>4 DEF NewGroup, OnRecord

\* moderation_actions.go (nip29) Apply: every action leaves a group record of
\* the same id and parent.
LEMMA ApplyShape ==
    ASSUME NEW g \in GroupRecords, NEW e \in Messages
    PROVE  /\ Apply(g, e) \in GroupRecords
           /\ Apply(g, e).id = g.id /\ Apply(g, e).parent = g.parent
<1> USE DEF GroupRecords
<1>0. /\ e.at \in Nat /\ e.users \subseteq Users /\ e.roles \subseteq RoleNames
      /\ e.on \subseteq Flags
    BY DEF Messages
<1>1. /\ PutUser(g, e) \in GroupRecords
      /\ PutUser(g, e).id = g.id /\ PutUser(g, e).parent = g.parent
  <2>1. Cardinality(e.users) \in Nat
      BY <1>0, FS_Subset, FS_CardinalityType, Nip29Assumption
  <2>2. [c \in Codes |-> IF c = e.code /\ c # EmptyCode
                         THEN Monus(g.invites[c], Cardinality(e.users))
                         ELSE g.invites[c]] \in [Codes -> Nat]
      BY <2>1, MonusType
  <2>3. [u \in Users |-> IF u \in e.users THEN e.roles ELSE g.roles[u]]
           \in [Users -> SUBSET RoleNames]
      BY <1>0
  <2> QED
      BY <1>0, <2>2, <2>3 DEF PutUser
<1>2. /\ RemoveUser(g, e) \in GroupRecords
      /\ RemoveUser(g, e).id = g.id /\ RemoveUser(g, e).parent = g.parent
  <2>1. [u \in Users |-> IF u \in e.users THEN {} ELSE g.roles[u]]
           \in [Users -> SUBSET RoleNames]
      OBVIOUS
  <2> QED
      BY <1>0, <2>1 DEF RemoveUser
<1>3. /\ EditMetadata(g, e) \in GroupRecords
      /\ EditMetadata(g, e).id = g.id /\ EditMetadata(g, e).parent = g.parent
    BY <1>0 DEF EditMetadata
<1>4. /\ CreateGroup(g, e) \in GroupRecords
      /\ CreateGroup(g, e).id = g.id /\ CreateGroup(g, e).parent = g.parent
    BY <1>0 DEF CreateGroup
<1>5. /\ DeleteGroup(g, e) \in GroupRecords
      /\ DeleteGroup(g, e).id = g.id /\ DeleteGroup(g, e).parent = g.parent
  <2>1. [u \in Users |-> {}] \in [Users -> SUBSET RoleNames]
      OBVIOUS
  <2> QED
      BY <1>0, <2>1 DEF DeleteGroup
<1>6. /\ CreateInvite(g, e) \in GroupRecords
      /\ CreateInvite(g, e).id = g.id /\ CreateInvite(g, e).parent = g.parent
  <2>1. [c \in Codes |-> IF c = e.code THEN g.invites[c] + 1 ELSE g.invites[c]]
           \in [Codes -> Nat]
      OBVIOUS
  <2> QED
      BY <2>1 DEF CreateInvite
<1> HIDE DEF GroupRecords
<1> QED
    BY <1>1, <1>2, <1>3, <1>4, <1>5, <1>6 DEF Apply

\* moderation_actions.go (nip29) Apply: if the action's event is stored, who is
\* in the object after it was put there with the roles now held.
LEMMA ApplyRecorded ==
    ASSUME NEW g \in GroupRecords, NEW e \in Messages, NEW gr,
           e \in gr, e.group = g.id, OnRecord(g, gr)
    PROVE  OnRecord(Apply(g, e), gr)
<1> USE DEF GroupRecords
<1>0. e.users \subseteq Users
    BY DEF Messages
<1>1. CASE e.kind = "put"
  <2>1. /\ Apply(g, e).id = g.id
        /\ Apply(g, e).members = g.members \cup e.users
        /\ \A u \in Users : Apply(g, e).roles[u] =
              IF u \in e.users THEN e.roles ELSE g.roles[u]
      BY <1>1 DEF Apply, PutUser
  <2>2. ASSUME NEW u \in Apply(g, e).members
        PROVE  \E f \in gr : /\ f.kind = "put" /\ f.group = g.id
                             /\ u \in f.users /\ f.roles = Apply(g, e).roles[u]
    <3>1. CASE u \in e.users
        BY <1>0, <1>1, <2>1, <3>1
    <3>2. CASE u \notin e.users
        BY <2>1, <2>2, <3>2 DEF OnRecord
    <3> QED
        BY <3>1, <3>2
  <2> QED
      BY <2>1, <2>2, <1>0 DEF OnRecord
<1>2. CASE e.kind = "remove"
  <2>1. /\ Apply(g, e).id = g.id
        /\ Apply(g, e).members = g.members \ e.users
        /\ \A u \in Users : Apply(g, e).roles[u] =
              IF u \in e.users THEN {} ELSE g.roles[u]
      BY <1>2 DEF Apply, RemoveUser
  <2> QED
      BY <2>1 DEF OnRecord
<1>3. CASE e.kind = "deleteGroup"
  <2>1. /\ Apply(g, e).members = {}
        /\ \A u \in Users : Apply(g, e).roles[u] = {}
      BY <1>3 DEF Apply, DeleteGroup
  <2> QED
      BY <2>1 DEF OnRecord
<1>4. CASE e.kind \notin {"put", "remove", "deleteGroup"}
  <2>1. /\ Apply(g, e).id = g.id /\ Apply(g, e).members = g.members
        /\ Apply(g, e).roles = g.roles
    <3>1. CASE e.kind \in {"edit", "create", "invite"}
        BY <3>1 DEF Apply, EditMetadata, CreateGroup, CreateInvite
    <3>2. CASE e.kind \notin {"edit", "create", "invite"}
        BY <1>4, <3>2 DEF Apply
    <3> QED
        BY <3>1, <3>2
  <2> QED
      BY <2>1 DEF OnRecord
<1> QED
    BY <1>1, <1>2, <1>3, <1>4

\* group.go addParentChild, removeParentChild: a child is added to or
\* taken from a group, and who is in it stays.
LEMMA ChildShape ==
    ASSUME NEW g \in GroupRecords, NEW c \in GroupIds, NEW t \in Nat, NEW gr,
           OnRecord(g, gr)
    PROVE  /\ AddChild(g, c, t) \in GroupRecords /\ RemoveChild(g, c, t) \in GroupRecords
           /\ AddChild(g, c, t).id = g.id /\ RemoveChild(g, c, t).id = g.id
           /\ AddChild(g, c, t).parent = g.parent /\ RemoveChild(g, c, t).parent = g.parent
           /\ OnRecord(AddChild(g, c, t), gr) /\ OnRecord(RemoveChild(g, c, t), gr)
<1>1. AddChild(g, c, t) \in GroupRecords /\ RemoveChild(g, c, t) \in GroupRecords
    BY DEF AddChild, RemoveChild, GroupRecords
<1>2. /\ AddChild(g, c, t).id = g.id /\ RemoveChild(g, c, t).id = g.id
      /\ AddChild(g, c, t).parent = g.parent /\ RemoveChild(g, c, t).parent = g.parent
      /\ AddChild(g, c, t).members = g.members /\ RemoveChild(g, c, t).members = g.members
      /\ AddChild(g, c, t).roles = g.roles /\ RemoveChild(g, c, t).roles = g.roles
    BY DEF AddChild, RemoveChild, GroupRecords
<1> QED
    BY <1>1, <1>2 DEF OnRecord

\* nip29 group.go ToMetadataEvent, ToAdminsEvent, ToMembersEvent: an event made
\* of an object names only its members.
LEMMA TagShape ==
    ASSUME NEW g \in GroupRecords, NEW k \in RosterNames
    PROVE  /\ RosterTags(g, k) \in TagRecords /\ RosterAt(g, k) \in Nat
           /\ RosterTags(g, k).people \subseteq g.members
<1>1. k \in {"metadata", "admins", "members", "roles"}
    BY GroupsAssumption DEF RosterNames
<1>2. BlankTags \in TagRecords
  <2>1. [u \in Users |-> {}] \in [Users -> SUBSET RoleNames]
      OBVIOUS
  <2> QED
      BY <2>1 DEF BlankTags, TagRecords
<1>3. BlankTags.people = {}
    BY DEF BlankTags
<1>4. RosterAt(g, k) \in Nat
    BY <1>1 DEF RosterAt, GroupRecords
<1>5. CASE k = "metadata"
    BY <1>2, <1>3, <1>4, <1>5 DEF RosterTags, TagRecords, GroupRecords
<1>6. CASE k = "admins"
    BY <1>2, <1>3, <1>4, <1>6 DEF RosterTags, TagRecords, GroupRecords
<1>7. CASE k = "members"
    BY <1>2, <1>3, <1>4, <1>7 DEF RosterTags, TagRecords, GroupRecords
<1>8. CASE k = "roles"
    BY <1>2, <1>3, <1>4, <1>8 DEF RosterTags
<1> QED
    BY <1>1, <1>5, <1>6, <1>7, <1>8
-----------------------------------------------------------------------------
(* Other handlers: objects keep id and parent, and stored events are never   *)
(* taken back from the history, so what one handler does leaves what another *)
(* holds true.                                                               *)

Grows(hp, gr, hp2, gr2) ==
    /\ Len(hp) \in Nat /\ Len(hp2) \in Nat /\ Len(hp) <= Len(hp2)
    /\ \A i \in 1..Len(hp) : hp2[i].id = hp[i].id /\ hp2[i].parent = hp[i].parent
    /\ gr \subseteq gr2

\* State.Groups and the store seen from a handler that is not running: what it
\* holds stays true as objects and events are added.
LEMMA HoldsGrows ==
    ASSUME NEW s \in HandlerRecords, NEW hp, NEW gr, NEW hp2, NEW gr2,
           Grows(hp, gr, hp2, gr2), Holds(s, hp, gr)
    PROVE  Holds(s, hp2, gr2)
<1>0. s.obj \in Nat /\ s.target \in Nat
    BY DEF HandlerRecords
<1>1. HoldsObjects(s, hp2)
    BY <1>0 DEF Grows, Holds, HoldsObjects
<1>2. HoldsMessage(s, gr2)
    BY DEF Grows, Holds, HoldsMessage, HasAuthority
<1>3. HoldsGroup(s, hp2)
    BY <1>0 DEF Grows, Holds, HoldsObjects, HoldsGroup
<1>4. HoldsRosters(s, gr2)
    BY DEF Grows, Holds, HoldsRosters, PeoplePut, WasPut
<1> QED
    BY <1>1, <1>2, <1>3, <1>4 DEF Holds

\* h moves to another state and the other handlers stay where they are.
Moves(h) ==
    /\ hnd' \in [Handlers -> HandlerRecords]
    /\ \A k \in Handlers \ {h} : hnd'[k] = hnd[k]

\* khatru's goroutines: a step of one handler keeps what all of them hold, if it
\* keeps what it holds itself.
LEMMA OneMoves ==
    ASSUME GroupInv, NEW h \in Handlers, Moves(h),
           Grows(heap, granted, heap', granted'), Holds(hnd'[h], heap', granted')
    PROVE  HandlerInv'
<1>1. ASSUME NEW k \in Handlers PROVE Holds(hnd'[k], heap', granted')
  <2>1. CASE k = h
      BY <2>1
  <2>2. CASE k # h
    <3>1. hnd'[k] = hnd[k] /\ hnd[k] \in HandlerRecords
        BY <2>2 DEF Moves, GroupInv, GroupsTypeOK
    <3>2. Holds(hnd[k], heap, granted)
        BY DEF GroupInv, HandlerInv
    <3> QED
        BY <3>1, <3>2, HoldsGrows
  <2> QED
      BY <2>1, <2>2
<1> QED
    BY <1>1 DEF HandlerInv

\* Nothing grows when nothing changes.
LEMMA GrowsStill ==
    ASSUME GroupInv, UNCHANGED <<heap, granted>>
    PROVE  Grows(heap, granted, heap', granted')
<1>1. Len(heap) \in Nat
    BY DEF GroupInv, GroupsTypeOK
<1> QED
    BY <1>1 DEF Grows

\* A step that changes only the place of one handler, the counters and what no
\* part of the invariant looks at.
LEMMA PlaceStep ==
    ASSUME GroupInv, NEW h \in Handlers, Moves(h), Holds(hnd'[h], heap, granted),
           UNCHANGED <<heap, groups, rosters, granted, now, up>>,
           allMembers' \in [Users -> Nat], deletedGroups' \subseteq GroupIds,
           received' \in Nat, fails' \in Nat
    PROVE  GroupInv'
<1>1. HandlerInv'
    BY OneMoves, GrowsStill
<1>2. GroupsTypeOK'
    BY DEF GroupInv, GroupsTypeOK, Moves
<1>3. MapInv' /\ HeapInv' /\ GrantInv' /\ RosterInv'
    BY DEF GroupInv, MapInv, HeapInv, GrantInv, RosterInv
<1> QED
    BY <1>1, <1>2, <1>3 DEF GroupInv

\* A handler moves to another place and nothing else of it changes.
LEMMA PcMoves ==
    ASSUME GroupInv, NEW h \in Handlers, NEW p \in Places,
           hnd' = [hnd EXCEPT ![h].pc = p]
    PROVE  /\ Moves(h)
           /\ hnd'[h].pc = p /\ hnd'[h].ev = hnd[h].ev /\ hnd'[h].inner = hnd[h].inner
           /\ hnd'[h].obj = hnd[h].obj /\ hnd'[h].target = hnd[h].target
           /\ hnd'[h].todo = hnd[h].todo /\ hnd'[h].cand = hnd[h].cand
           /\ hnd'[h].cur = hnd[h].cur
           /\ hnd'[h].left = hnd[h].left /\ hnd'[h].hit = hnd[h].hit
<1>1. hnd \in [Handlers -> HandlerRecords] /\ hnd[h] \in HandlerRecords
    BY DEF GroupInv, GroupsTypeOK
<1>2. [hnd[h] EXCEPT !.pc = p] \in HandlerRecords
    BY <1>1 DEF HandlerRecords
<1>3. hnd'[h] = [hnd[h] EXCEPT !.pc = p]
    BY <1>1
<1>4. Moves(h)
    BY <1>1, <1>2, <1>3 DEF Moves
<1> QED
    BY <1>1, <1>3, <1>4 DEF HandlerRecords

\* An idle handler is a handler, and holds nothing.
LEMMA IdleHolds ==
    ASSUME NEW hp, NEW gr, Len(hp) \in Nat
    PROVE  Idle \in HandlerRecords /\ Holds(Idle, hp, gr)
<1>1. Idle \in HandlerRecords
    BY DEF Idle, HandlerRecords, Places
<1>2. HoldsObjects(Idle, hp)
    BY DEF HoldsObjects, Idle
<1>3. HoldsMessage(Idle, gr)
    BY DEF HoldsMessage, Idle, Wiping
<1>4. HoldsGroup(Idle, hp)
    BY DEF HoldsGroup, Idle, Wiping
<1>5. HoldsRosters(Idle, gr)
    BY DEF HoldsRosters, Idle
<1> QED
    BY <1>1, <1>2, <1>3, <1>4, <1>5 DEF Holds

\* A handler that is done, or turned away, is idle.
LEMMA BecomesIdle ==
    ASSUME GroupInv, NEW h \in Handlers, hnd' = [hnd EXCEPT ![h] = Idle]
    PROVE  Moves(h) /\ hnd'[h] = Idle /\ Holds(hnd'[h], heap, granted)
<1>1. hnd \in [Handlers -> HandlerRecords] /\ Len(heap) \in Nat
    BY DEF GroupInv, GroupsTypeOK
<1>2. Idle \in HandlerRecords /\ Holds(Idle, heap, granted)
    BY <1>1, IdleHolds
<1> QED
    BY <1>1, <1>2 DEF Moves

-----------------------------------------------------------------------------
(* The steps that only move a handler *)

\* What the invariant says of the state of one handler.
LEMMA HandlerFacts ==
    ASSUME GroupInv, NEW h \in Handlers
    PROVE  /\ hnd[h] \in HandlerRecords
           /\ Len(heap) \in Nat
           /\ HoldsObjects(hnd[h], heap) /\ HoldsMessage(hnd[h], granted)
           /\ HoldsGroup(hnd[h], heap) /\ HoldsRosters(hnd[h], granted)
BY DEF GroupInv, GroupsTypeOK, HandlerInv, Holds

\* The handler's fields other than the place decide these.
LEMMA SameFields ==
    ASSUME NEW s, NEW t, NEW hp, NEW gr,
           t.ev = s.ev, t.inner = s.inner, t.obj = s.obj, t.target = s.target,
           t.todo = s.todo, t.cand = s.cand
    PROVE  /\ HoldsObjects(s, hp) => HoldsObjects(t, hp)
           /\ (HoldsRosters(s, gr) /\ t.pc # "write") => HoldsRosters(t, gr)
BY DEF HoldsObjects, HoldsRosters

\* process_event.go:51-54, 92-106, 152-187: saving the relay's own event failed or found
\* it there, all targets are dealt with, the group has left the map: h goes to the end.
LEMMA EndStep ==
    ASSUME GroupInv, NEW h \in Handlers,
           hnd[h].pc \in {"creator", "reply", "erase", "drop"},
           NEW p \in {"sync", "tail"},
           hnd' = [hnd EXCEPT ![h].pc = p]
    PROVE  Moves(h) /\ Holds(hnd'[h], heap, granted)
<1>1. p \in Places
    BY DEF Places
<1>2. /\ Moves(h)
      /\ hnd'[h].pc = p /\ hnd'[h].ev = hnd[h].ev /\ hnd'[h].inner = hnd[h].inner
      /\ hnd'[h].obj = hnd[h].obj /\ hnd'[h].target = hnd[h].target
      /\ hnd'[h].todo = hnd[h].todo /\ hnd'[h].cand = hnd[h].cand
    BY <1>1, PcMoves
<1>3. HoldsObjects(hnd'[h], heap) /\ HoldsRosters(hnd'[h], granted)
    BY <1>2, HandlerFacts, SameFields
<1>4. HoldsMessage(hnd'[h], granted)
    BY <1>2, HandlerFacts DEF HoldsMessage, Wiping
<1>5. HoldsGroup(hnd'[h], heap)
    BY <1>2 DEF HoldsGroup, Wiping
<1> QED
    BY <1>2, <1>3, <1>4, <1>5 DEF Holds
\* reject_event.go:180-187: a put that is accepted comes from the relay, or from
\* somebody who holds roles in the object, and so was given roles by an event
\* that was stored.
LEMMA AcceptedHaveAuthority ==
    ASSUME GroupInv, NEW e \in Messages, Accepts(e)
    PROVE  HasAuthority(e, granted)
<1>1. SUFFICES ASSUME e.kind = "put", e.author # RelayKey
               PROVE  \E f \in granted : /\ f.kind = "put" /\ f.group = e.group
                                         /\ e.author \in f.users /\ f.roles # {}
    BY DEF HasAuthority
<1>2. e.group \in Live /\ AcceptsInGroup(GroupOf(e.group), e)
    BY <1>1 DEF Accepts
<1>3. PICK i \in 1..Len(heap) : i = groups[e.group] /\ heap[i].id = e.group
    BY <1>2 DEF Live, GroupInv, MapInv
<1>4. heap[i] \in GroupRecords /\ OnRecord(heap[i], granted)
    BY DEF GroupInv, GroupsTypeOK, HeapInv
<1>5. MayWrite(heap[i], e.author) /\ AcceptsModeration(heap[i], e)
    BY <1>1, <1>2, <1>3 DEF AcceptsInGroup, GroupOf, ModerationKinds
<1>6. e.author \in Users
    BY <1>4, <1>5, GroupsAssumption DEF MayWrite, GroupRecords
<1>7. heap[i].roles[e.author] # {}
    BY <1>5 DEF AcceptsModeration
<1> QED
    BY <1>3, <1>4, <1>6, <1>7 DEF OnRecord

\* reject_event.go, relay.go: taking a message on.
LEMMA ReceiveKeeps ==
    ASSUME GroupInv, NEW h \in Handlers, NEW m \in Submissions,
           NEW t \in Epoch..MaxTime, Receive(h, [m EXCEPT !.at = t])
    PROVE  GroupInv'
<1>0. t \in Nat
    BY GroupsAssumption
<1>1. PICK e : e = [m EXCEPT !.at = t]
    OBVIOUS
<1>2. e \in Messages /\ (e.kind \in Answered => e.author \in Users)
  <2>1. m \in Messages /\ (m.kind \in Answered => m.author \in Users)
      BY GroupsAssumption
  <2> QED
      BY <1>0, <1>1, <2>1 DEF Messages
<1>3. HasAuthority(e, granted)
    BY <1>1, <1>2, AcceptedHaveAuthority DEF Receive
<1>4. PICK s : s = [Idle EXCEPT !.ev = e, !.left = e.refs,
                 !.pc = IF e.kind = "create" /\ e.author # RelayKey
                        THEN "place" ELSE "store"]
    OBVIOUS
<1>5. /\ (s.pc = "place" /\ e.kind = "create") \/ s.pc = "store"
      /\ s.ev = e /\ s.inner = Idle.inner /\ s.obj = 0 /\ s.target = 0
      /\ s.todo = <<>> /\ s.cand = <<>> /\ s.cur = 0
    BY <1>4 DEF Idle
<1>6. s \in HandlerRecords
  <2>1. Idle \in HandlerRecords
      BY HandlerFacts, IdleHolds
  <2>2. PICK p \in Places : s = [Idle EXCEPT !.ev = e, !.left = e.refs, !.pc = p]
      BY <1>4 DEF Places
  <2>3. e.refs \in SUBSET Erasable
      BY <1>2 DEF Messages, Erasable
  <2> QED
      BY <1>2, <2>1, <2>2, <2>3 DEF HandlerRecords
<1>7. hnd \in [Handlers -> HandlerRecords] /\ hnd' = [hnd EXCEPT ![h] = s]
    BY <1>1, <1>4 DEF Receive, GroupInv, GroupsTypeOK
<1>8. Moves(h) /\ hnd'[h] = s
    BY <1>6, <1>7 DEF Moves
<1>9. Holds(s, heap, granted)
  <2>1. HoldsObjects(s, heap)
      BY <1>5, HandlerFacts DEF HoldsObjects
  <2>2. HoldsMessage(s, granted)
      BY <1>2, <1>3, <1>5 DEF HoldsMessage, Wiping
  <2>3. HoldsGroup(s, heap) /\ HoldsRosters(s, granted)
      BY <1>5 DEF HoldsGroup, HoldsRosters, Wiping
  <2> QED
      BY <2>1, <2>2, <2>3 DEF Holds
<1> QED
  <2>1. /\ UNCHANGED <<heap, groups, allMembers, deletedGroups, rosters, granted, now, up, fails>>
        /\ received' = received + 1
      BY DEF Receive, memVars, storeVars
  <2>2. /\ allMembers \in [Users -> Nat] /\ deletedGroups \subseteq GroupIds
        /\ received \in Nat /\ fails \in Nat
      BY DEF GroupInv, GroupsTypeOK
  <2> QED
      BY <1>8, <1>9, <2>1, <2>2, PlaceStep

\* wipe.go:13-30: the group to wipe is looked up and its events are queried.
LEMMA WipeKeeps ==
    ASSUME GroupInv, StoreInv, NEW h \in Handlers, NEW id \in Wipes, Wipe(h, id)
    PROVE  GroupInv'
<1>1. PICK p \in 1..Len(heap) : p = groups[id]
    BY GroupsAssumption DEF Wipe, Live, GroupInv, MapInv
<1>2. Len(heap) \in Nat /\ id \in GroupIds
    BY HandlerFacts, GroupsAssumption
<1>3. PICK m : m = [NoEvent EXCEPT !.group = id]
    OBVIOUS
<1>10. m \in WipeMarks /\ m.group = id
  <2>1. m \in WipeMarks
      BY <1>2, <1>3 DEF WipeMarks
  <2>2. m.group = id
      BY <1>3 DEF NoEvent, Event
  <2> QED
      BY <2>1, <2>2
<1>4. PICK left \in SUBSET Erasable : left = {e \in db : e.group = id}
    BY DEF StoreInv, Erasable
<1>5. PICK s : s = [Idle EXCEPT !.pc = "wipeEvents", !.ev = m, !.obj = p, !.left = left]
    OBVIOUS
<1>6. /\ s \in HandlerRecords
      /\ s.pc = "wipeEvents" /\ s.ev = m /\ s.obj = p /\ s.target = 0
      /\ s.todo = <<>> /\ s.cand = <<>>
  <2>1. Idle \in HandlerRecords
      BY <1>2, IdleHolds
  <2>2. /\ "wipeEvents" \in Places /\ p \in Nat
        /\ Idle.target = 0 /\ Idle.todo = <<>> /\ Idle.cand = <<>>
      BY <1>2 DEF Places, Idle
  <2> QED
      BY <1>5, <1>10, <2>1, <2>2 DEF HandlerRecords
<1>7. hnd \in [Handlers -> HandlerRecords] /\ hnd' = [hnd EXCEPT ![h] = s]
    BY <1>1, <1>3, <1>4, <1>5 DEF Wipe, GroupInv, GroupsTypeOK
<1>8. Moves(h) /\ hnd'[h] = s
    BY <1>6, <1>7 DEF Moves
<1>9. Holds(s, heap, granted)
  <2>1. HoldsObjects(s, heap)
      BY <1>2, <1>6 DEF HoldsObjects
  <2>2. HoldsMessage(s, granted)
      BY <1>6 DEF HoldsMessage, Wiping
  <2>3. HoldsGroup(s, heap)
    <3>1. s.pc = "wipeEvents" /\ s.obj = p /\ s.ev.group = id
        BY <1>6, <1>10
    <3> QED
        BY <1>2, <3>1 DEF HoldsGroup, Wiping
  <2>4. HoldsRosters(s, granted)
      BY <1>6 DEF HoldsRosters
  <2> QED
      BY <2>1, <2>2, <2>3, <2>4 DEF Holds
<1> QED
  <2>1. /\ UNCHANGED <<heap, groups, allMembers, deletedGroups, rosters, granted, now, up, fails>>
        /\ received' = received + 1
      BY DEF Wipe, memVars, storeVars
  <2>2. /\ allMembers \in [Users -> Nat] /\ deletedGroups \subseteq GroupIds
        /\ received \in Nat /\ fails \in Nat
      BY DEF GroupInv, GroupsTypeOK
  <2> QED
      BY <1>8, <1>9, <2>1, <2>2, PlaceStep

\* khatru handlers.go:264-270: the handler is done, or goes on to the targets of a
\* kind-5 event.
LEMMA HandledMoves ==
    ASSUME GroupInv, NEW h \in Handlers, hnd' = [hnd EXCEPT ![h] = Handled(h)]
    PROVE  Moves(h) /\ Holds(hnd'[h], heap, granted)
<1>1. CASE hnd[h].ev.kind # "retract"
  <2>1. hnd' = [hnd EXCEPT ![h] = Idle]
      BY <1>1 DEF Handled
  <2> QED
      BY <2>1, BecomesIdle
<1>2. CASE hnd[h].ev.kind = "retract"
  <2>1. hnd' = [hnd EXCEPT ![h].pc = "retract"] /\ "retract" \in Places
      BY <1>2 DEF Handled, Places
  <2>2. /\ Moves(h)
        /\ hnd'[h].pc = "retract" /\ hnd'[h].ev = hnd[h].ev /\ hnd'[h].inner = hnd[h].inner
        /\ hnd'[h].obj = hnd[h].obj /\ hnd'[h].target = hnd[h].target
        /\ hnd'[h].todo = hnd[h].todo /\ hnd'[h].cand = hnd[h].cand
      BY <2>1, PcMoves
  <2>3. HoldsObjects(hnd'[h], heap) /\ HoldsRosters(hnd'[h], granted)
      BY <2>2, HandlerFacts, SameFields
  <2>4. HoldsMessage(hnd'[h], granted)
      BY <2>2 DEF HoldsMessage, Wiping
  <2>5. HoldsGroup(hnd'[h], heap)
      BY <2>2 DEF HoldsGroup, Wiping
  <2> QED
      BY <2>2, <2>3, <2>4, <2>5 DEF Holds
<1> QED
    BY <1>1, <1>2

\* process_event.go:92-106, khatru deleting.go, wipe.go:23-43: a handler on its way
\* through what it is to delete.
LEMMA ErasingMoves ==
    ASSUME GroupInv, NEW h \in Handlers, NEW p, NEW left, NEW hit,
           left \subseteq Erasable, hit \subseteq Erasable,
           \/ hnd[h].pc \in {"erase", "cache"} /\ p \in {"erase", "cache"}
           \/ hnd[h].pc = "retract" /\ p = "retract"
           \/ hnd[h].pc \in Wiping /\ p \in Wiping,
           hnd' = [hnd EXCEPT ![h] = [hnd[h] EXCEPT !.pc = p, !.left = left, !.hit = hit]]
    PROVE  Moves(h) /\ Holds(hnd'[h], heap, granted)
<1>1. hnd \in [Handlers -> HandlerRecords] /\ hnd[h] \in HandlerRecords
    BY DEF GroupInv, GroupsTypeOK
<1>2. PICK s : s = [hnd[h] EXCEPT !.pc = p, !.left = left, !.hit = hit]
    OBVIOUS
<1>3. s \in HandlerRecords
  <2>1. p \in Places
      BY DEF Places, Wiping
  <2> QED
      BY <1>1, <1>2, <2>1 DEF HandlerRecords
<1>4. /\ s.pc = p /\ s.ev = hnd[h].ev /\ s.inner = hnd[h].inner /\ s.obj = hnd[h].obj
      /\ s.target = hnd[h].target /\ s.todo = hnd[h].todo /\ s.cand = hnd[h].cand
    BY <1>1, <1>2 DEF HandlerRecords
<1>5. Moves(h) /\ hnd'[h] = s
    BY <1>1, <1>2, <1>3 DEF Moves
<1>6. HoldsObjects(s, heap) /\ HoldsRosters(s, granted)
  <2>1. s.pc # "write"
      BY <1>4 DEF Wiping
  <2> QED
      BY <1>4, <2>1, HandlerFacts, SameFields
<1>7. HoldsMessage(s, granted)
    BY <1>4, HandlerFacts DEF HoldsMessage, Wiping
<1>8. HoldsGroup(s, heap)
    BY <1>4, HandlerFacts DEF HoldsGroup, Wiping
<1> QED
    BY <1>5, <1>6, <1>7, <1>8 DEF Holds

\* One target less is left.
LEMMA LeftMoves ==
    ASSUME GroupInv, NEW h \in Handlers, NEW t,
           hnd[h].pc \in {"erase", "retract"} \cup Wiping,
           hnd' = [hnd EXCEPT ![h].left = @ \ {t}]
    PROVE  Moves(h) /\ Holds(hnd'[h], heap, granted)
<1>1. hnd[h] \in HandlerRecords
    BY HandlerFacts
<1>2. PICK left, hit : left = hnd[h].left \ {t} /\ hit = hnd[h].hit
    OBVIOUS
<1>3. left \subseteq Erasable /\ hit \subseteq Erasable
    BY <1>1, <1>2 DEF HandlerRecords
<1>4. [hnd[h] EXCEPT !.left = left]
         = [hnd[h] EXCEPT !.pc = hnd[h].pc, !.left = left, !.hit = hit]
    BY <1>1, <1>2 DEF HandlerRecords
<1>5. hnd' = [hnd EXCEPT ![h] = [hnd[h] EXCEPT !.pc = hnd[h].pc, !.left = left, !.hit = hit]]
    BY <1>2, <1>4
<1> QED
    BY <1>3, <1>5, ErasingMoves

\* The ids of stored rosters.
LEMMA VersionShape ==
    ASSUME GroupInv, NEW id \in GroupIds
    PROVE  Versions(id) \subseteq VersionRecords
<1> SUFFICES ASSUME NEW k \in DOMAIN rosters[id] PROVE VersionOf(id, k) \in VersionRecords
    BY DEF Versions
<1>1. k \in RosterNames /\ rosters[id][k] \in RosterRecords
    BY DEF GroupInv, GroupsTypeOK
<1> QED
    BY <1>1 DEF VersionOf, VersionRecords, RosterRecords

\* relay.go:46-59, process_event.go: a duplicate, the relay's own event not saved,
\* the end of delete-event, the end of the handler.
LEMMA EndingsKeep ==
    ASSUME GroupInv, NEW h \in Handlers,
           \/ StoreDuplicate(h) \/ Finish(h)
           \/ SaveInnerDuplicate(h) \/ SaveInnerFails(h)
           \/ EraseFails(h) \/ CacheDeleted(h) \/ EraseDone(h)
           \/ RetractEnds(h) \/ RetractFails(h) \/ WipeOneFails(h) \/ WipeRosters(h)
    PROVE  GroupInv'
<1>1. /\ allMembers \in [Users -> Nat] /\ deletedGroups \subseteq GroupIds
      /\ received \in Nat /\ fails \in Nat
    BY DEF GroupInv, GroupsTypeOK
<1>2. /\ UNCHANGED <<heap, groups, allMembers, deletedGroups, rosters, granted,
                     now, up, received>>
      /\ fails' \in {fails, fails + 1}
    BY DEF StoreDuplicate, Finish, SaveInnerDuplicate, SaveInnerFails,
           EraseFails, CacheDeleted, EraseDone, RetractEnds, RetractFails,
           WipeOneFails, WipeRosters, memVars, storeVars, envVars
<1>4. hnd[h] \in HandlerRecords
    BY HandlerFacts
<1>5. Moves(h) /\ Holds(hnd'[h], heap, granted)
  <2>1. CASE StoreDuplicate(h) \/ Finish(h)
      BY <2>1, HandledMoves DEF StoreDuplicate, Finish
  <2>2. CASE SaveInnerDuplicate(h) \/ SaveInnerFails(h)
    <3>1. /\ hnd[h].pc \in {"creator", "reply"}
          /\ hnd' = [hnd EXCEPT ![h].pc = "sync"]
        BY <2>2 DEF SaveInnerDuplicate, SaveInnerFails, At
    <3> QED
        BY <3>1, EndStep
  <2>3. CASE EraseDone(h)
    <3>1. hnd[h].pc = "erase" /\ hnd' = [hnd EXCEPT ![h].pc = "tail"]
        BY <2>3 DEF EraseDone, At
    <3> QED
        BY <3>1, EndStep
  <2>4. CASE EraseFails(h) \/ WipeOneFails(h)
    <3>1. hnd[h].pc \in {"erase"} \cup Wiping
        BY <2>4 DEF EraseFails, WipeOneFails, WipeTurn, At, Wiping
    <3>2. PICK t : hnd' = [hnd EXCEPT ![h].left = @ \ {t}]
        BY <2>4 DEF EraseFails, WipeOneFails
    <3> QED
        BY <1>4, <3>1, <3>2, LeftMoves
  <2>5. CASE CacheDeleted(h)
    <3>1. hnd[h].pc = "cache" /\ hnd' = [hnd EXCEPT ![h].pc = "erase", ![h].hit = {}]
        BY <2>5 DEF CacheDeleted, At
    <3>2. [hnd[h] EXCEPT !.pc = "erase", !.hit = {}]
             = [hnd[h] EXCEPT !.pc = "erase", !.left = hnd[h].left, !.hit = {}]
        BY <1>4 DEF HandlerRecords
    <3>0. PICK p, left, hit : p = "erase" /\ left = hnd[h].left /\ hit = {}
        OBVIOUS
    <3>3. hnd' = [hnd EXCEPT ![h] = [hnd[h] EXCEPT !.pc = p, !.left = left, !.hit = hit]]
        BY <3>0, <3>1, <3>2
    <3>4. left \subseteq Erasable /\ hit \subseteq Erasable /\ p \in {"erase", "cache"}
        BY <1>4, <3>0 DEF HandlerRecords
    <3> QED
        BY <3>1, <3>3, <3>4, ErasingMoves
  <2>7. CASE WipeRosters(h)
    <3>1. PICK left : left = Versions(hnd[h].ev.group)
        OBVIOUS
    <3>2. /\ hnd[h].pc = "wipeEvents"
          /\ hnd' = [hnd EXCEPT ![h].pc = "wipeRosters", ![h].left = left]
        BY <2>7, <3>1 DEF WipeRosters, At
    <3>3. [hnd[h] EXCEPT !.pc = "wipeRosters", !.left = left]
             = [hnd[h] EXCEPT !.pc = "wipeRosters", !.left = left, !.hit = hnd[h].hit]
        BY <1>4 DEF HandlerRecords
    <3>4. hnd' = [hnd EXCEPT ![h] =
                    [hnd[h] EXCEPT !.pc = "wipeRosters", !.left = left, !.hit = hnd[h].hit]]
        BY <3>2, <3>3
    <3>5. hnd[h].ev.group \in GroupIds
        BY <3>2, HandlerFacts DEF HoldsGroup, Wiping
    <3>6. left \subseteq Erasable /\ hnd[h].hit \subseteq Erasable
        BY <1>4, <3>1, <3>5, VersionShape DEF HandlerRecords, Erasable
    <3> QED
        BY <3>2, <3>4, <3>6, ErasingMoves DEF Wiping
  <2>6. CASE RetractEnds(h) \/ RetractFails(h)
      BY <2>6, BecomesIdle DEF RetractEnds, RetractFails
  <2> QED
      BY <2>1, <2>2, <2>3, <2>4, <2>5, <2>6, <2>7
<1> QED
    BY <1>1, <1>2, <1>5, PlaceStep

\* process_event.go:61-64: the group an action is about is looked up.
LEMMA LoadKeeps ==
    ASSUME GroupInv, NEW h \in Handlers, Load(h)
    PROVE  GroupInv'
<1>1. /\ allMembers \in [Users -> Nat] /\ deletedGroups \subseteq GroupIds
      /\ received \in Nat /\ fails \in Nat
    BY DEF GroupInv, GroupsTypeOK
<1>2. UNCHANGED <<heap, groups, allMembers, deletedGroups, rosters, granted,
                  now, up, received, fails>>
    BY DEF Load, memVars, storeVars, envVars
<1>3. hnd[h].pc \in {"inner", "process"}
    BY DEF Load, Loads, At
<1>4. /\ hnd[h].ev \in Messages /\ hnd[h].ev \in granted
      /\ hnd[h].ev.kind \in Answered => hnd[h].pc = "inner" /\ hnd[h].ev.author \in Users
      /\ HasAuthority(hnd[h].ev, granted)
      /\ hnd[h].pc = "inner" => hnd[h].ev.kind \in Answered
    BY <1>3, HandlerFacts DEF HoldsMessage, Wiping, Load, Loads, At, Answered, ModerationKinds
<1>5. hnd[h].ev.kind \in Answered =>
         hnd[h].inner \in Messages /\ hnd[h].inner \in granted
           /\ hnd[h].inner.group = hnd[h].ev.group
    BY <1>4, HandlerFacts DEF HoldsMessage
<1>6. Action(h).group = hnd[h].ev.group /\ hnd[h].ev.group \in GroupIds
    BY <1>4, <1>5 DEF Action, Messages
<1>7. PICK p \in 1..Len(heap) : p = groups[Action(h).group] /\ heap[p].id = hnd[h].ev.group
    BY <1>6 DEF Load, GroupInv, MapInv
<1>8. PICK s : s = [hnd[h] EXCEPT !.pc = "apply", !.target = p]
    OBVIOUS
<1>9. hnd[h] \in HandlerRecords /\ Len(heap) \in Nat
    BY HandlerFacts
<1>10. s \in HandlerRecords
  <2>1. p \in Nat /\ "apply" \in Places
      BY <1>9 DEF Places
  <2> QED
      BY <1>8, <1>9, <2>1 DEF HandlerRecords
<1>11. /\ s.pc = "apply" /\ s.target = p /\ s.ev = hnd[h].ev /\ s.inner = hnd[h].inner
       /\ s.obj = hnd[h].obj /\ s.todo = hnd[h].todo /\ s.cand = hnd[h].cand
    BY <1>8, <1>9 DEF HandlerRecords
<1>12. Moves(h) /\ hnd'[h] = s
  <2>1. hnd \in [Handlers -> HandlerRecords]
      BY DEF GroupInv, GroupsTypeOK
  <2>2. hnd' = [hnd EXCEPT ![h] = s]
      BY <1>7, <1>8 DEF Load
  <2> QED
      BY <1>10, <2>1, <2>2 DEF Moves
<1>13. Holds(s, heap, granted)
  <2>1. HoldsObjects(s, heap)
      BY <1>9, <1>11, HandlerFacts DEF HoldsObjects
  <2>2. HoldsMessage(s, granted)
      BY <1>4, <1>5, <1>11 DEF HoldsMessage, Wiping
  <2>3. HoldsGroup(s, heap)
    <3>1. s.ev.kind = "create" => s.obj # 0 /\ heap[s.obj].id = s.ev.group
        BY <1>4, <1>11, HandlerFacts DEF HoldsGroup, Answered
    <3> QED
        BY <1>7, <1>9, <1>11, <3>1 DEF HoldsGroup, Wiping
  <2>4. HoldsRosters(s, granted)
      BY <1>11, HandlerFacts DEF HoldsRosters
  <2> QED
      BY <2>1, <2>2, <2>3, <2>4 DEF Holds
<1> QED
    BY <1>1, <1>2, <1>12, <1>13, PlaceStep
\* process_event.go:124-130: the common end looks the group up again.
LEMMA LookAgainKeeps ==
    ASSUME GroupInv, NEW h \in Handlers, LookAgain(h)
    PROVE  GroupInv'
<1>1. /\ allMembers \in [Users -> Nat] /\ deletedGroups \subseteq GroupIds
      /\ received \in Nat /\ fails \in Nat
    BY DEF GroupInv, GroupsTypeOK
<1>2. UNCHANGED <<heap, groups, allMembers, deletedGroups, rosters, granted,
                  now, up, received, fails>>
    BY DEF LookAgain, memVars, storeVars, envVars
<1>3. hnd[h] \in HandlerRecords /\ Len(heap) \in Nat /\ hnd[h].pc = "tail"
    BY HandlerFacts DEF LookAgain, At
<1>4. /\ hnd[h].ev \in Messages /\ hnd[h].ev \in granted
      /\ hnd[h].ev.kind \in Answered => hnd[h].ev.author \in Users
      /\ HasAuthority(hnd[h].ev, granted)
    BY <1>3, HandlerFacts DEF HoldsMessage, Wiping
<1>5. PICK q \in 0..Len(heap) : q = groups[hnd[h].ev.group]
  <2>1. hnd[h].ev.group \in GroupIds
      BY <1>4 DEF Messages
  <2>2. groups[hnd[h].ev.group] \in 0..Len(heap)
      BY <1>3, <2>1 DEF GroupInv, GroupsTypeOK, MapInv
  <2> QED
      BY <2>2
<1>6. PICK todo : /\ todo = hnd[h].todo \/ (q # 0 /\ todo = Append(hnd[h].todo, q))
                  /\ hnd' = [hnd EXCEPT ![h].pc = "sync", ![h].todo = todo]
    BY <1>5 DEF LookAgain
<1>7. todo \in Seq(Nat) /\ \A i \in DOMAIN todo : todo[i] \in 1..Len(heap)
  <2>1. hnd[h].todo \in Seq(Nat)
      BY <1>3 DEF HandlerRecords
  <2>2. \A i \in DOMAIN hnd[h].todo : hnd[h].todo[i] \in 1..Len(heap)
      BY HandlerFacts DEF HoldsObjects
  <2>3. CASE todo = hnd[h].todo
      BY <2>1, <2>2, <2>3
  <2>4. CASE q # 0 /\ todo = Append(hnd[h].todo, q)
      BY <1>3, <2>1, <2>2, <2>4
  <2> QED
      BY <1>6, <2>3, <2>4
<1>8. PICK s : s = [hnd[h] EXCEPT !.pc = "sync", !.todo = todo]
    OBVIOUS
<1>9. s \in HandlerRecords
  <2>1. "sync" \in Places
      BY DEF Places
  <2> QED
      BY <1>3, <1>7, <1>8, <2>1 DEF HandlerRecords
<1>10. /\ s.pc = "sync" /\ s.todo = todo /\ s.ev = hnd[h].ev /\ s.inner = hnd[h].inner
       /\ s.obj = hnd[h].obj /\ s.target = hnd[h].target /\ s.cand = hnd[h].cand
    BY <1>3, <1>8 DEF HandlerRecords
<1>11. Moves(h) /\ hnd'[h] = s
  <2>1. hnd \in [Handlers -> HandlerRecords]
      BY DEF GroupInv, GroupsTypeOK
  <2>2. hnd' = [hnd EXCEPT ![h] = s]
      BY <1>6, <1>8
  <2> QED
      BY <1>9, <2>1, <2>2 DEF Moves
<1>12. Holds(s, heap, granted)
  <2>1. HoldsObjects(s, heap)
      BY <1>7, <1>10, HandlerFacts DEF HoldsObjects
  <2>2. HoldsMessage(s, granted)
      BY <1>4, <1>10 DEF HoldsMessage, Wiping
  <2>3. HoldsGroup(s, heap)
      BY <1>10 DEF HoldsGroup, Wiping
  <2>4. HoldsRosters(s, granted)
      BY <1>10, HandlerFacts DEF HoldsRosters
  <2> QED
      BY <2>1, <2>2, <2>3, <2>4 DEF Holds
<1> QED
    BY <1>1, <1>2, <1>11, <1>12, PlaceStep

\* process_event.go:124-193: a join or leave request, or any other event, finds
\* its group, and may be answered.
LEMMA ReactKeeps ==
    ASSUME GroupInv, NEW h \in Handlers, React(h)
    PROVE  GroupInv'
<1>1. /\ allMembers \in [Users -> Nat] /\ deletedGroups \subseteq GroupIds
      /\ received \in Nat /\ fails \in Nat
    BY DEF GroupInv, GroupsTypeOK
<1>2. UNCHANGED <<heap, groups, allMembers, deletedGroups, rosters, granted,
                  now, up, received, fails>>
    BY DEF React, memVars, storeVars, envVars
<1>3. hnd[h] \in HandlerRecords /\ Len(heap) \in Nat /\ hnd[h].pc = "process"
    BY HandlerFacts DEF React, At
<1>4. /\ hnd[h].ev \in Messages /\ hnd[h].ev \in granted
      /\ hnd[h].ev.kind \in Answered => hnd[h].ev.author \in Users
      /\ HasAuthority(hnd[h].ev, granted)
      /\ hnd[h].ev.kind \in {"join", "leave", "note", "retract"}
    BY <1>3, HandlerFacts DEF HoldsMessage, Wiping, React
<1>5. hnd[h].ev.group \in GroupIds
    BY <1>4 DEF Messages
<1>6. CASE groups[hnd[h].ev.group] = 0
  <2>1. hnd' = [hnd EXCEPT ![h] = Handled(h)]
      BY <1>6 DEF React
  <2> QED
      BY <1>1, <1>2, <2>1, HandledMoves, PlaceStep
<1>7. CASE groups[hnd[h].ev.group] # 0
  <2>1. PICK p \in 1..Len(heap) : p = groups[hnd[h].ev.group]
      BY <1>5, <1>7 DEF GroupInv, MapInv
  <2>2. PICK pc : /\ (pc = "reply" /\ hnd[h].ev.kind \in {"join", "leave"}) \/ pc = "sync"
                  /\ hnd' = [hnd EXCEPT ![h] = [hnd[h] EXCEPT !.obj = p, !.todo = <<p>>,
                                                              !.pc = pc]]
      BY <1>4, <1>7, <2>1 DEF React
  <2>3. PICK s : s = [hnd[h] EXCEPT !.obj = p, !.todo = <<p>>, !.pc = pc]
      OBVIOUS
  <2>4. s \in HandlerRecords
    <3>1. pc \in Places /\ p \in Nat
        BY <1>3, <2>2 DEF Places
    <3>2. <<p>> \in Seq(Nat)
        BY <3>1
    <3> QED
        BY <1>3, <2>3, <3>1, <3>2 DEF HandlerRecords
  <2>5. /\ s.pc = pc /\ s.todo = <<p>> /\ s.ev = hnd[h].ev /\ s.inner = hnd[h].inner
        /\ s.obj = p /\ s.target = hnd[h].target /\ s.cand = hnd[h].cand
      BY <1>3, <2>3 DEF HandlerRecords
  <2>6. Moves(h) /\ hnd'[h] = s
    <3>1. hnd \in [Handlers -> HandlerRecords]
        BY DEF GroupInv, GroupsTypeOK
    <3> QED
        BY <2>2, <2>3, <2>4, <3>1 DEF Moves
  <2>7. Holds(s, heap, granted)
    <3>1. HoldsObjects(s, heap)
        BY <1>3, <2>5, HandlerFacts DEF HoldsObjects
    <3>2. HoldsMessage(s, granted)
        BY <1>4, <2>2, <2>5 DEF HoldsMessage, Wiping, Answered
    <3>3. HoldsGroup(s, heap)
        BY <2>2, <2>5 DEF HoldsGroup, Wiping
    <3>4. HoldsRosters(s, granted)
        BY <2>2, <2>5, HandlerFacts DEF HoldsRosters
    <3> QED
        BY <3>1, <3>2, <3>3, <3>4 DEF Holds
  <2> QED
      BY <1>1, <1>2, <2>6, <2>7, PlaceStep
<1> QED
    BY <1>6, <1>7

\* group.go:287-306: the snapshot of an object, in the map or not, names only
\* people who were put.
LEMMA SnapshotKeeps ==
    ASSUME GroupInv, NEW h \in Handlers, Snapshot(h)
    PROVE  GroupInv'
<1>1. /\ allMembers \in [Users -> Nat] /\ deletedGroups \subseteq GroupIds
      /\ received \in Nat /\ fails \in Nat
    BY DEF GroupInv, GroupsTypeOK
<1>2. UNCHANGED <<heap, groups, allMembers, deletedGroups, rosters, granted,
                  now, up, received, fails>>
    BY DEF Snapshot, memVars, storeVars, envVars
<1>3. /\ hnd[h] \in HandlerRecords /\ Len(heap) \in Nat /\ hnd[h].pc = "sync"
      /\ hnd[h].todo \in Seq(Nat) /\ hnd[h].todo # <<>>
    BY HandlerFacts DEF Snapshot, At, HandlerRecords
<1>4. PICK i \in 1..Len(heap) : i = Head(hnd[h].todo)
    BY <1>3, HandlerFacts DEF HoldsObjects
<1>5. heap[i] \in GroupRecords /\ OnRecord(heap[i], granted)
    BY DEF GroupInv, GroupsTypeOK, HeapInv
<1>6. PICK cand : cand = Candidates(heap[i])
    OBVIOUS
<1>7. /\ cand \in Seq(CandidateRecords)
      /\ \A j \in DOMAIN cand : PeoplePut(cand[j].tags, cand[j].id, granted)
  <2>1. RosterKinds \in Seq({"metadata", "admins", "members", "roles"})
      BY GroupsAssumption
  <2>2. DOMAIN RosterKinds = 1..Len(RosterKinds) /\ Len(RosterKinds) \in Nat
      BY <2>1
  <2>3. ASSUME NEW j \in DOMAIN RosterKinds
        PROVE  /\ cand[j] \in CandidateRecords
               /\ PeoplePut(cand[j].tags, cand[j].id, granted)
    <3>1. PICK k \in RosterNames : k = RosterKinds[j]
        BY DEF RosterNames
    <3>2. cand[j] = [id |-> heap[i].id, kind |-> k, at |-> RosterAt(heap[i], k),
                     tags |-> RosterTags(heap[i], k)]
        BY <1>6, <3>1 DEF Candidates
    <3>3. /\ RosterTags(heap[i], k) \in TagRecords /\ RosterAt(heap[i], k) \in Nat
          /\ RosterTags(heap[i], k).people \subseteq heap[i].members
        BY <1>5, TagShape
    <3>4. heap[i].id \in GroupIds
        BY <1>5 DEF GroupRecords
    <3> QED
        BY <1>5, <3>2, <3>3, <3>4 DEF CandidateRecords, PeoplePut, WasPut, OnRecord
  <2>4. DOMAIN cand = DOMAIN RosterKinds /\ cand = [j \in DOMAIN RosterKinds |-> cand[j]]
      BY <1>6 DEF Candidates
  <2> QED
      BY <2>2, <2>3, <2>4
<1>8. PICK todo : todo = Tail(hnd[h].todo)
    OBVIOUS
<1>9. todo \in Seq(Nat) /\ \A j \in DOMAIN todo : todo[j] \in 1..Len(heap)
    BY <1>3, <1>8, HandlerFacts DEF HoldsObjects
<1>10. PICK s : s = [hnd[h] EXCEPT !.pc = "read", !.cand = cand, !.todo = todo]
    OBVIOUS
<1>11. s \in HandlerRecords
  <2>1. "read" \in Places
      BY DEF Places
  <2> QED
      BY <1>3, <1>7, <1>9, <1>10, <2>1 DEF HandlerRecords
<1>12. /\ s.pc = "read" /\ s.todo = todo /\ s.ev = hnd[h].ev /\ s.inner = hnd[h].inner
       /\ s.obj = hnd[h].obj /\ s.target = hnd[h].target /\ s.cand = cand
    BY <1>3, <1>10 DEF HandlerRecords
<1>13. Moves(h) /\ hnd'[h] = s
  <2>1. hnd \in [Handlers -> HandlerRecords]
      BY DEF GroupInv, GroupsTypeOK
  <2>2. hnd' = [hnd EXCEPT ![h] = s]
      BY <1>4, <1>6, <1>8, <1>10 DEF Snapshot
  <2> QED
      BY <1>11, <2>1, <2>2 DEF Moves
<1>14. Holds(s, heap, granted)
  <2>1. HoldsObjects(s, heap)
      BY <1>9, <1>12, HandlerFacts DEF HoldsObjects
  <2>2. HoldsMessage(s, granted)
      BY <1>3, <1>12, HandlerFacts DEF HoldsMessage, Wiping
  <2>3. HoldsGroup(s, heap)
      BY <1>12 DEF HoldsGroup, Wiping
  <2>4. HoldsRosters(s, granted)
      BY <1>7, <1>12 DEF HoldsRosters
  <2> QED
      BY <2>1, <2>2, <2>3, <2>4 DEF Holds
<1> QED
    BY <1>1, <1>2, <1>13, <1>14, PlaceStep

\* group.go:308-349: a handler on its way through the rosters, whatever it keeps
\* of the ones to write.
LEMMA RosterMoves ==
    ASSUME GroupInv, NEW h \in Handlers, hnd[h].pc \in {"read", "write"},
           NEW s \in HandlerRecords, s.pc \in {"read", "write", "sync"},
           s.ev = hnd[h].ev, s.inner = hnd[h].inner, s.obj = hnd[h].obj,
           s.target = hnd[h].target, s.todo = hnd[h].todo,
           s.cand = hnd[h].cand \/ (hnd[h].cand # <<>> /\ s.cand = Tail(hnd[h].cand)),
           s.pc = "write" => s.cand # <<>>,
           hnd' = [hnd EXCEPT ![h] = s]
    PROVE  Moves(h) /\ Holds(hnd'[h], heap, granted)
<1>1. hnd[h] \in HandlerRecords /\ hnd[h].cand \in Seq(CandidateRecords)
    BY HandlerFacts DEF HandlerRecords
<1>2. \A i \in DOMAIN s.cand : PeoplePut(s.cand[i].tags, s.cand[i].id, granted)
  <2>1. CASE s.cand = hnd[h].cand
      BY <2>1, HandlerFacts DEF HoldsRosters
  <2>2. CASE hnd[h].cand # <<>> /\ s.cand = Tail(hnd[h].cand)
    <3>1. \A i \in DOMAIN s.cand :
             i + 1 \in DOMAIN hnd[h].cand /\ s.cand[i] = hnd[h].cand[i + 1]
        BY <1>1, <2>2
    <3> QED
        BY <3>1, HandlerFacts DEF HoldsRosters
  <2> QED
      BY <2>1, <2>2
<1>3. Moves(h) /\ hnd'[h] = s
  <2>1. hnd \in [Handlers -> HandlerRecords]
      BY DEF GroupInv, GroupsTypeOK
  <2> QED
      BY <2>1 DEF Moves
<1>4. Holds(s, heap, granted)
  <2>1. HoldsObjects(s, heap)
      BY HandlerFacts DEF HoldsObjects
  <2>2. HoldsMessage(s, granted)
      BY HandlerFacts DEF HoldsMessage, Wiping
  <2>3. HoldsGroup(s, heap)
      BY DEF HoldsGroup, Wiping
  <2>4. HoldsRosters(s, granted)
      BY <1>2 DEF HoldsRosters
  <2> QED
      BY <2>1, <2>2, <2>3, <2>4 DEF Holds
<1> QED
    BY <1>3, <1>4

\* group.go:309-349: the handler has dealt with one roster and turns to the next.
LEMMA NextRoster ==
    ASSUME GroupInv, NEW h \in Handlers, hnd[h].pc \in {"read", "write"},
           hnd[h].cand # <<>>,
           \/ hnd' = [hnd EXCEPT ![h].pc = "read", ![h].cand = Tail(@)]
           \/ hnd[h].pc = "read" /\ hnd' = [hnd EXCEPT ![h].cand = Tail(@)]
    PROVE  Moves(h) /\ Holds(hnd'[h], heap, granted)
<1>1. hnd[h] \in HandlerRecords /\ hnd[h].cand \in Seq(CandidateRecords)
    BY HandlerFacts DEF HandlerRecords
<1>2. PICK cand : cand = Tail(hnd[h].cand)
    OBVIOUS
<1>3. cand \in Seq(CandidateRecords) /\ "read" \in Places
    BY <1>1, <1>2 DEF Places
<1>4. CASE hnd' = [hnd EXCEPT ![h].pc = "read", ![h].cand = Tail(@)]
  <2>1. PICK s : s = [hnd[h] EXCEPT !.pc = "read", !.cand = cand]
      OBVIOUS
  <2>2. s \in HandlerRecords
      BY <1>1, <1>3, <2>1 DEF HandlerRecords
  <2>3. /\ s.pc = "read" /\ s.todo = hnd[h].todo /\ s.ev = hnd[h].ev
        /\ s.inner = hnd[h].inner /\ s.obj = hnd[h].obj
        /\ s.target = hnd[h].target /\ s.cand = cand
      BY <1>1, <2>1 DEF HandlerRecords
  <2>4. hnd' = [hnd EXCEPT ![h] = s]
      BY <1>2, <1>4, <2>1
  <2> QED
      BY <1>2, <2>2, <2>3, <2>4, RosterMoves
<1>5. CASE hnd[h].pc = "read" /\ hnd' = [hnd EXCEPT ![h].cand = Tail(@)]
  <2>1. PICK s : s = [hnd[h] EXCEPT !.cand = cand]
      OBVIOUS
  <2>2. s \in HandlerRecords
      BY <1>1, <1>3, <2>1 DEF HandlerRecords
  <2>3. /\ s.pc = "read" /\ s.todo = hnd[h].todo /\ s.ev = hnd[h].ev
        /\ s.inner = hnd[h].inner /\ s.obj = hnd[h].obj
        /\ s.target = hnd[h].target /\ s.cand = cand
      BY <1>1, <1>5, <2>1 DEF HandlerRecords
  <2>4. hnd' = [hnd EXCEPT ![h] = s]
      BY <1>2, <1>5, <2>1
  <2> QED
      BY <1>2, <2>2, <2>3, <2>4, RosterMoves
<1> QED
    BY <1>4, <1>5

\* group.go:310-342: reading, skipping and failing to write a roster.
LEMMA RosterReadsKeep ==
    ASSUME GroupInv, NEW h \in Handlers,
           SkipRoster(h) \/ ReadRoster(h) \/ RostersDone(h) \/ WriteRosterFails(h)
    PROVE  GroupInv'
<1>1. /\ allMembers \in [Users -> Nat] /\ deletedGroups \subseteq GroupIds
      /\ received \in Nat /\ fails \in Nat
    BY DEF GroupInv, GroupsTypeOK
<1>2. /\ UNCHANGED <<heap, groups, allMembers, deletedGroups, rosters, granted,
                     now, up, received>>
      /\ fails' \in {fails, fails + 1}
    BY DEF SkipRoster, ReadRoster, RostersDone, WriteRosterFails, memVars, storeVars, envVars
<1>3. hnd[h] \in HandlerRecords /\ hnd[h].cand \in Seq(CandidateRecords)
    BY HandlerFacts DEF HandlerRecords
<1>4. Moves(h) /\ Holds(hnd'[h], heap, granted)
  <2>1. CASE SkipRoster(h)
    <3>1. hnd[h].pc = "read" /\ hnd[h].cand # <<>> /\ hnd' = [hnd EXCEPT ![h].cand = Tail(@)]
        BY <2>1 DEF SkipRoster, At
    <3> QED
        BY <3>1, NextRoster
  <2>2. CASE WriteRosterFails(h)
    <3>1. hnd[h].pc = "write" /\ hnd' = [hnd EXCEPT ![h].pc = "read", ![h].cand = Tail(@)]
        BY <2>2 DEF WriteRosterFails, At
    <3>2. hnd[h].cand # <<>>
        BY <3>1, HandlerFacts DEF HoldsRosters
    <3> QED
        BY <3>1, <3>2, NextRoster
  <2>3. CASE ReadRoster(h)
    <3>1. PICK c \in Nat : c = StoredRoster(Head(hnd[h].cand)).at
      <4>1. hnd[h].cand # <<>>
          BY <2>3 DEF ReadRoster
      <4>2. Head(hnd[h].cand) \in CandidateRecords
          BY <1>3, <4>1
      <4>3. /\ Head(hnd[h].cand).id \in GroupIds
            /\ Head(hnd[h].cand).kind \in RosterNames
          BY <4>2 DEF CandidateRecords
      <4>4. rosters[Head(hnd[h].cand).id][Head(hnd[h].cand).kind] \in RosterRecords
          BY <4>3 DEF GroupInv, GroupsTypeOK
      <4> QED
          BY <4>4 DEF StoredRoster, RosterRecords
    <3>2. /\ hnd[h].pc = "read" /\ hnd[h].cand # <<>>
          /\ hnd' = [hnd EXCEPT ![h].pc = "write", ![h].cur = c]
        BY <2>3, <3>1 DEF ReadRoster, At
    <3>3. PICK s : s = [hnd[h] EXCEPT !.pc = "write", !.cur = c]
        OBVIOUS
    <3>4. s \in HandlerRecords
      <4>1. "write" \in Places
          BY DEF Places
      <4> QED
          BY <1>3, <3>3, <4>1 DEF HandlerRecords
    <3>5. /\ s.pc = "write" /\ s.todo = hnd[h].todo /\ s.ev = hnd[h].ev
          /\ s.inner = hnd[h].inner /\ s.obj = hnd[h].obj
          /\ s.target = hnd[h].target /\ s.cand = hnd[h].cand
        BY <1>3, <3>3 DEF HandlerRecords
    <3>6. hnd' = [hnd EXCEPT ![h] = s]
        BY <3>2, <3>3
    <3> QED
        BY <3>2, <3>4, <3>5, <3>6, RosterMoves
  <2>4. CASE RostersDone(h)
    <3>1. hnd[h].pc = "read" /\ hnd' = [hnd EXCEPT ![h].pc = "sync", ![h].cur = 0]
        BY <2>4 DEF RostersDone, At
    <3>2. PICK s : s = [hnd[h] EXCEPT !.pc = "sync", !.cur = 0]
        OBVIOUS
    <3>3. s \in HandlerRecords
      <4>1. "sync" \in Places
          BY DEF Places
      <4> QED
          BY <1>3, <3>2, <4>1 DEF HandlerRecords
    <3>4. /\ s.pc = "sync" /\ s.todo = hnd[h].todo /\ s.ev = hnd[h].ev
          /\ s.inner = hnd[h].inner /\ s.obj = hnd[h].obj
          /\ s.target = hnd[h].target /\ s.cand = hnd[h].cand
        BY <1>3, <3>2 DEF HandlerRecords
    <3>5. hnd' = [hnd EXCEPT ![h] = s]
        BY <3>1, <3>2
    <3> QED
        BY <3>1, <3>3, <3>4, <3>5, RosterMoves
  <2> QED
      BY <2>1, <2>2, <2>3, <2>4
<1> QED
    BY <1>1, <1>2, <1>4, PlaceStep

-----------------------------------------------------------------------------
(* The steps that write rosters and delete what is stored *)

\* group.go:322-331: a roster that is written names only people who were put.
LEMMA WriteRosterKeeps ==
    ASSUME GroupInv, NEW h \in Handlers, WriteRoster(h)
    PROVE  GroupInv'
<1>1. /\ hnd[h].pc = "write"
      /\ hnd' = [hnd EXCEPT ![h].pc = "read", ![h].cand = Tail(@)]
      /\ UNCHANGED <<heap, groups, allMembers, deletedGroups, granted, now, up, received, fails>>
    BY DEF WriteRoster, At, memVars, envVars
<1>2. hnd[h] \in HandlerRecords /\ hnd[h].cand \in Seq(CandidateRecords) /\ hnd[h].cur \in Nat
    BY HandlerFacts DEF HandlerRecords
<1>3. hnd[h].cand # <<>>
    BY <1>1, HandlerFacts DEF HoldsRosters
<1>4. PICK c \in CandidateRecords : c = Head(hnd[h].cand)
    BY <1>2, <1>3
<1>5. c.id \in GroupIds /\ c.kind \in RosterNames /\ c.at \in Nat /\ c.tags \in TagRecords
    BY DEF CandidateRecords
<1>6. PeoplePut(c.tags, c.id, granted)
  <2>1. 1 \in DOMAIN hnd[h].cand /\ c = hnd[h].cand[1]
      BY <1>2, <1>3, <1>4
  <2> QED
      BY <2>1, HandlerFacts DEF HoldsRosters
<1>7. PICK at \in Nat : at = Bumped(c, hnd[h].cur)
    BY <1>2, <1>5 DEF Bumped
<1>8. rosters \in [GroupIds -> [RosterNames -> RosterRecords]]
    BY DEF GroupInv, GroupsTypeOK
<1>9. PICK r : r = [stored |-> TRUE, at |-> at, tags |-> c.tags]
    OBVIOUS
<1>10. r \in RosterRecords /\ r.stored /\ r.at = at /\ r.tags = c.tags
    BY <1>5, <1>9 DEF RosterRecords
<1>11. /\ \/ UNCHANGED rosters
          \/ /\ rosters' = [rosters EXCEPT ![c.id][c.kind] = r]
             /\ rosters[c.id][c.kind].stored => rosters[c.id][c.kind].at <= at
    BY <1>4, <1>7, <1>9 DEF WriteRoster, StoredRoster
<1>12. /\ rosters' \in [GroupIds -> [RosterNames -> RosterRecords]]
       /\ \A id \in GroupIds : \A k \in RosterNames :
             \/ rosters'[id][k] = rosters[id][k]
             \/ /\ id = c.id /\ k = c.kind /\ rosters'[id][k] = r
                /\ rosters[id][k].stored => rosters[id][k].at <= at
  <2>1. CASE UNCHANGED rosters
      BY <1>8, <2>1
  <2>2. CASE /\ rosters' = [rosters EXCEPT ![c.id][c.kind] = r]
             /\ rosters[c.id][c.kind].stored => rosters[c.id][c.kind].at <= at
      BY <1>5, <1>8, <1>10, <2>2
  <2> QED
      BY <1>11, <2>1, <2>2
<1>13. RosterInv'
  <2> SUFFICES ASSUME NEW id \in GroupIds, NEW k \in RosterNames
               PROVE  /\ ~rosters'[id][k].stored => rosters'[id][k].at = 0
                      /\ PeoplePut(rosters'[id][k].tags, id, granted')
      BY DEF RosterInv
  <2>1. CASE rosters'[id][k] = rosters[id][k]
      BY <1>1, <2>1 DEF GroupInv, RosterInv
  <2>2. CASE id = c.id /\ rosters'[id][k] = r
      BY <1>1, <1>6, <1>10, <2>2
  <2> QED
      BY <1>12, <2>1, <2>2
<1>14. Moves(h) /\ Holds(hnd'[h], heap, granted)
    BY <1>1, <1>3, NextRoster
<1>15. HandlerInv'
    BY <1>1, <1>14, OneMoves, GrowsStill
<1>16. GroupsTypeOK'
    BY <1>1, <1>12, <1>14 DEF GroupInv, GroupsTypeOK, Moves
<1>17. MapInv' /\ HeapInv' /\ GrantInv'
    BY <1>1 DEF GroupInv, MapInv, HeapInv, GrantInv
<1> QED
    BY <1>13, <1>15, <1>16, <1>17 DEF GroupInv

\* A roster that is not stored names nobody.
LEMMA NoRosterShape ==
    /\ NoRoster \in RosterRecords /\ ~NoRoster.stored /\ NoRoster.at = 0
    /\ NoRoster.tags.people = {}
<1>1. [u \in Users |-> {}] \in [Users -> SUBSET RoleNames]
    OBVIOUS
<1>2. BlankTags \in TagRecords
    BY <1>1 DEF BlankTags, TagRecords
<1>3. BlankTags.people = {}
    BY DEF BlankTags
<1> QED
    BY <1>2, <1>3 DEF NoRoster, RosterRecords

\* mmm DeleteEvent: what has the id leaves the store, a roster too.
LEMMA DeletedRosters ==
    ASSUME GroupInv, NEW t, DeleteFromStore(t)
    PROVE  /\ rosters' \in [GroupIds -> [RosterNames -> RosterRecords]]
           /\ \A id \in GroupIds : \A k \in RosterNames :
                 rosters'[id][k] = rosters[id][k] \/ rosters'[id][k] = NoRoster
<1>1. rosters \in [GroupIds -> [RosterNames -> RosterRecords]]
    BY DEF GroupInv, GroupsTypeOK
<1>2. NoRoster \in RosterRecords
    BY NoRosterShape
<1>3. PICK V : V = [id \in GroupIds |-> [k \in RosterNames |-> VersionOf(id, k)]]
    OBVIOUS
<1>4. rosters' = [id \in GroupIds |-> [k \in RosterNames |->
                     IF rosters[id][k].stored /\ t = V[id][k]
                     THEN NoRoster ELSE rosters[id][k]]]
    BY <1>1, <1>3 DEF DeleteFromStore
<1>5. ASSUME NEW id \in GroupIds
      PROVE  [k \in RosterNames |-> IF rosters[id][k].stored /\ t = V[id][k]
                                    THEN NoRoster ELSE rosters[id][k]]
                \in [RosterNames -> RosterRecords]
    BY <1>1, <1>2
<1>6. rosters' \in [GroupIds -> [RosterNames -> RosterRecords]]
    BY <1>4, <1>5
<1> QED
    BY <1>4, <1>6

\* process_event.go:94-101, khatru deleting.go, wipe.go:31-43: one target is deleted.
LEMMA ErasuresKeep ==
    ASSUME GroupInv, NEW h \in Handlers, Erase(h) \/ Retract(h) \/ WipeOne(h)
    PROVE  GroupInv'
<1>1. UNCHANGED <<heap, groups, allMembers, deletedGroups, granted, now, up, received, fails>>
    BY DEF Erase, Retract, WipeOne, memVars
<1>2. /\ rosters' \in [GroupIds -> [RosterNames -> RosterRecords]]
      /\ \A id \in GroupIds : \A k \in RosterNames :
            rosters'[id][k] = rosters[id][k] \/ rosters'[id][k] = NoRoster
  <2>1. CASE \E t : DeleteFromStore(t)
      BY <2>1, DeletedRosters
  <2>2. CASE UNCHANGED rosters
      BY <2>2 DEF GroupInv, GroupsTypeOK
  <2> QED
      BY <2>1, <2>2 DEF Erase, Retract, WipeOne
<1>3. /\ NoRoster \in RosterRecords /\ ~NoRoster.stored /\ NoRoster.at = 0
      /\ NoRoster.tags.people = {}
    BY NoRosterShape
<1>4. hnd[h] \in HandlerRecords
    BY HandlerFacts
<1>5. Moves(h) /\ Holds(hnd'[h], heap, granted)
  <2>1. CASE Erase(h)
    <3>1. PICK t \in hnd[h].left :
             hnd' = [hnd EXCEPT ![h].pc = "cache", ![h].left = @ \ {t}, ![h].hit = {t}]
        BY <2>1 DEF Erase
    <3>2. PICK left, hit : left = hnd[h].left \ {t} /\ hit = {t}
        OBVIOUS
    <3>3. left \subseteq Erasable /\ hit \subseteq Erasable
        BY <1>4, <3>2 DEF HandlerRecords
    <3>4. hnd[h].pc = "erase"
        BY <2>1 DEF Erase, At
    <3>5. hnd' = [hnd EXCEPT ![h] = [hnd[h] EXCEPT !.pc = "cache", !.left = left, !.hit = hit]]
        BY <3>1, <3>2
    <3> QED
        BY <3>3, <3>4, <3>5, ErasingMoves
  <2>2. CASE Retract(h) \/ WipeOne(h)
    <3>1. PICK t : hnd' = [hnd EXCEPT ![h].left = @ \ {t}]
        BY <2>2 DEF Retract, WipeOne
    <3>2. hnd[h].pc \in {"erase", "retract"} \cup Wiping
        BY <2>2 DEF Retract, WipeOne, WipeTurn, At, Wiping
    <3> QED
        BY <3>1, <3>2, LeftMoves
  <2> QED
      BY <2>1, <2>2
<1>6. RosterInv'
  <2> SUFFICES ASSUME NEW id \in GroupIds, NEW k \in RosterNames
               PROVE  /\ ~rosters'[id][k].stored => rosters'[id][k].at = 0
                      /\ PeoplePut(rosters'[id][k].tags, id, granted')
      BY DEF RosterInv
  <2>1. CASE rosters'[id][k] = rosters[id][k]
      BY <1>1, <2>1 DEF GroupInv, RosterInv
  <2>2. CASE rosters'[id][k] = NoRoster
      BY <1>3, <2>2 DEF PeoplePut
  <2> QED
      BY <1>2, <2>1, <2>2
<1>7. HandlerInv'
    BY <1>1, <1>5, OneMoves, GrowsStill
<1>8. GroupsTypeOK'
    BY <1>1, <1>2, <1>5 DEF GroupInv, GroupsTypeOK, Moves
<1>9. MapInv' /\ HeapInv' /\ GrantInv'
    BY <1>1 DEF GroupInv, MapInv, HeapInv, GrantInv
<1> QED
    BY <1>6, <1>7, <1>8, <1>9 DEF GroupInv
-----------------------------------------------------------------------------
(* The steps that store events, take groups out of the map or put them in *)

\* relay.go:54-56, process_event.go:119, wipe.go:54: an id leaves the map.
LEMMA ForgetStep ==
    ASSUME GroupInv, NEW h \in Handlers, NEW id,
           groups' = [groups EXCEPT ![id] = 0] \/ groups' = groups,
           Moves(h), Holds(hnd'[h], heap, granted),
           UNCHANGED <<heap, rosters, granted, now, up>>,
           allMembers' \in [Users -> Nat], deletedGroups' \subseteq GroupIds,
           received' \in Nat, fails' \in Nat
    PROVE  GroupInv'
<1>1. groups \in [GroupIds -> Nat]
    BY DEF GroupInv, GroupsTypeOK
<1>2. /\ groups' \in [GroupIds -> Nat]
      /\ \A i \in GroupIds : groups'[i] = groups[i] \/ groups'[i] = 0
    BY <1>1
<1>3. MapInv'
    BY <1>2 DEF GroupInv, MapInv
<1>4. HandlerInv'
    BY OneMoves, GrowsStill
<1>5. GroupsTypeOK'
    BY <1>2 DEF GroupInv, GroupsTypeOK, Moves
<1>6. HeapInv' /\ GrantInv' /\ RosterInv'
    BY DEF GroupInv, HeapInv, GrantInv, RosterInv
<1> QED
    BY <1>3, <1>4, <1>5, <1>6 DEF GroupInv

\* A store error takes the placeholder out, a deletion or a wipe the group.
LEMMA ForgetsKeep ==
    ASSUME GroupInv, NEW h \in Handlers, StoreFails(h) \/ Drop(h) \/ WipeMemory(h)
    PROVE  GroupInv'
<1>1. /\ allMembers \in [Users -> Nat] /\ deletedGroups \subseteq GroupIds
      /\ received \in Nat /\ fails \in Nat
    BY DEF GroupInv, GroupsTypeOK
<1>2. CASE StoreFails(h)
  <2>1. /\ UNCHANGED <<heap, rosters, granted, now, up, allMembers, deletedGroups, received>>
        /\ fails' = fails + 1 /\ hnd' = [hnd EXCEPT ![h] = Idle]
        /\ groups' = [groups EXCEPT ![hnd[h].ev.group] = 0] \/ groups' = groups
      BY <1>2 DEF StoreFails, storeVars
  <2>2. Moves(h) /\ Holds(hnd'[h], heap, granted)
      BY <2>1, BecomesIdle
  <2>3. fails' \in Nat
      BY <1>1, <2>1
  <2>4. PICK id : groups' = [groups EXCEPT ![id] = 0] \/ groups' = groups
      BY <2>1
  <2> QED
      BY <1>1, <2>1, <2>2, <2>3, <2>4, ForgetStep
<1>3. CASE Drop(h)
  <2>1. /\ hnd[h].pc = "drop" /\ hnd' = [hnd EXCEPT ![h].pc = "sync"]
        /\ UNCHANGED <<heap, rosters, granted, now, up, allMembers, received, fails>>
        /\ groups' = [groups EXCEPT ![hnd[h].ev.group] = 0]
        /\ deletedGroups' = deletedGroups \cup {hnd[h].ev.group}
      BY <1>3 DEF Drop, At, storeVars, envVars
  <2>2. hnd[h].ev.group \in GroupIds
    <3>1. hnd[h].ev \in Messages
        BY <2>1, HandlerFacts DEF HoldsMessage, Wiping
    <3> QED
        BY <3>1 DEF Messages
  <2>3. Moves(h) /\ Holds(hnd'[h], heap, granted)
      BY <2>1, EndStep
  <2> QED
      BY <1>1, <2>1, <2>2, <2>3, ForgetStep
<1>4. CASE WipeMemory(h)
  <2>1. /\ UNCHANGED <<heap, rosters, granted, now, up, deletedGroups, received, fails>>
        /\ groups' = [groups EXCEPT ![heap[hnd[h].obj].id] = 0]
        /\ hnd' = [hnd EXCEPT ![h] = Idle]
        /\ allMembers' = [u \in Users |-> IF u \in heap[hnd[h].obj].members
                            THEN Monus(allMembers[u], 1) ELSE allMembers[u]]
      BY <1>4 DEF WipeMemory, storeVars, envVars
  <2>2. allMembers' \in [Users -> Nat]
      BY <1>1, <2>1, MonusType
  <2> QED
      BY <1>1, <2>1, <2>2, BecomesIdle, ForgetStep
<1> QED
    BY <1>2, <1>3, <1>4

\* store.go SaveEvent: one more event that has its authority is in the store.
LEMMA GrantStep ==
    ASSUME GroupInv, NEW h \in Handlers, NEW e, HasAuthority(e, granted),
           granted' = granted \cup {e},
           Moves(h), Holds(hnd'[h], heap, granted'),
           UNCHANGED <<heap, groups, allMembers, deletedGroups, rosters,
                       now, up, received, fails>>
    PROVE  GroupInv'
<1>1. Len(heap) \in Nat
    BY HandlerFacts
<1>2. Grows(heap, granted, heap', granted')
    BY <1>1 DEF Grows
<1>3. HandlerInv'
    BY <1>2, OneMoves
<1>4. GrantInv'
    BY DEF GroupInv, GrantInv, HasAuthority
<1>5. HeapInv'
    BY DEF GroupInv, HeapInv, OnRecord
<1>6. RosterInv'
    BY DEF GroupInv, RosterInv, PeoplePut, WasPut
<1>7. GroupsTypeOK' /\ MapInv'
    BY DEF GroupInv, GroupsTypeOK, MapInv, Moves
<1> QED
    BY <1>3, <1>4, <1>5, <1>6, <1>7 DEF GroupInv

\* relay.go:46-59: the message is saved, and from here on processed.
LEMMA StoreEventKeeps ==
    ASSUME GroupInv, NEW h \in Handlers, StoreEvent(h)
    PROVE  GroupInv'
<1>1. /\ hnd[h].pc = "store" /\ granted' = granted \cup {hnd[h].ev}
      /\ hnd' = [hnd EXCEPT ![h].pc = "process"]
      /\ UNCHANGED <<heap, groups, allMembers, deletedGroups, rosters,
                     now, up, received, fails>>
    BY DEF StoreEvent, At, memVars, envVars
<1>2. /\ hnd[h].ev \in Messages /\ HasAuthority(hnd[h].ev, granted)
      /\ hnd[h].ev.kind \in Answered => hnd[h].ev.author \in Users
    BY <1>1, HandlerFacts DEF HoldsMessage, Wiping
<1>3. /\ Moves(h)
      /\ hnd'[h].pc = "process" /\ hnd'[h].ev = hnd[h].ev /\ hnd'[h].inner = hnd[h].inner
      /\ hnd'[h].obj = hnd[h].obj /\ hnd'[h].target = hnd[h].target
      /\ hnd'[h].todo = hnd[h].todo /\ hnd'[h].cand = hnd[h].cand
  <2>1. "process" \in Places
      BY DEF Places
  <2> QED
      BY <1>1, <2>1, PcMoves
<1>4. Holds(hnd'[h], heap, granted')
  <2>1. HoldsObjects(hnd'[h], heap)
      BY <1>3, HandlerFacts, SameFields
  <2>2. HoldsMessage(hnd'[h], granted')
      BY <1>1, <1>2, <1>3 DEF HoldsMessage, Wiping, HasAuthority
  <2>3. HoldsGroup(hnd'[h], heap)
      BY <1>3 DEF HoldsGroup, Wiping
  <2>4. HoldsRosters(hnd'[h], granted')
      BY <1>1, <1>3, HandlerFacts DEF HoldsRosters, PeoplePut, WasPut
  <2> QED
      BY <2>1, <2>2, <2>3, <2>4 DEF Holds
<1> QED
    BY <1>1, <1>2, <1>3, <1>4, GrantStep

\* An event with blank tags is a message.
LEMMA EventShape ==
    ASSUME NEW kind \in ModerationKinds, NEW id \in GroupIds,
           NEW who \in Users \cup {RelayKey, Owner}, NEW at \in Nat
    PROVE  /\ Event(kind, id, who, at) \in Messages
           /\ Event(kind, id, who, at).author = who /\ Event(kind, id, who, at).group = id
           /\ Event(kind, id, who, at).kind = kind
BY DEF Event, Messages

\* process_event.go:39-50: the event that makes the creator an admin is a
\* message of the group, signed by the relay.
LEMMA AddCreatorShape ==
    ASSUME NEW e \in Messages, e.author \in Users
    PROVE  /\ AddCreator(e) \in Messages /\ AddCreator(e).author = RelayKey
           /\ AddCreator(e).group = e.group /\ AddCreator(e).kind = "put"
<1>1. /\ e.group \in GroupIds /\ e.at \in Nat /\ {e.author} \in SUBSET Users
      /\ "put" \in ModerationKinds
    BY DEF Messages, ModerationKinds
<1>2. PICK b \in Messages : /\ b = Event("put", e.group, RelayKey, e.at)
                            /\ b.author = RelayKey /\ b.group = e.group /\ b.kind = "put"
  <2>1. RelayKey \in Users \cup {RelayKey, Owner}
      OBVIOUS
  <2>2. /\ Event("put", e.group, RelayKey, e.at) \in Messages
        /\ Event("put", e.group, RelayKey, e.at).author = RelayKey
        /\ Event("put", e.group, RelayKey, e.at).group = e.group
        /\ Event("put", e.group, RelayKey, e.at).kind = "put"
      BY <1>1, <2>1, EventShape
  <2> QED
      BY <2>2
<1>3. PICK us \in SUBSET Users, x \in SUBSET RoleNames : us = {e.author} /\ x = {Admin}
    BY <1>1 DEF Admin, RoleNames
<1>4. PICK m : m = AddCreator(e)
    OBVIOUS
<1>5. m = [b EXCEPT !.users = us, !.roles = x]
    BY <1>2, <1>3, <1>4 DEF AddCreator
<1>6. m \in Messages /\ m.author = b.author /\ m.group = b.group /\ m.kind = b.kind
    BY <1>5 DEF Messages
<1> QED
    BY <1>2, <1>4, <1>6

\* process_event.go:39-50, 133-181: the put-user or remove-user event the relay
\* writes is a message of the group, signed by the relay.
LEMMA InnerShape ==
    ASSUME GroupInv, NEW h \in Handlers, hnd[h].pc \in {"creator", "reply"}
    PROVE  /\ InnerEvent(h) \in Messages /\ InnerEvent(h).author = RelayKey
           /\ InnerEvent(h).group = hnd[h].ev.group
<1>1. PICK e \in Messages : e = hnd[h].ev
    BY HandlerFacts DEF HoldsMessage, Wiping
<1>2. e.kind \in Answered /\ e.author \in Users
    BY <1>1, HandlerFacts DEF HoldsMessage, Wiping, Answered
<1>3. /\ e.group \in GroupIds /\ e.at \in Nat /\ e.code \in Codes \cup {None}
      /\ {e.author} \in SUBSET Users
    BY <1>2 DEF Messages
<1>4. now \in Nat
    BY DEF GroupInv, GroupsTypeOK
<1>5. "put" \in ModerationKinds /\ "remove" \in ModerationKinds
    BY DEF ModerationKinds
<1>6. /\ AddCreator(e) \in Messages /\ AddCreator(e).author = RelayKey
      /\ AddCreator(e).group = e.group
    BY <1>2, AddCreatorShape
<1>7. /\ AddUser(e, now) \in Messages /\ AddUser(e, now).author = RelayKey
      /\ AddUser(e, now).group = e.group
  <2>1. PICK b \in Messages : /\ b = Event("put", e.group, RelayKey, now)
                              /\ b.author = RelayKey /\ b.group = e.group
      BY <1>3, <1>4, <1>5, EventShape
  <2>2. PICK us \in SUBSET Users, x \in Codes \cup {None} :
         us = {e.author} /\ x = IF e.code = None THEN EmptyCode ELSE e.code
      BY <1>3, Nip29Assumption
  <2>3. PICK m : m = AddUser(e, now)
      OBVIOUS
  <2>4. m = [b EXCEPT !.users = us, !.code = x]
      BY <2>1, <2>2, <2>3 DEF AddUser
  <2>5. m \in Messages /\ m.author = b.author /\ m.group = b.group
      BY <2>4 DEF Messages
  <2> QED
      BY <2>1, <2>3, <2>5
<1>8. /\ SelfRemoval(e, now) \in Messages /\ SelfRemoval(e, now).author = RelayKey
      /\ SelfRemoval(e, now).group = e.group
  <2>1. PICK b \in Messages : /\ b = Event("remove", e.group, RelayKey, now)
                              /\ b.author = RelayKey /\ b.group = e.group
      BY <1>3, <1>4, <1>5, EventShape
  <2>2. PICK us \in SUBSET Users, x \in BOOLEAN : us = {e.author} /\ x = TRUE
      BY <1>3
  <2>3. PICK m : m = SelfRemoval(e, now)
      OBVIOUS
  <2>4. m = [b EXCEPT !.users = us, !.self = x]
      BY <2>1, <2>2, <2>3 DEF SelfRemoval
  <2>5. m \in Messages /\ m.author = b.author /\ m.group = b.group
      BY <2>4 DEF Messages
  <2> QED
      BY <2>1, <2>3, <2>5
<1>9. InnerEvent(h) \in {AddCreator(e), AddUser(e, now), SelfRemoval(e, now)}
    BY <1>1, <1>2 DEF InnerEvent, Answered
<1> QED
    BY <1>1, <1>6, <1>7, <1>8, <1>9

\* process_event.go:51, 152, 182: the relay's own event is saved.
LEMMA SaveInnerKeeps ==
    ASSUME GroupInv, NEW h \in Handlers, SaveInner(h)
    PROVE  GroupInv'
<1>1. PICK m : m = InnerEvent(h)
    OBVIOUS
<1>2. /\ hnd[h].pc \in {"creator", "reply"} /\ granted' = granted \cup {m}
      /\ hnd' = [hnd EXCEPT ![h].pc = "inner", ![h].inner = m]
      /\ UNCHANGED <<heap, groups, allMembers, deletedGroups, rosters,
                     now, up, received, fails>>
    BY <1>1 DEF SaveInner, At, memVars, envVars
<1>3. /\ m \in Messages /\ m.author = RelayKey /\ m.group = hnd[h].ev.group
      /\ HasAuthority(m, granted)
    BY <1>1, <1>2, InnerShape DEF HasAuthority
<1>4. /\ hnd[h].ev \in Messages /\ hnd[h].ev \in granted
      /\ hnd[h].ev.kind \in Answered /\ hnd[h].ev.author \in Users
      /\ HasAuthority(hnd[h].ev, granted)
      /\ hnd[h].pc = "reply" => hnd[h].ev.kind # "create"
    BY <1>2, HandlerFacts DEF HoldsMessage, Wiping, Answered
<1>5. hnd[h] \in HandlerRecords
    BY HandlerFacts
<1>6. PICK s : s = [hnd[h] EXCEPT !.pc = "inner", !.inner = m]
    OBVIOUS
<1>7. s \in HandlerRecords
  <2>1. "inner" \in Places
      BY DEF Places
  <2> QED
      BY <1>3, <1>5, <1>6, <2>1 DEF HandlerRecords
<1>8. /\ s.pc = "inner" /\ s.inner = m /\ s.ev = hnd[h].ev /\ s.obj = hnd[h].obj
      /\ s.target = hnd[h].target /\ s.todo = hnd[h].todo /\ s.cand = hnd[h].cand
    BY <1>5, <1>6 DEF HandlerRecords
<1>9. Moves(h) /\ hnd'[h] = s
  <2>1. hnd \in [Handlers -> HandlerRecords]
      BY DEF GroupInv, GroupsTypeOK
  <2>2. hnd' = [hnd EXCEPT ![h] = s]
      BY <1>2, <1>6
  <2> QED
      BY <1>7, <2>1, <2>2 DEF Moves
<1>10. Holds(s, heap, granted')
  <2>1. HoldsObjects(s, heap)
      BY <1>8, HandlerFacts DEF HoldsObjects
  <2>2. HoldsMessage(s, granted')
      BY <1>2, <1>3, <1>4, <1>8 DEF HoldsMessage, Wiping, HasAuthority
  <2>3. HoldsGroup(s, heap)
      BY <1>2, <1>4, <1>8, HandlerFacts DEF HoldsGroup, Wiping
  <2>4. HoldsRosters(s, granted')
      BY <1>2, <1>8, HandlerFacts DEF HoldsRosters, PeoplePut, WasPut
  <2> QED
      BY <2>1, <2>2, <2>3, <2>4 DEF Holds
<1> QED
    BY <1>2, <1>3, <1>9, <1>10, GrantStep
-----------------------------------------------------------------------------
(* The steps that make objects and change them *)

\* State.Groups.Store: a new object, with nobody in it, takes the place of its id.
LEMMA NewObject ==
    ASSUME GroupInv, NEW g \in GroupRecords, OnRecord(g, granted),
           heap' = Append(heap, g), groups' = [groups EXCEPT ![g.id] = Len(heap')],
           hnd' \in [Handlers -> HandlerRecords], HandlerInv',
           deletedGroups' \subseteq GroupIds,
           UNCHANGED <<allMembers, rosters, granted, now, up, received, fails>>
    PROVE  GroupInv'
<1>1. heap \in Seq(GroupRecords) /\ Len(heap) \in Nat /\ groups \in [GroupIds -> Nat]
    BY DEF GroupInv, GroupsTypeOK
<1>2. g.id \in GroupIds
    BY DEF GroupRecords
<1>3. /\ heap' \in Seq(GroupRecords) /\ Len(heap') = Len(heap) + 1
      /\ heap'[Len(heap')] = g
      /\ \A i \in 1..Len(heap) : heap'[i] = heap[i]
    BY <1>1
<1>4. /\ groups' \in [GroupIds -> Nat] /\ groups'[g.id] = Len(heap')
      /\ \A id \in GroupIds : id # g.id => groups'[id] = groups[id]
    BY <1>1, <1>2, <1>3
<1>5. HeapInv'
  <2> SUFFICES ASSUME NEW i \in 1..Len(heap') PROVE OnRecord(heap'[i], granted)
      BY DEF HeapInv
  <2>1. CASE i \in 1..Len(heap)
      BY <1>3, <2>1 DEF GroupInv, HeapInv
  <2>2. CASE i = Len(heap')
      BY <1>3, <2>2
  <2> QED
      BY <1>1, <1>3, <2>1, <2>2
<1>6. MapInv'
  <2> SUFFICES ASSUME NEW id \in GroupIds, groups'[id] # 0
               PROVE  groups'[id] \in 1..Len(heap') /\ heap'[groups'[id]].id = id
      BY DEF MapInv
  <2>1. CASE id = g.id
      BY <1>1, <1>3, <1>4, <2>1
  <2>2. CASE id # g.id
    <3>1. groups'[id] \in 1..Len(heap) /\ heap[groups'[id]].id = id
        BY <1>4, <2>2 DEF GroupInv, MapInv
    <3> QED
        BY <1>1, <1>3, <3>1
  <2> QED
      BY <2>1, <2>2
<1>7. GroupsTypeOK'
    BY <1>3, <1>4 DEF GroupInv, GroupsTypeOK
<1>8. GrantInv' /\ RosterInv'
    BY DEF GroupInv, GrantInv, RosterInv
<1> QED
    BY <1>5, <1>6, <1>7, <1>8 DEF GroupInv

\* The same, for a handler that makes the object.
LEMMA NewObjectStep ==
    ASSUME GroupInv, NEW h \in Handlers, NEW g \in GroupRecords, OnRecord(g, granted),
           heap' = Append(heap, g), groups' = [groups EXCEPT ![g.id] = Len(heap')],
           Moves(h), Holds(hnd'[h], heap', granted), deletedGroups' \subseteq GroupIds,
           UNCHANGED <<allMembers, rosters, granted, now, up, received, fails>>
    PROVE  GroupInv'
<1>1. heap \in Seq(GroupRecords) /\ Len(heap) \in Nat
    BY DEF GroupInv, GroupsTypeOK
<1>2. Len(heap') = Len(heap) + 1 /\ \A i \in 1..Len(heap) : heap'[i] = heap[i]
    BY <1>1
<1>3. Grows(heap, granted, heap', granted')
    BY <1>1, <1>2 DEF Grows
<1>4. HandlerInv'
    BY <1>3, OneMoves
<1> QED
    BY <1>4, NewObject DEF Moves

\* reject_event.go:86-91: an accepted create gets its placeholder.
LEMMA PlaceholderKeeps ==
    ASSUME GroupInv, NEW h \in Handlers, Placeholder(h)
    PROVE  GroupInv'
<1>1. /\ hnd[h].pc = "place" /\ hnd' = [hnd EXCEPT ![h].pc = "store"]
      /\ UNCHANGED <<allMembers, deletedGroups, rosters, granted, now, up, received, fails>>
    BY DEF Placeholder, At, storeVars, envVars
<1>2. PICK id \in GroupIds : id = hnd[h].ev.group
  <2>1. hnd[h].ev \in Messages
      BY <1>1, HandlerFacts DEF HoldsMessage, Wiping
  <2> QED
      BY <2>1 DEF Messages
<1>3. PICK g \in GroupRecords : g = NewGroup(id) /\ g.id = id /\ OnRecord(g, granted)
    BY <1>2, NewShape
<1>4. heap' = Append(heap, g) /\ groups' = [groups EXCEPT ![g.id] = Len(heap')]
    BY <1>2, <1>3 DEF Placeholder
<1>5. /\ Moves(h)
      /\ hnd'[h].pc = "store" /\ hnd'[h].ev = hnd[h].ev /\ hnd'[h].inner = hnd[h].inner
      /\ hnd'[h].obj = hnd[h].obj /\ hnd'[h].target = hnd[h].target
      /\ hnd'[h].todo = hnd[h].todo /\ hnd'[h].cand = hnd[h].cand
  <2>1. "store" \in Places
      BY DEF Places
  <2> QED
      BY <1>1, <2>1, PcMoves
<1>6. Holds(hnd'[h], heap, granted)
  <2>1. HoldsObjects(hnd'[h], heap) /\ HoldsRosters(hnd'[h], granted)
      BY <1>5, HandlerFacts, SameFields
  <2>2. HoldsMessage(hnd'[h], granted)
      BY <1>1, <1>5, HandlerFacts DEF HoldsMessage, Wiping
  <2>3. HoldsGroup(hnd'[h], heap)
      BY <1>5 DEF HoldsGroup, Wiping
  <2> QED
      BY <2>1, <2>2, <2>3 DEF Holds
<1>7. Grows(heap, granted, heap', granted)
  <2>1. heap \in Seq(GroupRecords) /\ Len(heap) \in Nat
      BY DEF GroupInv, GroupsTypeOK
  <2> QED
      BY <1>4, <2>1 DEF Grows
<1>8. Holds(hnd'[h], heap', granted)
  <2>1. hnd'[h] \in HandlerRecords
      BY <1>5 DEF Moves
  <2> QED
      BY <1>6, <1>7, <2>1, HoldsGrows
<1>9. deletedGroups' \subseteq GroupIds
    BY <1>1 DEF GroupInv, GroupsTypeOK
<1> QED
    BY <1>1, <1>3, <1>4, <1>5, <1>8, <1>9, NewObjectStep

\* process_event.go:24-29: the new group replaces its placeholder.
LEMMA RegisterKeeps ==
    ASSUME GroupInv, NEW h \in Handlers, Register(h)
    PROVE  GroupInv'
<1>1. /\ hnd[h].pc = "process" /\ hnd[h].ev.kind = "create"
      /\ UNCHANGED <<allMembers, rosters, granted, now, up, received, fails>>
    BY DEF Register, At, storeVars, envVars
<1>2. /\ hnd[h].ev \in Messages /\ hnd[h].ev \in granted
      /\ hnd[h].ev.kind \in Answered => hnd[h].ev.author \in Users
      /\ HasAuthority(hnd[h].ev, granted)
    BY <1>1, HandlerFacts DEF HoldsMessage, Wiping
<1>3. hnd[h].ev.group \in GroupIds /\ hnd[h].ev.parent \in GroupIds \cup {None}
    BY <1>2 DEF Messages
<1>4. PICK g \in GroupRecords :
         /\ g = [NewGroup(hnd[h].ev.group) EXCEPT !.parent = hnd[h].ev.parent]
         /\ g.id = hnd[h].ev.group /\ OnRecord(g, granted)
    BY <1>3, NewShape
<1>5. heap' = Append(heap, g) /\ groups' = [groups EXCEPT ![g.id] = Len(heap')]
    BY <1>4 DEF Register
<1>6. heap \in Seq(GroupRecords) /\ Len(heap) \in Nat
    BY DEF GroupInv, GroupsTypeOK
<1>7. PICK n \in Nat : n = Len(heap') /\ n = Len(heap) + 1 /\ heap'[n] = g
    BY <1>5, <1>6
<1>8. PICK pc \in {"creator", "link"}, todo \in {<<n>>, <<>>} :
         /\ pc = "link" => hnd[h].ev.parent # None
         /\ hnd' = [hnd EXCEPT ![h].pc = pc, ![h].obj = n, ![h].todo = todo]
    BY <1>7 DEF Register
<1>9. todo \in Seq(Nat) /\ \A i \in DOMAIN todo : todo[i] = n
  <2>1. CASE todo = <<n>>
      BY <2>1
  <2>2. CASE todo = <<>>
      BY <2>2
  <2> QED
      BY <2>1, <2>2
<1>10. hnd[h] \in HandlerRecords
    BY HandlerFacts
<1>11. PICK s : s = [hnd[h] EXCEPT !.pc = pc, !.obj = n, !.todo = todo]
    OBVIOUS
<1>12. s \in HandlerRecords
  <2>1. pc \in Places
      BY DEF Places
  <2> QED
      BY <1>9, <1>10, <1>11, <2>1 DEF HandlerRecords
<1>13. /\ s.pc = pc /\ s.obj = n /\ s.todo = todo /\ s.ev = hnd[h].ev
       /\ s.inner = hnd[h].inner /\ s.target = hnd[h].target /\ s.cand = hnd[h].cand
    BY <1>10, <1>11 DEF HandlerRecords
<1>14. Moves(h) /\ hnd'[h] = s
  <2>1. hnd \in [Handlers -> HandlerRecords]
      BY DEF GroupInv, GroupsTypeOK
  <2>2. hnd' = [hnd EXCEPT ![h] = s]
      BY <1>8, <1>11
  <2> QED
      BY <1>12, <2>1, <2>2 DEF Moves
<1>15. Holds(s, heap', granted)
  <2>1. HoldsObjects(s, heap')
    <3>1. s.target \in 0..Len(heap)
        BY <1>13, HandlerFacts DEF HoldsObjects
    <3> QED
        BY <1>6, <1>7, <1>9, <1>13, <3>1 DEF HoldsObjects
  <2>2. HoldsMessage(s, granted)
      BY <1>1, <1>2, <1>3, <1>8, <1>13 DEF HoldsMessage, Wiping
  <2>3. HoldsGroup(s, heap')
    <3>0. g.id = hnd[h].ev.group /\ n # 0 /\ heap'[n] = g
      <4>1. g.id = hnd[h].ev.group
          BY <1>4
      <4>2. n # 0 /\ heap'[n] = g
          BY <1>6, <1>7
      <4> QED
          BY <4>1, <4>2
    <3>1. s.obj # 0 /\ heap'[s.obj].id = s.ev.group
        BY <1>13, <3>0
    <3>2. s.pc \in {"creator", "link"}
        BY <1>13
    <3> QED
        BY <3>1, <3>2 DEF HoldsGroup, Wiping
  <2>4. HoldsRosters(s, granted)
      BY <1>13, HandlerFacts DEF HoldsRosters
  <2> QED
      BY <2>1, <2>2, <2>3, <2>4 DEF Holds
<1>16. deletedGroups' \subseteq GroupIds
    BY DEF Register, GroupInv, GroupsTypeOK
<1> QED
    BY <1>1, <1>4, <1>5, <1>14, <1>15, <1>16, NewObjectStep

\* One object changes, under its lock, and stays an object of its id and parent.
LEMMA ChangedObject ==
    ASSUME GroupInv, NEW p \in 1..Len(heap),
           NEW g \in GroupRecords, OnRecord(g, granted),
           g.id = heap[p].id, g.parent = heap[p].parent,
           heap' = [heap EXCEPT ![p] = g],
           hnd' \in [Handlers -> HandlerRecords],
           \A h \in Handlers : Holds(hnd'[h], heap, granted),
           allMembers' \in [Users -> Nat],
           UNCHANGED <<groups, deletedGroups, rosters, granted, now, up, received, fails>>
    PROVE  GroupInv'
<1>1. heap \in Seq(GroupRecords) /\ Len(heap) \in Nat
    BY DEF GroupInv, GroupsTypeOK
<1>2. /\ heap' \in Seq(GroupRecords) /\ Len(heap') = Len(heap)
      /\ heap'[p] = g /\ \A i \in 1..Len(heap) : i # p => heap'[i] = heap[i]
    BY <1>1
<1>3. \A i \in 1..Len(heap) : heap'[i].id = heap[i].id /\ heap'[i].parent = heap[i].parent
    BY <1>2
<1>4. Grows(heap, granted, heap', granted')
    BY <1>1, <1>2, <1>3 DEF Grows
<1>5. ASSUME NEW h \in Handlers PROVE Holds(hnd'[h], heap', granted')
    BY <1>4, HoldsGrows
<1>6. HandlerInv'
    BY <1>5 DEF HandlerInv
<1>7. HeapInv'
    BY <1>2 DEF GroupInv, HeapInv
<1>8. MapInv'
    BY <1>2, <1>3 DEF GroupInv, MapInv
<1>9. GroupsTypeOK'
    BY <1>2 DEF GroupInv, GroupsTypeOK
<1>10. GrantInv' /\ RosterInv'
    BY DEF GroupInv, GrantInv, RosterInv
<1> QED
    BY <1>6, <1>7, <1>8, <1>9, <1>10 DEF GroupInv

\* The same, for a handler that changes the object.
LEMMA ObjectStep ==
    ASSUME GroupInv, NEW h \in Handlers, NEW p \in 1..Len(heap),
           NEW g \in GroupRecords, OnRecord(g, granted),
           g.id = heap[p].id, g.parent = heap[p].parent,
           heap' = [heap EXCEPT ![p] = g],
           Moves(h), Holds(hnd'[h], heap, granted), allMembers' \in [Users -> Nat],
           UNCHANGED <<groups, deletedGroups, rosters, granted, now, up, received, fails>>
    PROVE  GroupInv'
<1>1. \A k \in Handlers : Holds(hnd'[k], heap, granted)
    BY DEF Moves, GroupInv, HandlerInv
<1> QED
    BY <1>1, ChangedObject DEF Moves

\* process_event.go:66-74: CreateGroup.Apply, once the creator is in.
LEMMA ApplyCreateKeeps ==
    ASSUME GroupInv, NEW h \in Handlers, ApplyCreate(h)
    PROVE  GroupInv'
<1>1. /\ hnd[h].pc = "created" /\ hnd' = [hnd EXCEPT ![h].pc = "tail"]
      /\ UNCHANGED <<groups, allMembers, deletedGroups, rosters, granted, now, up, received, fails>>
    BY DEF ApplyCreate, At, storeVars, envVars
<1>2. PICK e \in Messages : e = hnd[h].ev /\ e \in granted /\ e.kind = "create"
    BY <1>1, HandlerFacts DEF HoldsMessage, Wiping
<1>3. PICK p \in 1..Len(heap) : p = hnd[h].obj /\ heap[p].id = e.group
  <2>1. hnd[h].obj # 0 /\ heap[hnd[h].obj].id = e.group
      BY <1>1, <1>2, HandlerFacts DEF HoldsGroup
  <2>2. hnd[h].obj \in 0..Len(heap) /\ Len(heap) \in Nat
      BY HandlerFacts DEF HoldsObjects
  <2> QED
      BY <2>1, <2>2
<1>4. heap[p] \in GroupRecords /\ OnRecord(heap[p], granted)
    BY DEF GroupInv, GroupsTypeOK, HeapInv
<1>5. PICK g \in GroupRecords : /\ g = Apply(heap[p], e) /\ OnRecord(g, granted)
                                /\ g.id = heap[p].id /\ g.parent = heap[p].parent
    BY <1>2, <1>3, <1>4, ApplyShape, ApplyRecorded
<1>6. heap' = [heap EXCEPT ![p] = g]
    BY <1>2, <1>3, <1>5 DEF ApplyCreate
<1>7. /\ Moves(h)
      /\ hnd'[h].pc = "tail" /\ hnd'[h].ev = hnd[h].ev /\ hnd'[h].inner = hnd[h].inner
      /\ hnd'[h].obj = hnd[h].obj /\ hnd'[h].target = hnd[h].target
      /\ hnd'[h].todo = hnd[h].todo /\ hnd'[h].cand = hnd[h].cand
  <2>1. "tail" \in Places
      BY DEF Places
  <2> QED
      BY <1>1, <2>1, PcMoves
<1>8. Holds(hnd'[h], heap, granted)
  <2>1. HoldsObjects(hnd'[h], heap) /\ HoldsRosters(hnd'[h], granted)
      BY <1>7, HandlerFacts, SameFields
  <2>2. HoldsMessage(hnd'[h], granted)
      BY <1>1, <1>7, HandlerFacts DEF HoldsMessage, Wiping
  <2>3. HoldsGroup(hnd'[h], heap)
      BY <1>7 DEF HoldsGroup, Wiping
  <2> QED
      BY <2>1, <2>2, <2>3 DEF Holds
<1>9. allMembers' \in [Users -> Nat]
    BY <1>1 DEF GroupInv, GroupsTypeOK
<1> QED
    BY <1>1, <1>5, <1>6, <1>7, <1>8, <1>9, ObjectStep

\* process_event.go:66-90: the action is applied under the object's lock, to
\* an object that may have left the map.
LEMMA ApplyActionKeeps ==
    ASSUME GroupInv, NEW h \in Handlers, ApplyAction(h)
    PROVE  GroupInv'
<1>1. /\ hnd[h].pc = "apply"
      /\ UNCHANGED <<groups, deletedGroups, rosters, granted, now, up, received, fails>>
    BY DEF ApplyAction, At, storeVars, envVars
<1>2. PICK p \in 1..Len(heap) : p = hnd[h].target /\ heap[p].id = hnd[h].ev.group
  <2>1. hnd[h].target # 0 /\ heap[hnd[h].target].id = hnd[h].ev.group
      BY <1>1, HandlerFacts DEF HoldsGroup
  <2>2. hnd[h].target \in 0..Len(heap) /\ Len(heap) \in Nat
      BY HandlerFacts DEF HoldsObjects
  <2> QED
      BY <2>1, <2>2
<1>3. PICK e \in Messages : e = Action(h) /\ e \in granted /\ e.group = heap[p].id
  <2>1. hnd[h].ev \in Messages /\ hnd[h].ev \in granted
      BY <1>1, HandlerFacts DEF HoldsMessage, Wiping
  <2>2. hnd[h].ev.kind \in Answered =>
           hnd[h].inner \in Messages /\ hnd[h].inner \in granted
             /\ hnd[h].inner.group = hnd[h].ev.group
      BY <1>1, HandlerFacts DEF HoldsMessage
  <2> QED
      BY <1>2, <2>1, <2>2 DEF Action
<1>4. heap[p] \in GroupRecords /\ OnRecord(heap[p], granted)
    BY DEF GroupInv, GroupsTypeOK, HeapInv
<1>5. PICK g \in GroupRecords : /\ g = Apply(heap[p], e) /\ OnRecord(g, granted)
                                /\ g.id = heap[p].id /\ g.parent = heap[p].parent
    BY <1>3, <1>4, ApplyShape, ApplyRecorded
<1>6. heap' = [heap EXCEPT ![p] = g]
    BY <1>2, <1>3, <1>5 DEF ApplyAction
<1>7. PICK pc : pc = AfterApply(hnd[h].ev, heap[p])
    OBVIOUS
<1>8. /\ pc \in {"created", "sync", "erase", "drop", "unlink", "tail"}
      /\ pc = "created" => hnd[h].ev.kind = "create"
      /\ pc = "unlink" => heap[p].parent # None
    BY <1>7 DEF AfterApply
<1>9. hnd' = [hnd EXCEPT ![h].pc = pc]
    BY <1>2, <1>7 DEF ApplyAction
<1>10. /\ Moves(h)
       /\ hnd'[h].pc = pc /\ hnd'[h].ev = hnd[h].ev /\ hnd'[h].inner = hnd[h].inner
       /\ hnd'[h].obj = hnd[h].obj /\ hnd'[h].target = hnd[h].target
       /\ hnd'[h].todo = hnd[h].todo /\ hnd'[h].cand = hnd[h].cand
  <2>1. pc \in Places
      BY <1>8 DEF Places
  <2> QED
      BY <1>9, <2>1, PcMoves
<1>11. Holds(hnd'[h], heap, granted)
  <2>1. HoldsObjects(hnd'[h], heap) /\ HoldsRosters(hnd'[h], granted)
      BY <1>8, <1>10, HandlerFacts, SameFields
  <2>2. HoldsMessage(hnd'[h], granted)
      BY <1>1, <1>8, <1>10, HandlerFacts DEF HoldsMessage, Wiping
  <2>3. HoldsGroup(hnd'[h], heap)
    <3>1. pc = "created" => hnd[h].obj # 0 /\ heap[hnd[h].obj].id = hnd[h].ev.group
        BY <1>1, <1>8, HandlerFacts DEF HoldsGroup
    <3>2. pc = "unlink" => hnd[h].target # 0 /\ heap[hnd[h].target].parent \in GroupIds
      <4>1. Len(heap) \in Nat
          BY HandlerFacts
      <4> QED
          BY <1>2, <1>4, <1>8, <4>1 DEF GroupRecords
    <3> QED
        BY <1>8, <1>10, <3>1, <3>2 DEF HoldsGroup, Wiping
  <2> QED
      BY <2>1, <2>2, <2>3 DEF Holds
<1>12. allMembers' \in [Users -> Nat]
  <2>1. allMembers \in [Users -> Nat]
      BY DEF GroupInv, GroupsTypeOK
  <2>2. allMembers' = CountMembers(allMembers, e)
      BY <1>3 DEF ApplyAction
  <2>3. ASSUME NEW u \in Users
        PROVE  (CASE e.kind = "put" /\ u \in e.users -> allMembers[u] + 1
                  [] e.kind = "remove" /\ u \in e.users -> Monus(allMembers[u], 1)
                  [] OTHER -> allMembers[u]) \in Nat
    <3>1. allMembers[u] \in Nat /\ Monus(allMembers[u], 1) \in Nat
        BY <2>1, MonusType
    <3>2. CASE e.kind = "put" /\ u \in e.users
        BY <3>1, <3>2
    <3>3. CASE e.kind = "remove" /\ u \in e.users
        BY <3>1, <3>3
    <3>4. CASE ~(e.kind = "put" /\ u \in e.users) /\ ~(e.kind = "remove" /\ u \in e.users)
        BY <3>1, <3>4
    <3> QED
        BY <3>2, <3>3, <3>4
  <2> QED
      BY <2>2, <2>3 DEF CountMembers
<1> QED
    BY <1>1, <1>5, <1>6, <1>10, <1>11, <1>12, ObjectStep

\* process_event.go:30-36: the new group is entered in its parent's list.
LEMMA LinkKeeps ==
    ASSUME GroupInv, NEW h \in Handlers, Link(h)
    PROVE  GroupInv'
<1>1. /\ hnd[h].pc = "link"
      /\ UNCHANGED <<groups, allMembers, deletedGroups, rosters, granted, now, up, received, fails>>
    BY DEF Link, At, storeVars, envVars
<1>2. PICK e \in Messages : /\ e = hnd[h].ev /\ e \in granted /\ e.kind = "create"
                            /\ e.author \in Users /\ e.parent \in GroupIds
                            /\ HasAuthority(e, granted)
    BY <1>1, HandlerFacts DEF HoldsMessage, Wiping, Answered
<1>3. e.group \in GroupIds /\ e.at \in Nat
    BY DEF Messages
<1>4. /\ hnd[h] \in HandlerRecords /\ Len(heap) \in Nat
      /\ hnd[h].obj \in 1..Len(heap) /\ heap[hnd[h].obj].id = e.group
    BY <1>1, <1>2, HandlerFacts DEF HoldsObjects, HoldsGroup
<1>5. PICK p : p = groups[e.parent] /\ (p # 0 => p \in 1..Len(heap))
    BY <1>2 DEF GroupInv, MapInv
<1>6. PICK todo : /\ todo = <<hnd[h].obj>> \/ (p # 0 /\ todo = <<p, hnd[h].obj>>)
                  /\ hnd' = [hnd EXCEPT ![h].pc = "creator", ![h].todo = todo]
    BY <1>2, <1>5 DEF Link
<1>7. todo \in Seq(Nat) /\ \A i \in DOMAIN todo : todo[i] \in 1..Len(heap)
  <2>1. CASE todo = <<hnd[h].obj>>
      BY <1>4, <2>1
  <2>2. CASE p # 0 /\ todo = <<p, hnd[h].obj>>
      BY <1>4, <1>5, <2>2
  <2> QED
      BY <1>6, <2>1, <2>2
<1>8. PICK s : s = [hnd[h] EXCEPT !.pc = "creator", !.todo = todo]
    OBVIOUS
<1>9. s \in HandlerRecords
  <2>1. "creator" \in Places
      BY DEF Places
  <2> QED
      BY <1>4, <1>7, <1>8, <2>1 DEF HandlerRecords
<1>10. /\ s.pc = "creator" /\ s.todo = todo /\ s.ev = e /\ s.obj = hnd[h].obj
       /\ s.inner = hnd[h].inner /\ s.target = hnd[h].target /\ s.cand = hnd[h].cand
    BY <1>2, <1>4, <1>8 DEF HandlerRecords
<1>11. Moves(h) /\ hnd'[h] = s
  <2>1. hnd \in [Handlers -> HandlerRecords]
      BY DEF GroupInv, GroupsTypeOK
  <2>2. hnd' = [hnd EXCEPT ![h] = s]
      BY <1>6, <1>8
  <2> QED
      BY <1>9, <2>1, <2>2 DEF Moves
<1>12. Holds(s, heap, granted)
  <2>1. HoldsObjects(s, heap)
      BY <1>7, <1>10, HandlerFacts DEF HoldsObjects
  <2>2. HoldsMessage(s, granted)
      BY <1>2, <1>10 DEF HoldsMessage, Wiping
  <2>3. HoldsGroup(s, heap)
      BY <1>4, <1>10 DEF HoldsGroup, Wiping
  <2>4. HoldsRosters(s, granted)
      BY <1>10, HandlerFacts DEF HoldsRosters
  <2> QED
      BY <2>1, <2>2, <2>3, <2>4 DEF Holds
<1>13. /\ allMembers' \in [Users -> Nat] /\ deletedGroups' \subseteq GroupIds
       /\ received' \in Nat /\ fails' \in Nat
    BY <1>1 DEF GroupInv, GroupsTypeOK
<1>14. CASE heap' = heap
    BY <1>1, <1>11, <1>12, <1>13, <1>14, PlaceStep
<1>15. CASE p # 0 /\ heap' = [heap EXCEPT ![p] = AddChild(heap[p], e.group, e.at)]
  <2>1. heap[p] \in GroupRecords /\ OnRecord(heap[p], granted)
      BY <1>5, <1>15 DEF GroupInv, GroupsTypeOK, HeapInv
  <2>2. PICK g \in GroupRecords : /\ g = AddChild(heap[p], e.group, e.at) /\ OnRecord(g, granted)
                                  /\ g.id = heap[p].id /\ g.parent = heap[p].parent
      BY <1>3, <2>1, ChildShape
  <2> QED
      BY <1>1, <1>5, <1>11, <1>12, <1>13, <1>15, <2>2, ObjectStep
<1> QED
    BY <1>2, <1>5, <1>14, <1>15 DEF Link

\* process_event.go:108-112: a deleted group leaves its parent's list.
LEMMA UnlinkKeeps ==
    ASSUME GroupInv, NEW h \in Handlers, Unlink(h)
    PROVE  GroupInv'
<1>1. /\ hnd[h].pc = "unlink"
      /\ UNCHANGED <<groups, allMembers, deletedGroups, rosters, granted, now, up, received, fails>>
    BY DEF Unlink, At, storeVars, envVars
<1>2. PICK e \in Messages : e = hnd[h].ev
    BY <1>1, HandlerFacts DEF HoldsMessage, Wiping
<1>3. e.group \in GroupIds /\ e.at \in Nat
    BY DEF Messages
<1>4. hnd[h] \in HandlerRecords /\ Len(heap) \in Nat
    BY HandlerFacts
<1>5. PICK p : p = groups[heap[hnd[h].target].parent] /\ (p # 0 => p \in 1..Len(heap))
  <2>1. heap[hnd[h].target].parent \in GroupIds
      BY <1>1, HandlerFacts DEF HoldsGroup
  <2> QED
      BY <2>1 DEF GroupInv, MapInv
<1>6. PICK todo : /\ todo = <<>> \/ (p # 0 /\ todo = <<p>>)
                  /\ hnd' = [hnd EXCEPT ![h].pc = "drop", ![h].todo = todo]
    BY <1>2, <1>5 DEF Unlink
<1>7. todo \in Seq(Nat) /\ \A i \in DOMAIN todo : todo[i] \in 1..Len(heap)
  <2>1. CASE todo = <<>>
      BY <2>1
  <2>2. CASE p # 0 /\ todo = <<p>>
      BY <1>4, <1>5, <2>2
  <2> QED
      BY <1>6, <2>1, <2>2
<1>8. PICK s : s = [hnd[h] EXCEPT !.pc = "drop", !.todo = todo]
    OBVIOUS
<1>9. s \in HandlerRecords
  <2>1. "drop" \in Places
      BY DEF Places
  <2> QED
      BY <1>4, <1>7, <1>8, <2>1 DEF HandlerRecords
<1>10. /\ s.pc = "drop" /\ s.todo = todo /\ s.ev = hnd[h].ev /\ s.obj = hnd[h].obj
       /\ s.inner = hnd[h].inner /\ s.target = hnd[h].target /\ s.cand = hnd[h].cand
    BY <1>4, <1>8 DEF HandlerRecords
<1>11. Moves(h) /\ hnd'[h] = s
  <2>1. hnd \in [Handlers -> HandlerRecords]
      BY DEF GroupInv, GroupsTypeOK
  <2>2. hnd' = [hnd EXCEPT ![h] = s]
      BY <1>6, <1>8
  <2> QED
      BY <1>9, <2>1, <2>2 DEF Moves
<1>12. Holds(s, heap, granted)
  <2>1. HoldsObjects(s, heap)
      BY <1>7, <1>10, HandlerFacts DEF HoldsObjects
  <2>2. HoldsMessage(s, granted)
      BY <1>1, <1>10, HandlerFacts DEF HoldsMessage, Wiping
  <2>3. HoldsGroup(s, heap)
      BY <1>10 DEF HoldsGroup, Wiping
  <2>4. HoldsRosters(s, granted)
      BY <1>10, HandlerFacts DEF HoldsRosters
  <2> QED
      BY <2>1, <2>2, <2>3, <2>4 DEF Holds
<1>13. /\ allMembers' \in [Users -> Nat] /\ deletedGroups' \subseteq GroupIds
       /\ received' \in Nat /\ fails' \in Nat
    BY <1>1 DEF GroupInv, GroupsTypeOK
<1>14. CASE heap' = heap
    BY <1>1, <1>11, <1>12, <1>13, <1>14, PlaceStep
<1>15. CASE p # 0 /\ heap' = [heap EXCEPT ![p] = RemoveChild(heap[p], e.group, e.at)]
  <2>1. heap[p] \in GroupRecords /\ OnRecord(heap[p], granted)
      BY <1>5, <1>15 DEF GroupInv, GroupsTypeOK, HeapInv
  <2>2. PICK g \in GroupRecords : /\ g = RemoveChild(heap[p], e.group, e.at) /\ OnRecord(g, granted)
                                  /\ g.id = heap[p].id /\ g.parent = heap[p].parent
      BY <1>3, <2>1, ChildShape
  <2> QED
      BY <1>1, <1>5, <1>11, <1>12, <1>13, <1>15, <2>2, ObjectStep
<1> QED
    BY <1>2, <1>5, <1>14, <1>15 DEF Unlink
-----------------------------------------------------------------------------
(* The first state *)

\* CloseEvent of a founded group is a message of that group.
LEMMA CloseShape ==
    ASSUME NEW e \in Messages
    PROVE  /\ CloseEvent(e) \in Messages /\ CloseEvent(e).group = e.group
           /\ CloseEvent(e).kind = "edit"
<1>1. /\ e.group \in GroupIds /\ e.at \in Nat /\ e.author \in Users \cup {RelayKey, Owner}
      /\ "edit" \in ModerationKinds
    BY DEF Messages, ModerationKinds
<1>2. PICK b \in Messages : /\ b = Event("edit", e.group, e.author, e.at)
                            /\ b.group = e.group /\ b.kind = "edit"
  <2>1. /\ Event("edit", e.group, e.author, e.at) \in Messages
        /\ Event("edit", e.group, e.author, e.at).group = e.group
        /\ Event("edit", e.group, e.author, e.at).kind = "edit"
      BY <1>1, EventShape
  <2> QED
      BY <2>1
<1>3. PICK on \in SUBSET Flags : on = {"closed"}
    BY DEF Flags
<1>4. PICK m : m = CloseEvent(e)
    OBVIOUS
<1>5. m = [b EXCEPT !.on = on]
    BY <1>2, <1>3, <1>4 DEF CloseEvent
<1>6. m \in Messages /\ m.group = b.group /\ m.kind = b.kind
    BY <1>5 DEF Messages
<1> QED
    BY <1>2, <1>4, <1>6

\* group.go loadGroupsFromDB: a loaded group has its creator, whose put is stored.
LEMMA FoundedShape ==
    ASSUME NEW e \in Founded, NEW gr, e \in gr, AddCreator(e) \in gr,
           e.group \in ClosedGroups => CloseEvent(e) \in gr
    PROVE  /\ FoundedObject(e) \in GroupRecords
           /\ FoundedObject(e).id = e.group
           /\ OnRecord(FoundedObject(e), gr)
<1>1. e \in Messages /\ e.kind = "create" /\ e.author \in Users
    BY GroupsAssumption DEF Answered
<1>2. /\ e.group \in GroupIds /\ e.parent \in GroupIds \cup {None}
      /\ {f.group : f \in {x \in Founded : x.parent = e.group}} \subseteq GroupIds
    BY <1>1, GroupsAssumption DEF Messages
<1>3. PICK g0 \in GroupRecords : g0 = NewGroup(e.group) /\ g0.id = e.group /\ OnRecord(g0, gr)
    BY <1>2, NewShape
<1>4. PICK g1 \in GroupRecords : g1 = CreateGroup(g0, e) /\ g1.id = e.group /\ OnRecord(g1, gr)
  <2>1. Apply(g0, e) = CreateGroup(g0, e)
      BY <1>1 DEF Apply
  <2> QED
      BY <1>1, <1>3, <2>1, ApplyShape, ApplyRecorded
<1>5. PICK a \in Messages : a = AddCreator(e) /\ a.group = e.group /\ a.kind = "put" /\ a \in gr
    BY <1>1, AddCreatorShape
<1>6. PICK g2 \in GroupRecords : g2 = PutUser(g1, a) /\ g2.id = e.group /\ OnRecord(g2, gr)
  <2>1. Apply(g1, a) = PutUser(g1, a)
      BY <1>5 DEF Apply
  <2> QED
      BY <1>4, <1>5, <2>1, ApplyShape, ApplyRecorded
<1>7. PICK g3 \in GroupRecords :
         /\ g3 = IF e.group \in ClosedGroups THEN Apply(g2, CloseEvent(e)) ELSE g2
         /\ g3.id = e.group /\ OnRecord(g3, gr)
  <2>1. CASE e.group \in ClosedGroups
    <3>1. CloseEvent(e) \in Messages /\ CloseEvent(e).group = e.group
        BY <1>1, CloseShape
    <3> QED
        BY <1>6, <2>1, <3>1, ApplyShape, ApplyRecorded
  <2>2. CASE e.group \notin ClosedGroups
      BY <1>6, <2>2
  <2> QED
      BY <2>1, <2>2
<1>8. PICK kids \in SUBSET GroupIds : kids = {f.group : f \in {x \in Founded : x.parent = e.group}}
    BY <1>2
<1>9. PICK g : g = FoundedObject(e)
    OBVIOUS
<1>10. g = [g3 EXCEPT !.parent = e.parent, !.children = kids]
    BY <1>3, <1>4, <1>5, <1>6, <1>7, <1>8, <1>9 DEF FoundedObject
<1>11. /\ g \in GroupRecords /\ g.id = g3.id /\ g.members = g3.members /\ g.roles = g3.roles
    BY <1>2, <1>10 DEF GroupRecords
<1>12. OnRecord(g, gr)
    BY <1>7, <1>11 DEF OnRecord
<1> QED
    BY <1>7, <1>9, <1>11, <1>12

\* The relay starts in a state of the invariant.
LEMMA InitHolds == Init => GroupInv
<1> SUFFICES ASSUME Init PROVE GroupInv
    OBVIOUS
<1>1. PICK n \in Nat : n = Cardinality(Founded)
    BY GroupsAssumption, FS_CardinalityType
<1>2. PICK order \in [1..n -> Founded] :
         /\ heap = [i \in DOMAIN order |-> FoundedObject(order[i])]
         /\ groups = [id \in GroupIds |->
                        IF \E i \in DOMAIN order : order[i].group = id
                        THEN CHOOSE i \in DOMAIN order : order[i].group = id
                        ELSE 0]
    BY <1>1 DEF Init, InitMemory
<1>3. \A e \in Founded : /\ e \in granted /\ AddCreator(e) \in granted
                         /\ e.group \in ClosedGroups => CloseEvent(e) \in granted
    BY DEF Init
<1>4. \A i \in 1..n : /\ FoundedObject(order[i]) \in GroupRecords
                      /\ FoundedObject(order[i]).id = order[i].group
                      /\ OnRecord(FoundedObject(order[i]), granted)
  <2> SUFFICES ASSUME NEW i \in 1..n
               PROVE  /\ FoundedObject(order[i]) \in GroupRecords
                      /\ FoundedObject(order[i]).id = order[i].group
                      /\ OnRecord(FoundedObject(order[i]), granted)
      OBVIOUS
  <2>1. PICK e \in Founded : e = order[i]
      OBVIOUS
  <2> QED
      BY <1>3, <2>1, FoundedShape
<1>5. heap = [i \in 1..n |-> FoundedObject(order[i])]
    BY <1>2
<1>6. /\ heap \in Seq(GroupRecords) /\ Len(heap) = n
      /\ \A i \in 1..n : heap[i].id = order[i].group /\ OnRecord(heap[i], granted)
    BY <1>4, <1>5
<1>7. HeapInv
    BY <1>6 DEF HeapInv
<1>8. ASSUME NEW id \in GroupIds
      PROVE  /\ groups[id] \in Nat
             /\ groups[id] # 0 => groups[id] \in 1..Len(heap) /\ heap[groups[id]].id = id
  <2>1. CASE \E i \in 1..n : order[i].group = id
    <3>1. PICK p : p = CHOOSE i \in 1..n : order[i].group = id
        OBVIOUS
    <3>2. p \in 1..n /\ order[p].group = id
        BY <2>1, <3>1
    <3>3. groups[id] = p
        BY <1>2, <2>1, <3>1
    <3> QED
        BY <1>6, <3>2, <3>3
  <2>2. CASE ~\E i \in 1..n : order[i].group = id
      BY <1>2, <2>2
  <2> QED
      BY <2>1, <2>2
<1>9. MapInv /\ groups \in [GroupIds -> Nat]
  <2>1. DOMAIN groups = GroupIds /\ groups = [id \in GroupIds |-> groups[id]]
      BY <1>2
  <2> QED
      BY <1>8, <2>1 DEF MapInv
<1>10. GrantInv
  <2> SUFFICES ASSUME NEW e \in granted, e.kind = "put" PROVE e.author = RelayKey
      BY DEF GrantInv, HasAuthority
  <2>1. \/ e \in Founded
        \/ \E f \in Founded : e = AddCreator(f) \/ e = CloseEvent(f)
      BY DEF Init
  <2>2. e \notin Founded
      BY GroupsAssumption
  <2>3. \A f \in Founded : e # CloseEvent(f)
      BY CloseShape, GroupsAssumption
  <2>4. \A f \in Founded : f \in Messages /\ f.author \in Users
      BY GroupsAssumption DEF Answered
  <2> QED
      BY <2>1, <2>2, <2>3, <2>4, AddCreatorShape
<1>11. HandlerInv /\ hnd \in [Handlers -> HandlerRecords]
  <2>1. hnd = [h \in Handlers |-> Idle]
      BY DEF Init
  <2>2. Len(heap) \in Nat
      BY <1>6
  <2> QED
      BY <2>1, <2>2, IdleHolds DEF HandlerInv
<1>12. rosters \in [GroupIds -> [RosterNames -> RosterRecords]] /\ RosterInv
  <2>1. rosters = [id \in GroupIds |-> [k \in RosterNames |->
                    IF groups[id] = 0 THEN NoRoster
                    ELSE [stored |-> TRUE,
                          at |-> IF k = "roles" THEN 1 ELSE RosterAt(GroupOf(id), k),
                          tags |-> RosterTags(GroupOf(id), k)]]]
      BY DEF Init, RosterNames
  <2>2. ASSUME NEW id \in GroupIds, NEW k \in RosterNames
        PROVE  /\ rosters[id][k] \in RosterRecords
               /\ ~rosters[id][k].stored => rosters[id][k].at = 0
               /\ PeoplePut(rosters[id][k].tags, id, granted)
    <3>1. CASE groups[id] = 0
      <4>1. rosters[id][k] = NoRoster
          BY <2>1, <3>1
      <4> QED
          BY <4>1, NoRosterShape DEF PeoplePut
    <3>2. CASE groups[id] # 0
      <4>1. PICK g \in GroupRecords : /\ g = GroupOf(id) /\ g.id = id /\ OnRecord(g, granted)
          BY <1>6, <1>8, <3>2 DEF GroupOf
      <4>2. PICK t \in TagRecords : t = RosterTags(g, k) /\ t.people \subseteq g.members
          BY TagShape
      <4>3. PICK at \in Nat : at = IF k = "roles" THEN 1 ELSE RosterAt(g, k)
          BY TagShape
      <4>4. rosters[id][k] = [stored |-> TRUE, at |-> at, tags |-> t]
          BY <2>1, <3>2, <4>1, <4>2, <4>3
      <4>5. PeoplePut(t, id, granted)
          BY <4>1, <4>2 DEF PeoplePut, WasPut, OnRecord
      <4> QED
          BY <4>4, <4>5 DEF RosterRecords
    <3> QED
        BY <3>1, <3>2
  <2>3. /\ rosters = [id \in GroupIds |-> rosters[id]]
        /\ \A id \in GroupIds : rosters[id] = [k \in RosterNames |-> rosters[id][k]]
      BY <2>1
  <2>4. \A id \in GroupIds : rosters[id] \in [RosterNames -> RosterRecords]
      BY <2>2, <2>3
  <2>5. rosters \in [GroupIds -> [RosterNames -> RosterRecords]]
      BY <2>3, <2>4
  <2> QED
      BY <2>2, <2>5 DEF RosterInv
<1>13. allMembers \in [Users -> Nat]
  <2>1. ASSUME NEW u \in Users PROVE Cardinality({e \in Founded : e.author = u}) \in Nat
    <3>1. {e \in Founded : e.author = u} \subseteq Founded
        OBVIOUS
    <3> QED
        BY <3>1, GroupsAssumption, FS_Subset, FS_CardinalityType
  <2> QED
      BY <2>1 DEF Init
<1>14. /\ deletedGroups \subseteq GroupIds
       /\ now \in Nat /\ up \in BOOLEAN /\ received \in Nat /\ fails \in Nat
    BY GroupsAssumption DEF Init
<1>15. GroupsTypeOK
    BY <1>6, <1>9, <1>11, <1>12, <1>13, <1>14 DEF GroupsTypeOK
<1> QED
    BY <1>7, <1>9, <1>10, <1>11, <1>12, <1>15 DEF GroupInv

\* main.go: the store starts with messages.
LEMMA InitStore == Init => StoreInv
<1> SUFFICES ASSUME Init PROVE StoreInv
    OBVIOUS
<1>1. \A e \in Founded : /\ e \in Messages /\ AddCreator(e) \in Messages
                         /\ CloseEvent(e) \in Messages
  <2>1. \A e \in Founded : e \in Messages /\ e.author \in Users
      BY GroupsAssumption DEF Answered
  <2> QED
      BY <2>1, AddCreatorShape, CloseShape
<1> QED
    BY <1>1 DEF Init, StoreInv

-----------------------------------------------------------------------------
(* The theorems *)

\* The clock and the end of the process, process_event.go:71.
LEMMA ClockKeeps ==
    ASSUME GroupInv, Tick \/ (\E h \in Handlers : Panic(h))
    PROVE  GroupInv'
<1>1. /\ UNCHANGED <<heap, groups, allMembers, deletedGroups, rosters, granted, hnd,
                     received, fails>>
      /\ (now' = now + 1 /\ up' = up) \/ (now' = now /\ up' = FALSE)
    BY DEF Tick, Panic, memVars, storeVars
<1>2. GroupsTypeOK'
  <2>1. now' \in Nat
      BY <1>1 DEF GroupInv, GroupsTypeOK
  <2>2. up' \in BOOLEAN
      BY <1>1, Zenon DEF GroupInv, GroupsTypeOK
  <2> QED
      BY <1>1, <2>1, <2>2 DEF GroupInv, GroupsTypeOK
<1>3. MapInv' /\ HeapInv' /\ GrantInv' /\ RosterInv' /\ HandlerInv'
    BY <1>1 DEF GroupInv, MapInv, HeapInv, GrantInv, RosterInv, HandlerInv
<1> QED
    BY <1>2, <1>3 DEF GroupInv

\* relay.go:46-59, process_event.go:51, 152, 182: only messages are saved, and what
\* leaves the store was in it.
LEMMA StoreKept ==
    ASSUME GroupInv, StoreInv, Next PROVE StoreInv'
<1>1. CASE Tick
    BY <1>1 DEF Tick, storeVars, StoreInv
<1>2. ASSUME NEW h \in Handlers, Arrival(h) PROVE StoreInv'
    BY <1>2 DEF Arrival, Receive, Wipe, storeVars, StoreInv
<1>3. ASSUME NEW h \in Handlers, Failure(h) PROVE StoreInv'
    BY <1>3 DEF Failure, StoreFails, SaveInnerFails, EraseFails, WriteRosterFails,
                RetractFails, WipeOneFails, Panic, storeVars, StoreInv
<1>4. ASSUME NEW h \in Handlers, StoreEvent(h) PROVE StoreInv'
  <2>1. hnd[h].ev \in Messages
      BY <1>4, HandlerFacts DEF StoreEvent, At, HoldsMessage, Wiping
  <2> QED
      BY <1>4, <2>1 DEF StoreEvent, StoreInv
<1>5. ASSUME NEW h \in Handlers, SaveInner(h) PROVE StoreInv'
  <2>1. InnerEvent(h) \in Messages
      BY <1>5, InnerShape DEF SaveInner, At
  <2> QED
      BY <1>5, <2>1 DEF SaveInner, StoreInv
<1>6. ASSUME NEW h \in Handlers, Step(h), ~StoreEvent(h), ~SaveInner(h) PROVE StoreInv'
  <2>1. db' \subseteq db /\ granted' = granted
      BY <1>6 DEF Step, Placeholder, StoreDuplicate, Register, Link,
           ApplyCreate, SaveInnerDuplicate, Load, ApplyAction, Erase,
           CacheDeleted, EraseDone, Unlink, Drop, LookAgain, React, Snapshot, Finish,
           SkipRoster, ReadRoster, RostersDone, WriteRoster, Retract, RetractEnds,
           WipeOne, WipeRosters, WipeMemory, DeleteFromStore, storeVars
  <2> QED
      BY <2>1 DEF StoreInv
<1> QED
    BY <1>1, <1>2, <1>3, <1>4, <1>5, <1>6 DEF Next

\* Every step of the relay keeps the invariant.
LEMMA StepKeeps ==
    ASSUME GroupInv, StoreInv, Next PROVE GroupInv' /\ StoreInv'
<1>1. CASE Tick
    BY <1>1, ClockKeeps, StoreKept
<1>2. ASSUME NEW h \in Handlers, Arrival(h) PROVE GroupInv'
    BY <1>2, ReceiveKeeps, WipeKeeps DEF Arrival
<1>3. ASSUME NEW h \in Handlers, Failure(h) PROVE GroupInv'
    BY <1>3, ForgetsKeep, EndingsKeep, RosterReadsKeep, ClockKeeps DEF Failure
<1>4. ASSUME NEW h \in Handlers, Step(h) PROVE GroupInv'
    BY <1>4, PlaceholderKeeps, StoreEventKeeps, EndingsKeep, ErasuresKeep, RegisterKeeps,
       LinkKeeps, ApplyCreateKeeps, SaveInnerKeeps, LoadKeeps, ApplyActionKeeps,
       UnlinkKeeps, ForgetsKeep, LookAgainKeeps, ReactKeeps, SnapshotKeeps,
       RosterReadsKeep, WriteRosterKeeps DEF Step
<1> QED
    BY <1>1, <1>2, <1>3, <1>4, StoreKept DEF Next

\* A step that changes nothing keeps everything.
LEMMA StutterKeeps ==
    ASSUME GroupInv, StoreInv, UNCHANGED vars PROVE GroupInv' /\ StoreInv'
<1>1. UNCHANGED <<heap, groups, allMembers, deletedGroups, rosters, db, granted, hnd,
                  now, up, received, fails>>
    BY DEF vars, memVars, storeVars, envVars
<1>2. GroupInv'
    BY <1>1 DEF GroupInv, GroupsTypeOK, MapInv, HeapInv, GrantInv, RosterInv, HandlerInv
<1>3. StoreInv'
    BY <1>1 DEF StoreInv
<1> QED
    BY <1>2, <1>3

\* The inductive invariant holds in every state of the relay.
LEMMA Invariance == Spec => [](GroupInv /\ StoreInv)
<1>1. GroupInv /\ StoreInv /\ [Next]_vars => (GroupInv /\ StoreInv)'
    BY StepKeeps, StutterKeeps
<1> QED
    BY <1>1, InitHolds, InitStore, PTL DEF Spec

\* The history of overlaps names groups.
DisturbedInv == disturbed \subseteq GroupIds

\* What a handler takes on, or a wipe leaves, disturbs groups.
LEMMA DisturbedKept ==
    ASSUME GroupInv, DisturbedInv, Next PROVE DisturbedInv'
<1>1. CASE Tick
    BY <1>1 DEF Tick, DisturbedInv
<1>2. ASSUME NEW h \in Handlers, NEW e, Recorded(h, e) PROVE DisturbedInv'
    BY <1>2 DEF Recorded, Overlap, DisturbedInv
<1>3. ASSUME NEW h \in Handlers, Arrival(h) PROVE DisturbedInv'
    BY <1>2, <1>3 DEF Arrival, Receive, Wipe
<1>4. ASSUME NEW h \in Handlers, WipeOneFails(h) PROVE DisturbedInv'
  <2>1. hnd[h].pc \in Wiping
      BY <1>4 DEF WipeOneFails, WipeTurn, At, Wiping
  <2>2. hnd[h].ev.group \in GroupIds
      BY <2>1, HandlerFacts DEF HoldsGroup
  <2> QED
      BY <1>4, <2>2 DEF WipeOneFails, DisturbedInv
<1>5. ASSUME NEW h \in Handlers, Failure(h), ~WipeOneFails(h) PROVE DisturbedInv'
    BY <1>5 DEF Failure, StoreFails, SaveInnerFails, EraseFails, WriteRosterFails,
                RetractFails, Panic, envVars, DisturbedInv
<1>6. ASSUME NEW h \in Handlers, Step(h) PROVE DisturbedInv'
    BY <1>6 DEF Step, Placeholder, StoreEvent, StoreDuplicate, Register, Link,
         ApplyCreate, SaveInner, SaveInnerDuplicate, Load, ApplyAction, Erase,
         CacheDeleted, EraseDone, Unlink, Drop, LookAgain, React, Snapshot, Finish,
         SkipRoster, ReadRoster, RostersDone, WriteRoster, Retract, RetractEnds,
         WipeOne, WipeRosters, WipeMemory, envVars, DisturbedInv
<1> QED
    BY <1>1, <1>3, <1>4, <1>5, <1>6 DEF Next

\* The same with the invariant.
LEMMA DisturbedGroups == Spec => []DisturbedInv
<1>1. Init => DisturbedInv
    BY DEF Init, DisturbedInv
<1>2. GroupInv /\ DisturbedInv /\ [Next]_vars => DisturbedInv'
  <2>1. ASSUME DisturbedInv, UNCHANGED vars PROVE DisturbedInv'
      BY <2>1 DEF vars, envVars, DisturbedInv
  <2> QED
      BY <2>1, DisturbedKept
<1> QED
    BY <1>1, <1>2, Invariance, PTL DEF Spec

\* state.go GroupsState: whatever handlers interleave, the map points at objects of
\* its ids, and every index a handler holds is an object.
THEOREM StateIsTyped == Spec => []TypeOK
<1>1. ASSUME GroupInv, DisturbedInv PROVE TypeOK
  <2>1. groups \in [GroupIds -> 0..Len(heap)]
    <3>1. \A id \in GroupIds : groups[id] \in 0..Len(heap)
        BY <1>1 DEF GroupInv, GroupsTypeOK, MapInv
    <3> QED
        BY <1>1, <3>1 DEF GroupInv, GroupsTypeOK
  <2>2. \A id \in Live : GroupOf(id).id = id
      BY <1>1 DEF GroupInv, MapInv, Live, GroupOf
  <2>3. ASSUME NEW h \in Handlers
        PROVE  /\ hnd[h].pc \in Places
               /\ hnd[h].obj \in 0..Len(heap) /\ hnd[h].target \in 0..Len(heap)
               /\ \A i \in DOMAIN hnd[h].todo : hnd[h].todo[i] \in 1..Len(heap)
      BY <1>1, HandlerFacts DEF HandlerRecords, HoldsObjects
  <2> QED
      BY <1>1, <2>1, <2>2, <2>3 DEF GroupInv, GroupsTypeOK, TypeOK, DisturbedInv
<1> QED
    BY <1>1, Invariance, DisturbedGroups, PTL

\* The live object of an id.
LEMMA LiveObject ==
    ASSUME GroupInv, NEW id \in Live
    PROVE  /\ GroupOf(id) \in GroupRecords /\ GroupOf(id).id = id
           /\ OnRecord(GroupOf(id), granted)
<1>1. PICK p \in 1..Len(heap) : p = groups[id] /\ heap[p].id = id
    BY DEF GroupInv, MapInv, Live
<1> QED
    BY <1>1 DEF GroupInv, GroupsTypeOK, HeapInv, GroupOf

\* relay.go:46-59, process_event.go:38-60: memory never runs ahead of the store.
\* Every member of every live group goes back, with the roles held, to a
\* put-user event that was stored.
THEOREM MembersComeFromTheStore == Spec => []MembersAreRecorded
<1>1. ASSUME GroupInv PROVE MembersAreRecorded
    BY <1>1, LiveObject DEF MembersAreRecorded, OnRecord, Puts
<1> QED
    BY <1>1, Invariance, PTL

\* reject_event.go:180-187: roles are handed out by the relay to a creator, or by
\* somebody who was given roles in that group before.
THEOREM RolesComeFromAuthority == Spec => []RolesTraceToAuthority
<1>1. ASSUME GroupInv PROVE RolesTraceToAuthority
  <2> SUFFICES ASSUME NEW id \in Live, NEW u \in Users, GroupOf(id).roles[u] # {}
               PROVE  \E e \in Puts(id) :
                         /\ u \in e.users /\ e.roles = GroupOf(id).roles[u]
                         /\ \/ e.author = RelayKey
                            \/ \E f \in Puts(id) : e.author \in f.users /\ f.roles # {}
      BY DEF RolesTraceToAuthority
  <2>1. PICK e \in granted : /\ e.kind = "put" /\ e.group = id
                             /\ u \in e.users /\ e.roles = GroupOf(id).roles[u]
      BY <1>1, LiveObject DEF OnRecord
  <2>2. HasAuthority(e, granted)
      BY <1>1 DEF GroupInv, GrantInv
  <2> QED
      BY <2>1, <2>2 DEF HasAuthority, Puts
<1> QED
    BY <1>1, Invariance, PTL

\* group.go:276-352: nobody is published who was not put into a group of that
\* id, though rosters come from snapshots of objects that may have been dropped.
THEOREM OnlyPeoplePutArePublished == Spec => []PublishedPeopleWerePut
<1>1. ASSUME GroupInv PROVE PublishedPeopleWerePut
  <2>1. \A id \in GroupIds : DOMAIN rosters[id] = RosterNames
      BY <1>1 DEF GroupInv, GroupsTypeOK
  <2> QED
      BY <1>1, <2>1 DEF GroupInv, RosterInv, PeoplePut, WasPut, PublishedPeopleWerePut
<1> QED
    BY <1>1, Invariance, PTL
=============================================================================
