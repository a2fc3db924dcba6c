---------------------------- MODULE LiveKitProofs ----------------------------
(***************************************************************************)
(* Proofs about LiveKit for any groups, users and number of webhook         *)
(* handlers.  The list a handler holds was fetched, put into the group and  *)
(* written to the store at three moments.  KitInv says which of the lists   *)
(* under way is the latest by its time, and that a list nobody moved after  *)
(* is the room's.                                                           *)
(***************************************************************************)
EXTENDS LiveKit, TLAPS

Identities == (Users \cup Guests) \X Suffixes
GroupType == [made : Nat, live : BOOLEAN, livekit : BOOLEAN, people : SUBSET Users]
HookType == [pc : {"idle", "fetch", "apply", "write"}, gid : GroupIds \cup {""},
             made : Nat, people : SUBSET Users, at : Nat]

\* The group objects, the handlers, the store and the counters have their types.
KitTypeOK ==
    /\ group \in [GroupIds -> GroupType]
    /\ hook \in [Hooks -> HookType]
    /\ stored \in [GroupIds -> [at : Nat, people : SUBSET Users]]
    /\ room \in [GroupIds -> SUBSET Identities]
    /\ pending \in [GroupIds -> Nat]
    /\ last \in [GroupIds -> Nat]
    /\ now \in Nat \ {0}
    /\ \A h \in Hooks : hook[h].pc # "idle" => hook[h].gid \in GroupIds

Writes(h, g) == hook[h].pc = "write" /\ hook[h].gid = g

\* No list, stored or about to be, is dated after the last one.
TimeInv ==
    \A g \in GroupIds :
       /\ last[g] <= now /\ stored[g].at <= last[g]
       /\ \A h \in Hooks : Writes(h, g) => hook[h].at <= last[g]

\* Everybody about to write but h has a list that is not the last.
OthersAreOlder(h, g) == \A k \in Hooks : k # h /\ Writes(k, g) => hook[k].at < last[g]

\* The last list is the one memory has: it is in the store, or about to be
\* written by one handler.
IsStored(g) ==
    /\ stored[g].people = group[g].people /\ stored[g].at = last[g]
    /\ \A k \in Hooks : Writes(k, g) => hook[k].at < last[g]
IsWritten(h, g) ==
    /\ Writes(h, g) /\ hook[h].people = group[g].people /\ hook[h].at = last[g]
    /\ stored[g].at < last[g]
    /\ OthersAreOlder(h, g)
LatestInv ==
    \A g \in GroupIds \ unsaved : IsStored(g) \/ \E h \in Hooks : IsWritten(h, g)

\* A group that has caught up has one handler at a time, of the object there is,
\* and unless a webhook is on its way, what it fetched is what the room holds.
CaughtUp(g) ==
    /\ \A h, k \in Hooks : Active(h, g) /\ Active(k, g) => h = k
    /\ \A h \in Hooks : Active(h, g) => hook[h].made = group[g].made
    /\ pending[g] = 0 =>
          /\ (\A h \in Hooks : ~Active(h, g)) => group[g].people = UsersIn(g)
          /\ \A h \in Hooks : Active(h, g) =>
                /\ hook[h].pc = "apply" => hook[h].people = UsersIn(g)
                /\ hook[h].pc = "write" => group[g].people = UsersIn(g)
RoomInv == \A g \in GroupIds \ strayed : CaughtUp(g)

\* A group that has caught up and is not saved has a list on its way.
SavedInv ==
    \A g \in unsaved \ strayed : \E h \in Hooks : hook[h].pc = "apply" /\ hook[h].gid = g

\* The inductive invariant.
KitInv == KitTypeOK /\ TimeInv /\ LatestInv /\ RoomInv /\ SavedInv

-----------------------------------------------------------------------------

\* Empty rooms, empty lists: the relay as it starts satisfies the invariant.
LEMMA KitInit == Init => KitInv
<1> SUFFICES ASSUME Init PROVE KitInv
  OBVIOUS
<1> USE DEF Init, Active, Writes
<1>0. IdleHook \in HookType /\ IdleHook.pc = "idle"
  BY DEF IdleHook, HookType
<1>1. KitTypeOK
  <2>1. group \in [GroupIds -> GroupType]
    BY DEF NewGroup, GroupType
  <2>2. stored \in [GroupIds -> [at : Nat, people : SUBSET Users]]
    BY DEF NoList
  <2>3. QED
    BY <1>0, <2>1, <2>2 DEF KitTypeOK
<1>2. TimeInv
  BY <1>0 DEF TimeInv, NoList
<1>3. LatestInv
  BY <1>0 DEF LatestInv, IsStored, NewGroup, NoList
<1>4. RoomInv
  BY <1>0 DEF RoomInv, CaughtUp, UsersIn, NewGroup
<1>5. SavedInv
  BY DEF SavedInv
<1>6. QED
  BY <1>1, <1>2, <1>3, <1>4, <1>5 DEF KitInv

\* What is left alone stays as it was: a group whose own state, handlers and
\* time are untouched keeps what the invariant says of it.
LEMMA Untouched ==
    ASSUME NEW g \in GroupIds,
           group'[g] = group[g], stored'[g] = stored[g], room'[g] = room[g],
           pending'[g] = pending[g], last'[g] = last[g],
           \A h \in Hooks : (Active(h, g)' <=> Active(h, g)) /\ (Active(h, g) => hook'[h] = hook[h])
    PROVE  /\ IsStored(g) => IsStored(g)'
           /\ \A h \in Hooks : IsWritten(h, g) => IsWritten(h, g)'
           /\ CaughtUp(g) => CaughtUp(g)'
           /\ \A h \in Hooks : hook[h].pc = "apply" /\ hook[h].gid = g => hook'[h] = hook[h]
           /\ \A h \in Hooks : Writes(h, g)' <=> Writes(h, g)
<1>1. \A h \in Hooks : (Writes(h, g)' <=> Writes(h, g)) /\ (Writes(h, g) => hook'[h] = hook[h])
  BY DEF Writes, Active
<1>2. IsStored(g) => IsStored(g)'
  BY <1>1 DEF IsStored
<1>3. \A h \in Hooks : IsWritten(h, g) => IsWritten(h, g)'
  BY <1>1 DEF IsWritten, OthersAreOlder
<1>4. UsersIn(g)' = UsersIn(g)
  BY DEF UsersIn
<1>5. CaughtUp(g) => CaughtUp(g)'
  BY <1>4 DEF CaughtUp
<1>6. QED
  BY <1>1, <1>2, <1>3, <1>5 DEF Active

\* Tokens, and the clock: nothing of the lists changes.
LEMMA OutsideStep ==
    ASSUME KitInv,
           UNCHANGED <<groupVars, room, pending, hook, stored, history>>,
           now' = now \/ now' = now + 1
    PROVE  KitInv'
<1> USE DEF KitInv, groupVars, history, Active, Writes
<1>1. KitTypeOK'
  BY DEF KitTypeOK
<1>2. TimeInv'
  BY DEF TimeInv, KitTypeOK
<1>3. LatestInv' /\ RoomInv' /\ SavedInv'
  BY DEF LatestInv, IsStored, IsWritten, OthersAreOlder, RoomInv, CaughtUp, UsersIn, SavedInv
<1>4. QED
  BY <1>1, <1>2, <1>3

\* Somebody moves in a room, and a webhook is on its way.
LEMMA MoveStep ==
    ASSUME KitInv, NEW g \in GroupIds, NEW people \in SUBSET Identities, Move(g, people)
    PROVE  KitInv'
<1> USE DEF KitInv, Move, groupVars, history, Active, Writes
<1>1. KitTypeOK'
  BY DEF KitTypeOK
<1>2. TimeInv' /\ LatestInv' /\ SavedInv'
  BY DEF TimeInv, LatestInv, IsStored, IsWritten, OthersAreOlder, SavedInv
<1>3. pending'[g] # 0 /\ \A x \in GroupIds : x # g => pending'[x] = pending[x] /\ room'[x] = room[x]
  BY DEF KitTypeOK
<1>4. RoomInv'
  BY <1>3 DEF RoomInv, CaughtUp, UsersIn
<1>5. QED
  BY <1>1, <1>2, <1>4

\* A webhook is lost or refused: the room may have moved on.
LEMMA StrayStep ==
    ASSUME KitInv, NEW g \in GroupIds, LoseWebhook(g) \/ Refuse(g)
    PROVE  KitInv'
<1> USE DEF KitInv, groupVars, roomVars, Active, Writes
<1>0. /\ pending[g] > 0 /\ pending' = [pending EXCEPT ![g] = @ - 1]
      /\ strayed' = strayed \cup {g}
      /\ UNCHANGED <<groupVars, roomVars, hook, stored, now, last, unsaved>>
  BY DEF LoseWebhook, Refuse
<1>1. KitTypeOK'
  BY <1>0 DEF KitTypeOK
<1>2. TimeInv' /\ LatestInv' /\ SavedInv'
  BY <1>0 DEF TimeInv, LatestInv, IsStored, IsWritten, OthersAreOlder, SavedInv
<1>3. RoomInv'
  BY <1>0 DEF RoomInv, CaughtUp, UsersIn, KitTypeOK
<1>4. QED
  BY <1>1, <1>2, <1>3

\* LiveKit is switched on or off: the object and its list stay.
LEMMA SwitchStep ==
    ASSUME KitInv, NEW g \in GroupIds, SwitchLiveKit(g)
    PROVE  KitInv'
<1> USE DEF KitInv, roomVars, Active, Writes, SwitchLiveKit, ChangeGroup
<1>1. /\ \A x \in GroupIds : group'[x].people = group[x].people /\ group'[x].made = group[x].made
      /\ group' \in [GroupIds -> GroupType]
  BY DEF KitTypeOK, GroupType
<1>2. KitTypeOK'
  BY <1>1 DEF KitTypeOK
<1>3. TimeInv' /\ LatestInv' /\ SavedInv'
  BY <1>1 DEF TimeInv, LatestInv, IsStored, IsWritten, OthersAreOlder, SavedInv
<1>4. RoomInv'
  BY <1>1 DEF RoomInv, CaughtUp, UsersIn
<1>5. QED
  BY <1>2, <1>3, <1>4

\* A group is deleted or created anew, or its stored list is taken away: it has
\* neither caught up nor been saved.
LEMMA ChangeStep ==
    ASSUME KitInv, NEW g \in GroupIds, DeleteGroup(g) \/ CreateGroup(g) \/ EraseList(g)
    PROVE  KitInv'
<1> USE DEF KitInv, roomVars
<1>0. /\ strayed' = strayed \cup {g} /\ unsaved' = unsaved \cup {g}
      /\ UNCHANGED <<room, pending, hook, now, last>>
      /\ group' \in [GroupIds -> GroupType] /\ \A x \in GroupIds : x # g => group'[x] = group[x]
      /\ \A x \in GroupIds : stored'[x] = stored[x] \/ (x = g /\ stored'[x] = NoList)
      /\ stored' \in [GroupIds -> [at : Nat, people : SUBSET Users]]
  <2>1. group[g] \in GroupType
    BY DEF KitTypeOK
  <2>2. CASE DeleteGroup(g)
    BY <2>1, <2>2 DEF DeleteGroup, ChangeGroup, KitTypeOK, GroupType
  <2>3. CASE CreateGroup(g)
    <3>1. NewGroup(group[g].made + 1, FALSE) \in GroupType
      BY <2>1 DEF NewGroup, GroupType
    <3>2. QED
      BY <2>3, <3>1 DEF CreateGroup, ChangeGroup, KitTypeOK
  <2>4. CASE EraseList(g)
    BY <2>4 DEF EraseList, KitTypeOK, NoList
  <2>5. QED
    BY <2>2, <2>3, <2>4
<1>1. KitTypeOK'
  BY <1>0 DEF KitTypeOK
<1>2. TimeInv'
  BY <1>0 DEF TimeInv, KitTypeOK, NoList, Writes
<1>3. \A x \in GroupIds : x # g =>
         /\ IsStored(x) => IsStored(x)'
         /\ \A h \in Hooks : IsWritten(h, x) => IsWritten(h, x)'
         /\ CaughtUp(x) => CaughtUp(x)'
  BY <1>0, Untouched DEF Active
<1>4. LatestInv'
  BY <1>0, <1>3 DEF LatestInv
<1>5. RoomInv'
  BY <1>0, <1>3 DEF RoomInv
<1>6. SavedInv'
  BY <1>0 DEF SavedInv
<1>7. QED
  BY <1>1, <1>2, <1>4, <1>5, <1>6

\* The relay restarts: no group has caught up.
LEMMA RestartStep ==
    ASSUME KitInv, Restart
    PROVE  KitInv'
<1> USE DEF KitInv, Restart
<1>1. IdleHook \in HookType /\ IdleHook.pc = "idle"
  BY DEF IdleHook, HookType
<1>2. group' \in [GroupIds -> GroupType]
  BY DEF KitTypeOK, GroupType
<1>3. KitTypeOK'
  BY <1>1, <1>2 DEF KitTypeOK
<1>4. TimeInv'
  BY <1>1 DEF TimeInv, Writes
<1>5. LatestInv' /\ RoomInv' /\ SavedInv'
  BY DEF LatestInv, RoomInv, SavedInv
<1>6. QED
  BY <1>3, <1>4, <1>5

\* A webhook arrives: its handler is alone, or the group's webhooks overlap.
LEMMA ReceiveStep ==
    ASSUME KitInv, NEW g \in GroupIds, NEW h \in Hooks, Receive(h, g)
    PROVE  KitInv'
<1> USE DEF KitInv, groupVars, roomVars
<1> DEFINE k == [IdleHook EXCEPT !.pc = "fetch", !.gid = g, !.made = group[g].made]
<1>a. /\ k \in HookType /\ k.pc = "fetch" /\ k.gid = g /\ k.made = group[g].made
  BY DEF KitTypeOK, GroupType, IdleHook, HookType
<1>0. /\ hook[h].pc = "idle" /\ pending[g] > 0
      /\ pending' = [pending EXCEPT ![g] = @ - 1]
      /\ hook' = [hook EXCEPT ![h] = k]
      /\ strayed' = IF Overlaps(g) THEN strayed \cup {g} ELSE strayed
      /\ UNCHANGED <<group, room, stored, now, last, unsaved>>
  BY DEF Receive
<1> HIDE DEF k
<1>1. KitTypeOK'
  <2>1. hook' \in [Hooks -> HookType] /\ pending' \in [GroupIds -> Nat]
    BY <1>a, <1>0 DEF KitTypeOK
  <2>2. \A x \in Hooks : hook'[x].pc # "idle" => hook'[x].gid \in GroupIds
    BY <1>a, <1>0 DEF KitTypeOK
  <2>3. QED
    BY <1>0, <2>1, <2>2 DEF KitTypeOK
<1>2. /\ hook'[h].pc = "fetch" /\ hook'[h].gid = g /\ hook'[h].made = group[g].made
      /\ \A x \in Hooks : x # h => hook'[x] = hook[x]
  BY <1>a, <1>0 DEF KitTypeOK
<1>3. TimeInv'
  BY <1>0, <1>2 DEF TimeInv, Writes
<1>4. LatestInv'
  BY <1>0, <1>2 DEF LatestInv, IsStored, IsWritten, OthersAreOlder, Writes
<1>5. SavedInv'
  BY <1>0, <1>2 DEF SavedInv
<1>6. RoomInv'
  <2> SUFFICES ASSUME NEW x \in GroupIds \ strayed' PROVE CaughtUp(x)'
    BY DEF RoomInv
  <2>1. CASE x = g
    <3>1. \A y \in Hooks : ~Active(y, g)
      BY <1>0, <2>1 DEF Overlaps
    <3>2. \A y \in Hooks : Active(y, g)' => y = h
      BY <1>2, <3>1 DEF Active
    <3>3. Active(h, g)'
      BY <1>2 DEF Active
    <3>4. QED
      BY <1>0, <1>2, <2>1, <3>2, <3>3 DEF CaughtUp
  <2>2. CASE x # g
    <3>1. x \notin strayed /\ pending'[x] = pending[x]
      BY <1>0, <2>2 DEF KitTypeOK
    <3>2. \A y \in Hooks : (Active(y, x)' <=> Active(y, x)) /\ (Active(y, x) => hook'[y] = hook[y])
      BY <1>0, <1>2, <2>2 DEF Active
    <3>3. QED
      BY <1>0, <3>1, <3>2, Untouched DEF RoomInv
  <2>3. QED
    BY <2>1, <2>2
<1>7. QED
  BY <1>1, <1>3, <1>4, <1>5, <1>6

\* The participants are fetched: a handler that is alone has the room's.
LEMMA FetchStep ==
    ASSUME KitInv, NEW h \in Hooks, Fetch(h)
    PROVE  KitInv'
<1> USE DEF KitInv, groupVars, roomVars
<1>0. PICK g \in GroupIds :
      /\ hook[h].pc = "fetch" /\ g = hook[h].gid
      /\ UNCHANGED <<group, room, pending, stored, now, last, unsaved>>
      /\ hook' = [hook EXCEPT ![h].pc = "apply", ![h].people = UsersIn(g)]
      /\ strayed' = IF Alone(h, g) /\ group[g].live /\ group[g].made = hook[h].made
                    THEN strayed \ {g} ELSE strayed
  BY DEF Fetch, listLiveKitParticipants, KitTypeOK
<1>1. KitTypeOK'
  <2>1. hook[h] \in HookType /\ UsersIn(g) \in SUBSET Users
    BY DEF KitTypeOK, UsersIn
  <2>2. hook' \in [Hooks -> HookType]
    BY <1>0, <2>1 DEF KitTypeOK, HookType
  <2>3. \A x \in Hooks : hook'[x].pc # "idle" => hook'[x].gid \in GroupIds
    BY <1>0 DEF KitTypeOK, HookType
  <2>4. QED
    BY <1>0, <2>2, <2>3 DEF KitTypeOK
<1>2. /\ hook'[h].pc = "apply" /\ hook'[h].gid = g /\ hook'[h].made = hook[h].made
      /\ hook'[h].people = UsersIn(g)
      /\ \A k \in Hooks : k # h => hook'[k] = hook[k]
  BY <1>0 DEF KitTypeOK, HookType
<1>3. TimeInv'
  BY <1>0, <1>2 DEF TimeInv, Writes
<1>4. LatestInv'
  <2>1. \A x \in GroupIds, k \in Hooks :
           (Writes(k, x)' <=> Writes(k, x)) /\ (Writes(k, x) => hook'[k] = hook[k])
    BY <1>0, <1>2 DEF Writes
  <2>2. \A x \in GroupIds : IsStored(x) => IsStored(x)'
    BY <1>0, <2>1 DEF IsStored
  <2>3. \A x \in GroupIds, k \in Hooks : IsWritten(k, x) => IsWritten(k, x)'
    BY <1>0, <2>1 DEF IsWritten, OthersAreOlder
  <2>4. QED
    BY <1>0, <2>2, <2>3 DEF LatestInv
<1>5. SavedInv'
  <2> SUFFICES ASSUME NEW x \in unsaved', x \notin strayed'
               PROVE  \E k \in Hooks : hook'[k].pc = "apply" /\ hook'[k].gid = x
    BY DEF SavedInv
  <2>1. CASE x = g
    BY <1>2, <2>1
  <2>2. CASE x # g
    <3>1. x \in unsaved \ strayed
      BY <1>0, <2>2
    <3>2. PICK k \in Hooks : hook[k].pc = "apply" /\ hook[k].gid = x
      BY <3>1 DEF SavedInv
    <3>3. QED
      BY <1>0, <1>2, <3>2
  <2>3. QED
    BY <2>1, <2>2
<1>6. RoomInv'
  <2> SUFFICES ASSUME NEW x \in GroupIds \ strayed' PROVE CaughtUp(x)'
    BY DEF RoomInv
  <2>0. \A y \in GroupIds, k \in Hooks : Active(k, y)' <=> Active(k, y)
    BY <1>0, <1>2 DEF Active
  <2>1. CASE x = g
    <3>1. /\ \A k \in Hooks : Active(k, g) => k = h
          /\ hook[h].made = group[g].made
      <4>1. CASE g \in strayed
        BY <1>0, <2>1, <4>1 DEF Alone
      <4>2. CASE g \notin strayed
        BY <1>0, <4>2 DEF RoomInv, CaughtUp, Active
      <4>3. QED
        BY <4>1, <4>2
    <3>2. UsersIn(g)' = UsersIn(g)
      BY <1>0 DEF UsersIn
    <3>3. Active(h, g)'
      BY <1>2 DEF Active
    <3>4. QED
      BY <1>0, <1>2, <2>0, <2>1, <3>1, <3>2, <3>3 DEF CaughtUp
  <2>2. CASE x # g
    <3>1. x \notin strayed
      BY <1>0, <2>2
    <3>2. \A k \in Hooks : Active(k, x) => hook'[k] = hook[k]
      BY <1>0, <1>2, <2>2 DEF Active
    <3>3. QED
      BY <1>0, <2>0, <3>1, <3>2, Untouched DEF RoomInv
  <2>3. QED
    BY <2>1, <2>2
<1>7. QED
  BY <1>1, <1>3, <1>4, <1>5, <1>6

\* A call fails and the handler ends: the group has not caught up, and if it was
\* the write, is not saved.
LEMMA FailStep ==
    ASSUME KitInv, NEW h \in Hooks, FetchFails(h) \/ WriteListFails(h)
    PROVE  KitInv'
<1> USE DEF KitInv, groupVars, roomVars
<1>0. PICK g \in GroupIds :
      /\ g = hook[h].gid
      /\ \/ hook[h].pc = "fetch" /\ unsaved' = unsaved
         \/ hook[h].pc = "write" /\ unsaved' = unsaved \cup {g}
      /\ UNCHANGED <<group, room, pending, stored, now, last>>
      /\ hook' = [hook EXCEPT ![h] = IdleHook] /\ strayed' = strayed \cup {g}
  BY DEF FetchFails, WriteListFails, KitTypeOK
<1>1. KitTypeOK'
  BY <1>0 DEF KitTypeOK, HookType, IdleHook
<1>2. hook'[h].pc = "idle" /\ \A k \in Hooks : k # h => hook'[k] = hook[k]
  BY <1>0 DEF KitTypeOK, IdleHook
<1>3. TimeInv'
  BY <1>0, <1>2 DEF TimeInv, Writes
<1>4. LatestInv'
  BY <1>0, <1>2 DEF LatestInv, IsStored, IsWritten, OthersAreOlder, Writes
<1>5. SavedInv'
  BY <1>0, <1>2 DEF SavedInv
<1>6. RoomInv'
  <2>1. \A x \in GroupIds : x # g =>
           \A k \in Hooks : (Active(k, x)' <=> Active(k, x)) /\ (Active(k, x) => hook'[k] = hook[k])
    BY <1>0, <1>2 DEF Active
  <2>2. \A x \in GroupIds : x # g => (CaughtUp(x) => CaughtUp(x)')
    BY <1>0, <2>1, Untouched
  <2>3. QED
    BY <1>0, <2>2 DEF RoomInv
<1>7. QED
  BY <1>1, <1>3, <1>4, <1>5, <1>6

\* The list is put into the group: it is the last, and the room's if alone.
LEMMA ApplyStep ==
    ASSUME KitInv, NEW h \in Hooks, ApplyList(h)
    PROVE  KitInv'
<1> USE DEF KitInv, roomVars
<1> DEFINE inOrder(x) == group[x].made = hook[h].made /\ now > last[x]
<1>0. PICK g \in GroupIds :
      /\ hook[h].pc = "apply" /\ g = hook[h].gid
      /\ UNCHANGED <<room, pending, stored, now>>
      /\ group' = IF group[g].made = hook[h].made
                  THEN [group EXCEPT ![g].people = hook[h].people] ELSE group
      /\ hook' = [hook EXCEPT ![h].pc = "write", ![h].at = now]
      /\ last' = [last EXCEPT ![g] = now]
      /\ strayed' = IF inOrder(g) THEN strayed ELSE strayed \cup {g}
      /\ unsaved' = IF inOrder(g) THEN unsaved \ {g} ELSE unsaved \cup {g}
  BY DEF ApplyList, KitTypeOK
<1>1. /\ hook'[h].pc = "write" /\ hook'[h].gid = g /\ hook'[h].made = hook[h].made
      /\ hook'[h].people = hook[h].people /\ hook'[h].at = now
      /\ \A k \in Hooks : k # h => hook'[k] = hook[k]
  BY <1>0 DEF KitTypeOK, HookType
<1>2. /\ last'[g] = now
      /\ \A x \in GroupIds : x # g => group'[x] = group[x] /\ last'[x] = last[x]
      /\ inOrder(g) => group'[g].people = hook[h].people /\ group'[g].made = group[g].made
  BY <1>0 DEF KitTypeOK, GroupType
<1>3. KitTypeOK'
  <2>1. hook[h] \in HookType /\ hook[h].people \in SUBSET Users
    BY DEF KitTypeOK, HookType
  <2>2. group' \in [GroupIds -> GroupType]
    <3>1. CASE group' = group
      BY <3>1 DEF KitTypeOK
    <3>2. CASE group' = [group EXCEPT ![g].people = hook[h].people]
      BY <2>1, <3>2 DEF KitTypeOK, GroupType
    <3>3. QED
      BY <1>0, <3>1, <3>2
  <2>3. hook' \in [Hooks -> HookType]
    BY <1>0, <2>1 DEF KitTypeOK, HookType
  <2>4. QED
    BY <1>0, <1>1, <2>2, <2>3 DEF KitTypeOK
<1>4. TimeInv'
  <2> SUFFICES ASSUME NEW x \in GroupIds
               PROVE  /\ last'[x] <= now /\ stored[x].at <= last'[x]
                      /\ \A k \in Hooks : Writes(k, x)' => hook'[k].at <= last'[x]
    BY <1>0 DEF TimeInv
  <2>0. /\ now \in Nat /\ last[x] \in Nat /\ stored[x].at \in Nat
        /\ last[x] <= now /\ stored[x].at <= last[x]
        /\ \A k \in Hooks : hook[k].at \in Nat
    BY DEF TimeInv, KitTypeOK, HookType
  <2>1. \A k \in Hooks : k # h /\ Writes(k, x)' => Writes(k, x) /\ hook'[k].at <= last[x]
    BY <1>1 DEF TimeInv, Writes
  <2>2. Writes(h, x)' => x = g /\ hook'[h].at = now
    BY <1>1 DEF Writes
  <2>3. last'[x] = now \/ (last'[x] = last[x] /\ x # g)
    BY <1>2
  <2>4. \A k \in Hooks : Writes(k, x)' => hook'[k].at <= last'[x]
    <3>1. TAKE k \in Hooks
    <3>2. CASE k = h
      BY <1>2, <2>0, <2>2, <3>2
    <3>3. CASE k # h
      <4>1. hook'[k].at = hook[k].at
        BY <1>1, <3>3
      <4>2. QED
        BY <2>0, <2>1, <2>3, <3>3, <4>1
    <3>4. QED
      BY <3>2, <3>3
  <2>5. QED
    BY <2>0, <2>3, <2>4
<1>5. \A x \in GroupIds : x # g =>
         \A k \in Hooks : (Active(k, x)' <=> Active(k, x)) /\ (Active(k, x) => hook'[k] = hook[k])
  BY <1>0, <1>1 DEF Active
<1>6. \A x \in GroupIds : x # g =>
         /\ IsStored(x) => IsStored(x)'
         /\ \A k \in Hooks : IsWritten(k, x) => IsWritten(k, x)'
         /\ CaughtUp(x) => CaughtUp(x)'
  BY <1>0, <1>2, <1>5, Untouched
<1>7. LatestInv'
  <2> SUFFICES ASSUME NEW x \in GroupIds, x \notin unsaved'
               PROVE  IsStored(x)' \/ \E k \in Hooks : IsWritten(k, x)'
    BY DEF LatestInv
  <2>1. CASE x = g
    <3>1. inOrder(g)
      BY <1>0, <2>1
    <3>2. \A k \in Hooks : k # h /\ Writes(k, g)' => hook'[k].at < last'[g]
      <4>1. \A k \in Hooks : Writes(k, g) => hook[k].at <= last[g] /\ hook[k].at \in Nat
        BY DEF TimeInv, KitTypeOK, HookType
      <4>2. \A k \in Hooks : k # h /\ Writes(k, g)' => Writes(k, g) /\ hook'[k].at = hook[k].at
        BY <1>1 DEF Writes
      <4>3. now \in Nat /\ last[g] \in Nat /\ last[g] < now
        BY <3>1 DEF KitTypeOK
      <4>4. QED
        BY <1>2, <4>1, <4>2, <4>3
    <3>3. stored'[g].at < last'[g]
      BY <1>0, <1>2, <3>1 DEF TimeInv, KitTypeOK
    <3>4. IsWritten(h, g)'
      BY <1>1, <1>2, <3>1, <3>2, <3>3 DEF IsWritten, Writes, OthersAreOlder
    <3>5. QED
      BY <2>1, <3>4
  <2>2. CASE x # g
    <3>1. x \notin unsaved
      BY <1>0, <2>2
    <3>2. QED
      BY <1>6, <2>2, <3>1 DEF LatestInv
  <2>3. QED
    BY <2>1, <2>2
<1>8. RoomInv'
  <2> SUFFICES ASSUME NEW x \in GroupIds \ strayed' PROVE CaughtUp(x)'
    BY DEF RoomInv
  <2>0. x \notin strayed
    BY <1>0
  <2>1. CASE x = g
    <3>1. inOrder(g)
      BY <1>0, <2>1
    <3>2. UsersIn(g)' = UsersIn(g)
      BY <1>0 DEF UsersIn
    <3>3. \A k \in Hooks : Active(k, g)' <=> Active(k, g)
      BY <1>0, <1>1 DEF Active
    <3>4. CaughtUp(g) /\ Active(h, g)
      BY <1>0, <2>0, <2>1 DEF RoomInv, Active
    <3>5. QED
      BY <1>0, <1>1, <1>2, <2>1, <3>1, <3>2, <3>3, <3>4 DEF CaughtUp
  <2>2. CASE x # g
    BY <1>6, <2>0, <2>2 DEF RoomInv
  <2>3. QED
    BY <2>1, <2>2
<1>9. SavedInv'
  <2> SUFFICES ASSUME NEW x \in unsaved', x \notin strayed'
               PROVE  \E k \in Hooks : hook'[k].pc = "apply" /\ hook'[k].gid = x
    BY DEF SavedInv
  <2>1. x # g /\ x \in unsaved \ strayed
    BY <1>0
  <2>2. PICK k \in Hooks : hook[k].pc = "apply" /\ hook[k].gid = x
    BY <2>1 DEF SavedInv
  <2>3. QED
    BY <1>0, <1>1, <2>1, <2>2
<1>10. QED
  BY <1>3, <1>4, <1>7, <1>8, <1>9

\* The event is written: it lands if its time is later than the stored one's.
LEMMA WriteStep ==
    ASSUME KitInv, NEW h \in Hooks, WriteList(h)
    PROVE  KitInv'
<1> USE DEF KitInv, groupVars, roomVars, history
<1>0. PICK g \in GroupIds :
      /\ hook[h].pc = "write" /\ g = hook[h].gid
      /\ UNCHANGED <<group, room, pending, now, last, strayed, unsaved>>
      /\ hook' = [hook EXCEPT ![h] = IdleHook]
  BY DEF WriteList, KitTypeOK
<1>1. /\ hook'[h].pc = "idle" /\ \A k \in Hooks : k # h => hook'[k] = hook[k]
  BY <1>0 DEF KitTypeOK, IdleHook
<1>2. PICK lands \in Replaces(g, hook[h].at) :
         stored' = IF lands
                   THEN [stored EXCEPT ![g] = [at |-> hook[h].at, people |-> hook[h].people]]
                   ELSE stored
  BY <1>0 DEF WriteList
<1>3. hook[h] \in HookType /\ hook[h].at \in Nat /\ stored[g].at \in Nat
  BY <1>0 DEF KitTypeOK, HookType
<1>4. /\ \A x \in GroupIds : x # g => stored'[x] = stored[x]
      /\ \/ stored'[g] = stored[g] /\ hook[h].at <= stored[g].at
         \/ /\ stored'[g] = [at |-> hook[h].at, people |-> hook[h].people]
            /\ hook[h].at >= stored[g].at
  <2>1. CASE hook[h].at = stored[g].at
    BY <1>2, <1>3, <2>1 DEF KitTypeOK
  <2>2. CASE hook[h].at # stored[g].at
    <3>1. lands = (hook[h].at > stored[g].at)
      BY <1>2, <2>2 DEF Replaces
    <3>2. CASE hook[h].at > stored[g].at
      <4>1. stored' = [stored EXCEPT ![g] = [at |-> hook[h].at, people |-> hook[h].people]]
        BY <1>2, <3>1, <3>2
      <4>2. QED
        BY <1>3, <3>2, <4>1 DEF KitTypeOK
    <3>3. CASE ~(hook[h].at > stored[g].at)
      <4>1. stored' = stored
        BY <1>2, <3>1, <3>3
      <4>2. QED
        BY <1>3, <3>3, <4>1
    <3>4. QED
      BY <3>2, <3>3
  <2>3. QED
    BY <2>1, <2>2
<1>5. KitTypeOK'
  BY <1>0, <1>1, <1>2, <1>3 DEF KitTypeOK, HookType, IdleHook
<1>a. hook[h].at <= last[g] /\ stored[g].at <= last[g] /\ last[g] \in Nat
  BY <1>0 DEF TimeInv, KitTypeOK, Writes
<1>6. TimeInv'
  <2>1. stored'[g].at <= last[g]
    BY <1>4, <1>a
  <2>2. \A x \in GroupIds, k \in Hooks : Writes(k, x)' => Writes(k, x) /\ hook'[k] = hook[k]
    BY <1>0, <1>1 DEF Writes
  <2>3. QED
    BY <1>0, <1>4, <2>1, <2>2 DEF TimeInv
<1>7. \A x \in GroupIds : x # g =>
         \A k \in Hooks : (Active(k, x)' <=> Active(k, x)) /\ (Active(k, x) => hook'[k] = hook[k])
  BY <1>0, <1>1 DEF Active
<1>8. \A x \in GroupIds : x # g =>
         /\ IsStored(x) => IsStored(x)'
         /\ \A k \in Hooks : IsWritten(k, x) => IsWritten(k, x)'
         /\ CaughtUp(x) => CaughtUp(x)'
  BY <1>0, <1>4, <1>7, Untouched
<1>9. LatestInv'
  <2> SUFFICES ASSUME NEW x \in GroupIds, x \notin unsaved
               PROVE  IsStored(x)' \/ \E k \in Hooks : IsWritten(k, x)'
    BY <1>0 DEF LatestInv
  <2>0. IsStored(x) \/ \E k \in Hooks : IsWritten(k, x)
    BY DEF LatestInv
  <2>1. CASE x # g
    BY <1>8, <2>0, <2>1
  <2>2. CASE x = g
    <3>0. \A k \in Hooks : Writes(k, g)' => k # h /\ Writes(k, g) /\ hook'[k] = hook[k]
      BY <1>1 DEF Writes
    <3>1. CASE IsStored(x)
      <4>1. stored'[g] = stored[g]
        BY <1>0, <1>3, <1>4, <2>2, <3>1 DEF IsStored, Writes
      <4>2. IsStored(g)'
        BY <1>0, <2>2, <3>0, <3>1, <4>1 DEF IsStored
      <4>3. QED
        BY <2>2, <4>2
    <3>2. CASE IsWritten(h, x)
      <4>1. stored'[g] = [at |-> hook[h].at, people |-> hook[h].people]
        BY <1>3, <1>4, <2>2, <3>2 DEF IsWritten
      <4>2. IsStored(g)'
        BY <1>0, <2>2, <3>0, <3>2, <4>1 DEF IsStored, IsWritten, OthersAreOlder
      <4>3. QED
        BY <2>2, <4>2
    <3>3. ASSUME NEW k \in Hooks, k # h, IsWritten(k, x) PROVE IsWritten(k, x)'
      <4>1. hook[h].at < last[g]
        BY <1>0, <2>2, <3>3 DEF IsWritten, OthersAreOlder, Writes
      <4>2. stored'[g].at < last[g]
        BY <1>4, <2>2, <3>3, <4>1 DEF IsWritten
      <4>3. hook'[k] = hook[k]
        BY <1>1, <3>3
      <4>4. QED
        BY <1>0, <2>2, <3>0, <3>3, <4>2, <4>3 DEF IsWritten, OthersAreOlder, Writes
    <3>4. QED
      BY <2>0, <3>1, <3>2, <3>3
  <2>3. QED
    BY <2>1, <2>2
<1>10. RoomInv'
  <2> SUFFICES ASSUME NEW x \in GroupIds \ strayed PROVE CaughtUp(x)'
    BY <1>0 DEF RoomInv
  <2>1. CASE x = g
    <3>1. CaughtUp(g) /\ Active(h, g)
      BY <1>0, <2>1 DEF RoomInv, Active
    <3>2. \A k \in Hooks : ~Active(k, g)'
      BY <1>1, <3>1 DEF CaughtUp, Active
    <3>3. UsersIn(g)' = UsersIn(g)
      BY <1>0 DEF UsersIn
    <3>4. QED
      BY <1>0, <2>1, <3>1, <3>2, <3>3 DEF CaughtUp
  <2>2. CASE x # g
    BY <1>8, <2>2 DEF RoomInv
  <2>3. QED
    BY <2>1, <2>2
<1>11. SavedInv'
  BY <1>0, <1>1 DEF SavedInv
<1>12. QED
  BY <1>5, <1>6, <1>9, <1>10, <1>11

\* The inductive invariant holds in every reachable state.
LEMMA KitInvariant == Spec => []KitInv
<1>1. ASSUME KitInv, [Next]_vars PROVE KitInv'
  <2>1. ASSUME NEW g \in GroupIds, NEW u \in Users, NEW s \in Suffixes, GiveToken(g, u, s)
        PROVE  KitInv'
    BY <1>1, <2>1, OutsideStep DEF GiveToken
  <2>2. ASSUME NEW g \in GroupIds, NEW i \in (Users \cup Guests) \X Suffixes,
               JoinRoom(g, i) \/ LeaveRoom(g, i)
        PROVE  KitInv'
    <3>1. room[g] \cup {i} \in SUBSET Identities /\ room[g] \ {i} \in SUBSET Identities
      BY <1>1 DEF KitInv, KitTypeOK, Identities
    <3>2. QED
      BY <1>1, <2>2, <3>1, MoveStep DEF JoinRoom, LeaveRoom
  <2>3. CASE Tick \/ UNCHANGED vars
    BY <1>1, <2>3, OutsideStep DEF Tick, vars, roomVars
  <2>4. QED
    BY <1>1, <2>1, <2>2, <2>3, StrayStep, ReceiveStep, SwitchStep, ChangeStep, RestartStep,
       FetchStep, FailStep, ApplyStep, WriteStep DEF Next, Handle
<1>2. QED
  BY <1>1, KitInit, PTL DEF Spec

-----------------------------------------------------------------------------
(* The theorems *)

\* livekit.go:182-190: once nobody is about to write, the store has the list
\* memory has, however the handlers overlapped; and what a failed write, a
\* second with two lists, an erased list, a new object or a restart left behind
\* is made good by the next list that is set in a second of its own.
THEOREM StoreCatchesMemory == Spec => []StoreFollowsMemory
<1>1. KitInv => StoreFollowsMemory
  BY DEF KitInv, StoreFollowsMemory, LatestInv, IsStored, IsWritten, Writes, Active
<1>2. QED
  BY <1>1, KitInvariant, PTL

\* livekit.go:174-190: whatever went wrong before, a webhook that is handled
\* alone, in a second of its own, and written leaves memory and the store with
\* exactly the users who are in the room.
THEOREM ListIsTheRoom == Spec => []ListCatchesUp
<1>1. ASSUME KitInv, NEW g \in GroupIds \ strayed, Settled(g)
      PROVE  group[g].people = UsersIn(g) /\ stored[g].people = UsersIn(g)
  <2>1. pending[g] = 0 /\ \A h \in Hooks : ~Active(h, g)
    BY <1>1 DEF Settled, Overlaps
  <2>2. group[g].people = UsersIn(g)
    BY <1>1, <2>1 DEF KitInv, RoomInv, CaughtUp
  <2>3. g \notin unsaved
    BY <1>1, <2>1 DEF KitInv, SavedInv, Active
  <2>4. stored[g].people = group[g].people
    BY <1>1, <2>1, <2>3 DEF KitInv, LatestInv, IsStored, IsWritten, Writes, Active
  <2>5. QED
    BY <2>2, <2>4
<1>2. KitInv => ListCatchesUp
  BY <1>1 DEF ListCatchesUp
<1>3. QED
  BY <1>2, KitInvariant, PTL
=============================================================================
