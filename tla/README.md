# A TLA+ verification of croissant

croissant is a relay for NIP-29 groups: clients send signed events over
websockets, the relay checks them, stores them in a memory-mapped store (mmm),
applies the moderation events among them to groups it keeps in memory, and
publishes what the groups look like as replaceable events. This directory holds
TLA+ models of the relay, the TLC runs that check them and TLAPS proofs.

All `file:line` references are to the repository's sources.

## 1. The system

| Component | Source | State | Operations |
|---|---|---|---|
| store gate | guard.go, store.go | `closed`, `sealed`, `inflight`, `drained` | enter, exit, Close, the guarded store operations, closeStore |
| admission | reject_event.go | reads groups and store, writes the placeholder | rejectEvent |
| group state | state.go, group.go, process_event.go | `Groups`, `AllMembers`, `deletedGroups`, `deletedCache`; each `Group` under its own lock | ProcessEvent, SyncGroupMetadataEvents, subgroup links, loadGroupsFromDB |
| moderation actions | vendored nip29 | the `nip29.Group` inside a `Group` | Apply of seven actions, four roster events |
| relay wiring | relay.go | the current khatru relay, the callbacks | StoreEvent with rollback, ReplaceEvent, resetRelay |
| wipe | wipe.go | - | wipeGroupHandler |
| start and shutdown | main.go, conntrack.go | hijacked connections | run, shutdownServer, CloseAll |
| queries | query.go, state.go | - | query, hideEventFromReader, rejectRequest |
| presence, gift wraps | presence.go, giftwrap.go | two LRU caches | hasPresence, rejectGiftWrapEvent |
| livekit | livekit.go | rooms known to exist, participants | auth handler, webhook |
| settings | global/ | `S`, settings.json, the rate limiter | load, save, SettingsHandler |
| blobs | blossom.go, fs/ | files or S3 | upload gate, Save, Open, Remove |
| logs, pages | eventlog.go, wire_log.go, \*\_templ.go, favicon.go | - | output only |

**How they interact.** khatru starts one goroutine per websocket message
(vendor/.../khatru/handlers.go:205) and no goroutine recovers a panic. For an
event it calls `OnEvent` (rejectEvent), then `StoreEvent`, then `OnEventSaved`
(handleEventSaved), which runs ProcessEvent and republishes every affected
group. ProcessEvent may write events of its own (the creator's membership, the
answer to a join or leave request) and process them recursively. Locks are held
for one check or one Apply at a time, so handlers interleave between almost any
two of these steps. Every store call passes the gate; at shutdown the gate is
sealed, drained, and only then is the store unmapped.

**What is hard here.** Checks and effects are separate steps of separate locks
(reject first, store, then apply). Group objects are replaced (placeholder, then
the real one) and dropped (delete, wipe) while other handlers hold them. Rosters
are read and replaced in two store calls and compete by created_at, a clock in
seconds. The event id is a hash of the content, so the relay's own events
collide within a second. Store calls can fail at each of the steps. The store
must not be unmapped under an operation, and operations nest. A process that
stops anywhere has to find its groups again in the store. The lock of a group is
Go's RWMutex, where a waiting writer stops readers. Presence checks and LiveKit
calls take seconds, and what they bring back is used, and cached, after
everything may have changed. The settings file is truncated before it is
written.

**What makes each component correct.**
- store gate: no guarded operation inside an unmapped store, no double close of
  the channel, a sealed gate drains, Close that returned nil means nobody inside;
- group state: members and roles go back to stored events, roles only come from
  those who had roles, memory catches up with the store, links between groups
  form a forest that both ends agree on;
- rosters: what is published is what memory holds, or will be with the next
  message; nobody is listed who was never put;
- admission: codes are used up, parents form no cycle;
- wipe: nothing of the group is left;
- the lock of a group: every message gets it;
- restart: memory is what it was, deleted groups stay deleted, links and rosters
  are repaired;
- shutdown: it ends, and success means that nothing was cut off;
- queries: gift wraps reach recipients only, secret and private groups members
  only;
- settings: the key is kept for good, acknowledged settings survive, file,
  memory and relay agree;
- presence: nobody counts as present whom no query found, while relays are set;
- livekit: the published list catches up with the room.

## 2. Modules

| Module | Models | Checked by | Proofs |
|---|---|---|---|
| `StoreLife` | what store.go promises of the mapped store | refinement in run `gate` | - |
| `StoreGate` | guard.go, store.go, the ungated layer of blossom.go | `gate` | `StoreGateProofs` |
| `Shutdown` | main.go, conntrack.go, composed with `StoreGate` | `shutdown` | `ShutdownProofs` |
| `Nip29` | the group record, Apply, roster tags | through Groups | `GroupsProofs` |
| `Groups` | reject_event.go, relay.go (StoreEvent, DeleteEvent), process_event.go, group.go (sync, links), wipe.go, khatru's deletions | `groups`, `nil_group`, `placeholder` | `GroupsProofs`, `RecoveryProofs` |
| `Recovery` | `Groups` with crashes, loadGroupsFromDB | `recovery` | `RecoveryProofs` |
| `GroupLock` | the RWMutex of a group, its critical sections and the unlocked looks | `locks`, `leaked_lock` | - |
| `Access` | query.go, rejectRequest of state.go, gift-wrap filters | `access`, `private_content` | `AccessProofs` |
| `Presence` | presence.go, giftwrap.go | through Settings | `SettingsProofs` |
| `Settings` | global/settings.go, rate_limits.go, init.go, resetRelay, composed with `Presence` | `settings` | `SettingsProofs` |
| `LiveKit` | livekit.go | `livekit` | `LiveKitProofs` |
| `MCGroups`, `MCRecovery`, `MCAccess`, `MCSettings` | the messages, filters and forms of the runs | | |

### StoreGate
A *frame* `<<w, d>>` is the operation goroutine `w` runs at nesting depth `d`:
an operation at depth 2 runs in the loop body of a query at depth 1 (wipe.go
deletes inside a query loop). `at` says where each frame stands. `g.mu` makes
enter, exit, and the locked part of Close one step each; `sealed` is read
without the lock, so loading it (`LoadUnsealed`) and yielding the row (`Yield`)
are two steps. `drained` is the channel: closing it twice, or while nil, makes it
`"panic"`. `Closers` call Close; one of them, `Owner`, is closeStore. A reset of
the relay opens a layer without the gate (`EnsureLayer`).

### Groups
One handler is one goroutine with one message; `hnd[h].pc` says where it is:

    idle -> place -> store -> process -> ... -> sync -> read <-> write -> idle

`heap` holds every group object ever made, `groups` points at the live ones, and
a handler keeps indices, as the code keeps `*Group`s. What is done under one
lock, or in one store call, is one step. The steps follow the code in order:

| Action | Code |
|---|---|
| Receive | OnEvent accepts (relay.go:80, reject_event.go:14-310) |
| Placeholder | reject_event.go:86-91 |
| StoreEvent, StoreDuplicate, StoreFails | relay.go:46-59, khatru adding.go:36-45 |
| Register, Link | process_event.go:16-36, addParentChild |
| SaveInner, SaveInnerDuplicate, SaveInnerFails | process_event.go:51, 152, 182 |
| Load, Panic, ApplyAction, ApplyCreate | process_event.go:61-90 |
| Erase, EraseFails, CacheDeleted, EraseDone | process_event.go:92-106, target by target |
| Unlink, Drop | process_event.go:107-121 |
| LookAgain, React | process_event.go:124-193 |
| Snapshot, SkipRoster, ReadRoster, WriteRoster, WriteRosterFails, RostersDone, Finish | group.go:276-352, state.go:73-80 |
| Retract, RetractEnds, RetractFails | a kind-5 event: khatru handlers.go:264-270, deleting.go:20-104, relay.go:64 |
| Wipe, WipeOne, WipeOneFails, WipeRosters, WipeMemory | wipe.go:11-55, event by event |
| Tick | the clock |

Abstractions, and why they keep the control:
- An event is a record that is its own id, as the hash would have it: equal
  content is the same event, and saving it again is ErrDupEvent.
- A rejected event changes nothing and is no step. The reads rejectEvent makes
  of one group are one step; the create's checks and its placeholder are two.
  `hasPresence` (up to two seconds) is a constant set `Present`.
- All targets of one put-user event get the same roles, and an invite event
  carries one code. Names, pictures, the LiveKit flag, `supported_kinds`, the
  `previous` tag with `last50`, kind:0 and kind:1059 are left out.
- Members and children are sets. A Go map lists its keys in any order, so two
  rosters with the same two or more people may or may not be equal as tags:
  both `SkipRoster` and `ReadRoster` are possible (`MayReorder`).
- The targets of a deletion are events or versions of rosters: replacing a roster
  makes it another event (`VersionOf`). A delete-event (kind 9005) may name
  anything stored, of any group; a kind-5 deletion only removes what its author
  wrote and the relay shows. The participants list, which both can remove as
  well, is in LiveKit (`EraseList`).
- An empty invite code is a code like any other at the check and is never used
  up (moderation_actions.go:252).
- Ids break ties between equal created_at; both outcomes are allowed.
- `deletedCache` is a set; the code keeps the last 128 ids.
- AllMembers is updated in the step of the Apply it follows; nothing in the
  handlers reads it.
- A store call may fail wherever it is made, `MaxFails` times, whatever the code
  does with the error.
- Broadcasts are left out: subscribers are in Access.
- `granted` is history: every event ever stored. `disturbed` are groups that two
  handlers worked on at once (the groups a message names, those of the events it
  deletes, the parent of a deleted group), all groups once two subgroups are
  created at once, and groups whose wipe failed somewhere. `behind` are groups
  that changed, or lost a roster, with no undisturbed synchronisation since; it
  shrinks again, so a property about the others says that the relay catches up.

### Recovery
EXTENDS Groups. `Crash` loses memory and handlers at any step, of a message or
of the restart itself. The restart is loadGroupsFromDB in its own steps: the
create events newest first (`ScanCreate`), each group's events oldest first
(`Replay`; events of one second in any order), the links (`LinkChild`), the
rosters (`StartSync`, in any order, as Go ranges over a map, then the steps of
Groups). The relay takes messages again after `ServeAgain`. History: `before` is memory at a crash while no message was
being handled; `muddled` are groups whose events were stored out of the order of
their times, erased, left in the store by a wipe, or created twice, which a
replay by time cannot restore. A
group that is closed from the start counts as muddled: its closing event has the
time of the put of its creator.

### GroupLock
A message is the sequence of critical sections it goes through; each is entered
by `RLock`, or by `Announce` and `Lock`, as sync.RWMutex does it: a writer that
has announced itself queues later readers and waits for the earlier ones, and
`Unlock` lets the queued readers in together. A check may end the message early.
`Glance` is a look at flags, kinds or the parent without the lock
(reject_event.go:152, 161, 194-207, 278-284, state.go:107, process_event.go:108,
livekit.go:114, 167): it waits for nobody. `Peek` is the unlocked read of process_event.go:166, and `FatalRace` what the Go
runtime may do when it overlaps a write. `RUnlockForgotten` is the early return
of reject_event.go:116.

### Shutdown
Each connection goes through the states the module's head lists; net/http, its
hijacking and its idle connections are external. `UseStore` is any step of
StoreGate's worker by the connection's goroutine, and a plain request may be a
settings change, which opens a layer outside of the gate. `run` is told to stop
or its server fails; it drains (or times out), closes the tracked connections of
one snapshot, closes the store through the gate, and returns.

### Access
`Request` is rejectRequest; `Query` puts matching stored events before the
connection, `Publish` does so for listeners, and each event is checked by `Look`
(flags, one lock) and `Decide` (members, another lock), or sent unchecked where
the code does. Groups change by edits, puts and removals, deletion and creation;
`made` tells a re-created group's object from the old one. A gift wrap may carry
an h tag, which puts it into a group. A connection has at most
`MaxAuthenticatedClients` keys; one more takes the place of another, in the very
slice that running checks hold (`Replace`, `Rekeyed`; khatru handlers.go:379-386).
`known` is history: the keys a connection has or had. `vetted` are the private
groups a subscription named when it was accepted. Limits of queries and negentropy
are left out.

### Settings and Presence
A save is two steps, open with truncation and write, and either may fail: a
failing open leaves the file as it was (`OpenFails`), a failing write leaves it
torn; `Torn` is a file that does not parse.
A start reads, fixes and saves the file, then serves; a crash may come anywhere.
A form goes through open, write, assign, limiter, reset, publish, set, and two
may overlap. Three numbers of the limiter are one (`rate`), blob storage is
`off`, `local` or `bad` (initialisation fails), presence relays are a set.
Presence is an INSTANCE with `relays` and `enabled` read from `S`, so that the
owner changes them under the checks: each check of an author, of recipients and
of the sender is a cache lookup, a query that may time out, and a cache entry
(the cache is full at `MaxCached`, and any entry may be the one to go).

### LiveKit
An identity is a user and a random suffix. A webhook handler fetches the list,
sets it under the lock of the group object it loaded, and replaces the stored
event, in three steps; webhooks may be lost, calls fail, also the replacement,
whose error nobody looks at, stored lists be erased and the relay restart without
lists. History: `strayed` are groups that no webhook has caught up with since
something went astray, `unsaved` groups for which no list was set since the store
fell behind; both shrink again. Signatures, HTTP and tokens are abstracted to
their outcome.

## 3. Runs

All runs finish within four minutes on two workers. "sequential" means one
handler: the next message is taken when the last one is finished.

| Run | Instance | Shows |
|---|---|---|
| `gate` | 2 goroutines, depth 2, 2 closers, 1 reset | safety and draining of the gate, refinement of StoreLife |
| `shutdown` | 2 connections, depth 1 | a stop always ends; success means no request cut off and nobody in the store; the store is never unmapped under a guarded operation, and under the ungated layer only in a stop that reports an error; only a hijack that CloseAll's snapshot could not see survives |
| `groups` | 2 handlers, 3 messages, 1 failing store call, 2 groups, 3 users, the members roster; three messages of one second or two over two (`Timely`); handlers are symmetric | members and roles go back to stored events, nobody unknown is published; rosters are fresh after the next undisturbed message; codes are spent, and at most once per handler; memory keeps up with the store, parents form no cycle and wipes leave nothing where messages do not overlap |
| `recovery` | sequential, 3 messages, 2 groups, 1 failing store call, 1 crash | groups come back as they were, links are repaired, rosters published, deleted groups stay deleted; no parent cycle, no dead child, no group without its create event |
| `locks` | 3 goroutines, messages without end, 1 forgotten lock | no group wedges unless a read lock was forgotten |
| `access` | 1 connection, 2 keys at once, 3 authentications, 1 group, 2 changes | gift wraps for recipients, secret metadata and named private content for members |
| `settings` | 2 forms, 1 fault, 2 presence checks | the key is kept, acknowledged settings survive, the parts agree, presence is not assumed |
| `livekit` | 2 webhook handlers, 2 users, 2 devices, 4 moves, 2 changes, 1 fault | the list catches up with the room after whatever went astray, and the store with memory |

Each of the following shows a statement of the repository that its code does not
keep; the finding in PROJECT.json quotes it.

| Run | Violated | What happens |
|---|---|---|
| `leaked_lock` | TasksFinish | a join without presence keeps the read lock (reject_event.go:116); a writer waits for it forever and everybody else behind the writer |
| `nil_group` | ProcessSurvives | the group of an accepted event is deleted before the event is processed |
| `placeholder` | NoMemberIsLost | a join is applied to the placeholder of a group that is being created (reject_event.go:86-91), and ProcessEvent then replaces the object |
| `private_content` | PrivateContentForMembers | a subscription that names no group gets the content of private groups (query.go:95-102) |

**Where a property has a condition**, the condition is what the code cannot give,
and dropping it makes TLC find the following:

- `StoredMembersAreInMemory`, `ParentsAreAcyclic` and `WipedLeavesNothing` leave out
  `disturbed` groups, in a run with two handlers. A join answered on the
  placeholder is lost when ProcessEvent replaces it (run `placeholder`); two
  creates that name each other are both accepted (reject_event.go:81); a message
  of the group stores events or rosters after the wipe has collected what to
  delete (wipe.go:36), and a delete that fails leaves its event (wipe.go:31).
  Two handlers on different groups, or two that follow each other, do not
  disturb.
- `FreshestRosterLands` leaves out groups that are `behind`: a write that failed, a
  roster that was deleted (nobody republishes the group, process_event.go:94-101),
  a placeholder, or two handlers that read the same roster, the older snapshot
  written last (group.go:311-332). The next message that has the group to itself
  takes it out of `behind`, and the rosters must be fresh then.
- `InvitesAreSpent` gives a copy of a code one join per handler where messages
  overlapped: two joins are accepted on one code before either uses it up
  (reject_event.go:110). It is about groups that were closed all along
  (`AlwaysClosed`: an open group answers a join that carries any code, and a group
  deleted and created again is open), codes other than the empty one, and invites
  that nobody deleted (the author could send the same one again).
- `StoredMembersAreInMemory` excepts whoever some event once removed, also one
  that was erased since: a deletion event takes a removal out of the store, not
  out of memory. So the rejoin that is lost because the relay's answer is, within
  one second, the event it already stored (process_event.go:140) is not caught.
- No property says that kicked users stay out: the newest removal of any group
  decides (reject_event.go:129), so leaving another group hides a kick.
- `LiveGroupsWereCreated` asks for a create event stored at any time, for the
  sake of the same placeholder.
- `ChildrenAreLive` says nothing of the other direction: a parent deleted and
  created again has no children until the next restart (process_event.go:24),
  which `RestartRepairsChildren` shows to repair it. It is checked in a run
  without wipes: wipe.go:55 drops a group and leaves it in its parent's list.
- AllMembers is not the number of memberships: a change of roles counts a member
  again (process_event.go:80), so no property says that uploaders are members.
- `RestartRestoresGroups` leaves out `muddled` groups, and groups with a stored
  deletion: one that was deleted and created again is gone after a restart
  (group.go:80).
- `UnmappedUnderNobody` allows the ungated layer (blossom.go:31) in a stop that
  reports an error, `OnlyLateHijacksSurvive` a hijack between net/http's
  bookkeeping and its hook.
- `GiftWrapsReachRecipients` is about wraps outside of groups. A query that does
  not ask for gift wraps finds one all the same when it asks for an id or a
  group, and hideEventFromReader (query.go:58) reads a wrap with an h tag like
  any content of that group; one without is hidden.
- `SettingsAgree` and `AcknowledgedSurvives` leave out forms that overlap and
  saves that fail or are cut short. Two forms at once may tear the file, or leave the relay that broadcasts and the one that is served with
  different settings; a failed save leaves a truncated file, and the next start
  is fatal; settings with unreachable storage are saved before the reset fails,
  so the next start fails as well.
- `WrapSendersWereFound` is about senders let in. A cached no, from a timeout
  too, never expires, and keeps a user out even when the relays are removed
  (presence.go:50). README.djot:51 speaks of both sides' presence for gift wraps;
  the code computes the receiver's and does not use it (giftwrap.go:43-56).
- `ListCatchesUp` waits for a webhook that asks alone, whose list is set in a second
  of its own and whose write succeeds: two that overlap may apply the older list
  last, lists set within one second have equal created_at and the store may keep
  the older, a failed write goes unnoticed (livekit.go:189).
  `StoreFollowsMemory` holds of overlapping handlers too, and waits for the next
  list after a failed write, an erased list, a new object or such a second.
- `NamedPrivateContentForMembers` speaks of keys the connection has or had and of
  people who are or were members: the subscription is checked once
  (state.go:105-115), and later changes do not end it.

**Bounds.** Two handlers are enough for every race between a step of one message
and a step of another; three messages let a third one change the state both
start from. `Epoch` to `MaxTime` is one to three seconds, since collisions need
equal times and order needs two. `MaxAge` (60 s) is scaled to
that. Depth 2 in the gate is the nesting the code has; Shutdown keeps
depth 1, as nesting is what `gate` is about. `MaxFails = 1`: each failing call
ends its branch of the handler. One crash suffices for Recovery and Settings,
since a restart has no memory of earlier ones, and a second would start from a
store the first run reaches as well. Three tasks are a reader, a writer and a
reader queued behind the writer. `MaxCached = 1` makes every second entry evict
one.

**Deadlock** is not checked where the system really may stop: a relay that
received all its messages, whose process ended or cannot start, and a group that
is wedged.

**Fairness.** `gate`: weak fairness of each goroutine once inside the gate, of
Close's return and of Unmap. The Go scheduler runs what can run, store calls and
loop bodies return, a timer fires. Starting an operation or Close is not fair.
`shutdown`: weak fairness of the goroutine of `run` only; requests and store
operations may hang. `locks`: weak fairness of each goroutine, and strong
fairness of a writer that waits for the writers' mutex, which Go's starvation
mode hands over. Messages, failures and the clock are never fair.

**Mutants.** Every property of a passing run is broken by a mutant of the model
(the operators named `X_...` before `X`), each a plausible slip in the code: a
dropped check, an ignored error, a missing bump of created_at, a list not left.

## 4. Proofs

`StoreGateProofs` proves for any sets of goroutines, closers and resetters and
any nesting depth (assumptions: `MaxDepth` is a positive number, `Owner` is a
closer; nothing else):

- `TypeCorrect`, `NoDoubleClose`, `NilMeansDrained`, `UnmapIsSafe`, `OneLateRow`:
  the five invariants of run `gate`;
- `GateImplementsLife`: `Spec => Life!Spec`.

The invariants are not inductive by themselves: that nobody is inside when the
channel is closed needs the counter to be the number of frames inside. The
inductive invariant adds that `inflight` is the cardinality of the finite set of
frames inside, that `sealed` equals `closed`, that the channel is nil exactly
while the gate is open and closed exactly when it is sealed and empty, and that
late rows only come from frames that read `sealed` before it was set. Each
action either leaves the set inside alone or adds or removes one frame; the
refinement maps these to Begin and End, the first Seal to BeginClose, and
everything else to a stutter.

`ShutdownProofs` proves the three safety properties of run `shutdown`
(`CleanSuccess`, `NobodyUnderUnmap`, `LateHijacksOnly`) for any number of
connections and any nesting depth. It takes StoreGateProofs as an INSTANCE: each
step of Shutdown is a step of the gate or leaves it alone, so the gate's
inductive invariant comes for free, and what is left is the order of the stop.
That a success is clean needs to be known earlier: the invariant adds that the
tracked set is exactly the open websockets, that only a request net/http knows of
opens a layer, that net/http knows of nobody after a drain without an error, and
that from CloseAll's snapshot on each open websocket is in the part still to be
closed or was on its way to the hook.

`GroupsProofs` proves the first four properties of run `groups`, the ones without a
condition, for any number of handlers, users, groups, messages and failing calls:
`StateIsTyped`, `MembersComeFromTheStore`, `RolesComeFromAuthority` and
`OnlyPeoplePutArePublished`. The assumption `GroupsAssumption`
gives the messages the fields of an event, and says that whoever creates, joins
or leaves is one of `Users`. The properties speak of the groups in the map; a
handler, though, may hold an object that has left it and still change or publish
it. So the inductive invariant is about every object ever made (whose members go back to
stored puts), every stored put (whose author is the relay or had been put with
roles), every stored roster, and every handler: which object and which event it
holds at each place, that its message had authority when it was accepted and is
stored once it is processed, and that the rosters in its hands name only people
who were put. A handler's step changes the others' world too; `HoldsGrows` says
once what it needs for that: objects keep their id and parent, events are only
added to `granted`, and what is deleted from the store takes nothing from it. That authority outlives the check (reject_event.go:180) is the heart of
it: the roles read there were recorded, and `granted` is never taken back, so it
does not matter what happens between the check and the store.

`AccessProofs` proves the three properties of run `access`
(`WrapsReachRecipients`, `SecretMetadata`, `NamedPrivateContent`) for any users,
groups, connections, events and filters (assumptions: a filter's p tags are a
sequence, the founder is a user). The invariant carries what was true at the
request, at the row and at the look to the moment of sending: a subscription that
lasts, and every event found for it, belongs to a connection that has had a key
of a member of each private group it names. Keys may be replaced meanwhile, also
in checks under way, so this is said of the keys a connection has had.
`SameAsPTagged` is
the one lemma with arithmetic: authedAreTheSameAsPTagged compares lengths and
looks each key up among the tags, one way only; because keys are distinct, no
tag can name anybody else.

`SettingsProofs` proves the four properties of run `settings` (`OneKeyForGood`,
`EverythingAgrees`, `AcknowledgedStays`, `SendersWereFound`) for any forms,
first files and checks and any number of requests, crashes and faults
(assumptions: a torn or missing file is no settings, forms and files have the
fields of Settings). The key needs only that no copy under way has another one and that a
file, once there, is never missing again, since only a missing file or one
without a key makes loadSettings generate one. Agreement needs the place of the
handler: what file, S, limiter, storage and relays hold at each of its steps, as
long as it works alone (`~mixed`). Presence has an invariant of its own:
a cached yes is about somebody a query found, the last question of a gift wrap's
check is about its sender, and a check not noted as open has had relays all
along.

`LiveKitProofs` proves the two properties of run `livekit` (`StoreCatchesMemory`,
`ListIsTheRoom`) for any groups, users, handlers and faults. The invariant says
that the list with the latest time is the one in memory, and is stored or about
to be written by one handler, all others under way being older, in every group
but the unsaved ones; that a group that has caught up has one handler at a time,
whose list is the room's unless a webhook is on its way; and that a group that
has caught up and is not yet saved has a list on its way, so that catching up
includes the store.

`RecoveryProofs` proves the properties of run `recovery` but `ParentsAreAcyclic`,
for any users, groups, messages, times, failing calls and any number of crashes.
The first four hold for any number of handlers, interleaved in any way before the
crash:

- `DeletedGroupsDoNotReturn`, `LinksAreRepaired`: the invariant `BootInv` adds to
  the one of GroupsProofs where the restart stands. Until the relay serves,
  memory holds exactly what the create events met so far say (deleted or loaded),
  the object being replayed goes back to a stored create event, and a group is
  among its parent's children exactly if both are loaded and it has had its turn.
  While the rosters are synchronised no handler does anything else.
- `EveryLiveGroupWasCreated`: a live group without a stored create event is the
  placeholder of a handler that is about to store one, and that handler drops it
  if the store refuses.
- `RostersAreRefreshed`: every roster of every live group is what memory holds, or
  is ahead of the handler that synchronises, in its list of groups or of rosters.

The other two assume `Sequential`, that there is one handler. They are about what is
in memory at rest: with two handlers a join applied to a placeholder is stored and
not in memory (run `placeholder`), so a restart brings back more than was there.
They rest on `SerialInv`: the object a handler holds is the one in the map, the
group of the message it works on is live, and a placeholder has no parent and no
member. What a step does is stated once per action (`...Effect`, in terms of the
map and the fields of the handler), and each theorem adds an invariant of its own:

- `ChildrenFollowParents` (also assuming no wipes): a group on its way out is in
  nobody's list, and one on its way in is in no other list than its parent's.
- `GroupsAreRestored`: a restart gives back each group as it was. That replaying a
  log gives what applying it one by one gave is an induction over the log, which
  the prover does not have. The invariant `TaleInv` avoids it by carrying the
  run of the log: there is a function `T` from the events of a group's log to
  states of the group, each the state before (that of the event before it, or
  the new group) with this event applied, and `T` explains at once what memory
  holds, what the replay has reached and what memory held before the crash, by
  the events each of them has taken. Storing an event extends `T` by one, an
  Apply moves memory or the replay one further along it, and two that have
  taken the same events are equal. Events of a group that is not muddled have
  distinct and rising times, so both ways take them in the same order.

TLC found the inductive invariants to hold too, on the instances of the runs or
smaller ones; of `TaleInv` all but the function `T`, which is not finite.

Only model-checked: liveness (`SealedGateDrains`, `StopTerminates`,
`NoWedgeWithoutLeak`), which is out of the prover's reach, and the properties of
run `groups` that depend on `disturbed` or `behind` (`FreshestRosterLands`,
`InvitesAreSpent`, `StoredMembersAreInMemory`, `WipedLeavesNothing`,
`ParentsAreAcyclic`): with one handler they would say little, and with two their
invariants have to follow what every handler has in hand for every group.

## 5. Not modelled

- Web pages (with LoadDeletedGroupState, the replay behind the page of a deleted
  group), the event and wire logs, the icon: output without state the relay
  depends on.
- The login (cookies, signatures, global/auth.go) and the parsing of forms: pure
  parsing, present in Settings as the forms that come out of it.
- Blob files and S3: input and output; only their initialisation matters to the
  relay, and is in Settings.
- The token bucket of the create rate limiter (vendored); whether there is one is
  in Settings.
- `supported_kinds`, and the `previous` tag with its ring `last50`
  (process_event.go:196): checks of a single event. The ring's signed index turns
  negative after 2^31 events of a group in one process.
- Subscribers across a reset: those of the replaced relay stay connected to it,
  and rosters are broadcast to the new one only (relay.go:134).
- Data races other than the read of process_event.go:166 (the array of
  reject_event.go:168, the glances of GroupLock): one step here.
- Deletions by an "a" tag (khatru deleting.go:38-58) remove replaceable events of
  their author; those of groups are the relay's own, so only the holder of the
  relay's key could. Expiring events: croissant starts no expiration manager.

## 6. What could follow

1. Subscribers across a reset, the ring `last50`.
2. Proofs of the properties of run `groups` that are only model-checked: messages
   of different groups touch different objects, so an invariant per group would do.
