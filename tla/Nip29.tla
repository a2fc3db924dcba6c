------------------------------- MODULE Nip29 -------------------------------
(***************************************************************************)
(* The group record, the events that change it, and what each moderation    *)
(* action does to it: group.go (Group, NewGroup) and the vendored nip29     *)
(* library (moderation_actions.go, group.go).                               *)
(*                                                                          *)
(* An event is one record whatever its kind, and its id is the record: two  *)
(* events with the same content are the same event, as with the hash.  A    *)
(* field a kind does not use has its blank value.                           *)
(***************************************************************************)
EXTENDS Integers, FiniteSets

CONSTANTS Users,      \* public keys of clients
          GroupIds,   \* group ids
          Codes,      \* invite codes
          RelayKey,   \* the relay's own public key, not a client's
          None        \* no parent, no invite code

EmptyCode == ""

\* An invite code is any string, the empty one too.
ASSUME Nip29Assumption ==
    /\ RelayKey \notin Users
    /\ None \notin GroupIds \cup Codes
    /\ EmptyCode \in Codes
    /\ IsFiniteSet(Users)

Admin == "admin"
RoleNames == {"admin", "moderator"}
Flags == {"closed", "private", "restricted", "hidden"}
ModerationKinds ==
    {"put", "remove", "edit", "deleteEvent", "create", "deleteGroup", "invite"}

\* An event with nothing but kind, group, author and created_at.
Event(kind, group, author, at) ==
    [kind |-> kind, group |-> group, author |-> author, at |-> at,
     users |-> {}, roles |-> {}, code |-> None, self |-> FALSE,
     parent |-> None, replace |-> FALSE, on |-> {}, off |-> {}, refs |-> {}]

GroupRecords ==
    [id: GroupIds, parent: GroupIds \cup {None}, children: SUBSET GroupIds,
     members: SUBSET Users, roles: [Users -> SUBSET RoleNames],
     flags: SUBSET Flags, invites: [Codes -> Nat],
     lastMetadata: Nat, lastAdmins: Nat, lastMembers: Nat]

NewGroup(id) ==
    [id |-> id, parent |-> None, children |-> {},
     members |-> {}, roles |-> [u \in Users |-> {}],
     flags |-> {}, invites |-> [c \in Codes |-> 0],
     lastMetadata |-> 0, lastAdmins |-> 0, lastMembers |-> 0]

-----------------------------------------------------------------------------
(* Action.Apply, one operator per moderation action *)

Monus(m, n) == IF m > n THEN m - n ELSE 0

\* Mutant: a code is never used up.
PutUser_KeepsCode(g, e) ==
    [g EXCEPT
       !.members = @ \cup e.users,
       !.roles = [u \in Users |-> IF u \in e.users THEN e.roles ELSE @[u]],
       !.lastAdmins = IF e.roles # {} THEN e.at ELSE @,
       !.lastMembers = e.at]

\* Every target gets the roles, and each target uses up one copy of the code,
\* unless it is the empty one.
PutUser(g, e) ==
    [g EXCEPT
       !.members = @ \cup e.users,
       !.roles = [u \in Users |-> IF u \in e.users THEN e.roles ELSE @[u]],
       !.invites = [c \in Codes |->
                      IF c = e.code /\ c # EmptyCode
                      THEN Monus(@[c], Cardinality(e.users))
                      ELSE @[c]],
       !.lastAdmins = IF e.roles # {} THEN e.at ELSE @,
       !.lastMembers = e.at]

RemoveUser(g, e) ==
    LET gone == e.users \cap g.members IN
    [g EXCEPT
       !.members = @ \ e.users,
       !.roles = [u \in Users |-> IF u \in e.users THEN {} ELSE @[u]],
       !.lastAdmins = IF \E u \in gone : g.roles[u] # {} THEN e.at ELSE @,
       !.lastMembers = IF gone # {} THEN e.at ELSE @]

EditMetadata(g, e) ==
    [g EXCEPT
       !.flags = ((IF e.replace THEN {} ELSE @) \cup e.on) \ e.off,
       !.lastMetadata = e.at]

CreateGroup(g, e) ==
    [g EXCEPT !.lastMetadata = e.at, !.lastAdmins = e.at, !.lastMembers = e.at]

DeleteGroup(g, e) ==
    [g EXCEPT
       !.members = {}, !.roles = [u \in Users |-> {}], !.flags = Flags,
       !.lastMetadata = e.at, !.lastAdmins = e.at, !.lastMembers = e.at]

CreateInvite(g, e) ==
    [g EXCEPT !.invites = [c \in Codes |-> IF c = e.code THEN @[c] + 1 ELSE @[c]]]

\* action.Apply: delete-event leaves the group alone.
Apply(g, e) ==
    CASE e.kind = "put"         -> PutUser(g, e)
      [] e.kind = "remove"      -> RemoveUser(g, e)
      [] e.kind = "edit"        -> EditMetadata(g, e)
      [] e.kind = "create"      -> CreateGroup(g, e)
      [] e.kind = "deleteGroup" -> DeleteGroup(g, e)
      [] e.kind = "invite"      -> CreateInvite(g, e)
      [] OTHER                  -> g

\* Mutant: an entry that reaches zero is not dropped.
CountMembers_GoesNegative(all, e) ==
    [u \in Users |->
       CASE e.kind = "put" /\ u \in e.users    -> all[u] + 1
         [] e.kind = "remove" /\ u \in e.users -> all[u] - 1
         [] OTHER                              -> all[u]]

\* The AllMembers counters after the action: 0 stands for an absent entry.
CountMembers(all, e) ==
    [u \in Users |->
       CASE e.kind = "put" /\ u \in e.users    -> all[u] + 1
         [] e.kind = "remove" /\ u \in e.users -> Monus(all[u], 1)
         [] OTHER                              -> all[u]]

-----------------------------------------------------------------------------
(* The events the relay itself writes *)

\* The put-user event that records the creator as admin, at the creation's time.
AddCreator(e) ==
    [Event("put", e.group, RelayKey, e.at) EXCEPT
       !.users = {e.author}, !.roles = {Admin}]

\* The answer to a join request; it carries the invite code, an empty one if the
\* request has none.
AddUser(e, when) ==
    [Event("put", e.group, RelayKey, when) EXCEPT
       !.users = {e.author},
       !.code = IF e.code = None THEN EmptyCode ELSE e.code]

\* The answer to a leave request.
SelfRemoval(e, when) ==
    [Event("remove", e.group, RelayKey, when) EXCEPT
       !.users = {e.author}, !.self = TRUE]

-----------------------------------------------------------------------------
(* The replaceable events that publish a group: 39000, 39001, 39002, 39003. *)

BlankTags == [flags |-> {}, parent |-> None, children |-> {}, people |-> {},
              roles |-> [u \in Users |-> {}]]

\* The tags of each kind; 39003 lists the two role names of every group.
RosterTags(g, kind) ==
    CASE kind = "metadata" -> [BlankTags EXCEPT !.flags = g.flags,
                                 !.parent = g.parent, !.children = g.children]
      [] kind = "admins"   -> [BlankTags EXCEPT !.roles = g.roles,
                                 !.people = {u \in g.members : g.roles[u] # {}}]
      [] kind = "members"  -> [BlankTags EXCEPT !.people = g.members]
      [] kind = "roles"    -> BlankTags

RosterAt(g, kind) ==
    CASE kind = "metadata" -> g.lastMetadata
      [] kind = "admins"   -> g.lastAdmins
      [] kind = "members"  -> g.lastMembers
      [] kind = "roles"    -> 0  \* LastRolesUpdate is never set

\* A Go map yields its keys in any order, so two lists of the same two or more
\* people may differ as tags.
MayReorder(tags) == Cardinality(tags.people) > 1
=============================================================================
