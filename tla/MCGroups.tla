------------------------------ MODULE MCGroups ------------------------------
(***************************************************************************)
(* Instances of Groups: the messages of each run.  Every client event is    *)
(* built from Event; created_at is chosen when it is sent.                  *)
(***************************************************************************)
EXTENDS Groups, TLC

E(kind, group, author) == Event(kind, group, author, 0)
Put(group, author, who, roles) ==
    [E("put", group, author) EXCEPT !.users = {who}, !.roles = roles]
Create(group, author, parent) == [E("create", group, author) EXCEPT !.parent = parent]
Join(group, author, code) == [E("join", group, author) EXCEPT !.code = code]
Invite(group, author, code) == [E("invite", group, author) EXCEPT !.code = code]

FoundA == {[Create("a", "alice", None) EXCEPT !.at = Epoch]}

MembersRoster == <<"members">>
NoRosters == <<>>

\* Handlers run the same code and are told apart by nothing.
Alike == Permutations(Handlers)

\* Three messages of one second, or fewer while time moves on.
OneSecond ==
    /\ now = Epoch
    /\ \A e \in granted \cup {hnd[h].ev : h \in Handlers} : e.at <= Epoch
Timely == received < MaxEvents \/ OneSecond

Delete(group, author, refs) == [E("deleteEvent", group, author) EXCEPT !.refs = refs]

\* The members roster that group b has at first.
FirstMembers == {[group |-> "b", roster |-> "members", at |-> Epoch,
                  tags |-> [BlankTags EXCEPT !.people = {"alice"}]]}

\* Members of a closed group come, go and change roles, by invitation too, while
\* the group and its subgroup are deleted, wiped out and created anew, and while
\* an event and a roster are deleted by a moderator or retracted by their author.
GroupMessages ==
    {Put("a", "alice", "bob", {"moderator"}), Put("a", "bob", "carol", {"moderator"}),
     E("leave", "a", "bob"),
     Invite("a", "alice", "x"), Join("a", "bob", "x"), Join("a", "carol", "x"),
     E("deleteGroup", "a", "alice"), Create("a", "alice", None),
     E("deleteGroup", "b", "alice"), Create("b", "alice", "a"),
     Create("a", "alice", "b"), Delete("a", "alice", FoundA \cup FirstMembers),
     [E("retract", "a", "alice") EXCEPT !.refs = FoundA]}

\* A moderation event meets the deletion of its group.
PutAndDelete == {Put("a", "alice", "bob", {}), E("deleteGroup", "a", "alice")}

\* Somebody joins a group that is being created.
CreateAndJoin == {Create("a", "alice", None), Join("a", "bob", None)}
=============================================================================
