----------------------------- MODULE MCRecovery -----------------------------
(***************************************************************************)
(* An instance of Recovery: members come and go in a group, a subgroup is   *)
(* created under it, both are deleted and created again, and a crash comes  *)
(* at any step.                                                             *)
(***************************************************************************)
EXTENDS Recovery

E(kind, group, author) == Event(kind, group, author, 0)
Put(group, author, who, roles) ==
    [E("put", group, author) EXCEPT !.users = {who}, !.roles = roles]
Create(group, author, parent) == [E("create", group, author) EXCEPT !.parent = parent]

FoundA == {[Create("a", "alice", None) EXCEPT !.at = Epoch]}
FirstRosters == <<"metadata", "members">>

RecoveryMessages ==
    {Put("a", "alice", "bob", {"moderator"}),
     [E("remove", "a", "alice") EXCEPT !.users = {"bob"}],
     Create("b", "alice", "a"), Create("a", "alice", "b"), Create("a", "alice", None),
     E("deleteGroup", "a", "alice"), E("deleteGroup", "b", "alice"),
     [E("retract", "a", "alice") EXCEPT !.refs = FoundA]}
=============================================================================
