------------------------------ MODULE MCAccess ------------------------------
(***************************************************************************)
(* An instance of Access: one event of each kind, and filters that name     *)
(* groups by either tag, ids, gift wraps of one or several, or only kinds.  *)
(***************************************************************************)
EXTENDS Access

Ev(kind, group, p) == [kind |-> kind, group |-> group, p |-> p]
SomeEvents ==
    {Ev("profile", NoGroup, {}), Ev("metadata", "a", {}), Ev("content", "a", {"bob"}),
     Ev("wrap", NoGroup, {"alice"}), Ev("wrap", "a", {"bob"})}
SomeStored ==
    {Ev("wrap", NoGroup, {"alice"}), Ev("profile", NoGroup, {}), Ev("wrap", "a", {"bob"})}

Wraps(p) == [NoFilter EXCEPT !.kinds = {"wrap"}, !.p = p]
SomeFilters ==
    {[NoFilter EXCEPT !.kinds = {"metadata", "content", "profile"}], [NoFilter EXCEPT !.d = {"a"}], [NoFilter EXCEPT !.h = {"a", "b"}],
     [NoFilter EXCEPT !.h = {"a"}, !.search = TRUE],
     [NoFilter EXCEPT !.ids = {Ev("content", "a", {"bob"})}],
     Wraps(<<>>), Wraps(<<"alice">>), Wraps(<<"bob", "alice">>), Wraps(<<"bob", "bob">>),
     [Wraps(<<"bob">>) EXCEPT !.kinds = {"wrap", "content"}]}
=============================================================================
