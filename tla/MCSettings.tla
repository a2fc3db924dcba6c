----------------------------- MODULE MCSettings -----------------------------
(***************************************************************************)
(* An instance of Settings: forms that switch presence relays, the limiter  *)
(* and the blob storage, one with an invalid number and one with storage    *)
(* that cannot be reached; a gift wrap from an authenticated sender and one *)
(* from nobody.                                                             *)
(***************************************************************************)
EXTENDS Settings

Relays(some) == [t \in {"transit", "create", "wrap"} |-> some]
Form(rate, some, blossom) ==
    [rate |-> rate, relays |-> Relays(some), wraps |-> TRUE, blossom |-> blossom]
SomeForms ==
    {Form(Keep, {"r"}, "local"), Form(0, {}, "bad"), Form(Bad, {}, "off")}
SomeFiles == {Missing, [Defaults EXCEPT !.path = FALSE, !.wraps = TRUE]}
SomeWraps == {[sender |-> "alice", p |-> <<"bob">>], [sender |-> Nobody, p |-> <<>>]}
=============================================================================
