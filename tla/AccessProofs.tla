---------------------------- MODULE AccessProofs ----------------------------
(***************************************************************************)
(* Proofs about Access for any users, groups, connections, events and       *)
(* filters.  An event is judged by what was read at three moments: when the *)
(* request was accepted, when the row was found, when the check looked at   *)
(* flags and members.  AccessInv carries what was true at each of them on   *)
(* to the moment of sending: a key a connection has is one it had, and a    *)
(* member of a group stays one who was a member.                            *)
(***************************************************************************)
EXTENDS Access, FiniteSetTheorems, TLAPS

\* Ids in State.Groups are ids; a member is, or was, a member.
GroupInv ==
    /\ live \subseteq GroupIds
    /\ members \in [GroupIds -> SUBSET Users]
    /\ ever \in [GroupIds -> SUBSET Users]
    /\ \A g \in GroupIds : members[g] \subseteq ever[g]

\* A connection has finitely many keys and an accepted filter.
ConnInv ==
    /\ authed \in [Conns -> SUBSET Users] /\ known \in [Conns -> SUBSET Users]
    /\ \A c \in Conns : authed[c] \subseteq known[c]
    /\ \A c \in Conns : IsFiniteSet(authed[c])
    /\ sub \in [Conns -> Filters \cup {NoFilter}]
    /\ place \in [Conns -> {"idle", "accepted", "listening"}]
    /\ vetted \in [Conns -> SUBSET GroupIds]

\* An accepted gift-wrap query names recipients, and the connection's keys only.
WrapFilterInv ==
    \A c \in Conns : place[c] = "accepted" /\ "wrap" \in sub[c].kinds =>
       /\ sub[c].p # <<>>
       /\ \A i \in DOMAIN sub[c].p : sub[c].p[i] \in known[c]

\* Connection c has had a key of a member of each of these groups.
Admitted(c, groups) == groups \subseteq GroupIds /\ \A g \in groups : known[c] \cap ever[g] # {}

\* A subscription that lasts was admitted to the private groups it names.
VettedInv == \A c \in Conns : place[c] # "idle" => Admitted(c, vetted[c])

\* So was the one an event was found for; and a gift wrap that will go out
\* unchecked is for a key the connection has had.
RowOK(r) ==
    /\ r.conn \in Conns
    /\ Admitted(r.conn, r.vetted)
    /\ r.ev.kind = "wrap" /\ ~r.checked => r.ev.p \cap known[r.conn] # {}
RowInv == \A r \in rows : RowOK(r)

\* The event of a check that has read a group's flags is in a group.
LookInv == \A l \in looking : RowOK(l.row) /\ l.row.ev.group \in GroupIds

\* The inductive invariant.
AccessInv ==
    /\ GroupInv /\ ConnInv /\ WrapFilterInv /\ VettedInv /\ RowInv /\ LookInv
    /\ NamedPrivateContentForMembers
    /\ GiftWrapsReachRecipients
    /\ SecretMetadataForMembers

-----------------------------------------------------------------------------
(* authedAreTheSameAsPTagged *)

\* Equal lengths and a tag for every key leave no room for another's tag: the
\* one-sided loop of authedAreTheSameAsPTagged compares the two as sets.
LEMMA SameAsPTagged ==
    ASSUME NEW who, IsFiniteSet(who), who # {},
           NEW p, p \in Seq({p[i] : i \in DOMAIN p}),
           authedAreTheSameAsPTagged(who, p)
    PROVE  p # <<>> /\ \A i \in DOMAIN p : p[i] \in who
<1> DEFINE T == {p[i] : i \in DOMAIN p}
           n == Len(p)
<1>1. n \in Nat /\ DOMAIN p = 1..n /\ p \in [1..n -> T]
  <2> HIDE DEF T
  <2>1. p \in Seq(T)
    BY DEF T
  <2>2. QED
    BY <2>1
<1>2. IsFiniteSet(1..n) /\ Cardinality(1..n) = n
  <2> HIDE DEF n
  <2>1. n \in Nat /\ 1 \in Int /\ n \in Int
    BY <1>1
  <2>2. /\ IsFiniteSet(1..n)
        /\ Cardinality(1..n) = IF 1 > n THEN 0 ELSE n - 1 + 1
    BY <2>1, FS_Interval
  <2>3. QED
    BY <2>1, <2>2
<1>3. p \in Surjection(1..n, T)
  BY <1>1 DEF Surjection
<1>4. IsFiniteSet(T) /\ Cardinality(T) <= n
  BY <1>2, <1>3, FS_Surjection
<1>5. who \in SUBSET T
  BY DEF authedAreTheSameAsPTagged
<1>6. Cardinality(T) \in Nat /\ Cardinality(who) <= Cardinality(T)
  BY <1>4, <1>5, FS_Subset, FS_CardinalityType
<1>7. Cardinality(who) = n
  BY DEF authedAreTheSameAsPTagged
<1>8. Cardinality(T) = Cardinality(who)
  BY <1>1, <1>4, <1>6, <1>7
<1>9. who = T
  BY <1>4, <1>5, <1>8, FS_Subset
<1>10. QED
  BY <1>9

-----------------------------------------------------------------------------
(* AccessInv is inductive.                                                  *)

\* The relay as it begins satisfies the invariant.
LEMMA AccessInit == Init => AccessInv
<1> SUFFICES ASSUME Init PROVE AccessInv
  OBVIOUS
<1>1. GroupInv
  BY AccessAssumption DEF Init, GroupInv
<1>2. ConnInv
  BY FS_EmptySet DEF Init, ConnInv
<1>3. WrapFilterInv /\ VettedInv /\ RowInv /\ LookInv
  BY DEF Init, WrapFilterInv, VettedInv, RowInv, LookInv
<1>4. GiftWrapsReachRecipients /\ SecretMetadataForMembers /\ NamedPrivateContentForMembers
  BY DEF Init, GiftWrapsReachRecipients, SecretMetadataForMembers,
     NamedPrivateContentForMembers, WasSent
<1>5. QED
  BY <1>1, <1>2, <1>3, <1>4 DEF AccessInv

\* A step that sends nothing leaves nothing to check about what was sent.
LEMMA NothingLeaks ==
    ASSUME sent' = NothingSent
    PROVE  GiftWrapsReachRecipients' /\ SecretMetadataForMembers' /\ NamedPrivateContentForMembers'
BY DEF GiftWrapsReachRecipients, SecretMetadataForMembers, NamedPrivateContentForMembers,
   WasSent, NothingSent

\* Nobody is taken off the records: what was right of a row stays right.
LEMMA RowsStay ==
    ASSUME ConnInv, GroupInv,
           \A c \in Conns : known[c] \subseteq known'[c],
           \A g \in GroupIds : ever[g] \subseteq ever'[g]
    PROVE  /\ \A c \in Conns, S \in SUBSET GroupIds : Admitted(c, S) => Admitted(c, S)'
           /\ \A r : RowOK(r) => RowOK(r)'
<1>1. ASSUME NEW c \in Conns, NEW S, Admitted(c, S) PROVE Admitted(c, S)'
  <2>1. S \subseteq GroupIds /\ \A g \in S : known[c] \cap ever[g] # {}
    BY <1>1 DEF Admitted
  <2>2. \A g \in S : known'[c] \cap ever'[g] # {}
    BY <2>1
  <2>3. QED
    BY <2>1, <2>2 DEF Admitted
<1>2. ASSUME NEW r, RowOK(r) PROVE RowOK(r)'
  <2>1. r.conn \in Conns /\ Admitted(r.conn, r.vetted)'
    BY <1>1, <1>2 DEF RowOK
  <2>2. QED
    BY <1>2, <2>1 DEF RowOK
<1>3. QED
  BY <1>1, <1>2

\* AUTH: whether it is added or takes another's place, a key is recorded, and
\* nothing is taken back; a check that sees the array change keeps its event.
LEMMA AuthenticateStep ==
    ASSUME AccessInv, NEW c \in Conns, NEW u \in Users,
           Authenticate(c, u) \/ \E old \in Users : Replace(c, u, old)
    PROVE  AccessInv'
<1> USE DEF AccessInv, groupVars
<1>1. /\ known' = [known EXCEPT ![c] = @ \cup {u}]
      /\ UNCHANGED <<groupVars, sub, place, vetted>> /\ sent' = NothingSent
  BY DEF Authenticate, Replace
<1>2. /\ \A x \in Conns : known[x] \subseteq known'[x]
      /\ \A g \in GroupIds : ever[g] \subseteq ever'[g]
  BY <1>1 DEF ConnInv
<1>3. PICK S \in SUBSET authed[c] : authed' = [authed EXCEPT ![c] = S \cup {u}]
  BY DEF Authenticate, Replace, ConnInv
<1>4. IsFiniteSet(S \cup {u})
  BY <1>3, FS_AddElement, FS_Subset DEF ConnInv
<1>5. ConnInv'
  <2>1. authed' \in [Conns -> SUBSET Users] /\ known' \in [Conns -> SUBSET Users]
    BY <1>1, <1>3 DEF ConnInv
  <2>2. \A x \in Conns : IsFiniteSet(authed'[x]) /\ authed'[x] \subseteq known'[x]
    BY <1>1, <1>3, <1>4 DEF ConnInv
  <2>3. QED
    BY <1>1, <2>1, <2>2 DEF ConnInv
<1>6. GroupInv' /\ WrapFilterInv'
  BY <1>1, <1>2 DEF GroupInv, WrapFilterInv
<1>7. VettedInv'
  BY <1>1, <1>2, RowsStay DEF VettedInv, ConnInv
<1>8. RowInv' /\ LookInv'
  <2>1. CASE UNCHANGED <<rows, looking>>
    BY <1>2, <2>1, RowsStay DEF RowInv, LookInv
  <2>2. ASSUME NEW old \in Users,
               rows' = {Rekeyed(r, c, old, u) : r \in rows},
               looking' = {[row |-> Rekeyed(l.row, c, old, u), flags |-> l.flags, made |-> l.made] :
                               l \in looking}
        PROVE  RowInv' /\ LookInv'
    <3>1. \A r : RowOK(r) => RowOK(Rekeyed(r, c, old, u))
                             /\ Rekeyed(r, c, old, u).ev = r.ev
      BY DEF RowOK, Rekeyed
    <3>2. RowInv'
      BY <1>2, <2>2, <3>1, RowsStay DEF RowInv
    <3>3. LookInv'
      BY <1>2, <2>2, <3>1, RowsStay DEF LookInv
    <3>4. QED
      BY <3>2, <3>3
  <2>3. QED
    BY <2>1, <2>2 DEF Authenticate, Replace
<1>9. QED
  BY <1>1, <1>5, <1>6, <1>7, <1>8, NothingLeaks

\* REQ: rejectRequest lets a private group's members and a wrap's recipients in.
LEMMA RequestStep ==
    ASSUME AccessInv, NEW c \in Conns, NEW f \in Filters, Request(c, f)
    PROVE  AccessInv'
<1> USE DEF AccessInv, Request, groupVars
<1>1. ConnInv'
  BY DEF ConnInv, GroupInv
<1>2. GroupInv' /\ LookInv' /\ RowInv'
  BY DEF GroupInv, LookInv, RowInv, RowOK, Admitted
<1>3. ASSUME "wrap" \in f.kinds
      PROVE  f.p # <<>> /\ \A i \in DOMAIN f.p : f.p[i] \in known[c]
  <2>1. authed[c] # {} /\ authedAreTheSameAsPTagged(authed[c], f.p)
    BY <1>3 DEF rejectRequest
  <2>2. f.p # <<>> /\ \A i \in DOMAIN f.p : f.p[i] \in authed[c]
    BY <2>1, SameAsPTagged, AccessAssumption DEF ConnInv
  <2>3. QED
    BY <2>2 DEF ConnInv
<1>4. WrapFilterInv'
  BY <1>3 DEF WrapFilterInv, ConnInv
<1>5. ASSUME NEW g \in vetted'[c] PROVE g \in GroupIds /\ known[c] \cap ever[g] # {}
  <2>1. g \in requestedGroupIds(f) /\ g \in live /\ "private" \in flags[g]
    BY <1>5 DEF ConnInv
  <2>2. authed[c] \cap members[g] # {}
    BY <2>1 DEF rejectRequest, MayRead, AnyOfTheseIsAMember
  <2>3. QED
    BY <2>1, <2>2 DEF GroupInv, ConnInv
<1>6. VettedInv'
  <2>1. UNCHANGED <<known, ever>>
    OBVIOUS
  <2>2. \A x \in Conns : x # c => vetted'[x] = vetted[x] /\ place'[x] = place[x]
    BY DEF ConnInv
  <2>3. ASSUME NEW x \in Conns, place'[x] # "idle"
        PROVE  vetted'[x] \subseteq GroupIds /\ \A g \in vetted'[x] : known[x] \cap ever[g] # {}
    BY <1>5, <2>2, <2>3 DEF VettedInv, Admitted
  <2>4. QED
    BY <2>1, <2>3 DEF VettedInv, Admitted
<1>7. QED
  BY <1>1, <1>2, <1>4, <1>6, NothingLeaks

\* The stored events: what a gift-wrap query finds is for the connection's keys.
LEMMA QueryStep ==
    ASSUME AccessInv, NEW c \in Conns, Query(c)
    PROVE  AccessInv'
<1> USE DEF AccessInv, groupVars
<1>1. ConnInv'
  BY DEF ConnInv, Query
<1>2. GroupInv' /\ LookInv' /\ WrapFilterInv'
  BY DEF Query, GroupInv, LookInv, RowOK, Admitted, ConnInv, WrapFilterInv
<1>3. VettedInv'
  BY DEF Query, ConnInv, VettedInv, Admitted
<1>4. RowInv'
  <2>0. UNCHANGED <<known, ever>>
    BY DEF Query
  <2> SUFFICES ASSUME NEW r \in rows' PROVE RowOK(r)
    BY <2>0 DEF RowInv, RowOK, Admitted
  <2>1. CASE r \in rows
    BY <2>1 DEF RowInv
  <2>2. CASE r \notin rows
    <3>1. PICK e \in stored :
             /\ Matches(sub[c], e)
             /\ r = [conn |-> c, ev |-> e, filter |-> sub[c], who |-> authed[c],
                     vetted |-> vetted[c], checked |-> "wrap" \notin sub[c].kinds]
      BY <2>2 DEF Query
    <3>2. "wrap" \in sub[c].kinds => e.p \cap known[c] # {}
      BY <3>1 DEF Query, WrapFilterInv, Matches
    <3>3. Admitted(c, vetted[c])
      BY DEF Query, VettedInv
    <3>4. QED
      BY <3>1, <3>2, <3>3 DEF RowOK
  <2>3. QED
    BY <2>1, <2>2
<1>5. QED
  BY <1>1, <1>2, <1>3, <1>4, NothingLeaks DEF Query

\* CLOSE, and a broadcast, whose rows are all checked.
LEMMA BroadcastStep ==
    ASSUME AccessInv,
           (\E c \in Conns : CloseSubscription(c)) \/ (\E e \in Events : Publish(e))
    PROVE  AccessInv'
<1> USE DEF AccessInv, groupVars, connVars
<1>1. CASE \E c \in Conns : CloseSubscription(c)
  <2> PICK c \in Conns : CloseSubscription(c)
    BY <1>1
  <2>1. ConnInv' /\ GroupInv' /\ LookInv' /\ RowInv'
    BY DEF CloseSubscription, ConnInv, GroupInv, LookInv, RowInv, RowOK, Admitted
  <2>2. WrapFilterInv' /\ VettedInv'
    BY DEF CloseSubscription, ConnInv, WrapFilterInv, VettedInv, Admitted
  <2>3. QED
    BY <2>1, <2>2, NothingLeaks DEF CloseSubscription
<1>2. CASE \E e \in Events : Publish(e)
  <2> PICK e \in Events : Publish(e)
    BY <1>2
  <2>1. ConnInv' /\ GroupInv' /\ LookInv' /\ WrapFilterInv' /\ VettedInv'
    BY DEF Publish, ConnInv, GroupInv, LookInv, RowOK, Admitted, WrapFilterInv, VettedInv
  <2>2. \A c \in Conns : place[c] = "listening" => Admitted(c, vetted[c])
    BY DEF VettedInv
  <2>3. \A r \in rows' : RowOK(r)
    BY <2>2 DEF Publish, RowInv, RowOK
  <2>4. RowInv'
    BY <2>3 DEF Publish, RowInv, RowOK, Admitted
  <2>5. QED
    BY <2>1, <2>4, NothingLeaks DEF Publish
<1>3. QED
  BY <1>1, <1>2

\* What goes out unchecked: a profile, or a row of a gift-wrap query.
LEMMA SendStep ==
    ASSUME AccessInv, NEW r \in rows, SendUnchecked(r)
    PROVE  AccessInv'
<1> USE DEF AccessInv, SendUnchecked, groupVars, connVars
<1>1. ConnInv' /\ GroupInv' /\ LookInv' /\ WrapFilterInv' /\ VettedInv' /\ RowInv'
  BY DEF ConnInv, GroupInv, LookInv, RowOK, Admitted, WrapFilterInv, VettedInv, RowInv
<1>2. /\ sent'.ev = r.ev /\ sent'.conn = r.conn /\ sent'.vetted = r.vetted /\ ~sent'.checked
      /\ RowOK(r)
  BY DEF Deliver, RowInv
<1>3. GiftWrapsReachRecipients'
  BY <1>2 DEF GiftWrapsReachRecipients, RowOK
<1>4. SecretMetadataForMembers' /\ NamedPrivateContentForMembers'
  BY <1>2 DEF SecretMetadataForMembers, NamedPrivateContentForMembers, RowOK, Admitted
<1>5. QED
  BY <1>1, <1>3, <1>4

\* The first half of hideEventFromReader: an event without a group goes no further.
LEMMA LookStep ==
    ASSUME AccessInv, NEW r \in rows, Look(r)
    PROVE  AccessInv'
<1> USE DEF AccessInv, Look, groupVars, connVars
<1>1. ConnInv' /\ GroupInv' /\ WrapFilterInv' /\ VettedInv' /\ RowInv'
  BY DEF ConnInv, GroupInv, WrapFilterInv, VettedInv, RowInv, RowOK, Admitted
<1>2. \A l \in looking' : RowOK(l.row) /\ l.row.ev.group \in GroupIds
  BY DEF LookInv, GroupInv, RowInv
<1>3. LookInv'
  BY <1>2 DEF LookInv, RowOK, Admitted
<1>4. QED
  BY <1>1, <1>3, NothingLeaks

\* The second half: hidden and private metadata goes to a member of the group.
LEMMA DecideStep ==
    ASSUME AccessInv, NEW l \in looking, Decide(l)
    PROVE  AccessInv'
<1> USE DEF AccessInv, groupVars, connVars
<1>1. ConnInv' /\ GroupInv' /\ LookInv' /\ WrapFilterInv' /\ VettedInv' /\ RowInv'
  BY DEF Decide, ConnInv, GroupInv, LookInv, RowOK, Admitted, WrapFilterInv, VettedInv, RowInv
<1>2. CASE sent' = NothingSent
  BY <1>1, <1>2, NothingLeaks
<1>3. CASE sent' # NothingSent
  <2> DEFINE g == l.row.ev.group
  <2>1. sent' = Deliver(l.row, TRUE, l.flags)
    BY <1>3 DEF Decide
  <2>2. /\ sent'.ev = l.row.ev /\ sent'.who = l.row.who /\ sent'.flags = l.flags
        /\ sent'.conn = l.row.conn /\ sent'.vetted = l.row.vetted
        /\ g \in GroupIds /\ RowOK(l.row)
    BY <2>1 DEF Deliver, LookInv
  <2>3. ASSUME l.row.ev.kind = "metadata", {"private", "hidden"} \subseteq l.flags
        PROVE  l.row.who \cap members[g] # {}
    BY <1>3, <2>3 DEF Decide, Hides, AnyOfTheseIsAMember
  <2>4. SecretMetadataForMembers'
    BY <2>2, <2>3 DEF SecretMetadataForMembers, GroupInv, Decide
  <2>5. GiftWrapsReachRecipients' /\ NamedPrivateContentForMembers'
    BY <2>2 DEF GiftWrapsReachRecipients, NamedPrivateContentForMembers, RowOK, Admitted, Decide
  <2>6. QED
    BY <1>1, <2>4, <2>5
<1>4. QED
  BY <1>2, <1>3

\* Groups change: whoever is put in is recorded, and nobody is taken off the record.
LEMMA ChangeStep ==
    ASSUME AccessInv, NEW g \in GroupIds,
           \/ \E fl \in SUBSET {"private", "hidden"} : EditFlags(g, fl)
           \/ DeleteGroup(g)
           \/ \E u \in Users : PutOrRemove(g, u) \/ CreateGroup(g, u)
    PROVE  AccessInv'
<1> USE DEF AccessInv
<1>1. UNCHANGED <<connVars, rows, looking>> /\ sent' = NothingSent
  BY DEF EditFlags, DeleteGroup, PutOrRemove, CreateGroup
<1>2. GroupInv' /\ \A x \in GroupIds : ever[x] \subseteq ever'[x]
  <2>1. CASE DeleteGroup(g) \/ \E fl \in SUBSET {"private", "hidden"} : EditFlags(g, fl)
    BY <2>1 DEF GroupInv, EditFlags, DeleteGroup
  <2>2. CASE \E u \in Users : PutOrRemove(g, u)
    BY <2>2 DEF GroupInv, PutOrRemove
  <2>3. CASE \E u \in Users : CreateGroup(g, u)
    BY <2>3 DEF GroupInv, CreateGroup
  <2>4. QED
    BY <2>1, <2>2, <2>3
<1>3. ConnInv' /\ WrapFilterInv'
  BY <1>1 DEF connVars, ConnInv, WrapFilterInv
<1>4. \A c \in Conns : known[c] \subseteq known'[c]
  BY <1>1 DEF connVars
<1>5. VettedInv' /\ RowInv' /\ LookInv'
  BY <1>1, <1>2, <1>4, RowsStay DEF connVars, ConnInv, VettedInv, RowInv, LookInv
<1>6. QED
  BY <1>1, <1>2, <1>3, <1>5, NothingLeaks

\* The inductive invariant holds in every reachable state.
LEMMA AccessInvariant == Spec => []AccessInv
<1>1. ASSUME AccessInv, [Next]_vars PROVE AccessInv'
  <2>1. CASE Next
    BY <1>1, <2>1, AuthenticateStep, RequestStep, QueryStep, BroadcastStep,
       SendStep, LookStep, DecideStep, ChangeStep DEF Next
  <2>2. CASE UNCHANGED vars
    BY <1>1, <2>2 DEF AccessInv, GroupInv, ConnInv, WrapFilterInv, VettedInv, RowInv, LookInv,
       RowOK, Admitted,
       NamedPrivateContentForMembers, GiftWrapsReachRecipients,
       SecretMetadataForMembers, WasSent, vars, groupVars, connVars
  <2>3. QED
    BY <1>1, <2>1, <2>2
<1>2. QED
  BY <1>1, AccessInit, PTL DEF Spec

-----------------------------------------------------------------------------
(* The theorems *)

\* state.go, giftwrap.go: a gift wrap without a group leaves only for a
\* connection that has authenticated as one of its recipients.
THEOREM WrapsReachRecipients == Spec => []GiftWrapsReachRecipients
<1>1. AccessInv => GiftWrapsReachRecipients
  BY DEF AccessInv
<1>2. QED
  BY <1>1, AccessInvariant, PTL

\* query.go: metadata of a hidden and private group reaches nobody who never was
\* a member, although flags and members are read at two moments.
THEOREM SecretMetadata == Spec => []SecretMetadataForMembers
<1>1. AccessInv => SecretMetadataForMembers
  BY DEF AccessInv
<1>2. QED
  BY <1>1, AccessInvariant, PTL

\* state.go: content of a group that was private when the subscription naming it
\* was accepted is sent only to a connection that had the key of somebody who was
\* its member, whatever changed in between.
THEOREM NamedPrivateContent == Spec => []NamedPrivateContentForMembers
<1>1. AccessInv => NamedPrivateContentForMembers
  BY DEF AccessInv
<1>2. QED
  BY <1>1, AccessInvariant, PTL
=============================================================================
