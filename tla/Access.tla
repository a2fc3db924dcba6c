------------------------------- MODULE Access -------------------------------
(***************************************************************************)
(* Who gets to read what: rejectRequest (state.go) checks a subscription    *)
(* once, query and shouldPreventBroadcast (query.go) check every event that *)
(* goes out, with the flags and the members the group has by then.          *)
(* hideEventFromReader reads the flags under one lock and the members under *)
(* another: Look and Decide.                                                *)
(*                                                                          *)
(* An event is [kind, group, p]: "metadata" carries the group as d tag, a   *)
(* "content" event as h tag, a "profile" (kind 0) has no group, a "wrap"    *)
(* (kind 1059) has none unless its author added an h tag, which nothing     *)
(* refuses.  A filter is [h, d, ids, kinds, p, search]; an empty field is   *)
(* absent, and p is a sequence, as the client sent it.                      *)
(***************************************************************************)
EXTENDS Integers, Sequences, FiniteSets

CONSTANTS Users, GroupIds, Conns,
          NoGroup,     \* the group of an event without one
          Events,      \* events that may be published
          Stored,      \* those the store holds at the start
          Filters,     \* filters clients may send
          MaxSearched, \* how many groups a search may name (5)
          MaxAuthenticatedClients, \* keys a connection may have (8)
          Founder,     \* the member the groups begin with
          MaxAuths,    \* bound: keys authenticated
          MaxRequests, \* bound: accepted requests
          MaxChanges   \* bound: changes of groups

ASSUME AccessAssumption ==
    /\ NoGroup \notin GroupIds
    /\ Stored \subseteq Events
    /\ MaxSearched \in Nat \ {0} /\ MaxAuthenticatedClients \in Nat \ {0}
    /\ MaxAuths \in Nat /\ MaxChanges \in Nat /\ MaxRequests \in Nat
    /\ Founder \in Users
    /\ \A f \in Filters : f.p \in Seq({f.p[i] : i \in DOMAIN f.p})

VARIABLES live,      \* ids in State.Groups
          flags,     \* "private", "hidden", per group
          members,   \* per group
          made,      \* how often the id was created: which object it names
          stored,    \* events in the store
          authed,    \* the keys of each connection
          sub,       \* each connection's accepted filter
          place,     \* "idle", "accepted" or "listening"
          rows,      \* events to be checked for a connection
          looking,   \* checks that have read the flags
          changes,   \* changes of groups so far
          auths,     \* AUTHs so far
          requests,  \* requests accepted so far
          ever,      \* history: users who were ever members, per group
          known,     \* history: keys each connection ever authenticated
          vetted,    \* history: groups that were private when sub was accepted
          sent       \* history: the event the last step sent, if any

groupVars == <<live, flags, members, made, changes, ever>>
connVars == <<authed, auths, known, sub, place, requests, vetted>>
vars == <<groupVars, connVars, stored, rows, looking, sent>>

NoFilter == [h |-> {}, d |-> {}, ids |-> {}, kinds |-> {}, p |-> <<>>, search |-> FALSE]
NothingSent == [conn |-> NoGroup]

Init ==
    /\ live = GroupIds
    /\ flags \in [GroupIds -> {{}, {"private"}}]
    /\ members = [g \in GroupIds |-> {Founder}]
    /\ made = [g \in GroupIds |-> 1]
    /\ stored = Stored
    /\ authed = [c \in Conns |-> {}] /\ known = authed
    /\ sub = [c \in Conns |-> NoFilter]
    /\ place = [c \in Conns |-> "idle"]
    /\ rows = {}
    /\ looking = {}
    /\ changes = 0
    /\ auths = 0 /\ requests = 0
    /\ ever = members
    /\ vetted = [c \in Conns |-> {}]
    /\ sent = NothingSent

-----------------------------------------------------------------------------
(* query.go, state.go, giftwrap.go *)

requestedGroupIds(f) == IF f.h # {} THEN f.h ELSE f.d

\* Mutant: whoever is authenticated may name any others besides.
authedAreTheSameAsPTagged_Subset(who, p) ==
    \A u \in who : \E i \in DOMAIN p : p[i] = u

\* Equal lengths, and every key has its tag; keys are distinct.
authedAreTheSameAsPTagged(who, p) ==
    /\ Len(p) = Cardinality(who)
    /\ \A u \in who : \E i \in DOMAIN p : p[i] = u

AnyOfTheseIsAMember(g, who) == who \cap members[g] # {}

\* Mutant: an authenticated reader is let through.
MayRead_Authed(g, who) == who # {}

\* One group of the loop in rejectRequest.
MayRead(g, who) ==
    (g \in live /\ "private" \in flags[g]) => who # {} /\ AnyOfTheseIsAMember(g, who)

rejectRequest(f, who) ==
    \/ "wrap" \in f.kinds /\ (who = {} \/ ~authedAreTheSameAsPTagged(who, f.p))
    \/ f.search /\ Cardinality(requestedGroupIds(f)) \notin 1..MaxSearched
    \/ \E g \in requestedGroupIds(f) : ~MayRead(g, who)

\* Mutant: the metadata of a private group is public, hidden or not.
Hides_MetadataIsPublic(fl, f, e, isMember) ==
    "hidden" \in fl /\ requestedGroupIds(f) = {} /\ f.ids = {}

\* The end of hideEventFromReader, for a live group with flags fl.  Content of a
\* private group passes whoever reads it: only rejectRequest guards it.
Hides(fl, f, e, isMember) ==
    \/ "hidden" \in fl /\ requestedGroupIds(f) = {} /\ f.ids = {}
    \/ "private" \in fl /\ e.kind = "metadata" /\ "hidden" \in fl /\ ~isMember

\* The store's and the dispatcher's matching of a filter.
Matches(f, e) ==
    /\ f.h # {} => e.kind # "metadata" /\ e.group \in f.h
    /\ f.d # {} => e.kind = "metadata" /\ e.group \in f.d
    /\ f.ids # {} => e \in f.ids
    /\ f.kinds # {} => e.kind \in f.kinds
    /\ f.p # <<>> => \E i \in DOMAIN f.p : f.p[i] \in e.p

-----------------------------------------------------------------------------
(* A connection: AUTH, REQ, the stored events, the broadcasts, CLOSE        *)

\* Below the limit a key is added; at the limit it takes the place of the first,
\* and which one is first depends on the order of the AUTHs, which nothing here
\* reads.
Authenticate(c, u) ==
    /\ auths < MaxAuths /\ u \notin authed[c]
    /\ auths' = auths + 1
    /\ Cardinality(authed[c]) < MaxAuthenticatedClients
    /\ authed' = [authed EXCEPT ![c] = @ \cup {u}]
    /\ known' = [known EXCEPT ![c] = @ \cup {u}]
    /\ sent' = NothingSent
    /\ UNCHANGED <<groupVars, sub, place, requests, vetted, stored, rows, looking>>

\* The row as a check sees it whose keys are the connection's own array.
Rekeyed(r, c, old, new) ==
    IF r.conn = c /\ old \in r.who THEN [r EXCEPT !.who = (@ \ {old}) \cup {new}] ELSE r

\* The array is changed in place: checks under way may see it, or an older one.
Replace(c, u, old) ==
    /\ auths < MaxAuths /\ u \notin authed[c] /\ old \in authed[c]
    /\ auths' = auths + 1
    /\ Cardinality(authed[c]) >= MaxAuthenticatedClients
    /\ authed' = [authed EXCEPT ![c] = (@ \ {old}) \cup {u}]
    /\ known' = [known EXCEPT ![c] = @ \cup {u}]
    /\ \/ UNCHANGED <<rows, looking>>
       \/ /\ rows' = {Rekeyed(r, c, old, u) : r \in rows}
          /\ looking' = {[row |-> Rekeyed(l.row, c, old, u), flags |-> l.flags, made |-> l.made] :
                         l \in looking}
    /\ sent' = NothingSent
    /\ UNCHANGED <<groupVars, sub, place, requests, vetted, stored>>

Request(c, f) ==
    /\ place[c] = "idle" /\ requests < MaxRequests
    /\ requests' = requests + 1
    /\ ~rejectRequest(f, authed[c])
    /\ sub' = [sub EXCEPT ![c] = f]
    /\ place' = [place EXCEPT ![c] = "accepted"]
    /\ vetted' = [vetted EXCEPT ![c] =
                    {g \in requestedGroupIds(f) \cap live : "private" \in flags[g]}]
    /\ sent' = NothingSent
    /\ UNCHANGED <<groupVars, authed, auths, known, stored, rows, looking>>

\* query: the keys are read once, and the store yields a snapshot.
Query(c) ==
    LET f == sub[c] IN
    /\ place[c] = "accepted"
    /\ rows' = rows \cup {[conn |-> c, ev |-> e, filter |-> f, who |-> authed[c],
                           vetted |-> vetted[c], checked |-> "wrap" \notin f.kinds] :
                            e \in {x \in stored : ~f.search /\ Matches(f, x)}}
    /\ place' = [place EXCEPT ![c] = IF f.ids = {} THEN "listening" ELSE "idle"]
    /\ sent' = NothingSent
    /\ UNCHANGED <<groupVars, authed, auths, known, sub, requests, vetted, stored, looking>>

CloseSubscription(c) ==
    /\ place[c] = "listening"
    /\ place' = [place EXCEPT ![c] = "idle"]
    /\ sent' = NothingSent
    /\ UNCHANGED <<groupVars, authed, auths, known, sub, requests, vetted, stored, rows, looking>>

\* An event is stored and offered to every listener it matches.
Publish(e) ==
    /\ e \notin stored
    /\ stored' = stored \cup {e}
    /\ rows' = rows \cup {[conn |-> c, ev |-> e, filter |-> sub[c], who |-> authed[c],
                           vetted |-> vetted[c], checked |-> TRUE] :
                            c \in {x \in Conns : place[x] = "listening" /\ Matches(sub[x], e)}}
    /\ sent' = NothingSent
    /\ UNCHANGED <<groupVars, connVars, looking>>

\* What reaches the client, and what it was checked against.
Deliver(r, checked, fl) ==
    [conn |-> r.conn, ev |-> r.ev, who |-> r.who, vetted |-> r.vetted,
     checked |-> checked, flags |-> fl]

\* A row of a gift-wrap query, or a profile, goes out as it is.
SendUnchecked(r) ==
    /\ r \in rows
    /\ ~r.checked \/ r.ev.kind = "profile"
    /\ rows' = rows \ {r}
    /\ sent' = Deliver(r, FALSE, {})
    /\ UNCHANGED <<groupVars, connVars, stored, looking>>

\* hideEventFromReader: an event without a live group is hidden, else the
\* flags are read ...
Look(r) ==
    /\ r \in rows
    /\ r.checked /\ r.ev.kind # "profile"
    /\ rows' = rows \ {r}
    /\ looking' = IF r.ev.group \in live
                  THEN looking \cup {[row |-> r, flags |-> flags[r.ev.group],
                                         made |-> made[r.ev.group]]}
                  ELSE looking
    /\ sent' = NothingSent
    /\ UNCHANGED <<groupVars, connVars, stored>>

\* ... and then the members are, of the same object: a deleted one has none.
Decide(l) ==
    LET g == l.row.ev.group
        isMember == l.made = made[g] /\ AnyOfTheseIsAMember(g, l.row.who)
    IN
    /\ l \in looking
    /\ looking' = looking \ {l}
    /\ sent' = IF Hides(l.flags, l.row.filter, l.row.ev, isMember)
               THEN NothingSent
               ELSE Deliver(l.row, TRUE, l.flags)
    /\ UNCHANGED <<groupVars, connVars, stored, rows>>

-----------------------------------------------------------------------------
(* Groups change under the readers: what rejectEvent accepts and            *)
(* ProcessEvent applies.  A private group does not become public again.     *)

EditFlags(g, fl) ==
    /\ changes < MaxChanges
    /\ changes' = changes + 1
    /\ g \in live
    /\ fl # flags[g] /\ ("private" \in flags[g] => "private" \in fl)
    /\ flags' = [flags EXCEPT ![g] = fl]
    /\ sent' = NothingSent
    /\ UNCHANGED <<live, members, made, ever, connVars, stored, rows, looking>>

PutOrRemove(g, u) ==
    /\ changes < MaxChanges
    /\ changes' = changes + 1
    /\ g \in live
    /\ members' = [members EXCEPT ![g] = IF u \in @ THEN @ \ {u} ELSE @ \cup {u}]
    /\ ever' = [ever EXCEPT ![g] = @ \cup {u}]
    /\ sent' = NothingSent
    /\ UNCHANGED <<live, flags, made, connVars, stored, rows, looking>>

\* delete-group; the id may be created anew, with no flags.
DeleteGroup(g) ==
    /\ changes < MaxChanges
    /\ changes' = changes + 1
    /\ g \in live
    /\ live' = live \ {g}
    /\ flags' = [flags EXCEPT ![g] = {"private", "hidden"}]
    /\ members' = [members EXCEPT ![g] = {}]
    /\ sent' = NothingSent
    /\ UNCHANGED <<made, ever, connVars, stored, rows, looking>>

CreateGroup(g, u) ==
    /\ changes < MaxChanges
    /\ changes' = changes + 1
    /\ g \notin live
    /\ live' = live \cup {g}
    /\ made' = [made EXCEPT ![g] = @ + 1]
    /\ flags' = [flags EXCEPT ![g] = {}]
    /\ members' = [members EXCEPT ![g] = {u}]
    /\ ever' = [ever EXCEPT ![g] = @ \cup {u}]
    /\ sent' = NothingSent
    /\ UNCHANGED <<connVars, stored, rows, looking>>

Next ==
    \/ \E c \in Conns :
          \/ \E u \in Users : Authenticate(c, u) \/ \E old \in Users : Replace(c, u, old)
          \/ \E f \in Filters : Request(c, f)
          \/ Query(c) \/ CloseSubscription(c)
    \/ \E e \in Events : Publish(e)
    \/ \E r \in rows : SendUnchecked(r) \/ Look(r)
    \/ \E l \in looking : Decide(l)
    \/ \E g \in GroupIds :
          \/ \E fl \in SUBSET {"private", "hidden"} : EditFlags(g, fl)
          \/ DeleteGroup(g)
          \/ \E u \in Users : PutOrRemove(g, u) \/ CreateGroup(g, u)

Spec == Init /\ [][Next]_vars

-----------------------------------------------------------------------------
(* Properties *)

WasSent == sent # NothingSent

\* state.go:88-97, query.go:16-20 "already authorized to read": a gift wrap only
\* leaves for a connection that has authenticated as one of its recipients,
\* whichever tags the filter lists and whatever it authenticated when.  A wrap
\* put into a group by an h tag is excepted: it is read like the group's content.
GiftWrapsReachRecipients ==
    (WasSent /\ sent.ev.kind = "wrap" /\ sent.ev.group \notin GroupIds) =>
       sent.ev.p \cap known[sent.conn] # {}

\* query.go:79-91: metadata of a group that is hidden and private when the check
\* begins reaches nobody who never was a member, although the flags and the
\* members are read at different moments.
SecretMetadataForMembers ==
    (WasSent /\ sent.ev.kind = "metadata" /\ sent.checked /\ {"private", "hidden"} \subseteq sent.flags)
       => sent.who \cap ever[sent.ev.group] # {}

\* query.go:80 "'private' works by hiding group contents", query.go:95 "allow
\* reading for members only": content of a group that is private when it is
\* checked reaches nobody who never was a member.
PrivateContentForMembers ==
    (WasSent /\ sent.ev.kind = "content" /\ sent.checked /\ "private" \in sent.flags)
       => sent.who \cap ever[sent.ev.group] # {}

\* state.go:105-115: content of a group that was private when the subscription
\* naming it was accepted is only ever sent to a connection that has, or had, the
\* key of somebody who is, or was, a member: although the events go out much
\* later, no longer ask for members, may be sent unchecked next to gift wraps,
\* and keys, flags and members change in between.
NamedPrivateContentForMembers ==
    (WasSent /\ sent.ev.kind = "content" /\ sent.ev.group \in sent.vetted)
       => known[sent.conn] \cap ever[sent.ev.group] # {}
=============================================================================
