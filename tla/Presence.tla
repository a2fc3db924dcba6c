------------------------------ MODULE Presence ------------------------------
(***************************************************************************)
(* Presence checks: hasPresence (presence.go) asks other relays for a       *)
(* user's profile and caches what it hears, a timeout included, without     *)
(* expiry; rejectGiftWrapEvent (giftwrap.go) is the check that makes        *)
(* several such calls.  Each call reads the settings and the cache, and     *)
(* answers at once or after a query of up to two seconds, while other       *)
(* checks run and the owner changes the settings.                           *)
(***************************************************************************)
EXTENDS Integers, Sequences, FiniteSets

CONSTANTS Users,
          Checks,    \* goroutines that check an event
          Wraps,     \* gift wraps: [sender |-> a user or Nobody, p |-> recipients]
          Nobody,    \* a sender who has not authenticated
          MaxCached, \* entries of a cache (2048)
          MaxChecks  \* bound: checks, and profiles that come or go

VARIABLES relays,   \* presence relays in the settings, per type of check
          enabled,  \* gift wraps are enabled in the settings
          there,    \* users whose profile the presence relays have
          cache,    \* the two caches
          check,    \* where each check stands
          checked,  \* checks so far
          found,    \* history: users some query has found
          verdict   \* history: what the last step decided

Cached == {"transit", "wrap"}
EmptyCache == [t \in Cached |-> [u \in {} |-> FALSE]]
IdleCheck == [pc |-> "idle", type |-> "create", who |-> Nobody, last |-> TRUE,
              rest |-> <<>>, sender |-> Nobody, open |-> FALSE]
NoVerdict == [type |-> "none", who |-> Nobody, ok |-> FALSE, open |-> FALSE]

Init ==
    /\ there = Users
    /\ cache = EmptyCache
    /\ check = [c \in Checks |-> IdleCheck]
    /\ checked = 0
    /\ found = {}
    /\ verdict = NoVerdict

Settle(c, ok) ==
    LET k == check[c] IN
    /\ check' = [check EXCEPT ![c] = IdleCheck]
    /\ verdict' = [type |-> k.type, who |-> IF k.type = "wrap" THEN k.sender ELSE k.who,
                   ok |-> ok, open |-> k.open]

Continue(c, new) ==
    /\ check' = [check EXCEPT ![c] = new]
    /\ verdict' = NoVerdict

-----------------------------------------------------------------------------
(* hasPresence *)

IsCached(t, u) == t \in Cached /\ u \in DOMAIN cache[t]

\* An entry is added; when the cache is full the one unused for longest goes,
\* and which one that is stays open.
AddToCache(t, u, present) ==
    \E keep \in SUBSET (DOMAIN cache[t] \ {u}) :
       /\ \/ keep = DOMAIN cache[t] \ {u} /\ Cardinality(keep) < MaxCached
          \/ Cardinality(keep) = MaxCached - 1 /\ Cardinality(DOMAIN cache[t] \ {u}) >= MaxCached
       /\ cache' = [cache EXCEPT ![t] = [x \in keep \cup {u} |->
                                            IF x = u THEN present ELSE cache[t][x]]]

\* What the caller makes of an answer: it is the verdict, or it was about a
\* recipient, and one who is present ends the asking for recipients.
Answered(c, present) ==
    IF check[c].last THEN Settle(c, present)
    ELSE Continue(c, [check[c] EXCEPT !.pc = "wrap", !.rest = IF present THEN <<>> ELSE @])

\* The cache answers, whatever the relays are by now; without relays everybody
\* is present, and nothing is cached.
AnswerKnown(c) ==
    LET k == check[c] IN
    /\ k.pc = "ask"
    /\ \/ IsCached(k.type, k.who) /\ Answered(c, cache[k.type][k.who])
       \/ ~IsCached(k.type, k.who) /\ relays[k.type] = {} /\ Answered(c, TRUE)
    /\ UNCHANGED <<there, cache, checked, found>>

StartQuery(c) ==
    LET k == check[c] IN
    /\ k.pc = "ask"
    /\ ~IsCached(k.type, k.who) /\ relays[k.type] # {}
    /\ Continue(c, [k EXCEPT !.pc = "query"])
    /\ UNCHANGED <<there, cache, checked, found>>

\* pool.QuerySingle returns the profile, or nothing: there is none, or the two
\* seconds are over.
QueryReturns(c, present) ==
    LET k == check[c] IN
    /\ k.pc = "query"
    /\ present => k.who \in there
    /\ Answered(c, present)
    /\ IF k.type \in Cached THEN AddToCache(k.type, k.who, present) ELSE UNCHANGED cache
    /\ found' = IF present THEN found \cup {k.who} ELSE found
    /\ UNCHANGED <<there, checked>>

-----------------------------------------------------------------------------
(* The callers: rejectEvent asks for the author, rejectGiftWrapEvent for    *)
(* recipients and then for the sender.                                      *)

Begin(c, t, u) ==
    /\ check[c].pc = "idle" /\ checked < MaxChecks
    /\ checked' = checked + 1
    /\ Continue(c, [IdleCheck EXCEPT !.pc = "ask", !.type = t, !.who = u])
    /\ UNCHANGED <<there, cache, found>>

BeginWrap(c, w) ==
    /\ check[c].pc = "idle" /\ checked < MaxChecks
    /\ checked' = checked + 1
    /\ enabled
    /\ Continue(c, [IdleCheck EXCEPT !.pc = "wrap", !.type = "wrap", !.last = FALSE,
                                     !.rest = w.p, !.sender = w.sender,
                                     !.open = relays["wrap"] = {}])
    /\ UNCHANGED <<there, cache, found>>

NextRecipient(c) ==
    LET k == check[c] IN
    /\ k.pc = "wrap" /\ k.rest # <<>>
    /\ Continue(c, [k EXCEPT !.pc = "ask", !.who = Head(k.rest), !.rest = Tail(@)])
    /\ UNCHANGED <<there, cache, checked, found>>

\* Mutant: the presence of a recipient stands for the sender's.
AskForSender_Receiver(c) ==
    LET k == check[c] IN
    /\ k.pc = "wrap" /\ k.rest = <<>>
    /\ relays["wrap"] # {} /\ k.sender # Nobody
    /\ Settle(c, k.who = Nobody \/ IsCached("wrap", k.who))
    /\ UNCHANGED <<there, cache, checked, found>>

\* Whether a recipient was present is not looked at.
AskForSender(c) ==
    LET k == check[c] IN
    /\ k.pc = "wrap" /\ k.rest = <<>>
    /\ relays["wrap"] # {} /\ k.sender # Nobody
    /\ Continue(c, [k EXCEPT !.pc = "ask", !.who = k.sender, !.last = TRUE])
    /\ UNCHANGED <<there, cache, checked, found>>

AcceptOpenly(c) ==
    /\ check[c].pc = "wrap" /\ check[c].rest = <<>>
    /\ relays["wrap"] = {}
    /\ Settle(c, TRUE)
    /\ UNCHANGED <<there, cache, checked, found>>

RequireAuth(c) ==
    /\ check[c].pc = "wrap" /\ check[c].rest = <<>>
    /\ relays["wrap"] # {} /\ check[c].sender = Nobody
    /\ Settle(c, FALSE)
    /\ UNCHANGED <<there, cache, checked, found>>

\* A profile is published on another relay, or gone from it.
ProfileMoves(u) ==
    /\ checked < MaxChecks
    /\ checked' = checked + 1
    /\ there' = IF u \in there THEN there \ {u} ELSE there \cup {u}
    /\ verdict' = NoVerdict
    /\ UNCHANGED <<cache, check, found>>

Check(c) ==
    \/ AnswerKnown(c) \/ StartQuery(c) \/ (\E present \in BOOLEAN : QueryReturns(c, present))
    \/ NextRecipient(c) \/ AskForSender(c) \/ AcceptOpenly(c) \/ RequireAuth(c)

Next ==
    \/ \E c \in Checks :
          \/ \E t \in {"transit", "create"}, u \in Users : Begin(c, t, u)
          \/ \E w \in Wraps : BeginWrap(c, w)
          \/ Check(c)
    \/ \E u \in Users : ProfileMoves(u)

\* The settings change under the checks: noted is only whether gift wraps were
\* open to all at some time during each.
SettingsChange(newRelays) ==
    /\ check' = [c \in Checks |-> IF check[c].pc = "idle" THEN IdleCheck
                   ELSE [check[c] EXCEPT !.open = @ \/ newRelays["wrap"] = {}]]
    /\ verdict' = NoVerdict
    /\ UNCHANGED <<there, cache, checked, found>>

-----------------------------------------------------------------------------
(* Properties *)

\* giftwrap.go:58-69: a gift wrap that passes while there are presence relays,
\* from its arrival to the verdict, has an authenticated sender whom a query
\* found, whatever was cached for whom, and by which check.
WrapSendersWereFound ==
    (verdict.type = "wrap" /\ verdict.ok /\ ~verdict.open)
       => verdict.who \in found
=============================================================================
