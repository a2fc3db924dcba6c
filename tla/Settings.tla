------------------------------ MODULE Settings ------------------------------
(***************************************************************************)
(* The settings of the relay: the file settings.json, the variable S, what  *)
(* is built from it (the rate limiter, the blob storage, the khatru relay   *)
(* that is served and the one rosters are broadcast to), loadSettings at    *)
(* the start, and SettingsHandler, which the owner may send twice at once.  *)
(* Presence checks run meanwhile and read S.                                *)
(*                                                                          *)
(* os.WriteFile truncates the file and then writes it.  A write that finds  *)
(* the file truncated leaves it complete; one that finds what another has   *)
(* written overwrites it, and if it is the shorter one, a tail remains.     *)
(***************************************************************************)
EXTENDS Integers, Sequences, FiniteSets

CONSTANTS Users, Checks, Wraps, Nobody, MaxCached, MaxChecks, \* see Presence
          Posts,       \* requests of the owner being handled
          Forms,       \* forms the owner may send
          FirstFiles,  \* what may be in the file at first
          Missing, Torn, \* no file, and one that does not parse
          Keep, Bad,   \* an empty and an invalid number in a form
          MaxPosts,    \* bound: forms sent
          MaxFaults    \* bound: failing opens and writes, and crashes

\* What a settings file holds that parses, and what a form holds.
RelaysType == [{"transit", "create", "wrap"} -> SUBSET STRING]
SettingsType == [key : Nat, rate : Int, relays : RelaysType, wraps : BOOLEAN,
                 blossom : {"off", "local", "s3", "bad"}, path : BOOLEAN]
FormType == [rate : Int \cup {Keep, Bad}, relays : RelaysType, wraps : BOOLEAN,
             blossom : {"off", "local", "s3", "bad"}]

ASSUME SettingsAssumption ==
    /\ Nobody \notin Users
    /\ Wraps \subseteq [sender : Users \cup {Nobody}, p : Seq(Users)]
    /\ Missing # Torn /\ Missing \notin SettingsType /\ Torn \notin SettingsType
    /\ FirstFiles \subseteq SettingsType \cup {Missing, Torn}
    /\ Forms \subseteq FormType
    /\ MaxCached \in Nat \ {0} /\ MaxChecks \in Nat
    /\ MaxPosts \in Nat /\ MaxFaults \in Nat

VARIABLES file,     \* settings.json
          up,       \* the process serves
          boot,     \* where loadSettings stands, while the process starts
          S,        \* the settings in memory
          limiter,  \* GroupCreateRateLimiter is set
          blobs,    \* the kind of storage behind blossomFS
          R,        \* the settings global.R was configured with
          served,   \* the settings handler.current was configured with
          post,     \* where each request stands
          posts, faults, generated,
          key,      \* history: the key of the first process that served
          durable,  \* history: the settings last acknowledged
          mixed,    \* history: requests overlapped, or a save failed or was cut short
          broken,   \* history: a reset has failed since the process started
          there, cache, check, checked, found, verdict

Pr == INSTANCE Presence WITH relays <- S.relays, enabled <- S.wraps

checkVars == <<there, cache, check, checked, found, verdict>>
memVars == <<S, limiter, blobs, R, served>>
histVars == <<key, durable, mixed, broken>>
vars == <<file, up, boot, memVars, post, posts, faults, generated, histVars, checkVars>>

NoKey == 0 \* the zero key; those Generate returns are numbered from 1
NoRelays == [t \in {"transit", "create", "wrap"} |-> {}]
Defaults == [key |-> NoKey, rate |-> 1, relays |-> NoRelays, wraps |-> FALSE,
             blossom |-> "off", path |-> TRUE]
IdleBoot == [pc |-> "off", s |-> Defaults]
IdlePost == [pc |-> "idle", s |-> Defaults]
Saving == boot.pc = "write" \/ \E p \in Posts : post[p].pc = "write"
Busy == {p \in Posts : post[p].pc # "idle"}

Init ==
    /\ file \in FirstFiles
    /\ up = FALSE
    /\ boot = [IdleBoot EXCEPT !.pc = "read"]
    /\ S = Defaults /\ R = Defaults /\ served = Defaults
    /\ limiter = FALSE /\ blobs = "off"
    /\ post = [p \in Posts |-> IdlePost]
    /\ posts = 0 /\ faults = 0 /\ generated = 0
    /\ key = NoKey
    /\ durable = Missing
    /\ mixed = FALSE /\ broken = FALSE
    /\ Pr!Init

-----------------------------------------------------------------------------
(* Settings.save: os.WriteFile *)

WriteInto(old, s) == IF old = Torn THEN {s} ELSE {s, Torn}

-----------------------------------------------------------------------------
(* loadSettings, and the start of the process *)

Starting(places) == ~up /\ boot.pc \in places

\* nostr.Generate never returns the same key twice.
Generate(s) ==
    /\ generated' = generated + 1
    /\ boot' = [pc |-> "open", s |-> [s EXCEPT !.key = generated']]

\* A file that does not parse is fatal: the process cannot start.
ReadSettings ==
    /\ Starting({"read"})
    /\ \/ /\ file \notin {Missing, Torn}
          /\ boot' = [pc |-> "fix", s |-> file]
          /\ UNCHANGED generated
       \/ /\ file = Missing
          /\ Generate([Defaults EXCEPT !.path = TRUE])
    /\ UNCHANGED <<file, up, memVars, post, posts, faults, histVars, checkVars>>

\* A missing key or path is filled in, and the file saved each time.
FixSettings ==
    LET s == boot.s IN
    /\ Starting({"fix"})
    /\ \/ /\ s.key = NoKey
          /\ Generate(s)
       \/ /\ s.key # NoKey /\ ~s.path
          /\ boot' = [pc |-> "open", s |-> [s EXCEPT !.path = TRUE]]
          /\ UNCHANGED generated
    /\ UNCHANGED <<file, up, memVars, post, posts, faults, histVars, checkVars>>

OpenAtBoot ==
    /\ Starting({"open"})
    /\ file' = Torn
    /\ boot' = [boot EXCEPT !.pc = "write"]
    /\ UNCHANGED <<up, memVars, post, posts, faults, histVars, checkVars, generated>>

WriteAtBoot ==
    /\ Starting({"write"})
    /\ file' = boot.s
    /\ boot' = [boot EXCEPT !.pc = "fix"]
    /\ UNCHANGED <<up, memVars, post, posts, faults, histVars, checkVars, generated>>

\* Init and run: S, the limiter, the relay.  Blob storage that cannot be
\* initialised ends the process again.
Serve ==
    LET s == boot.s IN
    /\ Starting({"fix"})
    /\ s.key # NoKey /\ s.path /\ s.blossom # "bad"
    /\ up' = TRUE
    /\ boot' = IdleBoot
    /\ S' = s /\ R' = s /\ served' = s
    /\ limiter' = (s.rate > 0)
    /\ blobs' = s.blossom
    /\ key' = IF key = NoKey THEN s.key ELSE key
    /\ Pr!SettingsChange(s.relays)
    /\ UNCHANGED <<file, post, posts, faults, durable, mixed, broken, generated>>

\* The process stops anywhere; the caches go with it.
Crash ==
    /\ faults < MaxFaults
    /\ faults' = faults + 1
    /\ up' = FALSE
    /\ boot' = [IdleBoot EXCEPT !.pc = "read"]
    /\ S' = Defaults /\ R' = Defaults /\ served' = Defaults
    /\ limiter' = FALSE /\ blobs' = "off"
    /\ post' = [p \in Posts |-> IdlePost]
    /\ mixed' = (mixed \/ Saving)
    /\ broken' = FALSE
    /\ cache' = Pr!EmptyCache
    /\ check' = [c \in Checks |-> Pr!IdleCheck]
    /\ verdict' = Pr!NoVerdict
    /\ UNCHANGED <<file, posts, key, durable, there, checked, found, generated>>

-----------------------------------------------------------------------------
(* SettingsHandler *)

Go(p, pc) == post' = [post EXCEPT ![p].pc = pc]

\* Mutant: the new settings hold what the form holds.
Updated_FormOnly(f) ==
    [Defaults EXCEPT !.rate = IF f.rate = Keep THEN @ ELSE f.rate, !.relays = f.relays,
                     !.wraps = f.wraps, !.blossom = f.blossom]

\* A copy of S with the fields of the form; an empty number keeps the old one.
Updated(f) ==
    [S EXCEPT !.rate = IF f.rate = Keep THEN @ ELSE f.rate, !.relays = f.relays,
              !.wraps = f.wraps, !.blossom = f.blossom, !.path = TRUE]

\* The owner's form is parsed; one with an invalid number is answered with 400.
Submit(p, f) ==
    /\ up /\ post[p].pc = "idle" /\ posts < MaxPosts
    /\ posts' = posts + 1
    /\ f.rate # Bad
    /\ post' = [post EXCEPT ![p] = [pc |-> "open", s |-> Updated(f)]]
    /\ mixed' = (mixed \/ Busy # {})
    /\ durable' = Torn
    /\ UNCHANGED <<file, up, boot, memVars, faults, key, broken, checkVars, generated>>

\* The file cannot be opened and the answer is 500: nothing has changed.
OpenFails(p) ==
    /\ post[p].pc = "open" /\ faults < MaxFaults
    /\ faults' = faults + 1
    /\ Go(p, "idle")
    /\ UNCHANGED <<file, up, boot, memVars, posts, histVars, checkVars, generated>>

OpenFile(p) ==
    /\ post[p].pc = "open"
    /\ file' = Torn
    /\ Go(p, "write")
    /\ UNCHANGED <<up, boot, memVars, posts, faults, histVars, checkVars, generated>>

\* Mutant: the settings in force are saved instead of the new ones.
WriteFile_Old(p) ==
    /\ post[p].pc = "write"
    /\ file' \in WriteInto(file, S)
    /\ Go(p, "assign")
    /\ UNCHANGED <<up, boot, memVars, posts, faults, histVars, checkVars, generated>>

WriteFile(p) ==
    /\ post[p].pc = "write"
    /\ file' \in WriteInto(file, post[p].s)
    /\ Go(p, "assign")
    /\ UNCHANGED <<up, boot, memVars, posts, faults, histVars, checkVars, generated>>

\* The write fails and the answer is 500: S is as it was, the file is not.
WriteFails(p) ==
    /\ post[p].pc = "write" /\ faults < MaxFaults
    /\ faults' = faults + 1
    /\ Go(p, "idle")
    /\ mixed' = TRUE
    /\ UNCHANGED <<file, up, boot, memVars, posts, key, durable, broken, checkVars, generated>>

Assign(p) ==
    /\ post[p].pc = "assign"
    /\ S' = post[p].s
    /\ Go(p, "limit")
    /\ Pr!SettingsChange(post[p].s.relays)
    /\ UNCHANGED <<file, up, boot, limiter, blobs, R, served, posts, faults, histVars, generated>>

\* Mutant: the old limiter stays in force when limiting is switched off.
ConfigureGroupCreateRateLimit_Stays(p) ==
    /\ post[p].pc = "limit"
    /\ limiter' = (limiter \/ S.rate > 0)
    /\ Go(p, "reset")
    /\ UNCHANGED <<file, up, boot, S, blobs, R, served, posts, faults, histVars, checkVars, generated>>

ConfigureGroupCreateRateLimit(p) ==
    /\ post[p].pc = "limit"
    /\ limiter' = (S.rate > 0)
    /\ Go(p, "reset")
    /\ UNCHANGED <<file, up, boot, S, blobs, R, served, posts, faults, histVars, checkVars, generated>>

\* resetRelay builds a relay from S.  initBlossom has replaced the storage when
\* it fails, and then the old relay stays.
ConfigureRelay(p) ==
    /\ post[p].pc = "reset"
    /\ blobs' = S.blossom
    /\ post' = [post EXCEPT ![p] = IF S.blossom = "bad" THEN IdlePost
                                   ELSE [pc |-> "publish", s |-> S]]
    /\ broken' = (S.blossom = "bad")
    /\ UNCHANGED <<file, up, boot, S, limiter, R, served, posts, faults, key, durable,
                   mixed, checkVars, generated>>

PublishRelay(p) ==
    /\ post[p].pc = "publish"
    /\ R' = post[p].s
    /\ Go(p, "set")
    /\ UNCHANGED <<file, up, boot, S, limiter, blobs, served, posts, faults, histVars,
                   checkVars, generated>>

\* handler.Set, and the answer: a redirect.
SetHandler(p) ==
    /\ post[p].pc = "set"
    /\ served' = post[p].s
    /\ post' = [post EXCEPT ![p] = IdlePost]
    /\ durable' = IF Busy = {p} THEN post[p].s ELSE durable
    /\ UNCHANGED <<file, up, boot, S, limiter, blobs, R, posts, faults, key, mixed, broken,
                   checkVars, generated>>

Handle(p) ==
    \/ OpenFile(p) \/ WriteFile(p) \/ Assign(p) \/ ConfigureGroupCreateRateLimit(p)
    \/ ConfigureRelay(p) \/ PublishRelay(p) \/ SetHandler(p)

CheckPresence == up /\ Pr!Next /\ UNCHANGED <<file, up, boot, memVars, post, posts, faults, histVars, generated>>

Next ==
    \/ ReadSettings \/ FixSettings \/ OpenAtBoot \/ WriteAtBoot \/ Serve \/ Crash
    \/ \E p \in Posts :
          \/ \E f \in Forms : Submit(p, f)
          \/ Handle(p) \/ OpenFails(p) \/ WriteFails(p)
    \/ CheckPresence

Spec == Init /\ [][Next]_vars

-----------------------------------------------------------------------------
(* Properties *)

Settled == up /\ Busy = {}

\* settings.go:105-155, 182: the relay signs with one key for good.  Whatever is
\* saved, torn, overwritten or interrupted, every process that serves has the
\* key of the first one.
KeyIsKept == up => S.key = key

\* settings.go:256-269, relay.go:119-137: requests handled one after the other
\* leave the file, S, the limiter, the blob storage, the served relay and the
\* one that broadcasts with the same settings, across crashes between them.
SettingsAgree ==
    (Settled /\ ~mixed) =>
       /\ file = S
       /\ limiter = (S.rate > 0)
       /\ ~broken => R = S /\ served = S /\ blobs = S.blossom

\* settings.go:256-271: what was acknowledged with a redirect is what the relay
\* has from then on, after a restart too, unless another form was sent.
AcknowledgedSurvives ==
    (Settled /\ ~mixed /\ durable \notin {Missing, Torn}) => S = durable

\* giftwrap.go:58-69: a gift wrap accepted while presence relays were set, from
\* its arrival to the verdict, has a sender whom a query found.
WrapSendersWereFound == Pr!WrapSendersWereFound
=============================================================================
