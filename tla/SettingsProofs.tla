--------------------------- MODULE SettingsProofs ---------------------------
(***************************************************************************)
(* Proofs about Settings, and the presence checks it composes with, for any *)
(* users, checks, requests, forms and first files, and any number of        *)
(* crashes.  FileInv follows one save from the form to the answer: what the *)
(* file, S, the limiter, the storage and the relays hold at each place of   *)
(* the handler.  CheckInv follows one presence check.                       *)
(***************************************************************************)
EXTENDS Settings, TLAPS

Working == {"open", "write", "assign", "limit", "reset", "publish", "set"}

\* The file, S and the copies under way are settings.
SettingsTypeOK ==
    /\ file \in SettingsType \cup {Missing, Torn}
    /\ durable \in SettingsType \cup {Missing, Torn}
    /\ up \in BOOLEAN /\ mixed \in BOOLEAN /\ broken \in BOOLEAN
    /\ boot \in [pc : {"off", "read", "fix", "open", "write"}, s : SettingsType]
    /\ S \in SettingsType
    /\ post \in [Posts -> [pc : {"idle"} \cup Working, s : SettingsType]]
    /\ generated \in Nat /\ key \in Nat

\* Requests are handled by a process that serves, which has loaded its settings
\* and has a key and a path.  loadSettings goes on with what the file holds.
ProcessInv ==
    /\ up => boot.pc = "off" /\ key # NoKey /\ S.path
    /\ ~up => \A p \in Posts : post[p].pc = "idle"
    /\ boot.pc = "fix" => file = boot.s
    /\ boot.pc \in {"open", "write"} => boot.s.key # NoKey

\* From the first process that served on, no copy of the settings has another
\* key, and there is a file.
KeyInv ==
    /\ KeyIsKept
    /\ \A p \in Posts : post[p].pc # "idle" => post[p].s.key = key /\ post[p].s.path
    /\ key # NoKey =>
          /\ file # Missing
          /\ file # Torn => file.key = key
          /\ boot.pc \in {"fix", "open", "write"} => boot.s.key = key

\* The file, S and what is built from it have the same settings.
Agreed ==
    /\ file = S /\ limiter = (S.rate > 0)
    /\ ~broken => R = S /\ served = S /\ blobs = S.blossom

\* What the handler has done by each of its places, when it works alone.
HandlerInv ==
    \A p \in Posts :
       LET s == post[p].s IN
       /\ post[p].pc = "open" => Agreed
       /\ post[p].pc = "write" => file = Torn
       /\ post[p].pc \in {"assign", "limit", "reset", "publish", "set"} => file = s
       /\ post[p].pc \in {"limit", "reset", "publish", "set"} => S = s
       /\ post[p].pc \in {"reset", "publish", "set"} => limiter = (S.rate > 0)
       /\ post[p].pc \in {"publish", "set"} => ~broken /\ blobs = S.blossom
       /\ post[p].pc = "set" => R = S

AloneInv == \A p, q \in Busy : p = q

\* An acknowledged form is complete, is in the file, and no other is handled.
AckInv ==
    durable \notin {Missing, Torn} =>
       /\ Busy = {}
       /\ file = durable
       /\ durable.key # NoKey /\ durable.path
       /\ boot.pc \notin {"open", "write"}
       /\ up => S = durable

\* Unless requests overlapped, or a save was cut short.
OrderlyInv == ~mixed => AloneInv /\ HandlerInv /\ AckInv

\* The inductive invariant of the file and the settings in memory.
FileInv == SettingsTypeOK /\ ProcessInv /\ KeyInv /\ OrderlyInv /\ SettingsAgree

-----------------------------------------------------------------------------

\* The defaults are settings, without a key.
LEMMA DefaultsAreSettings ==
    Defaults \in SettingsType /\ Defaults.key = NoKey
<1>1. NoRelays \in RelaysType
  BY DEF NoRelays, RelaysType
<1>2. QED
  BY <1>1 DEF NoKey, Defaults, SettingsType

\* The first start satisfies the invariant, whatever the file holds.
LEMMA FileInit == Init => FileInv
<1> SUFFICES ASSUME Init PROVE FileInv
  OBVIOUS
<1> USE DEF IdleBoot, IdlePost
<1>1. SettingsTypeOK
  BY DefaultsAreSettings, SettingsAssumption DEF Init, SettingsTypeOK, NoKey
<1>2. ProcessInv /\ KeyInv /\ SettingsAgree
  BY DEF Init, ProcessInv, KeyInv, KeyIsKept, SettingsAgree, Settled, NoKey
<1>3. OrderlyInv
  BY DEF Init, OrderlyInv, AloneInv, HandlerInv, AckInv, Busy
<1>4. QED
  BY <1>1, <1>2, <1>3 DEF FileInv

\* loadSettings: a key is generated only where no process ever served.
LEMMA LoadStep ==
    ASSUME FileInv, ReadSettings \/ FixSettings
    PROVE  FileInv'
<1> USE DEF FileInv
<1>0. /\ ~up /\ boot.pc \in {"read", "fix"}
      /\ UNCHANGED <<file, up, memVars, post, histVars>>
  BY DEF ReadSettings, FixSettings, Starting
<1>1. /\ generated' \in Nat
      /\ \/ file \notin {Missing, Torn} /\ boot' = [pc |-> "fix", s |-> file]
         \/ /\ boot'.pc = "open" /\ boot'.s \in SettingsType /\ boot'.s.key # NoKey
            /\ boot' \in [pc : {"open"}, s : SettingsType]
            /\ key # NoKey => boot'.s.key = key
            /\ mixed \/ durable \in {Missing, Torn}
  <2>1. CASE ReadSettings
    <3>1. CASE file \notin {Missing, Torn} /\ UNCHANGED generated
               /\ boot' = [pc |-> "fix", s |-> file]
      BY <3>1 DEF SettingsTypeOK
    <3>2. CASE file = Missing /\ Generate([Defaults EXCEPT !.path = TRUE])
      <4>1. key = NoKey
        BY <3>2 DEF KeyInv
      <4>2. mixed \/ durable \in {Missing, Torn}
        BY <3>2 DEF OrderlyInv, AckInv
      <4>3. generated' \in Nat /\ generated' # NoKey
        BY <3>2 DEF Generate, SettingsTypeOK, NoKey
      <4>4. boot' = [pc |-> "open", s |-> [[Defaults EXCEPT !.path = TRUE] EXCEPT !.key = generated']]
        BY <3>2 DEF Generate
      <4>5. QED
        BY <4>1, <4>2, <4>3, <4>4, DefaultsAreSettings DEF SettingsType
    <3>3. QED
      BY <2>1, <3>1, <3>2 DEF ReadSettings
  <2>2. CASE FixSettings
    <3>0. boot.pc = "fix" /\ boot.s \in SettingsType /\ file = boot.s
      BY <2>2 DEF FixSettings, Starting, SettingsTypeOK, ProcessInv
    <3>1. CASE boot.s.key = NoKey /\ Generate(boot.s)
      <4>1. key = NoKey
        BY <3>0, <3>1, SettingsAssumption DEF KeyInv
      <4>2. mixed \/ durable \in {Missing, Torn}
        BY <3>0, <3>1 DEF OrderlyInv, AckInv
      <4>3. generated' \in Nat /\ generated' # NoKey
        BY <3>1 DEF Generate, SettingsTypeOK, NoKey
      <4>4. boot' = [pc |-> "open", s |-> [boot.s EXCEPT !.key = generated']]
        BY <3>1 DEF Generate
      <4>5. QED
        BY <3>0, <4>1, <4>2, <4>3, <4>4 DEF SettingsType
    <3>2. CASE /\ boot.s.key # NoKey /\ ~boot.s.path /\ UNCHANGED generated
               /\ boot' = [pc |-> "open", s |-> [boot.s EXCEPT !.path = TRUE]]
      <4>1. mixed \/ durable \in {Missing, Torn}
        BY <3>0, <3>2 DEF OrderlyInv, AckInv
      <4>2. key # NoKey => boot.s.key = key
        BY <3>0 DEF KeyInv
      <4>3. QED
        BY <3>0, <3>2, <4>1, <4>2 DEF SettingsType, SettingsTypeOK
    <3>3. QED
      BY <2>2, <3>1, <3>2 DEF FixSettings
  <2>3. QED
    BY <2>1, <2>2
<1>2. SettingsTypeOK'
  BY <1>0, <1>1 DEF SettingsTypeOK, memVars, histVars
<1>3. ProcessInv'
  BY <1>0, <1>1 DEF ProcessInv, memVars, histVars
<1>4. KeyInv'
  BY <1>0, <1>1 DEF KeyInv, KeyIsKept, memVars, histVars
<1>5. \A p \in Posts : post'[p].pc = "idle"
  BY <1>0 DEF ProcessInv
<1>6. OrderlyInv' /\ SettingsAgree'
  BY <1>0, <1>1, <1>5 DEF OrderlyInv, AloneInv, HandlerInv, AckInv, SettingsAgree, Settled,
     Busy, memVars, histVars
<1>7. QED
  BY <1>2, <1>3, <1>4, <1>6

\* The save of loadSettings: nobody else writes meanwhile.
LEMMA BootSaveStep ==
    ASSUME FileInv, OpenAtBoot \/ WriteAtBoot
    PROVE  FileInv'
<1> USE DEF FileInv
<1>0. /\ ~up /\ boot.pc \in {"open", "write"}
      /\ \/ file' = Torn /\ boot' = [boot EXCEPT !.pc = "write"]
         \/ file' = boot.s /\ boot' = [boot EXCEPT !.pc = "fix"]
      /\ UNCHANGED <<up, memVars, post, histVars, generated>>
  BY DEF OpenAtBoot, WriteAtBoot, Starting
<1>1. SettingsTypeOK'
  BY <1>0 DEF SettingsTypeOK, memVars, histVars
<1>2. ProcessInv' /\ KeyInv'
  BY <1>0, SettingsAssumption DEF SettingsTypeOK, ProcessInv, KeyInv, KeyIsKept, memVars, histVars
<1>3. OrderlyInv' /\ SettingsAgree'
  BY <1>0 DEF SettingsTypeOK, ProcessInv, OrderlyInv, AloneInv, HandlerInv, AckInv,
     SettingsAgree, Settled, Busy, memVars, histVars
<1>4. QED
  BY <1>1, <1>2, <1>3

\* The process begins to serve with the settings it has read.
LEMMA ServeStep == ASSUME FileInv, Serve PROVE FileInv'
<1> USE DEF FileInv
<1>0. /\ ~up /\ boot.pc = "fix" /\ up' = TRUE /\ boot' = IdleBoot
      /\ boot.s.key # NoKey /\ boot.s.path
      /\ S' = boot.s /\ R' = boot.s /\ served' = boot.s
      /\ limiter' = (boot.s.rate > 0) /\ blobs' = boot.s.blossom
      /\ key' = IF key = NoKey THEN boot.s.key ELSE key
      /\ UNCHANGED <<file, post, durable, mixed, broken, generated>>
  BY DEF Serve, Starting
<1>1. boot.s \in SettingsType /\ file = boot.s /\ \A p \in Posts : post[p].pc = "idle"
  BY <1>0 DEF SettingsTypeOK, ProcessInv
<1>2. SettingsTypeOK'
  BY <1>0, <1>1, DefaultsAreSettings DEF SettingsTypeOK, IdleBoot, SettingsType
<1>3. key' = boot.s.key
  BY <1>0 DEF KeyInv
<1>4. ProcessInv' /\ KeyInv'
  BY <1>0, <1>1, <1>3, SettingsAssumption DEF ProcessInv, KeyInv, KeyIsKept, IdleBoot
<1>5. OrderlyInv' /\ SettingsAgree'
  BY <1>0, <1>1 DEF OrderlyInv, AloneInv, HandlerInv, AckInv, SettingsAgree, Settled,
     Busy, IdleBoot
<1>6. QED
  BY <1>2, <1>4, <1>5

\* A crash leaves the file, and what happened before it.
LEMMA CrashStep == ASSUME FileInv, Crash PROVE FileInv'
<1> USE DEF FileInv
<1>0. /\ up' = FALSE /\ boot' = [IdleBoot EXCEPT !.pc = "read"] /\ S' = Defaults
      /\ post' = [p \in Posts |-> IdlePost] /\ mixed' = (mixed \/ Saving)
      /\ broken' = FALSE
      /\ UNCHANGED <<file, key, durable, generated>>
  BY DEF Crash
<1>1. SettingsTypeOK'
  BY <1>0, DefaultsAreSettings DEF SettingsTypeOK, IdleBoot, IdlePost
<1>2. ProcessInv' /\ KeyInv'
  BY <1>0 DEF ProcessInv, KeyInv, KeyIsKept, IdleBoot, IdlePost
<1>3. OrderlyInv' /\ SettingsAgree'
  BY <1>0 DEF OrderlyInv, AloneInv, HandlerInv, AckInv, SettingsAgree, Settled,
     Busy, IdleBoot, IdlePost
<1>4. QED
  BY <1>1, <1>2, <1>3

\* A form is parsed: its copy of S keeps the key and has a path.
LEMMA SubmitStep ==
    ASSUME FileInv, NEW p \in Posts, NEW f \in Forms, Submit(p, f)
    PROVE  FileInv'
<1> USE DEF FileInv
<1>0. /\ up /\ post[p].pc = "idle" /\ f.rate # Bad
      /\ post' = [post EXCEPT ![p] = [pc |-> "open", s |-> Updated(f)]]
      /\ mixed' = (mixed \/ Busy # {}) /\ durable' = Torn
      /\ UNCHANGED <<file, up, boot, memVars, key, broken, generated>>
  BY DEF Submit
<1>1. Updated(f) \in SettingsType /\ Updated(f).key = key /\ Updated(f).path
  <2>1. f \in FormType /\ S \in SettingsType /\ S.key = key
    BY <1>0, SettingsAssumption DEF SettingsTypeOK, KeyInv, KeyIsKept
  <2>2. QED
    BY <1>0, <2>1 DEF Updated, FormType, SettingsType
<1>2. SettingsTypeOK'
  BY <1>0, <1>1 DEF SettingsTypeOK, Working, memVars
<1>3. ProcessInv' /\ KeyInv'
  BY <1>0, <1>1 DEF SettingsTypeOK, ProcessInv, KeyInv, KeyIsKept, memVars
<1>4. OrderlyInv' /\ SettingsAgree'
  <2>1. ~mixed' => Agreed /\ Busy = {}
    BY <1>0 DEF SettingsAgree, Settled, Agreed
  <2>2. Agreed => Agreed'
    BY <1>0 DEF Agreed, memVars
  <2>3. QED
    BY <1>0, <2>1, <2>2 DEF SettingsTypeOK, OrderlyInv, AloneInv, HandlerInv, AckInv, SettingsAgree,
       Settled, Busy, memVars
<1>5. QED
  BY <1>2, <1>3, <1>4

\* The file cannot be opened: everything is as it was before the form.
LEMMA OpenFailsStep ==
    ASSUME FileInv, NEW p \in Posts, OpenFails(p)
    PROVE  FileInv'
<1> USE DEF FileInv
<1>0. /\ UNCHANGED <<file, up, boot, memVars, key, durable, mixed, broken, generated>>
      /\ post[p].pc = "open" /\ post' = [post EXCEPT ![p].pc = "idle"]
  BY DEF OpenFails, Go, histVars
<1>1. SettingsTypeOK'
  <2>1. post' \in [Posts -> [pc : {"idle"} \cup Working, s : SettingsType]]
    BY <1>0 DEF SettingsTypeOK
  <2>2. QED
    BY <1>0, <2>1 DEF SettingsTypeOK, memVars
<1>2. /\ post'[p].pc = "idle" /\ \A q \in Posts : q # p => post'[q] = post[q]
  BY <1>0 DEF SettingsTypeOK
<1>3. ProcessInv' /\ KeyInv'
  BY <1>0, <1>2 DEF ProcessInv, KeyInv, KeyIsKept, memVars
<1>4. ASSUME ~mixed PROVE Agreed /\ \A q \in Posts : post'[q].pc = "idle"
  BY <1>0, <1>2, <1>4 DEF OrderlyInv, AloneInv, HandlerInv, Busy
<1>5. Agreed => Agreed'
  BY <1>0 DEF Agreed, memVars
<1>6. AckInv /\ p \in Busy => durable \in {Missing, Torn}
  BY DEF AckInv
<1>7. OrderlyInv' /\ SettingsAgree'
  <2>1. CASE mixed
    BY <1>0, <2>1 DEF OrderlyInv, SettingsAgree
  <2>2. CASE ~mixed
    <3>1. AloneInv' /\ HandlerInv'
      BY <1>4, <2>2 DEF AloneInv, HandlerInv, Busy
    <3>2. AckInv'
      BY <1>0, <1>6, <2>2 DEF OrderlyInv, AckInv, Busy
    <3>3. SettingsAgree'
      BY <1>4, <1>5, <2>2 DEF SettingsAgree, Agreed
    <3>4. QED
      BY <3>1, <3>2, <3>3 DEF OrderlyInv
  <2>3. QED
    BY <2>1, <2>2
<1>8. QED
  BY <1>1, <1>3, <1>7

\* os.WriteFile, its two steps and its failure: only the file changes.
LEMMA SaveStep ==
    ASSUME FileInv, NEW p \in Posts, OpenFile(p) \/ WriteFile(p) \/ WriteFails(p)
    PROVE  FileInv'
<1> USE DEF FileInv
<1>0. /\ UNCHANGED <<up, boot, memVars, key, durable, broken, generated>>
      /\ \/ /\ post[p].pc = "open" /\ file' = Torn /\ mixed' = mixed
            /\ post' = [post EXCEPT ![p].pc = "write"]
         \/ /\ post[p].pc = "write" /\ file' \in WriteInto(file, post[p].s)
            /\ mixed' = mixed /\ post' = [post EXCEPT ![p].pc = "assign"]
         \/ /\ post[p].pc = "write" /\ file' = file /\ mixed' = TRUE
            /\ post' = [post EXCEPT ![p].pc = "idle"]
  BY DEF OpenFile, WriteFile, WriteFails, Go, histVars
<1>1. up /\ boot.pc = "off" /\ key # NoKey
      /\ post[p].s \in SettingsType /\ post[p].s.key = key
  BY <1>0 DEF SettingsTypeOK, ProcessInv, KeyInv
<1>2. file' \in {file, Torn, post[p].s} /\ (file = Missing => file' # Missing)
  BY <1>0, <1>1, SettingsAssumption DEF WriteInto, KeyInv
<1>3. SettingsTypeOK'
  <2>1. PICK pc \in {"idle"} \cup Working : post' = [post EXCEPT ![p].pc = pc]
    BY <1>0 DEF Working
  <2>2. post' \in [Posts -> [pc : {"idle"} \cup Working, s : SettingsType]]
    BY <2>1 DEF SettingsTypeOK
  <2>3. QED
    BY <1>0, <1>1, <1>2, <2>2 DEF SettingsTypeOK, memVars
<1>4. ProcessInv' /\ KeyInv'
  BY <1>0, <1>1, <1>2, SettingsAssumption DEF SettingsTypeOK, ProcessInv, KeyInv,
     KeyIsKept, memVars
<1>5. OrderlyInv' /\ SettingsAgree'
  <2>1. \A q \in Posts : q # p => post'[q] = post[q]
    BY <1>0 DEF SettingsTypeOK
  <2>2. p \in Busy /\ (mixed' \/ Busy' = Busy)
    BY <1>0, <2>1 DEF SettingsTypeOK, Busy
  <2>3. ASSUME ~mixed' PROVE HandlerInv'
    <3>1. ~mixed /\ \A q \in Posts : q # p => post[q].pc = "idle"
      BY <1>0, <2>2, <2>3 DEF OrderlyInv, AloneInv, Busy
    <3>2. post'[p].pc = "write" => file' = Torn
      BY <1>0 DEF SettingsTypeOK
    <3>3. post'[p].s = post[p].s /\ post'[p].pc \in {"write", "assign"}
      BY <1>0, <2>3 DEF SettingsTypeOK
    <3>4. post'[p].pc = "assign" => file' = post[p].s
      BY <1>0, <2>3, <3>1 DEF SettingsTypeOK, OrderlyInv, HandlerInv, WriteInto
    <3>5. QED
      BY <2>1, <3>1, <3>2, <3>3, <3>4 DEF HandlerInv
  <2>4. QED
    BY <1>0, <1>1, <2>2, <2>3 DEF OrderlyInv, AloneInv, AckInv, SettingsAgree, Settled
<1>6. QED
  BY <1>3, <1>4, <1>5

\* S is assigned, and the limiter, the relay and the handler are built from it.
LEMMA ApplyStep ==
    ASSUME FileInv, NEW p \in Posts,
           \/ Assign(p) \/ ConfigureGroupCreateRateLimit(p) \/ ConfigureRelay(p)
           \/ PublishRelay(p) \/ SetHandler(p)
    PROVE  FileInv'
<1> USE DEF FileInv
<1>0. /\ post[p].pc \in {"assign", "limit", "reset", "publish", "set"}
      /\ UNCHANGED <<file, up, boot, key, mixed, generated>>
  BY DEF Assign, ConfigureGroupCreateRateLimit, ConfigureRelay, PublishRelay,
     SetHandler, histVars
<1>1. /\ up /\ boot.pc = "off" /\ key # NoKey /\ S.key = key /\ S.path
      /\ post[p].s \in SettingsType /\ post[p].s.key = key /\ post[p].s.path
  BY <1>0 DEF SettingsTypeOK, ProcessInv, KeyInv, KeyIsKept
<1>2. S' = S \/ S' = post[p].s
  BY DEF Assign, ConfigureGroupCreateRateLimit, ConfigureRelay, PublishRelay, SetHandler
<1>3. /\ \E pc \in {"idle"} \cup Working, s \in {Defaults, S, post[p].s} :
            /\ post' = [post EXCEPT ![p] = [pc |-> pc, s |-> s]]
            /\ pc # "idle" => s \in {S, post[p].s}
      /\ broken' \in BOOLEAN /\ durable' \in {durable, post[p].s}
  <2>1. CASE Assign(p) \/ ConfigureGroupCreateRateLimit(p) \/ PublishRelay(p)
    <3>1. \E pc \in Working : post' = [post EXCEPT ![p].pc = pc]
      BY <2>1 DEF Assign, ConfigureGroupCreateRateLimit, PublishRelay, Go, Working
    <3>2. PICK pc \in Working : post' = [post EXCEPT ![p] = [pc |-> pc, s |-> post[p].s]]
      BY <3>1 DEF SettingsTypeOK
    <3>3. QED
      BY <2>1, <3>2 DEF Assign, ConfigureGroupCreateRateLimit, PublishRelay, histVars,
         SettingsTypeOK
  <2>2. CASE ConfigureRelay(p)
    BY <2>2 DEF ConfigureRelay, IdlePost, Working
  <2>3. CASE SetHandler(p)
    BY <2>3 DEF SetHandler, IdlePost, SettingsTypeOK
  <2>4. QED
    BY <2>1, <2>2, <2>3
<1>4. SettingsTypeOK'
  BY <1>0, <1>1, <1>2, <1>3, DefaultsAreSettings DEF SettingsTypeOK
<1>5. ProcessInv' /\ KeyInv'
  BY <1>0, <1>1, <1>2, <1>3 DEF SettingsTypeOK, ProcessInv, KeyInv, KeyIsKept
<1>6. ASSUME ~mixed
      PROVE  AloneInv' /\ HandlerInv' /\ AckInv' /\ SettingsAgree'
  <2>1. \A q \in Posts : q # p => post[q].pc = "idle" /\ post'[q].pc = "idle"
    BY <1>0, <1>3, <1>6 DEF SettingsTypeOK, OrderlyInv, AloneInv, Busy
  <2>2. Busy = {p} /\ Busy' \subseteq {p} /\ (Busy' = {} <=> post'[p].pc = "idle")
    BY <1>0, <2>1 DEF Busy
  <2>3. durable \in {Missing, Torn}
    BY <1>6, <2>2 DEF OrderlyInv, AckInv
  <2>4. /\ file = post[p].s
        /\ post[p].pc \in {"limit", "reset", "publish", "set"} => S = post[p].s
        /\ post[p].pc \in {"reset", "publish", "set"} => limiter = (S.rate > 0)
        /\ post[p].pc \in {"publish", "set"} => ~broken /\ blobs = S.blossom
        /\ post[p].pc = "set" => R = S
    BY <1>0, <1>6 DEF OrderlyInv, HandlerInv
  <2>5. AloneInv'
    BY <2>2 DEF AloneInv
  <2>6. CASE Assign(p)
    <3>1. post'[p] = [pc |-> "limit", s |-> post[p].s] /\ S' = post[p].s /\ durable' = durable
      BY <2>6 DEF Assign, Go, histVars, SettingsTypeOK
    <3>2. QED
      BY <1>0, <2>1, <2>2, <2>3, <2>4, <2>5, <3>1
         DEF HandlerInv, AckInv, SettingsAgree, Settled
  <2>7. CASE ConfigureGroupCreateRateLimit(p)
    <3>1. /\ post'[p] = [pc |-> "reset", s |-> post[p].s] /\ post[p].pc = "limit"
          /\ S' = S /\ limiter' = (S.rate > 0) /\ durable' = durable
      BY <2>7 DEF ConfigureGroupCreateRateLimit, Go, histVars, SettingsTypeOK
    <3>2. QED
      BY <1>0, <2>1, <2>2, <2>3, <2>4, <2>5, <3>1
         DEF HandlerInv, AckInv, SettingsAgree, Settled
  <2>8. CASE ConfigureRelay(p)
    <3>1. /\ post[p].pc = "reset" /\ blobs' = S.blossom
          /\ broken' = (S.blossom = "bad") /\ UNCHANGED <<S, limiter, durable>>
          /\ post'[p] = IF S.blossom = "bad" THEN IdlePost ELSE [pc |-> "publish", s |-> S]
      BY <2>8 DEF ConfigureRelay, SettingsTypeOK
    <3>2. AckInv'
      BY <2>3, <3>1 DEF AckInv
    <3>3. CASE S.blossom = "bad"
      <4>0. broken'
        BY <3>1, <3>3, Zenon
      <4>1. post'[p].pc = "idle"
        BY <3>1, <3>3 DEF IdlePost
      <4>2. HandlerInv'
        BY <2>1, <4>1 DEF HandlerInv
      <4>3. SettingsAgree'
        BY <1>0, <2>4, <3>1, <4>0 DEF SettingsAgree
      <4>4. QED
        BY <2>5, <3>2, <4>2, <4>3
    <3>4. CASE S.blossom # "bad"
      <4>1. post'[p] = [pc |-> "publish", s |-> S] /\ ~broken'
        BY <3>1, <3>4
      <4>2. HandlerInv'
        BY <1>0, <2>1, <2>4, <3>1, <4>1 DEF HandlerInv
      <4>3. SettingsAgree'
        BY <2>2, <4>1 DEF SettingsAgree, Settled
      <4>4. QED
        BY <2>5, <3>2, <4>2, <4>3
    <3>5. QED
      BY <3>3, <3>4
  <2>9. CASE PublishRelay(p)
    <3>1. /\ post'[p] = [pc |-> "set", s |-> post[p].s] /\ post[p].pc = "publish"
          /\ R' = post[p].s /\ UNCHANGED <<S, limiter, blobs, durable, broken>>
      BY <2>9 DEF PublishRelay, Go, histVars, SettingsTypeOK
    <3>2. QED
      BY <1>0, <2>1, <2>2, <2>3, <2>4, <2>5, <3>1
         DEF HandlerInv, AckInv, SettingsAgree, Settled
  <2>10. CASE SetHandler(p)
    <3>1. /\ post'[p] = IdlePost /\ post[p].pc = "set" /\ served' = post[p].s
          /\ durable' = post[p].s /\ UNCHANGED <<S, limiter, blobs, R, broken>>
      BY <2>2, <2>10 DEF SetHandler, SettingsTypeOK
    <3>2. QED
      BY <1>0, <1>1, <2>1, <2>2, <2>4, <2>5, <3>1
         DEF HandlerInv, AckInv, SettingsAgree, Settled, IdlePost
  <2>11. QED
    BY <2>6, <2>7, <2>8, <2>9, <2>10
<1>7. OrderlyInv' /\ SettingsAgree'
  BY <1>0, <1>6 DEF OrderlyInv, SettingsAgree
<1>8. QED
  BY <1>4, <1>5, <1>7

\* The inductive invariant of the settings holds in every reachable state.
LEMMA FileInvariant == Spec => []FileInv
<1>1. ASSUME FileInv, [Next]_vars PROVE FileInv'
  <2>1. CASE \/ ReadSettings \/ FixSettings \/ OpenAtBoot \/ WriteAtBoot
             \/ Serve \/ Crash
    BY <1>1, <2>1, LoadStep, BootSaveStep, ServeStep, CrashStep
  <2>2. ASSUME NEW p \in Posts,
               Handle(p) \/ OpenFails(p) \/ WriteFails(p) \/ \E f \in Forms : Submit(p, f)
        PROVE  FileInv'
    BY <1>1, <2>2, SubmitStep, OpenFailsStep, SaveStep, ApplyStep DEF Handle
  <2>3. CASE CheckPresence \/ UNCHANGED vars
    BY <1>1, <2>3 DEF FileInv, SettingsTypeOK, ProcessInv, KeyInv, KeyIsKept, OrderlyInv,
       AloneInv, HandlerInv, Agreed, AckInv, SettingsAgree, Settled, Busy, CheckPresence, vars,
       memVars, histVars
  <2>4. QED
    BY <1>1, <2>1, <2>2, <2>3 DEF Next
<1>2. QED
  BY <1>1, FileInit, PTL DEF Spec

-----------------------------------------------------------------------------
(* The presence checks *)

CheckType ==
    [pc : {"idle", "ask", "query", "wrap"}, type : {"transit", "create", "wrap"},
     who : Users \cup {Nobody}, last : BOOLEAN, rest : Seq(Users),
     sender : Users \cup {Nobody}, open : BOOLEAN]

\* A cache says of a user that a profile was found only if a query found one.
CacheInv ==
    /\ cache = [t \in Pr!Cached |-> cache[t]]
    /\ \A t \in Pr!Cached : \A u \in DOMAIN cache[t] :
          cache[t][u] \in BOOLEAN /\ (cache[t][u] => u \in found)

\* The last question of a gift wrap's check is about its sender, and a check
\* that is not noted as open has had presence relays all along.
StepInv ==
    \A c \in Checks :
       LET k == check[c] IN
       /\ k.pc = "wrap" => k.type = "wrap" /\ ~k.last
       /\ k.type = "wrap" /\ k.last /\ k.pc # "idle" => k.who = k.sender
       /\ ~k.last => k.type = "wrap"
       /\ k.type = "wrap" /\ ~k.open /\ k.pc # "idle" => S.relays["wrap"] # {}

\* The inductive invariant of the checks.  Nobody is checked while nothing is served.
CheckInv ==
    /\ check \in [Checks -> CheckType]
    /\ ~up => \A c \in Checks : check[c].pc = "idle"
    /\ CacheInv /\ StepInv
    /\ WrapSendersWereFound

\* A goroutine without a check satisfies what is asked of a check.
LEMMA IdleIsCheck ==
    Pr!IdleCheck \in CheckType /\ Pr!IdleCheck.pc = "idle" /\ Pr!IdleCheck.last
BY DEF Pr!IdleCheck, CheckType

\* A step without a verdict leaves nothing to say about the verdict.
LEMMA NoVerdictIsRight == ASSUME verdict' = Pr!NoVerdict PROVE WrapSendersWereFound'
BY DEF WrapSendersWereFound, Pr!WrapSendersWereFound, Pr!NoVerdict

\* The first process starts with empty caches and without checks.
LEMMA CheckInit == Init => CheckInv
<1> SUFFICES ASSUME Init PROVE CheckInv
  OBVIOUS
<1>1. check \in [Checks -> CheckType] /\ \A c \in Checks : check[c].pc = "idle"
  BY IdleIsCheck DEF Init, Pr!Init
<1>2. CacheInv
  BY DEF Init, Pr!Init, CacheInv, Pr!EmptyCache
<1>3. StepInv
  BY IdleIsCheck DEF StepInv, Init, Pr!Init
<1>4. WrapSendersWereFound
  BY DEF Init, Pr!Init, WrapSendersWereFound, Pr!WrapSendersWereFound, Pr!NoVerdict
<1>5. QED
  BY <1>1, <1>2, <1>3, <1>4 DEF CheckInv

\* One check moves on, to a state that keeps StepInv, and decides nothing.
LEMMA CheckMoves ==
    ASSUME CheckInv, NEW c \in Checks, NEW k \in CheckType, Pr!Continue(c, k),
           up, UNCHANGED <<up, S>>, CacheInv',
           k.pc = "wrap" => k.type = "wrap" /\ ~k.last,
           k.type = "wrap" /\ k.last /\ k.pc # "idle" => k.who = k.sender,
           ~k.last => k.type = "wrap",
           k.type = "wrap" /\ ~k.open /\ k.pc # "idle" => S.relays["wrap"] # {}
    PROVE  CheckInv'
<1>1. check' = [check EXCEPT ![c] = k] /\ verdict' = Pr!NoVerdict
  BY DEF Pr!Continue
<1>2. check' \in [Checks -> CheckType]
  BY <1>1 DEF CheckInv
<1>3. StepInv'
  BY <1>1 DEF CheckInv, StepInv
<1>4. QED
  BY <1>1, <1>2, <1>3, NoVerdictIsRight DEF CheckInv

\* One check ends with a verdict that is right about a gift wrap's sender.
LEMMA CheckSettles ==
    ASSUME CheckInv, NEW c \in Checks, NEW ok, Pr!Settle(c, ok),
           up, UNCHANGED <<up, S>>, CacheInv',
           check[c].type = "wrap" /\ ok /\ ~check[c].open => check[c].sender \in found'
    PROVE  CheckInv'
<1>1. /\ check' = [check EXCEPT ![c] = Pr!IdleCheck]
      /\ verdict'.type = check[c].type /\ verdict'.ok = ok
      /\ verdict'.open = check[c].open
      /\ check[c].type = "wrap" => verdict'.who = check[c].sender
  BY DEF Pr!Settle
<1>2. check' \in [Checks -> CheckType]
  BY <1>1, IdleIsCheck DEF CheckInv
<1>3. StepInv'
  BY <1>1, IdleIsCheck DEF CheckInv, StepInv
<1>4. WrapSendersWereFound'
  BY <1>1 DEF WrapSendersWereFound, Pr!WrapSendersWereFound
<1>5. QED
  BY <1>2, <1>3, <1>4 DEF CheckInv

\* An answer about somebody who was found, or about anybody in an open check.
LEMMA CheckAnswered ==
    ASSUME CheckInv, NEW c \in Checks, NEW present \in BOOLEAN, Pr!Answered(c, present),
           check[c].pc \in {"ask", "query"}, up, UNCHANGED <<up, S>>, CacheInv',
           check[c].type = "wrap" /\ present /\ ~check[c].open => check[c].who \in found'
    PROVE  CheckInv'
<1>0. check[c] \in CheckType
  BY DEF CheckInv
<1>1. CASE check[c].last
  <2>1. Pr!Settle(c, present)
    BY <1>1 DEF Pr!Answered
  <2>2. check[c].type = "wrap" => check[c].who = check[c].sender
    BY <1>1 DEF CheckInv, StepInv
  <2>3. QED
    BY <2>1, <2>2, CheckSettles
<1>2. CASE ~check[c].last
  <2> DEFINE k == [check[c] EXCEPT !.pc = "wrap", !.rest = IF present THEN <<>> ELSE @]
  <2>1. Pr!Continue(c, k)
    BY <1>2 DEF Pr!Answered
  <2>2. k \in CheckType /\ k.pc = "wrap" /\ k.type = "wrap" /\ ~k.last
        /\ k.open = check[c].open
    <3>1. check[c].type = "wrap"
      BY <1>2 DEF CheckInv, StepInv
    <3>2. PICK rest \in Seq(Users) : k = [check[c] EXCEPT !.pc = "wrap", !.rest = rest]
      <4>1. <<>> \in Seq(Users) /\ check[c].rest \in Seq(Users)
        BY <1>0 DEF CheckType
      <4>2. QED
        BY <1>0, <4>1 DEF CheckType
    <3> HIDE DEF k
    <3>3. QED
      BY <1>0, <1>2, <3>1, <3>2 DEF CheckType
  <2>3. ~check[c].open => S.relays["wrap"] # {}
    BY <2>2, <1>2 DEF CheckInv, StepInv
  <2> HIDE DEF k
  <2>4. QED
    BY <2>1, <2>2, <2>3, CheckMoves
<1>3. QED
  BY <1>1, <1>2

\* AddToCache: the new entry is what the query found, the others stay or go.
LEMMA CacheGrows ==
    ASSUME CacheInv, NEW t \in Pr!Cached, NEW u, NEW present \in BOOLEAN,
           Pr!AddToCache(t, u, present),
           found \subseteq found', present => u \in found'
    PROVE  CacheInv'
<1>1. PICK keep \in SUBSET (DOMAIN cache[t] \ {u}) :
         cache' = [cache EXCEPT ![t] = [x \in keep \cup {u} |->
                                           IF x = u THEN present ELSE cache[t][x]]]
  BY DEF Pr!AddToCache
<1>2. cache' = [x \in Pr!Cached |-> cache'[x]]
  BY <1>1 DEF CacheInv
<1>3. \A x \in Pr!Cached : x # t => cache'[x] = cache[x]
  BY <1>1 DEF CacheInv
<1>4. cache'[t] = [x \in keep \cup {u} |-> IF x = u THEN present ELSE cache[t][x]]
  BY <1>1 DEF CacheInv
<1>5. ASSUME NEW x \in DOMAIN cache'[t]
      PROVE  cache'[t][x] \in BOOLEAN /\ (cache'[t][x] => x \in found')
  <2>1. CASE x = u
    BY <1>4, <2>1
  <2>2. CASE x # u
    BY <1>4, <1>5, <2>2 DEF CacheInv
  <2>3. QED
    BY <2>1, <2>2
<1>6. QED
  BY <1>2, <1>3, <1>5 DEF CacheInv

\* hasPresence: from the cache, without relays, or by a query.
LEMMA HasPresenceStep ==
    ASSUME CheckInv, FileInv, up, UNCHANGED <<up, S>>, NEW c \in Checks,
           Pr!AnswerKnown(c) \/ \E present \in BOOLEAN : Pr!QueryReturns(c, present)
    PROVE  CheckInv'
<1> DEFINE k == check[c]
<1>1. k \in CheckType
  BY DEF CheckInv
<1>2. CASE Pr!AnswerKnown(c)
  <2>0. k.pc = "ask" /\ UNCHANGED <<cache, found>>
    BY <1>2 DEF Pr!AnswerKnown
  <2>1. CacheInv'
    BY <2>0 DEF CheckInv, CacheInv
  <2>2. CASE Pr!IsCached(k.type, k.who) /\ Pr!Answered(c, cache[k.type][k.who])
    <3>1. /\ cache[k.type][k.who] \in BOOLEAN
          /\ cache[k.type][k.who] => k.who \in found'
      BY <2>0, <2>2 DEF Pr!IsCached, CheckInv, CacheInv
    <3>2. QED
      BY <2>0, <2>1, <2>2, <3>1, CheckAnswered
  <2>3. CASE S.relays[k.type] = {} /\ Pr!Answered(c, TRUE)
    <3>1. k.type = "wrap" => k.open
      BY <1>1, <2>0, <2>3 DEF CheckInv, StepInv, CheckType
    <3>2. QED
      BY <2>0, <2>1, <2>3, <3>1, CheckAnswered
  <2>4. QED
    BY <1>2, <2>2, <2>3 DEF Pr!AnswerKnown
<1>3. CASE \E present \in BOOLEAN : Pr!QueryReturns(c, present)
  <2>0. PICK present \in BOOLEAN : Pr!QueryReturns(c, present)
    BY <1>3
  <2>1. /\ k.pc = "query" /\ Pr!Answered(c, present)
        /\ found' = IF present THEN found \cup {k.who} ELSE found
    BY <2>0 DEF Pr!QueryReturns
  <2>2. found \subseteq found' /\ (present => k.who \in found')
    BY <2>1
  <2>3. CacheInv'
    <3>1. CASE k.type \in Pr!Cached
      BY <2>0, <2>2, <3>1, CacheGrows DEF CheckInv, Pr!QueryReturns
    <3>2. CASE k.type \notin Pr!Cached
      BY <2>0, <2>2, <3>2 DEF CheckInv, CacheInv, Pr!QueryReturns
    <3>3. QED
      BY <3>1, <3>2
  <2>4. QED
    BY <2>1, <2>2, <2>3, CheckAnswered
<1>4. QED
  BY <1>2, <1>3

\* The callers of hasPresence: rejectEvent, and rejectGiftWrapEvent step by step.
LEMMA CallerStep ==
    ASSUME CheckInv, FileInv, up, UNCHANGED <<up, S>>, NEW c \in Checks,
           \/ \E t \in {"transit", "create"}, u \in Users : Pr!Begin(c, t, u)
           \/ \E w \in Wraps : Pr!BeginWrap(c, w)
           \/ Pr!StartQuery(c) \/ Pr!NextRecipient(c) \/ Pr!AskForSender(c)
           \/ Pr!AcceptOpenly(c) \/ Pr!RequireAuth(c)
    PROVE  CheckInv'
<1>0. check[c] \in CheckType
  BY DEF CheckInv
<1>1. CacheInv'
  BY DEF CheckInv, CacheInv, Pr!Begin, Pr!BeginWrap, Pr!StartQuery, Pr!NextRecipient,
     Pr!AskForSender, Pr!AcceptOpenly, Pr!RequireAuth
<1>2. CASE \E t \in {"transit", "create"}, u \in Users : Pr!Begin(c, t, u)
  <2>1. PICK t \in {"transit", "create"}, u \in Users : Pr!Begin(c, t, u)
    BY <1>2
  <2> DEFINE k == [Pr!IdleCheck EXCEPT !.pc = "ask", !.type = t, !.who = u]
  <2>2. k \in CheckType /\ k.pc = "ask" /\ k.type # "wrap" /\ k.last
    BY IdleIsCheck DEF CheckType
  <2>3. Pr!Continue(c, k)
    BY <2>1 DEF Pr!Begin
  <2> HIDE DEF k
  <2>4. QED
    BY <1>1, <2>2, <2>3, CheckMoves
<1>3. CASE \E w \in Wraps : Pr!BeginWrap(c, w)
  <2>1. PICK w \in Wraps : Pr!BeginWrap(c, w)
    BY <1>3
  <2> DEFINE k == [Pr!IdleCheck EXCEPT !.pc = "wrap", !.type = "wrap", !.last = FALSE,
                      !.rest = w.p, !.sender = w.sender, !.open = S.relays["wrap"] = {}]
  <2>2. w.p \in Seq(Users) /\ w.sender \in Users \cup {Nobody}
    BY SettingsAssumption
  <2>3. k \in CheckType /\ k.pc = "wrap" /\ k.type = "wrap" /\ ~k.last
        /\ k.open = (S.relays["wrap"] = {})
    BY <2>2, IdleIsCheck DEF CheckType
  <2>4. Pr!Continue(c, k)
    BY <2>1 DEF Pr!BeginWrap
  <2> HIDE DEF k
  <2>5. QED
    BY <1>1, <2>3, <2>4, CheckMoves
<1>4. CASE Pr!StartQuery(c)
  <2> DEFINE k == [check[c] EXCEPT !.pc = "query"]
  <2>1. k \in CheckType /\ k.pc = "query" /\ check[c].pc = "ask" /\ Pr!Continue(c, k)
        /\ k.type = check[c].type /\ k.last = check[c].last /\ k.who = check[c].who
        /\ k.sender = check[c].sender /\ k.open = check[c].open
    BY <1>0, <1>4 DEF Pr!StartQuery, CheckType
  <2> HIDE DEF k
  <2>2. QED
    BY <1>1, <2>1, CheckMoves DEF CheckInv, StepInv
<1>5. CASE Pr!NextRecipient(c)
  <2> DEFINE k == [check[c] EXCEPT !.pc = "ask", !.who = Head(check[c].rest), !.rest = Tail(@)]
  <2>0. Head(check[c].rest) \in Users /\ Tail(check[c].rest) \in Seq(Users)
    BY <1>0, <1>5 DEF Pr!NextRecipient, CheckType
  <2>1. k \in CheckType /\ k.pc = "ask" /\ check[c].pc = "wrap" /\ Pr!Continue(c, k)
        /\ k.type = check[c].type /\ k.last = check[c].last /\ k.open = check[c].open
    BY <1>0, <1>5, <2>0 DEF Pr!NextRecipient, CheckType
  <2> HIDE DEF k
  <2>2. QED
    BY <1>1, <2>1, CheckMoves DEF CheckInv, StepInv
<1>6. CASE Pr!AskForSender(c)
  <2> DEFINE k == [check[c] EXCEPT !.pc = "ask", !.who = check[c].sender, !.last = TRUE]
  <2>1. k \in CheckType /\ k.pc = "ask" /\ check[c].pc = "wrap" /\ Pr!Continue(c, k)
        /\ k.type = check[c].type /\ k.last /\ k.who = k.sender /\ k.open = check[c].open
    BY <1>0, <1>6 DEF Pr!AskForSender, CheckType
  <2> HIDE DEF k
  <2>2. QED
    BY <1>1, <2>1, CheckMoves DEF CheckInv, StepInv
<1>7. CASE Pr!AcceptOpenly(c)
  <2>1. check[c].pc = "wrap" /\ S.relays["wrap"] = {} /\ Pr!Settle(c, TRUE)
    BY <1>7 DEF Pr!AcceptOpenly
  <2>2. check[c].type = "wrap" => check[c].open
    BY <2>1 DEF CheckInv, StepInv
  <2>3. QED
    BY <1>1, <2>1, <2>2, CheckSettles
<1>8. CASE Pr!RequireAuth(c)
  <2>1. Pr!Settle(c, FALSE)
    BY <1>8 DEF Pr!RequireAuth
  <2>2. QED
    BY <1>1, <2>1, CheckSettles
<1>9. QED
  BY <1>2, <1>3, <1>4, <1>5, <1>6, <1>7, <1>8

\* Settings take effect, at the start or by a form: running checks note it.
LEMMA SettingsChangeStep ==
    ASSUME CheckInv, NEW s \in SettingsType, S' = s, Pr!SettingsChange(s.relays), up'
    PROVE  CheckInv'
<1>1. /\ check' = [c \in Checks |-> IF check[c].pc = "idle" THEN Pr!IdleCheck
                    ELSE [check[c] EXCEPT !.open = @ \/ s.relays["wrap"] = {}]]
      /\ verdict' = Pr!NoVerdict /\ UNCHANGED <<cache, found>>
  BY DEF Pr!SettingsChange
<1>2. CacheInv'
  BY <1>1 DEF CheckInv, CacheInv
<1>3. ASSUME NEW c \in Checks
      PROVE  /\ check'[c] \in CheckType
             /\ check'[c].pc = "wrap" => check'[c].type = "wrap" /\ ~check'[c].last
             /\ check'[c].type = "wrap" /\ check'[c].last /\ check'[c].pc # "idle"
                   => check'[c].who = check'[c].sender
             /\ ~check'[c].last => check'[c].type = "wrap"
             /\ check'[c].type = "wrap" /\ ~check'[c].open /\ check'[c].pc # "idle"
                   => s.relays["wrap"] # {}
  <2>1. CASE check[c].pc = "idle"
    BY <1>1, <2>1, IdleIsCheck
  <2>2. CASE check[c].pc # "idle"
    <3>1. check'[c] = [check[c] EXCEPT !.open = @ \/ s.relays["wrap"] = {}]
      BY <1>1, <2>2
    <3>2. check[c] \in CheckType
      BY DEF CheckInv
    <3>3. /\ check'[c] \in CheckType /\ check'[c].pc = check[c].pc
          /\ check'[c].type = check[c].type /\ check'[c].last = check[c].last
          /\ check'[c].who = check[c].who /\ check'[c].sender = check[c].sender
          /\ s.relays["wrap"] = {} => check'[c].open
      BY <3>1, <3>2 DEF CheckType
    <3>4. QED
      BY <3>3 DEF CheckInv, StepInv
  <2>3. QED
    BY <2>1, <2>2
<1>4. check' \in [Checks -> CheckType]
  BY <1>1, <1>3
<1>5. StepInv'
  BY <1>3 DEF StepInv
<1>6. QED
  BY <1>1, <1>2, <1>4, <1>5, NoVerdictIsRight DEF CheckInv

\* The inductive invariant of the checks holds in every reachable state.
LEMMA CheckInvariant == Spec => []CheckInv
<1>1. ASSUME CheckInv, FileInv, FileInv', [Next]_vars PROVE CheckInv'
  <2>1. CASE CheckPresence
    <3>1. up /\ Pr!Next /\ UNCHANGED <<up, S>>
      BY <2>1 DEF CheckPresence, memVars
    <3>2. ASSUME NEW u \in Users, Pr!ProfileMoves(u) PROVE CheckInv'
      <4>1. UNCHANGED <<cache, check, found>> /\ verdict' = Pr!NoVerdict
        BY <3>2 DEF Pr!ProfileMoves
      <4>2. QED
        BY <1>1, <3>1, <4>1, NoVerdictIsRight DEF CheckInv, CacheInv, StepInv
    <3>3. QED
      BY <1>1, <3>1, <3>2, HasPresenceStep, CallerStep DEF Pr!Next, Pr!Check
  <2>2. CASE Serve
    <3>1. S' = boot.s /\ Pr!SettingsChange(boot.s.relays) /\ up'
      BY <2>2 DEF Serve
    <3>2. QED
      BY <1>1, <3>1, SettingsChangeStep DEF FileInv, SettingsTypeOK
  <2>3. ASSUME NEW p \in Posts, Assign(p) PROVE CheckInv'
    <3>1. S' = post[p].s /\ Pr!SettingsChange(post[p].s.relays) /\ up' = up
          /\ post[p].pc = "assign"
      BY <2>3 DEF Assign
    <3>2. up /\ post[p].s \in SettingsType
      BY <1>1, <3>1 DEF FileInv, SettingsTypeOK, ProcessInv
    <3>3. QED
      BY <1>1, <3>1, <3>2, SettingsChangeStep
  <2>4. CASE Crash
    <3>1. /\ check' = [c \in Checks |-> Pr!IdleCheck] /\ verdict' = Pr!NoVerdict
          /\ cache' = Pr!EmptyCache
      BY <2>4 DEF Crash
    <3>2. CacheInv'
      BY <3>1 DEF CacheInv, Pr!EmptyCache
    <3>3. check' \in [Checks -> CheckType] /\ \A c \in Checks : check'[c] = Pr!IdleCheck
      BY <3>1, IdleIsCheck
    <3>4. StepInv'
      BY <3>3, IdleIsCheck DEF StepInv
    <3>5. QED
      BY <3>1, <3>2, <3>3, <3>4, IdleIsCheck, NoVerdictIsRight DEF CheckInv
  <2>5. ASSUME UNCHANGED <<checkVars, up, S>> PROVE CheckInv'
    BY <1>1, <2>5 DEF CheckInv, CacheInv, StepInv, WrapSendersWereFound,
       Pr!WrapSendersWereFound, checkVars
  <2>6. ASSUME ReadSettings \/ FixSettings \/ OpenAtBoot \/ WriteAtBoot \/ UNCHANGED vars
        PROVE  CheckInv'
    BY <2>5, <2>6 DEF ReadSettings, FixSettings, OpenAtBoot, WriteAtBoot, vars, memVars
  <2>7. ASSUME NEW p \in Posts,
               \/ OpenFile(p) \/ WriteFile(p) \/ ConfigureGroupCreateRateLimit(p)
               \/ ConfigureRelay(p) \/ PublishRelay(p) \/ SetHandler(p) \/ OpenFails(p)
               \/ WriteFails(p) \/ \E f \in Forms : Submit(p, f)
        PROVE  CheckInv'
    BY <2>5, <2>7 DEF OpenFile, WriteFile, ConfigureGroupCreateRateLimit, ConfigureRelay,
       PublishRelay, SetHandler, OpenFails, WriteFails, Submit, memVars
  <2>8. QED
    BY <1>1, <2>1, <2>2, <2>3, <2>4, <2>6, <2>7 DEF Next, Handle
<1>2. QED
  BY <1>1, CheckInit, FileInvariant, PTL DEF Spec

-----------------------------------------------------------------------------
(* The theorems *)

\* settings.go: every process that serves has the key of the first one, whatever
\* is saved, torn, overwritten or interrupted.
THEOREM OneKeyForGood == Spec => []KeyIsKept
<1>1. FileInv => KeyIsKept
  BY DEF FileInv, KeyInv
<1>2. QED
  BY <1>1, FileInvariant, PTL

\* settings.go, relay.go: requests handled one after the other leave the file,
\* S and everything built from S with the same settings.
THEOREM EverythingAgrees == Spec => []SettingsAgree
<1>1. FileInv => SettingsAgree
  BY DEF FileInv
<1>2. QED
  BY <1>1, FileInvariant, PTL

\* settings.go: acknowledged settings are in force, after any number of restarts.
THEOREM AcknowledgedStays == Spec => []AcknowledgedSurvives
<1>1. FileInv => AcknowledgedSurvives
  BY DEF FileInv, OrderlyInv, AckInv, AcknowledgedSurvives, Settled
<1>2. QED
  BY <1>1, FileInvariant, PTL

\* giftwrap.go: a gift wrap accepted while there were presence relays throughout
\* has a sender whom a query found.
THEOREM SendersWereFound == Spec => []WrapSendersWereFound
<1>1. CheckInv => WrapSendersWereFound
  BY DEF CheckInv
<1>2. QED
  BY <1>1, CheckInvariant, PTL
=============================================================================
