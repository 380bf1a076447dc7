------------------------- MODULE GuestPrepareProofs -------------------------
(***************************************************************************)
(* Theorems about GuestPrepare, for any number of frridge-mp commands at   *)
(* once, any host directories and any contents of the checkout.            *)
(***************************************************************************)
EXTENDS GuestPrepare, TLAPS

Named   == {"stat", "gobuild", "install", "mkdir", "look", "mount", "bootstrap", "packages",
            "image", "transfer", "writing", "chmod", "mv", "run"}
Stored  == Named \ {"stat", "gobuild", "install", "run"}
AtWork  == {"bootstrap", "packages", "image", "transfer", "writing", "chmod", "mv", "run"}

File(id, whole, exec) == [built |-> id, whole |-> whole, exec |-> exec]

\* A process that mounts has looked, and what was there then still is; it has
\* both directories before it, or its own only.
MountsOK(s, there) ==
    /\ \A d \in Dir : s.seen[d] # None => there[d] = s.seen[d]
    /\ \/ s.left = ToMount(s.dir)
       \/ s.left = <<s.dir>> /\ s.dir # Repo /\ there[Repo] = Repo

\* What a process holds, of the checkout, the host's cache, the guest's mounts
\* and files.
HandOK(p, s, checkout, kept, there, stored) ==
    /\ s \in Process
    /\ s.id # None => s.id = checkout
    /\ s.pc = "idle" => s.id = None
    /\ s.pc \in Named => s.id # None
    /\ s.pc = "install" => s.built = s.id
    /\ s.pc \in Stored => kept[s.id] = s.id
    /\ s.pc = "mount" => MountsOK(s, there)
    /\ s.pc \in AtWork => there[Repo] = Repo /\ there[s.dir] = s.dir
    /\ s.pc = "writing" => stored[<<s.id, p>>] = File(s.id, FALSE, FALSE)
    /\ s.pc = "chmod" => stored[<<s.id, p>>] = File(s.id, TRUE, FALSE)
    /\ s.pc = "mv" => stored[<<s.id, p>>] = File(s.id, TRUE, TRUE)
    /\ s.pc = "run" => stored[<<s.id, "frridge">>] = File(s.id, TRUE, TRUE)

HandsOK ==
    /\ proc = [p \in Procs |-> proc[p]]
    /\ \A p \in Procs : HandOK(p, proc[p], sources, cache, mounts, files)

\* The host's cache keeps under a digest what was built from those sources.
CacheOK == cache \in [Source -> Source \cup {None}] /\ \A s \in Source : cache[s] \in {s, None}

WorldOK ==
    /\ sources \in Source
    /\ vm \in {"absent", "starting", "running", "stopped"}
    /\ apt \in Procs \cup {"guest", None}
    /\ mounts \in [Dir -> Dir \cup {None}] /\ dirs \in SUBSET Source
    /\ files \in [Path -> Binary \cup {None}]
    /\ acts \in Nat /\ faults \in Nat

Packaging == {"missing", "interrupted", "installed"}
FlagsOK == packages \in Packaging /\ served \in BOOLEAN
AptOK == \A p \in Procs : apt = p => At(p, "packages")

\* The inductive invariant.
GuestInv == WorldOK /\ FlagsOK /\ CacheOK /\ AptOK /\ HandsOK

-----------------------------------------------------------------------------
(* Steps of one process, and what they leave of the others.                *)

LEMMA ToMountFacts ==
  ASSUME NEW dir \in Dir
  PROVE  /\ dir = Repo => ToMount(dir) = <<Repo>>
         /\ dir # Repo => ToMount(dir) = <<Repo, dir>>
         /\ ToMount(dir) \in Seq(Dir) /\ Repo \in Dir
  BY RepoAssumption DEF ToMount

LEMMA IdleOK ==
  ASSUME NEW p, NEW checkout, NEW kept, NEW there, NEW stored
  PROVE  HandOK(p, Idle, checkout, kept, there, stored)
  <1>1. NoMounts \in [Dir -> Dir \cup {None}] BY DEF NoMounts
  <1>2. <<>> \in Seq(Dir) OBVIOUS
  <1>3. Idle \in Process BY <1>1, <1>2, RepoAssumption DEF Idle, Process, Steps
  <1>4. Idle.pc = "idle" /\ Idle.id = None BY DEF Idle
  <1> HIDE DEF Idle
  <1> QED BY <1>3, <1>4 DEF HandOK, Named, Stored, AtWork

\* What a process holds it keeps while nobody unmounts, empties the cache,
\* touches its staged file or installs another binary.
LEMMA HandStays ==
  ASSUME sources \in Source, NEW q, NEW s,
         HandOK(q, s, sources, cache, mounts, files),
         cache[sources] = sources => cache'[sources] = sources,
         \A d \in Dir : mounts[d] # None => mounts'[d] = mounts[d],
         files'[<<sources, q>>] = files[<<sources, q>>],
         files[<<sources, "frridge">>] = File(sources, TRUE, TRUE) =>
           files'[<<sources, "frridge">>] = File(sources, TRUE, TRUE)
  PROVE  HandOK(q, s, sources, cache', mounts', files')
  <1>1. s \in Process /\ s.dir \in Dir /\ Repo \in Dir /\ None \notin Dir
    BY RepoAssumption, NoneAssumption DEF HandOK, Process
  <1>2. s.pc \in Named => s.id = sources BY DEF HandOK
  <1>3. s.pc \in Stored => cache'[s.id] = s.id BY <1>2 DEF HandOK, Stored
  <1>4. s.pc = "mount" => MountsOK(s, mounts')
    <2> SUFFICES ASSUME s.pc = "mount" PROVE MountsOK(s, mounts') OBVIOUS
    <2>1. MountsOK(s, mounts) BY DEF HandOK
    <2> QED BY <1>1, <2>1 DEF MountsOK
  <1>5. s.pc \in AtWork => mounts'[Repo] = Repo /\ mounts'[s.dir] = s.dir
    BY <1>1 DEF HandOK
  <1>6. /\ s.pc = "writing" => files'[<<s.id, q>>] = File(s.id, FALSE, FALSE)
        /\ s.pc = "chmod" => files'[<<s.id, q>>] = File(s.id, TRUE, FALSE)
        /\ s.pc = "mv" => files'[<<s.id, q>>] = File(s.id, TRUE, TRUE)
        /\ s.pc = "run" => files'[<<s.id, "frridge">>] = File(s.id, TRUE, TRUE)
    BY <1>2 DEF HandOK, Named
  <1> QED BY <1>3, <1>4, <1>5, <1>6 DEF HandOK

LEMMA OwnHand ==
  ASSUME GuestInv, NEW p \in Procs
  PROVE  /\ HandOK(p, proc[p], sources, cache, mounts, files)
         /\ proc[p] \in Process
  BY DEF GuestInv, HandsOK, HandOK

LEMMA BecomeFacts ==
  ASSUME HandsOK, NEW p \in Procs, NEW s, Become(p, s)
  PROVE  /\ proc' = [q \in Procs |-> proc'[q]]
         /\ proc'[p] = s
         /\ \A q \in Procs : q # p => proc'[q] = proc[q]
  <1>1. proc' = [proc EXCEPT ![p] = s] BY DEF Become
  <1>2. proc' = [q \in Procs |-> IF q = p THEN s ELSE proc[q]] BY <1>1 DEF HandsOK
  <1> QED BY <1>2

\* One process changes its state, and possibly the cache, the mounts and files.
LEMMA StepHands ==
  ASSUME HandsOK, sources \in Source, sources' = sources,
         NEW p \in Procs, NEW s, Become(p, s),
         HandOK(p, s, sources, cache', mounts', files'),
         cache[sources] = sources => cache'[sources] = sources,
         \A d \in Dir : mounts[d] # None => mounts'[d] = mounts[d],
         \A q \in Procs : q # p => files'[<<sources, q>>] = files[<<sources, q>>],
         files[<<sources, "frridge">>] = File(sources, TRUE, TRUE) =>
           files'[<<sources, "frridge">>] = File(sources, TRUE, TRUE)
  PROVE  HandsOK'
  <1>1. ASSUME NEW q \in Procs PROVE HandOK(q, proc'[q], sources', cache', mounts', files')
    <2>1. CASE q = p BY <2>1, BecomeFacts
    <2>2. CASE q # p
      <3>1. HandOK(q, proc[q], sources, cache, mounts, files) BY DEF HandsOK
      <3>2. files'[<<sources, q>>] = files[<<sources, q>>] BY <2>2
      <3>3. HandOK(q, proc[q], sources, cache', mounts', files')
        BY <3>1, <3>2, HandStays
      <3> QED BY <2>2, <3>3, BecomeFacts
    <2> QED BY <2>1, <2>2
  <1>2. proc' = [q \in Procs |-> proc'[q]] BY BecomeFacts
  <1> QED BY <1>1, <1>2 DEF HandsOK

\* It installs packages from "packages" on, until it leaves that step.
LEMMA AptStep ==
  ASSUME HandsOK, AptOK, NEW p \in Procs, NEW s, Become(p, s),
         apt' = p => s.pc = "packages",
         \A q \in Procs : q # p /\ apt' = q => apt = q
  PROVE  AptOK'
  BY BecomeFacts DEF AptOK, At

\* A step of one process that changes nothing but its own state, the instance
\* and directories.
LEMMA OwnStep ==
  ASSUME GuestInv, NEW p \in Procs, NEW s, Become(p, s),
         HandOK(p, s, sources, cache, mounts, files),
         UNCHANGED <<sources, cache, mounts, files>>,
         apt' \in Procs \cup {"guest", None}, apt' = p => s.pc = "packages",
         \A q \in Procs : q # p /\ apt' = q => apt = q,
         vm' \in {"absent", "starting", "running", "stopped"}, packages' \in Packaging,
         served' \in BOOLEAN, dirs' \in SUBSET Source,
         acts' \in Nat, faults' \in Nat
  PROVE  GuestInv'
  <1>1. HandsOK' BY StepHands DEF GuestInv, WorldOK
  <1>2. AptOK' BY AptStep DEF GuestInv
  <1>3. WorldOK' BY DEF GuestInv, WorldOK
  <1>4. FlagsOK' /\ CacheOK' BY DEF GuestInv, FlagsOK, CacheOK
  <1> QED BY <1>1, <1>2, <1>3, <1>4 DEF GuestInv

LEMMA FaultCounts == ASSUME GuestInv, UNCHANGED faults \/ Fault PROVE faults' \in Nat
  BY DEF GuestInv, WorldOK, Fault

\* A step that leaves all but the process's own state.
LEMMA QuietBecome ==
  ASSUME GuestInv, NEW p \in Procs, NEW s, Become(p, s), ~At(p, "packages"),
         HandOK(p, s, sources, cache, mounts, files),
         UNCHANGED <<sources, cache, instance, guest, served, acts>>,
         UNCHANGED faults \/ Fault
  PROVE  GuestInv'
  <1>1. faults' \in Nat BY FaultCounts
  <1>2. /\ apt' = apt /\ apt # p /\ apt \in Procs \cup {"guest", None}
        /\ vm' \in {"absent", "starting", "running", "stopped"}
        /\ dirs' \in SUBSET Source /\ acts' \in Nat
        /\ UNCHANGED <<sources, cache, mounts, files>>
    BY DEF GuestInv, WorldOK, AptOK, instance, guest
  <1>3. packages' \in Packaging /\ served' \in BOOLEAN BY DEF GuestInv, FlagsOK, instance
  <1> QED BY <1>1, <1>2, <1>3, OwnStep

LEMMA QuietGoto ==
  ASSUME GuestInv, NEW p \in Procs, NEW step, Goto(p, step), ~At(p, "packages"),
         HandOK(p, [proc[p] EXCEPT !.pc = step], sources, cache, mounts, files),
         UNCHANGED <<sources, cache, instance, guest, served, acts>>,
         UNCHANGED faults \/ Fault
  PROVE  GuestInv'
  BY QuietBecome DEF Goto

LEMMA QuietFailure ==
  ASSUME GuestInv, NEW p \in Procs, Fail(p), ~At(p, "packages"),
         UNCHANGED <<sources, cache, instance, guest, served, acts>>,
         UNCHANGED faults \/ Fault
  PROVE  GuestInv'
  BY QuietBecome, IdleOK DEF Fail

\* Before it has a digest, a process holds nothing; the same while it waits.
Early == {"info", "launch", "launching", "again", "start", "uname", "digest"}

LEMMA EarlyHand ==
  ASSUME GuestInv, NEW p \in Procs, NEW step \in Early
  PROVE  HandOK(p, [proc[p] EXCEPT !.pc = step], sources, cache, mounts, files)
  <1> DEFINE s == [proc[p] EXCEPT !.pc = step]
  <1>1. /\ s \in Process /\ s.pc = step /\ s.id = proc[p].id
    BY OwnHand DEF Process, Steps, Early
  <1>2. s.id # None => s.id = sources BY <1>1, OwnHand DEF HandOK
  <1> HIDE DEF s
  <1>3. HandOK(p, s, sources, cache, mounts, files)
    BY <1>1, <1>2 DEF HandOK, Early, Named, Stored, AtWork
  <1> QED BY <1>3 DEF s

-----------------------------------------------------------------------------
(* The surroundings.                                                       *)

LEMMA BeginInv ==
  ASSUME GuestInv, NEW p \in Procs, NEW dir \in Dir, NEW image \in BOOLEAN, Begin(p, dir, image)
  PROVE  GuestInv'
  <1> DEFINE s == [Idle EXCEPT !.pc = "info", !.dir = dir, !.image = image]
  <1>1. Idle \in Process BY IdleOK DEF HandOK
  <1>2. s \in Process /\ s.pc = "info" BY <1>1 DEF Process, Steps
  <1>3. s.id = None BY DEF Idle
  <1>4. Become(p, s) BY DEF Begin
  <1> HIDE DEF s
  <1>5. HandOK(p, s, sources, cache, mounts, files)
    BY <1>2, <1>3 DEF HandOK, Named, Stored, AtWork
  <1>6. /\ apt' = apt /\ apt \in Procs \cup {"guest", None} /\ apt # p
        /\ vm' \in {"absent", "starting", "running", "stopped"} /\ dirs' \in SUBSET Source
        /\ acts' \in Nat /\ faults' \in Nat
        /\ UNCHANGED <<sources, cache, mounts, files>>
    BY DEF Begin, GuestInv, WorldOK, AptOK, At, instance, guest
  <1>7. packages' \in Packaging /\ served' \in BOOLEAN
    BY DEF Begin, GuestInv, FlagsOK, instance
  <1> QED BY <1>4, <1>5, <1>6, <1>7, OwnStep

\* Nobody at work, nobody loses anything.
LEMMA QuiescentHands ==
  ASSUME HandsOK, Quiescent, proc' = proc PROVE HandsOK'
  <1>1. ASSUME NEW q \in Procs
        PROVE  HandOK(q, proc'[q], sources', cache', mounts', files')
    <2>1. proc[q] \in Process /\ proc[q].pc = "idle" /\ proc[q].id = None
      BY DEF HandsOK, HandOK, Quiescent, At
    <2> QED BY <2>1 DEF HandOK, Named, Stored, AtWork
  <1> QED BY <1>1 DEF HandsOK

LEMMA UserActsInv == ASSUME GuestInv, UserActs PROVE GuestInv'
  <1>1. cache' = cache /\ proc' = proc /\ served' = served /\ faults' = faults
        /\ acts' \in Nat
    BY DEF UserActs, GuestInv, WorldOK
  <1>2. CacheOK' BY <1>1 DEF GuestInv, CacheOK
  <1>3. CASE Quiescent
    <2>1. HandsOK' BY <1>1, <1>3, QuiescentHands DEF GuestInv
    <2>2. sources' \in Source /\ vm' \in {"absent", "starting", "running", "stopped"}
          /\ apt' \in {apt, None} /\ dirs' \in SUBSET Source
      BY DEF UserActs, GuestInv, WorldOK, instance, guest
    <2>3. mounts' \in [Dir -> Dir \cup {None}]
      BY DEF UserActs, GuestInv, WorldOK, guest, NoMounts
    <2>4. files' \in [Path -> Binary \cup {None}]
      BY DEF UserActs, GuestInv, WorldOK, guest
    <2>5. WorldOK' BY <1>1, <2>2, <2>3, <2>4 DEF GuestInv, WorldOK
    <2>6. packages' \in Packaging
      BY DEF UserActs, GuestInv, FlagsOK, instance, Packaging, Unfinished
    <2>7. FlagsOK' BY <1>1, <2>6 DEF GuestInv, FlagsOK
    <2>8. AptOK' BY <1>1, <2>2, NoneAssumption DEF GuestInv, AptOK, At
    <2> QED BY <1>2, <2>1, <2>5, <2>7, <2>8 DEF GuestInv
  <1>4. CASE ~Quiescent
    <2>1. PICK d \in Dir :
            mounts[d] = None /\ \E other \in Dir : mounts' = [mounts EXCEPT ![d] = other]
      BY <1>4 DEF UserActs
    <2>2. UNCHANGED <<sources, instance, dirs, files>> BY <1>4 DEF UserActs
    <2>3. mounts' \in [Dir -> Dir \cup {None}] BY <2>1 DEF GuestInv, WorldOK
    <2>4. \A e \in Dir : mounts[e] # None => mounts'[e] = mounts[e]
      BY <2>1 DEF GuestInv, WorldOK
    <2>5. ASSUME NEW q \in Procs
          PROVE  HandOK(q, proc'[q], sources', cache', mounts', files')
      <3>1. HandOK(q, proc[q], sources, cache, mounts, files) BY DEF GuestInv, HandsOK
      <3>2. HandOK(q, proc[q], sources, cache', mounts', files')
        BY <1>1, <2>2, <2>4, <3>1, HandStays DEF GuestInv, WorldOK
      <3> QED BY <1>1, <2>2, <3>2
    <2>6. HandsOK' BY <1>1, <2>5 DEF GuestInv, HandsOK
    <2>7. WorldOK' BY <1>1, <2>2, <2>3 DEF GuestInv, WorldOK, instance
    <2>8. FlagsOK' BY <1>1, <2>2 DEF GuestInv, FlagsOK, instance
    <2>9. AptOK' BY <1>1, <2>2 DEF GuestInv, AptOK, At, instance
    <2> QED BY <1>2, <2>6, <2>7, <2>8, <2>9 DEF GuestInv
  <1> QED BY <1>3, <1>4

LEMMA KillInv == ASSUME GuestInv, NEW p \in Procs, Kill(p) PROVE GuestInv'
  <1>1. /\ apt' \in Procs \cup {"guest", None} /\ apt' # p
        /\ \A q \in Procs : apt' = q => apt = q
    BY ProcAssumption, NoneAssumption DEF Kill, GuestInv, WorldOK
  <1>2. HandOK(p, Idle, sources, cache, mounts, files) /\ Become(p, Idle)
    BY IdleOK DEF Kill, CallFails, Fail
  <1>3. faults' \in Nat BY FaultCounts DEF Kill, CallFails
  <1>4. /\ vm' \in {"absent", "starting", "running", "stopped"} /\ dirs' \in SUBSET Source
        /\ acts' \in Nat /\ UNCHANGED <<sources, cache, mounts, files>>
    BY DEF Kill, GuestInv, WorldOK, guest
  <1>5. packages' \in Packaging /\ served' \in BOOLEAN
    BY DEF Kill, GuestInv, FlagsOK, Packaging, Unfinished
  <1> QED BY <1>1, <1>2, <1>3, <1>4, <1>5, OwnStep

LEMMA GuestInstallsInv == ASSUME GuestInv, GuestInstalls PROVE GuestInv'
  <1>1. proc' = proc /\ UNCHANGED <<sources, cache, guest, served, acts>>
        /\ apt' = None /\ packages' \in Packaging /\ faults' \in Nat
        /\ vm' \in {"absent", "starting", "running", "stopped"}
    BY FaultCounts DEF GuestInstalls, GuestInv, WorldOK, Packaging, Unfinished
  <1>2. WorldOK' BY <1>1 DEF GuestInv, WorldOK, guest
  <1>3. FlagsOK' BY <1>1 DEF GuestInv, FlagsOK
  <1>4. CacheOK' /\ HandsOK' BY <1>1 DEF GuestInv, CacheOK, HandsOK, guest
  <1>5. AptOK' BY <1>1, NoneAssumption DEF AptOK
  <1> QED BY <1>2, <1>3, <1>4, <1>5 DEF GuestInv

-----------------------------------------------------------------------------
(* ensureInstance and guestBuild.                                          *)

LEMMA InfoInv == ASSUME GuestInv, NEW p \in Procs, Info(p) PROVE GuestInv'
  <1>1. ~At(p, "packages") BY DEF Info, At
  <1>2. ASSUME NEW step \in Early, Goto(p, step), UNCHANGED faults PROVE GuestInv'
    BY <1>1, <1>2, EarlyHand, QuietGoto DEF Info
  <1>3. CASE Fail(p) /\ (UNCHANGED faults \/ Fault) BY <1>1, <1>3, QuietFailure DEF Info
  <1> QED BY <1>2, <1>3 DEF Info, CallFails, Early

\* The instance changes under a step to another early one, or a failure.
LEMMA InstanceStep ==
  ASSUME GuestInv, NEW p \in Procs, ~At(p, "packages"),
         Fail(p) \/ \E step \in Early : Goto(p, step),
         UNCHANGED <<sources, cache, guest, served, acts>>, UNCHANGED faults \/ Fault,
         vm' \in {"absent", "starting", "running", "stopped"}, packages' \in Packaging,
         apt' \in {apt, "guest", None}
  PROVE  GuestInv'
  <1>1. PICK s : Become(p, s) /\ HandOK(p, s, sources, cache, mounts, files)
    BY IdleOK, EarlyHand DEF Fail, Goto
  <1>2. /\ apt' \in Procs \cup {"guest", None} /\ apt' # p
        /\ \A q \in Procs : apt' = q => apt = q
    BY ProcAssumption, NoneAssumption DEF GuestInv, WorldOK, AptOK
  <1>3. faults' \in Nat BY FaultCounts
  <1>4. /\ dirs' \in SUBSET Source /\ acts' \in Nat /\ served' \in BOOLEAN
        /\ UNCHANGED <<sources, cache, mounts, files>>
    BY DEF GuestInv, WorldOK, FlagsOK, guest
  <1> QED BY <1>1, <1>2, <1>3, <1>4, OwnStep

LEMMA LaunchInv == ASSUME GuestInv, NEW p \in Procs, Launch(p) PROVE GuestInv'
  <1>1. ~At(p, "packages") BY DEF Launch, At
  <1>2. /\ vm' \in {"absent", "starting", "running", "stopped"}
        /\ apt' \in {apt, "guest", None}
    BY DEF Launch, GuestInv, WorldOK, instance
  <1>3. packages' \in Packaging BY DEF Launch, GuestInv, FlagsOK, instance, Packaging
  <1> QED BY <1>1, <1>2, <1>3, InstanceStep DEF Launch, CallFails, Early

LEMMA LaunchEndsInv == ASSUME GuestInv, NEW p \in Procs, LaunchEnds(p) PROVE GuestInv'
  <1>1. ~At(p, "packages") BY DEF LaunchEnds, At
  <1>2. /\ vm' \in {"absent", "starting", "running", "stopped"}
        /\ apt' \in {apt, "guest", None}
    BY DEF LaunchEnds, GuestInv, WorldOK, instance
  <1>3. packages' \in Packaging BY DEF LaunchEnds, GuestInv, FlagsOK, instance, Packaging
  <1> QED BY <1>1, <1>2, <1>3, InstanceStep DEF LaunchEnds, CallFails, Early

LEMMA StartInv == ASSUME GuestInv, NEW p \in Procs, Start(p) PROVE GuestInv'
  <1>1. ~At(p, "packages") BY DEF Start, At
  <1>2. /\ vm' \in {"absent", "starting", "running", "stopped"}
        /\ apt' \in {apt, "guest", None}
    BY DEF Start, GuestInv, WorldOK
  <1>3. packages' \in Packaging BY DEF Start, GuestInv, FlagsOK
  <1> QED BY <1>1, <1>2, <1>3, InstanceStep DEF Start, CallFails, Early

LEMMA UnameInv == ASSUME GuestInv, NEW p \in Procs, Uname(p) PROVE GuestInv'
  <1>1. ~At(p, "packages") BY DEF Uname, Pass, At
  <1>2. CASE Goto(p, "digest") /\ UNCHANGED faults
    BY <1>1, <1>2, EarlyHand, QuietGoto DEF Uname, Pass, Early
  <1>3. CASE CallFails(p) BY <1>1, <1>3, QuietFailure DEF Uname, Pass, CallFails
  <1> QED BY <1>2, <1>3 DEF Uname, Pass

\* From here on a process holds the digest of the checkout, which stays as it is.
LEMMA DigestInv == ASSUME GuestInv, NEW p \in Procs, Digest(p) PROVE GuestInv'
  <1>1. ~At(p, "packages") BY DEF Digest, At
  <1>2. CASE Become(p, [proc[p] EXCEPT !.pc = "stat", !.id = sources]) /\ UNCHANGED faults
    <2> DEFINE s == [proc[p] EXCEPT !.pc = "stat", !.id = sources]
    <2>1. sources \in Source /\ sources # None
      BY NoneAssumption DEF GuestInv, WorldOK
    <2>2. s \in Process /\ s.pc = "stat" /\ s.id = sources
      BY <2>1, OwnHand DEF Process, Steps
    <2>3. Become(p, s) BY <1>2
    <2> HIDE DEF s
    <2>4. HandOK(p, s, sources, cache, mounts, files)
      BY <2>1, <2>2 DEF HandOK, Named, Stored, AtWork
    <2> QED BY <1>1, <1>2, <2>3, <2>4, QuietBecome DEF Digest
  <1>3. CASE CallFails(p) BY <1>1, <1>3, QuietFailure DEF Digest, CallFails
  <1> QED BY <1>2, <1>3 DEF Digest

LEMMA StatCachedInv == ASSUME GuestInv, NEW p \in Procs, StatCached(p) PROVE GuestInv'
  <1>1. ~At(p, "packages") /\ proc[p].pc = "stat" BY DEF StatCached, At
  <1>2. proc[p].id \in Source /\ proc[p].id # None /\ proc[p].id = sources
    BY <1>1, OwnHand DEF HandOK, Process, Named
  <1>3. CASE cache[proc[p].id] # None /\ Goto(p, "mkdir") /\ UNCHANGED faults
    <2>1. cache[proc[p].id] = proc[p].id BY <1>2, <1>3 DEF GuestInv, CacheOK
    <2>2. HandOK(p, [proc[p] EXCEPT !.pc = "mkdir"], sources, cache, mounts, files)
      BY <1>2, <2>1, OwnHand DEF HandOK, Process, Steps, AtWork
    <2> QED BY <1>1, <1>3, <2>2, QuietGoto DEF StatCached
  <1>4. CASE Goto(p, "gobuild") /\ UNCHANGED faults
    <2>1. HandOK(p, [proc[p] EXCEPT !.pc = "gobuild"], sources, cache, mounts, files)
      BY <1>2, OwnHand, ZenonT(60) DEF HandOK, Process, Steps, Stored, AtWork
    <2> QED BY <1>1, <1>4, <2>1, QuietGoto DEF StatCached
  <1>5. CASE CallFails(p) BY <1>1, <1>5, QuietFailure DEF StatCached, CallFails
  <1> QED BY <1>3, <1>4, <1>5 DEF StatCached

LEMMA GoBuildInv == ASSUME GuestInv, NEW p \in Procs, GoBuild(p) PROVE GuestInv'
  <1>1. ~At(p, "packages") /\ proc[p].pc = "gobuild" BY DEF GoBuild, At
  <1>2. proc[p].id \in Source /\ proc[p].id # None /\ proc[p].id = sources
    BY <1>1, OwnHand DEF HandOK, Process, Named
  <1>3. CASE Become(p, [proc[p] EXCEPT !.pc = "install", !.built = sources]) /\ UNCHANGED faults
    <2> DEFINE s == [proc[p] EXCEPT !.pc = "install", !.built = sources]
    <2>1. s \in Process /\ s.pc = "install" /\ s.id = proc[p].id /\ s.built = sources
      BY <1>2, OwnHand DEF Process, Steps
    <2>2. Become(p, s) BY <1>3
    <2> HIDE DEF s
    <2>3. HandOK(p, s, sources, cache, mounts, files)
      BY <1>2, <2>1 DEF HandOK, Stored, AtWork
    <2> QED BY <1>1, <1>3, <2>2, <2>3, QuietBecome DEF GoBuild
  <1>4. CASE CallFails(p) BY <1>1, <1>4, QuietFailure DEF GoBuild, CallFails
  <1> QED BY <1>3, <1>4 DEF GoBuild

\* A process at work on the guest holds the digest, and a binary of it cached.
LEMMA WorkingFacts ==
  ASSUME GuestInv, NEW p \in Procs, proc[p].pc \in Named
  PROVE  /\ proc[p].id = sources /\ proc[p].id \in Source /\ proc[p].dir \in Dir
         /\ proc[p].pc \in Stored => cache[proc[p].id] = proc[p].id
  BY OwnHand DEF HandOK, Process, Named

\* A step that changes files, the mounts or the cache as others may see it.
LEMMA SharedStep ==
  ASSUME GuestInv, NEW p \in Procs, NEW s, Become(p, s), ~At(p, "packages"),
         HandOK(p, s, sources, cache', mounts', files'), CacheOK',
         mounts' \in [Dir -> Dir \cup {None}], dirs' \in SUBSET Source,
         files' \in [Path -> Binary \cup {None}],
         UNCHANGED <<sources, instance, served, acts>>, UNCHANGED faults \/ Fault,
         cache[sources] = sources => cache'[sources] = sources,
         \A d \in Dir : mounts[d] # None => mounts'[d] = mounts[d],
         \A q \in Procs : q # p => files'[<<sources, q>>] = files[<<sources, q>>],
         files[<<sources, "frridge">>] = File(sources, TRUE, TRUE) =>
           files'[<<sources, "frridge">>] = File(sources, TRUE, TRUE)
  PROVE  GuestInv'
  <1>1. HandsOK' BY StepHands DEF GuestInv, WorldOK
  <1>2. apt' = apt /\ apt # p BY DEF GuestInv, AptOK, instance
  <1>3. AptOK' BY <1>2, AptStep DEF GuestInv
  <1>4. faults' \in Nat BY FaultCounts
  <1>5. WorldOK' BY <1>4 DEF GuestInv, WorldOK, instance
  <1>6. FlagsOK' BY DEF GuestInv, FlagsOK, instance
  <1> QED BY <1>1, <1>3, <1>5, <1>6 DEF GuestInv

\* The cache takes a binary under the digest of the sources it was built from.
LEMMA InstallBuildInv == ASSUME GuestInv, NEW p \in Procs, InstallBuild(p) PROVE GuestInv'
  <1>1. ~At(p, "packages") /\ proc[p].pc = "install" BY DEF InstallBuild, At
  <1>2. proc[p].id = sources /\ proc[p].id \in Source BY <1>1, WorkingFacts DEF Named
  <1>3. proc[p].built = sources BY <1>1, <1>2, OwnHand DEF HandOK
  <1>4. cache' \in {cache, [cache EXCEPT ![proc[p].id] = proc[p].built]}
        /\ UNCHANGED <<sources, instance, mounts, dirs, files, served, acts>>
        /\ (UNCHANGED faults \/ Fault)
    BY DEF InstallBuild, CallFails, guest
  <1>5. CacheOK' BY <1>2, <1>3, <1>4 DEF GuestInv, CacheOK
  <1>6. cache[sources] = sources => cache'[sources] = sources
    BY <1>2, <1>3, <1>4 DEF GuestInv, CacheOK
  <1>7. /\ mounts' \in [Dir -> Dir \cup {None}] /\ dirs' \in SUBSET Source
        /\ files' \in [Path -> Binary \cup {None}]
    BY <1>4 DEF GuestInv, WorldOK
  <1>8. CASE Fail(p)
    <2>1. HandOK(p, Idle, sources, cache', mounts', files') BY IdleOK
    <2> QED BY <1>1, <1>4, <1>5, <1>6, <1>7, <1>8, <2>1, SharedStep DEF Fail
  <1>9. CASE cache' = [cache EXCEPT ![proc[p].id] = proc[p].built] /\ Goto(p, "mkdir")
    <2> DEFINE s == [proc[p] EXCEPT !.pc = "mkdir"]
    <2>1. s \in Process /\ s.pc = "mkdir" /\ s.id = sources /\ s.id # None
      BY <1>2, OwnHand, NoneAssumption DEF Process, Steps
    <2>2. cache'[sources] = sources BY <1>2, <1>3, <1>9 DEF GuestInv, CacheOK
    <2>3. Become(p, s) BY <1>9 DEF Goto
    <2> HIDE DEF s
    <2>4. HandOK(p, s, sources, cache', mounts', files')
      BY <2>1, <2>2 DEF HandOK, AtWork
    <2> QED BY <1>1, <1>4, <1>5, <1>6, <1>7, <2>3, <2>4, SharedStep
  <1> QED BY <1>8, <1>9 DEF InstallBuild, CallFails

-----------------------------------------------------------------------------
(* The guest's directories, mounts and packages.                           *)

\* Directories appear; nothing else does.
LEMMA MakeDirsInv == ASSUME GuestInv, NEW p \in Procs, MakeDirs(p) PROVE GuestInv'
  <1>1. proc[p].pc = "mkdir" /\ ~At(p, "packages") BY DEF MakeDirs, At
  <1>2. proc[p].id \in Source BY <1>1, WorkingFacts DEF Named
  <1>3. HandOK(p, [proc[p] EXCEPT !.pc = "look"], sources, cache, mounts, files)
    BY <1>1, OwnHand, ZenonT(60) DEF HandOK, Process, Steps, Named, Stored, AtWork
  <1>4. PICK s : Become(p, s) /\ HandOK(p, s, sources, cache, mounts, files)
    BY <1>3, IdleOK DEF MakeDirs, CallFails, Fail, Goto
  <1>5. dirs' \in SUBSET Source BY <1>2 DEF MakeDirs, GuestInv, WorldOK
  <1>6. faults' \in Nat BY FaultCounts DEF MakeDirs, CallFails
  <1>7. /\ apt' = apt /\ apt # p /\ apt \in Procs \cup {"guest", None}
        /\ vm' \in {"absent", "starting", "running", "stopped"} /\ acts' \in Nat
        /\ UNCHANGED <<sources, cache, mounts, files>>
    BY <1>1 DEF MakeDirs, GuestInv, WorldOK, AptOK, instance
  <1>8. packages' \in Packaging /\ served' \in BOOLEAN
    BY DEF MakeDirs, GuestInv, FlagsOK, instance
  <1> QED BY <1>4, <1>5, <1>6, <1>7, <1>8, OwnStep

LEMMA LookInv == ASSUME GuestInv, NEW p \in Procs, Look(p) PROVE GuestInv'
  <1>1. proc[p].pc = "look" /\ ~At(p, "packages") BY DEF Look, At
  <1>2. CASE /\ Become(p, [proc[p] EXCEPT !.pc = "mount", !.seen = mounts,
                                          !.left = ToMount(proc[p].dir)])
             /\ UNCHANGED faults
    <2> DEFINE s == [proc[p] EXCEPT !.pc = "mount", !.seen = mounts,
                                    !.left = ToMount(proc[p].dir)]
    <2>1. mounts \in [Dir -> Dir \cup {None}] BY DEF GuestInv, WorldOK
    <2>2. proc[p].dir \in Dir BY <1>1, WorkingFacts DEF Named
    <2>3. ToMount(proc[p].dir) \in Seq(Dir) BY <2>2, ToMountFacts
    <2>4. /\ s \in Process /\ s.pc = "mount" /\ s.id = proc[p].id /\ s.dir = proc[p].dir
          /\ s.seen = mounts /\ s.left = ToMount(s.dir)
      BY <2>1, <2>3, OwnHand DEF Process, Steps
    <2>5. Become(p, s) BY <1>2
    <2> HIDE DEF s
    <2>6. MountsOK(s, mounts) BY <2>4 DEF MountsOK
    <2>7. HandOK(p, s, sources, cache, mounts, files)
      BY <1>1, <2>4, <2>6, OwnHand DEF HandOK, Named, Stored, AtWork
    <2> QED BY <1>1, <1>2, <2>5, <2>7, QuietBecome DEF Look
  <1>3. CASE CallFails(p) BY <1>1, <1>3, QuietFailure DEF Look, CallFails
  <1> QED BY <1>2, <1>3 DEF Look

\* The directory at hand has its mount, so the rest remains.
LEMMA NextMountHand ==
  ASSUME GuestInv, NEW p \in Procs, proc[p].pc = "mount", NextMount(p),
         NEW there \in [Dir -> Dir \cup {None}], there[Head(proc[p].left)] = Head(proc[p].left),
         \A d \in Dir : mounts[d] # None => there[d] = mounts[d]
  PROVE  \E s : Become(p, s) /\ HandOK(p, s, sources, cache, there, files)
  <1> DEFINE left == Tail(proc[p].left)
             s == [proc[p] EXCEPT !.left = left,
                                  !.pc = IF left = <<>> THEN "bootstrap" ELSE "mount"]
  <1>1. Become(p, s) BY DEF NextMount
  <1>2. /\ proc[p].dir \in Dir /\ Repo \in Dir /\ None \notin Dir
        /\ proc[p].left \in Seq(Dir) /\ proc[p].id # None
        /\ proc[p].id = sources /\ cache[proc[p].id] = proc[p].id
        /\ MountsOK(proc[p], mounts)
    BY OwnHand, RepoAssumption, NoneAssumption DEF HandOK, Process, Named, Stored
  <1>3. /\ left \in Seq(Dir)
        /\ \/ proc[p].dir = Repo /\ left = <<>> /\ Head(proc[p].left) = Repo
           \/ proc[p].dir # Repo /\ left = <<proc[p].dir>> /\ Head(proc[p].left) = Repo
           \/ left = <<>> /\ Head(proc[p].left) = proc[p].dir /\ mounts[Repo] = Repo
    <2>1. CASE proc[p].left = <<Repo>> /\ proc[p].dir = Repo BY <1>2, <2>1
    <2>2. CASE proc[p].left = <<Repo, proc[p].dir>> /\ proc[p].dir # Repo
      BY <1>2, <2>2
    <2>3. CASE proc[p].left = <<proc[p].dir>> /\ mounts[Repo] = Repo BY <1>2, <2>3
    <2> QED BY <1>2, <2>1, <2>2, <2>3, ToMountFacts DEF MountsOK
  <1>4. /\ s \in Process /\ s.id = proc[p].id /\ s.dir = proc[p].dir
        /\ s.seen = proc[p].seen /\ s.left = left
        /\ s.pc = IF left = <<>> THEN "bootstrap" ELSE "mount"
    BY <1>3, OwnHand DEF Process, Steps
  <1> HIDE DEF s
  <1>5. CASE left = <<>>
    <2>1. there[Repo] = Repo /\ there[s.dir] = s.dir
      <3>1. CASE Head(proc[p].left) = Repo /\ proc[p].dir = Repo BY <1>4, <3>1
      <3>2. CASE Head(proc[p].left) = proc[p].dir /\ mounts[Repo] = Repo
        BY <1>2, <1>4, <3>2
      <3>3. <<proc[p].dir>> # <<>> OBVIOUS
      <3> QED BY <1>3, <1>5, <3>1, <3>2, <3>3
    <2>2. HandOK(p, s, sources, cache, there, files)
      BY <1>2, <1>4, <1>5, <2>1 DEF HandOK, Named, Stored
    <2> QED BY <1>1, <2>2
  <1>6. CASE left # <<>>
    <2>1. /\ s.left = <<s.dir>> /\ s.dir # Repo /\ there[Repo] = Repo
      BY <1>3, <1>4, <1>6
    <2>2. MountsOK(s, there) BY <1>2, <1>4, <2>1 DEF MountsOK
    <2>3. HandOK(p, s, sources, cache, there, files)
      BY <1>2, <1>4, <1>6, <2>2 DEF HandOK, Named, Stored, AtWork
    <2> QED BY <1>1, <2>3
  <1> QED BY <1>5, <1>6

LEMMA EnsureMountInv == ASSUME GuestInv, NEW p \in Procs, EnsureMount(p) PROVE GuestInv'
  <1> DEFINE d == Head(proc[p].left)
  <1>1. proc[p].pc = "mount" /\ ~At(p, "packages") BY DEF EnsureMount, At
  <1>2. /\ UNCHANGED <<sources, cache, instance, dirs, files, served, acts>>
        /\ UNCHANGED faults \/ Fault
    BY DEF EnsureMount, CallFails
  <1>3. d \in Dir
    <2>1. proc[p].dir \in Dir BY <1>1, WorkingFacts DEF Named
    <2>2. MountsOK(proc[p], mounts) BY <1>1, OwnHand DEF HandOK
    <2> QED BY <2>1, <2>2, ToMountFacts DEF MountsOK
  <1>4. mounts \in [Dir -> Dir \cup {None}] /\ None \notin Dir
    BY NoneAssumption DEF GuestInv, WorldOK
  <1>5. \/ mounts' = mounts \/ (mounts[d] = None /\ mounts' = [mounts EXCEPT ![d] = d])
    BY DEF EnsureMount
  <1>6. /\ mounts' \in [Dir -> Dir \cup {None}]
        /\ \A e \in Dir : mounts[e] # None => mounts'[e] = mounts[e]
    BY <1>3, <1>4, <1>5
  <1>7. PICK s : Become(p, s) /\ HandOK(p, s, sources, cache, mounts', files)
    <2>1. CASE Fail(p) BY <2>1, IdleOK DEF Fail
    <2>2. CASE NextMount(p) /\ mounts'[d] = d BY <1>1, <1>6, <2>2, NextMountHand
    <2>3. Fail(p) \/ (NextMount(p) /\ mounts'[d] = d)
      <3>1. Mounted(proc[p].seen[d], d) => mounts[d] = d
        BY <1>1, <1>3, <1>4, OwnHand DEF Mounted, HandOK, MountsOK
      <3> QED BY <1>3, <1>4, <3>1 DEF EnsureMount, CallFails
    <2> QED BY <2>1, <2>2, <2>3
  <1>8. CacheOK' BY <1>2 DEF GuestInv, CacheOK
  <1>9. HandOK(p, s, sources, cache', mounts', files') BY <1>2, <1>7
  <1>10. dirs' \in SUBSET Source /\ files' \in [Path -> Binary \cup {None}]
    BY <1>2 DEF GuestInv, WorldOK
  <1> HIDE DEF d
  <1> QED BY <1>1, <1>2, <1>6, <1>7, <1>8, <1>9, <1>10, SharedStep

\* Among the steps on packages and the image, a process holds the same.
LEMMA PackagesHand ==
  ASSUME GuestInv, NEW p \in Procs, proc[p].pc \in {"bootstrap", "packages", "image"},
         NEW step \in {"packages", "image", "transfer"}
  PROVE  HandOK(p, [proc[p] EXCEPT !.pc = step], sources, cache, mounts, files)
  BY OwnHand, ZenonT(60) DEF HandOK, Process, Steps, Named, Stored, AtWork

LEMMA BootstrapInv == ASSUME GuestInv, NEW p \in Procs, Bootstrap(p) PROVE GuestInv'
  <1>1. proc[p].pc = "bootstrap" /\ apt # p
    BY DEF Bootstrap, At, GuestInv, AptOK
  <1>2. CASE apt' = p /\ Goto(p, "packages")
    <2> DEFINE s == [proc[p] EXCEPT !.pc = "packages"]
    <2>1. HandOK(p, s, sources, cache, mounts, files) BY <1>1, PackagesHand
    <2>2. Become(p, s) /\ s.pc = "packages" BY <1>2, OwnHand DEF Goto, Process
    <2> HIDE DEF s
    <2>3. \A q \in Procs : q # p /\ apt' = q => apt = q BY <1>2
    <2>4. /\ apt' \in Procs \cup {"guest", None} /\ faults' \in Nat /\ acts' \in Nat
          /\ vm' \in {"absent", "starting", "running", "stopped"} /\ dirs' \in SUBSET Source
          /\ UNCHANGED <<sources, cache, mounts, files>>
      BY <1>2, FaultCounts DEF Bootstrap, CallFails, GuestInv, WorldOK, guest
    <2>5. packages' \in Packaging /\ served' \in BOOLEAN BY DEF Bootstrap, GuestInv, FlagsOK
    <2> QED BY <2>1, <2>2, <2>3, <2>4, <2>5, OwnStep
  <1>3. CASE apt' = apt /\ (Fail(p) \/ AfterPackages(p))
    <2>1. PICK s : Become(p, s) /\ HandOK(p, s, sources, cache, mounts, files)
      <3>1. CASE Fail(p) BY <3>1, IdleOK DEF Fail
      <3>2. CASE AfterPackages(p) BY <1>1, <3>2, PackagesHand DEF AfterPackages, Goto
      <3> QED BY <1>3, <3>1, <3>2
    <2>2. UNCHANGED <<sources, cache, instance, guest, served, acts>>
          /\ (UNCHANGED faults \/ Fault)
      BY <1>3 DEF Bootstrap, CallFails, instance
    <2> QED BY <1>1, <2>1, <2>2, QuietBecome DEF At
  <1> QED BY <1>2, <1>3 DEF Bootstrap, CallFails

LEMMA PackagesInv == ASSUME GuestInv, NEW p \in Procs, Packages(p) PROVE GuestInv'
  <1>1. proc[p].pc = "packages" /\ apt' = None BY DEF Packages, At
  <1>2. PICK s : Become(p, s) /\ HandOK(p, s, sources, cache, mounts, files)
    <2>1. CASE Fail(p) BY <2>1, IdleOK DEF Fail
    <2>2. CASE AfterPackages(p) BY <1>1, <2>2, PackagesHand DEF AfterPackages, Goto
    <2> QED BY <2>1, <2>2 DEF Packages, CallFails
  <1>3. None \notin Procs BY NoneAssumption
  <1>4. /\ faults' \in Nat /\ acts' \in Nat
        /\ vm' \in {"absent", "starting", "running", "stopped"} /\ dirs' \in SUBSET Source
        /\ UNCHANGED <<sources, cache, mounts, files>>
    BY FaultCounts DEF Packages, CallFails, GuestInv, WorldOK, guest
  <1>5. packages' \in Packaging /\ served' \in BOOLEAN
    BY DEF Packages, GuestInv, FlagsOK, Packaging, Unfinished
  <1> QED BY <1>1, <1>2, <1>3, <1>4, <1>5, OwnStep

LEMMA ImageInv == ASSUME GuestInv, NEW p \in Procs, Image(p) PROVE GuestInv'
  <1>1. proc[p].pc = "image" /\ ~At(p, "packages") BY DEF Image, Pass, At
  <1>2. CASE Goto(p, "transfer") /\ UNCHANGED faults
    BY <1>1, <1>2, PackagesHand, QuietGoto DEF Image, Pass
  <1>3. CASE CallFails(p) BY <1>1, <1>3, QuietFailure DEF Image, Pass, CallFails
  <1> QED BY <1>2, <1>3 DEF Image, Pass

-----------------------------------------------------------------------------
(* The guest's binary.                                                     *)

\* A process writes its own staged file and nothing else.
LEMMA StagedStep ==
  ASSUME GuestInv, NEW p \in Procs, proc[p].pc \in AtWork \ {"packages"},
         NEW s, Become(p, s), HandOK(p, s, sources, cache, mounts, files'),
         files' = files \/ (\E f \in Binary : files' = [files EXCEPT ![Staged(p)] = f]),
         UNCHANGED <<sources, cache, instance, mounts, dirs, served, acts>>,
         UNCHANGED faults \/ Fault
  PROVE  GuestInv'
  <1>1. ~At(p, "packages") BY DEF At
  <1>2. Staged(p) \in Path /\ Staged(p) = <<sources, p>>
    BY WorkingFacts DEF Staged, Path, AtWork, Named
  <1>3. files \in [Path -> Binary \cup {None}] /\ sources \in Source
    BY DEF GuestInv, WorldOK
  <1>4. files' \in [Path -> Binary \cup {None}] BY <1>2, <1>3
  <1>5. \A q \in Procs : q # p => files'[<<sources, q>>] = files[<<sources, q>>]
    BY <1>2, <1>3 DEF Path
  <1>6. files'[<<sources, "frridge">>] = files[<<sources, "frridge">>]
    BY <1>2, <1>3, ProcAssumption DEF Path
  <1>7. CacheOK' BY DEF GuestInv, CacheOK
  <1>8. HandOK(p, s, sources, cache', mounts', files') OBVIOUS
  <1>9. mounts' \in [Dir -> Dir \cup {None}] /\ dirs' \in SUBSET Source
    BY DEF GuestInv, WorldOK
  <1>10. /\ cache[sources] = sources => cache'[sources] = sources
         /\ \A d \in Dir : mounts[d] # None => mounts'[d] = mounts[d]
    OBVIOUS
  <1> QED BY <1>1, <1>4, <1>5, <1>6, <1>7, <1>8, <1>9, <1>10, SharedStep

LEMMA StagedFailure ==
  ASSUME GuestInv, NEW p \in Procs, proc[p].pc \in AtWork \ {"packages"}, Fail(p),
         files' = files, UNCHANGED <<sources, cache, instance, mounts, dirs, served, acts>>,
         UNCHANGED faults \/ Fault
  PROVE  GuestInv'
  <1>1. HandOK(p, Idle, sources, cache, mounts, files') BY IdleOK
  <1> QED BY <1>1, StagedStep DEF Fail

LEMMA StagedFile ==
  ASSUME GuestInv, NEW p \in Procs, proc[p].pc \in AtWork,
         NEW f \in Binary, files' = [files EXCEPT ![Staged(p)] = f]
  PROVE  files'[<<proc[p].id, p>>] = f
  <1>1. Staged(p) \in Path /\ Staged(p) = <<proc[p].id, p>>
    BY WorkingFacts DEF Staged, Path, AtWork, Named
  <1> QED BY <1>1 DEF GuestInv, WorldOK

\* From one step on a staged file to the next.
LEMMA StagedGoto ==
  ASSUME GuestInv, NEW p \in Procs, proc[p].pc \in {"transfer", "writing", "chmod"},
         NEW step \in {"writing", "chmod", "mv"}, Goto(p, step),
         NEW whole \in BOOLEAN, NEW exec \in BOOLEAN,
         files' = [files EXCEPT ![Staged(p)] = File(proc[p].id, whole, exec)],
         step = "writing" => whole = FALSE /\ exec = FALSE,
         step = "chmod" => whole = TRUE /\ exec = FALSE,
         step = "mv" => whole = TRUE /\ exec = TRUE,
         UNCHANGED <<sources, cache, instance, mounts, dirs, served, acts, faults>>
  PROVE  GuestInv'
  <1> DEFINE s == [proc[p] EXCEPT !.pc = step]
             f == File(proc[p].id, whole, exec)
  <1>1. proc[p].pc \in AtWork \ {"packages"} /\ proc[p].pc \in Stored
    BY DEF AtWork, Stored, Named
  <1>2. /\ proc[p].id \in Source /\ proc[p].id = sources /\ proc[p].id # None
        /\ cache[proc[p].id] = proc[p].id
    BY <1>1, WorkingFacts, NoneAssumption DEF Stored
  <1>3. f \in Binary BY <1>2 DEF File, Binary
  <1>4. files'[<<proc[p].id, p>>] = f BY <1>1, <1>3, StagedFile
  <1>5. /\ s \in Process /\ s.pc = step /\ s.id = proc[p].id /\ s.dir = proc[p].dir
    BY OwnHand DEF Process, Steps
  <1>6. mounts[Repo] = Repo /\ mounts[proc[p].dir] = proc[p].dir
    BY <1>1, OwnHand DEF HandOK
  <1>7. Become(p, s) BY DEF Goto
  <1>8. \E e \in Binary : files' = [files EXCEPT ![Staged(p)] = e] BY <1>3
  <1>9. HandOK(p, s, sources, cache, mounts, files')
    <2> HIDE DEF s, f
    <2>1. step = "writing" => files'[<<s.id, p>>] = File(s.id, FALSE, FALSE)
      BY <1>4, <1>5 DEF f
    <2>2. step = "chmod" => files'[<<s.id, p>>] = File(s.id, TRUE, FALSE)
      BY <1>4, <1>5 DEF f
    <2>3. step = "mv" => files'[<<s.id, p>>] = File(s.id, TRUE, TRUE)
      BY <1>4, <1>5 DEF f
    <2> QED BY <1>2, <1>5, <1>6, <2>1, <2>2, <2>3 DEF HandOK
  <1> HIDE DEF s, f
  <1> QED BY <1>1, <1>7, <1>8, <1>9, StagedStep

LEMMA TransferInv == ASSUME GuestInv, NEW p \in Procs, Transfer(p) PROVE GuestInv'
  <1>1. proc[p].pc = "transfer" BY DEF Transfer, At
  <1>2. CASE /\ Put(Staged(p), [built |-> cache[proc[p].id], whole |-> FALSE, exec |-> FALSE])
             /\ Goto(p, "writing") /\ UNCHANGED faults
    <2>1. cache[proc[p].id] = proc[p].id BY <1>1, WorkingFacts DEF Named, Stored
    <2>2. files' = [files EXCEPT ![Staged(p)] = File(proc[p].id, FALSE, FALSE)]
      BY <1>2, <2>1 DEF Put, File
    <2> QED BY <1>1, <1>2, <2>2, StagedGoto DEF Transfer
  <1>3. CASE Fail(p) /\ files' = files /\ (UNCHANGED faults \/ Fault)
    BY <1>1, <1>3, StagedFailure DEF Transfer, AtWork
  <1> QED BY <1>2, <1>3 DEF Transfer, CallFails

LEMMA FileCompleted ==
  ASSUME NEW id PROVE [File(id, FALSE, FALSE) EXCEPT !.whole = TRUE] = File(id, TRUE, FALSE)
  <1> DEFINE yes == TRUE
             no  == FALSE
  <1>1. ASSUME NEW whole, NEW exec, NEW flag
        PROVE  [File(id, whole, exec) EXCEPT !.whole = flag] = File(id, flag, exec)
    BY DEF File
  <1>2. [File(id, no, no) EXCEPT !.whole = yes] = File(id, yes, no)
    <2> HIDE DEF yes, no
    <2> QED BY <1>1
  <1> QED BY <1>2

LEMMA FileMadeExecutable ==
  ASSUME NEW id PROVE [File(id, TRUE, FALSE) EXCEPT !.exec = TRUE] = File(id, TRUE, TRUE)
  <1> DEFINE yes == TRUE
             no  == FALSE
  <1>1. ASSUME NEW whole, NEW exec, NEW flag
        PROVE  [File(id, whole, exec) EXCEPT !.exec = flag] = File(id, whole, flag)
    BY DEF File
  <1>2. [File(id, yes, no) EXCEPT !.exec = yes] = File(id, yes, yes)
    <2> HIDE DEF yes, no
    <2> QED BY <1>1
  <1> QED BY <1>2

LEMMA TransferEndsInv == ASSUME GuestInv, NEW p \in Procs, TransferEnds(p) PROVE GuestInv'
  <1>1. proc[p].pc = "writing" BY DEF TransferEnds, At
  <1>2. CASE /\ files' = [files EXCEPT ![Staged(p)].whole = TRUE]
             /\ Goto(p, "chmod") /\ UNCHANGED faults
    <2>1. files[Staged(p)] = File(proc[p].id, FALSE, FALSE)
      BY <1>1, OwnHand DEF HandOK, Staged
    <2>2. files' = [files EXCEPT ![Staged(p)] = File(proc[p].id, TRUE, FALSE)]
      <3>1. [File(proc[p].id, FALSE, FALSE) EXCEPT !.whole = TRUE] = File(proc[p].id, TRUE, FALSE)
        BY FileCompleted
      <3>2. files' = [files EXCEPT ![Staged(p)] = [files[Staged(p)] EXCEPT !.whole = TRUE]]
        BY <1>2, Zenon
      <3> QED BY <2>1, <3>1, <3>2, Zenon
    <2> QED BY <1>1, <1>2, <2>2, StagedGoto DEF TransferEnds
  <1>3. CASE Fail(p) /\ files' = files /\ (UNCHANGED faults \/ Fault)
    BY <1>1, <1>3, StagedFailure DEF TransferEnds, AtWork
  <1> QED BY <1>2, <1>3 DEF TransferEnds, CallFails

LEMMA ChmodInv == ASSUME GuestInv, NEW p \in Procs, Chmod(p) PROVE GuestInv'
  <1>1. proc[p].pc = "chmod" BY DEF Chmod, At
  <1>2. CASE /\ files' = [files EXCEPT ![Staged(p)].exec = TRUE]
             /\ Goto(p, "mv") /\ UNCHANGED faults
    <2>1. files[Staged(p)] = File(proc[p].id, TRUE, FALSE)
      BY <1>1, OwnHand DEF HandOK, Staged
    <2>2. files' = [files EXCEPT ![Staged(p)] = File(proc[p].id, TRUE, TRUE)]
      <3>1. [File(proc[p].id, TRUE, FALSE) EXCEPT !.exec = TRUE] = File(proc[p].id, TRUE, TRUE)
        BY FileMadeExecutable
      <3>2. files' = [files EXCEPT ![Staged(p)] = [files[Staged(p)] EXCEPT !.exec = TRUE]]
        BY <1>2, Zenon
      <3> QED BY <2>1, <3>1, <3>2, Zenon
    <2> QED BY <1>1, <1>2, <2>2, StagedGoto DEF Chmod
  <1>3. CASE Fail(p) /\ files' = files /\ (UNCHANGED faults \/ Fault)
    BY <1>1, <1>3, StagedFailure DEF Chmod, AtWork
  <1> QED BY <1>2, <1>3 DEF Chmod, CallFails

\* Whoever moves a binary there moves the same one.
LEMMA MoveInv == ASSUME GuestInv, NEW p \in Procs, Move(p) PROVE GuestInv'
  <1> DEFINE moved == [files EXCEPT ![Installed(proc[p].id)] = files[Staged(p)],
                                    ![Staged(p)] = None]
  <1>1. proc[p].pc = "mv" /\ ~At(p, "packages") BY DEF Move, At
  <1>2. proc[p].id = sources /\ sources \in Source /\ sources # None
        /\ cache[sources] = sources
    BY <1>1, WorkingFacts, NoneAssumption DEF Named, Stored
  <1>3. /\ Staged(p) = <<sources, p>> /\ Staged(p) \in Path
        /\ Installed(proc[p].id) = <<sources, "frridge">>
        /\ Installed(proc[p].id) \in Path /\ Staged(p) # Installed(proc[p].id)
    BY <1>2, ProcAssumption DEF Staged, Installed, Path
  <1>4. files[Staged(p)] = File(sources, TRUE, TRUE) BY <1>1, <1>2, OwnHand DEF HandOK, Staged
  <1>5. files \in [Path -> Binary \cup {None}] /\ File(sources, TRUE, TRUE) \in Binary
    BY <1>2 DEF GuestInv, WorldOK, File, Binary
  <1>6. /\ moved \in [Path -> Binary \cup {None}]
        /\ moved[<<sources, "frridge">>] = File(sources, TRUE, TRUE)
        /\ \A q \in Procs : q # p => moved[<<sources, q>>] = files[<<sources, q>>]
    <2>1. moved \in [Path -> Binary \cup {None}] BY <1>3, <1>4, <1>5
    <2>2. moved[<<sources, "frridge">>] = File(sources, TRUE, TRUE)
      BY <1>3, <1>4, <1>5
    <2>3. ASSUME NEW q \in Procs, q # p PROVE moved[<<sources, q>>] = files[<<sources, q>>]
      <3>1. <<sources, q>> \in Path /\ <<sources, q>> # <<sources, p>>
            /\ <<sources, q>> # <<sources, "frridge">>
        BY <1>2, <2>3, ProcAssumption DEF Path
      <3> QED BY <1>3, <1>5, <3>1
    <2> QED BY <2>1, <2>2, <2>3
  <1>7. files' \in {files, moved} BY DEF Move
  <1> HIDE DEF moved
  <1>8. /\ files' \in [Path -> Binary \cup {None}]
        /\ \A q \in Procs : q # p => files'[<<sources, q>>] = files[<<sources, q>>]
        /\ files[<<sources, "frridge">>] = File(sources, TRUE, TRUE) =>
             files'[<<sources, "frridge">>] = File(sources, TRUE, TRUE)
    BY <1>5, <1>6, <1>7
  <1>9. PICK s : Become(p, s) /\ HandOK(p, s, sources, cache, mounts, files')
    <2>1. CASE CallFails(p) BY <2>1, IdleOK DEF CallFails, Fail
    <2>2. CASE files' = moved /\ Goto(p, "run")
      <3> DEFINE s == [proc[p] EXCEPT !.pc = "run"]
      <3>1. s \in Process /\ s.pc = "run" /\ s.id = sources /\ s.dir = proc[p].dir
        BY <1>2, OwnHand DEF Process, Steps
      <3>2. mounts[Repo] = Repo /\ mounts[proc[p].dir] = proc[p].dir
        BY <1>1, OwnHand DEF HandOK, AtWork
      <3>3. Become(p, s) BY <2>2 DEF Goto
      <3> HIDE DEF s
      <3>4. HandOK(p, s, sources, cache, mounts, files')
        BY <1>2, <1>6, <2>2, <3>1, <3>2 DEF HandOK, Stored
      <3> QED BY <3>3, <3>4
    <2> QED BY <2>1, <2>2 DEF Move, moved
  <1>10. /\ UNCHANGED <<sources, cache, instance, mounts, dirs, served, acts>>
         /\ UNCHANGED faults \/ Fault
    BY DEF Move, CallFails
  <1>11. CacheOK' BY <1>10 DEF GuestInv, CacheOK
  <1>12. mounts' \in [Dir -> Dir \cup {None}] /\ dirs' \in SUBSET Source
    BY <1>10 DEF GuestInv, WorldOK
  <1>13. HandOK(p, s, sources, cache', mounts', files') BY <1>9, <1>10
  <1>14. /\ cache[sources] = sources => cache'[sources] = sources
         /\ \A d \in Dir : mounts[d] # None => mounts'[d] = mounts[d]
    BY <1>10
  <1> QED BY <1>1, <1>8, <1>9, <1>10, <1>11, <1>12, <1>13, <1>14, SharedStep

LEMMA RunInv == ASSUME GuestInv, NEW p \in Procs, Run(p) PROVE GuestInv'
  <1>1. /\ Become(p, Idle) /\ HandOK(p, Idle, sources, cache, mounts, files)
    BY IdleOK DEF Run
  <1>2. /\ apt' = apt /\ apt # p /\ apt \in Procs \cup {"guest", None}
        /\ vm' \in {"absent", "starting", "running", "stopped"} /\ dirs' \in SUBSET Source
        /\ acts' \in Nat /\ faults' \in Nat
        /\ UNCHANGED <<sources, cache, mounts, files>>
    BY DEF Run, GuestInv, WorldOK, AptOK, At, instance, guest
  <1>3. packages' \in Packaging /\ served' \in BOOLEAN BY DEF Run, GuestInv, FlagsOK, instance
  <1> QED BY <1>1, <1>2, <1>3, OwnStep

-----------------------------------------------------------------------------
(* The theorems.                                                           *)

LEMMA InitInv == Init => GuestInv
  <1> SUFFICES ASSUME Init PROVE GuestInv OBVIOUS
  <1>1. WorldOK BY DEF Init, WorldOK, NoMounts
  <1>2. FlagsOK BY DEF Init, FlagsOK, Packaging
  <1>3. CacheOK BY DEF Init, CacheOK
  <1>4. AptOK BY NoneAssumption DEF Init, AptOK
  <1>5. HandsOK BY IdleOK DEF Init, HandsOK
  <1> QED BY <1>1, <1>2, <1>3, <1>4, <1>5 DEF GuestInv

LEMMA StepInv == ASSUME GuestInv, NEW p \in Procs, Step(p) PROVE GuestInv'
  BY InfoInv, LaunchInv, LaunchEndsInv, StartInv, UnameInv, DigestInv, StatCachedInv,
     GoBuildInv, InstallBuildInv, MakeDirsInv, LookInv, EnsureMountInv, BootstrapInv,
     PackagesInv, ImageInv, TransferInv, TransferEndsInv, ChmodInv, MoveInv, RunInv
  DEF Step

LEMMA NextInv == GuestInv /\ [Next]_vars => GuestInv'
  <1> SUFFICES ASSUME GuestInv, [Next]_vars PROVE GuestInv' OBVIOUS
  <1>1. CASE Next BY <1>1, StepInv, KillInv, BeginInv, UserActsInv, GuestInstallsInv DEF Next
  <1>2. CASE UNCHANGED vars
    BY <1>2 DEF vars, GuestInv, WorldOK, FlagsOK, CacheOK, AptOK, HandsOK, At
  <1> QED BY <1>1, <1>2

\* A command's mounts, digest and staged binary are what its step needs, and
\* nothing another command does takes them away.
THEOREM GuestInvariant == Spec => []GuestInv
  BY InitInv, NextInv, PTL DEF Spec

\* Every variable keeps its type, a command at work has its digest, and who
\* installs packages is at that step.
THEOREM GuestTypes == Spec => []TypeOK
  <1>1. GuestInv => TypeOK
    <2> SUFFICES ASSUME GuestInv PROVE TypeOK OBVIOUS
    <2>1. cache \in [Source -> Source \cup {None}] BY DEF GuestInv, CacheOK
    <2>2. proc \in [Procs -> Process] BY DEF GuestInv, HandsOK, HandOK
    <2>3. ASSUME NEW p \in Procs
          PROVE  /\ apt = p => At(p, "packages")
                 /\ proc[p].pc \in Named => proc[p].id # None
      BY OwnHand DEF GuestInv, AptOK, HandOK
    <2> QED BY <2>1, <2>2, <2>3 DEF GuestInv, WorldOK, FlagsOK, Packaging, TypeOK, Named
  <1> QED BY <1>1, GuestInvariant, PTL

\* A command runs a binary that is whole, executable and built from the sources
\* of its checkout (multipass.go 298-316; builder.go 41-95).
THEOREM OwnBinaryRuns == Spec => []RunsOwnBinary
  <1>1. GuestInv => RunsOwnBinary
    <2> SUFFICES ASSUME GuestInv, NEW p \in Procs, At(p, "run")
                 PROVE  files[Installed(proc[p].id)] =
                          [built |-> sources, whole |-> TRUE, exec |-> TRUE]
      BY DEF RunsOwnBinary
    <2>1. proc[p].pc = "run" BY DEF At
    <2>2. proc[p].id = sources BY <2>1, WorkingFacts DEF Named
    <2> QED BY <2>1, <2>2, OwnHand DEF HandOK, Installed, File
  <1> QED BY <1>1, GuestInvariant, PTL

\* It runs where the checkout and its host directory are mounted, each at its
\* path (multipass.go 280-292, 541-549).
THEOREM OwnDirectoriesServed == Spec => []ServesOwnDirectories
  <1>1. GuestInv => ServesOwnDirectories
    BY OwnHand DEF ServesOwnDirectories, At, HandOK, AtWork
  <1> QED BY <1>1, GuestInvariant, PTL

-----------------------------------------------------------------------------
(* Commands that prepare one guest at once: one of them can always go on.  *)

\* A command that has found no mount where there is one now.
Blocked(s, there) ==
    \E d \in {Repo, s.dir} :
        (d = Repo => Head(s.left) = Repo) /\ s.seen[d] = None /\ there[d] # None

\* A command whose next call will be refused, if nothing changes.
Stuck(p) ==
    \/ At(p, "launch") /\ vm # "absent"
    \/ At(p, "mount") /\ Blocked(proc[p], mounts)
    \/ At(p, "bootstrap") /\ packages = "missing" /\ apt # None

DirMade == {"look", "mount", "bootstrap", "packages", "image", "transfer", "writing", "chmod",
            "mv", "run"}

\* Without an instance nobody is past the launch; whoever installs packages in
\* a new one is watched by the command that launched it; the binary's directory
\* stays; and a host directory is mounted after the checkout.
NotLaunched   == vm = "absent" => \A p \in Procs : proc[p].pc \in {"idle", "info", "launch"}
GuestWatched  ==
    apt = "guest" /\ apt # None => vm = "starting" /\ \E p \in Procs : At(p, "launching")
DirsStay      == \A p \in Procs : proc[p].pc \in DirMade => proc[p].id \in dirs
CheckoutFirst ==
    \A p \in Procs, d \in Dir \ {Repo} :
        At(p, "mount") /\ proc[p].seen[d] = None /\ mounts[d] = d => mounts[Repo] = Repo

SomeoneIsClear ==
    OursOnly /\ ~Quiescent /\ ~served => \E p \in Procs : ~At(p, "idle") /\ ~Stuck(p)

\* No installation has died.
Unbroken == packages # "interrupted"

\* The inductive invariant, of runs in which no call has failed.
Way    == NotLaunched /\ GuestWatched /\ DirsStay /\ CheckoutFirst
WayInv == faults = 0 => Unbroken /\ Way /\ SomeoneIsClear

To(s, step) == [s EXCEPT !.pc = step]

LEMMA ToFields ==
  ASSUME NEW s \in Process, NEW step
  PROVE  /\ To(s, step).pc = step
         /\ To(s, step).id = s.id /\ To(s, step).dir = s.dir
         /\ To(s, step).seen = s.seen /\ To(s, step).left = s.left
  BY DEF To, Process

LEMMA GotoIs ==
  ASSUME GuestInv, NEW p \in Procs, NEW step, Goto(p, step)
  PROVE  /\ proc'[p].pc = step
         /\ proc'[p].id = proc[p].id /\ proc'[p].dir = proc[p].dir
         /\ proc'[p].seen = proc[p].seen /\ proc'[p].left = proc[p].left
         /\ \A q \in Procs \ {p} : proc'[q] = proc[q]
  <1>1. Become(p, To(proc[p], step)) BY DEF Goto, To
  <1>2. proc'[p] = To(proc[p], step) /\ \A q \in Procs : q # p => proc'[q] = proc[q]
    BY <1>1, BecomeFacts DEF GuestInv
  <1>3. proc[p] \in Process BY OwnHand
  <1> QED BY <1>2, <1>3, ToFields

LEMMA FailIs ==
  ASSUME GuestInv, NEW p \in Procs, Become(p, Idle)
  PROVE  proc'[p].pc = "idle" /\ \A q \in Procs \ {p} : proc'[q] = proc[q]
  <1>1. proc'[p] = Idle /\ \A q \in Procs : q # p => proc'[q] = proc[q]
    BY BecomeFacts DEF GuestInv
  <1>2. Idle.pc = "idle" BY DEF Idle
  <1> QED BY <1>1, <1>2

LEMMA NoFault == ASSUME GuestInv, faults' = 0 PROVE ~Fault
  BY DEF GuestInv, WorldOK, Fault

LEMMA NoCallFails == ASSUME GuestInv, faults' = 0, NEW p PROVE ~CallFails(p)
  BY NoFault DEF CallFails

Others(p) == \A q \in Procs \ {p} : proc'[q] = proc[q]
World     == <<vm, packages, apt, mounts, dirs>>

\* What becomes of a command at a step that does not fail.  It goes on to a step
\* where it waits for nobody,
GoesOn(p) ==
    /\ proc'[p].pc \notin {"idle", "launch", "mount", "bootstrap"}
    /\ proc'[p].pc \in DirMade => proc'[p].id \in dirs'
    /\ vm' # "absent"
    /\ vm = "starting" => vm' = "starting"
    /\ UNCHANGED <<mounts, served>> /\ dirs \subseteq dirs'
    /\ \/ proc'[p].pc = "launching" /\ vm' = "starting"
       \/ apt' \in {apt, p, None} /\ (At(p, "launching") => vm # "starting")

\* or to the launch,
ToLaunch(p) ==
    /\ At(p, "info") /\ proc'[p].pc = "launch" /\ vm = "absent"
    /\ UNCHANGED World /\ UNCHANGED served

\* or looks at the mounts,
Looks(p) ==
    /\ At(p, "look") /\ proc'[p].pc = "mount"
    /\ proc'[p].id = proc[p].id /\ proc'[p].seen = mounts
    /\ UNCHANGED World /\ UNCHANGED served

\* or finds or makes a mount,
Mounts(p) ==
    LET d == Head(proc[p].left)
    IN  /\ At(p, "mount")
        /\ proc'[p].pc = IF Tail(proc[p].left) = <<>> THEN "bootstrap" ELSE "mount"
        /\ proc'[p].id = proc[p].id /\ proc'[p].dir = proc[p].dir
        /\ proc'[p].seen = proc[p].seen /\ proc'[p].left = Tail(proc[p].left)
        /\ \/ proc[p].seen[d] = d /\ mounts' = mounts
           \/ /\ proc[p].seen[d] = None /\ mounts[d] = None
              /\ mounts' = [mounts EXCEPT ![d] = d]
        /\ UNCHANGED <<vm, packages, apt, dirs, served>>

\* or is refused what it asks for,
Refused(p) ==
    \/ At(p, "launch") /\ vm # "absent"
    \/ LET d == Head(proc[p].left)
       IN  At(p, "mount") /\ proc[p].seen[d] # d /\ (proc[p].seen[d] # None \/ mounts[d] # None)
    \/ At(p, "bootstrap") /\ packages = "missing" /\ apt # None

\* or has run.
Ends(p) ==
    /\ proc'[p].pc = "idle" /\ UNCHANGED World
    /\ \/ At(p, "run") /\ served'
       \/ Refused(p) /\ served' = served

Turn(p) ==
    /\ Others(p) /\ ~At(p, "idle")
    /\ GoesOn(p) \/ ToLaunch(p) \/ Looks(p) \/ Mounts(p) \/ Ends(p)

\* Where the guard on the instance holds.
LEMMA PastLaunch ==
  ASSUME Way, NEW p \in Procs, proc[p].pc \notin {"idle", "info", "launch"}
  PROVE  vm # "absent"
  BY DEF Way, NotLaunched

LEMMA HasDir ==
  ASSUME Way, NEW p \in Procs, proc[p].pc \in DirMade
  PROVE  proc[p].id \in dirs
  BY DEF Way, DirsStay

\* A call that changes nothing but how far the command is.
LEMMA QuietTurn ==
  ASSUME GuestInv, Way, NEW p \in Procs, NEW step, Goto(p, step),
         proc[p].pc \notin {"idle", "info", "launch", "launching"},
         step \notin {"idle", "launch", "mount", "bootstrap"},
         step \in DirMade => proc[p].pc \in DirMade,
         UNCHANGED World, UNCHANGED served
  PROVE  Turn(p)
  <1>1. vm # "absent" BY PastLaunch
  <1>2. step \in DirMade => proc[p].id \in dirs BY HasDir
  <1>3. GoesOn(p) BY <1>1, <1>2, GotoIs DEF GoesOn, World, At
  <1> QED BY <1>3, GotoIs DEF Turn, Others, At

LEMMA InfoTurn ==
  ASSUME GuestInv, Way, NEW p \in Procs, faults' = 0, Info(p) PROVE Turn(p)
  <1>1. /\ proc[p].pc \in {"info", "again"} /\ UNCHANGED World /\ UNCHANGED served
    BY DEF Info, World, instance, guest
  <1>2. CASE vm = "absent" /\ At(p, "info") /\ Goto(p, "launch")
    BY <1>1, <1>2, GotoIs DEF Turn, ToLaunch, Others, At
  <1>3. CASE vm = "absent" /\ At(p, "again") BY <1>3, PastLaunch DEF At
  <1>4. CASE vm # "absent" /\ \E step \in {"uname", "start"} : Goto(p, step)
    <2>1. PICK step \in {"uname", "start"} : Goto(p, step) BY <1>4
    <2>2. GoesOn(p) BY <1>1, <1>4, <2>1, GotoIs DEF GoesOn, World, At, DirMade
    <2> QED BY <1>1, <2>1, <2>2, GotoIs DEF Turn, Others, At
  <1> QED BY <1>2, <1>3, <1>4, NoCallFails DEF Info

LEMMA LaunchTurn ==
  ASSUME GuestInv, Way, NEW p \in Procs, faults' = 0, Launch(p) PROVE Turn(p)
  <1>1. At(p, "launch") /\ UNCHANGED <<mounts, dirs, served>> BY DEF Launch, guest
  <1>2. CASE vm' = "starting" /\ Goto(p, "launching")
    <2>1. GoesOn(p) BY <1>1, <1>2, GotoIs DEF GoesOn, DirMade
    <2> QED BY <1>1, <1>2, <2>1, GotoIs DEF Turn, Others, At
  <1>3. CASE vm # "absent" /\ Fail(p) /\ UNCHANGED instance
    <2>1. proc'[p].pc = "idle" /\ Others(p) BY <1>3, FailIs DEF Fail, Others
    <2>2. Ends(p) BY <1>1, <1>3, <2>1 DEF Ends, Refused, World, instance
    <2> QED BY <1>1, <2>1, <2>2 DEF Turn, At
  <1> QED BY <1>2, <1>3, NoCallFails DEF Launch

LEMMA LaunchEndsTurn ==
  ASSUME GuestInv, Way, NEW p \in Procs, faults' = 0, LaunchEnds(p) PROVE Turn(p)
  <1>1. /\ proc[p].pc = "launching" /\ vm # "starting" /\ Goto(p, "again")
        /\ UNCHANGED World /\ UNCHANGED served
    BY NoCallFails DEF LaunchEnds, World, instance, guest, At
  <1>2. vm # "absent" BY <1>1, PastLaunch
  <1>3. GoesOn(p) BY <1>1, <1>2, GotoIs DEF GoesOn, World, At, DirMade
  <1> QED BY <1>1, <1>3, GotoIs DEF Turn, Others, At

LEMMA StartTurn ==
  ASSUME GuestInv, Way, NEW p \in Procs, faults' = 0, Start(p) PROVE Turn(p)
  <1>1. /\ proc[p].pc = "start" /\ vm' = (IF vm = "stopped" THEN "running" ELSE vm)
        /\ Goto(p, "uname") /\ UNCHANGED <<packages, apt, mounts, dirs, served>>
    BY NoCallFails DEF Start, guest, At
  <1>2. vm # "absent" BY <1>1, PastLaunch
  <1>3. GoesOn(p) BY <1>1, <1>2, GotoIs DEF GoesOn, At, DirMade
  <1> QED BY <1>1, <1>3, GotoIs DEF Turn, Others, At

LEMMA BuildTurn ==
  ASSUME GuestInv, Way, NEW p \in Procs, faults' = 0,
         Uname(p) \/ StatCached(p) \/ InstallBuild(p) \/ Image(p)
  PROVE  Turn(p)
  <1>1. UNCHANGED World /\ UNCHANGED served
    BY DEF Uname, StatCached, InstallBuild, Image, Pass, World, instance, guest
  <1>2. CASE Uname(p)
    BY <1>1, <1>2, QuietTurn, NoCallFails DEF Uname, Pass, At, DirMade
  <1>3. CASE StatCached(p)
    BY <1>1, <1>3, QuietTurn, NoCallFails DEF StatCached, At, DirMade
  <1>4. CASE InstallBuild(p)
    BY <1>1, <1>4, QuietTurn, NoCallFails DEF InstallBuild, At, DirMade
  <1>5. CASE Image(p)
    BY <1>1, <1>5, QuietTurn, NoCallFails DEF Image, Pass, At, DirMade
  <1> QED BY <1>2, <1>3, <1>4, <1>5

LEMMA TransferTurn ==
  ASSUME GuestInv, Way, NEW p \in Procs, faults' = 0,
         Transfer(p) \/ TransferEnds(p) \/ Chmod(p) \/ Move(p)
  PROVE  Turn(p)
  <1>1. UNCHANGED World /\ UNCHANGED served
    BY DEF Transfer, TransferEnds, Chmod, Move, World, instance
  <1>2. CASE Transfer(p)
    <2>1. proc[p].pc = "transfer" BY <1>2 DEF Transfer, At
    <2>2. proc[p].id \in dirs BY <2>1, HasDir DEF DirMade
    <2> QED BY <1>1, <1>2, <2>1, <2>2, QuietTurn, NoCallFails DEF Transfer, DirMade
  <1>3. CASE TransferEnds(p)
    BY <1>1, <1>3, QuietTurn, NoCallFails DEF TransferEnds, At, DirMade
  <1>4. CASE Chmod(p) BY <1>1, <1>4, QuietTurn, NoCallFails DEF Chmod, At, DirMade
  <1>5. CASE Move(p) BY <1>1, <1>5, QuietTurn, NoCallFails DEF Move, At, DirMade
  <1> QED BY <1>2, <1>3, <1>4, <1>5

LEMMA DigestTurn ==
  ASSUME GuestInv, Way, NEW p \in Procs, faults' = 0, Digest(p) \/ GoBuild(p) PROVE Turn(p)
  <1>1. UNCHANGED World /\ UNCHANGED served /\ proc[p].pc \in {"digest", "gobuild"}
    BY DEF Digest, GoBuild, World, instance, guest, At
  <1>2. proc[p] \in Process BY OwnHand
  <1>3. proc'[p].pc \in {"stat", "install"} /\ Others(p)
    <2> DEFINE stat    == [proc[p] EXCEPT !.pc = "stat", !.id = sources]
               install == [proc[p] EXCEPT !.pc = "install", !.built = sources]
    <2>1. stat.pc = "stat" /\ install.pc = "install" BY <1>2 DEF Process
    <2>2. Become(p, stat) \/ Become(p, install) BY NoCallFails DEF Digest, GoBuild
    <2> HIDE DEF stat, install
    <2> QED BY <2>1, <2>2, BecomeFacts DEF GuestInv, Others
  <1>4. vm # "absent" BY <1>1, PastLaunch
  <1>5. GoesOn(p) BY <1>1, <1>3, <1>4 DEF GoesOn, World, At, DirMade
  <1> QED BY <1>1, <1>3, <1>5 DEF Turn, At

LEMMA MakeDirsTurn ==
  ASSUME GuestInv, Way, NEW p \in Procs, faults' = 0, MakeDirs(p) PROVE Turn(p)
  <1>1. /\ proc[p].pc = "mkdir" /\ dirs' = dirs \cup {proc[p].id} /\ Goto(p, "look")
        /\ UNCHANGED <<vm, packages, apt, mounts, served>>
    BY NoCallFails DEF MakeDirs, instance, At
  <1>2. vm # "absent" BY <1>1, PastLaunch
  <1>3. GoesOn(p) BY <1>1, <1>2, GotoIs DEF GoesOn, At
  <1> QED BY <1>1, <1>3, GotoIs DEF Turn, Others, At

LEMMA LookTurn ==
  ASSUME GuestInv, Way, NEW p \in Procs, faults' = 0, Look(p) PROVE Turn(p)
  <1> DEFINE t == [proc[p] EXCEPT !.pc = "mount", !.seen = mounts,
                                  !.left = ToMount(proc[p].dir)]
  <1>1. /\ At(p, "look") /\ Become(p, t) /\ UNCHANGED World /\ UNCHANGED served
    BY NoCallFails DEF Look, World, instance, guest
  <1>2. proc[p] \in Process BY OwnHand
  <1>3. t.pc = "mount" /\ t.id = proc[p].id /\ t.seen = mounts BY <1>2 DEF Process
  <1> HIDE DEF t
  <1>4. proc'[p] = t /\ Others(p) BY <1>1, BecomeFacts DEF GuestInv, Others
  <1> QED BY <1>1, <1>3, <1>4 DEF Turn, Looks, At

LEMMA EnsureMountTurn ==
  ASSUME GuestInv, Way, NEW p \in Procs, faults' = 0, EnsureMount(p) PROVE Turn(p)
  <1> DEFINE d    == Head(proc[p].left)
             left == Tail(proc[p].left)
             t    == [proc[p] EXCEPT !.left = left,
                                     !.pc = IF left = <<>> THEN "bootstrap" ELSE "mount"]
  <1>1. At(p, "mount") /\ UNCHANGED <<vm, packages, apt, dirs, served>>
    BY DEF EnsureMount, instance
  <1>2. CASE Fail(p) /\ mounts' = mounts /\ proc[p].seen[d] # d
             /\ (proc[p].seen[d] # None \/ mounts[d] # None)
    <2>1. proc'[p].pc = "idle" /\ Others(p) BY <1>2, FailIs DEF Fail, Others
    <2>2. Ends(p) BY <1>1, <1>2, <2>1 DEF Ends, Refused, World
    <2> QED BY <1>1, <2>1, <2>2 DEF Turn, At
  <1>3. CASE /\ Become(p, t)
             /\ \/ proc[p].seen[d] = d /\ mounts' = mounts
                \/ /\ proc[p].seen[d] = None /\ mounts[d] = None
                   /\ mounts' = [mounts EXCEPT ![d] = d]
    <2>1. proc[p] \in Process BY OwnHand
    <2>2. /\ t.pc = (IF left = <<>> THEN "bootstrap" ELSE "mount") /\ t.left = left
          /\ t.id = proc[p].id /\ t.dir = proc[p].dir /\ t.seen = proc[p].seen
      BY <2>1 DEF Process
    <2>3. Become(p, t) BY <1>3
    <2> HIDE DEF t
    <2>4. proc'[p] = t /\ Others(p) BY <2>3, BecomeFacts DEF GuestInv, Others
    <2>5. Mounts(p) BY <1>1, <1>3, <2>2, <2>4 DEF Mounts
    <2> QED BY <1>1, <2>4, <2>5 DEF Turn, At
  <1> QED BY <1>2, <1>3, NoCallFails DEF EnsureMount, Mounted, NextMount

LEMMA AfterPackagesIs ==
  ASSUME GuestInv, NEW p \in Procs, AfterPackages(p)
  PROVE  /\ proc'[p].pc \in {"image", "transfer"} /\ proc'[p].id = proc[p].id
         /\ Others(p)
  <1>1. PICK step \in {"image", "transfer"} : Goto(p, step) BY DEF AfterPackages
  <1> QED BY <1>1, GotoIs DEF Others

LEMMA BootstrapTurn ==
  ASSUME GuestInv, Unbroken, Way, NEW p \in Procs, faults' = 0, Bootstrap(p)
  PROVE  Turn(p)
  <1>1. At(p, "bootstrap") /\ UNCHANGED <<vm, packages, mounts, dirs, served>>
    BY DEF Bootstrap, guest
  <1>2. vm # "absent" /\ proc[p].id \in dirs BY <1>1, PastLaunch, HasDir DEF At, DirMade
  <1>3. CASE packages = "installed" /\ AfterPackages(p) /\ apt' = apt
    <2>1. GoesOn(p) BY <1>1, <1>2, <1>3, AfterPackagesIs DEF GoesOn, At
    <2> QED BY <1>1, <1>3, <2>1, AfterPackagesIs DEF Turn, At
  <1>4. CASE apt' = p /\ Goto(p, "packages")
    <2>1. GoesOn(p) BY <1>1, <1>2, <1>4, GotoIs DEF GoesOn, At
    <2> QED BY <1>1, <1>4, <2>1, GotoIs DEF Turn, Others, At
  <1>5. CASE packages = "missing" /\ apt # None /\ Fail(p) /\ apt' = apt
    <2>1. proc'[p].pc = "idle" /\ Others(p) BY <1>5, FailIs DEF Fail, Others
    <2>2. Ends(p) BY <1>1, <1>5, <2>1 DEF Ends, Refused, World
    <2> QED BY <1>1, <2>1, <2>2 DEF Turn, At
  <1> QED BY <1>3, <1>4, <1>5, NoCallFails DEF Bootstrap, Unbroken

LEMMA PackagesTurn ==
  ASSUME GuestInv, Way, NEW p \in Procs, faults' = 0, Packages(p) PROVE Turn(p)
  <1>1. /\ At(p, "packages") /\ apt' = None /\ AfterPackages(p)
        /\ UNCHANGED <<vm, mounts, dirs, served>>
    BY NoCallFails DEF Packages, guest
  <1>2. vm # "absent" /\ proc[p].id \in dirs BY <1>1, PastLaunch, HasDir DEF At, DirMade
  <1>3. GoesOn(p) BY <1>1, <1>2, AfterPackagesIs DEF GoesOn, At
  <1> QED BY <1>1, <1>3, AfterPackagesIs DEF Turn, At

LEMMA RunTurn ==
  ASSUME GuestInv, NEW p \in Procs, Run(p) PROVE Turn(p)
  <1>1. At(p, "run") /\ Become(p, Idle) /\ UNCHANGED World /\ served'
    BY DEF Run, World, instance, guest
  <1> QED BY <1>1, FailIs DEF Turn, Ends, Others, At

LEMMA StepTurn ==
  ASSUME GuestInv, Unbroken, Way, NEW p \in Procs, faults' = 0, Step(p) PROVE Turn(p)
  BY InfoTurn, LaunchTurn, LaunchEndsTurn, StartTurn, BuildTurn, DigestTurn, MakeDirsTurn,
     LookTurn, EnsureMountTurn, BootstrapTurn, PackagesTurn, TransferTurn, RunTurn
  DEF Step

\* What a command that mounts has before it.
LEMMA ToMountIs ==
  ASSUME GuestInv, NEW p \in Procs, At(p, "mount")
  PROVE  LET d    == Head(proc[p].left)
             left == Tail(proc[p].left)
         IN  /\ proc[p].dir \in Dir /\ d \in Dir /\ d \in {Repo, proc[p].dir}
             /\ \A e \in Dir : proc[p].seen[e] # None => mounts[e] = proc[p].seen[e]
             /\ d # Repo => left = <<>> /\ mounts[Repo] = Repo
             /\ left # <<>> => d = Repo /\ proc[p].dir # Repo /\ Head(left) = proc[p].dir
  <1>1. proc[p].dir \in Dir BY OwnHand DEF Process
  <1>2. MountsOK(proc[p], mounts) BY OwnHand DEF HandOK, At
  <1>3. CASE proc[p].left = <<Repo>>
    <2>1. Head(<<Repo>>) = Repo /\ Tail(<<Repo>>) = <<>> OBVIOUS
    <2> QED BY <1>1, <1>2, <1>3, <2>1, RepoAssumption DEF MountsOK
  <1>4. CASE proc[p].left = <<Repo, proc[p].dir>> /\ proc[p].dir # Repo
    <2>1. /\ Head(<<Repo, proc[p].dir>>) = Repo
          /\ Tail(<<Repo, proc[p].dir>>) = <<proc[p].dir>>
          /\ Head(<<proc[p].dir>>) = proc[p].dir
      OBVIOUS
    <2> QED BY <1>1, <1>2, <1>4, <2>1, RepoAssumption DEF MountsOK
  <1>5. CASE proc[p].left = <<proc[p].dir>> /\ proc[p].dir # Repo /\ mounts[Repo] = Repo
    <2>1. Head(<<proc[p].dir>>) = proc[p].dir /\ Tail(<<proc[p].dir>>) = <<>> OBVIOUS
    <2> QED BY <1>1, <1>2, <1>5, <2>1, RepoAssumption DEF MountsOK
  <1> QED BY <1>1, <1>2, <1>3, <1>4, <1>5, ToMountFacts DEF MountsOK

\* What a mount leaves of the others, whether it was there or is made.
LEMMA MountFacts ==
  ASSUME GuestInv, NEW p \in Procs, Mounts(p)
  PROVE  LET d == Head(proc[p].left)
         IN  /\ mounts'[d] = d
             /\ \A e \in Dir \ {d} : mounts'[e] = mounts[e]
             /\ mounts[d] \in {d, None}
  <1>1. At(p, "mount") BY DEF Mounts
  <1>2. mounts \in [Dir -> Dir \cup {None}] /\ None \notin Dir
    BY NoneAssumption DEF GuestInv, WorldOK
  <1> QED BY <1>1, <1>2, ToMountIs DEF Mounts

LEMMA TurnNotLaunched ==
  ASSUME GuestInv, Way, NEW p \in Procs, Turn(p) PROVE NotLaunched'
  <1> SUFFICES ASSUME vm' = "absent", NEW q \in Procs
               PROVE  proc'[q].pc \in {"idle", "info", "launch"}
    BY DEF NotLaunched
  <1>1. ~GoesOn(p) BY DEF GoesOn
  <1>2. vm = "absent" BY <1>1 DEF Turn, ToLaunch, Looks, Mounts, Ends, World
  <1>3. \A r \in Procs : proc[r].pc \in {"idle", "info", "launch"}
    BY <1>2 DEF Way, NotLaunched
  <1>4. proc'[p].pc \in {"idle", "info", "launch"}
    BY <1>1, <1>3 DEF Turn, ToLaunch, Looks, Mounts, Ends, At
  <1> QED BY <1>3, <1>4 DEF Turn, Others

LEMMA TurnGuestWatched ==
  ASSUME GuestInv, Way, NEW p \in Procs, Turn(p) PROVE GuestWatched'
  <1> SUFFICES ASSUME apt' = "guest", apt' # None
               PROVE  vm' = "starting" /\ \E q \in Procs : proc'[q].pc = "launching"
    BY DEF GuestWatched, At
  <1>1. CASE GoesOn(p) /\ proc'[p].pc = "launching" /\ vm' = "starting" BY <1>1
  <1>2. CASE GoesOn(p) /\ apt' \in {apt, p, None} /\ (At(p, "launching") => vm # "starting")
    <2>1. apt = "guest" /\ apt # None BY <1>2, ProcAssumption
    <2>2. PICK q \in Procs : At(q, "launching") /\ vm = "starting"
      BY <2>1 DEF Way, GuestWatched
    <2>3. q # p /\ vm' = "starting" BY <1>2, <2>2 DEF GoesOn
    <2> QED BY <2>2, <2>3 DEF Turn, Others, At
  <1>3. CASE ToLaunch(p) \/ Looks(p) \/ Mounts(p) \/ Ends(p)
    <2>1. apt' = apt /\ vm' = vm BY <1>3 DEF ToLaunch, Looks, Mounts, Ends, World
    <2>2. PICK q \in Procs : At(q, "launching") /\ vm = "starting"
      BY <2>1 DEF Way, GuestWatched
    <2>3. CASE q # p BY <2>1, <2>2, <2>3 DEF Turn, Others, At
    <2>4. CASE q = p BY <1>3, <2>2, <2>4 DEF ToLaunch, Looks, Mounts, Ends, Refused, At
    <2> QED BY <2>3, <2>4
  <1> QED BY <1>1, <1>2, <1>3 DEF Turn, GoesOn

LEMMA TurnDirsStay ==
  ASSUME GuestInv, Way, NEW p \in Procs, Turn(p) PROVE DirsStay'
  <1>1. dirs \subseteq dirs' BY DEF Turn, GoesOn, ToLaunch, Looks, Mounts, Ends, World
  <1>2. ASSUME NEW q \in Procs, q # p, proc'[q].pc \in DirMade PROVE proc'[q].id \in dirs'
    BY <1>1, <1>2 DEF Turn, Others, Way, DirsStay
  <1>3. proc'[p].pc \in DirMade => proc'[p].id \in dirs'
    <2>1. CASE GoesOn(p) BY <2>1 DEF GoesOn
    <2>2. CASE ToLaunch(p) \/ Ends(p) BY <2>2 DEF ToLaunch, Ends, DirMade
    <2>3. CASE Looks(p) \/ Mounts(p)
      BY <1>1, <2>3, HasDir DEF Looks, Mounts, At, DirMade
    <2> QED BY <2>1, <2>2, <2>3 DEF Turn
  <1> QED BY <1>2, <1>3 DEF DirsStay

LEMMA TurnCheckoutFirst ==
  ASSUME GuestInv, Way, NEW p \in Procs, Turn(p) PROVE CheckoutFirst'
  <1> SUFFICES ASSUME NEW q \in Procs, NEW e \in Dir \ {Repo}, proc'[q].pc = "mount",
                      proc'[q].seen[e] = None, mounts'[e] = e
               PROVE  mounts'[Repo] = Repo
    BY DEF CheckoutFirst, At
  <1>1. ASSUME q # p, mounts[e] = e PROVE mounts[Repo] = Repo
    BY <1>1 DEF Turn, Others, Way, CheckoutFirst, At
  <1>2. CASE Mounts(p)
    <2> DEFINE d == Head(proc[p].left)
    <2>1. mounts'[d] = d /\ \A x \in Dir \ {d} : mounts'[x] = mounts[x] BY <1>2, MountFacts
    <2>2. At(p, "mount") /\ Repo \in Dir BY <1>2, RepoAssumption DEF Mounts
    <2>3. d # Repo => mounts[Repo] = Repo /\ proc'[p].pc # "mount"
      BY <1>2, <2>2, ToMountIs DEF Mounts
    <2> HIDE DEF d
    <2>4. CASE d = Repo BY <2>1, <2>4
    <2>5. CASE d # Repo BY <2>1, <2>2, <2>3, <2>5
    <2> QED BY <2>4, <2>5
  <1>3. CASE GoesOn(p) \/ ToLaunch(p) \/ Looks(p) \/ Ends(p)
    <2>1. mounts' = mounts BY <1>3 DEF GoesOn, ToLaunch, Looks, Ends, World
    <2>2. CASE q # p BY <1>1, <2>1, <2>2
    <2>3. CASE q = p
      <3>1. proc'[p].seen = mounts BY <1>3, <2>3 DEF GoesOn, ToLaunch, Looks, Ends
      <3> QED BY <2>1, <2>3, <3>1, NoneAssumption
    <2> QED BY <2>2, <2>3
  <1> QED BY <1>2, <1>3 DEF Turn

-----------------------------------------------------------------------------
(* Whoever goes on leaves someone clear.                                   *)

\* A command that has its mounts goes on, or waits for one that does.
LEMMA BootstrapClear ==
  ASSUME GuestInv', GuestWatched', NEW p \in Procs, proc'[p].pc = "bootstrap"
  PROVE  \E q \in Procs : ~At(q, "idle")' /\ ~Stuck(q)'
  <1>1. CASE packages' # "missing" \/ apt' = None BY <1>1 DEF Stuck, At
  <1>2. CASE apt' = "guest" /\ apt' # None
    <2>1. PICK q \in Procs : proc'[q].pc = "launching" BY <1>2 DEF GuestWatched, At
    <2> QED BY <2>1 DEF Stuck, At
  <1>3. CASE apt' \in Procs BY <1>3 DEF GuestInv, AptOK, Stuck, At
  <1> QED BY <1>1, <1>2, <1>3 DEF GuestInv, WorldOK

\* A command that has looked at the mounts may make what it did not find.
LEMMA LooksClear ==
  ASSUME GuestInv, NEW p \in Procs, Looks(p) PROVE ~At(p, "idle")' /\ ~Stuck(p)'
  <1>1. ~Blocked(proc'[p], mounts') BY DEF Looks, World, Blocked
  <1> QED BY <1>1 DEF Looks, Stuck, At

\* A command that made its first mount finds the second as it was.
LEMMA MountsClear ==
  ASSUME GuestInv, Way, OursOnly, NEW p \in Procs, Mounts(p), proc'[p].pc = "mount",
         mounts' # mounts
  PROVE  ~At(p, "idle")' /\ ~Stuck(p)'
  <1> DEFINE d    == Head(proc[p].left)
             left == Tail(proc[p].left)
             dir  == proc[p].dir
  <1>1. At(p, "mount") /\ left # <<>> /\ proc[p].seen[d] = None /\ mounts[d] = None
    BY DEF Mounts
  <1>2. d = Repo /\ dir \in Dir /\ dir # Repo /\ Head(left) = dir
    BY <1>1, ToMountIs
  <1>3. proc'[p].dir = dir /\ proc'[p].seen = proc[p].seen /\ proc'[p].left = left
    BY DEF Mounts
  <1>4. mounts'[dir] = mounts[dir] BY <1>2, MountFacts
  <1>5. ASSUME proc[p].seen[dir] = None PROVE mounts[dir] = None
    <2>1. mounts[dir] = dir => mounts[Repo] = Repo
      BY <1>1, <1>2, <1>5 DEF Way, CheckoutFirst
    <2>2. mounts[dir] \in {None, dir} /\ Repo # None
      BY <1>2, RepoAssumption, NoneAssumption DEF OursOnly
    <2> QED BY <1>1, <1>2, <2>1, <2>2
  <1> HIDE DEF d, left, dir
  <1>6. ~Blocked(proc'[p], mounts') BY <1>2, <1>3, <1>4, <1>5 DEF Blocked
  <1> QED BY <1>6 DEF Stuck, At

\* What is refused was stuck.
LEMMA RefusedStuck ==
  ASSUME GuestInv, OursOnly, NEW p \in Procs, Refused(p) PROVE Stuck(p)
  <1>1. CASE At(p, "launch") /\ vm # "absent" BY <1>1 DEF Stuck
  <1>2. CASE At(p, "bootstrap") /\ packages = "missing" /\ apt # None BY <1>2 DEF Stuck
  <1>3. ASSUME At(p, "mount"), NEW d, d = Head(proc[p].left), proc[p].seen[d] # d,
               proc[p].seen[d] # None \/ mounts[d] # None
        PROVE  Stuck(p)
    <2>1. /\ d \in Dir /\ d \in {Repo, proc[p].dir}
          /\ proc[p].seen[d] # None => mounts[d] = proc[p].seen[d]
      BY <1>3, ToMountIs
    <2>2. proc[p].seen[d] = None /\ mounts[d] # None
      BY <1>3, <2>1 DEF OursOnly
    <2>3. Blocked(proc[p], mounts) BY <1>3, <2>1, <2>2 DEF Blocked
    <2> QED BY <1>3, <2>3 DEF Stuck
  <1> QED BY <1>1, <1>2, <1>3 DEF Refused

\* The others are as they were, where the step changes nothing they wait for.
LEMMA OthersStuck ==
  ASSUME NEW p \in Procs, Others(p), NEW q \in Procs \ {p}, UNCHANGED World, ~Stuck(q),
         ~At(q, "idle")
  PROVE  ~Stuck(q)' /\ ~At(q, "idle")'
  BY DEF Others, World, Stuck, At

LEMMA TurnClear ==
  ASSUME GuestInv, GuestInv', Way, GuestWatched', SomeoneIsClear, NEW p \in Procs, Turn(p)
  PROVE  SomeoneIsClear'
  <1> SUFFICES ASSUME OursOnly', ~Quiescent', ~served'
               PROVE  \E q \in Procs : ~At(q, "idle")' /\ ~Stuck(q)'
    BY DEF SomeoneIsClear
  <1>1. CASE proc'[p].pc \notin {"idle", "launch", "mount", "bootstrap"}
    BY <1>1 DEF Stuck, At
  <1>2. CASE proc'[p].pc = "bootstrap" BY <1>2, BootstrapClear
  <1>3. CASE ToLaunch(p) BY <1>3 DEF ToLaunch, World, Stuck, At
  <1>4. CASE Looks(p) BY <1>4, LooksClear
  <1>5. ASSUME OursOnly PROVE \E q \in Procs : ~At(q, "idle") /\ ~Stuck(q)
    <2>1. ~Quiescent BY DEF Turn, Quiescent
    <2>2. ~served
      BY DEF Turn, GoesOn, ToLaunch, Looks, Mounts, Ends, World
    <2> QED BY <1>5, <2>1, <2>2 DEF SomeoneIsClear
  <1>6. CASE Mounts(p) /\ proc'[p].pc = "mount"
    <2> DEFINE d == Head(proc[p].left)
    <2>1. mounts[d] \in {d, None} /\ \A e \in Dir \ {d} : mounts'[e] = mounts[e]
      BY <1>6, MountFacts
    <2>2. OursOnly BY <2>1 DEF OursOnly
    <2>3. CASE mounts' # mounts BY <1>6, <2>2, <2>3, MountsClear
    <2>4. CASE mounts' = mounts
      <3>1. UNCHANGED World BY <1>6, <2>4 DEF Mounts, World
      <3>2. PICK q \in Procs : ~At(q, "idle") /\ ~Stuck(q) BY <1>5, <2>2
      <3>3. CASE q # p BY <3>1, <3>2, <3>3, OthersStuck DEF Turn
      <3>4. CASE q = p
        <4>1. At(p, "mount") /\ ~Blocked(proc[p], mounts)
          BY <1>6, <3>2, <3>4 DEF Mounts, Stuck
        <4>2. /\ d = Repo /\ Head(Tail(proc[p].left)) = proc[p].dir
              /\ proc[p].dir # Repo /\ proc[p].seen[d] = d
          <5>1. proc[p].seen[d] = None => mounts' # mounts
            <6> SUFFICES ASSUME proc[p].seen[d] = None, mounts' = mounts PROVE FALSE OBVIOUS
            <6>1. d \in Dir /\ d # None BY <4>1, ToMountIs, NoneAssumption
            <6>2. mounts[d] = None BY <1>6, <6>1 DEF Mounts
            <6> QED BY <1>6, <6>1, <6>2, MountFacts
          <5> QED BY <1>6, <2>4, <4>1, <5>1, ToMountIs DEF Mounts
        <4>3. ~Blocked(proc'[p], mounts')
          BY <1>6, <2>4, <4>1, <4>2 DEF Mounts, Blocked
        <4> QED BY <1>6, <4>3 DEF Stuck, At
      <3> QED BY <3>3, <3>4
    <2> QED BY <2>3, <2>4
  <1>7. CASE Ends(p)
    <2>1. UNCHANGED World /\ Refused(p) BY <1>7 DEF Ends
    <2>2. OursOnly BY <2>1 DEF OursOnly, World
    <2>3. PICK q \in Procs : ~At(q, "idle") /\ ~Stuck(q) BY <1>5, <2>2
    <2>4. q # p BY <2>1, <2>2, <2>3, RefusedStuck
    <2> QED BY <2>1, <2>3, <2>4, OthersStuck DEF Turn
  <1> QED BY <1>1, <1>2, <1>3, <1>4, <1>6, <1>7 DEF Turn, GoesOn, Mounts

-----------------------------------------------------------------------------
(* The surroundings leave it so.                                           *)

LEMMA KillFaults == ASSUME GuestInv, NEW p \in Procs, Kill(p) PROVE faults' # 0
  BY NoCallFails DEF Kill

LEMMA BeginIs ==
  ASSUME GuestInv, NEW p \in Procs, NEW dir \in Dir, NEW image \in BOOLEAN, Begin(p, dir, image)
  PROVE  proc'[p].pc = "info" /\ Others(p)
  <1> DEFINE s == [Idle EXCEPT !.pc = "info", !.dir = dir, !.image = image]
  <1>1. s.pc = "info" BY DEF Idle
  <1>2. Become(p, s) BY DEF Begin
  <1> HIDE DEF s
  <1> QED BY <1>1, <1>2, BecomeFacts DEF GuestInv, Others

LEMMA BeginWay ==
  ASSUME GuestInv, WayInv, faults' = 0,
         NEW p \in Procs, NEW dir \in Dir, NEW image \in BOOLEAN, Begin(p, dir, image)
  PROVE  Way' /\ SomeoneIsClear'
  <1>1. proc'[p].pc = "info" /\ Others(p) /\ At(p, "idle") BY BeginIs DEF Begin
  <1>2. UNCHANGED World /\ Way BY DEF Begin, WayInv, World, instance, guest
  <1>3. NotLaunched' BY <1>1, <1>2 DEF Way, NotLaunched, World, Others
  <1>4. GuestWatched' BY <1>1, <1>2 DEF Way, GuestWatched, World, Others, At
  <1>5. DirsStay' BY <1>1, <1>2 DEF Way, DirsStay, DirMade, World, Others
  <1>6. CheckoutFirst' BY <1>1, <1>2 DEF Way, CheckoutFirst, World, Others, At
  <1>7. SomeoneIsClear' BY <1>1 DEF SomeoneIsClear, Stuck, At
  <1> QED BY <1>3, <1>4, <1>5, <1>6, <1>7 DEF Way

\* Nobody at work, nobody waits.
LEMMA QuiescentWay ==
  ASSUME GuestInv, Way, Quiescent, proc' = proc, apt' \in {apt, None}
  PROVE  Way' /\ SomeoneIsClear'
  <1>1. \A q \in Procs : proc'[q].pc = "idle" BY DEF Quiescent, At
  <1>2. ~(apt = "guest" /\ apt # None) BY <1>1 DEF Way, GuestWatched, At
  <1>3. NotLaunched' /\ DirsStay' /\ CheckoutFirst'
    BY <1>1 DEF NotLaunched, DirsStay, DirMade, CheckoutFirst, At
  <1>4. GuestWatched' BY <1>2 DEF GuestWatched
  <1>5. SomeoneIsClear' BY <1>1 DEF SomeoneIsClear, Quiescent, At
  <1> QED BY <1>3, <1>4, <1>5 DEF Way

\* The user mounts something else at a path of ours.
LEMMA UserActsWay ==
  ASSUME GuestInv, WayInv, faults' = 0, UserActs PROVE Way' /\ SomeoneIsClear'
  <1>1. Way /\ proc' = proc BY DEF UserActs, WayInv
  <1>2. CASE Quiescent
    <2>1. apt' \in {apt, None} BY DEF UserActs, instance
    <2> QED BY <1>1, <1>2, <2>1, QuiescentWay
  <1>3. CASE ~Quiescent
    <2>1. PICK d \in Dir :
            mounts[d] = None /\ \E other \in Dir \ {d} : mounts' = [mounts EXCEPT ![d] = other]
      BY <1>3 DEF UserActs
    <2>2. UNCHANGED <<vm, packages, apt, dirs>> BY <1>3 DEF UserActs, instance
    <2>3. /\ mounts'[d] \notin {d, None} /\ None \notin Dir /\ Repo \in Dir
          /\ \A e \in Dir \ {d} : mounts'[e] = mounts[e]
      BY <2>1, NoneAssumption, RepoAssumption DEF GuestInv, WorldOK
    <2>4. NotLaunched' /\ DirsStay' BY <1>1, <2>2 DEF Way, NotLaunched, DirsStay
    <2>5. GuestWatched' BY <1>1, <2>2 DEF Way, GuestWatched, At
    <2>6. CheckoutFirst' BY <1>1, <2>1, <2>3 DEF Way, CheckoutFirst, At
    <2>7. SomeoneIsClear' BY <2>3 DEF SomeoneIsClear, OursOnly
    <2> QED BY <2>4, <2>5, <2>6, <2>7 DEF Way
  <1> QED BY <1>2, <1>3

LEMMA GuestInstallsWay ==
  ASSUME GuestInv, WayInv, faults' = 0, GuestInstalls PROVE Way' /\ SomeoneIsClear'
  <1>1. /\ Way /\ SomeoneIsClear /\ proc' = proc /\ apt' = None
        /\ UNCHANGED <<mounts, dirs, served>> /\ (vm' = "absent" <=> vm = "absent")
    BY NoFault DEF GuestInstalls, WayInv, guest
  <1>2. NotLaunched' /\ DirsStay' BY <1>1 DEF Way, NotLaunched, DirsStay
  <1>3. GuestWatched' BY <1>1 DEF GuestWatched
  <1>4. CheckoutFirst' BY <1>1 DEF Way, CheckoutFirst, At
  <1>5. SomeoneIsClear' BY <1>1 DEF SomeoneIsClear, OursOnly, Quiescent, Stuck, At
  <1> QED BY <1>2, <1>3, <1>4, <1>5 DEF Way

LEMMA FaultsStay == ASSUME GuestInv, [Next]_vars, faults' = 0 PROVE faults = 0
  <1>1. faults' = faults \/ Fault
    <2>1. ASSUME NEW p \in Procs, Step(p) PROVE faults' = faults \/ Fault
      BY <2>1 DEF Step, Info, Launch, LaunchEnds, Start, Uname, Digest, StatCached, GoBuild,
           InstallBuild, MakeDirs, Look, EnsureMount, Bootstrap, Packages, Image, Transfer,
           TransferEnds, Chmod, Move, Run, Pass, CallFails
    <2> QED BY <2>1 DEF Next, vars, Kill, CallFails, Begin, UserActs, GuestInstalls
  <1> QED BY <1>1, NoFault

\* Only a call that fails, or a stop while the guest installs, breaks packages.
LEMMA UnbrokenStays ==
  ASSUME GuestInv, WayInv, [Next]_vars, faults' = 0 PROVE Unbroken'
  <1>1. Unbroken /\ Way BY FaultsStay DEF WayInv
  <1>2. ASSUME NEW p \in Procs, Step(p) PROVE Unbroken'
    <2>1. ~CallFails(p) BY NoCallFails
    <2> QED BY <1>1, <1>2, <2>1 DEF Unbroken, Step, Info, Launch, LaunchEnds, Start, Uname,
              Digest, StatCached, GoBuild, InstallBuild, MakeDirs, Look, EnsureMount, Bootstrap,
              Packages, Image, Transfer, TransferEnds, Chmod, Move, Run, Pass, instance
  <1>3. CASE UserActs
    <2>1. Quiescent => apt # "guest" \/ apt = None
      BY <1>1 DEF Way, GuestWatched, Quiescent, At
    <2>2. Quiescent => apt \notin Procs BY DEF Quiescent, GuestInv, AptOK, At
    <2>3. Quiescent => apt = None BY <2>1, <2>2 DEF GuestInv, WorldOK
    <2> QED BY <1>1, <1>3, <2>3 DEF UserActs, Unbroken, instance
  <1>4. CASE GuestInstalls BY <1>4, NoFault DEF GuestInstalls, Unbroken
  <1>5. CASE UNCHANGED vars BY <1>1, <1>5 DEF vars, Unbroken
  <1> QED BY <1>1, <1>2, <1>3, <1>4, <1>5, KillFaults DEF Next, Begin, Unbroken, instance

LEMMA InitWay == Init => WayInv
  <1> SUFFICES ASSUME Init PROVE Way /\ SomeoneIsClear BY DEF WayInv, Init, Unbroken
  <1>1. \A p \in Procs : proc[p].pc = "idle" BY DEF Init, Idle
  <1>2. NotLaunched /\ DirsStay /\ CheckoutFirst
    BY <1>1 DEF NotLaunched, DirsStay, DirMade, CheckoutFirst, At
  <1>3. GuestWatched BY DEF Init, GuestWatched
  <1>4. SomeoneIsClear BY <1>1 DEF SomeoneIsClear, Quiescent, At
  <1> QED BY <1>2, <1>3, <1>4 DEF Way

LEMMA NextWay == GuestInv /\ GuestInv' /\ WayInv /\ [Next]_vars => WayInv'
  <1> SUFFICES ASSUME GuestInv, GuestInv', WayInv, [Next]_vars, faults' = 0
               PROVE  Way' /\ SomeoneIsClear'
    BY UnbrokenStays DEF WayInv
  <1>1. Unbroken /\ Way /\ SomeoneIsClear BY FaultsStay DEF WayInv
  <1>2. ASSUME NEW p \in Procs, Step(p) PROVE Way' /\ SomeoneIsClear'
    <2>1. Turn(p) BY <1>1, <1>2, StepTurn
    <2>2. Way'
      BY <1>1, <2>1, TurnNotLaunched, TurnGuestWatched, TurnDirsStay, TurnCheckoutFirst DEF Way
    <2>3. GuestWatched' BY <2>2 DEF Way
    <2> QED BY <1>1, <2>1, <2>2, <2>3, TurnClear
  <1>3. CASE UNCHANGED vars
    BY <1>1, <1>3 DEF vars, Way, NotLaunched, GuestWatched, DirsStay, CheckoutFirst,
       SomeoneIsClear, OursOnly, Quiescent, Stuck, At
  <1> QED BY <1>2, <1>3, KillFaults, BeginWay, UserActsWay, GuestInstallsWay DEF Next

\* While no call has failed, commands that prepare the guest at once never all
\* wait for one another: the calls of one of them are not refused.
THEOREM WayIsClear == Spec => []WayInv
  BY GuestInvariant, InitWay, NextWay, PTL DEF Spec

\* When the last of the commands that prepare one guest at once ends, and no
\* call failed, one of them has run (multipass.go 320-341, 541-549).
THEOREM SomeoneGetsThrough == Spec => SomeoneIsServed
  <1>1. GuestInv /\ WayInv /\ [Next]_vars
          => [~Quiescent /\ Quiescent' /\ faults' = 0 /\ OursOnly => served']_vars
    <2> SUFFICES ASSUME GuestInv, WayInv, Next, ~Quiescent, Quiescent', faults' = 0, OursOnly
                 PROVE  served'
      OBVIOUS
    <2>1. Unbroken /\ Way /\ SomeoneIsClear BY FaultsStay DEF WayInv
    <2>2. ASSUME NEW p \in Procs, Step(p) PROVE served'
      <3>1. Turn(p) BY <2>1, <2>2, StepTurn
      <3>2. proc'[p].pc = "idle" BY DEF Quiescent, At
      <3>3. Ends(p) BY <3>1, <3>2 DEF Turn, GoesOn, ToLaunch, Looks, Mounts
      <3>4. ASSUME ~served PROVE ~Refused(p)
        <4>1. PICK q \in Procs : ~At(q, "idle") /\ ~Stuck(q)
          BY <2>1, <3>4 DEF SomeoneIsClear
        <4>2. q = p BY <3>1, <4>1 DEF Turn, Others, Quiescent, At
        <4> QED BY <4>1, <4>2, RefusedStuck
      <3> QED BY <3>3, <3>4 DEF Ends
    <2>3. ASSUME NEW p \in Procs, NEW dir \in Dir, NEW image \in BOOLEAN, Begin(p, dir, image)
          PROVE  FALSE
      BY <2>3, BeginIs DEF Quiescent, At
    <2>4. CASE UserActs \/ GuestInstalls BY <2>4 DEF UserActs, GuestInstalls, Quiescent, At
    <2> QED BY <2>2, <2>3, <2>4, KillFaults DEF Next
  <1> QED BY <1>1, GuestInvariant, WayIsClear, PTL DEF Spec, SomeoneIsServed
=============================================================================
