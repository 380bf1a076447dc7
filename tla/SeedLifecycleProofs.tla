------------------------ MODULE SeedLifecycleProofs -------------------------
(***************************************************************************)
(* Theorems about SeedLifecycle, for every set of routers, scripts, daemons*)
(* and commands, and every bound.                                          *)
(***************************************************************************)
EXTENDS SeedLifecycle, TLAPS

Preparing == {"marker", "conf", "stat", "boot"}

\* Where an up is in its two loops over the routers.
Positions ==
    /\ pc \in {"clean"} \cup Preparing => i = 1 /\ ~ran
    /\ pc = "clean" => r = 1
    /\ pc = "purge" => cmd = "purge"
    /\ pc = "conf" /\ cmd = "reseed" => ~marker[This]

Exists(x) == conf[x] # NoFile /\ live[x] # NoFile

\* A router whose container runs was prepared, and is seeded or to be seeded.
Prepared ==
    /\ pc \in Preparing =>
         \A j \in 1..(r - 1) :
            Exists(Order[j]) /\ (Order[j] \in needsSeed \/ marker[Order[j]])
    /\ pc \in {"stat", "boot"} => conf[This] # NoFile
    /\ pc = "boot" => This \in needsSeed \/ marker[This]
    /\ pc \in {"command", "commit"} =>
         \A x \in Router : Exists(x) /\ (x \in needsSeed \/ marker[x])

Seeded(x) == Holds(conf[x], Seeds(x)) /\ Holds(live[x], Seeds(x))

\* A marker is true of frr.conf, and of what loaded it.
Marked ==
    \A x \in Router :
        marker[x] /\ x \notin cut =>
            /\ Holds(conf[x], Seeds(x))
            /\ live[x] # NoFile => Holds(live[x], Seeds(x))

\* What the second loop has done.
Progress ==
    /\ pc = "command" =>
         /\ \A j \in 1..(r - 1) : Order[j] \notin cut => Seeded(Order[j])
         /\ This \in needsSeed =>
              \A k \in Seeds(This) : k < i => conf[This][k] > 0 /\ live[This][k] > 0
         /\ ran => This \in needsSeed
    /\ pc = "commit" => \A x \in Router \ cut : Seeded(x)

\* What runs has all that is written.
Loaded ==
    \A x \in Router : Exists(x) => \A k \in Piece : live[x][k] >= conf[x][k]

\* The inductive invariant.
SeedInv == TypeOK /\ Positions /\ Prepared /\ Marked /\ Progress /\ Loaded

-----------------------------------------------------------------------------
(* Routers, scripts and configurations.                                    *)

LEMMA OrderFacts ==
  /\ Len(Order) \in Nat /\ Len(Order) >= 1 /\ DOMAIN Order = 1..Len(Order)
  /\ \A j \in 1..Len(Order) : Order[j] \in Router
  /\ \A x \in Router : \E j \in 1..Len(Order) : x = Order[j]
  /\ \A j, k \in 1..Len(Order) : Order[j] = Order[k] => j = k
  BY ScriptAssumption

LEMMA ScriptFacts ==
  ASSUME NEW x \in Router
  PROVE  /\ Len(Script[x]) \in Nat /\ DOMAIN Script[x] = 1..Len(Script[x])
         /\ 1..Len(Script[x]) \subseteq Piece /\ Seeds(x) \subseteq 1..Len(Script[x])
  <1>1. Script[x] \in Seq({"shell", "vtysh"}) BY ScriptAssumption
  <1>2. Len(Script[x]) \in Nat /\ DOMAIN Script[x] = 1..Len(Script[x]) BY <1>1
  <1>3. Len(Script[x]) <= MaxScript /\ MaxScript \in Nat BY ScriptAssumption
  <1> QED BY <1>2, <1>3 DEF Piece, Seeds

LEMMA ThisFact == ASSUME TypeOK PROVE r \in 1..Len(Order) /\ This \in Router
  BY OrderFacts DEF TypeOK, This

LEMMA ZeroPiece == 0 \in Piece BY ScriptAssumption DEF Piece

LEMMA ConfigIsFile == ASSUME NEW config \in Config PROVE config # NoFile
  <1>1. DOMAIN config = Piece BY DEF Config
  <1>2. DOMAIN NoFile = {} BY DEF NoFile
  <1> QED BY <1>1, <1>2, ZeroPiece

LEMMA BaseFacts == Base \in Config /\ \A k \in Piece : Base[k] = 0
  BY DEF Base, Config

LEMMA PlusFacts ==
  ASSUME NEW config \in Config, NEW k \in Piece
  PROVE  /\ Plus(config, k) \in Config
         /\ Plus(config, k)[k] > 0
         /\ \A j \in Piece : Plus(config, k)[j] >= config[j]
  <1>1. config \in [Piece -> Nat] BY DEF Config
  <1> DEFINE plus == [config EXCEPT ![k] = @ + 1]
  <1>2. plus \in [Piece -> Nat] BY <1>1
  <1>3. plus[k] = config[k] + 1 /\ config[k] \in Nat BY <1>1
  <1>4. ASSUME NEW j \in Piece PROVE plus[j] >= config[j]
    <2>1. CASE j = k BY <2>1, <1>3
    <2>2. CASE j # k
      <3>1. plus[j] = config[j] /\ config[j] \in Nat BY <2>2, <1>1
      <3> QED BY <3>1
    <2> QED BY <2>1, <2>2
  <1> QED BY <1>2, <1>3, <1>4 DEF Plus, Config

\* More of a configuration holds what it held.
LEMMA MoreHolds ==
  ASSUME NEW a \in Config, NEW b \in Config, NEW pieces \in SUBSET Piece,
         \A k \in Piece : b[k] >= a[k], Holds(a, pieces)
  PROVE  Holds(b, pieces)
  <1>1. ASSUME NEW k \in pieces PROVE b[k] > 0
    <2>1. a[k] > 0 /\ b[k] >= a[k] BY DEF Holds
    <2>2. a[k] \in Nat /\ b[k] \in Nat BY DEF Config
    <2> QED BY <2>1, <2>2
  <1> QED BY <1>1, ConfigIsFile DEF Holds

-----------------------------------------------------------------------------
(* Types.                                                                  *)

\* The parts of TypeOK that a group of variables has.
FilesOK == /\ marker \in [Router -> BOOLEAN] /\ cut \in SUBSET Router
           /\ conf \in [Router -> Config \cup {NoFile}]
DockerOK == /\ live \in [Router -> Config \cup {NoFile}]
            /\ running \in [Router -> SUBSET Daemon]
ControlOK ==
    /\ needsSeed \in SUBSET Router
    /\ pc \in {"idle", "clean", "rollback", "purge", "marker", "conf", "stat", "boot",
               "command", "commit"}
    /\ cmd \in Commands \cup {"none"}
    /\ r \in DOMAIN Order /\ i \in Nat \ {0}
    /\ waited \in BOOLEAN /\ ran \in BOOLEAN /\ polls \in 0..MaxPolls
CountsOK == commands \in Nat /\ faults \in Nat /\ edits \in Nat

LEMMA TypeParts == TypeOK <=> FilesOK /\ DockerOK /\ ControlOK /\ CountsOK
  BY DEF TypeOK, FilesOK, DockerOK, ControlOK, CountsOK

LEMMA TypePartsNext == TypeOK' <=> FilesOK' /\ DockerOK' /\ ControlOK' /\ CountsOK'
  BY DEF TypeOK, FilesOK, DockerOK, ControlOK, CountsOK

LEMMA FilesStay == ASSUME FilesOK, UNCHANGED files PROVE FilesOK' BY DEF FilesOK, files
LEMMA DockerStays == ASSUME DockerOK, UNCHANGED docker PROVE DockerOK' BY DEF DockerOK, docker
LEMMA ControlStays ==
  ASSUME ControlOK, UNCHANGED <<needsSeed, pc, cmd, loops>> PROVE ControlOK'
  BY DEF ControlOK, loops

LEMMA CountsGo ==
  ASSUME CountsOK, UNCHANGED bounds, UNCHANGED faults \/ Fault PROVE CountsOK'
  BY DEF CountsOK, bounds, Fault

\* A command returns or rolls back.
LEMMA StopType == ASSUME ControlOK, Return \/ RollBack PROVE ControlOK'
  BY DEF ControlOK, Return, RollBack, loops

LEMMA NextRouterType ==
  ASSUME ControlOK, NEW step, NEW done, NextRouter(step, done)
  PROVE  r' \in DOMAIN Order /\ pc' \in {step, done}
  <1>1. r \in 1..Len(Order) BY OrderFacts DEF ControlOK
  <1> QED BY <1>1, OrderFacts DEF NextRouter

LEMMA BeginType == ASSUME TypeOK, NEW c \in Commands, Begin(c) PROVE TypeOK'
  <1>1. FilesOK' /\ DockerOK' BY TypeParts, FilesStay, DockerStays DEF Begin
  <1>2. 1 \in DOMAIN Order /\ 0 \in 0..MaxPolls BY OrderFacts, BoundAssumption
  <1>3. ControlOK'
    <2>1. waited' \in BOOLEAN /\ ran' \in BOOLEAN BY DEF Begin
    <2>2. i' \in Nat \ {0} /\ needsSeed' \in SUBSET Router /\ cmd' \in Commands
      BY DEF Begin
    <2>3. r' \in DOMAIN Order' /\ polls' \in (0..MaxPolls)' BY <1>2 DEF Begin
    <2>4. pc' = "clean" BY DEF Begin
    <2> QED BY <2>1, <2>2, <2>3, <2>4 DEF ControlOK
  <1>4. CountsOK' BY TypeParts DEF Begin, CountsOK
  <1> QED BY <1>1, <1>3, <1>4, TypePartsNext

LEMMA KillType == ASSUME TypeOK, Kill PROVE TypeOK'
  BY TypeParts, TypePartsNext, FilesStay, DockerStays, StopType, CountsGo DEF Kill

LEMMA NoContainersType == ASSUME NoContainers PROVE DockerOK'
  BY DEF NoContainers, DockerOK

LEMMA CleanType == ASSUME TypeOK, Clean PROVE TypeOK'
  <1>1. DockerOK' BY TypeParts, NoContainersType, DockerStays DEF Clean
  <1>2. ControlOK' BY TypeParts, StopType DEF Clean, ControlOK, loops
  <1> QED BY <1>1, <1>2, TypeParts, TypePartsNext, FilesStay, CountsGo DEF Clean

LEMMA CleanAfterErrorType == ASSUME TypeOK, CleanAfterError PROVE TypeOK'
  <1>1. DockerOK' BY TypeParts, NoContainersType, DockerStays DEF CleanAfterError
  <1> QED BY <1>1, TypeParts, TypePartsNext, FilesStay, StopType, CountsGo DEF CleanAfterError

LEMMA PurgeFileType == ASSUME TypeOK, PurgeFile PROVE TypeOK'
  <1>1. FilesOK' BY TypeParts DEF PurgeFile, FilesOK
  <1>2. ControlOK' BY TypeParts, ControlStays DEF PurgeFile
  <1> QED BY <1>1, <1>2, TypeParts, TypePartsNext, DockerStays, CountsGo DEF PurgeFile

LEMMA PurgeEndsType == ASSUME TypeOK, PurgeEnds PROVE TypeOK'
  BY TypeParts, TypePartsNext, FilesStay, DockerStays, StopType, CountsGo DEF PurgeEnds

LEMMA RemoveMarkerType == ASSUME TypeOK, RemoveMarker PROVE TypeOK'
  <1>1. FilesOK' BY TypeParts DEF RemoveMarker, FilesOK
  <1>2. ControlOK' BY TypeParts, StopType DEF RemoveMarker, ControlOK, loops
  <1> QED BY <1>1, <1>2, TypeParts, TypePartsNext, DockerStays, CountsGo DEF RemoveMarker

LEMMA WriteBaseType == ASSUME TypeOK, WriteBase PROVE TypeOK'
  <1>1. FilesOK' BY TypeParts, BaseFacts DEF WriteBase, FilesOK
  <1>2. ControlOK' BY TypeParts, StopType DEF WriteBase, ControlOK, loops
  <1> QED BY <1>1, <1>2, TypeParts, TypePartsNext, DockerStays, CountsGo DEF WriteBase

LEMMA StatMarkerType == ASSUME TypeOK, StatMarker PROVE TypeOK'
  <1>1. ControlOK' BY TypeParts, ThisFact, StopType DEF StatMarker, ControlOK, loops
  <1> QED BY <1>1, TypeParts, TypePartsNext, FilesStay, DockerStays, CountsGo DEF StatMarker

LEMMA BootType == ASSUME TypeOK, Boot PROVE TypeOK'
  <1>1. DockerOK' BY TypeParts, ThisFact, DockerStays DEF Boot, DockerOK, FilesOK
  <1>2. ControlOK' BY TypeParts, StopType, NextRouterType DEF Boot, ControlOK
  <1> QED BY <1>1, <1>2, TypeParts, TypePartsNext, FilesStay, CountsGo DEF Boot

LEMMA DaemonType == ASSUME TypeOK, DaemonStarts \/ DaemonCrashes PROVE TypeOK'
  <1>1. DockerOK' BY TypeParts DEF DaemonStarts, DaemonCrashes, DockerOK
  <1>2. ControlOK' BY TypeParts, ControlStays DEF DaemonStarts, DaemonCrashes
  <1> QED BY <1>1, <1>2, TypeParts, TypePartsNext, FilesStay, CountsGo
      DEF DaemonStarts, DaemonCrashes

LEMMA SkipType == ASSUME TypeOK, RunShell \/ SkipSeed PROVE TypeOK'
  <1>1. ControlOK' BY TypeParts, StopType DEF RunShell, SkipSeed, NextCommand, ControlOK
  <1> QED BY <1>1, TypeParts, TypePartsNext, FilesStay, DockerStays, CountsGo
      DEF RunShell, SkipSeed

LEMMA WaitType == ASSUME TypeOK, WaitForVTYSH PROVE TypeOK'
  <1>1. ControlOK'
    <2>1. CASE RollBack BY <2>1, TypeParts, StopType
    <2>2. CASE polls < MaxPolls /\ Poll /\ UNCHANGED <<pc, cmd, needsSeed, r, i, waited, ran>>
      <3>1. polls' \in 0..MaxPolls
        BY <2>2, TypeParts, BoundAssumption DEF Poll, ControlOK
      <3> QED BY <2>2, <3>1, TypeParts DEF ControlOK
    <2>3. CASE waited' = TRUE /\ UNCHANGED <<pc, cmd, needsSeed, r, i, ran, polls>>
      BY <2>3, TypeParts DEF ControlOK
    <2> QED BY <2>1, <2>2, <2>3 DEF WaitForVTYSH
  <1> QED BY <1>1, TypeParts, TypePartsNext, FilesStay, DockerStays, CountsGo DEF WaitForVTYSH

LEMMA MarkType == ASSUME TypeOK, Mark PROVE TypeOK'
  <1>1. FilesOK' BY TypeParts, ThisFact DEF Mark, FilesOK, ControlOK
  <1>2. 0 \in 0..MaxPolls BY BoundAssumption
  <1>3. ControlOK'
    <2>1. CASE RollBack BY <2>1, TypeParts, StopType
    <2>2. CASE NextRouter("command", "commit") /\ ~RollBack
      <3>1. r' \in DOMAIN Order /\ pc' \in {"command", "commit"}
        BY <2>2, TypeParts, NextRouterType
      <3>2. waited' \in BOOLEAN /\ ran' \in BOOLEAN BY <2>2 DEF Mark
      <3>3. i' \in Nat \ {0} /\ polls' \in 0..MaxPolls BY <1>2, <2>2 DEF Mark
      <3>4. needsSeed' = needsSeed /\ cmd' = cmd BY <2>2 DEF Mark
      <3> QED BY <3>1, <3>2, <3>3, <3>4, TypeParts DEF ControlOK
    <2> QED BY <2>1, <2>2 DEF Mark
  <1> QED BY <1>1, <1>3, TypeParts, TypePartsNext, DockerStays, CountsGo DEF Mark

LEMMA CommitType == ASSUME TypeOK, Commit PROVE TypeOK'
  BY TypeParts, TypePartsNext, FilesStay, DockerStays, StopType, CountsGo DEF Commit

-----------------------------------------------------------------------------
(* Each action keeps the invariant.                                        *)

LEMMA TypeFacts ==
  ASSUME TypeOK, NEW x \in Router
  PROVE  /\ conf[x] \in Config \cup {NoFile} /\ live[x] \in Config \cup {NoFile}
         /\ conf[x] # NoFile => conf[x] \in Config
         /\ live[x] # NoFile => live[x] \in Config
         /\ Seeds(x) \in SUBSET Piece
  BY ScriptFacts DEF TypeOK

\* A command that stops only has to leave true markers and full containers.
LEMMA StopInv ==
  ASSUME TypeOK', pc' \in {"idle", "rollback"}, Marked', Loaded' PROVE SeedInv'
  BY DEF SeedInv, Positions, Prepared, Progress, Preparing

LEMMA SameFiles ==
  ASSUME Marked, Loaded, UNCHANGED <<marker, cut, conf, live>> PROVE Marked' /\ Loaded'
  <1>1. Marked' BY DEF Marked, Holds
  <1>2. Loaded' BY DEF Loaded, Exists
  <1> QED BY <1>1, <1>2

LEMMA NoContainersFiles ==
  ASSUME Marked, NoContainers, UNCHANGED <<marker, cut, conf>> PROVE Marked' /\ Loaded'
  <1>1. \A x \in Router : live'[x] = NoFile BY DEF NoContainers
  <1>2. Marked' BY <1>1 DEF Marked, Holds
  <1>3. Loaded' BY <1>1 DEF Loaded, Exists
  <1> QED BY <1>2, <1>3

LEMMA StopUnchanged ==
  ASSUME SeedInv, TypeOK', UNCHANGED <<files, live>>, Return \/ RollBack PROVE SeedInv'
  <1>1. Marked' /\ Loaded' BY SameFiles DEF SeedInv, files
  <1> QED BY <1>1, StopInv DEF Return, RollBack

\* Daemons, and the polls of a wait.
LEMMA QuietInv ==
  ASSUME SeedInv, TypeOK',
         UNCHANGED <<files, live, needsSeed, pc, cmd, r, i, ran>>
  PROVE  SeedInv'
  <1>1. Marked' /\ Loaded' BY SameFiles DEF SeedInv, files
  <1>2. Positions' BY DEF SeedInv, Positions, This, files
  <1>3. Prepared' BY DEF SeedInv, Prepared, Exists, This, files
  <1>4. Progress' BY DEF SeedInv, Progress, Seeded, Holds, This, files
  <1> QED BY <1>1, <1>2, <1>3, <1>4 DEF SeedInv

LEMMA BeginInv == ASSUME SeedInv, NEW c \in Commands, Begin(c) PROVE SeedInv'
  <1>1. TypeOK' BY BeginType DEF SeedInv
  <1>2. Marked' /\ Loaded' BY SameFiles DEF SeedInv, Begin, files, docker
  <1>3. pc' = "clean" /\ i' = 1 /\ ~ran' /\ r' = 1 BY DEF Begin
  <1>4. Positions' BY <1>3 DEF Positions
  <1>5. Prepared' /\ Progress' BY <1>3 DEF Prepared, Progress, Preparing
  <1> QED BY <1>1, <1>2, <1>4, <1>5 DEF SeedInv

LEMMA KillInv == ASSUME SeedInv, Kill PROVE SeedInv'
  BY KillType, StopUnchanged DEF Kill, SeedInv, docker

LEMMA CleanInv == ASSUME SeedInv, Clean PROVE SeedInv'
  <1>1. TypeOK' BY CleanType DEF SeedInv
  <1>2. CASE NoContainers
    <2>1. Marked' /\ Loaded' BY <1>2, NoContainersFiles DEF SeedInv, Clean, files
    <2>2. CASE Return BY <2>1, <2>2, <1>1, StopInv DEF Return
    <2>3. CASE pc' = "marker" /\ UNCHANGED <<cmd, needsSeed, loops>>
      <3>1. pc = "clean" BY DEF Clean
      <3>2. Positions' BY <2>3, <3>1 DEF SeedInv, Positions, loops
      <3>3. r' = 1 BY <2>3, <3>1 DEF SeedInv, Positions, loops
      <3>4. Prepared' /\ Progress' BY <2>3, <3>3 DEF Prepared, Progress
      <3> QED BY <1>1, <2>1, <3>2, <3>4 DEF SeedInv
    <2>4. CASE cmd = "purge" /\ pc' = "purge" /\ UNCHANGED <<cmd, needsSeed, loops>>
      <3>1. Positions' BY <2>4 DEF Positions, Preparing
      <3>2. Prepared' /\ Progress' BY <2>4 DEF Prepared, Progress, Preparing
      <3> QED BY <1>1, <2>1, <3>1, <3>2 DEF SeedInv
    <2> QED BY <1>2, <2>2, <2>3, <2>4, <1>1, StopUnchanged DEF Clean, docker
  <1>3. CASE Return /\ UNCHANGED docker
    BY <1>1, <1>3, StopUnchanged DEF Clean, docker
  <1> QED BY <1>2, <1>3 DEF Clean

LEMMA CleanAfterErrorInv == ASSUME SeedInv, CleanAfterError PROVE SeedInv'
  <1>1. TypeOK' BY CleanAfterErrorType DEF SeedInv
  <1>2. CASE NoContainers
    <2>1. Marked' /\ Loaded' BY <1>2, NoContainersFiles DEF SeedInv, CleanAfterError, files
    <2> QED BY <1>1, <2>1, StopInv DEF CleanAfterError, Return
  <1>3. CASE UNCHANGED docker
    BY <1>1, <1>3, StopUnchanged DEF CleanAfterError, docker
  <1> QED BY <1>2, <1>3 DEF CleanAfterError

LEMMA PurgeFileInv == ASSUME SeedInv, PurgeFile PROVE SeedInv'
  <1>1. TypeOK' BY PurgeFileType DEF SeedInv
  <1>2. live' = live /\ pc' = "purge" /\ pc = "purge" /\ cmd' = cmd
    BY DEF PurgeFile, docker
  <1>3. PICK x \in Router :
         \/ /\ marker' = [marker EXCEPT ![x] = FALSE]
            /\ cut' = cut \ {x} /\ UNCHANGED conf
         \/ /\ conf' = [conf EXCEPT ![x] = NoFile]
            /\ cut' = (IF marker[x] THEN cut \cup {x} ELSE cut)
            /\ UNCHANGED marker
    BY DEF PurgeFile
  <1>4. ASSUME NEW y \in Router, marker'[y], y \notin cut'
        PROVE  marker[y] /\ y \notin cut /\ conf'[y] = conf[y]
    BY <1>3, <1>4 DEF SeedInv, TypeOK
  <1>5. Marked' BY <1>2, <1>4 DEF SeedInv, Marked
  <1>6. \A y \in Router : conf'[y] \in {conf[y], NoFile} BY <1>3 DEF SeedInv, TypeOK
  <1>7. Loaded' BY <1>2, <1>6 DEF SeedInv, Loaded, Exists
  <1>8. Positions' /\ Prepared' /\ Progress'
    BY <1>2 DEF SeedInv, Positions, Prepared, Progress, Preparing
  <1> QED BY <1>1, <1>5, <1>7, <1>8 DEF SeedInv

LEMMA PurgeEndsInv == ASSUME SeedInv, PurgeEnds PROVE SeedInv'
  BY PurgeEndsType, StopUnchanged DEF PurgeEnds, SeedInv, docker

\* The routers before this one are others.
LEMMA Before ==
  ASSUME TypeOK, NEW j \in 1..(r - 1)
  PROVE  j \in 1..Len(Order) /\ Order[j] \in Router /\ Order[j] # This
  <1>1. r \in 1..Len(Order) BY ThisFact
  <1>2. j \in 1..Len(Order) /\ j # r BY <1>1, OrderFacts
  <1> QED BY <1>1, <1>2, OrderFacts DEF This

LEMMA RemoveMarkerInv == ASSUME SeedInv, RemoveMarker PROVE SeedInv'
  <1>1. TypeOK' BY RemoveMarkerType DEF SeedInv
  <1>2. CASE RollBack /\ UNCHANGED <<marker, cut>>
    BY <1>1, <1>2, StopUnchanged DEF RemoveMarker, files, docker
  <1>3. CASE /\ marker' = [marker EXCEPT ![This] = @ /\ cmd # "reseed"]
             /\ cut' = (IF marker'[This] THEN cut ELSE cut \ {This})
             /\ pc' = "conf" /\ UNCHANGED <<cmd, needsSeed, loops>>
    <2>1. pc = "marker" /\ conf' = conf /\ live' = live BY DEF RemoveMarker, docker
    <2>2. This \in Router /\ This' = This /\ r' = r
      BY <1>3, ThisFact DEF SeedInv, This, loops
    <2>3. marker'[This] => marker[This] /\ cmd # "reseed" /\ cut' = cut
      BY <1>3, <2>2 DEF SeedInv, TypeOK
    <2>4. \A y \in Router : y # This => marker'[y] = marker[y] /\ (y \in cut' <=> y \in cut)
      BY <1>3 DEF SeedInv, TypeOK
    <2>5. Marked' BY <2>1, <2>3, <2>4 DEF SeedInv, Marked
    <2>6. Loaded' BY <2>1 DEF SeedInv, Loaded, Exists
    <2>7. Positions' BY <1>3, <2>1, <2>2, <2>3 DEF SeedInv, Positions, Preparing, loops
    <2>8. Prepared'
      <3>1. ASSUME NEW j \in 1..(r - 1)
            PROVE  Exists(Order[j])' /\ (Order[j] \in needsSeed' \/ marker'[Order[j]])
        BY <1>3, <2>1, <2>4, Before DEF SeedInv, Prepared, Preparing, Exists
      <3> QED BY <1>3, <2>2, <3>1 DEF Prepared
    <2>9. Progress' BY <1>3 DEF Progress
    <2> QED BY <1>1, <2>5, <2>6, <2>7, <2>8, <2>9 DEF SeedInv
  <1> QED BY <1>2, <1>3 DEF RemoveMarker

\* frr.conf is only reset where no marker says that it is seeded.
LEMMA BaseFiles ==
  ASSUME SeedInv, pc = "conf", WritesConf, conf' = [conf EXCEPT ![This] = Base],
         UNCHANGED <<marker, cut, live>>
  PROVE  Marked' /\ Loaded'
  <1>1. This \in Router /\ conf'[This] = Base
    BY ThisFact DEF SeedInv, TypeOK
  <1>2. \A y \in Router : y # This => conf'[y] = conf[y] BY DEF SeedInv, TypeOK
  <1>3. ~(marker[This] /\ This \notin cut)
    BY <1>1 DEF SeedInv, Positions, Marked, WritesConf, Holds
  <1>4. Marked' BY <1>2, <1>3 DEF SeedInv, Marked
  <1>5. ASSUME NEW y \in Router, Exists(y)', NEW k \in Piece
        PROVE  live'[y][k] >= conf'[y][k]
    <2>1. CASE y = This
      <3>1. live[y] \in Config BY <1>5, TypeFacts DEF Exists, SeedInv
      <3>2. live[y][k] \in Nat BY <3>1 DEF Config
      <3> QED BY <1>1, <2>1, <3>2, BaseFacts
    <2>2. CASE y # This BY <1>2, <1>5, <2>2 DEF SeedInv, Loaded, Exists
    <2> QED BY <2>1, <2>2
  <1>6. Loaded' BY <1>5 DEF Loaded
  <1> QED BY <1>4, <1>6

LEMMA WriteBaseInv == ASSUME SeedInv, WriteBase PROVE SeedInv'
  <1>1. TypeOK' BY WriteBaseType DEF SeedInv
  <1>2. Marked' /\ Loaded' BY BaseFiles, SameFiles DEF WriteBase, SeedInv, docker
  <1>3. CASE RollBack BY <1>1, <1>2, <1>3, StopInv DEF RollBack
  <1>4. CASE /\ conf' = (IF WritesConf THEN [conf EXCEPT ![This] = Base] ELSE conf)
             /\ pc' = "stat" /\ UNCHANGED <<cmd, needsSeed, loops>>
    <2>1. pc = "conf" /\ live' = live /\ marker' = marker BY DEF WriteBase, docker
    <2>2. This \in Router /\ This' = This /\ r' = r
      BY <1>4, ThisFact DEF SeedInv, This, loops
    <2>3. conf'[This] # NoFile
      BY <1>4, <2>2, BaseFacts, ConfigIsFile DEF SeedInv, TypeOK, WritesConf
    <2>4. \A y \in Router : y # This => conf'[y] = conf[y] BY <1>4 DEF SeedInv, TypeOK
    <2>5. Positions' BY <1>4, <2>1 DEF SeedInv, Positions, Preparing, loops
    <2>6. Prepared'
      <3>1. ASSUME NEW j \in 1..(r - 1)
            PROVE  Exists(Order[j])' /\ (Order[j] \in needsSeed' \/ marker'[Order[j]])
        BY <1>4, <2>1, <2>4, Before DEF SeedInv, Prepared, Preparing, Exists
      <3> QED BY <1>4, <2>2, <2>3, <3>1 DEF Prepared
    <2>7. Progress' BY <1>4 DEF Progress
    <2> QED BY <1>1, <1>2, <2>5, <2>6, <2>7 DEF SeedInv
  <1> QED BY <1>3, <1>4 DEF WriteBase

LEMMA StatMarkerInv == ASSUME SeedInv, StatMarker PROVE SeedInv'
  <1>1. TypeOK' BY StatMarkerType DEF SeedInv
  <1>2. CASE RollBack BY <1>1, <1>2, StopUnchanged DEF StatMarker, docker
  <1>3. CASE /\ needsSeed' = (IF cmd = "reseed" \/ ~marker[This]
                              THEN needsSeed \cup {This} ELSE needsSeed)
             /\ pc' = "boot" /\ UNCHANGED <<cmd, loops>>
    <2>1. Marked' /\ Loaded' BY SameFiles DEF SeedInv, StatMarker, files, docker
    <2>2. pc = "stat" /\ This' = This /\ r' = r /\ UNCHANGED <<marker, conf, live>>
      BY <1>3 DEF StatMarker, This, loops, files, docker
    <2>3. needsSeed \subseteq needsSeed' /\ (This \in needsSeed' \/ marker[This])
      BY <1>3
    <2>4. Positions' BY <1>3, <2>2 DEF SeedInv, Positions, Preparing, loops
    <2>5. Prepared'
      <3>1. ASSUME NEW j \in 1..(r - 1)
            PROVE  Exists(Order[j])' /\ (Order[j] \in needsSeed' \/ marker'[Order[j]])
        BY <2>2, <2>3 DEF SeedInv, Prepared, Preparing, Exists
      <3>2. conf'[This] # NoFile BY <2>2 DEF SeedInv, Prepared
      <3> QED BY <1>3, <2>2, <2>3, <3>1, <3>2 DEF Prepared
    <2>6. Progress' BY <1>3 DEF Progress
    <2> QED BY <1>1, <2>1, <2>4, <2>5, <2>6 DEF SeedInv
  <1> QED BY <1>2, <1>3 DEF StatMarker

\* FRR starts from a frr.conf that its marker is true of.
LEMMA BootInv == ASSUME SeedInv, Boot PROVE SeedInv'
  <1>1. TypeOK' BY BootType DEF SeedInv
  <1>2. CASE RollBack /\ UNCHANGED docker BY <1>1, <1>2, StopUnchanged DEF Boot, docker
  <1>3. CASE /\ live' = [live EXCEPT ![This] = conf[This]]
             /\ NextRouter("marker", "command")
             /\ UNCHANGED <<running, faults, cmd, needsSeed, i, waited, ran, polls>>
    <2>1. pc = "boot" /\ UNCHANGED <<marker, conf, cut>> BY DEF Boot, files
    <2>2. This \in Router /\ live'[This] = conf[This]
      BY <1>3, ThisFact DEF SeedInv, TypeOK
    <2>3. \A y \in Router : y # This => live'[y] = live[y] BY <1>3 DEF SeedInv, TypeOK
    <2>4. i = 1 /\ ~ran BY <2>1 DEF SeedInv, Positions, Preparing
    <2>5. Marked' BY <2>1, <2>2, <2>3 DEF SeedInv, Marked
    <2>6. ASSUME NEW y \in Router, Exists(y)', NEW k \in Piece
          PROVE  live'[y][k] >= conf'[y][k]
      <3>1. CASE y = This
        <4>1. conf[y] \in Config BY <2>1, <2>6, TypeFacts DEF Exists, SeedInv
        <4>2. conf[y][k] \in Nat BY <4>1 DEF Config
        <4> QED BY <2>1, <2>2, <3>1, <4>2
      <3>2. CASE y # This BY <2>1, <2>3, <2>6, <3>2 DEF SeedInv, Loaded, Exists
      <3> QED BY <3>1, <3>2
    <2>7. Loaded' BY <2>6 DEF Loaded
    <2>8. /\ conf'[This] # NoFile /\ live'[This] # NoFile
          /\ This \in needsSeed \/ marker[This]
      BY <2>1, <2>2 DEF SeedInv, Prepared, Exists
    <2>9. ASSUME NEW j \in 1..r
          PROVE  Exists(Order[j])' /\ (Order[j] \in needsSeed \/ marker[Order[j]])
      <3>1. CASE j = r BY <2>8, <3>1 DEF This, Exists
      <3>2. CASE j # r
        <4>1. j \in 1..(r - 1) BY <3>2, ThisFact DEF SeedInv
        <4> QED BY <2>1, <2>3, <4>1, Before DEF SeedInv, Prepared, Preparing, Exists
      <3> QED BY <3>1, <3>2
    <2>10. CASE r' = r + 1 /\ pc' = "marker"
      <3>1. Positions' BY <1>3, <2>4, <2>10 DEF Positions
      <3>2. r' - 1 = r BY <2>10, ThisFact DEF SeedInv
      <3>3. Prepared' BY <1>3, <2>1, <2>9, <2>10, <3>2 DEF Prepared
      <3>4. Progress' BY <2>10 DEF Progress
      <3> QED BY <1>1, <2>5, <2>7, <3>1, <3>3, <3>4 DEF SeedInv
    <2>11. CASE r = Len(Order) /\ r' = 1 /\ pc' = "command"
      <3>1. Positions' BY <2>11 DEF Positions, Preparing
      <3>2. ASSUME NEW x \in Router PROVE Exists(x)' /\ (x \in needsSeed' \/ marker'[x])
        BY <1>3, <2>1, <2>9, <2>11, OrderFacts
      <3>3. Prepared' BY <2>11, <3>2 DEF Prepared, Preparing
      <3>4. ASSUME NEW k \in Seeds(This') PROVE ~(k < i')
        <4>1. r' \in 1..Len(Order) BY <2>11, OrderFacts
        <4>2. This' \in Router BY <4>1, OrderFacts DEF This
        <4>3. k \in 1..Len(Script[This']) BY <4>2, ScriptFacts
        <4> QED BY <1>3, <2>4, <4>3
      <3>5. ~ran' BY <1>3, <2>4
      <3>6. Progress' BY <2>11, <3>4, <3>5 DEF Progress
      <3> QED BY <1>1, <2>5, <2>7, <3>1, <3>3, <3>6 DEF SeedInv
    <2>12. ~(r < Len(Order)) => r = Len(Order) BY ThisFact, OrderFacts DEF SeedInv
    <2> QED BY <1>3, <2>10, <2>11, <2>12 DEF NextRouter
  <1> QED BY <1>2, <1>3 DEF Boot

LEMMA ScriptPosition ==
  ASSUME SeedInv, MoreCommands
  PROVE  i \in 1..Len(Script[This]) /\ i \in Piece /\ This \in Router
  <1>1. This \in Router BY ThisFact DEF SeedInv
  <1>2. i \in Nat \ {0} BY DEF SeedInv, TypeOK
  <1>3. i \in 1..Len(Script[This]) BY <1>1, <1>2, ScriptFacts DEF MoreCommands
  <1> QED BY <1>1, <1>3, ScriptFacts

\* What comes next, when this command leaves the configurations alone.
LEMMA SkipInv == ASSUME SeedInv, RunShell \/ SkipSeed PROVE SeedInv'
  <1>1. TypeOK' BY SkipType DEF SeedInv
  <1>2. CASE RollBack BY <1>1, <1>2, StopUnchanged DEF RunShell, SkipSeed, docker
  <1>3. CASE NextCommand /\ ran' = ran
    <2>1. /\ pc = "command" /\ pc' = "command" /\ i' = i + 1 /\ r' = r
          /\ UNCHANGED <<marker, conf, cut, live, needsSeed, cmd>> /\ This' = This
      BY <1>3 DEF RunShell, SkipSeed, NextCommand, files, docker, This
    <2>2. Marked' /\ Loaded' BY <2>1, SameFiles DEF SeedInv
    <2>3. Positions' BY <2>1 DEF Positions, Preparing
    <2>4. Prepared' BY <2>1 DEF SeedInv, Prepared, Preparing, Exists
    <2>5. ASSUME This \in needsSeed, NEW k \in Seeds(This), k < i'
          PROVE  conf[This][k] > 0 /\ live[This][k] > 0
      <3>1. k # i BY <2>5 DEF RunShell, SkipSeed, Command, Seeds
      <3>2. This \in Router /\ i \in Nat BY ScriptPosition DEF RunShell, SkipSeed, SeedInv, TypeOK
      <3>3. k \in 1..Len(Script[This]) BY <3>2, ScriptFacts
      <3>4. k < i BY <2>1, <2>5, <3>1, <3>2, <3>3
      <3> QED BY <2>1, <2>5, <3>4 DEF SeedInv, Progress
    <2>6. Progress' BY <1>3, <2>1, <2>5 DEF SeedInv, Progress, Seeded, Holds
    <2> QED BY <1>1, <2>2, <2>3, <2>4, <2>6 DEF SeedInv
  <1> QED BY <1>2, <1>3 DEF RunShell, SkipSeed

LEMMA WaitInv == ASSUME SeedInv, WaitForVTYSH PROVE SeedInv'
  <1>1. TypeOK' BY WaitType DEF SeedInv
  <1>2. CASE RollBack BY <1>1, <1>2, StopUnchanged DEF WaitForVTYSH, docker
  <1>3. CASE UNCHANGED <<files, live, needsSeed, pc, cmd, r, i, ran>>
    BY <1>1, <1>3, QuietInv
  <1> QED BY <1>2, <1>3 DEF WaitForVTYSH, docker

\* What a seed may leave: live[This] with the piece, frr.conf with it or as it was.
LEMMA SeedFiles ==
  ASSUME SeedInv, pc = "command", MoreCommands, UNCHANGED <<marker, cut>>,
         NEW applied, applied = Plus(live[This], i),
         live' = [live EXCEPT ![This] = applied],
         conf' \in {conf, [conf EXCEPT ![This] = applied]}
  PROVE  /\ Marked' /\ Loaded' /\ applied \in Config /\ applied[i] > 0
         /\ FilesOK' /\ live' \in [Router -> Config \cup {NoFile}]
         /\ live'[This] = applied
         /\ \A k \in Piece : applied[k] >= live[This][k] /\ applied[k] >= conf[This][k]
         /\ \A y \in Router : y # This => live'[y] = live[y] /\ conf'[y] = conf[y]
  <1>1. This \in Router /\ i \in Piece BY ScriptPosition
  <1>2. live[This] # NoFile /\ conf[This] # NoFile BY <1>1 DEF SeedInv, Prepared, Exists
  <1>3. live[This] \in Config /\ conf[This] \in Config /\ Seeds(This) \in SUBSET Piece
    BY <1>1, <1>2, TypeFacts DEF SeedInv
  <1>4. applied \in Config /\ applied[i] > 0 /\ \A k \in Piece : applied[k] >= live[This][k]
    BY <1>1, <1>3, PlusFacts
  <1>5. ASSUME NEW k \in Piece PROVE applied[k] >= conf[This][k]
    <2>1. live[This][k] >= conf[This][k] BY <1>1, <1>2 DEF SeedInv, Loaded, Exists
    <2>2. applied[k] \in Nat /\ live[This][k] \in Nat /\ conf[This][k] \in Nat
      BY <1>3, <1>4 DEF Config
    <2> QED BY <1>4, <2>1, <2>2
  <1>6. live'[This] = applied /\ (conf'[This] = applied \/ conf'[This] = conf[This])
    BY <1>1 DEF SeedInv, TypeOK
  <1>7. \A y \in Router : y # This => live'[y] = live[y] /\ conf'[y] = conf[y]
    BY <1>1 DEF SeedInv, TypeOK
  <1>8. FilesOK' /\ live' \in [Router -> Config \cup {NoFile}]
    BY <1>1, <1>4 DEF SeedInv, TypeOK, FilesOK
  <1>9. ASSUME NEW y \in Router, marker'[y], y \notin cut'
        PROVE  Holds(conf'[y], Seeds(y)) /\ (live'[y] # NoFile => Holds(live'[y], Seeds(y)))
    <2>1. Holds(conf[y], Seeds(y)) /\ (live[y] # NoFile => Holds(live[y], Seeds(y)))
      BY <1>9 DEF SeedInv, Marked
    <2>2. CASE y = This
      <3>1. Holds(applied, Seeds(y)) BY <1>2, <1>3, <1>4, <2>1, <2>2, MoreHolds
      <3> QED BY <1>6, <2>1, <2>2, <3>1
    <2>3. CASE y # This BY <1>7, <2>1, <2>3
    <2> QED BY <2>2, <2>3
  <1>10. Marked' BY <1>9 DEF Marked
  <1>11. ASSUME NEW y \in Router, Exists(y)', NEW k \in Piece
         PROVE  live'[y][k] >= conf'[y][k]
    <2>1. CASE y = This
      <3>1. applied[k] \in Nat BY <1>4 DEF Config
      <3> QED BY <1>5, <1>6, <2>1, <3>1
    <2>2. CASE y # This BY <1>7, <1>11, <2>2 DEF SeedInv, Loaded, Exists
    <2> QED BY <2>1, <2>2
  <1>12. Loaded' BY <1>11 DEF Loaded
  <1> QED BY <1>4, <1>5, <1>6, <1>7, <1>8, <1>10, <1>12

LEMMA RunSeedInv == ASSUME SeedInv, RunSeed PROVE SeedInv'
  <1> DEFINE applied == Plus(live[This], i)
  <1>1. /\ pc = "command" /\ MoreCommands /\ This \in needsSeed
        /\ UNCHANGED <<marker, cut, running, bounds>>
    BY DEF RunSeed, AtSeed
  <1>2. UNCHANGED faults \/ Fault BY DEF RunSeed
  <1>3. CountsOK' BY <1>1, <1>2, TypeParts, CountsGo DEF SeedInv
  <1>4. CASE /\ live' = [live EXCEPT ![This] = applied]
             /\ conf' \in {conf, [conf EXCEPT ![This] = applied]}
             /\ RollBack
    <2>1. Marked' /\ Loaded' /\ FilesOK' /\ live' \in [Router -> Config \cup {NoFile}]
      BY <1>1, <1>4, SeedFiles
    <2>2. DockerOK' BY <1>1, <2>1 DEF SeedInv, TypeOK, DockerOK
    <2>3. ControlOK' BY <1>4, TypeParts, StopType DEF SeedInv
    <2>4. TypeOK' BY <1>3, <2>1, <2>2, <2>3, TypePartsNext
    <2> QED BY <1>4, <2>1, <2>4, StopInv DEF RollBack
  <1>5. CASE live' = live /\ conf' = conf /\ RollBack
    <2>1. FilesOK' BY <1>1, <1>5 DEF SeedInv, TypeOK, FilesOK
    <2>2. DockerOK' BY <1>1, <1>5 DEF SeedInv, TypeOK, DockerOK
    <2>3. ControlOK' BY <1>5, TypeParts, StopType DEF SeedInv
    <2>4. TypeOK' BY <1>3, <2>1, <2>2, <2>3, TypePartsNext
    <2> QED BY <1>1, <1>5, <2>4, StopUnchanged DEF files
  <1>6. CASE /\ live' = [live EXCEPT ![This] = applied]
             /\ conf' = [conf EXCEPT ![This] = applied]
             /\ ran' = TRUE /\ NextCommand /\ UNCHANGED <<waited, polls>>
    <2>1. /\ Marked' /\ Loaded' /\ applied \in Config /\ applied[i] > 0
          /\ FilesOK' /\ live' \in [Router -> Config \cup {NoFile}]
          /\ live'[This] = applied
          /\ \A k \in Piece : applied[k] >= live[This][k]
          /\ \A y \in Router : y # This => live'[y] = live[y] /\ conf'[y] = conf[y]
      BY <1>1, <1>6, SeedFiles
    <2>2. DockerOK' BY <1>1, <2>1 DEF SeedInv, TypeOK, DockerOK
    <2>3. /\ r' = r /\ cmd' = cmd /\ needsSeed' = needsSeed /\ i' = i + 1
          /\ pc' = "command" /\ This' = This
      BY <1>6 DEF NextCommand, This
    <2>4. i' \in Nat \ {0} BY <2>3 DEF SeedInv, TypeOK
    <2>5. waited' \in BOOLEAN /\ ran' \in BOOLEAN /\ polls' \in 0..MaxPolls
      BY <1>6 DEF SeedInv, TypeOK
    <2>6. ControlOK' BY <2>3, <2>4, <2>5 DEF SeedInv, TypeOK, ControlOK
    <2>7. TypeOK' BY <1>3, <2>1, <2>2, <2>6, TypePartsNext
    <2>8. Positions' BY <2>3 DEF Positions, Preparing
    <2>9. This \in Router /\ conf'[This] = applied /\ applied # NoFile
      BY <1>1, <1>6, <2>1, ScriptPosition, ConfigIsFile DEF SeedInv, TypeOK
    <2> HIDE DEF applied
    <2>10. Prepared'
      <3>1. ASSUME NEW x \in Router PROVE Exists(x)' /\ (x \in needsSeed' \/ marker'[x])
        <4>1. Exists(x) /\ (x \in needsSeed \/ marker[x]) BY <1>1 DEF SeedInv, Prepared
        <4>2. CASE x = This BY <1>1, <2>1, <2>3, <2>9, <4>1, <4>2 DEF Exists
        <4>3. CASE x # This BY <1>1, <2>1, <2>3, <4>1, <4>3 DEF Exists
        <4> QED BY <4>2, <4>3
      <3> QED BY <2>3, <3>1 DEF Prepared, Preparing
    <2>11. ASSUME NEW j \in 1..(r - 1), Order[j] \notin cut PROVE Seeded(Order[j])'
      <3>1. Order[j] \in Router /\ Order[j] # This BY Before DEF SeedInv
      <3>2. Seeded(Order[j]) BY <1>1, <2>11 DEF SeedInv, Progress
      <3> QED BY <2>1, <3>1, <3>2 DEF Seeded, Holds
    <2>12. ASSUME NEW k \in Seeds(This), k < i'
           PROVE  conf'[This][k] > 0 /\ live'[This][k] > 0
      <3>1. k \in Piece /\ k \in Nat /\ i \in Nat
        BY <2>9, ScriptFacts DEF SeedInv, TypeOK, Piece
      <3>2. CASE k = i BY <2>1, <2>9, <3>2
      <3>3. CASE k < i
        <4>1. live[This][k] > 0 BY <1>1, <3>3 DEF SeedInv, Progress
        <4>2. live[This] \in Config BY <1>1, <2>9, TypeFacts DEF SeedInv, Prepared, Exists
        <4>3. live[This][k] \in Nat /\ applied[k] \in Nat BY <2>1, <3>1, <4>2 DEF Config
        <4> QED BY <2>1, <2>9, <3>1, <4>1, <4>3
      <3> QED BY <2>3, <2>12, <3>1, <3>2, <3>3
    <2>13. Progress' BY <1>1, <2>3, <2>11, <2>12 DEF Progress
    <2> QED BY <2>1, <2>7, <2>8, <2>10, <2>13 DEF SeedInv
  <1>7. \/ /\ live' = [live EXCEPT ![This] = applied] /\ AllUp(This)
           /\ conf' = [conf EXCEPT ![This] = applied]
           /\ ran' = TRUE /\ NextCommand /\ UNCHANGED <<waited, polls>>
        \/ live' = [live EXCEPT ![This] = applied] /\ conf' = conf /\ RollBack
        \/ /\ RollBack
           /\ live' = live \/ live' = [live EXCEPT ![This] = applied]
           /\ conf' = conf \/ (conf' = [conf EXCEPT ![This] = applied] /\ live' # live)
    BY DEF RunSeed, Judge
  <1> QED BY <1>4, <1>5, <1>6, <1>7

\* The marker, when the loop has come to the end of the router's script.
LEMMA MarkInv == ASSUME SeedInv, Mark PROVE SeedInv'
  <1>1. TypeOK' BY MarkType DEF SeedInv
  <1>2. CASE RollBack /\ UNCHANGED marker
    BY <1>1, <1>2, StopUnchanged DEF Mark, files, docker
  <1>3. CASE /\ marker' = [marker EXCEPT ![This] = @ \/ ran]
             /\ i' = 1 /\ ran' = FALSE
             /\ NextRouter("command", "commit")
             /\ UNCHANGED <<cmd, needsSeed>>
    <2>1. pc = "command" /\ ~MoreCommands /\ UNCHANGED <<conf, cut, live>>
      BY DEF Mark, docker
    <2>2. This \in Router BY ThisFact DEF SeedInv
    <2>3. Exists(This) BY <2>1, <2>2 DEF SeedInv, Prepared
    <2>4. This \in needsSeed => Seeded(This)
      <3> SUFFICES ASSUME This \in needsSeed PROVE Seeded(This) OBVIOUS
      <3>1. ASSUME NEW k \in Seeds(This) PROVE k < i
        <4>1. k \in 1..Len(Script[This]) /\ Len(Script[This]) \in Nat BY <2>2, ScriptFacts
        <4>2. i \in Nat BY DEF SeedInv, TypeOK
        <4> QED BY <2>1, <4>1, <4>2 DEF MoreCommands
      <3> QED BY <2>1, <2>3, <3>1 DEF SeedInv, Progress, Seeded, Holds, Exists
    <2>5. This \notin cut => Seeded(This)
      BY <2>1, <2>2, <2>3, <2>4 DEF SeedInv, Prepared, Marked, Seeded, Exists
    <2>6. \A y \in Router : y # This => marker'[y] = marker[y]
      BY <1>3 DEF SeedInv, TypeOK
    <2>7. Marked' BY <2>1, <2>2, <2>5, <2>6 DEF SeedInv, Marked, Seeded
    <2>8. Loaded' BY <2>1 DEF SeedInv, Loaded, Exists
    <2>9. \A y \in Router : marker[y] => marker'[y] BY <1>3, <2>2, <2>6 DEF SeedInv, TypeOK
    <2>10. \A y \in Router : Exists(y)' /\ (y \in needsSeed' \/ marker'[y])
      BY <1>3, <2>1, <2>9 DEF SeedInv, Prepared, Exists
    <2>11. ASSUME NEW j \in 1..r, Order[j] \notin cut PROVE Seeded(Order[j])
      <3>1. CASE j = r BY <2>5, <2>11, <3>1 DEF This
      <3>2. CASE j # r
        <4>1. j \in 1..(r - 1) BY <3>2, ThisFact DEF SeedInv
        <4> QED BY <2>1, <2>11, <4>1 DEF SeedInv, Progress
      <3> QED BY <3>1, <3>2
    <2>12. \A y \in Router : Seeded(y) => Seeded(y)' BY <2>1 DEF Seeded, Holds
    <2>13. CASE r < Len(Order) /\ r' = r + 1 /\ pc' = "command"
      <3>1. Positions' BY <2>13 DEF Positions, Preparing
      <3>2. Prepared' BY <2>10, <2>13 DEF Prepared, Preparing
      <3>3. r' - 1 = r BY <2>13, ThisFact DEF SeedInv
      <3>4. ASSUME NEW j \in 1..(r' - 1), Order[j] \notin cut' PROVE Seeded(Order[j])'
        <4>1. j \in 1..Len(Order) BY <3>3, ThisFact, OrderFacts DEF SeedInv
        <4> QED BY <2>1, <2>11, <2>12, <3>3, <3>4, <4>1, OrderFacts
      <3>5. ASSUME NEW k \in Seeds(This') PROVE ~(k < i')
        <4>1. This' \in Router BY <1>1, TypePartsNext, OrderFacts DEF This, ControlOK
        <4>2. k \in 1..Len(Script[This']) BY <4>1, ScriptFacts
        <4> QED BY <1>3, <4>2
      <3>6. ~ran' BY <1>3
      <3>7. Progress' BY <2>13, <3>4, <3>5, <3>6 DEF Progress
      <3> QED BY <1>1, <2>7, <2>8, <3>1, <3>2, <3>7 DEF SeedInv
    <2>14. CASE r = Len(Order) /\ pc' = "commit"
      <3>1. Positions' BY <2>14 DEF Positions, Preparing
      <3>2. Prepared' BY <2>10, <2>14 DEF Prepared, Preparing
      <3>3. ASSUME NEW x \in Router, x \notin cut' PROVE Seeded(x)'
        BY <2>1, <2>11, <2>12, <2>14, <3>3, OrderFacts
      <3>4. Progress' BY <2>14, <3>3 DEF Progress
      <3> QED BY <1>1, <2>7, <2>8, <3>1, <3>2, <3>4 DEF SeedInv
    <2>15. ~(r < Len(Order)) => r = Len(Order) BY ThisFact, OrderFacts DEF SeedInv
    <2> QED BY <1>3, <2>13, <2>14, <2>15 DEF NextRouter
  <1> QED BY <1>2, <1>3 DEF Mark

LEMMA CommitInv == ASSUME SeedInv, Commit PROVE SeedInv'
  BY CommitType, StopUnchanged DEF Commit, SeedInv, docker

LEMMA DaemonInv == ASSUME SeedInv, DaemonStarts \/ DaemonCrashes PROVE SeedInv'
  <1>1. TypeOK' BY DaemonType DEF SeedInv
  <1> QED BY <1>1, QuietInv DEF DaemonStarts, DaemonCrashes, loops

\* The user's own piece is added to a running configuration.
LEMMA UserWritesInv == ASSUME SeedInv, UserWrites PROVE SeedInv'
  <1>1. PICK x \in Router :
         /\ live[x] # NoFile
         /\ live' = [live EXCEPT ![x] = Plus(@, 0)]
         /\ conf' = [conf EXCEPT ![x] = Plus(live[x], 0)]
    BY DEF UserWrites
  <1> DEFINE written == Plus(live[x], 0)
  <1>2. live[x] \in Config /\ Seeds(x) \in SUBSET Piece BY <1>1, TypeFacts DEF SeedInv
  <1>3. written \in Config /\ \A k \in Piece : written[k] >= live[x][k]
    BY <1>2, PlusFacts, ZeroPiece
  <1>4. live'[x] = written /\ conf'[x] = written BY <1>1 DEF SeedInv, TypeOK
  <1>5. \A y \in Router : y # x => live'[y] = live[y] /\ conf'[y] = conf[y]
    BY <1>1 DEF SeedInv, TypeOK
  <1>6. UNCHANGED <<marker, cut, running, needsSeed, pc, cmd, loops, faults, commands>>
        /\ edits' = edits + 1 /\ pc = "idle"
    BY DEF UserWrites
  <1>7. TypeOK'
    <2>1. FilesOK' BY <1>1, <1>3, <1>6 DEF SeedInv, TypeOK, FilesOK
    <2>2. DockerOK' BY <1>1, <1>3, <1>6 DEF SeedInv, TypeOK, DockerOK
    <2>3. ControlOK' BY <1>6, TypeParts, ControlStays DEF SeedInv
    <2>4. CountsOK' BY <1>6 DEF SeedInv, TypeOK, CountsOK
    <2> QED BY <2>1, <2>2, <2>3, <2>4, TypePartsNext
  <1> HIDE DEF written
  <1>8. ASSUME NEW y \in Router, marker'[y], y \notin cut'
        PROVE  Holds(conf'[y], Seeds(y)) /\ (live'[y] # NoFile => Holds(live'[y], Seeds(y)))
    <2>1. Holds(conf[y], Seeds(y)) /\ (live[y] # NoFile => Holds(live[y], Seeds(y)))
      BY <1>6, <1>8 DEF SeedInv, Marked
    <2>2. CASE y = x
      <3>1. Holds(written, Seeds(y)) BY <1>1, <1>2, <1>3, <2>1, <2>2, MoreHolds
      <3> QED BY <1>4, <2>2, <3>1
    <2>3. CASE y # x BY <1>5, <2>1, <2>3
    <2> QED BY <2>2, <2>3
  <1>9. Marked' BY <1>8 DEF Marked
  <1>10. ASSUME NEW y \in Router, Exists(y)', NEW k \in Piece
         PROVE  live'[y][k] >= conf'[y][k]
    <2>1. CASE y = x
      <3>1. written[k] \in Nat BY <1>3 DEF Config
      <3> QED BY <1>4, <2>1, <3>1
    <2>2. CASE y # x BY <1>5, <1>10, <2>2 DEF SeedInv, Loaded, Exists
    <2> QED BY <2>1, <2>2
  <1>11. Loaded' BY <1>10 DEF Loaded
  <1> QED BY <1>6, <1>7, <1>9, <1>11, StopInv

-----------------------------------------------------------------------------
(* The theorems.                                                           *)

LEMMA InitInv == Init => SeedInv
  <1> SUFFICES ASSUME Init PROVE SeedInv OBVIOUS
  <1>1. 1 \in DOMAIN Order /\ 0 \in 0..MaxPolls BY OrderFacts, BoundAssumption
  <1>2. FilesOK /\ DockerOK BY DEF Init, FilesOK, DockerOK
  <1>3. waited \in BOOLEAN /\ ran \in BOOLEAN BY DEF Init
  <1>4. ControlOK BY <1>1, <1>3 DEF Init, ControlOK
  <1>5. CountsOK BY DEF Init, CountsOK
  <1>6. TypeOK BY <1>2, <1>4, <1>5, TypeParts
  <1>7. Positions /\ Prepared /\ Progress
    BY DEF Init, Positions, Prepared, Progress, Preparing
  <1>8. Marked /\ Loaded BY DEF Init, Marked, Loaded, Exists
  <1> QED BY <1>6, <1>7, <1>8 DEF SeedInv

LEMMA NextInv == SeedInv /\ [Next]_vars => SeedInv'
  <1> SUFFICES ASSUME SeedInv, [Next]_vars PROVE SeedInv' OBVIOUS
  <1>1. CASE Step
    BY <1>1, CleanInv, CleanAfterErrorInv, PurgeFileInv, PurgeEndsInv, RemoveMarkerInv,
       WriteBaseInv, StatMarkerInv, BootInv, SkipInv, WaitInv, RunSeedInv, MarkInv, CommitInv
    DEF Step
  <1>2. CASE UNCHANGED vars
    <2>1. TypeOK' BY <1>2 DEF vars, SeedInv, TypeOK
    <2> QED BY <1>2, <2>1, QuietInv DEF vars, files
  <1> QED BY <1>1, <1>2, KillInv, DaemonInv, UserWritesInv, BeginInv DEF Next

\* What is known of a router at each call of its command: how far its seeds got
\* in FRR and in frr.conf, and that what runs has all that the file has.
THEOREM SeedInvariant == Spec => []SeedInv
  BY InitInv, NextInv, PTL DEF Spec

\* Every variable keeps its type; loops stay inside their lists.
THEOREM SeedTypes == Spec => []TypeOK
  <1>1. SeedInv => TypeOK BY DEF SeedInv
  <1> QED BY <1>1, SeedInvariant, PTL

\* A marker is true of frr.conf, whatever fails or is killed, and whatever
\* daemon is missing when FRR is to write (frr/files.go 56-73; runtime.go
\* 516-544, 780-791).
THEOREM MarkersAreTrue == Spec => []MarkerMeansSeeded
  <1>1. SeedInv => MarkerMeansSeeded BY DEF SeedInv, Marked, MarkerMeansSeeded
  <1> QED BY <1>1, SeedInvariant, PTL

\* An up that succeeds delivers every seed, but where a purge was cut short
\* (README.md:88, 297).
THEOREM UpsDeliverSeeds == Spec => UpDeliversSeeds
  <1>1. ASSUME SeedInv, Next, Succeeds PROVE \A x \in Router \ cut : Delivers(x)
    <2>1. conf' = conf /\ live' = live
      <3>1. faults \in Nat /\ ~Fault BY <1>1 DEF SeedInv, TypeOK, Succeeds, Fault
      <3>2. pc = "commit" /\ pc' = "idle" BY <1>1 DEF Succeeds
      <3>3. Commit
        BY <1>1, <3>1, <3>2
        DEF Next, Step, Kill, DaemonStarts, DaemonCrashes, UserWrites, Begin, Clean,
            CleanAfterError, PurgeFile, PurgeEnds, RemoveMarker, WriteBase, StatMarker, Boot,
            RunShell, SkipSeed, WaitForVTYSH, AtSeed, RunSeed, Mark
      <3> QED BY <3>3 DEF Commit, files, docker
    <2> QED BY <1>1, <2>1 DEF Succeeds, SeedInv, Progress, Seeded, Delivers
  <1>2. SeedInv /\ [Next]_vars =>
          [Succeeds => \A x \in Router \ cut : Delivers(x)]_vars
    BY <1>1
  <1> QED BY <1>2, SeedInvariant, PTL DEF Spec, UpDeliversSeeds

\* What a step leaves of a frr.conf.
Keeps(x) == conf[x] # NoFile => conf'[x] # NoFile /\ \A k \in Piece : conf'[x][k] >= conf[x][k]

LEMMA SameKeeps ==
  ASSUME SeedInv, NEW x \in Router, conf'[x] = conf[x] \/ conf[x] = NoFile PROVE Keeps(x)
  <1> SUFFICES ASSUME conf[x] # NoFile, NEW k \in Piece PROVE conf[x][k] >= conf[x][k]
    BY DEF Keeps
  <1>1. conf[x] \in Config BY TypeFacts DEF SeedInv
  <1>2. conf[x][k] \in Nat BY <1>1 DEF Config
  <1> QED BY <1>2

LEMMA MoreKeeps ==
  ASSUME NEW x \in Router, NEW more \in Config, conf'[x] = more,
         \A k \in Piece : more[k] >= conf[x][k]
  PROVE  Keeps(x)
  BY ConfigIsFile DEF Keeps

LEMMA RunSeedKeeps == ASSUME SeedInv, RunSeed, NEW x \in Router PROVE Keeps(x)
  <1> DEFINE applied == Plus(live[This], i)
  <1>1. pc = "command" /\ MoreCommands /\ UNCHANGED <<marker, cut>>
    BY DEF RunSeed, AtSeed
  <1>2. conf' = conf \/ (/\ live' = [live EXCEPT ![This] = applied]
                         /\ conf' = [conf EXCEPT ![This] = applied])
    BY DEF RunSeed, Judge
  <1>3. CASE conf' = conf BY <1>3, SameKeeps
  <1>4. CASE /\ live' = [live EXCEPT ![This] = applied]
             /\ conf' = [conf EXCEPT ![This] = applied]
    <2>1. /\ applied \in Config /\ \A k \in Piece : applied[k] >= conf[This][k]
          /\ \A y \in Router : y # This => conf'[y] = conf[y]
      BY <1>1, <1>4, SeedFiles
    <2>2. This \in Router /\ conf'[This] = applied
      BY <1>4, ThisFact DEF SeedInv, TypeOK
    <2> HIDE DEF applied
    <2>3. CASE x = This BY <2>1, <2>2, <2>3, MoreKeeps
    <2>4. CASE x # This BY <2>1, <2>4, SameKeeps
    <2> QED BY <2>3, <2>4
  <1> QED BY <1>2, <1>3, <1>4

LEMMA UserWritesKeeps == ASSUME SeedInv, UserWrites, NEW y \in Router PROVE Keeps(y)
  <1>1. PICK x \in Router :
         live[x] # NoFile /\ conf' = [conf EXCEPT ![x] = Plus(live[x], 0)]
    BY DEF UserWrites
  <1>2. live[x] \in Config BY <1>1, TypeFacts DEF SeedInv
  <1> DEFINE written == Plus(live[x], 0)
  <1>3. written \in Config /\ \A k \in Piece : written[k] >= live[x][k]
    BY <1>2, PlusFacts, ZeroPiece
  <1>4. conf'[x] = written BY <1>1 DEF SeedInv, TypeOK
  <1> HIDE DEF written
  <1>5. CASE y = x
    <2>1. CASE conf[x] = NoFile BY <1>5, <2>1, SameKeeps
    <2>2. CASE conf[x] # NoFile
      <3>1. ASSUME NEW k \in Piece PROVE written[k] >= conf[x][k]
        <4>1. live[x][k] >= conf[x][k] BY <1>1, <2>2 DEF SeedInv, Loaded, Exists
        <4>2. conf[x] \in Config BY <2>2, TypeFacts DEF SeedInv
        <4>3. written[k] \in Nat /\ live[x][k] \in Nat /\ conf[x][k] \in Nat
          BY <1>2, <1>3, <4>2 DEF Config
        <4> QED BY <1>3, <4>1, <4>3
      <3> QED BY <1>3, <1>4, <1>5, <3>1, MoreKeeps
    <2> QED BY <2>1, <2>2
  <1>6. CASE y # x
    <2>1. conf'[y] = conf[y] BY <1>1, <1>6 DEF SeedInv, TypeOK
    <2> QED BY <2>1, SameKeeps
  <1> QED BY <1>5, <1>6

\* What the user wrote outlives downs, ups and their failures, as what runs
\* always has all that frr.conf has (frr/files.go 38-39, 63-67).
THEOREM WrittenIsKept == Spec => WrittenConfigSurvives
  <1>1. ASSUME SeedInv, Next, cmd \notin {"reseed", "purge"}, NEW x \in Router
        PROVE  Keeps(x)
    <2>1. CASE RunSeed BY <1>1, <2>1, RunSeedKeeps
    <2>2. CASE UserWrites BY <1>1, <2>2, UserWritesKeeps
    <2>3. CASE WriteBase
      <3>1. conf' = conf \/ (conf[This] = NoFile /\ conf' = [conf EXCEPT ![This] = Base])
        BY <1>1, <2>3 DEF WriteBase, WritesConf
      <3>2. conf'[x] = conf[x] \/ conf[x] = NoFile BY <1>1, <3>1, ThisFact DEF SeedInv, TypeOK
      <3> QED BY <1>1, <3>2, SameKeeps
    <2>4. ~PurgeFile BY <1>1 DEF PurgeFile, SeedInv, Positions
    <2>5. CASE conf' = conf BY <1>1, <2>5, SameKeeps
    <2> QED BY <1>1, <2>1, <2>2, <2>3, <2>4, <2>5
        DEF Next, Step, Kill, DaemonStarts, DaemonCrashes, Begin, Clean,
            CleanAfterError, PurgeEnds, RemoveMarker, StatMarker, Boot,
            RunShell, SkipSeed, WaitForVTYSH, Mark, Commit, files
  <1>2. SeedInv /\ [Next]_vars =>
          [cmd \notin {"reseed", "purge"} =>
             \A x \in Router : conf[x] # NoFile =>
                /\ conf'[x] # NoFile
                /\ \A k \in Piece : conf'[x][k] >= conf[x][k]]_vars
    BY <1>1 DEF Keeps
  <1> QED BY <1>2, SeedInvariant, PTL DEF Spec, WrittenConfigSurvives
=============================================================================
