-------------------------- MODULE ImageCacheProofs --------------------------
(***************************************************************************)
(* Theorems about ImageCache, for any number of frridge-mp commands at     *)
(* once, any inputs, and a checkout that may be edited at any time.        *)
(***************************************************************************)
EXTENDS ImageCache, TLAPS

Importing == {"save", "install", "publish", "transfer", "writing", "load", "remove",
              "verify", "tag"}
Building  == {"save", "install", "publish"}

\* What one process holds: a step that uses an image has one; the image of a
\* build is labelled with the build's own inputs and, once installed, has its
\* archive; what it tags is labelled with ensureGuestImage's inputs or legacy.
HandOK(s, saved) ==
    /\ s \in Process
    /\ s.pc \in Importing => s.image \in Image
    /\ s.pc \in Building \cup {"buildx"} => s.key \in Inputs
    /\ s.pc \in Building => s.image.label = s.key
    /\ s.pc = "publish" => s.image \in saved
    /\ s.pc = "tag" => s.image.label = s.inputs \/ s.image.legacy # None

HandsOK == proc = [p \in Procs |-> proc[p]] /\ \A p \in Procs : HandOK(proc[p], archives)

WorldOK ==
    /\ checkout \in Local \cup {None} /\ upstream \in Rev
    /\ archives \in SUBSET Image
    /\ lookup \in [Inputs -> Image \cup {None}]
    /\ latest \in Image \cup {None} /\ transfers \in SUBSET Image
    /\ commands \in Nat /\ faults \in Nat /\ edits \in Nat

\* The inductive invariant.
CacheInv == WorldOK /\ HandsOK /\ LookupsAreServable

LEMMA CacheInvTypes == CacheInv => TypeOK
  BY NoneAssumption DEF CacheInv, TypeOK, WorldOK, HandsOK, HandOK, Importing

-----------------------------------------------------------------------------
(* What a process may become.                                              *)

\* One process takes another state that is right, and archives only grow.
LEMMA BecomeKeepsHands ==
  ASSUME HandsOK, NEW p \in Procs, NEW s, Become(p, s), HandOK(s, archives'),
         archives \subseteq archives'
  PROVE  HandsOK'
  <1>1. proc' = [proc EXCEPT ![p] = s] BY DEF Become
  <1>2. proc' = [q \in Procs |-> IF q = p THEN s ELSE proc[q]] BY <1>1 DEF HandsOK
  <1>3. proc' = [q \in Procs |-> proc'[q]] BY <1>2
  <1>4. ASSUME NEW q \in Procs PROVE HandOK(proc'[q], archives')
    <2>1. CASE q = p BY <2>1, <1>2 DEF HandOK
    <2>2. CASE q # p BY <2>2, <1>2 DEF HandsOK, HandOK
    <2> QED BY <2>1, <2>2
  <1> QED BY <1>3, <1>4 DEF HandsOK

LEMMA GotoKeepsHands ==
  ASSUME HandsOK, NEW p \in Procs, NEW step \in Steps, Goto(p, step),
         HandOK([proc[p] EXCEPT !.pc = step], archives'),
         archives \subseteq archives'
  PROVE  HandsOK'
  BY BecomeKeepsHands DEF Goto

LEMMA InputsAndRefs ==
  /\ Refs = {"default", "override"} /\ 0 \in Rev
  /\ \A l \in Local, refs \in Refs : [local |-> l, refs |-> refs] \in Inputs
  BY BoundAssumption DEF Refs, Rev, Inputs

LEMMA IdleOK == ASSUME NEW saved PROVE HandOK(Idle, saved)
  BY InputsAndRefs DEF HandOK, Idle, Process, Steps, Importing, Building

LEMMA FailKeepsHands ==
  ASSUME HandsOK, NEW p \in Procs, Fail(p), archives \subseteq archives'
  PROVE  HandsOK'
  <1>1. HandOK(Idle, archives') BY IdleOK
  <1> QED BY <1>1, BecomeKeepsHands DEF Fail

\* A step of one process that changes nothing but its own state.
LEMMA OwnStep ==
  ASSUME CacheInv, UNCHANGED <<world, host, guest, commands>>,
         UNCHANGED faults \/ Fault, HandsOK'
  PROVE  CacheInv'
  <1>1. faults' \in Nat BY DEF Fault, CacheInv, WorldOK
  <1>2. WorldOK' BY <1>1 DEF CacheInv, WorldOK, world, host, guest
  <1>3. LookupsAreServable' BY DEF CacheInv, LookupsAreServable, host
  <1> QED BY <1>2, <1>3 DEF CacheInv

LEMMA OwnFailure ==
  ASSUME CacheInv, NEW p \in Procs, Fail(p), UNCHANGED faults \/ Fault,
         UNCHANGED <<world, host, guest, commands>>
  PROVE  CacheInv'
  <1>1. archives \subseteq archives' BY DEF host
  <1>2. HandsOK' BY <1>1, FailKeepsHands DEF CacheInv
  <1> QED BY <1>2, OwnStep

LEMMA OwnBecome ==
  ASSUME CacheInv, NEW p \in Procs, NEW s, Become(p, s), HandOK(s, archives),
         UNCHANGED faults \/ Fault, UNCHANGED <<world, host, guest, commands>>
  PROVE  CacheInv'
  <1>1. archives' = archives BY DEF host
  <1>2. HandsOK' BY <1>1, BecomeKeepsHands DEF CacheInv
  <1> QED BY <1>2, OwnStep

\* The state a process is in, and what Goto and Holding make of it.
LEMMA OwnHand == ASSUME CacheInv, NEW p \in Procs PROVE HandOK(proc[p], archives)
  BY DEF CacheInv, HandsOK

LEMMA OwnGoto ==
  ASSUME CacheInv, NEW p \in Procs, NEW step \in Steps, Goto(p, step),
         HandOK([proc[p] EXCEPT !.pc = step], archives),
         UNCHANGED faults \/ Fault, UNCHANGED <<world, host, guest, commands>>
  PROVE  CacheInv'
  BY OwnBecome DEF Goto

-----------------------------------------------------------------------------
(* Each action keeps the invariant.                                        *)

LEMMA BeginInv ==
  ASSUME CacheInv, NEW p \in Procs, NEW refresh \in BOOLEAN, NEW refs \in Refs,
         Begin(p, refresh, refs)
  PROVE  CacheInv'
  <1> DEFINE s == [Idle EXCEPT !.pc = "start", !.refresh = refresh,
                               !.refs = refs, !.asked = checkout, !.since = upstream]
  <1>1. s \in Process
    BY InputsAndRefs DEF CacheInv, WorldOK, Idle, Process, Steps
  <1>2. s.pc = "start" BY DEF Idle
  <1>3. HandOK(s, archives') BY <1>1, <1>2 DEF HandOK, Importing, Building
  <1>4. archives \subseteq archives' BY DEF Begin, host
  <1>5. Become(p, s) BY DEF Begin
  <1> HIDE DEF s
  <1>6. HandsOK' BY <1>3, <1>4, <1>5, BecomeKeepsHands DEF CacheInv
  <1>7. WorldOK' BY DEF Begin, CacheInv, WorldOK, world, host, guest
  <1>8. LookupsAreServable' BY DEF Begin, CacheInv, LookupsAreServable, host
  <1> QED BY <1>6, <1>7, <1>8 DEF CacheInv

LEMMA EditInv == ASSUME CacheInv, Edit PROVE CacheInv'
  <1>1. HandsOK' BY DEF Edit, CacheInv, HandsOK, host
  <1>2. WorldOK' BY DEF Edit, CacheInv, WorldOK, host, guest
  <1>3. LookupsAreServable' BY DEF Edit, CacheInv, LookupsAreServable, host
  <1> QED BY <1>1, <1>2, <1>3 DEF CacheInv

LEMMA UpstreamMovesInv == ASSUME CacheInv, UpstreamMoves PROVE CacheInv'
  <1>1. HandsOK' BY DEF UpstreamMoves, CacheInv, HandsOK, host
  <1>2. WorldOK' BY BoundAssumption DEF UpstreamMoves, CacheInv, WorldOK, host, guest, Rev
  <1>3. LookupsAreServable' BY DEF UpstreamMoves, CacheInv, LookupsAreServable, host
  <1> QED BY <1>1, <1>2, <1>3 DEF CacheInv

LEMMA KillInv == ASSUME CacheInv, NEW p \in Procs, Kill(p) PROVE CacheInv'
  BY OwnFailure DEF Kill, CallFails

LEMMA StatDockerfileInv ==
  ASSUME CacheInv, NEW p \in Procs, StatDockerfile(p) PROVE CacheInv'
  <1>1. CASE checkout = None /\ Goto(p, "ready") /\ UNCHANGED faults
    <2>1. HandOK([proc[p] EXCEPT !.pc = "ready"], archives)
      BY OwnHand DEF HandOK, Process, Steps, Importing, Building
    <2> QED BY <1>1, <2>1, OwnGoto DEF StatDockerfile, Steps
  <1>2. CASE Fail(p) /\ UNCHANGED faults BY <1>2, OwnFailure DEF StatDockerfile
  <1>3. CASE /\ checkout # None
             /\ Become(p, [proc[p] EXCEPT !.pc = "identity", !.inputs = Current(p)])
             /\ UNCHANGED faults
    <2> DEFINE s == [proc[p] EXCEPT !.pc = "identity", !.inputs = Current(p)]
    <2>1. Current(p) \in Inputs
      BY <1>3, OwnHand, InputsAndRefs DEF Current, CacheInv, WorldOK, HandOK, Process
    <2>2. s \in Process /\ s.pc = "identity" BY <2>1, OwnHand DEF HandOK, Process, Steps
    <2>3. HandOK(s, archives) BY <2>2 DEF HandOK, Importing, Building
    <2> HIDE DEF s
    <2> QED BY <1>3, <2>3, OwnBecome DEF StatDockerfile, s
  <1>4. CASE CallFails(p) BY <1>4, OwnFailure DEF StatDockerfile, CallFails
  <1> QED BY <1>1, <1>2, <1>3, <1>4 DEF StatDockerfile

LEMMA ReadIdentityInv ==
  ASSUME CacheInv, NEW p \in Procs, ReadIdentity(p) PROVE CacheInv'
  <1>1. ASSUME NEW step \in {"build", "ready", "cached"}, Goto(p, step), UNCHANGED faults
        PROVE  CacheInv'
    <2>1. HandOK([proc[p] EXCEPT !.pc = step], archives)
      BY OwnHand DEF HandOK, Process, Steps, Importing, Building
    <2> QED BY <1>1, <2>1, OwnGoto DEF ReadIdentity, Steps
  <1>2. CASE CallFails(p) BY <1>2, OwnFailure DEF ReadIdentity, CallFails
  <1> QED BY <1>1, <1>2 DEF ReadIdentity

\* What Cached finds has an archive.
LEMMA FindCachedInv == ASSUME CacheInv, NEW p \in Procs, FindCached(p) PROVE CacheInv'
  <1> DEFINE entry == lookup[Current(p)]
             legacy == LegacyImage(checkout)
  <1>1. ASSUME NEW image \in archives, Holding(p, image, "transfer"), UNCHANGED faults
        PROVE  CacheInv'
    <2> DEFINE s == [proc[p] EXCEPT !.pc = "transfer", !.image = image]
    <2>1. image \in Image BY DEF CacheInv, WorldOK
    <2>2. s \in Process /\ s.pc = "transfer" /\ s.image = image
      BY <2>1, OwnHand DEF HandOK, Process, Steps
    <2>3. HandOK(s, archives) BY <2>1, <2>2 DEF HandOK, Building
    <2>4. Become(p, s) BY <1>1 DEF Holding
    <2> HIDE DEF s
    <2> QED BY <1>1, <2>3, <2>4, OwnBecome DEF FindCached
  <1>2. CASE Goto(p, "build") /\ UNCHANGED faults
    <2>1. HandOK([proc[p] EXCEPT !.pc = "build"], archives)
      BY OwnHand DEF HandOK, Process, Steps, Importing, Building
    <2> QED BY <1>2, <2>1, OwnGoto DEF FindCached, Steps
  <1>3. CASE Fail(p) /\ (UNCHANGED faults \/ Fault) BY <1>3, OwnFailure DEF FindCached
  <1> QED BY <1>1, <1>2, <1>3 DEF FindCached, CallFails

\* A build on the host works from inputs of its own.
LEMMA StartBuildInv == ASSUME CacheInv, NEW p \in Procs, StartBuild(p) PROVE CacheInv'
  <1>1. CASE /\ checkout # None /\ UNCHANGED faults
             /\ Become(p, [proc[p] EXCEPT !.pc = "buildx", !.key = Current(p)])
    <2> DEFINE s == [proc[p] EXCEPT !.pc = "buildx", !.key = Current(p)]
    <2>1. Current(p) \in Inputs
      BY <1>1, OwnHand, InputsAndRefs DEF Current, CacheInv, WorldOK, HandOK, Process
    <2>2. s \in Process /\ s.pc = "buildx" /\ s.key \in Inputs
      BY <2>1, OwnHand DEF HandOK, Process, Steps
    <2>3. HandOK(s, archives) BY <2>2 DEF HandOK, Importing, Building
    <2>4. Become(p, s) BY <1>1
    <2> HIDE DEF s
    <2> QED BY <1>1, <2>3, <2>4, OwnBecome DEF StartBuild
  <1>2. CASE Goto(p, "guestbuild") /\ UNCHANGED faults
    <2>1. HandOK([proc[p] EXCEPT !.pc = "guestbuild"], archives)
      BY OwnHand DEF HandOK, Process, Steps, Importing, Building
    <2> QED BY <1>2, <2>1, OwnGoto DEF StartBuild, Steps
  <1>3. CASE Fail(p) /\ (UNCHANGED faults \/ Fault) BY <1>3, OwnFailure DEF StartBuild
  <1> QED BY <1>1, <1>2, <1>3 DEF StartBuild, CallFails

\* An image is built with the label it is given.
LEMMA NewImageFacts ==
  ASSUME CacheInv, NEW p \in Procs, checkout # None, NEW label \in Inputs \cup {None}
  PROVE  NewImage(p, label) \in Image /\ NewImage(p, label).label = label
  <1>1. Current(p) \in Inputs
    BY OwnHand, InputsAndRefs DEF Current, CacheInv, WorldOK, HandOK, Process
  <1> QED BY <1>1 DEF NewImage, Image, CacheInv, WorldOK

LEMMA BuildOnHostInv == ASSUME CacheInv, NEW p \in Procs, BuildOnHost(p) PROVE CacheInv'
  <1>1. CASE checkout # None /\ Holding(p, NewImage(p, proc[p].key), "save") /\ UNCHANGED faults
    <2> DEFINE image == NewImage(p, proc[p].key)
               s == [proc[p] EXCEPT !.pc = "save", !.image = image]
    <2>1. proc[p].key \in Inputs BY OwnHand DEF BuildOnHost, At, HandOK
    <2>2. image \in Image /\ image.label = proc[p].key BY <1>1, <2>1, NewImageFacts
    <2> HIDE DEF image
    <2>3. s \in Process /\ s.pc = "save" /\ s.image = image /\ s.key = proc[p].key
      BY <2>2, OwnHand DEF HandOK, Process, Steps
    <2>4. HandOK(s, archives) BY <2>1, <2>2, <2>3 DEF HandOK, Building
    <2>5. Become(p, s) BY <1>1 DEF Holding, image
    <2> HIDE DEF s
    <2> QED BY <1>1, <2>4, <2>5, OwnBecome DEF BuildOnHost
  <1>2. CASE Fail(p) /\ (UNCHANGED faults \/ Fault) BY <1>2, OwnFailure DEF BuildOnHost
  <1> QED BY <1>1, <1>2 DEF BuildOnHost, CallFails

LEMMA SaveArchiveInv == ASSUME CacheInv, NEW p \in Procs, SaveArchive(p) PROVE CacheInv'
  <1>1. CASE Goto(p, "install") /\ UNCHANGED faults
    <2>1. HandOK([proc[p] EXCEPT !.pc = "install"], archives)
      BY OwnHand DEF SaveArchive, At, HandOK, Process, Steps, Importing, Building
    <2> QED BY <1>1, <2>1, OwnGoto DEF SaveArchive, Steps
  <1>2. CASE CallFails(p) BY <1>2, OwnFailure DEF SaveArchive, CallFails
  <1> QED BY <1>1, <1>2 DEF SaveArchive

\* The archive comes first ...
LEMMA InstallArchiveInv == ASSUME CacheInv, NEW p \in Procs, InstallArchive(p) PROVE CacheInv'
  <1>1. CASE /\ archives' = archives \cup {proc[p].image}
             /\ Goto(p, "publish") /\ UNCHANGED faults
    <2> DEFINE s == [proc[p] EXCEPT !.pc = "publish"]
    <2>1. proc[p].image \in Image BY OwnHand DEF InstallArchive, At, HandOK, Importing
    <2>2. HandOK(s, archives')
      BY <1>1, OwnHand DEF InstallArchive, At, HandOK, Process, Steps, Importing, Building
    <2>3. archives \subseteq archives' BY <1>1
    <2>4. Become(p, s) BY <1>1 DEF Goto
    <2> HIDE DEF s
    <2>5. HandsOK' BY <2>2, <2>3, <2>4, BecomeKeepsHands DEF CacheInv
    <2>6. WorldOK' BY <1>1, <2>1 DEF InstallArchive, CacheInv, WorldOK, world, guest
    <2>7. LookupsAreServable' BY <2>3 DEF InstallArchive, CacheInv, LookupsAreServable
    <2> QED BY <2>5, <2>6, <2>7 DEF CacheInv
  <1>2. CASE CallFails(p) /\ UNCHANGED archives
    BY <1>2, OwnFailure DEF InstallArchive, CallFails, host
  <1> QED BY <1>1, <1>2 DEF InstallArchive

\* ... and the lookup, under the label of its image.
LEMMA PublishLookupInv == ASSUME CacheInv, NEW p \in Procs, PublishLookup(p) PROVE CacheInv'
  <1>1. CASE /\ lookup' = [lookup EXCEPT ![proc[p].key] = proc[p].image]
             /\ Goto(p, "transfer") /\ UNCHANGED faults
    <2> DEFINE s == [proc[p] EXCEPT !.pc = "transfer"]
    <2>1. /\ proc[p].image \in Image /\ proc[p].key \in Inputs
          /\ proc[p].image.label = proc[p].key /\ proc[p].image \in archives
      BY OwnHand DEF PublishLookup, At, HandOK, Importing, Building
    <2>2. HandOK(s, archives)
      BY OwnHand DEF PublishLookup, At, HandOK, Process, Steps, Importing, Building
    <2>3. archives' = archives BY DEF PublishLookup
    <2>4. Become(p, s) BY <1>1 DEF Goto
    <2> HIDE DEF s
    <2>5. HandsOK' BY <2>2, <2>3, <2>4, BecomeKeepsHands DEF CacheInv
    <2>6. WorldOK' BY <1>1, <2>1 DEF PublishLookup, CacheInv, WorldOK, world, guest
    <2>7. LookupsAreServable'
      BY <1>1, <2>1, <2>3 DEF CacheInv, WorldOK, LookupsAreServable
    <2> QED BY <2>5, <2>6, <2>7 DEF CacheInv
  <1>2. CASE CallFails(p) /\ UNCHANGED lookup
    BY <1>2, OwnFailure DEF PublishLookup, CallFails, host
  <1> QED BY <1>1, <1>2 DEF PublishLookup

\* Steps on the guest's files and names leave every hand and the cache alone.
LEMMA GuestStep ==
  ASSUME CacheInv, UNCHANGED <<world, host, commands>>, UNCHANGED faults \/ Fault,
         transfers' \in SUBSET Image, latest' \in Image \cup {None}, HandsOK'
  PROVE  CacheInv'
  <1>1. faults' \in Nat BY DEF Fault, CacheInv, WorldOK
  <1>2. WorldOK' BY <1>1 DEF CacheInv, WorldOK, world, host
  <1>3. LookupsAreServable' BY DEF CacheInv, LookupsAreServable, host
  <1> QED BY <1>2, <1>3 DEF CacheInv

LEMMA GuestGoto ==
  ASSUME CacheInv, NEW p \in Procs, NEW step \in Steps, Goto(p, step),
         HandOK([proc[p] EXCEPT !.pc = step], archives), UNCHANGED host
  PROVE  HandsOK'
  <1> DEFINE s == [proc[p] EXCEPT !.pc = step]
  <1>1. archives' = archives BY DEF host
  <1>2. Become(p, s) BY DEF Goto
  <1>3. HandOK(s, archives) OBVIOUS
  <1> HIDE DEF s
  <1> QED BY <1>1, <1>2, <1>3, BecomeKeepsHands DEF CacheInv

\* A process that imports goes on importing, with its image.
LEMMA ImportGoto ==
  ASSUME CacheInv, NEW p \in Procs, NEW step \in {"writing", "load", "remove", "verify"},
         proc[p].pc \in {"transfer", "writing", "load", "remove"},
         Goto(p, step), UNCHANGED host
  PROVE  HandsOK'
  <1>1. HandOK([proc[p] EXCEPT !.pc = step], archives)
    BY OwnHand DEF HandOK, Process, Steps, Importing, Building
  <1> QED BY <1>1, GuestGoto DEF Steps

LEMMA GuestFailure ==
  ASSUME CacheInv, NEW p \in Procs, Fail(p), UNCHANGED host
  PROVE  HandsOK'
  <1>1. archives \subseteq archives' BY DEF host
  <1> QED BY <1>1, FailKeepsHands DEF CacheInv

LEMMA TransferInv == ASSUME CacheInv, NEW p \in Procs, Transfer(p) PROVE CacheInv'
  <1>1. HandsOK' BY ImportGoto, GuestFailure DEF Transfer, CallFails, At
  <1>2. transfers' \in SUBSET Image /\ latest' \in Image \cup {None}
    BY DEF Transfer, CacheInv, WorldOK
  <1> QED BY <1>1, <1>2, GuestStep DEF Transfer, CallFails

LEMMA TransferEndsInv == ASSUME CacheInv, NEW p \in Procs, TransferEnds(p) PROVE CacheInv'
  <1>1. HandsOK' BY ImportGoto, GuestFailure DEF TransferEnds, CallFails, At
  <1>2. proc[p].image \in Image BY OwnHand DEF TransferEnds, At, HandOK, Importing
  <1>3. transfers' \in SUBSET Image /\ latest' \in Image \cup {None}
    BY <1>2 DEF TransferEnds, CacheInv, WorldOK
  <1> QED BY <1>1, <1>3, GuestStep DEF TransferEnds, CallFails

LEMMA LoadInv == ASSUME CacheInv, NEW p \in Procs, Load(p) PROVE CacheInv'
  <1>1. HandsOK' BY ImportGoto, GuestFailure DEF Load, CallFails, At
  <1> QED BY <1>1, OwnStep DEF Load, CallFails

LEMMA RemoveTransferInv == ASSUME CacheInv, NEW p \in Procs, RemoveTransfer(p) PROVE CacheInv'
  <1>1. HandsOK' BY ImportGoto, GuestFailure DEF RemoveTransfer, CallFails, At
  <1>2. transfers' \in SUBSET Image /\ latest' \in Image \cup {None}
    BY DEF RemoveTransfer, CacheInv, WorldOK
  <1> QED BY <1>1, <1>2, GuestStep DEF RemoveTransfer, CallFails

\* Only a verified image is tagged ...
LEMMA VerifyImportInv == ASSUME CacheInv, NEW p \in Procs, VerifyImport(p) PROVE CacheInv'
  <1>1. CASE Verified(p) /\ Goto(p, "tag") /\ UNCHANGED faults
    <2>1. HandOK([proc[p] EXCEPT !.pc = "tag"], archives)
      BY <1>1, OwnHand
      DEF VerifyImport, At, Verified, HandOK, Process, Steps, Importing, Building
    <2> QED BY <1>1, <2>1, OwnGoto DEF VerifyImport, Steps
  <1>2. CASE Fail(p) /\ (UNCHANGED faults \/ Fault) BY <1>2, OwnFailure DEF VerifyImport
  <1> QED BY <1>1, <1>2 DEF VerifyImport, CallFails

\* ... or one built in the guest with the label it would be verified by.
LEMMA BuildInGuestInv == ASSUME CacheInv, NEW p \in Procs, BuildInGuest(p) PROVE CacheInv'
  <1>1. CASE checkout # None /\ Holding(p, NewImage(p, proc[p].inputs), "tag") /\ UNCHANGED faults
    <2> DEFINE image == NewImage(p, proc[p].inputs)
               s == [proc[p] EXCEPT !.pc = "tag", !.image = image]
    <2>1. proc[p].inputs \in Inputs \cup {None} BY OwnHand DEF HandOK, Process
    <2>2. image \in Image /\ image.label = proc[p].inputs BY <1>1, <2>1, NewImageFacts
    <2> HIDE DEF image
    <2>3. s \in Process /\ s.pc = "tag" /\ s.image = image /\ s.inputs = proc[p].inputs
      BY <2>2, OwnHand DEF HandOK, Process, Steps
    <2>4. HandOK(s, archives) BY <2>2, <2>3 DEF HandOK, Building
    <2>5. Become(p, s) BY <1>1 DEF Holding, image
    <2> HIDE DEF s
    <2> QED BY <1>1, <2>4, <2>5, OwnBecome DEF BuildInGuest
  <1>2. CASE Fail(p) /\ (UNCHANGED faults \/ Fault) BY <1>2, OwnFailure DEF BuildInGuest
  <1> QED BY <1>1, <1>2 DEF BuildInGuest, CallFails

LEMMA TagLatestInv == ASSUME CacheInv, NEW p \in Procs, TagLatest(p) PROVE CacheInv'
  <1>1. HandsOK'
    <2>1. HandOK([proc[p] EXCEPT !.pc = "ready"], archives)
      BY OwnHand DEF HandOK, Process, Steps, Importing, Building
    <2> QED BY <2>1, GuestGoto, GuestFailure DEF TagLatest, CallFails, Steps
  <1>2. proc[p].image \in Image BY OwnHand DEF TagLatest, At, HandOK, Importing
  <1>3. transfers' \in SUBSET Image /\ latest' \in Image \cup {None}
    BY <1>2 DEF TagLatest, CacheInv, WorldOK
  <1> QED BY <1>1, <1>3, GuestStep DEF TagLatest, CallFails

LEMMA RunInv == ASSUME CacheInv, NEW p \in Procs, Run(p) PROVE CacheInv'
  BY OwnFailure DEF Run, Fail

-----------------------------------------------------------------------------
(* The theorems.                                                           *)

LEMMA InitInv == Init => CacheInv
  <1> SUFFICES ASSUME Init PROVE CacheInv OBVIOUS
  <1>1. \A l \in Local : LegacyImage(l) \in Image
    BY InputsAndRefs DEF LegacyImage, Image
  <1>2. ForeignImage \in Image BY InputsAndRefs DEF ForeignImage, Image
  <1>3. WorldOK BY <1>1, <1>2, InputsAndRefs DEF Init, WorldOK
  <1>4. HandsOK BY IdleOK DEF Init, HandsOK
  <1>5. LookupsAreServable BY DEF Init, LookupsAreServable
  <1> QED BY <1>3, <1>4, <1>5 DEF CacheInv

LEMMA StepInv == ASSUME CacheInv, NEW p \in Procs, Step(p) PROVE CacheInv'
  BY StatDockerfileInv, ReadIdentityInv, FindCachedInv, StartBuildInv, BuildOnHostInv,
     SaveArchiveInv, InstallArchiveInv, PublishLookupInv, TransferInv, TransferEndsInv,
     LoadInv, RemoveTransferInv, VerifyImportInv, BuildInGuestInv, TagLatestInv, RunInv
  DEF Step

LEMMA NextInv == CacheInv /\ [Next]_vars => CacheInv'
  <1> SUFFICES ASSUME CacheInv, [Next]_vars PROVE CacheInv' OBVIOUS
  <1>1. CASE Next
    BY <1>1, StepInv, KillInv, BeginInv, EditInv, UpstreamMovesInv DEF Next
  <1>2. CASE UNCHANGED vars
    BY <1>2 DEF vars, CacheInv, WorldOK, HandsOK, LookupsAreServable
  <1> QED BY <1>1, <1>2

\* Entries can be served, and each command holds an image that fits its step.
THEOREM CacheInvariant == Spec => []CacheInv
  BY InitInv, NextInv, PTL DEF Spec

\* Every variable keeps its type, and a step that uses an image has one.
THEOREM CacheTypes == Spec => []TypeOK
  BY CacheInvariant, CacheInvTypes, PTL

\* An entry of the host cache can be served offline, whatever the commands do
\* at once and wherever one fails or is killed (image_builder.go 178-185).
THEOREM EntriesCanBeServed == Spec => []LookupsAreServable
  <1>1. CacheInv => LookupsAreServable BY DEF CacheInv
  <1> QED BY <1>1, CacheInvariant, PTL

\* What becomes frridge-frr:latest carries the label of a command's inputs, or
\* is a legacy image (multipass.go 445-455, 483-489).
THEOREM TaggedIsVerified == Spec => TagIsVerified
  <1> DEFINE Verifies == latest' # latest =>
         \E p \in Procs :
            /\ At(p, "tag") /\ latest' = proc[p].image
            /\ (latest'.label = proc[p].inputs \/ latest'.legacy # None)
  <1>1. CacheInv /\ Next => Verifies
    <2> SUFFICES ASSUME CacheInv, Next, latest' # latest
                 PROVE  \E p \in Procs :
                          /\ At(p, "tag") /\ latest' = proc[p].image
                          /\ (latest'.label = proc[p].inputs \/ latest'.legacy # None)
      OBVIOUS
    <2>1. PICK p \in Procs : TagLatest(p)
      BY DEF Next, Step, Begin, Edit, UpstreamMoves, Kill, StatDockerfile, ReadIdentity,
             FindCached, StartBuild, BuildOnHost, SaveArchive, InstallArchive, PublishLookup,
             Transfer, TransferEnds, Load, RemoveTransfer, VerifyImport, BuildInGuest, Run, guest
    <2>2. At(p, "tag") /\ latest' = proc[p].image BY <2>1 DEF TagLatest
    <2>3. proc[p].image.label = proc[p].inputs \/ proc[p].image.legacy # None
      BY <2>2, OwnHand DEF At, HandOK
    <2> QED BY <2>2, <2>3
  <1>2. CacheInv /\ [Next]_vars => [Verifies]_vars BY <1>1
  <1> QED BY <1>2, CacheInvariant, PTL DEF Spec, TagIsVerified

-----------------------------------------------------------------------------
(* One step of one command.                                                *)

Preparing == Importing \cup {"identity", "cached", "build", "buildx", "guestbuild"}

Onward == {<<"save", "install">>, <<"install", "publish">>, <<"publish", "transfer">>,
           <<"transfer", "writing">>, <<"writing", "load">>, <<"load", "remove">>,
           <<"remove", "verify">>, <<"verify", "tag">>}

\* What a step makes of a command's state.
To(s, step) == [s EXCEPT !.pc = step]
With(s, step, image) == [s EXCEPT !.pc = step, !.image = image]
Asks(s, inputs) == [s EXCEPT !.pc = "identity", !.inputs = inputs]
Keyed(s, key) == [s EXCEPT !.pc = "buildx", !.key = key]

\* t is s but for its step, its inputs, its key and its image.
Continues(s, t) ==
    t.asked = s.asked /\ t.refs = s.refs /\ t.refresh = s.refresh /\ t.since = s.since

LEMMA Fields ==
  ASSUME NEW s \in Process
  PROVE  /\ \A step : /\ To(s, step).pc = step /\ Continues(s, To(s, step))
                      /\ To(s, step).inputs = s.inputs /\ To(s, step).key = s.key
                      /\ To(s, step).image = s.image
         /\ \A step, image :
              /\ With(s, step, image).pc = step /\ Continues(s, With(s, step, image))
              /\ With(s, step, image).inputs = s.inputs /\ With(s, step, image).key = s.key
              /\ With(s, step, image).image = image
         /\ \A inputs :
              /\ Asks(s, inputs).pc = "identity" /\ Continues(s, Asks(s, inputs))
              /\ Asks(s, inputs).inputs = inputs
         /\ \A key :
              /\ Keyed(s, key).pc = "buildx" /\ Continues(s, Keyed(s, key))
              /\ Keyed(s, key).inputs = s.inputs /\ Keyed(s, key).key = key
  BY DEF To, With, Asks, Keyed, Continues, Process

\* What a step makes of the command at s, with what it sees.
Moves(p, s, t) ==
    \/ t = Idle
    \/ s.pc = "start" /\ checkout = None /\ t = To(s, "ready")
    \/ s.pc = "start" /\ checkout # None
       /\ t = Asks(s, Current(p))
    \/ s.pc = "identity" /\ s.refresh /\ t = To(s, "build")
    \/ s.pc = "identity" /\ ~s.refresh /\ Matches(latest, s.inputs)
       /\ t = To(s, "ready")
    \/ s.pc = "identity" /\ ~s.refresh /\ ~Matches(latest, s.inputs)
       /\ t = To(s, "cached")
    \/ /\ s.pc = "cached" /\ checkout # None /\ lookup[Current(p)] # None
       /\ t = With(s, "transfer", lookup[Current(p)])
    \/ /\ s.pc = "cached" /\ checkout # None /\ s.refs = "default"
       /\ LegacyImage(checkout) \in archives
       /\ t = With(s, "transfer", LegacyImage(checkout))
    \/ s.pc = "cached" /\ t = To(s, "build")
    \/ s.pc = "build" /\ checkout # None /\ t = Keyed(s, Current(p))
    \/ s.pc = "build" /\ t = To(s, "guestbuild")
    \/ /\ s.pc = "buildx" /\ checkout # None
       /\ t = With(s, "save", NewImage(p, s.key))
    \/ \E move \in Onward : s.pc = move[1] /\ t = To(s, move[2])
    \/ /\ s.pc = "guestbuild" /\ checkout # None
       /\ t = With(s, "tag", NewImage(p, s.inputs))
    \/ s.pc = "tag" /\ latest' = s.image /\ t = To(s, "ready")

\* What it makes of the caches.
Leaves(s) ==
    /\ UNCHANGED world
    /\ \/ archives' = archives
       \/ s.pc = "install" /\ archives' = archives \cup {s.image}
    /\ \/ lookup' = lookup
       \/ s.pc = "publish" /\ lookup' = [lookup EXCEPT ![s.key] = s.image]
    /\ \/ latest' = latest
       \/ s.pc = "tag" /\ latest' = s.image

LEMMA BecomeIs ==
  ASSUME CacheInv, NEW p \in Procs, NEW s, Become(p, s)
  PROVE  proc'[p] = s /\ \A q \in Procs \ {p} : proc'[q] = proc[q]
  <1>1. proc' = [q \in Procs |-> IF q = p THEN s ELSE proc[q]]
    BY DEF Become, CacheInv, HandsOK
  <1> QED BY <1>1

LEMMA GotoIs ==
  ASSUME CacheInv, NEW p \in Procs, NEW step, Goto(p, step)
  PROVE  /\ proc'[p] = To(proc[p], step)
         /\ \A q \in Procs \ {p} : proc'[q] = proc[q]
  BY BecomeIs DEF Goto, To

LEMMA HoldingIs ==
  ASSUME CacheInv, NEW p \in Procs, NEW image, NEW step, Holding(p, image, step)
  PROVE  /\ proc'[p] = With(proc[p], step, image)
         /\ \A q \in Procs \ {p} : proc'[q] = proc[q]
  BY BecomeIs DEF Holding, With

LEMMA FailIs ==
  ASSUME CacheInv, NEW p \in Procs, Fail(p)
  PROVE  proc'[p] = Idle /\ \A q \in Procs \ {p} : proc'[q] = proc[q]
  BY BecomeIs DEF Fail

Moved(p) ==
    /\ Moves(p, proc[p], proc'[p]) /\ Leaves(proc[p])
    /\ \A q \in Procs \ {p} : proc'[q] = proc[q]

LEMMA EndMoves ==
  ASSUME CacheInv, NEW p \in Procs, Fail(p), Leaves(proc[p]) PROVE Moved(p)
  BY FailIs DEF Moved, Moves

LEMMA OnwardMoves ==
  ASSUME CacheInv, NEW p \in Procs, NEW step, <<proc[p].pc, step>> \in Onward,
         Goto(p, step), Leaves(proc[p])
  PROVE  Moved(p)
  <1>1. PICK move \in Onward : move = <<proc[p].pc, step>> OBVIOUS
  <1>2. proc[p].pc = move[1] /\ proc'[p] = To(proc[p], move[2]) BY <1>1, GotoIs
  <1> QED BY <1>2, GotoIs DEF Moved, Moves

LEMMA StepMoves ==
  ASSUME CacheInv, NEW p \in Procs, Step(p) \/ Kill(p) PROVE Moved(p)
  <1>1. CASE Kill(p) BY <1>1, EndMoves DEF Kill, CallFails, Leaves, world, host, guest
  <1>2. CASE StatDockerfile(p)
    <2>1. Leaves(proc[p]) /\ At(p, "start") BY <1>2 DEF StatDockerfile, Leaves, world, host, guest
    <2>2. CASE checkout = None /\ Goto(p, "ready")
      BY <2>1, <2>2, GotoIs DEF Moved, Moves, At
    <2>3. CASE checkout # None
               /\ Become(p, Asks(proc[p], Current(p)))
      <3>1. proc'[p] = Asks(proc[p], Current(p))
            /\ \A q \in Procs \ {p} : proc'[q] = proc[q]
        BY <2>3, BecomeIs
      <3> QED BY <2>1, <2>3, <3>1 DEF Moved, Moves, At
    <2>4. CASE Fail(p) BY <2>1, <2>4, EndMoves
    <2> QED BY <1>2, <2>2, <2>3, <2>4 DEF StatDockerfile, CallFails, Asks
  <1>3. CASE ReadIdentity(p)
    <2>1. Leaves(proc[p]) /\ At(p, "identity") BY <1>3 DEF ReadIdentity, Leaves, world, host, guest
    <2>2. CASE proc[p].refresh /\ Goto(p, "build")
      BY <2>1, <2>2, GotoIs DEF Moved, Moves, At
    <2>3. CASE ~proc[p].refresh
               /\ Goto(p, IF Matches(latest, proc[p].inputs) THEN "ready" ELSE "cached")
      <3>1. CASE Matches(latest, proc[p].inputs)
        BY <2>1, <2>3, <3>1, GotoIs DEF Moved, Moves, At
      <3>2. CASE ~Matches(latest, proc[p].inputs)
        BY <2>1, <2>3, <3>2, GotoIs DEF Moved, Moves, At
      <3> QED BY <3>1, <3>2
    <2>4. CASE Fail(p) BY <2>1, <2>4, EndMoves
    <2> QED BY <1>3, <2>2, <2>3, <2>4 DEF ReadIdentity, CallFails
  <1>4. CASE FindCached(p)
    <2>1. Leaves(proc[p]) /\ At(p, "cached") BY <1>4 DEF FindCached, Leaves, world, host, guest
    <2>2. CASE checkout # None /\ lookup[Current(p)] # None
               /\ Holding(p, lookup[Current(p)], "transfer")
      <3>1. /\ proc'[p] = With(proc[p], "transfer", lookup[Current(p)])
            /\ \A q \in Procs \ {p} : proc'[q] = proc[q]
        BY <2>2, HoldingIs
      <3> QED BY <2>1, <2>2, <3>1 DEF Moved, Moves, At
    <2>3. CASE /\ checkout # None /\ proc[p].refs = "default"
               /\ LegacyImage(checkout) \in archives
               /\ Holding(p, LegacyImage(checkout), "transfer")
      BY <2>1, <2>3, HoldingIs DEF Moved, Moves, At
    <2>4. CASE Goto(p, "build") BY <2>1, <2>4, GotoIs DEF Moved, Moves, At
    <2>5. CASE Fail(p) BY <2>1, <2>5, EndMoves
    <2> QED BY <1>4, <2>2, <2>3, <2>4, <2>5 DEF FindCached, CallFails
  <1>5. CASE StartBuild(p)
    <2>1. Leaves(proc[p]) /\ At(p, "build") BY <1>5 DEF StartBuild, Leaves, world, host, guest
    <2>2. CASE checkout # None
               /\ Become(p, Keyed(proc[p], Current(p)))
      <3>1. proc'[p] = Keyed(proc[p], Current(p))
            /\ \A q \in Procs \ {p} : proc'[q] = proc[q]
        BY <2>2, BecomeIs
      <3> QED BY <2>1, <2>2, <3>1 DEF Moved, Moves, At
    <2>3. CASE Goto(p, "guestbuild") BY <2>1, <2>3, GotoIs DEF Moved, Moves, At
    <2>4. CASE Fail(p) BY <2>1, <2>4, EndMoves
    <2> QED BY <1>5, <2>2, <2>3, <2>4 DEF StartBuild, CallFails, Keyed
  <1>6. CASE BuildOnHost(p)
    <2>1. Leaves(proc[p]) /\ At(p, "buildx") BY <1>6 DEF BuildOnHost, Leaves, world, host, guest
    <2>2. CASE checkout # None /\ Holding(p, NewImage(p, proc[p].key), "save")
      <3>1. /\ proc'[p] = With(proc[p], "save", NewImage(p, proc[p].key))
            /\ \A q \in Procs \ {p} : proc'[q] = proc[q]
        BY <2>2, HoldingIs
      <3> QED BY <2>1, <2>2, <3>1 DEF Moved, Moves, At
    <2>3. CASE Fail(p) BY <2>1, <2>3, EndMoves
    <2> QED BY <1>6, <2>2, <2>3 DEF BuildOnHost, CallFails
  <1>7. CASE BuildInGuest(p)
    <2>1. Leaves(proc[p]) /\ At(p, "guestbuild")
      BY <1>7 DEF BuildInGuest, Leaves, world, host, guest
    <2>2. CASE checkout # None /\ Holding(p, NewImage(p, proc[p].inputs), "tag")
      <3>1. /\ proc'[p] = With(proc[p], "tag", NewImage(p, proc[p].inputs))
            /\ \A q \in Procs \ {p} : proc'[q] = proc[q]
        BY <2>2, HoldingIs
      <3> QED BY <2>1, <2>2, <3>1 DEF Moved, Moves, At
    <2>3. CASE Fail(p) BY <2>1, <2>3, EndMoves
    <2> QED BY <1>7, <2>2, <2>3 DEF BuildInGuest, CallFails
  <1>8. CASE TagLatest(p)
    <2>1. At(p, "tag") BY <1>8 DEF TagLatest
    <2>2. Leaves(proc[p]) BY <1>8 DEF TagLatest, Leaves, world, host, At, Fault
    <2>3. CASE latest' = proc[p].image /\ Goto(p, "ready")
      BY <2>1, <2>2, <2>3, GotoIs DEF Moved, Moves, At
    <2>4. CASE Fail(p) BY <2>2, <2>4, EndMoves
    <2> QED BY <1>8, <2>3, <2>4 DEF TagLatest, CallFails
  <1>9. CASE SaveArchive(p) \/ Load(p) \/ VerifyImport(p)
    <2>1. Leaves(proc[p]) BY <1>9 DEF SaveArchive, Load, VerifyImport, Leaves, world, host, guest
    <2> QED BY <1>9, <2>1, EndMoves, OnwardMoves
            DEF SaveArchive, Load, VerifyImport, CallFails, At, Onward
  <1>10. CASE Transfer(p) \/ TransferEnds(p) \/ RemoveTransfer(p)
    <2>1. Leaves(proc[p]) BY <1>10 DEF Transfer, TransferEnds, RemoveTransfer, Leaves, world, host
    <2> QED BY <1>10, <2>1, EndMoves, OnwardMoves
            DEF Transfer, TransferEnds, RemoveTransfer, CallFails, At, Onward
  <1>11. CASE InstallArchive(p)
    <2>1. Leaves(proc[p]) BY <1>11 DEF InstallArchive, Leaves, world, guest, At
    <2> QED BY <1>11, <2>1, EndMoves, OnwardMoves DEF InstallArchive, CallFails, At, Onward
  <1>12. CASE PublishLookup(p)
    <2>1. Leaves(proc[p]) BY <1>12 DEF PublishLookup, Leaves, world, guest, At
    <2> QED BY <1>12, <2>1, EndMoves, OnwardMoves DEF PublishLookup, CallFails, At, Onward
  <1>13. CASE Run(p) BY <1>13, EndMoves DEF Run, Fail, Leaves, world, host, guest
  <1> QED BY <1>1, <1>2, <1>3, <1>4, <1>5, <1>6, <1>7, <1>8, <1>9, <1>10, <1>11, <1>12, <1>13
          DEF Step

LEMMA BeginIs ==
  ASSUME CacheInv, NEW p \in Procs, NEW refresh \in BOOLEAN, NEW refs \in Refs,
         Begin(p, refresh, refs)
  PROVE  /\ proc'[p].pc = "start" /\ proc'[p].asked = checkout /\ proc'[p].since = upstream
         /\ \A q \in Procs \ {p} : proc'[q] = proc[q]
         /\ UNCHANGED <<checkout, upstream, archives, lookup, latest>>
  <1> DEFINE s == [Idle EXCEPT !.pc = "start", !.refresh = refresh,
                               !.refs = refs, !.asked = checkout, !.since = upstream]
  <1>1. s.pc = "start" /\ s.asked = checkout /\ s.since = upstream BY DEF Idle
  <1>2. Become(p, s) BY DEF Begin
  <1> HIDE DEF s
  <1>3. proc'[p] = s /\ \A q \in Procs \ {p} : proc'[q] = proc[q] BY <1>2, BecomeIs
  <1> QED BY <1>1, <1>3 DEF Begin, world, host, guest

\* A command that becomes ready took a step, of which there are three.
LEMMA BecomesReady ==
  ASSUME CacheInv, Next, NEW p \in Procs, ~At(p, "ready"), proc'[p].pc = "ready"
  PROVE  Moved(p)
  <1>1. proc'[p] # proc[p] BY DEF At
  <1>2. ASSUME NEW q \in Procs, Step(q) \/ Kill(q) PROVE Moved(p)
    <2>1. Moved(q) BY <1>2, StepMoves
    <2>2. q = p BY <1>1, <2>1 DEF Moved
    <2> QED BY <2>1, <2>2
  <1>3. ASSUME NEW q \in Procs, NEW refresh \in BOOLEAN, NEW refs \in Refs,
               Begin(q, refresh, refs)
        PROVE  FALSE
    BY <1>1, <1>3, BeginIs
  <1>4. CASE Edit \/ UpstreamMoves BY <1>1, <1>4 DEF Edit, UpstreamMoves
  <1> QED BY <1>2, <1>3, <1>4 DEF Next

LEMMA ReadyFrom ==
  ASSUME CacheInv, NEW p \in Procs, Moves(p, proc[p], proc'[p]), proc'[p].pc = "ready"
  PROVE  \/ proc[p].pc = "start" /\ checkout = None
         \/ proc[p].pc = "identity" /\ ~proc[p].refresh /\ Matches(latest, proc[p].inputs)
         \/ proc[p].pc = "tag" /\ latest' = proc[p].image
  <1>1. proc[p] \in Process BY OwnHand DEF HandOK
  <1>2. Idle.pc # "ready" BY DEF Idle
  <1>3. \A move \in Onward : move[2] # "ready" BY DEF Onward
  <1> QED BY <1>1, <1>2, <1>3, Fields DEF Moves, Continues

-----------------------------------------------------------------------------
(* A refresh, for any number of commands.                                  *)

\* A refresh builds, and what it builds is what upstream has by then.
FreshOK(s, now) ==
    /\ s.since <= now
    /\ s.refresh => s.pc # "cached"
    /\ s.refresh /\ s.pc \in Importing => s.since <= s.image.rev

FreshInv == \A p \in Procs : FreshOK(proc[p], upstream)

LEMMA RevFacts ==
  ASSUME CacheInv, NEW p \in Procs
  PROVE  /\ Rev \subseteq Int /\ upstream \in Rev /\ 0 <= upstream
         /\ proc[p] \in Process /\ proc[p].since \in Rev
         /\ \A label : NewImage(p, label).rev = upstream
  <1>1. proc[p] \in Process BY OwnHand DEF HandOK
  <1> QED BY <1>1, BoundAssumption DEF Rev, CacheInv, WorldOK, Process, NewImage

LEMMA FreshMoves ==
  ASSUME CacheInv, FreshInv, NEW p \in Procs, Moves(p, proc[p], proc'[p])
  PROVE  FreshOK(proc'[p], upstream)
  <1> DEFINE s == proc[p]
             t == proc'[p]
  <1>1. s \in Process /\ 0 <= upstream /\ \A label : NewImage(p, label).rev = upstream
    BY RevFacts
  <1>2. FreshOK(s, upstream) BY DEF FreshInv
  <1>3. ASSUME NEW step, t = To(s, step), step \notin Importing \cup {"cached"}
        PROVE  FreshOK(t, upstream)
    BY <1>1, <1>2, <1>3, Fields DEF FreshOK, Continues
  <1>4. CASE t = Idle BY <1>1, <1>4 DEF FreshOK, Idle, Importing
  <1>5. CASE t = Asks(s, Current(p))
    BY <1>1, <1>2, <1>5, Fields DEF FreshOK, Continues, Importing
  <1>6. CASE ~s.refresh /\ t = To(s, "cached")
    BY <1>1, <1>2, <1>6, Fields DEF FreshOK, Continues
  <1>7. ASSUME NEW image, s.pc = "cached", t = With(s, "transfer", image)
        PROVE  FreshOK(t, upstream)
    BY <1>1, <1>2, <1>7, Fields DEF FreshOK, Continues
  <1>8. CASE t = Keyed(s, Current(p))
    BY <1>1, <1>2, <1>8, Fields DEF FreshOK, Continues, Importing
  <1>9. ASSUME NEW image, image.rev = upstream, NEW step \in {"save", "tag"},
               t = With(s, step, image)
        PROVE  FreshOK(t, upstream)
    BY <1>1, <1>2, <1>9, Fields DEF FreshOK, Continues
  <1>10. ASSUME NEW move \in Onward, s.pc = move[1], t = To(s, move[2])
         PROVE  FreshOK(t, upstream)
    <2>1. move[1] \in Importing /\ move[2] # "cached" BY DEF Onward, Importing
    <2> QED BY <1>1, <1>2, <1>10, <2>1, Fields DEF FreshOK, Continues
  <1>11. \A step \in {"ready", "build", "guestbuild"} : step \notin Importing \cup {"cached"}
    BY DEF Importing
  <1> QED BY <1>1, <1>3, <1>4, <1>5, <1>6, <1>7, <1>8, <1>9, <1>10, <1>11 DEF Moves

LEMMA FreshStep ==
  ASSUME CacheInv, FreshInv, [Next]_vars PROVE FreshInv'
  <1>1. ASSUME NEW p \in Procs, Step(p) \/ Kill(p) PROVE FreshInv'
    <2>1. Moved(p) BY <1>1, StepMoves
    <2>2. FreshOK(proc'[p], upstream) BY <2>1, FreshMoves DEF Moved
    <2> QED BY <2>1, <2>2 DEF Moved, Leaves, world, FreshInv
  <1>2. ASSUME NEW p \in Procs, NEW refresh \in BOOLEAN, NEW refs \in Refs,
               Begin(p, refresh, refs)
        PROVE  FreshInv'
    <2>1. proc'[p].since <= upstream /\ proc'[p].pc = "start" BY <1>2, BeginIs, RevFacts
    <2>2. FreshOK(proc'[p], upstream) BY <2>1 DEF FreshOK, Importing
    <2> QED BY <1>2, <2>2, BeginIs DEF FreshInv
  <1>3. CASE Edit \/ UNCHANGED vars BY <1>3 DEF Edit, vars, FreshInv
  <1>4. CASE UpstreamMoves
    <2>1. ASSUME NEW p \in Procs PROVE FreshOK(proc[p], upstream')
      <3>1. FreshOK(proc[p], upstream) BY DEF FreshInv
      <3>2. upstream <= upstream' /\ upstream \in Int /\ upstream' \in Int /\ proc[p].since \in Int
        BY <1>4, RevFacts DEF UpstreamMoves
      <3> QED BY <3>1, <3>2 DEF FreshOK
    <2> QED BY <1>4, <2>1 DEF UpstreamMoves, FreshInv
  <1> QED BY <1>1, <1>2, <1>3, <1>4 DEF Next

LEMMA FreshInit == ASSUME Init PROVE FreshInv
  <1>1. 0 <= upstream BY DEF Init
  <1> QED BY <1>1 DEF Init, FreshInv, FreshOK, Idle, Importing

\* A command that refreshes ends its preparation with an image no older than
\* upstream was when it began, whatever other commands build, cache and remove
\* meanwhile (multipass.go 364-400).
THEOREM RefreshesAreFresh == Spec => RefreshIsFresh
  <1> DEFINE Fresh == \A p \in Procs :
         ~At(p, "start") /\ ~At(p, "ready") /\ proc'[p].pc = "ready" /\ proc[p].refresh
         => latest'.rev >= proc[p].since
  <1>1. ASSUME CacheInv, FreshInv, Next PROVE Fresh
    <2> SUFFICES ASSUME NEW p \in Procs, ~At(p, "start"), ~At(p, "ready"),
                        proc'[p].pc = "ready", proc[p].refresh
                 PROVE  latest'.rev >= proc[p].since
      OBVIOUS
    <2>1. Moved(p) BY <1>1, BecomesReady
    <2>2. proc[p].pc = "tag" /\ latest' = proc[p].image
      BY <1>1, <2>1, ReadyFrom DEF Moved, At
    <2>3. proc[p].since <= proc[p].image.rev BY <1>1, <2>2 DEF FreshInv, FreshOK, Importing
    <2>4. proc[p].image.rev \in Int /\ proc[p].since \in Int
      BY <1>1, <2>2, OwnHand, RevFacts DEF HandOK, Importing, Image
    <2> QED BY <2>2, <2>3, <2>4
  <1>2. CacheInv /\ FreshInv /\ [Next]_vars => [Fresh]_vars BY <1>1
  <1>3. Spec => []FreshInv
    <2>1. Init => FreshInv BY FreshInit
    <2>2. CacheInv /\ FreshInv /\ [Next]_vars => FreshInv' BY FreshStep
    <2> QED BY <2>1, <2>2, CacheInvariant, PTL DEF Spec
  <1> QED BY <1>2, <1>3, CacheInvariant, PTL DEF Spec, RefreshIsFresh

-----------------------------------------------------------------------------
(* One command at a time: the cache does not age.                          *)

OneCommand == \A p, q \in Procs : p = q

\* What is published is no older than what it replaces.
AgeOK(s, now, entries) ==
    s.pc \in Building =>
        /\ s.image.rev <= now
        /\ entries[s.key] # None => entries[s.key].rev <= s.image.rev

AgeInv ==
    /\ \A k \in Inputs : lookup[k] # None => lookup[k].rev <= upstream
    /\ \A p \in Procs : AgeOK(proc[p], upstream, lookup)

\* Who publishes has an image of its key, and knows its age.
LEMMA PublishFacts ==
  ASSUME CacheInv, AgeInv, NEW p \in Procs, proc[p].pc \in Building
  PROVE  /\ proc[p].image \in Image /\ proc[p].image # None /\ proc[p].image.rev \in Int
         /\ proc[p].image.rev <= upstream
         /\ proc[p].key \in Inputs
         /\ lookup[proc[p].key] # None => lookup[proc[p].key].rev <= proc[p].image.rev
  <1>1. proc[p].image \in Image /\ proc[p].key \in Inputs
    BY OwnHand DEF HandOK, Building, Importing
  <1>2. proc[p].image # None /\ proc[p].image.rev \in Int
    BY <1>1, RevFacts, NoneAssumption DEF Image
  <1>3. AgeOK(proc[p], upstream, lookup) BY DEF AgeInv
  <1> QED BY <1>1, <1>2, <1>3 DEF AgeOK

LEMMA AgeMoves ==
  ASSUME CacheInv, AgeInv, NEW p \in Procs, Moved(p)
  PROVE  AgeOK(proc'[p], upstream, lookup')
  <1> DEFINE s == proc[p]
             t == proc'[p]
  <1> SUFFICES ASSUME t.pc \in Building PROVE AgeOK(t, upstream, lookup')
    BY DEF AgeOK
  <1>1. s \in Process BY OwnHand DEF HandOK
  <1>2. \/ s.pc = "buildx" /\ t = With(s, "save", NewImage(p, s.key))
        \/ \E move \in Onward : s.pc = move[1] /\ t = To(s, move[2])
    <2>1. Idle.pc \notin Building
          /\ Building \cap {"ready", "identity", "build", "cached", "transfer", "buildx",
                            "guestbuild", "tag"} = {}
      BY DEF Idle, Building
    <2> QED BY <1>1, <2>1, Fields DEF Moved, Moves, Continues
  <1>3. CASE s.pc = "buildx" /\ t = With(s, "save", NewImage(p, s.key))
    <2>1. lookup' = lookup BY <1>3 DEF Moved, Leaves
    <2>2. t.image.rev = upstream /\ t.key = s.key BY <1>1, <1>3, RevFacts, Fields DEF Continues
    <2>3. s.key \in Inputs BY <1>3, OwnHand DEF HandOK
    <2>4. upstream <= upstream BY RevFacts
    <2> QED BY <2>1, <2>2, <2>3, <2>4 DEF AgeOK, AgeInv
  <1>4. ASSUME NEW move \in Onward, s.pc = move[1], t = To(s, move[2])
        PROVE  AgeOK(t, upstream, lookup')
    <2>1. t.pc = move[2] /\ t.image = s.image /\ t.key = s.key BY <1>1, <1>4, Fields DEF Continues
    <2>2. s.pc \in {"save", "install"} BY <1>4, <2>1 DEF Onward, Building
    <2>3. lookup' = lookup BY <2>2 DEF Moved, Leaves
    <2> QED BY <2>1, <2>2, <2>3, PublishFacts DEF AgeOK, Building
  <1> QED BY <1>2, <1>3, <1>4

LEMMA AgeStep ==
  ASSUME OneCommand, CacheInv, AgeInv, [Next]_vars PROVE AgeInv'
  <1>1. ASSUME NEW p \in Procs, Step(p) \/ Kill(p) PROVE AgeInv'
    <2>1. Moved(p) BY <1>1, StepMoves
    <2>2. AgeOK(proc'[p], upstream, lookup') BY <2>1, AgeMoves
    <2>3. upstream' = upstream BY <2>1 DEF Moved, Leaves, world
    <2>4. \A q \in Procs : AgeOK(proc'[q], upstream', lookup') BY <2>2, <2>3 DEF OneCommand
    <2>5. ASSUME NEW k \in Inputs, lookup'[k] # None PROVE lookup'[k].rev <= upstream
      <3>1. CASE lookup' = lookup BY <2>5, <3>1 DEF AgeInv
      <3>2. CASE proc[p].pc = "publish"
                 /\ lookup' = [lookup EXCEPT ![proc[p].key] = proc[p].image]
        <4>1. proc[p].image.rev <= upstream BY <3>2, PublishFacts DEF Building
        <4>2. lookup \in [Inputs -> Image \cup {None}] BY DEF CacheInv, WorldOK
        <4>3. lookup'[k] = IF k = proc[p].key THEN proc[p].image ELSE lookup[k]
          BY <3>2, <4>2
        <4> QED BY <2>5, <4>1, <4>3 DEF AgeInv
      <3> QED BY <2>1, <3>1, <3>2 DEF Moved, Leaves
    <2> QED BY <2>3, <2>4, <2>5 DEF AgeInv
  <1>2. ASSUME NEW p \in Procs, NEW refresh \in BOOLEAN, NEW refs \in Refs,
               Begin(p, refresh, refs)
        PROVE  AgeInv'
    <2>1. AgeOK(proc'[p], upstream', lookup') BY <1>2, BeginIs DEF AgeOK, Building
    <2> QED BY <1>2, <2>1, BeginIs DEF AgeInv
  <1>3. CASE Edit \/ UNCHANGED vars BY <1>3 DEF Edit, vars, host, AgeInv
  <1>4. CASE UpstreamMoves
    <2>1. upstream <= upstream' /\ upstream \in Int /\ upstream' \in Int
          /\ lookup' = lookup /\ proc' = proc
      BY <1>4, BoundAssumption DEF UpstreamMoves, CacheInv, WorldOK, Rev, host
    <2>2. ASSUME NEW p \in Procs PROVE AgeOK(proc[p], upstream', lookup)
      <3> SUFFICES ASSUME proc[p].pc \in Building PROVE AgeOK(proc[p], upstream', lookup)
        BY DEF AgeOK
      <3>1. proc[p].image.rev <= upstream' BY <2>1, PublishFacts
      <3> QED BY <3>1, PublishFacts DEF AgeOK
    <2>3. ASSUME NEW k \in Inputs, lookup[k] # None PROVE lookup[k].rev <= upstream'
      <3>1. lookup[k] \in Image BY <2>3 DEF CacheInv, WorldOK
      <3>2. lookup[k].rev \in Int BY <3>1, BoundAssumption DEF Image, Rev
      <3> QED BY <2>1, <2>3, <3>2 DEF AgeInv
    <2> QED BY <2>1, <2>2, <2>3 DEF AgeInv
  <1> QED BY <1>1, <1>2, <1>3, <1>4 DEF Next

LEMMA AgeInit == ASSUME Init PROVE AgeInv
  BY DEF Init, AgeInv, AgeOK, Idle, Building

\* As long as no two commands build at once, the host cache never loses an
\* entry and never goes back to an older image, whatever fails, is killed, or
\* is edited (image_builder.go 181-182).
THEOREM CacheStaysFresh == OneCommand => (Spec => CacheNeverAges)
  <1> SUFFICES ASSUME OneCommand PROVE Spec => CacheNeverAges OBVIOUS
  <1> DEFINE Ages == \A k \in Inputs : lookup[k] # None =>
                        lookup'[k] # None /\ lookup'[k].rev >= lookup[k].rev
  <1>1. ASSUME CacheInv, AgeInv, Next PROVE Ages
    <2> SUFFICES ASSUME NEW k \in Inputs, lookup[k] # None
                 PROVE  lookup'[k] # None /\ lookup'[k].rev >= lookup[k].rev
      OBVIOUS
    <2>1. lookup \in [Inputs -> Image \cup {None}] BY <1>1 DEF CacheInv, WorldOK
    <2>2. lookup[k].rev \in Int
      <3>1. lookup[k] \in Image BY <2>1
      <3> QED BY <3>1, BoundAssumption DEF Image, Rev
    <2>3. CASE lookup' = lookup BY <2>2, <2>3
    <2>4. ASSUME NEW p \in Procs, proc[p].pc = "publish",
                 lookup' = [lookup EXCEPT ![proc[p].key] = proc[p].image]
          PROVE  lookup'[k] # None /\ lookup'[k].rev >= lookup[k].rev
      <3>1. lookup'[k] = IF k = proc[p].key THEN proc[p].image ELSE lookup[k] BY <2>1, <2>4
      <3>2. /\ proc[p].image # None /\ proc[p].image.rev \in Int
            /\ lookup[proc[p].key] # None => lookup[proc[p].key].rev <= proc[p].image.rev
        BY <1>1, <2>4, PublishFacts DEF Building
      <3> QED BY <2>2, <3>1, <3>2
    <2>5. ASSUME NEW p \in Procs, Step(p) \/ Kill(p)
          PROVE  lookup'[k] # None /\ lookup'[k].rev >= lookup[k].rev
      <3>1. Moved(p) BY <1>1, <2>5, StepMoves
      <3> QED BY <2>3, <2>4, <3>1 DEF Moved, Leaves
    <2>6. CASE Edit \/ UpstreamMoves
               \/ \E p \in Procs, refresh \in BOOLEAN, refs \in Refs : Begin(p, refresh, refs)
      BY <2>3, <2>6 DEF Edit, UpstreamMoves, Begin, host
    <2> QED BY <1>1, <2>5, <2>6 DEF Next
  <1>2. CacheInv /\ AgeInv /\ [Next]_vars => [Ages]_vars BY <1>1
  <1>3. Spec => []AgeInv
    <2>1. Init => AgeInv BY AgeInit
    <2>2. CacheInv /\ AgeInv /\ [Next]_vars => AgeInv' BY AgeStep
    <2> QED BY <2>1, <2>2, CacheInvariant, PTL DEF Spec
  <1> QED BY <1>2, <1>3, CacheInvariant, PTL DEF Spec, CacheNeverAges

-----------------------------------------------------------------------------
(* One command at a time, on a checkout that stays: its inputs.            *)

Alone == OneCommand /\ ~EditAnyTime

\* An image was built from what its label says.
Right(image) ==
    /\ image.label # None => image.built = image.label /\ image.legacy = None
    /\ image.label = None /\ image.legacy # None =>
         image.built = [local |-> image.legacy, refs |-> "default"]

\* An image serves the inputs of a command on this checkout.
Serves(image, s, local) ==
    \/ image.label = s.inputs
    \/ image.label = None /\ image.legacy = local /\ s.refs = "default"

\* What a command knows of its inputs, of the image it holds, and, unless it
\* refreshes, of the image it found in the guest.
RightOK(s, local, found) ==
    /\ s.pc = "start" => s.asked = local
    /\ s.pc \in Preparing =>
         /\ local # None /\ s.asked = local
         /\ s.inputs = [local |-> local, refs |-> s.refs]
    /\ s.pc \in Building \cup {"buildx"} => s.key = s.inputs
    /\ s.pc \in Importing => Right(s.image) /\ Serves(s.image, s, local)
    /\ s.pc \in Preparing \ {"identity"} /\ ~s.refresh =>
         found = None \/ found.label # s.inputs

RightInv ==
    /\ latest # None => Right(latest)
    /\ \A image \in archives : Right(image)
    /\ \A p \in Procs : RightOK(proc[p], checkout, latest)

\* Before its command prepares anything, nothing is known.
LEMMA RestIsRight ==
  ASSUME NEW s, s.pc \notin Preparing \cup {"start"}, NEW local, NEW found
  PROVE  RightOK(s, local, found)
  BY DEF RightOK, Preparing, Importing, Building

LEMMA PreparesHere ==
  ASSUME CacheInv, RightInv, NEW p \in Procs, proc[p].pc \in Preparing
  PROVE  /\ checkout \in Local /\ checkout # None /\ proc[p].asked = checkout
         /\ proc[p].inputs = Current(p) /\ Current(p) \in Inputs /\ Current(p) # None
         /\ Current(p) = [local |-> checkout, refs |-> proc[p].refs]
         /\ proc[p] \in Process /\ RightOK(proc[p], checkout, latest)
  <1>1. RightOK(proc[p], checkout, latest) BY DEF RightInv
  <1>2. proc[p] \in Process BY OwnHand DEF HandOK
  <1>3. checkout # None /\ checkout \in Local BY <1>1 DEF RightOK, CacheInv, WorldOK
  <1>4. Current(p) \in Inputs BY <1>2, <1>3, InputsAndRefs DEF Current, Process
  <1> QED BY <1>1, <1>2, <1>3, <1>4, NoneAssumption DEF RightOK, Current

\* What a build makes is what its label says.
LEMMA NewIsRight ==
  ASSUME CacheInv, RightInv, NEW p \in Procs, proc[p].pc \in Preparing,
         NEW label, label = proc[p].inputs
  PROVE  /\ Right(NewImage(p, label)) /\ NewImage(p, label).label = proc[p].inputs
  <1>1. label = Current(p) /\ Current(p) # None BY PreparesHere
  <1>2. NewImage(p, label).label = label /\ NewImage(p, label).built = Current(p)
        /\ NewImage(p, label).legacy = None
    BY DEF NewImage
  <1> QED BY <1>1, <1>2 DEF Right

LEMMA RightMoves ==
  ASSUME CacheInv, RightInv, NEW p \in Procs, Moved(p)
  PROVE  RightOK(proc'[p], checkout, latest')
  <1> DEFINE s == proc[p]
             t == proc'[p]
  <1>1. s \in Process /\ RightOK(s, checkout, latest) BY OwnHand DEF HandOK, RightInv
  <1>2. CASE t.pc \notin Preparing \cup {"start"} BY <1>2, RestIsRight
  <1>3. CASE t = Idle
    <2>1. t.pc \notin Preparing \cup {"start"} BY <1>3 DEF Idle, Preparing, Importing
    <2> QED BY <2>1, RestIsRight
  <1>4. CASE s.pc = "start" /\ checkout # None
             /\ t = Asks(s, Current(p))
    BY <1>1, <1>4, Fields DEF RightOK, Continues, Current, Building, Importing
  <1> DEFINE Kept == /\ t.asked = s.asked /\ t.inputs = s.inputs /\ t.refs = s.refs
                     /\ t.refresh = s.refresh
  <1>5. ASSUME Kept, s.pc \in Preparing \ {"tag"}, t.pc \in Preparing,
               t.pc \in Building \cup {"buildx"} => t.key = t.inputs,
               t.pc \in Importing => Right(t.image) /\ Serves(t.image, t, checkout),
               t.pc # "identity" /\ ~t.refresh => latest = None \/ latest.label # t.inputs
        PROVE  RightOK(t, checkout, latest')
    <2>1. latest' = latest BY <1>5 DEF Moved, Leaves
    <2>2. t.pc # "start" BY <1>5 DEF Preparing, Importing
    <2> QED BY <1>1, <1>5, <2>1, <2>2 DEF RightOK
  <1>6. s.pc \in Preparing \ {"identity"} /\ ~s.refresh =>
          latest = None \/ latest.label # s.inputs
    BY <1>1 DEF RightOK
  <1>7. ASSUME NEW step \in {"build", "cached", "guestbuild"},
               s.pc \in {"identity", "cached", "build"}, t = To(s, step),
               s.pc = "identity" => s.refresh \/ ~Matches(latest, s.inputs)
        PROVE  RightOK(t, checkout, latest')
    <2>1. Kept /\ t.pc = step BY <1>1, <1>7, Fields DEF Continues
    <2>2. ~t.refresh => latest = None \/ latest.label # t.inputs
      BY <1>6, <1>7, <2>1 DEF Matches, Preparing
    <2>3. s.pc \in Preparing \ {"tag"} /\ t.pc \in Preparing
          /\ t.pc \notin Importing \cup Building \cup {"buildx", "identity"}
      BY <1>7, <2>1 DEF Preparing, Importing, Building
    <2> HIDE DEF s, t
    <2> QED BY <1>5, <2>1, <2>2, <2>3
  <1>8. ASSUME s.pc = "build", t = Keyed(s, Current(p))
        PROVE  RightOK(t, checkout, latest')
    <2>1. Kept /\ t.pc = "buildx" /\ t.key = Current(p) BY <1>1, <1>8, Fields DEF Continues
    <2>2. s.pc \in Preparing \ {"tag", "identity"} /\ t.pc \in Preparing \ Importing
      BY <1>8, <2>1 DEF Preparing, Importing
    <2>3. t.key = t.inputs BY <2>1, <2>2, PreparesHere
    <2> HIDE DEF s, t
    <2> QED BY <1>5, <1>6, <2>1, <2>2, <2>3
  <1>9. ASSUME s.pc \in {"cached", "buildx", "guestbuild"},
               t.pc \in {"transfer", "save", "tag"}, t.pc = "save" => s.pc = "buildx",
               Kept, t.key = s.key, Right(t.image), Serves(t.image, s, checkout)
        PROVE  RightOK(t, checkout, latest')
    <2>1. s.pc \in Preparing \ {"tag", "identity"} /\ t.pc \in Preparing
      BY <1>9 DEF Preparing, Importing
    <2>2. t.pc \in Building \cup {"buildx"} => t.key = t.inputs
      BY <1>1, <1>9 DEF RightOK, Building
    <2>3. Serves(t.image, t, checkout) BY <1>9 DEF Serves
    <2> HIDE DEF s, t
    <2> QED BY <1>5, <1>6, <1>9, <2>1, <2>2, <2>3
  <1>10. ASSUME NEW move \in Onward, s.pc = move[1], t = To(s, move[2])
         PROVE  RightOK(t, checkout, latest')
    <2>1. Kept /\ t.pc = move[2] /\ t.image = s.image /\ t.key = s.key
      BY <1>1, <1>10, Fields DEF Continues
    <2>2. s.pc \in Importing \ {"tag"} /\ t.pc \in Importing
          /\ (t.pc \in Building \cup {"buildx"} => s.pc \in Building)
      BY <1>10, <2>1 DEF Onward, Importing, Building
    <2>3. s.pc \in Preparing \ {"tag", "identity"} /\ t.pc \in Preparing
      BY <2>2 DEF Preparing, Importing
    <2>4. t.pc \in Building \cup {"buildx"} => t.key = t.inputs
      BY <1>1, <2>1, <2>2 DEF RightOK
    <2>5. Right(t.image) /\ Serves(t.image, t, checkout)
      BY <1>1, <2>1, <2>2 DEF RightOK, Serves
    <2> HIDE DEF s, t
    <2> QED BY <1>5, <1>6, <2>1, <2>3, <2>4, <2>5
  <1>11. CASE s.pc = "cached" /\ checkout # None /\ lookup[Current(p)] # None
              /\ t = With(s, "transfer", lookup[Current(p)])
    <2>1. s.inputs = Current(p) /\ Current(p) \in Inputs
      BY <1>11, PreparesHere DEF Preparing
    <2>2. lookup[Current(p)] \in archives /\ lookup[Current(p)].label = Current(p)
      BY <1>11, <2>1 DEF CacheInv, LookupsAreServable
    <2>3. Right(lookup[Current(p)]) /\ Serves(lookup[Current(p)], s, checkout)
      BY <2>1, <2>2 DEF RightInv, Serves
    <2>4. Kept /\ t.pc = "transfer" /\ t.image = lookup[Current(p)] /\ t.key = s.key
      BY <1>1, <1>11, Fields DEF Continues
    <2> QED BY <1>9, <1>11, <2>3, <2>4
  <1>12. CASE s.pc = "cached" /\ s.refs = "default" /\ LegacyImage(checkout) \in archives
              /\ t = With(s, "transfer", LegacyImage(checkout))
    <2>1. Right(LegacyImage(checkout)) BY <1>12 DEF RightInv
    <2>2. Serves(LegacyImage(checkout), s, checkout) BY <1>12 DEF Serves, LegacyImage
    <2>3. Kept /\ t.pc = "transfer" /\ t.image = LegacyImage(checkout) /\ t.key = s.key
      BY <1>1, <1>12, Fields DEF Continues
    <2> QED BY <1>9, <1>12, <2>1, <2>2, <2>3
  <1>13. CASE s.pc = "buildx" /\ t = With(s, "save", NewImage(p, s.key))
    <2>1. s.key = s.inputs BY <1>1, <1>13 DEF RightOK
    <2>2. Right(NewImage(p, s.key)) /\ Serves(NewImage(p, s.key), s, checkout)
      BY <1>13, <2>1, NewIsRight DEF Preparing, Serves
    <2>3. Kept /\ t.pc = "save" /\ t.image = NewImage(p, s.key) /\ t.key = s.key
      BY <1>1, <1>13, Fields DEF Continues
    <2> QED BY <1>9, <1>13, <2>2, <2>3
  <1>14. CASE s.pc = "guestbuild"
              /\ t = With(s, "tag", NewImage(p, s.inputs))
    <2>1. Right(NewImage(p, s.inputs)) /\ Serves(NewImage(p, s.inputs), s, checkout)
      BY <1>14, NewIsRight DEF Preparing, Serves
    <2>2. Kept /\ t.pc = "tag" /\ t.image = NewImage(p, s.inputs) /\ t.key = s.key
      BY <1>1, <1>14, Fields DEF Continues
    <2> QED BY <1>9, <1>14, <2>1, <2>2
  <1>15. ASSUME t = To(s, "ready") PROVE RightOK(t, checkout, latest')
    <2>1. t.pc \notin Preparing \cup {"start"}
      BY <1>1, <1>15, Fields DEF Continues, Preparing, Importing
    <2> QED BY <2>1, RestIsRight
  <1> HIDE DEF s, t
  <1> QED BY <1>3, <1>4, <1>7, <1>8, <1>10, <1>11, <1>12, <1>13, <1>14, <1>15
          DEF Moved, Moves, s, t

LEMMA RightStep ==
  ASSUME Alone, CacheInv, RightInv, [Next]_vars PROVE RightInv'
  <1>1. ASSUME NEW p \in Procs, Step(p) \/ Kill(p) PROVE RightInv'
    <2>1. Moved(p) BY <1>1, StepMoves
    <2>2. RightOK(proc'[p], checkout, latest') BY <2>1, RightMoves
    <2>3. checkout' = checkout BY <2>1 DEF Moved, Leaves, world
    <2>4. \A q \in Procs : RightOK(proc'[q], checkout', latest')
      BY <2>2, <2>3 DEF Alone, OneCommand
    <2>5. proc[p].pc \in Importing => Right(proc[p].image) BY DEF RightInv, RightOK
    <2>6. \A image \in archives' : Right(image)
      BY <2>1, <2>5 DEF Moved, Leaves, RightInv, Importing
    <2>7. latest' # None => Right(latest')
      BY <2>1, <2>5 DEF Moved, Leaves, RightInv, Importing
    <2> QED BY <2>4, <2>6, <2>7 DEF RightInv
  <1>2. ASSUME NEW p \in Procs, NEW refresh \in BOOLEAN, NEW refs \in Refs,
               Begin(p, refresh, refs)
        PROVE  RightInv'
    <2>1. RightOK(proc'[p], checkout', latest')
      BY <1>2, BeginIs DEF RightOK, Preparing, Importing, Building
    <2> QED BY <1>2, <2>1, BeginIs DEF RightInv
  <1>3. CASE Edit
    <2>1. \A p \in Procs : proc[p].pc \notin Preparing \cup {"start"}
      BY <1>3 DEF Edit, Alone, Quiescent, At, Preparing, Importing
    <2>2. \A p \in Procs : RightOK(proc[p], checkout', latest) BY <2>1, RestIsRight
    <2> QED BY <1>3, <2>2 DEF Edit, host, guest, RightInv
  <1>4. CASE UpstreamMoves \/ UNCHANGED vars
    BY <1>4 DEF UpstreamMoves, vars, host, guest, RightInv
  <1> QED BY <1>1, <1>2, <1>3, <1>4 DEF Next

LEMMA RightInit == ASSUME Init PROVE RightInv
  <1>1. \A l \in Local : Right(LegacyImage(l)) BY DEF Right, LegacyImage
  <1>2. Right(ForeignImage) BY DEF Right, ForeignImage
  <1>3. \A p \in Procs : RightOK(proc[p], checkout, latest)
    <2>1. Idle.pc \notin Preparing \cup {"start"} BY DEF Idle, Preparing, Importing
    <2> QED BY <2>1, RestIsRight DEF Init
  <1> QED BY <1>1, <1>2, <1>3 DEF Init, RightInv

\* Alone, every image of ours was built from its label, and a command holds
\* only images that serve its inputs.
THEOREM LabelsAreRight == Alone => (Spec => []RightInv)
  <1> SUFFICES ASSUME Alone PROVE Spec => []RightInv OBVIOUS
  <1>1. Init => RightInv BY RightInit
  <1>2. CacheInv /\ RightInv /\ [Next]_vars => RightInv' BY RightStep
  <1> QED BY <1>1, <1>2, CacheInvariant, PTL DEF Spec

\* An image that serves a command's inputs was built from them.
LEMMA ServingIsRight ==
  ASSUME NEW s \in Process, NEW image, NEW local \in Local, Right(image),
         Serves(image, s, local), s.inputs # None,
         s.inputs = [local |-> local, refs |-> s.refs], s.asked = local
  PROVE  image.built = [local |-> s.asked, refs |-> s.refs]
  BY NoneAssumption DEF Right, Serves

\* A guest command runs with an image built from the checkout and the refs it
\* was given (multipass.go 345-400).
THEOREM ReadyImagesAreRight == Alone => (Spec => ReadyImageIsRight)
  <1> SUFFICES ASSUME Alone PROVE Spec => ReadyImageIsRight OBVIOUS
  <1> DEFINE Ready == \A p \in Procs :
         At(p, "start") \/ At(p, "ready") \/ proc'[p].pc # "ready" \/
         (latest' # None /\ latest'.built = [local |-> proc[p].asked, refs |-> proc[p].refs])
  <1>1. ASSUME CacheInv, RightInv, Next PROVE Ready
    <2> SUFFICES ASSUME NEW p \in Procs, ~At(p, "start"), ~At(p, "ready"), proc'[p].pc = "ready"
                 PROVE  /\ latest' # None
                        /\ latest'.built = [local |-> proc[p].asked, refs |-> proc[p].refs]
      OBVIOUS
    <2>1. Moved(p) BY <1>1, BecomesReady
    <2>2. \/ proc[p].pc = "identity" /\ Matches(latest, proc[p].inputs)
          \/ proc[p].pc = "tag" /\ latest' = proc[p].image
      BY <1>1, <2>1, ReadyFrom DEF Moved, At
    <2>3. proc[p].pc \in Preparing BY <2>2 DEF Preparing, Importing
    <2>4. /\ checkout \in Local /\ proc[p].asked = checkout /\ proc[p] \in Process
          /\ proc[p].inputs # None
          /\ proc[p].inputs = [local |-> checkout, refs |-> proc[p].refs]
      BY <1>1, <2>3, PreparesHere
    <2>5. CASE proc[p].pc = "identity" /\ Matches(latest, proc[p].inputs)
      <3>1. latest' = latest /\ latest # None
        BY <2>1, <2>5 DEF Moved, Leaves, Matches
      <3>2. Right(latest) BY <1>1, <3>1 DEF RightInv
      <3>3. proc[p].inputs.refs = proc[p].refs BY <2>4
      <3>4. CASE latest.label # None
        <4>1. latest.legacy # checkout BY <2>4, <3>2, <3>4, NoneAssumption DEF Right
        <4>2. Serves(latest, proc[p], checkout) BY <2>5, <4>1 DEF Matches, Serves
        <4> QED BY <2>4, <3>1, <3>2, <4>2, ServingIsRight
      <3>5. CASE latest.label = None
        <4>1. Serves(latest, proc[p], checkout)
          BY <2>4, <2>5, <3>3, <3>5 DEF Matches, Serves
        <4> QED BY <2>4, <3>1, <3>2, <4>1, ServingIsRight
      <3> QED BY <3>4, <3>5
    <2>6. CASE proc[p].pc = "tag" /\ latest' = proc[p].image
      <3>1. Right(proc[p].image) /\ Serves(proc[p].image, proc[p], checkout)
        BY <1>1, <2>6 DEF RightInv, RightOK, Importing
      <3>2. proc[p].image \in Image BY <1>1, <2>6, OwnHand DEF HandOK, Importing
      <3> QED BY <2>4, <2>6, <3>1, <3>2, ServingIsRight, NoneAssumption
    <2> QED BY <2>2, <2>5, <2>6
  <1>2. CacheInv /\ RightInv /\ [Next]_vars => [Ready]_vars BY <1>1
  <1> QED BY <1>2, LabelsAreRight, CacheInvariant, PTL DEF Spec, ReadyImageIsRight

\* Without a refresh an image in the guest is replaced only by one of other
\* inputs (multipass.go 364-376; README.md:176).
THEOREM MatchingGuestsAreKept == Alone => (Spec => MatchingGuestIsKept)
  <1> SUFFICES ASSUME Alone PROVE Spec => MatchingGuestIsKept OBVIOUS
  <1> DEFINE Kept == latest' # latest /\ latest # None /\ latest.label # None
                     /\ (\A p \in Procs : ~proc[p].refresh)
                       => latest'.label # latest.label
  <1>1. ASSUME CacheInv, RightInv, Next PROVE Kept
    <2> SUFFICES ASSUME latest' # latest, latest # None, latest.label # None,
                        \A p \in Procs : ~proc[p].refresh
                 PROVE  latest'.label # latest.label
      OBVIOUS
    <2>1. PICK p \in Procs : Step(p) \/ Kill(p)
      BY <1>1 DEF Next, Begin, Edit, UpstreamMoves, guest
    <2>2. Moved(p) BY <1>1, <2>1, StepMoves
    <2>3. proc[p].pc = "tag" /\ latest' = proc[p].image BY <2>2 DEF Moved, Leaves
    <2>4. RightOK(proc[p], checkout, latest) BY <1>1 DEF RightInv
    <2>5. latest.label # proc[p].inputs BY <2>3, <2>4 DEF RightOK, Preparing, Importing
    <2>6. Serves(proc[p].image, proc[p], checkout) BY <2>3, <2>4 DEF RightOK, Importing
    <2> QED BY <2>3, <2>5, <2>6 DEF Serves
  <1>2. CacheInv /\ RightInv /\ [Next]_vars => [Kept]_vars BY <1>1
  <1> QED BY <1>2, LabelsAreRight, CacheInvariant, PTL DEF Spec, MatchingGuestIsKept
=============================================================================
