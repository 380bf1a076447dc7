----------------------------- MODULE ImageCache -----------------------------
(***************************************************************************)
(* The companion FRR image of frridge-mp: the host's archive cache         *)
(* (DockerImageBuilder, internal/multipass/image_builder.go) and what      *)
(* ensureGuestImage (internal/multipass/multipass.go) does with it before  *)
(* a command runs in the guest.                                            *)
(*                                                                         *)
(* The checkout and the ref overrides of a command's environment select a  *)
(* cache entry, its "inputs"; upstream moves under the same inputs, so an  *)
(* image also has a revision.                                              *)
(* An image is labelled with the inputs computed before its build, and     *)
(* `built` says what it was really built from.  Nothing locks the caches:  *)
(* several frridge-mp commands may prepare one guest at once.              *)
(***************************************************************************)
EXTENDS Integers

CONSTANTS
    Procs,        \* frridge-mp commands that may run at the same time
    Local,        \* contents of the checkout's Docker inputs
    MaxRev,       \* bound on upstream revisions
    MaxCommands,  \* bound on commands given
    MaxFaults,    \* bound on failed calls and kills, together
    MaxEdits,     \* bound on changes of the checkout
    EditAnyTime,  \* whether it may change while a command runs
    None          \* no Dockerfile, no image, no label

VARIABLES
    checkout,     \* the Docker inputs in the checkout, None: no Dockerfile
    upstream,     \* the revision a build would fetch now
    archives,     \* images with an archive in the host cache
    lookup,       \* the host cache's image of each inputs (<inputs>.id)
    latest,       \* the guest's frridge-frr:latest
    transfers,    \* images with a whole archive in the guest's file system
    proc,         \* each process
    commands, faults, edits

vars == <<checkout, upstream, archives, lookup, latest, transfers, proc,
          commands, faults, edits>>

host  == <<archives, lookup>>
guest == <<latest, transfers>>
world == <<checkout, upstream, edits>>

Refs   == {"default", "override"}     \* FRR_GIT_REF and LIBYANG_GIT_REF
Inputs == [local : Local, refs : Refs]
Rev    == 0..MaxRev
Image  == [label : Inputs \cup {None}, legacy : Local \cup {None},
           built : Inputs \cup {None}, rev : Rev]

ASSUME NoneAssumption == None \notin Local /\ None \notin Inputs /\ None \notin Image
ASSUME BoundAssumption ==
    /\ MaxRev \in Nat /\ MaxCommands \in Nat /\ MaxFaults \in Nat /\ MaxEdits \in Nat
    /\ EditAnyTime \in BOOLEAN

\* An image of an older frridge-mp: its label names the checkout only.
LegacyImage(local) ==
    [label |-> None, legacy |-> local,
     built |-> [local |-> local, refs |-> "default"], rev |-> 0]

\* An image of that name with no label of ours.
ForeignImage == [label |-> None, legacy |-> None, built |-> None, rev |-> 0]

Steps == {"idle", "start", "identity", "cached", "build", "buildx", "save", "install",
          "publish", "transfer", "writing", "load", "remove", "verify", "tag",
          "guestbuild", "ready"}

Process == [
    pc      : Steps,
    refresh : BOOLEAN,              \* --refresh-image
    refs    : Refs,                 \* of its environment
    asked   : Local \cup {None},    \* history: the checkout when it began
    since   : Rev,                  \* history: upstream when it began
    inputs  : Inputs \cup {None},   \* ensureGuestImage's
    key     : Inputs \cup {None},   \* Build's own
    image   : Image \cup {None}]    \* being built, imported or tagged

Idle == [pc |-> "idle", refresh |-> FALSE, refs |-> "default", asked |-> None, since |-> 0,
         inputs |-> None, key |-> None, image |-> None]

At(p, step) == proc[p].pc = step
Become(p, s) == proc' = [proc EXCEPT ![p] = s]
Goto(p, step) == Become(p, [proc[p] EXCEPT !.pc = step])
\* Mutant: what was found or built is not kept.
Forgetting(p, image, step) == Goto(p, step)
Holding(p, image, step) == Become(p, [proc[p] EXCEPT !.pc = step, !.image = image])
Current(p) == [local |-> checkout, refs |-> proc[p].refs]   \* imageInputsID
\* Mutant: BuildKit's cache serves the source stage.
CachedImage(p, label) ==
    [label |-> label, legacy |-> None, built |-> Current(p), rev |-> 0]
NewImage(p, label) ==
    [label |-> label, legacy |-> None, built |-> Current(p), rev |-> upstream]
Quiescent == \A p \in Procs : At(p, "idle")

\* A call that fails ends the command with its error.
Fault == faults < MaxFaults /\ faults' = faults + 1
Fail(p) == Become(p, Idle)
CallFails(p) == Fault /\ Fail(p)

Init ==
    /\ checkout \in Local
    /\ upstream = 0
    /\ archives \in {{}, {LegacyImage(l) : l \in Local}}
    /\ lookup = [k \in Inputs |-> None]
    /\ latest \in {None, ForeignImage} \cup {LegacyImage(l) : l \in Local}
    /\ transfers = {}
    /\ proc = [p \in Procs |-> Idle]
    /\ commands = 0 /\ faults = 0 /\ edits = 0

-----------------------------------------------------------------------------
(* The surroundings.                                                       *)

Begin(p, refresh, refs) ==
    /\ At(p, "idle") /\ commands < MaxCommands
    /\ commands' = commands + 1
    /\ Become(p, [Idle EXCEPT !.pc = "start", !.refresh = refresh,
                              !.refs = refs, !.asked = checkout, !.since = upstream])
    /\ UNCHANGED <<world, host, guest, faults>>

Edit ==
    /\ edits < MaxEdits /\ (Quiescent \/ EditAnyTime)
    /\ checkout' \in (Local \cup {None}) \ {checkout}
    /\ edits' = edits + 1
    /\ UNCHANGED <<upstream, host, guest, proc, commands, faults>>

UpstreamMoves ==
    /\ upstream < MaxRev /\ upstream' = upstream + 1
    /\ UNCHANGED <<checkout, edits, host, guest, proc, commands, faults>>

Kill(p) ==
    /\ ~At(p, "idle")
    /\ CallFails(p)
    /\ UNCHANGED <<world, host, guest, commands>>

-----------------------------------------------------------------------------
(* ensureGuestImage.                                                       *)

\* Without a Dockerfile there is no companion image to prepare, or to refresh;
\* otherwise imageInputsID hashes the checkout as it is now.
StatDockerfile(p) ==
    /\ At(p, "start")
    /\ \/ checkout = None /\ ~proc[p].refresh /\ Goto(p, "ready") /\ UNCHANGED faults
       \/ checkout = None /\ proc[p].refresh /\ Fail(p) /\ UNCHANGED faults
       \/ /\ checkout # None
          /\ Become(p, [proc[p] EXCEPT !.pc = "identity", !.inputs = Current(p)])
          /\ UNCHANGED faults
       \/ CallFails(p)
    /\ UNCHANGED <<world, host, guest, commands>>

\* Mutant: the host archive is preferred to the guest's image.
MatchesNothing(image, inputs) == FALSE

\* Mutant: a legacy image serves any refs.
MatchesAnyRefs(image, inputs) ==
    image # None /\ (image.label = inputs \/ image.legacy = checkout)

\* The guest's image serves the inputs, by its label or as a legacy one, whose
\* checkout is hashed anew.
Matches(image, inputs) ==
    /\ image # None
    /\ \/ image.label = inputs
       \/ inputs.refs = "default" /\ image.legacy = checkout

\* guestImageIdentity; a matching guest stays as it is until a refresh.
ReadIdentity(p) ==
    /\ At(p, "identity")
    /\ \/ proc[p].refresh /\ Goto(p, "build") /\ UNCHANGED faults
       \/ /\ ~proc[p].refresh
          /\ \/ checkout # None
             \/ latest # None /\ latest.label = proc[p].inputs
          /\ Goto(p, IF Matches(latest, proc[p].inputs) THEN "ready" ELSE "cached")
          /\ UNCHANGED faults
       \/ CallFails(p)
    /\ UNCHANGED <<world, host, guest, commands>>

\* Cached: the entry of the inputs, computed anew, else a legacy archive.
FindCached(p) ==
    LET entry  == lookup[Current(p)]
        legacy == LegacyImage(checkout)
    IN  /\ At(p, "cached")
        /\ \/ /\ checkout # None /\ entry # None
              /\ IF entry \in archives THEN Holding(p, entry, "transfer") ELSE Fail(p)
              /\ UNCHANGED faults
           \/ /\ checkout # None /\ entry = None
              /\ IF proc[p].refs = "default" /\ legacy \in archives
                 THEN Holding(p, legacy, "transfer") ELSE Goto(p, "build")
              /\ UNCHANGED faults
           \/ checkout = None /\ Fail(p) /\ UNCHANGED faults
           \/ CallFails(p)
        /\ UNCHANGED <<world, host, guest, commands>>

-----------------------------------------------------------------------------
(* DockerImageBuilder.Build.                                               *)

\* Its own inputs, then hostDockerAvailable: without Docker on the host the
\* guest builds.
StartBuild(p) ==
    /\ At(p, "build")
    /\ \/ /\ checkout # None
          /\ \/ Become(p, [proc[p] EXCEPT !.pc = "buildx", !.key = Current(p)])
             \/ Goto(p, "guestbuild")
          /\ UNCHANGED faults
       \/ checkout = None /\ Fail(p) /\ UNCHANGED faults
       \/ CallFails(p)
    /\ UNCHANGED <<world, host, guest, commands>>

\* buildx build with the source stage fetched again, and the inspection.
BuildOnHost(p) ==
    /\ At(p, "buildx")
    /\ \/ checkout # None /\ Holding(p, NewImage(p, proc[p].key), "save") /\ UNCHANGED faults
       \/ checkout = None /\ Fail(p) /\ UNCHANGED faults
       \/ CallFails(p)
    /\ UNCHANGED <<world, host, guest, commands>>

\* docker save to a temporary file of this process, which a failure leaves
\* unused.
SaveArchive(p) ==
    /\ At(p, "save")
    /\ \/ Goto(p, "install") /\ UNCHANGED faults
       \/ CallFails(p)
    /\ UNCHANGED <<world, host, guest, commands>>

\* Mutant: a rename that fails is not seen.
InstallUnseen(p) ==
    /\ At(p, "install") /\ Goto(p, "publish")
    /\ \/ archives' = archives \cup {proc[p].image} /\ UNCHANGED faults
       \/ Fault /\ UNCHANGED archives
    /\ UNCHANGED <<world, lookup, guest, commands>>

\* The archive is renamed into place, then the lookup.
InstallArchive(p) ==
    /\ At(p, "install")
    /\ \/ /\ archives' = archives \cup {proc[p].image}
          /\ Goto(p, "publish") /\ UNCHANGED faults
       \/ CallFails(p) /\ UNCHANGED archives
    /\ UNCHANGED <<world, lookup, guest, commands>>

\* Mutant: the entry is that of the inputs ensureGuestImage computed.
PublishForGuest(p) ==
    /\ At(p, "publish") /\ Goto(p, "transfer")
    /\ lookup' = [lookup EXCEPT ![proc[p].inputs] = proc[p].image]
    /\ UNCHANGED <<world, archives, guest, commands, faults>>

\* Mutant: the old entry is removed first.
PublishAnew(p) ==
    /\ At(p, "publish")
    /\ \/ /\ lookup' = [lookup EXCEPT ![proc[p].key] = proc[p].image]
          /\ Goto(p, "transfer") /\ UNCHANGED faults
       \/ CallFails(p) /\ lookup' = [lookup EXCEPT ![proc[p].key] = None]
    /\ UNCHANGED <<world, archives, guest, commands>>

PublishLookup(p) ==
    /\ At(p, "publish")
    /\ \/ /\ lookup' = [lookup EXCEPT ![proc[p].key] = proc[p].image]
          /\ Goto(p, "transfer") /\ UNCHANGED faults
       \/ CallFails(p) /\ UNCHANGED lookup
    /\ UNCHANGED <<world, archives, guest, commands>>

-----------------------------------------------------------------------------
(* importGuestImageArchive and buildGuestImage.                            *)

\* The file in the guest has the image's name: processes share it.  While one
\* writes it, and after it failed, what is there cannot be loaded.
Transfer(p) ==
    /\ At(p, "transfer")
    /\ transfers' = transfers \ {proc[p].image}
    /\ \/ Goto(p, "writing") /\ UNCHANGED faults
       \/ CallFails(p)
    /\ UNCHANGED <<world, host, latest, commands>>

TransferEnds(p) ==
    /\ At(p, "writing")
    /\ \/ /\ transfers' = transfers \cup {proc[p].image}
          /\ Goto(p, "load") /\ UNCHANGED faults
       \/ CallFails(p) /\ UNCHANGED transfers
    /\ UNCHANGED <<world, host, latest, commands>>

\* docker load refuses an archive that is missing or not whole.
Load(p) ==
    /\ At(p, "load")
    /\ \/ proc[p].image \in transfers /\ Goto(p, "remove") /\ UNCHANGED faults
       \/ proc[p].image \notin transfers /\ Fail(p) /\ UNCHANGED faults
       \/ CallFails(p)
    /\ UNCHANGED <<world, host, guest, commands>>

\* rm -f, whoever's archive it is by now.
RemoveTransfer(p) ==
    /\ At(p, "remove")
    /\ \/ /\ transfers' = transfers \ {proc[p].image}
          /\ Goto(p, "verify") /\ UNCHANGED faults
       \/ CallFails(p) /\ UNCHANGED transfers
    /\ UNCHANGED <<world, host, latest, commands>>

\* Mutant: docker load is enough.
VerifiedByLoad(p) == TRUE

\* The identity behind the archive's cache tag: labelled with the inputs of
\* ensureGuestImage, or with the legacy archive's checkout.
Verified(p) ==
    proc[p].image.label = proc[p].inputs \/ proc[p].image.legacy # None

VerifyImport(p) ==
    /\ At(p, "verify")
    /\ \/ Verified(p) /\ Goto(p, "tag") /\ UNCHANGED faults
       \/ ~Verified(p) /\ Fail(p) /\ UNCHANGED faults
       \/ CallFails(p)
    /\ UNCHANGED <<world, host, guest, commands>>

\* The guest builds from the mounted checkout, with ensureGuestImage's inputs
\* as the label, and inspects what it built.
BuildInGuest(p) ==
    /\ At(p, "guestbuild")
    /\ \/ /\ checkout # None
          /\ Holding(p, NewImage(p, proc[p].inputs), "tag") /\ UNCHANGED faults
       \/ checkout = None /\ Fail(p) /\ UNCHANGED faults
       \/ CallFails(p)
    /\ UNCHANGED <<world, host, guest, commands>>

\* docker image tag; a reply that is lost leaves the tag moved.
TagLatest(p) ==
    /\ At(p, "tag")
    /\ \/ latest' = proc[p].image /\ Goto(p, "ready") /\ UNCHANGED faults
       \/ CallFails(p) /\ latest' \in {latest, proc[p].image}
    /\ UNCHANGED <<world, host, transfers, commands>>

\* The guest command runs and ends.
Run(p) ==
    /\ At(p, "ready") /\ Become(p, Idle)
    /\ UNCHANGED <<world, host, guest, commands, faults>>

-----------------------------------------------------------------------------
(* The specification.                                                      *)

Step(p) ==
    \/ StatDockerfile(p) \/ ReadIdentity(p) \/ FindCached(p)
    \/ StartBuild(p) \/ BuildOnHost(p) \/ SaveArchive(p)
    \/ InstallArchive(p) \/ PublishLookup(p)
    \/ Transfer(p) \/ TransferEnds(p) \/ Load(p) \/ RemoveTransfer(p) \/ VerifyImport(p)
    \/ BuildInGuest(p) \/ TagLatest(p) \/ Run(p)

Next ==
    \/ \E p \in Procs :
         \/ Step(p) \/ Kill(p)
         \/ \E refresh \in BOOLEAN, refs \in Refs : Begin(p, refresh, refs)
    \/ Edit \/ UpstreamMoves

Spec == Init /\ [][Next]_vars

-----------------------------------------------------------------------------
(* Properties.                                                             *)

\* Types, and the image in hand where a step uses one.
TypeOK ==
    /\ checkout \in Local \cup {None} /\ upstream \in Rev
    /\ archives \in SUBSET Image
    /\ lookup \in [Inputs -> Image \cup {None}]
    /\ latest \in Image \cup {None} /\ transfers \in SUBSET Image
    /\ proc \in [Procs -> Process]
    /\ \A p \in Procs : proc[p].pc \in {"save", "install", "publish", "transfer",
                                       "writing", "load", "remove", "verify", "tag"} => proc[p].image # None
    /\ commands \in Nat /\ faults \in Nat /\ edits \in Nat

\* An entry of the host cache can be served offline: its archive is installed,
\* complete and labelled with its inputs, whatever failed or was killed, and
\* whichever command published it (image_builder.go 178-185).
LookupsAreServable ==
    \A k \in Inputs : lookup[k] # None => lookup[k] \in archives /\ lookup[k].label = k

\* A guest command runs with an image built from the checkout and the refs it
\* was given, however many caches, labels and names are in between
\* (multipass.go 345-400; README.md 171-175).
ReadyImageIsRight ==
    [][\A p \in Procs :
         At(p, "start") \/ At(p, "ready") \/ proc'[p].pc # "ready" \/
         (latest' # None /\ latest'.built = [local |-> proc[p].asked, refs |-> proc[p].refs])]_vars

\* After a refresh it is no older than upstream was when the command began.
RefreshIsFresh ==
    [][\A p \in Procs :
         ~At(p, "start") /\ ~At(p, "ready") /\ proc'[p].pc = "ready" /\ proc[p].refresh
         => latest'.rev >= proc[p].since]_vars

\* Without a refresh a guest image is replaced only by one of other inputs
\* ("Each matching guest keeps its own cached image until explicitly
\* refreshed", README.md:176; multipass.go 364-376).
MatchingGuestIsKept ==
    [][latest' # latest /\ latest # None /\ latest.label # None
         /\ (\A p \in Procs : ~proc[p].refresh)
       => latest'.label # latest.label]_vars

\* The host cache never loses an entry, and never goes back to an older image
\* ("A failed refresh leaves the previous lookup/archive available to offline
\* callers", image_builder.go 181-182).
CacheNeverAges ==
    [][\A k \in Inputs : lookup[k] # None =>
         lookup'[k] # None /\ lookup'[k].rev >= lookup[k].rev]_vars

\* What becomes frridge-frr:latest is labelled with the inputs of a command
\* that is preparing the guest, or is a legacy image, even if another command
\* replaces or removes its archive or the checkout changes (multipass.go
\* 445-455, 483-489).
TagIsVerified ==
    [][latest' # latest =>
         \E p \in Procs :
            /\ At(p, "tag") /\ latest' = proc[p].image
            /\ (latest'.label = proc[p].inputs \/ latest'.legacy # None)]_vars

\* "an older host archive cannot roll back a guest-only refresh"
\* (README.md:177; multipass.go 365-366).  It can, by a command that looked at the guest before.
NoRollback ==
    [][latest # None /\ latest \notin archives /\ latest' \in archives
         /\ latest'.label = latest.label
         /\ (\A p \in Procs : proc'[p] # proc[p] => ~proc[p].refresh)
       => latest'.rev >= latest.rev]_vars
=============================================================================
