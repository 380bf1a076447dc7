---------------------------- MODULE GuestPrepare -----------------------------
(***************************************************************************)
(* What frridge-mp does before a command runs in the guest: ensure in      *)
(* internal/multipass/multipass.go with GoBuilder (builder.go).  It finds  *)
(* or launches the instance, takes the guest's frridge from the host's     *)
(* cache or builds it, mounts the host directories, repairs the guest's    *)
(* packages, and installs the binary.                                      *)
(*                                                                         *)
(* Nothing locks the instance: several frridge-mp commands may prepare it  *)
(* at once.  A guest path is a hash of its host directory, and a binary's  *)
(* directory a hash of its sources and the architecture, which is one      *)
(* here; hashes are taken to be distinct.  The companion image is one step *)
(* (module ImageCache).                                                    *)
(***************************************************************************)
EXTENDS Integers, Sequences

CONSTANTS
    Procs,        \* frridge-mp commands that may run at the same time
    Dir,          \* host directories
    Repo,         \* the frridge checkout, one of them
    Source,       \* contents of its Go sources
    MaxActs,      \* bound on commands given and what the user does besides
    MaxFaults,    \* bound on failed calls and kills, together
    None          \* no file, no mount, nobody

VARIABLES
    sources,   \* the Go sources in the checkout
    cache,     \* the host's cached binary of each digest: what it was built from
    vm,        \* the instance
    packages,  \* the packages it needs: a dpkg that died may leave them interrupted
    apt,       \* who installs packages: a command's bootstrap, or the guest
    mounts,    \* what is mounted at the guest path of each directory
    dirs,      \* binary directories in the guest
    files,     \* files in them
    proc,      \* each process
    served,    \* history: one of the commands running together has run
    acts, faults

vars == <<sources, cache, vm, packages, apt, mounts, dirs, files, proc, served,
          acts, faults>>

instance == <<vm, packages, apt>>
guest    == <<mounts, dirs, files>>

ASSUME RepoAssumption == Repo \in Dir
ASSUME NoneAssumption == None \notin Dir \cup Source \cup Procs
ASSUME ProcAssumption == {"tmp", "frridge", "guest"} \cap Procs = {}
ASSUME BoundAssumption == MaxActs \in Nat /\ MaxFaults \in Nat

Binary == [built : Source, whole : BOOLEAN, exec : BOOLEAN]
Path   == Source \X (Procs \cup {"tmp", "frridge"})

Steps == {"idle", "info", "launch", "launching", "again", "start", "uname", "digest",
          "stat", "gobuild", "install", "mkdir", "look", "mount", "bootstrap", "packages",
          "image", "transfer", "writing", "chmod", "mv", "run"}

Process == [
    pc    : Steps,
    dir   : Dir,                          \* --host-dir
    image : BOOLEAN,                      \* all but migrate-state need the image
    id    : Source \cup {None},           \* BuildResult.ID
    built : Source \cup {None},           \* what the binary in hand was built from
    seen  : [Dir -> Dir \cup {None}],     \* Info.Mounts
    left  : Seq(Dir)]                     \* directories to mount

NoMounts == [d \in Dir |-> None]
Idle == [pc |-> "idle", dir |-> Repo, image |-> FALSE, id |-> None, built |-> None,
         seen |-> NoMounts, left |-> <<>>]

At(p, step) == proc[p].pc = step
Become(p, s) == proc' = [proc EXCEPT ![p] = s]
Goto(p, step) == Become(p, [proc[p] EXCEPT !.pc = step])
Quiescent == \A p \in Procs : At(p, "idle")

\* A call that fails ends the command with its error.
Fault == faults < MaxFaults /\ faults' = faults + 1
Fail(p) == Become(p, Idle)
CallFails(p) == Fault /\ Fail(p)

\* An installation that dies leaves packages that apt-get can install later, or
\* a dpkg it will not touch before somebody repairs it by hand: the script calls
\* no dpkg --configure.
Unfinished == {"missing", "interrupted"}

\* Where a command puts its copy of the binary.  Mutant: without the PID.
StagedAlike(p) == <<proc[p].id, "tmp">>
Staged(p) == <<proc[p].id, p>>
Installed(id) == <<id, "frridge">>

Init ==
    /\ sources \in Source
    /\ cache = [s \in Source |-> None]
    /\ \/ vm = "absent" /\ packages = "missing"
       \/ vm \in {"running", "stopped"} /\ packages \in {"missing", "installed"}
    /\ apt = None
    /\ mounts = NoMounts /\ dirs = {} /\ files = [f \in Path |-> None]
    /\ proc = [p \in Procs |-> Idle]
    /\ served = FALSE
    /\ acts = 0 /\ faults = 0

-----------------------------------------------------------------------------
(* The surroundings.                                                       *)

\* Shell, Exec and Frridge.
Begin(p, dir, image) ==
    /\ At(p, "idle") /\ acts < MaxActs
    /\ acts' = acts + 1
    /\ Become(p, [Idle EXCEPT !.pc = "info", !.dir = dir, !.image = image])
    /\ served' = (served /\ ~Quiescent)
    /\ UNCHANGED <<sources, cache, instance, guest, faults>>

\* Between commands the user edits the checkout, or stops, deletes or unmounts
\* something; another mount at a path of ours may appear at any time.
UserActs ==
    /\ acts < MaxActs /\ acts' = acts + 1
    /\ \/ /\ Quiescent /\ sources' \in Source \ {sources}
          /\ UNCHANGED <<instance, guest>>
       \/ /\ Quiescent /\ vm = "running" /\ vm' = "stopped" /\ apt' = None
          /\ packages' \in IF apt = None THEN {packages} ELSE Unfinished
          /\ UNCHANGED <<sources, guest>>
       \/ /\ Quiescent /\ vm # "absent"
          /\ vm' = "absent" /\ packages' = "missing" /\ apt' = None
          /\ mounts' = NoMounts /\ dirs' = {} /\ files' = [f \in Path |-> None]
          /\ UNCHANGED sources
       \/ \E d \in Dir :
            /\ vm # "absent"
            /\ \/ Quiescent /\ mounts[d] # None /\ mounts' = [mounts EXCEPT ![d] = None]
               \/ /\ mounts[d] = None
                  /\ \E other \in Dir \ {d} : mounts' = [mounts EXCEPT ![d] = other]
            /\ UNCHANGED <<sources, instance, dirs, files>>
    /\ UNCHANGED <<cache, proc, served, faults>>

\* A kill ends the command on the host; what it installs in the guest goes on or
\* dies with it.
Kill(p) ==
    /\ ~At(p, "idle") /\ CallFails(p)
    /\ \/ apt' = (IF apt = p THEN "guest" ELSE apt) /\ UNCHANGED packages
       \/ apt = p /\ apt' = None /\ packages' \in Unfinished
    /\ UNCHANGED <<sources, cache, vm, guest, served, acts>>

\* cloud-init ends, or an installation nobody waits for any more; a script that
\* fails does not keep the instance from starting.
GuestInstalls ==
    /\ apt = "guest" /\ apt' = None
    /\ \/ packages' = "installed" /\ UNCHANGED faults
       \/ Fault /\ packages' \in Unfinished
    /\ vm' = IF vm = "starting" THEN "running" ELSE vm
    /\ UNCHANGED <<sources, cache, guest, proc, served, acts>>

-----------------------------------------------------------------------------
(* ensureInstance.                                                         *)

\* Not found: launch it, unless it was launched just now.
Info(p) ==
    /\ proc[p].pc \in {"info", "again"}
    /\ \/ vm = "absent" /\ At(p, "info") /\ Goto(p, "launch") /\ UNCHANGED faults
       \/ vm = "absent" /\ At(p, "again") /\ Fail(p) /\ UNCHANGED faults
       \/ vm = "running" /\ Goto(p, "uname") /\ UNCHANGED faults
       \/ vm \in {"starting", "stopped"} /\ Goto(p, "start") /\ UNCHANGED faults
       \/ CallFails(p)
    /\ UNCHANGED <<sources, cache, instance, guest, served, acts>>

\* Mutant: a launch that is refused deletes the instance.
LaunchOrDelete(p) ==
    /\ At(p, "launch")
    /\ \/ /\ vm = "absent" /\ vm' = "starting" /\ packages' = "missing" /\ apt' = "guest"
          /\ Goto(p, "launching") /\ UNCHANGED faults
       \/ /\ vm # "absent" /\ vm' = "absent" /\ packages' = "missing" /\ apt' = None
          /\ Fail(p) /\ UNCHANGED faults
    /\ UNCHANGED <<sources, cache, guest, served, acts>>

\* multipass launch refuses a name that exists; cloud-init runs the bootstrap
\* script before launch returns.
Launch(p) ==
    /\ At(p, "launch")
    /\ \/ /\ vm = "absent" /\ vm' = "starting" /\ packages' = "missing" /\ apt' = "guest"
          /\ Goto(p, "launching") /\ UNCHANGED faults
       \/ vm # "absent" /\ Fail(p) /\ UNCHANGED <<faults, instance>>
       \/ CallFails(p) /\ UNCHANGED instance
    /\ UNCHANGED <<sources, cache, guest, served, acts>>

\* Given up, the instance goes on starting, or is deleted if it never came up,
\* so that nobody else is using it.
LaunchEnds(p) ==
    /\ At(p, "launching")
    /\ \/ vm # "starting" /\ Goto(p, "again") /\ UNCHANGED <<instance, faults>>
       \/ /\ CallFails(p)
          /\ \/ UNCHANGED instance
             \/ /\ vm = "starting" /\ \A q \in Procs \ {p} : At(q, "idle")
                /\ vm' = "absent" /\ packages' = "missing" /\ apt' = None
    /\ UNCHANGED <<sources, cache, guest, served, acts>>

\* multipass start does not wait for cloud-init.
Start(p) ==
    /\ At(p, "start")
    /\ \/ /\ vm' = IF vm = "stopped" THEN "running" ELSE vm
          /\ Goto(p, "uname") /\ UNCHANGED faults
       \/ CallFails(p) /\ UNCHANGED vm
    /\ UNCHANGED <<sources, cache, packages, apt, guest, served, acts>>

-----------------------------------------------------------------------------
(* guestBuild.                                                             *)

\* A call that changes nothing here.
Pass(p, from, to) ==
    /\ At(p, from)
    /\ \/ Goto(p, to) /\ UNCHANGED faults
       \/ CallFails(p)
    /\ UNCHANGED <<sources, cache, instance, guest, served, acts>>

Uname(p) == Pass(p, "uname", "digest")

\* Mutant: the result has no ID.
DigestUnnamed(p) == Pass(p, "digest", "stat")

\* sourceDigest.
Digest(p) ==
    /\ At(p, "digest")
    /\ \/ Become(p, [proc[p] EXCEPT !.pc = "stat", !.id = sources]) /\ UNCHANGED faults
       \/ CallFails(p)
    /\ UNCHANGED <<sources, cache, instance, guest, served, acts>>

StatCached(p) ==
    /\ At(p, "stat")
    /\ \/ cache[proc[p].id] # None /\ Goto(p, "mkdir") /\ UNCHANGED faults
       \/ cache[proc[p].id] = None /\ Goto(p, "gobuild") /\ UNCHANGED faults
       \/ CallFails(p)
    /\ UNCHANGED <<sources, cache, instance, guest, served, acts>>

\* go build, to a temporary file of this process.
GoBuild(p) ==
    /\ At(p, "gobuild")
    /\ \/ /\ Become(p, [proc[p] EXCEPT !.pc = "install", !.built = sources])
          /\ UNCHANGED faults
       \/ CallFails(p)
    /\ UNCHANGED <<sources, cache, instance, guest, served, acts>>

\* The rename, and a chmod that may fail after it.
InstallBuild(p) ==
    /\ At(p, "install")
    /\ \/ cache' = [cache EXCEPT ![proc[p].id] = proc[p].built] /\ Goto(p, "mkdir")
          /\ UNCHANGED faults
       \/ CallFails(p) /\ cache' \in {cache, [cache EXCEPT ![proc[p].id] = proc[p].built]}
    /\ UNCHANGED <<sources, instance, guest, served, acts>>

-----------------------------------------------------------------------------
(* The guest's directories, mounts and packages.                           *)

MakeDirs(p) ==
    /\ At(p, "mkdir")
    /\ \/ dirs' = dirs \cup {proc[p].id} /\ Goto(p, "look") /\ UNCHANGED faults
       \/ CallFails(p) /\ dirs' \in {dirs, dirs \cup {proc[p].id}}
    /\ UNCHANGED <<sources, cache, instance, mounts, files, served, acts>>

\* The checkout's directory, then the host directory if it is another.
ToMount(dir) == IF dir = Repo THEN <<Repo>> ELSE <<Repo, dir>>

\* One Info for both mounts.
Look(p) ==
    /\ At(p, "look")
    /\ \/ /\ Become(p, [proc[p] EXCEPT !.pc = "mount", !.seen = mounts,
                                       !.left = ToMount(proc[p].dir)])
          /\ UNCHANGED faults
       \/ CallFails(p)
    /\ UNCHANGED <<sources, cache, instance, guest, served, acts>>

NextMount(p) ==
    LET left == Tail(proc[p].left)
    IN  Become(p, [proc[p] EXCEPT !.left = left,
                                  !.pc = IF left = <<>> THEN "bootstrap" ELSE "mount"])

\* Mutants: whatever is mounted there is taken; a mount is made anew.
Anything(source, d) == source # None
NeverMounted(source, d) == FALSE

Mounted(source, d) == source = d

\* ensureMount.  multipass mount refuses a path with a mount.
EnsureMount(p) ==
    LET d == Head(proc[p].left)
    IN  /\ At(p, "mount")
        /\ \/ Mounted(proc[p].seen[d], d) /\ NextMount(p) /\ UNCHANGED <<mounts, faults>>
           \/ /\ ~Mounted(proc[p].seen[d], d) /\ (proc[p].seen[d] # None \/ mounts[d] # None)
              /\ Fail(p) /\ UNCHANGED <<mounts, faults>>
           \/ /\ proc[p].seen[d] = None /\ mounts[d] = None
              /\ mounts' = [mounts EXCEPT ![d] = d]
              /\ NextMount(p) /\ UNCHANGED faults
           \/ /\ CallFails(p)
              /\ \/ UNCHANGED mounts
                 \/ /\ proc[p].seen[d] = None /\ mounts[d] = None
                    /\ mounts' = [mounts EXCEPT ![d] = d]
        /\ UNCHANGED <<sources, cache, instance, dirs, files, served, acts>>

AfterPackages(p) == Goto(p, IF proc[p].image THEN "image" ELSE "transfer")

\* bootstrapGuest: apt-get, which one at a time may run, for what is missing.  It
\* refuses to install over an interrupted dpkg.
Bootstrap(p) ==
    /\ At(p, "bootstrap")
    /\ \/ packages = "installed" /\ AfterPackages(p) /\ UNCHANGED <<apt, faults>>
       \/ /\ packages = "missing" /\ apt = None /\ apt' = p
          /\ Goto(p, "packages") /\ UNCHANGED faults
       \/ packages = "missing" /\ apt # None /\ Fail(p) /\ UNCHANGED <<apt, faults>>
       \/ packages = "interrupted" /\ Fail(p) /\ UNCHANGED <<apt, faults>>
       \/ CallFails(p) /\ UNCHANGED apt
    /\ UNCHANGED <<sources, cache, vm, packages, guest, served, acts>>

Packages(p) ==
    /\ At(p, "packages") /\ apt' = None
    /\ \/ packages' = "installed" /\ AfterPackages(p) /\ UNCHANGED faults
       \/ CallFails(p) /\ packages' \in Unfinished \cup {"installed"}
    /\ UNCHANGED <<sources, cache, vm, guest, served, acts>>

\* ensureGuestImage.
Image(p) == Pass(p, "image", "transfer")

-----------------------------------------------------------------------------
(* The guest's binary.                                                     *)

Put(f, file) == files' = [files EXCEPT ![f] = file]

\* From the host's cache, to a file of this process.
Transfer(p) ==
    /\ At(p, "transfer")
    /\ \/ /\ proc[p].id \in dirs
          /\ Put(Staged(p), [built |-> cache[proc[p].id], whole |-> FALSE, exec |-> FALSE])
          /\ Goto(p, "writing") /\ UNCHANGED faults
       \/ proc[p].id \notin dirs /\ Fail(p) /\ UNCHANGED <<files, faults>>
       \/ CallFails(p) /\ UNCHANGED files
    /\ UNCHANGED <<sources, cache, instance, mounts, dirs, served, acts>>

TransferEnds(p) ==
    /\ At(p, "writing")
    /\ \/ /\ files' = [files EXCEPT ![Staged(p)].whole = TRUE]
          /\ Goto(p, "chmod") /\ UNCHANGED faults
       \/ CallFails(p) /\ UNCHANGED files
    /\ UNCHANGED <<sources, cache, instance, mounts, dirs, served, acts>>

Chmod(p) ==
    /\ At(p, "chmod")
    /\ \/ /\ files' = [files EXCEPT ![Staged(p)].exec = TRUE]
          /\ Goto(p, "mv") /\ UNCHANGED faults
       \/ CallFails(p) /\ UNCHANGED files
    /\ UNCHANGED <<sources, cache, instance, mounts, dirs, served, acts>>

\* A reply that is lost leaves the binary moved.
Move(p) ==
    LET moved == [files EXCEPT ![Installed(proc[p].id)] = files[Staged(p)],
                               ![Staged(p)] = None]
    IN  /\ At(p, "mv")
        /\ \/ files' = moved /\ Goto(p, "run") /\ UNCHANGED faults
           \/ CallFails(p) /\ files' \in {files, moved}
        /\ UNCHANGED <<sources, cache, instance, mounts, dirs, served, acts>>

\* The guest command runs and ends.
Run(p) ==
    /\ At(p, "run") /\ Become(p, Idle) /\ served' = TRUE
    /\ UNCHANGED <<sources, cache, instance, guest, faults, acts>>

-----------------------------------------------------------------------------
(* The specification.                                                      *)

Step(p) ==
    \/ Info(p) \/ Launch(p) \/ LaunchEnds(p) \/ Start(p)
    \/ Uname(p) \/ Digest(p) \/ StatCached(p) \/ GoBuild(p) \/ InstallBuild(p)
    \/ MakeDirs(p) \/ Look(p) \/ EnsureMount(p) \/ Bootstrap(p) \/ Packages(p) \/ Image(p)
    \/ Transfer(p) \/ TransferEnds(p) \/ Chmod(p) \/ Move(p) \/ Run(p)

Next ==
    \/ \E p \in Procs :
         \/ Step(p) \/ Kill(p)
         \/ \E dir \in Dir, image \in BOOLEAN : Begin(p, dir, image)
    \/ UserActs \/ GuestInstalls

Spec == Init /\ [][Next]_vars

\* Every call returns, and what runs in the guest ends.
FairSpec == Spec /\ WF_vars(GuestInstalls) /\ \A p \in Procs : WF_vars(Step(p))

-----------------------------------------------------------------------------
(* Properties.                                                             *)

\* Types; a command that has its build knows its name, and nobody but a
\* command at work on packages, or the guest, keeps others from installing.
TypeOK ==
    /\ sources \in Source /\ cache \in [Source -> Source \cup {None}]
    /\ vm \in {"absent", "starting", "running", "stopped"}
    /\ packages \in {"missing", "interrupted", "installed"}
    /\ apt \in Procs \cup {"guest", None}
    /\ mounts \in [Dir -> Dir \cup {None}] /\ dirs \in SUBSET Source
    /\ files \in [Path -> Binary \cup {None}]
    /\ proc \in [Procs -> Process]
    /\ \A p \in Procs :
         /\ apt = p => At(p, "packages")
         /\ proc[p].pc \in {"stat", "gobuild", "install", "mkdir", "look", "mount", "bootstrap",
              "packages", "image", "transfer", "writing", "chmod", "mv", "run"} => proc[p].id # None
    /\ served \in BOOLEAN
    /\ acts \in Nat /\ faults \in Nat

\* A command runs a binary that is whole, executable, and built from the
\* sources of its checkout, whoever else transfers, moves or builds one under
\* the same name, and whatever failed before (multipass.go 298-316; builder.go
\* 41-95).
RunsOwnBinary ==
    \A p \in Procs :
        At(p, "run") =>
          files[Installed(proc[p].id)] = [built |-> sources, whole |-> TRUE, exec |-> TRUE]

\* A command runs where the checkout and its host directory are mounted, each
\* at its path, though the mounts were looked at once and others mount as well
\* (multipass.go 280-292, 541-549).
ServesOwnDirectories ==
    \A p \in Procs :
        At(p, "run") => mounts[Repo] = Repo /\ mounts[proc[p].dir] = proc[p].dir

OursOnly == \A d \in Dir : mounts[d] \in {None, d}

\* Commands that prepare one guest at once may make each other fail, by
\* launching, mounting or installing first, but never all of them: when the
\* last one ends and no call failed, one has run (multipass.go 320-341, 541-549).
SomeoneIsServed ==
    [][~Quiescent /\ Quiescent' /\ faults' = 0 /\ OursOnly => served']_vars

\* Failed, killed and concurrent commands leave nothing else that keeps a later
\* one from running: given alone, when nothing fails any more, it runs, unless an
\* installation died in the middle of dpkg, which guest-bootstrap.sh 26-29 does
\* not repair (multipass.go 256-318).
RetryServes ==
    \A p \in Procs :
        (/\ At(p, "info") /\ \A q \in Procs \ {p} : At(q, "idle")
         /\ acts = MaxActs /\ faults = MaxFaults
         /\ packages # "interrupted" /\ apt = None /\ OursOnly)
        ~> At(p, "run")
=============================================================================
