# frridge in TLA+

TLA+ models of frridge, a tool that runs labs of FRR routers in Docker
containers on Linux (`frridge`) and inside a Multipass VM (`frridge-mp`).
TLC checks the models on small instances; TLAPS proves for every value of the
constants what can be proved of them: every safety property of the passing runs,
some for commands that run one at a time, or for cleanups only. Paths and lines refer to the repository.

## The system

A topology file (YAML) names a lab, its routers and its links. `frridge up`
turns it into containers, host bridges and veth pairs and writes a state file;
`frridge down` takes them away again.

| Component | Code | State | Operations |
|---|---|---|---|
| runtime manager | `internal/runtime/runtime.go`, `cmd/frridge` | none of its own: local variables of one command (the snapshot, loops, the first error) | `up` (with `--recreate`, `--reseed`), `down` (with `--purge`), `migrate-state`, `console`, `ping` |
| state file | `internal/state/state.go` | `state.json` of the lab: containers, owned bridges, topology digest | `Read`, `Validate`, `Write` (temporary file, rename), `Remove`, `ScanWorkDir` |
| router files | `internal/frr/files.go` | per router: `daemons`, `vtysh.conf`, `frr.conf`, the seed marker | `PrepareRouterFiles`, `MarkSeeded` |
| Docker client | `internal/docker/docker.go` | the daemon's containers | create, start, inspect, list by labels, remove, exec, interactive exec |
| network devices | `internal/netlink/netlink.go` | bridges and veth pairs in the host's namespace and in those of containers | `EnsureBridge`, `CreateBridgeAttachment`, `CreateP2PAttachment`, `ConfigureAttachedLink`, `DeleteLink`, and what `linux:` asks for inside a router |
| configuration | `internal/config/config.go` | none | `LoadFile`, `Validate`, `ResolveRouter`, `Digest`, paths |
| companion image cache | `internal/multipass/image_builder.go`, `ensureGuestImage` and what it calls in `internal/multipass/multipass.go` | host archives and lookups, the guest's `frridge-frr:latest`, archives in the guest's file system | `Cached`, `Build`, import, build in the guest, tag |
| guest preparation | `internal/multipass/multipass.go`, `builder.go`, `cloudinit.go` | the VM, its mounts and directories, the cached and the staged binary | launch, start, mount, bootstrap, transfer |
| shell protocol | `internal/multipass/system.go` | none | `multipass shell` with markers around the output and the exit status |
| `frridge-mp` command line | `cmd/frridge-mp` | none | flags, coverage of `--host-dir` |

How they interact. A command is one process. The runtime manager calls the
Docker daemon, the kernel (netlink) and the file system one call at a time;
these are shared by every command of every user, and nothing locks a lab, its
files or the image caches. Signals reach the command as a cancelled context:
Docker calls fail under it, netlink calls do not know it, and the rollback of
`up` runs under a context of its own for 30 seconds. FRR runs on its own in the
containers and writes the same `frr.conf` that `PrepareRouterFiles` wrote.
`frridge-mp` prepares a guest (VM, mounts, binary, image) and then runs
`frridge` in it.

What is hard about each, and what makes it right:

* **Lab lifecycle.** Any call may fail, be cancelled, do its work and lose the
  reply, or be the last before a kill; a failed `up` rolls back, the rollback
  may fail too; the YAML may have changed before the next command; a state file
  may be of an older version; two commands may run at once. Right means:
  nothing is left on the host without a record of it, the record goes only when
  nothing is left, what has no record is never guessed at, a published lab is
  whole, a failed cleanup can be repeated until it works.
* **Seeds.** `frr.conf` outlives the container, the marker says that the YAML's
  `vtysh` commands are in it. Daemons start late, crash, and refuse to write
  with exit code 0. Right means: the marker is never ahead of the file, an `up`
  that succeeds delivers all seeds, what the user wrote stays.
* **Image cache.** Cache entries, labels, names in the guest and the checkout
  are read and written by different commands at different times. Right means:
  entries can be served after any failure, a guest command runs with the image
  of its inputs, a refresh is fresh, nothing is replaced without being asked.
* **Configuration.** The check of a `linux:` section claims names and masters in
  one order, `up` makes the devices in another, and a name is free again once its
  device has moved into a namespace. Right means: what the check accepts can be
  built and is built as it is written, and what it rejects for a name could not.
* **Guest preparation.** Two `frridge-mp` commands launch, mount, install and
  transfer in one VM at once, each from what it saw some calls ago. Right means:
  a command runs its own binary in its own directories, they do not all fail,
  and a later one succeeds after those that failed, unless an `apt-get` died in the
  middle of dpkg.
* **Shell protocol.** Script, command and the command's children share one input
  and one output, which may end anywhere. Right means: a status that is reported
  is the command's, and an undisturbed command gets its own through.
* **Path coverage.** Symbolic links, `..` and missing components decide whether a
  mount source is below the directory the guest can see. Right means: nothing
  forwarded leads out of it, nothing below it is refused, and the guest resolves
  the same paths to the same files.

## The modules

| Module | What it is |
|---|---|
| `LabLifecycle` | one lab under `up`, `up --recreate`, `down`, `down --purge`, `migrate-state` |
| `LabContract` | what these commands promise about the lab, as a user sees it |
| `LabRefinement` | the mapping of `LabLifecycle` to `LabContract` |
| `LabLifecycleProofs` | type correctness; the inductive invariant about inventories, and three theorems from it; three more for cleanups that run at once |
| `LabContractProofs` | what is gone when, and the refinement; what each call of an `up` has built: pairs that go, labs published whole |
| `SeedLifecycle` | router files, FRR and startup commands over ups, downs and purges |
| `SeedLifecycleProofs` | its inductive invariant and all its safety properties |
| `ImageCache` | the companion image on the host and in the guest |
| `ImageCacheProofs` | servable entries, verified tags and fresh refreshes for any number of commands; right images for one at a time |
| `LinuxDevices` | the check of a router's `linux:` section and its construction |
| `LinuxDevicesProofs` | its inductive invariant and all its properties, for any section |
| `GuestPrepare` | the VM, its mounts, packages and binary under several commands |
| `GuestPrepareProofs` | its inductive invariants, for any number of commands: what each holds, and that one gets through |
| `HostDirCoverage` | which topologies `frridge-mp` forwards to the guest |
| `GuestShell` | one command in the guest and its exit status |
| `GuestShellProofs` | its inductive invariant, for any statuses and any output |
| `MpCommand` | the two composed: a command of `frridge-mp` from its flags to its status |
| `MpCommandProofs` | the coverage of any topology in any file system; the answers of `GuestShell`, for the composition |
| `MC...` | the instances TLC checks |

How they are composed. `LabLifecycle` takes the startup commands and the
`linux:` phase as one step that works or fails; `SeedLifecycle` and
`LinuxDevices` are these steps in detail, and take the life of the containers
from it as one step. `GuestPrepare` takes the companion image as one step, which
`ImageCache` details. `MpCommand` runs `HostDirCoverage`, then the preparation as
one step, then `GuestShell`. What crosses each seam is a success or a failure,
which both sides allow at any time.

### LabLifecycle

State and code:

| Variable | In the code |
|---|---|
| `yaml` | the topology file now; each command reads it once (`config.LoadFile`) |
| `containers`, `nextId` | Docker's containers with the lab's labels; every create gets a new id |
| `bridges` | links whose host bridge exists; names are functions of lab and link |
| `veths` | pairs with the namespace of each end; the kernel deletes a pair with either namespace |
| `stateFile`, `labDir` | `state.json` (or none) and the generated directory |
| `proc[p]` | a command: its next call `pc`, its topology, its `*state.LabState`, its loop indices, `cleanupErr`, its context |
| `lost` | history: what existed when the only inventory of it vanished with a killed command or a failed save |

One action is one call on something shared, with every assignment of local
variables up to the next call. `Begin` is the command line; `StatState` and
`ListExisting` are `runtimeExists`; `OpenSnapshot` to `Commit` are `up`;
`ReadState` to `Purge` are `cleanupRuntime`, which `down`, `up --recreate` and
the deferred rollback share; `ReadLegacy` and `WriteMigrated` are
`MigrateState`. Each action has a branch for success and one for a failure,
including a Docker create or remove that was done but not answered, a bridge
that exists although `EnsureBridge` failed, and a veth pair that was made or
moved half-way. `Cancel` is the first signal, `Kill` a repeated one or SIGKILL.

Abstractions. Loopbacks, `linux:` objects and startup commands work inside
containers and go with them, so they are one step (`ConfigureRouters`) that
works or fails; `SeedLifecycle` has the startup commands. State that fails to
parse or validate is a read that fails. Names derived by hash are taken to be
distinct. A create that the daemon completes after the rollback has listed the
containers is not modelled. Process identifiers are not modelled: a container
that is gone makes the call fail. A container that exits by itself is not modelled.
`DeleteVeths` is the whole loop over the links' names, of which any may fail; a
command that is killed inside it is taken to be killed before or after it.

### LabContract and LabRefinement

A lab is `absent`, `recorded`, `legacy` or `unknown`. Only `up` makes a record,
and only of an absent lab; only a cleanup erases one; only `migrate-state` ends
`legacy`; nothing but the operator ends `unknown`. The status is a function of
the state file and of `lost.containers`. The contract is about commands that
run one at a time (`OneCommand`): concurrent ones do not keep it, see finding 2.

### SeedLifecycle

A configuration is how often each piece of it was applied: the i-th command of
the YAML, or (piece 0) the user's own work in the console. `RemoveMarker`,
`WriteBase` and `StatMarker` are the three file operations of
`PrepareRouterFiles` that matter; `Boot` gives the container the file;
`WaitForVTYSH`, `RunSeed`, `RunShell`, `SkipSeed` and `Mark` are
`runRouterCommands`. `RunSeed` is one exec of the command, `end` and `write
memory`: FRR writes the file only when every daemon is up, and says otherwise
only in its output (`Judge` is `vtyshWriteFailure`). Containers are the
business of `LabLifecycle`: here they all go (`Clean`, `CleanAfterError`) or
the call fails. `PurgeFile` deletes one file at a time, since `os.RemoveAll`
promises no order; `cut` remembers the routers for which a purge deleted
`frr.conf` and left the marker. A file cut short by a crash counts as the base
file.

### ImageCache

An image has a label (the inputs computed before its build), the inputs it was
really built from, and the upstream revision it holds; a legacy image has an
older label that names the checkout only. The inputs are the checkout's Docker
files and the ref overrides of the environment. The steps are those of
`ensureGuestImage`: `StatDockerfile`, `ReadIdentity`, `FindCached` (`Cached`),
`StartBuild` to `PublishLookup` (`Build`), `Transfer` to `VerifyImport` and
`TagLatest` (`importGuestImageArchive`), `BuildInGuest` (`buildGuestImage`).
The checkout is hashed anew at each place where the code hashes it. A build is
atomic; the guest's architecture is fixed; temporary files of a process are its
own and are not state. Legacy archives may exist at the start, as may any image
under the name `frridge-frr:latest`.

### LinuxDevices

`ClaimsOf` is `validateLinux` as the set of claims it makes on its tables
(devices, masters, interfaces, peers, namespaces), `CallsOf` is `configureLinux`
as the set of netlink calls it makes. Each claim and each call stands at a place
of its walk: the loop over the section, the turn of it, the inner loop and its
turn, and the step there. `Before` is the order of places, which is the order of
the code's statements; `MakeClaim` and `MakeCall` take what is `First` in it. The
two walks share the numbers of their loops, so that the claim and the call about
a device stand at the same place although the order differs. The kernel is
`CanDo` and `After`: names are per namespace, a device has one master and a new
one takes it silently, an end that moves keeps its mate and loses its master.
Attributes are well-formed or not. `Reject` and `FailCall` are the error paths.

### GuestPrepare

`Info` to `Start` are `ensureInstance`, `Uname` to `InstallBuild` are
`guestBuild` with `GoBuilder.Build`, `MakeDirs`, `Look` and `EnsureMount` the
directories and mounts, `Bootstrap` and `Packages` `bootstrapGuest`, `Transfer`
to `Move` the binary under a name with the process's PID and its rename. Mounts
are looked at once (`Look`) and made from what was seen then. `UserActs` edits
the checkout, stops, deletes or unmounts between commands, and mounts something
else at any time; `GuestInstalls` is cloud-init or an `apt-get` whose command was
killed. The sources change between commands only.

`packages` is what `guest-bootstrap.sh` will make of the guest: `installed` when it
finds all it asks for and works, `missing` when `apt-get` can install the rest, and
`interrupted` when dpkg died half-way and `apt-get` refuses. Any installation that
fails or dies may end in either of the last two: a bootstrap whose call fails
(`Packages`) or is killed (`Kill`), cloud-init's own run of the script
(`GuestInstalls`), and one under which the VM is stopped (`UserActs`). The script has
no `dpkg --configure`: `interrupted` ends only with the instance.

### HostDirCoverage, GuestShell, MpCommand

A path is a sequence of components; `Clean` is `filepath.Clean`; `Follow` is one
component of `filepath.EvalSymlinks` and `Resolve` the whole of it, a recursive
function over walks; `WalkOn` is one turn of the loop in `resolvedCoveragePath`,
which the code falls back to when something is missing. The actions are those of
`resolveTopology`; that the working directory exists is what `os.Getwd` gives.
`RealHostDir` is the host directory resolved, which the code does again for each
path it checks. `Grown` and `Guest` are for the properties: the same file system
after what was missing has been made, and the file system of the guest.

`GuestShell` is the script of `buildShellScript` line by line (`Set`, `ChangeDir`,
`PrintBegin`, `StartCommand`, `SaveStatus`, `Report`, `ShellEnds`), a command
that may read those lines, echo them and leave children that write on, a
connection that may be cut, and `Parse`, which is `parseShellOutput`. A word is
any text without a marker; digits are words of their own, so that a status can be
cut in the middle.

## The runs

Each passing run has a mutant for each of its properties: a definition is
replaced by the form a plausible mistake in the code would give it (the
operators with a comment `Mutant:` in the modules), and the property then fails.

| Run | Instance | Question |
|---|---|---|
| `lab_lifecycle` | 1 process, 2 routers, a bridge and a point-to-point link, 3 commands of any kind, 3 faults, 1 edit, start fresh, running or legacy | do single commands, whatever fails and whatever the YAML has become, keep every record right, implement the contract, and does a retried down empty the lab? |
| `lab_two_downs` | 2 processes, 1 router with a bridge, downs, purges and migrations at once, 3 commands, 2 faults | are the records right when two cleanups interleave, and do both end? |
| `lab_two_ups` | 2 processes, 2 plain ups, no faults | finding 2 |
| `lab_edit_down` | 1 process, up and down, 2 faults, 1 edit | finding 1 |
| `seed_lifecycle` | 2 routers, 2 daemons, `vtysh` and `shell` commands, 4 ups, reseeds, downs or purges, 2 faults, 1 write by the user | marker, seeds and the user's configuration |
| `seed_half_purge` | 1 router, ups and purges, 1 fault | finding 3 |
| `image_cache` | 1 process, 2 checkouts, 2 revisions, 3 commands, 1 fault, 2 edits between commands | is the image the right one, fresh when asked, kept when not? |
| `image_sharing` | 2 processes, 2 checkouts, 2 revisions, 2 commands, 1 fault, an edit at any time | are entries servable and tags verified when commands overlap? |
| `image_rollback` | 2 processes, no faults | finding 4 |
| `linux_devices` | every section of two families: two veth pairs of any names beside a VRF and a bridge; a bond, a bridge, interfaces and a pair that give and take masters | does the check agree with the construction? |
| `guest_prepare` | 2 processes, 2 directories, 2 sources, any state of the instance, 3 commands or acts of the user, 1 fault | own binary, own directories, somebody served, retries that work unless dpkg was interrupted |
| `mp_command` | 168 file systems with one free link, 126 requests, statuses of one and two digits, 3 words | coverage, what the guest sees, and the exit status |

The bounds are the constants `MaxCommands`, `MaxActs`, `MaxFaults`, `MaxEdits`,
`MaxPolls`, `MaxRev`, `MaxWords` and `MaxLinks`; `MaxPolls` and
`MaxLinks` stand for the code's own deadline and its limit of 255 links, the
others appear only in the guards of the events they bound. Three commands are the shortest history in
which one command fails, a second meets what it left and a third meets what the
second made of that; three faults let an `up` fail, its rollback fail and the
save of its inventory fail. Two routers and one link of each type exercise every
loop's first and last round. Two processes are enough for every race listed
under the hazards, which are all between two commands. In `linux_devices` two
pairs are enough for a name that is claimed, freed and claimed again, and every
kind of entry that gives a master meets every kind that takes one. In
`mp_command` the free link may point at itself, at another link, at what is
missing, up, out and back in, with up to three components; three words are a text,
a newline and the echo of a marker. Deadlock is not checked: when the bounds are
used up the system rests.

`SYMMETRY` is used in the image runs only, none of which checks liveness:
processes and checkouts are interchangeable there.

### Fairness

`FairSpec` has weak fairness of `Step(p)` for each process (`Step` in
`SeedLifecycle`): a command that has a call to make makes it, successfully or
not. The operating system's scheduling gives that. `GuestPrepare` adds
`GuestInstalls`: what installs packages in the guest ends. There is no fairness
for failures, signals, users, edits or FRR's daemons: `CommandsEnd` holds although
a daemon may never come up, because `waitForVTYSH` counts polls against a
deadline, modelled by `MaxPolls`. What is assumed beyond scheduling is that a
call returns: the Docker client has no timeout of its own, and a `shell`
command that never ends blocks `up`.

### What the properties say

* `BridgesAccounted`, `ForgottenLabIsEmpty`, `ForgottenPairsAreGone`: nothing
  leaks without a record; `lost` names the only exceptions.
* `StateErasedOnlyWhenClean`, `PurgeOnlyWhenStopped`: records and generated
  files go last.
* `UnknownContainersStay`, `LegacyIsUntouched`: what cannot be accounted for is
  left alone.
* `PublishedLabIsWhole`: a state file written by a successful `up` describes a
  lab that is all there.
* `PlainUpKeepsState`: `up` without `--recreate` does not touch an existing lab
  (true of one command at a time).
* `KeepsContract`: the refinement. `NetworkInv`: the inductive invariant itself,
  checked before it was proved.
* `CommandsEnd`, `DownEmptiesLab`: termination, and retries that work.
* `MarkerMeansSeeded`, `UpDeliversSeeds`, `WrittenConfigSurvives`: the marker is
  never ahead of `frr.conf`, an `up` that succeeds delivers every seed, what the
  user wrote stays; the first two but where a purge was cut short.
* `LookupsAreServable`, `CacheNeverAges`, `ReadyImageIsRight`, `RefreshIsFresh`,
  `MatchingGuestIsKept`, `TagIsVerified`: entries can be served, a command gets
  the image of its inputs, fresh when asked and untouched when it fits.
* `AcceptedNamesAreFree`, `RejectedNamesCollide`: the check and the construction
  agree about names, in both directions. `MastersAsDeclared`,
  `NamespacesHoldTheirPeers`: what was built is what the section says, although
  the kernel never complains about a master or a peer that was taken away.
* `RunsOwnBinary`, `ServesOwnDirectories`: at the moment a guest command runs.
  `SomeoneIsServed`: of commands that run at once and meet no failure but each
  other, one gets to run. `RetryServes`: nothing that failed, killed or concurrent
  commands left behind keeps a later one from running, but an interrupted dpkg (and
  another mount at a path of ours, or an installation that still runs).
* `CoveredStaysBelow`, `RefusedIsOutside`: coverage is neither too wide nor too
  narrow; the second is about the very path at which the check stops. `GuestSeesTheSame`: what the guest finds in its mount, for the topology
  and for each mount source, is what was checked.
* `AnswerIsTheCommands`, `UndisturbedIsAnswered`: a status that is reported is the
  command's, with its whole output; and an undisturbed command has its reported.

### Where the code and its documents differ

1. `DownRemovesNetworking`. A veth pair that a failed rollback left in the
   host's namespace is found by the names in the current YAML only
   (runtime.go 598-621). After its link is renamed or removed, `down` succeeds,
   erases the state file and leaves the pair.
2. `PlainUpKeepsState`. Two concurrent ups pass `runtimeExists`; the one that
   loses the race for a container name rolls back by the lab's labels and
   removes the winner's containers and state file (runtime.go 141-152, 574-596).
   To "delete conflicting runtime state" is what `--recreate` is for
   (`src/cmd/frridge/root.go:44`); a plain `up` refuses a lab that is there and asks
   for the flag (runtime.go 114-121).
3. `EveryUpDeliversSeeds`. An interrupted purge may leave the marker without
   `frr.conf`; the next `up` boots the base configuration, skips the seeds and
   reports success.
4. `NoRollback`. A command that looked at the guest before a guest-only refresh
   ended tags an older host archive over it.

Smaller observations, which no run states as a property:

* A seed is in `frr.conf` before the marker exists: after an `up` that failed in
  between, the next one runs all seeds again (README.md:297 has them run once).
* The schema in README.md (261-262, 287-288) names the namespace `host` twice in
  one router, which `validateLinux` rejects; it is a schema and not an example.
* `peer` names must be unique in a section even when the first peer has moved to
  a namespace by the time the second is made: a rejection by the table of peers
  is stricter than the kernel (`RejectedNamesCollide` is about the tables of
  devices and namespaces).
* Absolute links and absolute sources inside the host directory pass the coverage
  check, and in the guest lead to files of its own, or to none; `GuestSeesTheSame`
  is about what the guest finds in its mount.
* A blank `--host-dir` in a directory reached through a link takes the name of the
  link as the host directory: the topology's path in the guest then starts with
  `..` (the exception in `GuestSeesTheSame`).
* In stream mode the command's input starts with the last two lines of the script,
  unless the shell has read them: a command that reads its input reads them first.
* `guest-bootstrap.sh` 8-29 looks for commands and then installs: after an
  `apt-get` that died in dpkg every later bootstrap fails, until somebody repairs
  the guest by hand or deletes it (`interrupted` in `GuestPrepare`; `RetryServes`
  excepts it).
* An edit of the checkout between the digest and `go build` leaves a binary of the
  new sources in the cache under the digest of the old ones.

## The proofs

Each theorem is about the `Spec` of its module, for any values of the constants
that satisfy the named assumptions the module declares, which TLC evaluates in
every run. No assumption bounds the number of routers, links, seeds, daemons,
commands, directories, sources or devices, or the depth of a path.

**LabLifecycle** (`TopologyAssumption`: topologies passed validation;
`NameAssumption`, `NoneAssumption`, `BoundAssumption`):

* `TypeCorrect`: `TypeOK` is inductive as it stands. It also says that loop
  indices stay inside their lists and that a snapshot is there wherever one is
  used, for any number of processes.
* `AccountHolds`: `AccountInv`, for one command at a time (`OneCommand`).
  `BridgesAccounted` alone is not inductive: to know that erasing the state file
  loses no bridge one must know that a cleanup works from the file itself, that
  a bridge of its snapshot that still exists is one it has still to delete unless
  an error was seen, and that a lab is built only when there is no file.
  `KnowsOK` says this for each call of a command, `CommandOK` which command
  makes which call. `NoBridgeLeaks`, `UnknownContainersAreSafe` and
  `LegacyLabsAreKept` follow.
* `TogetherHolds`: `TogetherInv`, for any number of downs, purges and migrations at
  once (`OnlyCleanups`, the commands of run `lab_two_downs`). Nothing is built then,
  so what one command has seen to be gone is gone for all (`OthersStay`); the state
  file, while there is one, and every snapshot list all the bridges there are; and a
  cleanup that saw no error has what is left on its list (`CleanupOf`). From it
  follow `CleanupsLeakNothing` (`BridgesAccounted`), `CleanupsEraseLast`
  (`StateErasedOnlyWhenClean`) and `CleanupsKeepLegacy` (`LegacyIsUntouched`, which
  no run checks for commands at once).
* `GoneHolds`: `GoneInv` adds where containers are known to be gone (`GoneOK`).
  From it follow `ForgottenLabsAreEmpty`, `ErasedLabsAreClean`, `PurgesAreLate`
  and the refinement.
* `NetworkHolds`: `NetworkInv` adds what is known of the network. `PairsOK` says
  which pairs may be left while a cleanup goes through the links of its
  snapshot: as long as nobody edits the YAML every pair in the host's namespace
  belongs to a link of it, and those of the links a cleanup is done with are
  gone or an error was seen. `BuiltOK` says what an `up` has built by each call:
  the containers of the routers before the current one, the bridges of the
  links before the current one, and their pairs, member by member. Neither is
  inductive without the other and `GoneInv`: a pair dies with its container, so
  what is built stays only while no container of the lab is removed. From it
  follow `ForgottenPairsGo` and `PublishedLabsAreWhole`.
* `LabImplementsContract`: `OneCommand => (Spec => KeepsContract)`. Every step
  but a few keeps the status and the command or ends it; `CommitIsPublish`,
  `EraseIsErase`, `WriteIsMigrate`, `KillIsLose`, `BeginIsGive` and `UserIsClean`
  are the few.

`OneCommand` and `OnlyCleanups` are hypotheses and not assumptions of the module,
since the runs differ in them; finding 2 shows that, with ups, `OneCommand` is
needed.

**SeedLifecycle.** `SeedInvariant` proves `SeedInv`: `MarkerMeansSeeded` is not
inductive, since `Mark` needs to know that all seeds are in `frr.conf`, which
follows from what each call before it knows (how far the seeds got in the running
configuration, that the running configuration has all that the file has, that a
write that was judged good was one). From it follow `SeedTypes`,
`MarkersAreTrue`, `UpsDeliverSeeds` and, with the comparison of the file and what
runs, `WrittenIsKept`.

**ImageCache.** `CacheInvariant` proves `CacheInv`, for any number of commands at
once: what each holds at each step is labelled as its step needs it, and nobody
removes an archive that a lookup names. From it follow `CacheTypes`,
`EntriesCanBeServed` and `TaggedIsVerified`. `StepMoves` says once what any step
makes of its command (`Moves`) and of the caches (`Leaves`), and three more
invariants rest on it:

* `FreshInv`, for any number of commands: a refresh never looks into the cache,
  and the image it holds was built after it began. `RefreshesAreFresh` follows.
* `AgeInv`, for one command at a time (`OneCommand`): who is about to publish has
  an image no older than the entry it replaces. `CacheStaysFresh` follows. Finding
  4 and the hazard at `image_builder.go:183` are what two commands do instead.
* `RightInv` (`LabelsAreRight`), for one command at a time on a checkout that is
  edited only between commands (`Alone`): every image was built from what its
  label says, the command's inputs, its key and the label of its image agree with
  the checkout it was given, and, unless it refreshes, it has seen that the
  guest's image does not fit. `ReadyImagesAreRight` and `MatchingGuestsAreKept`
  follow.

**GuestPrepare.** `GuestInvariant` proves `GuestInv`, for any number of commands:
the cached binary, the mounts it has seen or made, its directory and its staged
file are, for a command at each step, what the step needs (`HandOK`); the key is
that a staged file carries its process in its name, that a moved binary replaces
only an equal one, and that nothing is unmounted or edited while a command runs.
From it follow `GuestTypes`, `OwnBinaryRuns` and `OwnDirectoriesServed`.

`SomeoneGetsThrough` proves `SomeoneIsServed`, that commands never all fail each
other. Its invariant `WayInv` (`WayIsClear`) is about runs in which no call has
failed: while some command is at work, only our own mounts are there, and none of
those that run together has got through, one of them is not about to be refused
(`SomeoneIsClear`). That is inductive with the fact that no installation has died
(`Unbroken`) and four more (`Way`): nobody is past the
launch of an instance that is not there; packages that the guest installs by
itself are those of a launch somebody waits for; the binary's directory stays;
and the checkout is mounted before any host directory, so that of two commands
that saw no mounts the one that makes the first can make the second. `StepTurn`
sums up what a step that does not fail makes of its command (`Turn`), and
`RefusedStuck` says that whoever is refused was about to be, so that the one who
was not is another and still there.

**GuestShell** (`StatusAssumption`, `CodeAssumption`: statuses are sequences of
digits and no status is a name of a state). `ShellHolds` proves `ShellInv` for
`ShellSpec`, one command of either kind. The argument has two halves:

* What `Parse` finds is first said by positions in the output (`ParseAt`): the
  first output marker, the last status marker, and digits and a newline after it
  and nothing else. An output in which every status marker past the first is
  followed by text, as in an echo of the script, is no answer (`ParseNothing`);
  one with a report is the reported status and exactly the words before it, or no
  answer (`ParseReported`), wherever it is cut, since a status whose newline is
  missing is none.
* The script is known by its remaining length (`Left`), torn in its first line
  when the command has read a part of it. `ControlOK` says what the shell knows
  at each line, `OutputOK` that every output has one of the shapes above:
  nothing is reported as long as the report is pending, and after it only echoes
  follow. All shapes are closed under prefixes, so a cut keeps them.

`AnswersAreTrue` and `UndisturbedGetThrough` follow.

**LinuxDevices** (`NameAssumption` and `LinkAssumption`: the loopback and the
finitely many ends of links have names, and different ones; `HashAssumption`: no
name of the user's is one that `up` makes by a hash; `NoneAssumption`;
`SectionAssumption`: sections have the fields of the YAML). The names, the ports,
the number of entries and their order are any. `DevicesHold` proves `DevicesInv`:

* Places are ordered as the statements of the code are (`BeforeOrder`). For each
  call of the construction `CallOK` names the claims of the check that stand
  behind it, and the order in which they were made (`CallsOK`); for each claim of a
  master or a namespace, `MastersAreCalled` and `NamespacesAreCalled` name the call.
* While the check goes on, `NamesOK` says that of two claims of one name the later
  comes after a release of it, and `TablesOK` that the tables hold what was claimed
  and not released (`ClaimStep`). The construction of an accepted section knows
  nothing else of the check.
* While the section is built, `BuildOK` relates the devices to the calls done:
  where each device came from, where it is now, that masters and mates are in its
  namespace, that who was given a master still has it, that the other end of a pair
  is where its call put it. `MastersAsDeclared` and `NamespacesHoldTheirPeers` are
  not inductive without the whole of it: a device that moves takes its name out of
  the router and loses its master, and which later call meets the name is said only
  by the claims.

`DevicesTyped`, `AcceptedNamesFree`, `MastersDeclared` and `NamespacesHold` follow.
`RejectedCollide` is about sections that are not built. When the check meets a
device's or a namespace's name that is taken, there are two claims of that name with
no release between them, or one of a name that is there from the start
(`DeviceTaken`, `NamespaceTaken`). Calls that `configureLinux` would make stand
behind the claims, and doing all calls in their order breaks (`TakenBreaks`): had it
not, the first device would still be there at the second call. That `BuildAll`, a fold over
a set of calls, has the value its equation gives it is proved too
(`RecursionExists`), by a least relation and the least counterexample among finite
sets.

**HostDirCoverage and MpCommand** (`NameAssumption`, `TreeAssumption`,
`RequestAssumption`, `UniverseAssumption`, `LinkAssumption`, `GuestAssumption`:
everything in a file system is in a directory of it, paths and links are made of
names and `..`, some link is followed, and the mount is not at the guest's root).
The file systems, topologies and the limit on links are any.

* `Clean` and `Resolve` are recursive functions, and a recursive function need not
  exist: `LoopExists` and `CleanSteps` show that these do, and `ResolveEnds` that
  every resolution ends, by a counterexample with the most links followed and then
  the fewest components left (`WalksEnd`). The same argument serves for every fact
  about whole resolutions below.
* `HostHolds` proves `HostInv`, for commands of `MpCommand`. While a path is
  checked, its walk by hand is on the way to where the kernel will resolve the path
  once what is missing has been made (`Fits`), and the paths before it are inside.
  `WalkOnFits` is the step: a turn of the loop is a step of the kernel in `Grown`, or
  one where the kernel fails. `Verdict` is what a finished walk says of the kernel's
  resolution. `ForwardedStaysBelow` follows, and by `RefusedLeads`, which looks at the
  step that refuses a path, `RefusedLeadsOut`.
* `GuestFindsTheSame` is `GuestSeesTheSame` under the hypothesis `GuestNameIsNew`: no
  path, link or source has a component that is the name of the guest's directory.
  That name is a hash of the host's path (multipass.go 590), and a source like
  `../<that name>/x`, which on the host leads to another directory, would lead the
  guest back into its mount. The topology is below the host directory and its
  directories are real ones (`TreeDirs`, `EvalLands`), so `filepath.Rel` is what is
  left of its path (`RelIs`) and the guest finds it under the same name
  (`FileInGuest`). From there a source is cleaned, and then walked, in step with the
  host (`Matches`, `InWalk`), until it ends or leaves the mount; and once it has left
  upwards, or to an absolute path, it never comes back (`Outward`, `OutWalk`).
* `MpIsOneShell`: `MpSpec => ShellSpec`. What the checks and `Contact` do is the
  beginning of one command of `GuestShell` or nothing to it. So `MpAnswersAreTrue` and
  `MpUndisturbedGetThrough` follow from the theorems about the shell.

Only model-checked: liveness (`CommandsEnd`, `DownEmptiesLab`, `RetryServes`),
which the proof system does not handle. Nothing is claimed of ups that run beside
other commands of the same lab, but `TypeCorrect`.

## What is not modelled, and what is left

* Console and ping: read-only lookups, then one exec.
* The defaults and overrides of the configuration, sysctls, work directories,
  digests: data that passes through.
* A create that the daemon completes after the rollback has listed the
  containers; process identifiers that are used again; a down that races an up,
  for which the properties of `LabLifecycle` do not hold and no document says
  what should.
* An edit of the checkout while an image or the guest's binary is being built:
  images and binaries are then labelled with inputs they were not built from.
* A command in the guest that reads its script and forges a status after the
  marker it read, or runs what it reads.
* Terminal handling and stream copying of `exec`, the content of generated files
  and messages, image pulls, hashes and their collisions, the network
  configuration of FRR itself, the examples.

Next: what an up beside other commands still keeps (finding 2 and the hazard at
`runtime.go:551` are what it does not), and the configuration's defaults and
overrides.
