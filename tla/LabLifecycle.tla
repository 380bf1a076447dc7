---------------------------- MODULE LabLifecycle ----------------------------
(***************************************************************************)
(* The life of ONE lab under the frridge command line: `up`, `up           *)
(* --recreate`, `down`, `down --purge` and `migrate-state`                 *)
(* (internal/runtime/runtime.go, internal/state/state.go), over the        *)
(* Docker daemon (internal/docker/docker.go) and the host's network        *)
(* devices (internal/netlink/netlink.go).                                  *)
(*                                                                         *)
(* A command is a process that makes one call at a time on shared things:  *)
(* containers, bridges, veth pairs and the lab's state file.  Every call   *)
(* may fail, the user may cancel the command (first SIGINT or SIGTERM) or  *)
(* kill it (SIGKILL, or a repeated signal), and the user may edit the YAML *)
(* between commands.  Nothing in the code locks a lab, so several commands *)
(* may run at once.                                                        *)
(***************************************************************************)
EXTENDS Integers, Sequences

CONSTANTS
    Procs,        \* command processes that may run at the same time
    Router,       \* router names
    Port,         \* link members: a router and an interface name in it
    RouterOf,     \* the router of each port
    LinkName,     \* names of topology links
    Topologies,   \* the topologies the lab's YAML may hold, all for one lab
    Commands,     \* the commands users give in this instance
    Starts,       \* what the lab is at first: "fresh", "running", "legacy"
    MaxCommands,  \* bound on commands started
    MaxFaults,    \* bound on failed calls, cancellations and kills, together
    MaxEdits,     \* bound on edits of the YAML
    None          \* no inventory, no state file, no topology

VARIABLES
    yaml,         \* the topology in the YAML file now
    containers,   \* Docker's containers that carry the lab's labels
    nextId,       \* the identifier Docker gives to the next container
    bridges,      \* links whose bridge exists in the host's namespace
    veths,        \* veth pairs, each with the namespaces of its two ends
    stateFile,    \* the lab's state.json, None when there is none
    labDir,       \* whether the generated lab directory exists
    proc,         \* each process: its command and local variables
    lost,         \* history: what existed when its only inventory vanished
    runs, faults, edits   \* how often the bounded events happened

vars == <<yaml, containers, nextId, bridges, veths, stateFile, labDir, proc,
          lost, runs, faults, edits>>

host == <<containers, nextId, bridges, veths>>
disk == <<stateFile, labDir>>
user == <<yaml, runs, edits>>

-----------------------------------------------------------------------------
(* Values.                                                                 *)

LinkDef == [name : LinkName, type : {"bridge", "p2p"}, members : Seq(Port)]

Topology == [routers : Seq(Router), links : Seq(LinkDef)]

Container == [id : Nat \ {0}, router : Router]

\* state.LabState.  A legacy snapshot has no `ownedBridges`, which is not the
\* same as an empty one.  The digest is the topology it identifies.
Inventory == [containers : SUBSET Container,
              bridges    : SUBSET LinkName,
              legacy     : BOOLEAN,
              digest     : Topologies]

\* Config.Validate: names are unique, a port is a member once, a p2p link
\* joins two ports, members are ports of routers of the topology.
ValidTopology(t) ==
    /\ t \in Topology
    /\ Len(t.routers) > 0
    /\ \A i, j \in DOMAIN t.routers : t.routers[i] = t.routers[j] => i = j
    /\ \A i, j \in DOMAIN t.links : t.links[i].name = t.links[j].name => i = j
    /\ \A i, j \in DOMAIN t.links :
         \A m \in DOMAIN t.links[i].members, n \in DOMAIN t.links[j].members :
            t.links[i].members[m] = t.links[j].members[n] => i = j /\ m = n
    /\ \A i \in DOMAIN t.links :
         /\ \A m \in DOMAIN t.links[i].members :
               \E r \in DOMAIN t.routers :
                  t.routers[r] = RouterOf[t.links[i].members[m]]
         /\ t.links[i].type = "p2p" => Len(t.links[i].members) = 2
         /\ t.links[i].type = "bridge" => Len(t.links[i].members) >= 2

AllCommands == {"up", "recreate", "down", "purge", "migrate"}

ASSUME TopologyAssumption == \A t \in Topologies : ValidTopology(t)
ASSUME NameAssumption == RouterOf \in [Port -> Router] /\ "p2p" \notin Port
ASSUME NoneAssumption == None \notin Topologies /\ None \notin Inventory
ASSUME BoundAssumption ==
    /\ MaxCommands \in Nat /\ MaxFaults \in Nat /\ MaxEdits \in Nat
    /\ Commands \subseteq AllCommands
    /\ Starts \subseteq {"fresh", "running", "legacy"}

-----------------------------------------------------------------------------
(* Names of host devices.  shortName hashes lab, link and port: distinct   *)
(* keys are taken to give distinct names.                                  *)

Links(t) == {t.links[i] : i \in DOMAIN t.links}

BridgeLinks(t) == {l.name : l \in {k \in Links(t) : k.type = "bridge"}}

PairsOf(link) ==
    IF link.type = "bridge"
    THEN {<<link.name, link.members[i]>> : i \in DOMAIN link.members}
    ELSE {<<link.name, "p2p">>}

\* Mutant: only bridge links leave something in the host's namespace.
BridgePairs(t) == UNION {PairsOf(l) : l \in {k \in Links(t) : k.type = "bridge"}}

TopologyPairs(t) == UNION {PairsOf(l) : l \in Links(t)}

Host == 0   \* the host's namespace; a container's is named by its id

Veth == [pair : LinkName \X (Port \cup {"p2p"}), left : Nat, right : Nat]

\* The pairs a link delete in the host's namespace can find.
InHost(v) == v.left = Host \/ v.right = Host
HostPairs == {v.pair : v \in {w \in veths : InHost(w)}}

Alive(id) == id = Host \/ \E c \in containers : c.id = id

\* The kernel destroys a veth pair with the namespace that holds either end.
WithoutContainer(c) == {v \in veths : c.id \notin {v.left, v.right}}

-----------------------------------------------------------------------------
(* Processes.                                                              *)

UpSteps      == {"mkdir", "create", "boot", "links", "commit"}
CleanupSteps == {"read", "list", "remove", "bridges"}
Steps        == UpSteps \cup CleanupSteps \cup
                {"idle", "stat", "exists", "save", "purge", "migrate", "write"}

Process == [
    pc          : Steps,                          \* the next call
    cmd         : AllCommands \cup {"none"},
    topo        : Topologies \cup {None},         \* the YAML, read at the start
    snapshot    : Inventory \cup {None},          \* the *state.LabState in hand
    r : Nat, l : Nat, m : Nat,                    \* router, link and member loops
    rollback    : BOOLEAN,                        \* in up's deferred cleanup
    err         : BOOLEAN,                        \* cleanupErr # nil
    cancelled   : BOOLEAN,                        \* the command's context
    todo        : SUBSET Container,               \* ids left to remove
    todoBridges : SUBSET LinkName]                \* bridges left to delete

Idle == [pc |-> "idle", cmd |-> "none", topo |-> None, snapshot |-> None,
         r |-> 1, l |-> 1, m |-> 0, rollback |-> FALSE, err |-> FALSE,
         cancelled |-> FALSE, todo |-> {}, todoBridges |-> {}]

At(p, step) == proc[p].pc = step
Link(p) == proc[p].topo.links[proc[p].l]
MoreLinks(p) == proc[p].l <= Len(proc[p].topo.links)
IdOf(cs, router) == (CHOOSE c \in cs : c.router = router).id
MemberId(p, i) == IdOf(proc[p].snapshot.containers, RouterOf[Link(p).members[i]])

\* A cancelled context fails every Docker call made with it.  The rollback
\* runs under a context of its own (WithoutCancel, 30 s), and network calls
\* take no context at all.
Cancelled(p) == proc[p].cancelled /\ ~proc[p].rollback
Fault == faults < MaxFaults /\ faults' = faults + 1
DockerFault(p) == IF Cancelled(p) THEN UNCHANGED faults ELSE Fault

Become(p, s) == proc' = [proc EXCEPT ![p] = s]
Goto(p, step) == Become(p, [proc[p] EXCEPT !.pc = step])
End(p) == Become(p, Idle)

\* Mutant: a bridge is recorded after EnsureBridge, when it worked.
RollBackRecorded(p, snapshot) ==
    Become(p, [proc[p] EXCEPT !.pc = "list", !.rollback = TRUE])

\* Mutant: the rollback, too, reads the state file.
RollBackFromFile(p, snapshot) ==
    Become(p, [proc[p] EXCEPT !.pc = "list", !.rollback = TRUE,
                              !.snapshot = stateFile])

\* up returns an error after its deferred function is in place: the cleanup
\* starts with the snapshot in memory, whatever the state file says.
RollBack(p, snapshot) ==
    Become(p, [proc[p] EXCEPT !.pc = "list", !.rollback = TRUE,
                              !.snapshot = snapshot])

\* With no state file, the snapshot in memory is the only inventory.  What
\* exists when it vanishes is known to no command any more.
Forget ==
    IF stateFile = None
    THEN lost' = [containers |-> containers, bridges |-> bridges,
                  pairs |-> HostPairs]
    ELSE UNCHANGED lost

-----------------------------------------------------------------------------
(* The start: no lab yet, a lab that `up` left running, or one that an     *)
(* older frridge left running with a state file that lists no bridges.     *)

UpContainers(t) == {[id |-> i, router |-> t.routers[i]] : i \in DOMAIN t.routers}

MemberVeth(link, i, cs) ==
    [pair |-> <<link.name, link.members[i]>>, left |-> Host,
     right |-> IdOf(cs, RouterOf[link.members[i]])]

UpVeths(link, cs) ==
    IF link.type = "bridge"
    THEN {MemberVeth(link, i, cs) : i \in DOMAIN link.members}
    ELSE {[pair |-> <<link.name, "p2p">>,
           left  |-> IdOf(cs, RouterOf[link.members[1]]),
           right |-> IdOf(cs, RouterOf[link.members[2]])]}

Fresh == /\ containers = {} /\ nextId = 1 /\ bridges = {} /\ veths = {}
         /\ stateFile = None /\ labDir = FALSE

Running(legacy) ==
    /\ containers = UpContainers(yaml)
    /\ nextId = Len(yaml.routers) + 1
    /\ bridges = BridgeLinks(yaml)
    /\ veths = UNION {UpVeths(l, UpContainers(yaml)) : l \in Links(yaml)}
    /\ stateFile = [containers |-> UpContainers(yaml),
                    bridges |-> IF legacy THEN {} ELSE BridgeLinks(yaml),
                    legacy |-> legacy, digest |-> yaml]
    /\ labDir = TRUE

Init ==
    /\ yaml \in Topologies
    /\ \/ "fresh" \in Starts /\ Fresh
       \/ "running" \in Starts /\ Running(FALSE)
       \/ "legacy" \in Starts /\ Running(TRUE)
    /\ proc = [p \in Procs |-> Idle]
    /\ lost = [containers |-> {}, bridges |-> {}, pairs |-> {}]
    /\ runs = 0 /\ faults = 0 /\ edits = 0

-----------------------------------------------------------------------------
(* What users do.                                                          *)

FirstStep(cmd) == CASE cmd = "up" -> "stat"
                    [] cmd = "migrate" -> "migrate"
                    [] OTHER -> "read"

\* config.LoadFile and the start of Up, Down or MigrateState.
Begin(p, cmd) ==
    /\ At(p, "idle") /\ runs < MaxCommands
    /\ runs' = runs + 1
    /\ Become(p, [Idle EXCEPT !.pc = FirstStep(cmd), !.cmd = cmd, !.topo = yaml])
    /\ UNCHANGED <<yaml, edits, host, disk, lost, faults>>

\* The first SIGINT or SIGTERM cancels the command's context.
Cancel(p) ==
    /\ ~At(p, "idle") /\ ~proc[p].cancelled
    /\ Fault
    /\ Become(p, [proc[p] EXCEPT !.cancelled = TRUE])
    /\ UNCHANGED <<user, host, disk, lost>>

\* A repeated signal (AfterFunc has restored the default handler) or SIGKILL
\* ends the process where it stands: no deferred cleanup, no state file.
Kill(p) ==
    /\ ~At(p, "idle")
    /\ Fault /\ Forget /\ End(p)
    /\ UNCHANGED <<user, host, disk>>

Quiescent == \A p \in Procs : At(p, "idle")

EditYaml ==
    /\ Quiescent /\ edits < MaxEdits
    /\ yaml' \in Topologies \ {yaml}
    /\ edits' = edits + 1
    /\ UNCHANGED <<runs, host, disk, proc, lost, faults>>

\* Containers no inventory knows can only go by hand, with `docker rm -f`.
OperatorRemove ==
    /\ Quiescent
    /\ \E c \in lost.containers :
         /\ containers' = containers \ {c}
         /\ veths' = WithoutContainer(c)
         /\ lost' = [lost EXCEPT !.containers = @ \ {c}]
    /\ UNCHANGED <<user, nextId, bridges, disk, proc, faults>>

-----------------------------------------------------------------------------
(* up without --recreate first asks runtimeExists, in two calls.           *)

\* Mutant: up looks for containers only.
SkipStat(p) ==
    At(p, "stat") /\ Goto(p, "exists") /\ UNCHANGED <<user, host, disk, lost, faults>>

\* os.Stat of the state file: present, absent, or an error.
StatState(p) ==
    /\ At(p, "stat")
    /\ \/ stateFile # None /\ End(p) /\ UNCHANGED faults
       \/ stateFile = None /\ Goto(p, "exists") /\ UNCHANGED faults
       \/ Fault /\ End(p)
    /\ UNCHANGED <<user, host, disk, lost>>

\* ListContainers by the lab's labels, running or not.
ListExisting(p) ==
    /\ At(p, "exists")
    /\ \/ ~Cancelled(p) /\ containers # {} /\ End(p) /\ UNCHANGED faults
       \/ ~Cancelled(p) /\ containers = {} /\ Goto(p, "mkdir") /\ UNCHANGED faults
       \/ DockerFault(p) /\ End(p)
    /\ UNCHANGED <<user, host, disk, lost>>

\* MkdirAll of the routers directory and the empty snapshot.  A failure here
\* returns before the deferred cleanup is registered.
OpenSnapshot(p) ==
    /\ At(p, "mkdir")
    /\ \/ /\ labDir' = TRUE
          /\ Become(p, [proc[p] EXCEPT !.pc = "create",
                          !.r = 1, !.l = 1, !.m = 0,
                          !.snapshot = [containers |-> {}, bridges |-> {},
                                        legacy |-> FALSE,
                                        digest |-> proc[p].topo]])
          /\ UNCHANGED faults
       \/ Fault /\ End(p) /\ UNCHANGED labDir
    /\ UNCHANGED <<user, host, stateFile, lost>>

\* CreateContainer.  The daemon knows one container per name.  `lost reply` is
\* a create the daemon did but the client saw fail: only its labels tell.
CreateContainer(p) ==
    LET router == proc[p].topo.routers[proc[p].r]
        new    == [id |-> nextId, router |-> router]
        taken  == \E c \in containers : c.router = router
        recorded == [proc[p].snapshot EXCEPT !.containers = @ \cup {new}]
    IN  /\ At(p, "create")
        /\ \/ \* created, and recorded after the call
              /\ ~Cancelled(p) /\ ~taken
              /\ containers' = containers \cup {new} /\ nextId' = nextId + 1
              /\ Become(p, [proc[p] EXCEPT !.pc = "boot", !.snapshot = recorded])
              /\ UNCHANGED faults
           \/ \* lost reply
              /\ ~taken /\ DockerFault(p)
              /\ containers' = containers \cup {new} /\ nextId' = nextId + 1
              /\ RollBack(p, proc[p].snapshot)
           \/ \* PrepareRouterFiles or the call failed, or the name is taken
              /\ (taken /\ UNCHANGED faults) \/ DockerFault(p)
              /\ RollBack(p, proc[p].snapshot)
              /\ UNCHANGED <<containers, nextId>>
    /\ UNCHANGED <<user, bridges, veths, disk, lost>>

\* StartContainer and InspectContainer, then the next router or the links.
BootContainer(p) ==
    LET id == IdOf(proc[p].snapshot.containers, proc[p].topo.routers[proc[p].r])
        more == proc[p].r < Len(proc[p].topo.routers)
    IN  /\ At(p, "boot")
        /\ \/ /\ ~Cancelled(p) /\ Alive(id)
              /\ IF more
                 THEN Become(p, [proc[p] EXCEPT !.pc = "create", !.r = @ + 1])
                 ELSE Goto(p, "links")
              /\ UNCHANGED faults
           \/ /\ (~Alive(id) /\ UNCHANGED faults) \/ DockerFault(p)
              /\ RollBack(p, proc[p].snapshot)
    /\ UNCHANGED <<user, host, disk, lost>>

-----------------------------------------------------------------------------
(* configureLinks: the links in YAML order, a bridge's members in order.   *)

\* The bridge is recorded before EnsureBridge, which adopts a device of that
\* name and may fail after creating one.
EnsureBridge(p) ==
    LET name     == Link(p).name
        recorded == [proc[p].snapshot EXCEPT !.bridges = @ \cup {name}]
    IN  /\ At(p, "links") /\ MoreLinks(p)
        /\ Link(p).type = "bridge" /\ proc[p].m = 0
        /\ \/ /\ bridges' = bridges \cup {name}
              /\ Become(p, [proc[p] EXCEPT !.snapshot = recorded, !.m = 1])
              /\ UNCHANGED faults
           \/ /\ Fault
              /\ bridges' \in {bridges, bridges \cup {name}}
              /\ RollBack(p, recorded)
        /\ lost' = [lost EXCEPT !.bridges = @ \ {name}]
    /\ UNCHANGED <<user, containers, nextId, veths, disk>>

\* Mutant: the last member of a bridge is left out.
NextButLast(p) ==
    IF Link(p).type = "bridge" /\ proc[p].m + 1 < Len(Link(p).members)
    THEN Become(p, [proc[p] EXCEPT !.m = @ + 1])
    ELSE Become(p, [proc[p] EXCEPT !.m = 0, !.l = @ + 1])

\* The loops' next member or link.
NextMember(p) ==
    IF Link(p).type = "bridge" /\ proc[p].m < Len(Link(p).members)
    THEN Become(p, [proc[p] EXCEPT !.m = @ + 1])
    ELSE Become(p, [proc[p] EXCEPT !.m = 0, !.l = @ + 1])

\* Making a veth pair: `stages` are the ends it has after each step that
\* worked (created in the host, then moved), the last one when all did.
\* A taken name fails the creation, a dead container or a missing bridge the
\* move; a pair left half-way stays, and ConfigureAttachedLink may fail last.
Attach(p, pair, stages, bridgeReady) ==
    LET Ends(i) == [pair |-> pair, left |-> stages[i][1], right |-> stages[i][2]]
        taken   == pair \in HostPairs
        able(i) == /\ ~taken
                   /\ i > 1 => bridgeReady
                   /\ Alive(stages[i][1]) /\ Alive(stages[i][2])
        last    == Len(stages)
    IN  /\ \/ /\ able(last)
              /\ veths' = veths \cup {Ends(last)}
              /\ lost' = [lost EXCEPT !.pairs = @ \ {pair}]
              /\ NextMember(p)
              /\ UNCHANGED faults
           \/ /\ IF able(last) THEN Fault ELSE UNCHANGED faults
              /\ \/ UNCHANGED <<veths, lost>>
                 \/ \E i \in 1..last :
                      /\ able(i)
                      /\ veths' = veths \cup {Ends(i)}
                      /\ lost' = [lost EXCEPT !.pairs = @ \ {pair}]
              /\ RollBack(p, proc[p].snapshot)
        /\ UNCHANGED <<user, containers, nextId, bridges, disk>>

\* CreateBridgeAttachment and ConfigureAttachedLink of one member.
AttachMember(p) ==
    /\ At(p, "links") /\ MoreLinks(p)
    /\ Link(p).type = "bridge" /\ proc[p].m > 0
    /\ Attach(p, <<Link(p).name, Link(p).members[proc[p].m]>>,
              <<<<Host, Host>>, <<Host, MemberId(p, proc[p].m)>>>>,
              Link(p).name \in bridges)

\* CreateP2PAttachment moves the left end, then the right one; then both ends
\* are configured.
AttachP2P(p) ==
    /\ At(p, "links") /\ MoreLinks(p) /\ Link(p).type = "p2p"
    /\ Attach(p, <<Link(p).name, "p2p">>,
              <<<<Host, Host>>, <<MemberId(p, 1), Host>>,
                <<MemberId(p, 1), MemberId(p, 2)>>>>, TRUE)

\* configureLoopbacks, configureLinux and runRouterCommands work inside the
\* containers: here they can only fail.
ConfigureRouters(p) ==
    LET alive == \A c \in proc[p].snapshot.containers : Alive(c.id)
    IN  /\ At(p, "links") /\ ~MoreLinks(p)
        /\ \/ alive /\ Goto(p, "commit") /\ UNCHANGED faults
           \/ /\ (~alive /\ UNCHANGED faults) \/ DockerFault(p)
              /\ RollBack(p, proc[p].snapshot)
    /\ UNCHANGED <<user, host, disk, lost>>

\* ctx.Err(), then state.Write: a temporary file renamed into place.
Commit(p) ==
    /\ At(p, "commit")
    /\ \/ /\ ~proc[p].cancelled
          /\ stateFile' = proc[p].snapshot /\ labDir' = TRUE
          /\ End(p) /\ UNCHANGED faults
       \/ /\ DockerFault(p)
          /\ RollBack(p, proc[p].snapshot) /\ UNCHANGED disk
    /\ UNCHANGED <<user, host, lost>>

-----------------------------------------------------------------------------
(* cleanupRuntime: for down, for up --recreate, and for up's rollback.     *)

IsLegacy(inventory) == IF inventory = None THEN FALSE ELSE inventory.legacy

\* Mutant: a legacy inventory is taken for one without bridges.
ReadAnyState(p) ==
    /\ At(p, "read")
    /\ Become(p, [proc[p] EXCEPT !.pc = "list", !.snapshot = stateFile])
    /\ UNCHANGED <<user, host, disk, lost, faults>>

\* readLabState.  No file is no inventory; a legacy one is refused.
ReadState(p) ==
    /\ At(p, "read")
    /\ \/ /\ ~IsLegacy(stateFile)
          /\ Become(p, [proc[p] EXCEPT !.pc = "list", !.snapshot = stateFile])
          /\ UNCHANGED faults
       \/ /\ IsLegacy(stateFile)
          /\ End(p) /\ UNCHANGED faults
       \/ Fault /\ End(p)
    /\ UNCHANGED <<user, host, disk, lost>>

\* Mutant: labelled containers are removed with or without an inventory.
ListAnyway(p) ==
    /\ At(p, "list")
    /\ Become(p, [proc[p] EXCEPT !.pc = "remove", !.todo = containers])
    /\ UNCHANGED <<user, host, disk, lost, faults>>

\* ListContainers by labels.  Without an inventory neither an error nor a
\* container is acceptable; with one, an error is remembered.
ListLabelled(p) ==
    LET known == proc[p].snapshot # None
        recorded == IF known THEN proc[p].snapshot.containers ELSE {}
    IN  /\ At(p, "list")
        /\ \/ /\ ~Cancelled(p) /\ (known \/ containers = {})
              /\ Become(p, [proc[p] EXCEPT !.pc = "remove",
                                           !.todo = recorded \cup containers])
              /\ UNCHANGED faults
           \/ ~Cancelled(p) /\ ~known /\ containers # {} /\ End(p) /\ UNCHANGED faults
           \/ /\ DockerFault(p)
              /\ IF known
                 THEN Become(p, [proc[p] EXCEPT !.pc = "remove", !.err = TRUE,
                                                !.todo = recorded])
                 ELSE End(p)
    /\ UNCHANGED <<user, host, disk, lost>>

\* RemoveContainer of each id, in the order of a map.  One that is gone is
\* removed; one that cannot be removed is an error, and the loop goes on.
RemoveContainer(p) ==
    /\ At(p, "remove")
    /\ \E c \in proc[p].todo :
         LET done == [proc[p] EXCEPT !.todo = @ \ {c}]
             gone == containers' = containers \ {c} /\ veths' = WithoutContainer(c)
         IN  \/ ~Cancelled(p) /\ gone /\ Become(p, done) /\ UNCHANGED faults
             \/ /\ DockerFault(p)
                /\ gone \/ UNCHANGED <<containers, veths>>
                /\ Become(p, [done EXCEPT !.err = TRUE])
    /\ UNCHANGED <<user, nextId, bridges, disk, lost>>

\* DeleteLink of the veth names of the topology in hand, whatever links the
\* inventory was made for; some may fail, and the loop goes on.
DeleteVeths(p) ==
    LET found == IF proc[p].snapshot = None THEN {}
                 ELSE {v \in veths : InHost(v) /\
                                     v.pair \in TopologyPairs(proc[p].topo)}
        owned == IF proc[p].snapshot = None THEN {} ELSE proc[p].snapshot.bridges
        next  == [proc[p] EXCEPT !.pc = "bridges", !.todoBridges = owned]
    IN  /\ At(p, "remove") /\ proc[p].todo = {}
        /\ \/ veths' = veths \ found /\ Become(p, next) /\ UNCHANGED faults
           \/ /\ proc[p].snapshot # None /\ Fault
              /\ \E kept \in SUBSET found : veths' = veths \ (found \ kept)
              /\ Become(p, [next EXCEPT !.err = TRUE])
    /\ UNCHANGED <<user, containers, nextId, bridges, disk, lost>>

\* DeleteLink of each recorded bridge.
DeleteBridge(p) ==
    /\ At(p, "bridges")
    /\ \E name \in proc[p].todoBridges :
         LET done == [proc[p] EXCEPT !.todoBridges = @ \ {name}]
         IN  \/ bridges' = bridges \ {name} /\ Become(p, done) /\ UNCHANGED faults
             \/ Fault /\ Become(p, [done EXCEPT !.err = TRUE]) /\ UNCHANGED bridges
    /\ UNCHANGED <<user, containers, nextId, veths, disk, lost>>

\* The cleanup returned nil: the command goes on without its snapshot.
Resume(p, step) ==
    Become(p, [Idle EXCEPT !.pc = step, !.cmd = proc[p].cmd,
                           !.topo = proc[p].topo, !.cancelled = proc[p].cancelled])

\* Mutant: down --purge deletes the directory even after an error.
PurgeAnyway(p) ==
    IF proc[p].rollback THEN Goto(p, "save")
    ELSE IF proc[p].cmd = "purge" THEN Resume(p, "purge") ELSE End(p)

\* Mutant: a rollback that failed returns, its inventory unsaved.
DropInventory(p) == End(p)

\* After an error: down and up --recreate return it and leave the state file
\* as it is; up's rollback saves the snapshot for a later retry.
KeepInventory(p) == IF proc[p].rollback THEN Goto(p, "save") ELSE End(p)

\* Mutant: down waits until nothing is left, by cleaning up again.
CleanAgain(p) == IF proc[p].rollback THEN End(p) ELSE Resume(p, "read")

AfterCleanup(p) ==
    CASE proc[p].rollback          -> End(p)
      [] ~proc[p].rollback /\ proc[p].cmd = "recreate" -> Resume(p, "mkdir")
      [] ~proc[p].rollback /\ proc[p].cmd = "purge"    -> Resume(p, "purge")
      [] OTHER                     -> End(p)

\* Mutant: the state file goes after any cleanup.
EraseAnyway(p) ==
    /\ At(p, "bridges") /\ proc[p].todoBridges = {}
    /\ stateFile' = None /\ AfterCleanup(p)
    /\ UNCHANGED <<user, host, labDir, lost, faults>>

\* state.Remove, when nothing failed.
EraseState(p) ==
    /\ At(p, "bridges") /\ proc[p].todoBridges = {}
    /\ \/ /\ ~proc[p].err
          /\ stateFile' = None /\ AfterCleanup(p) /\ UNCHANGED faults
       \/ /\ (proc[p].err /\ UNCHANGED faults) \/ Fault
          /\ KeepInventory(p) /\ UNCHANGED stateFile
    /\ UNCHANGED <<user, host, labDir, lost>>

\* "save failed rollback inventory"; when that fails too, nothing knows.
SaveInventory(p) ==
    /\ At(p, "save")
    /\ \/ /\ stateFile' = proc[p].snapshot /\ labDir' = TRUE
          /\ End(p) /\ UNCHANGED <<faults, lost>>
       \/ Fault /\ Forget /\ End(p) /\ UNCHANGED disk
    /\ UNCHANGED <<user, host>>

\* down --purge: RemoveAll of the lab directory, the state file's home too.
Purge(p) ==
    /\ At(p, "purge")
    /\ \/ labDir' = FALSE /\ stateFile' = None /\ UNCHANGED faults
       \/ Fault /\ UNCHANGED disk
    /\ End(p)
    /\ UNCHANGED <<user, host, lost>>

-----------------------------------------------------------------------------
(* migrate-state.                                                          *)

\* The file must be there, carry the digest of this very topology and have no
\* inventory of bridges yet.
ReadLegacy(p) ==
    LET fits == IsLegacy(stateFile) /\ stateFile.digest = proc[p].topo
    IN  /\ At(p, "migrate")
        /\ \/ /\ fits
              /\ Become(p, [proc[p] EXCEPT !.pc = "write",
                              !.snapshot = [stateFile EXCEPT !.legacy = FALSE,
                                              !.bridges = BridgeLinks(proc[p].topo)]])
              /\ UNCHANGED faults
           \/ ~fits /\ End(p) /\ UNCHANGED faults
           \/ Fault /\ End(p)
        /\ UNCHANGED <<user, host, disk, lost>>

WriteMigrated(p) ==
    /\ At(p, "write")
    /\ \/ /\ ~proc[p].cancelled
          /\ stateFile' = proc[p].snapshot /\ labDir' = TRUE /\ UNCHANGED faults
       \/ DockerFault(p) /\ UNCHANGED disk
    /\ End(p)
    /\ UNCHANGED <<user, host, lost>>

-----------------------------------------------------------------------------
(* The specification.                                                      *)

\* A call of the command's own code: scheduled until the command ends.
Step(p) ==
    \/ StatState(p) \/ ListExisting(p) \/ OpenSnapshot(p)
    \/ CreateContainer(p) \/ BootContainer(p)
    \/ EnsureBridge(p) \/ AttachMember(p) \/ AttachP2P(p)
    \/ ConfigureRouters(p) \/ Commit(p)
    \/ ReadState(p) \/ ListLabelled(p) \/ RemoveContainer(p) \/ DeleteVeths(p)
    \/ DeleteBridge(p) \/ EraseState(p) \/ SaveInventory(p) \/ Purge(p)
    \/ ReadLegacy(p) \/ WriteMigrated(p)

Next ==
    \/ \E p \in Procs :
         \/ Step(p) \/ Cancel(p) \/ Kill(p)
         \/ \E cmd \in Commands : Begin(p, cmd)
    \/ EditYaml \/ OperatorRemove

Spec == Init /\ [][Next]_vars

FairSpec == Spec /\ \A p \in Procs : WF_vars(Step(p))

-----------------------------------------------------------------------------
(* Properties.                                                             *)

\* Types of the shared state.
SharedTypeOK ==
    /\ yaml \in Topologies
    /\ containers \in SUBSET Container
    /\ nextId \in Nat \ {0}
    /\ bridges \in SUBSET LinkName
    /\ veths \in SUBSET Veth
    /\ stateFile \in Inventory \cup {None}
    /\ labDir \in BOOLEAN
    /\ lost \in [containers : SUBSET Container, bridges : SUBSET LinkName,
                 pairs : SUBSET (LinkName \X (Port \cup {"p2p"}))]
    /\ runs \in Nat /\ faults \in Nat /\ edits \in Nat

\* What each command holds at each of its calls: a topology from its start on,
\* an inventory wherever the code uses one, loop indices inside their lists.
HoldsOK(s) ==
    /\ s.pc # "idle" => s.topo \in Topologies
    /\ (s.pc \in {"create", "boot", "links", "commit", "save", "write"} \/ s.rollback)
         => s.snapshot \in Inventory
    /\ s.rollback => s.pc \in {"list", "remove", "bridges", "save"}
    /\ s.r >= 1 /\ s.l >= 1
    /\ s.pc \in {"create", "boot"} => s.r <= Len(s.topo.routers) /\ s.m = 0
    /\ s.pc = "links" /\ s.l <= Len(s.topo.links) =>
         s.m <= Len(s.topo.links[s.l].members)

\* Types of the commands' local variables.
ProcsOK == proc \in [Procs -> Process] /\ \A p \in Procs : HoldsOK(proc[p])

\* The types of the state and of each command's local variables.
TypeOK == SharedTypeOK /\ ProcsOK

\* The bridges an inventory accounts for: those it lists or, for a legacy
\* one, those of the topology whose digest it carries.
Recorded(inventory) ==
    CASE inventory = None                      -> {}
      [] IsLegacy(inventory)                   -> BridgeLinks(inventory.digest)
      [] OTHER                                 -> inventory.bridges

\* No bridge leaks: every bridge of the lab on the host is recorded in the
\* state file or in a running command's snapshot, unless a kill or a failed
\* rollback save took the only record with it (runtime.go 141-152, 346-348).
BridgesAccounted ==
    bridges \subseteq Recorded(stateFile) \cup lost.bridges
                      \cup UNION {Recorded(proc[p].snapshot) : p \in Procs}

\* Which command makes which calls.
CommandOK(s) ==
    /\ s.pc = "idle" <=> s.cmd = "none"
    /\ s.pc \in {"stat", "exists"} => s.cmd = "up"
    /\ s.pc \in {"migrate", "write"} => s.cmd = "migrate"
    /\ s.pc = "purge" => s.cmd = "purge"
    /\ s.pc \in UpSteps \cup {"save"} \/ s.rollback => s.cmd \in {"up", "recreate"}
    /\ s.pc \in CleanupSteps /\ ~s.rollback => s.cmd \in {"recreate", "down", "purge"}

\* What one command alone knows at each of its calls, beside the types: the
\* snapshot it holds is not legacy; before the state file is read or the
\* snapshot opened there is none; a lab is built, and rolled back, only with
\* no state file and no unknown container; a cleanup that is no rollback works
\* from the file itself, and removes nothing when there is none; a bridge of
\* the snapshot that exists is one still to delete, or an error was seen; a
\* migration writes what the legacy file stands for.
KnowsOK(s) ==
    /\ s.snapshot # None => ~s.snapshot.legacy
    /\ s.pc \in {"idle", "stat", "exists", "mkdir", "read", "migrate", "purge"}
         => s.snapshot = None
    /\ s.pc \in {"exists", "purge"} => stateFile = None
    /\ s.pc \in UpSteps \cup {"save"} \/ s.rollback =>
         stateFile = None /\ lost.containers = {}
    /\ s.pc \in {"list", "remove", "bridges"} /\ ~s.rollback => s.snapshot = stateFile
    /\ s.pc \in {"remove", "bridges"} =>
         lost.containers = {} /\ (s.snapshot = None => s.todo = {})
    /\ s.pc = "bridges" /\ s.snapshot # None /\ ~s.err =>
         s.snapshot.bridges \cap bridges \subseteq s.todoBridges
    /\ s.pc = "write" => /\ IsLegacy(stateFile)
                         /\ s.snapshot.bridges = BridgeLinks(stateFile.digest)

\* Where one command alone knows containers to be gone: with no state file
\* there are only unknown ones, but while a lab is built or rolled back; a
\* cleanup that saw no error has the others on its list, then removed.
GoneOK(s) ==
    /\ stateFile = None /\ ~s.rollback
         /\ s.pc \notin {"create", "boot", "links", "commit", "save"}
         => containers \subseteq lost.containers
    /\ s.pc = "remove" /\ ~s.err => containers \subseteq s.todo
    /\ s.pc = "bridges" /\ ~s.err => containers = {}
    /\ s.pc = "purge" => lost.containers = {}

\* Containers without an inventory are never removed by a command, however
\* many commands are given: up reports them, up --recreate, down and
\* migrate-state refuse (README.md 121-130; runtime.go 331-338, 579-586).
UnknownContainersStay == lost.containers \subseteq containers

\* The inductive invariant behind BridgesAccounted, UnknownContainersStay and
\* the lab's contract, for commands that run one at a time.
AccountInv ==
    /\ TypeOK
    /\ BridgesAccounted
    /\ UnknownContainersStay
    /\ stateFile # None => lost.containers = {}
    /\ \A p \in Procs : CommandOK(proc[p]) /\ KnowsOK(proc[p])

\* The same for what is gone.
GoneInv == AccountInv /\ \A p \in Procs : GoneOK(proc[p])

\* Where one command alone knows veth pairs to be gone, as long as nobody edits
\* the YAML: it holds the topology every pair was made for, so that a cleanup
\* that saw no error has deleted them all; with no state file there are only
\* forgotten ones, but while a lab is built or rolled back.
PairsOK(s) ==
    edits = 0 =>
        /\ s.pc # "idle" => s.topo = yaml
        /\ stateFile = None /\ ~s.rollback
             /\ s.pc \notin {"create", "boot", "links", "commit", "save"}
             => HostPairs \subseteq lost.pairs
        /\ s.pc = "bridges" /\ s.snapshot # None /\ ~s.err => HostPairs = {}

\* How far one up alone has come.  The containers are those its snapshot lists,
\* one for each router it has passed.
RoutersMade(s) ==
    CASE s.pc = "create" -> {s.topo.routers[i] : i \in 1..(s.r - 1)}
      [] s.pc = "boot"   -> {s.topo.routers[i] : i \in 1..s.r}
      [] OTHER           -> {s.topo.routers[i] : i \in DOMAIN s.topo.routers}

RoutersBuilt(s) ==
    /\ containers = s.snapshot.containers
    /\ {c.router : c \in s.snapshot.containers} = RoutersMade(s)

\* Its bridges, in the snapshot and on the host, are those of the bridge links
\* it has passed or is at the members of.
Passed(s, i) == i < s.l \/ (i = s.l /\ s.m > 0)

BridgesMade(s) ==
    {s.topo.links[i].name :
       i \in {k \in DOMAIN s.topo.links : s.topo.links[k].type = "bridge" /\ Passed(s, k)}}

BridgesBuilt(s) == s.snapshot.bridges = BridgesMade(s) /\ BridgesMade(s) \subseteq bridges

\* Every pair is there of the links it has passed, and of the current one those
\* of the members before the current one.
PairsBuilt(s) ==
    LET cs == s.snapshot.containers
    IN  \A i \in DOMAIN s.topo.links :
           /\ i < s.l => UpVeths(s.topo.links[i], cs) \subseteq veths
           /\ i = s.l /\ s.topo.links[i].type = "bridge" =>
                \A j \in DOMAIN s.topo.links[i].members :
                   j < s.m => MemberVeth(s.topo.links[i], j, cs) \in veths

BuiltOK(s) ==
    /\ s.pc \in {"create", "boot", "links", "commit"} =>
         /\ s.snapshot.digest = s.topo
         /\ RoutersBuilt(s) /\ BridgesBuilt(s) /\ PairsBuilt(s)
         /\ s.pc \in {"create", "boot"} => s.l = 1
         /\ s.pc = "commit" => s.l > Len(s.topo.links)
    /\ s.pc = "save" => s.rollback

\* The inductive invariant behind ForgottenPairsAreGone and
\* PublishedLabIsWhole, for commands that run one at a time.
NetworkInv ==
    /\ GoneInv
    /\ edits = 0 => HostPairs \subseteq TopologyPairs(yaml)
    /\ \A p \in Procs : PairsOK(proc[p]) /\ BuiltOK(proc[p])

\* A lab no file describes has nothing left on the host, once its commands
\* have ended, except what a kill or a failed save made unknown.  So an up
\* that fails, is cancelled, or gets no answer from Docker leaves either
\* nothing or a state file (runtime.go 141-152, 551-644).
ForgottenLabIsEmpty ==
    Quiescent /\ stateFile = None =>
        containers \subseteq lost.containers /\ bridges \subseteq lost.bridges

\* The same of veth pairs, which are deleted by the names of the topology in
\* hand: as long as nobody edits the YAML (runtime.go 598-621).
ForgottenPairsAreGone ==
    Quiescent /\ stateFile = None /\ edits = 0 => HostPairs \subseteq lost.pairs

\* A legacy lab keeps every container and bridge until it is migrated
\* (README.md 95-96; runtime.go 566-568).
LegacyIsUntouched ==
    IsLegacy(stateFile) =>
        /\ stateFile.containers \subseteq containers
        /\ BridgeLinks(stateFile.digest) \subseteq bridges

\* The state file goes only when the lab is gone: no container, no bridge it
\* records (cleanupRuntime keeps it after any error, runtime.go 630-635).
StateErasedOnlyWhenClean ==
    [][stateFile # None /\ stateFile' = None =>
         /\ containers' = {}
         /\ Recorded(stateFile) \cap bridges' = {}]_vars

\* Generated router configuration, which containers mount, is purged only
\* after the last container and the state file are gone (runtime.go 637-641).
PurgeOnlyWhenStopped ==
    [][labDir /\ ~labDir' => containers = {} /\ stateFile = None]_vars

\* As long as the only commands running are plain ups, a state file on disk
\* stays as it is: they report the conflict (runtime.go 114-121).
PlainUpKeepsState ==
    [][stateFile # None /\ (\A p \in Procs : proc[p].cmd \in {"none", "up"})
         => stateFile' = stateFile]_vars

\* What up publishes is the whole lab: a container for every router, a bridge
\* for every bridge link, and every link's pair with its ends where they
\* belong (runtime.go 154-219, 341-387).
PublishedLabIsWhole ==
    [][stateFile = None /\ stateFile' # None
         /\ (\A p \in Procs : ~proc[p].rollback) =>
       LET t  == stateFile'.digest
           cs == stateFile'.containers
       IN  /\ cs = containers' /\ {c.router : c \in cs} = {t.routers[i] : i \in DOMAIN t.routers}
           /\ stateFile'.bridges = BridgeLinks(t) /\ BridgeLinks(t) \subseteq bridges'
           /\ \A link \in Links(t) : UpVeths(link, cs) \subseteq veths']_vars

\* When the state file goes, the lab's veth pairs have gone from the host
\* ("Remove containers and runtime networking for a lab",
\* cmd/frridge/root.go:50).  Not so after an edit of the YAML.
DownRemovesNetworking ==
    [][stateFile # None /\ stateFile' = None => HostPairs' \subseteq lost'.pairs]_vars

\* Every command ends, whatever fails, is cancelled or is left half-way: no
\* loop of up or of its rollback waits or repeats (runtime.go 103-222, 551-644).
CommandsEnd == \A p \in Procs : ~At(p, "idle") ~> At(p, "idle")

\* A failed cleanup can be retried: once nothing fails any more, a down of a
\* lab with an inventory ends with the lab gone (README.md 114-115).
DownEmptiesLab ==
    \A p \in Procs :
        (/\ faults = MaxFaults /\ At(p, "read") /\ ~proc[p].cancelled
         /\ proc[p].cmd \in {"down", "purge"}
         /\ stateFile # None /\ ~IsLegacy(stateFile))
        ~> (stateFile = None /\ containers = {} /\ bridges \subseteq lost.bridges)
=============================================================================
