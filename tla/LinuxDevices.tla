---------------------------- MODULE LinuxDevices -----------------------------
(***************************************************************************)
(* The `linux:` section of one router: the check of its names              *)
(* (validateLinux, internal/config/config.go) and the devices made of it   *)
(* in the router's namespace (configureLinux, internal/runtime/runtime.go, *)
(* internal/netlink/netlink.go).                                           *)
(*                                                                         *)
(* Both walk the section entry by entry, in different orders.  The check   *)
(* is a set of claims on tables of names, the construction a set of calls  *)
(* on the kernel, made in the order of their places in the walk; a name is *)
(* a device's only while the device is in the router's own namespace.      *)
(* Attributes (addresses, MACs, tables) are well-formed or not.  Names are *)
(* told apart after trimming.                                              *)
(***************************************************************************)
EXTENDS Integers, Sequences, FiniteSets, SequencesExt

CONSTANTS
    Name,        \* device names
    LinkDevice,  \* those of the router's ends of topology links
    Lo,          \* the loopback device
    Namespace,   \* names of namespaces inside the router
    Sections,    \* the `linux:` sections considered
    None         \* no master, no namespace, no device

VARIABLES
    section,     \* the router's section
    stage,       \* "check", "build", or how it ended
    todo,        \* the claims or calls that are left
    claimed,     \* validateLinux's tables
    world        \* the router's devices and namespaces

vars == <<section, stage, todo, claimed, world>>

\* shortName hashes bridge and namespace; hashes are taken to be distinct, and
\* to differ from the names users give.
HostVeth(bridge, ns) == <<"fnh", bridge, ns>>
PeerVeth(bridge, ns) == <<"fnp", bridge, ns>>
AnyName == Name \cup ({"fnh", "fnp"} \X Name \X Namespace)

Vrf       == Name
Bond      == [name : Name, master : Name \cup {None}, ports : Seq(Name)]
Bridge    == [name : Name, master : Name \cup {None}, ports : Seq(Name),
              vxlans : Seq(Name), namespaces : Seq(Namespace)]
Interface == [name : Name, master : Name \cup {None}]
Veth      == [name : Name, peer : Name, master : Name \cup {None},
              namespace : Namespace \cup {None}]
Linux     == [vrfs : Seq(Vrf), bonds : Seq(Bond), interfaces : Seq(Interface),
              veths : Seq(Veth), routes : Seq(Name \cup {None}), bridges : Seq(Bridge)]

ASSUME NameAssumption == Lo \in Name /\ LinkDevice \subseteq Name \ {Lo}
ASSUME LinkAssumption == IsFiniteSet(LinkDevice)
ASSUME HashAssumption == Name \cap ({"fnh", "fnp"} \X Name \X Namespace) = {}
ASSUME NoneAssumption == None \notin AnyName \cup Namespace
ASSUME SectionAssumption == Sections \subseteq Linux

\* What a walk does stands at a place: the loop over the section, its turn, the
\* inner loop, its turn; and it is a step there.  Loops that claim devices have
\* the numbers of those that make them: 1 VRFs, 2 bonds, 3 and 7 interfaces,
\* 5 bridges, 6 the bonds' masters, 4 and 8 veths, 9 routes.
Before(c, d) ==
    \/ \E n \in 1..4 : c.at[n] < d.at[n] /\ \A m \in 1..(n - 1) : c.at[m] = d.at[m]
    \/ c.at = d.at /\ c.step < d.step

First(c, todos) == c \in todos /\ \A d \in todos \ {c} : Before(c, d)

Each(entries(_, _), seq) == UNION {entries(i, seq[i]) : i \in DOMAIN seq}
When(condition, set) == IF condition THEN set ELSE {}

-----------------------------------------------------------------------------
(* validateLinux, as the claims it makes.                                  *)

Tables == {"device", "master", "interface", "peer", "namespace"}

Claim(at, step, table, name, to) ==
    {[at |-> at, step |-> step, table |-> table, name |-> name, to |-> to]}
Device(at, step, name) == Claim(at, step, "device", name, None)

\* Mutant: an empty master is claimed like any other.
MasterAnyway(at, step, link, master) == Claim(at, step, "master", link, master)

Master(at, step, link, master) ==
    When(master # None, Claim(at, step, "master", link, master))

VrfClaims(i, name) == Device(<<1, i, 0, 0>>, 1, name)

BondClaims(i, b) ==
    Device(<<2, i, 0, 0>>, 1, b.name) \cup Master(<<2, i, 0, 0>>, 2, b.name, b.master)
      \cup Each(LAMBDA j, port : Master(<<2, i, 1, j>>, 1, port, b.name), b.ports)

InterfaceClaims(i, f) ==
    Claim(<<3, i, 0, 0>>, 1, "interface", f.name, None)
      \cup Master(<<3, i, 0, 0>>, 2, f.name, f.master)

\* The two ends differ, and no two pairs have a peer of the same name.
VethClaims(i, v) ==
    Claim(<<4, i, 0, 0>>, 1, "peer", v.peer, v.name)
      \cup Master(<<4, i, 0, 0>>, 2, v.name, v.master)
      \cup When(v.namespace # None, Claim(<<4, i, 0, 0>>, 3, "namespace", v.namespace, None))

VxlanClaims(i, j, name, bridge) ==
    Device(<<5, i, 2, j>>, 1, name) \cup Master(<<5, i, 2, j>>, 2, name, bridge)

\* Mutant: the ports of a bridge are not claimed.
BridgeAloneClaims(i, b) ==
    Device(<<5, i, 0, 0>>, 1, b.name) \cup Master(<<5, i, 0, 0>>, 2, b.name, b.master)
      \cup Each(LAMBDA j, x : VxlanClaims(i, j, x, b.name), b.vxlans)
      \cup Each(LAMBDA j, ns : Claim(<<5, i, 3, j>>, 1, "namespace", ns, None), b.namespaces)

BridgeClaims(i, b) ==
    Device(<<5, i, 0, 0>>, 1, b.name) \cup Master(<<5, i, 0, 0>>, 2, b.name, b.master)
      \cup Each(LAMBDA j, port : Master(<<5, i, 1, j>>, 1, port, b.name), b.ports)
      \cup Each(LAMBDA j, x : VxlanClaims(i, j, x, b.name), b.vxlans)
      \cup Each(LAMBDA j, ns : Claim(<<5, i, 3, j>>, 1, "namespace", ns, None), b.namespaces)

\* Mutant: only the near end is claimed.
VethNearDevice(i, v) == Device(<<8, i, 0, 0>>, 1, v.name)
\* Mutant: a peer keeps its name when it moves to a namespace.
VethBothDevices(i, v) == Device(<<8, i, 0, 0>>, 1, v.name) \cup Device(<<8, i, 0, 0>>, 2, v.peer)

\* Last, since veths are made last; a peer that moves frees its name.
VethDevices(i, v) ==
    Device(<<8, i, 0, 0>>, 1, v.name) \cup Device(<<8, i, 0, 0>>, 2, v.peer)
      \cup When(v.namespace # None, Claim(<<8, i, 0, 0>>, 3, "free", v.peer, None))

ClaimsOf(s) ==
    Each(VrfClaims, s.vrfs) \cup Each(BondClaims, s.bonds)
      \cup Each(InterfaceClaims, s.interfaces) \cup Each(VethClaims, s.veths)
      \cup Each(BridgeClaims, s.bridges) \cup Each(VethDevices, s.veths)

Conflicts(c) ==
    /\ c.table # "free"
    /\ \/ c.name \in claimed[c.table]
       \/ c.table = "peer" /\ c.name = c.to

-----------------------------------------------------------------------------
(* The kernel: the router's namespace and those in it.                     *)

Kinds == {"loopback", "link", "vrf", "bond", "bridge", "vxlan", "veth"}

DeviceAt(name, kind, mate) ==
    [name |-> name, kind |-> kind, home |-> None, master |-> 0, mate |-> mate]

\* The device of that name in the router's own namespace, 0 if there is none.
Find(w, name) ==
    LET found == {i \in DOMAIN w.devices :
                    w.devices[i].name = name /\ w.devices[i].home = None}
    IN  IF found = {} THEN 0 ELSE CHOOSE i \in found : TRUE

\* Which calls the kernel can do.  It refuses a master that is not one.
CanDo(call, w) ==
    CASE call.op = "add"     -> Find(w, call.name) = 0
      [] call.op = "addveth" -> /\ Find(w, call.name) = 0 /\ Find(w, call.arg) = 0
                                /\ call.name # call.arg
      [] call.op = "find"    -> Find(w, call.name) # 0
      [] call.op = "enslave" ->
           /\ Find(w, call.name) # 0 /\ Find(w, call.arg) # 0 /\ call.name # call.arg
           /\ w.devices[Find(w, call.arg)].kind \in {"vrf", "bond", "bridge"}
      [] call.op = "netns"   -> call.name \notin w.namespaces
      [] call.op = "move"    -> Find(w, call.name) # 0 /\ call.arg \in w.namespaces

\* A device has one master: a new one takes it from the old one, without an
\* error.
After(call, w) ==
    LET n == Len(w.devices)
    IN  CASE call.op = "add" ->
               [w EXCEPT !.devices = Append(@, DeviceAt(call.name, call.arg, 0))]
          [] call.op = "addveth" ->
               [w EXCEPT !.devices = @ \o <<DeviceAt(call.name, "veth", n + 2),
                                            DeviceAt(call.arg, "veth", n + 1)>>]
          [] call.op = "find" -> w
          [] call.op = "enslave" ->
               [w EXCEPT !.devices[Find(w, call.name)].master = Find(w, call.arg)]
          [] call.op = "netns" -> [w EXCEPT !.namespaces = @ \cup {call.name}]
          [] call.op = "move" ->
               [w EXCEPT !.devices[Find(w, call.name)].home = call.arg,
                         !.devices[Find(w, call.name)].master = 0]

-----------------------------------------------------------------------------
(* configureLinux, as the calls it makes.                                  *)

Call(at, step, op, name, arg) ==
    {[at |-> at, step |-> step, op |-> op, name |-> name, arg |-> arg]}

\* configureLink: the device has to be there.
Configure(at, name, master) ==
    Call(at, 2, "find", name, None)
      \cup When(master # None, Call(at, 3, "enslave", name, master))

\* configureLinuxNamespacePeer.
MovePeer(at, peer, ns) == Call(at, 4, "netns", ns, None) \cup Call(at, 5, "move", peer, ns)

VrfCalls(i, name) ==
    Call(<<1, i, 0, 0>>, 1, "add", name, "vrf") \cup Configure(<<1, i, 0, 0>>, name, None)

\* A bond's own master waits until the bridges are there.
BondCalls(i, b) ==
    Call(<<2, i, 0, 0>>, 1, "add", b.name, "bond")
      \cup Configure(<<2, i, 0, 0>>, b.name, None)
      \cup Each(LAMBDA j, port : Call(<<2, i, 1, j>>, 1, "enslave", port, b.name), b.ports)

VxlanCalls(at, name, bridge) ==
    Call(at, 1, "add", name, "vxlan") \cup Configure(at, name, bridge)

BridgeNamespaceCalls(at, bridge, ns) ==
    Call(at, 1, "addveth", HostVeth(bridge, ns), PeerVeth(bridge, ns))
      \cup Configure(at, HostVeth(bridge, ns), bridge) \cup MovePeer(at, PeerVeth(bridge, ns), ns)

BridgeCalls(i, b) ==
    Call(<<5, i, 0, 0>>, 1, "add", b.name, "bridge")
      \cup Configure(<<5, i, 0, 0>>, b.name, b.master)
      \cup Each(LAMBDA j, port : Call(<<5, i, 1, j>>, 1, "enslave", port, b.name), b.ports)
      \cup Each(LAMBDA j, x : VxlanCalls(<<5, i, 2, j>>, x, b.name), b.vxlans)
      \cup Each(LAMBDA j, ns : BridgeNamespaceCalls(<<5, i, 3, j>>, b.name, ns), b.namespaces)

BondMasterCalls(i, b) ==
    When(b.master # None, Call(<<6, i, 0, 0>>, 1, "enslave", b.name, b.master))
InterfaceCalls(i, f) == Configure(<<7, i, 0, 0>>, f.name, f.master)

\* Mutant: the end that is configured is the one that moves.
VethNearCalls(i, v) ==
    Call(<<8, i, 0, 0>>, 1, "addveth", v.name, v.peer)
      \cup Configure(<<8, i, 0, 0>>, v.name, v.master)
      \cup When(v.namespace # None, MovePeer(<<8, i, 0, 0>>, v.name, v.namespace))

VethCalls(i, v) ==
    Call(<<8, i, 0, 0>>, 1, "addveth", v.name, v.peer)
      \cup Configure(<<8, i, 0, 0>>, v.name, v.master)
      \cup When(v.namespace # None, MovePeer(<<8, i, 0, 0>>, v.peer, v.namespace))

RouteCalls(i, dev) == When(dev # None, Call(<<9, i, 0, 0>>, 2, "find", dev, None))

CallsOf(s) ==
    Each(VrfCalls, s.vrfs) \cup Each(BondCalls, s.bonds) \cup Each(BridgeCalls, s.bridges)
      \cup Each(BondMasterCalls, s.bonds) \cup Each(InterfaceCalls, s.interfaces)
      \cup Each(VethCalls, s.veths) \cup Each(RouteCalls, s.routes)

-----------------------------------------------------------------------------
(* The specification.                                                      *)

NoClaims == [table \in Tables |-> {}]

\* The loopback and the ends of links are there first, with their names.
Start == [devices |-> <<DeviceAt(Lo, "loopback", 0)>>
                        \o SetToSeq({DeviceAt(n, "link", 0) : n \in LinkDevice}),
          namespaces |-> {}]

Init ==
    /\ section \in Sections
    /\ stage = "check"
    /\ todo = ClaimsOf(section)
    /\ claimed = [NoClaims EXCEPT !["device"] = {Lo} \cup LinkDevice]
    /\ world = Start

\* Next claim.
MakeClaim ==
    /\ stage = "check"
    /\ \E c \in todo :
         /\ First(c, todo) /\ ~Conflicts(c)
         /\ claimed' = IF c.table = "free"
                       THEN [claimed EXCEPT !["device"] = @ \ {c.name}]
                       ELSE [claimed EXCEPT ![c.table] = @ \cup {c.name}]
         /\ todo' = todo \ {c}
    /\ UNCHANGED <<section, stage, world>>

Return(result) == stage' = result /\ todo' = {} /\ claimed' = NoClaims

\* The section is rejected for a name that is taken, or an attribute that is
\* not well-formed.
Reject ==
    /\ stage = "check" /\ todo # {}
    /\ \/ \E c \in todo : First(c, todo) /\ Conflicts(c) /\ Return(c.table)
       \/ Return("malformed")
    /\ UNCHANGED <<section, world>>

\* up builds what Validate let pass, after the containers and the links.
Accept ==
    /\ stage = "check" /\ todo = {}
    /\ stage' = "build" /\ todo' = CallsOf(section) /\ claimed' = NoClaims
    /\ UNCHANGED <<section, world>>

MakeCall ==
    /\ stage = "build"
    /\ \E c \in todo :
         First(c, todo) /\ CanDo(c, world) /\ world' = After(c, world) /\ todo' = todo \ {c}
    /\ UNCHANGED <<section, stage, claimed>>

\* Any call may fail; up rolls the whole lab back, the container with all its
\* devices first.
FailCall ==
    /\ stage = "build" /\ todo # {}
    /\ Return("failed") /\ world' = Start
    /\ UNCHANGED section

Finish ==
    /\ stage = "build" /\ todo = {}
    /\ Return("built")
    /\ UNCHANGED <<section, world>>

Next == MakeClaim \/ Reject \/ Accept \/ MakeCall \/ FailCall \/ Finish

Spec == Init /\ [][Next]_vars

-----------------------------------------------------------------------------
(* Properties.                                                             *)

\* Types; a claim on a master names one, and the masters and mates of devices
\* are devices of the namespace they are in.
TypeOK ==
    /\ section \in Linux
    /\ stage \in {"check", "build", "built", "failed", "malformed"} \cup Tables
    /\ stage = "check" => \A c \in todo :
         /\ c.table \in Tables \cup {"free"} /\ c.name \in Name \cup Namespace
         /\ c.table \in {"master", "peer"} <=> c.to \in Name
    /\ claimed \in [Tables -> SUBSET (Name \cup Namespace)]
    /\ world.namespaces \in SUBSET Namespace
    /\ \A i \in DOMAIN world.devices :
         LET d == world.devices[i]
         IN  /\ d.name \in AnyName /\ d.kind \in Kinds /\ d.home \in world.namespaces \cup {None}
             /\ d.master \in 0..Len(world.devices) /\ d.mate \in 0..Len(world.devices)
             /\ d.master # 0 => world.devices[d.master].home = d.home
             /\ d.mate # 0 => world.devices[d.mate].mate = i

\* The construction of a section that passed the check never meets a name
\* that is taken, though the check claims names in another order than the
\* construction makes and moves devices ("frees those peer names in the router
\* namespace", config.go 766-778; runtime.go 399-495).
AcceptedNamesAreFree ==
    stage = "build" =>
      \A c \in todo : First(c, todo) =>
        /\ c.op \in {"add", "addveth"} => Find(world, c.name) = 0
        /\ c.op = "addveth" => Find(world, c.arg) = 0 /\ c.name # c.arg
        /\ c.op = "netns" => c.name \notin world.namespaces

\* Every `master:` and every port of a section, as <<device, master>>.
MastersOf(s) ==
    LET entry(x) == {<<x.name, x.master>>} \cap (Name \X Name)
        ports(x) == Each(LAMBDA j, port : {<<port, x.name>>}, x.ports)
    IN  Each(LAMBDA i, b : entry(b) \cup ports(b), s.bonds)
        \cup Each(LAMBDA i, b : entry(b) \cup ports(b), s.bridges)
        \cup Each(LAMBDA i, f : entry(f), s.interfaces)
        \cup Each(LAMBDA i, v : entry(v), s.veths)

\* What was built has every device under the master the section gives it: no
\* later entry took it away, which the kernel would do without an error
\* (claimLinuxMaster, config.go 788-808).
MastersAsDeclared ==
    stage = "built" =>
      \A pair \in MastersOf(section) :
        LET d == Find(world, pair[1])
        IN  d # 0 /\ world.devices[d].master # 0
            /\ world.devices[world.devices[d].master].name = pair[2]

\* The namespaces of a section, each with the router's end of its pair.
NamespacesOf(s) ==
    LET hosts(b) == Each(LAMBDA j, ns : {<<HostVeth(b.name, ns), ns>>}, b.namespaces)
    IN  Each(LAMBDA i, b : hosts(b), s.bridges)
        \cup Each(LAMBDA i, v : When(v.namespace # None, {<<v.name, v.namespace>>}), s.veths)

\* Each namespace holds one device, the other end of the pair whose end in the
\* router carries the name the section gave: a peer's name may be another
\* device's by now (runtime.go 463-495).
NamespacesHoldTheirPeers ==
    stage = "built" =>
      \A pair \in NamespacesOf(section) :
        LET d == Find(world, pair[1])
        IN  d # 0 /\ {i \in DOMAIN world.devices : world.devices[i].home = pair[2]}
                       = {world.devices[d].mate}

\* The whole construction at once.
Broken == [devices |-> <<>>, namespaces |-> {}]
BuildAll(s) ==
    LET build[done \in SUBSET CallsOf(s)] ==
          IF done = {} THEN Start
          ELSE LET last == CHOOSE c \in done : \A d \in done \ {c} : Before(d, c)
                   w == build[done \ {last}]
               IN  IF w # Broken /\ CanDo(last, w) THEN After(last, w) ELSE Broken
    IN  build[CallsOf(s)]

\* A section is rejected for a device or a namespace only if it could not be
\* built: the check is not stricter than the kernel about them.
RejectedNamesCollide == stage \in {"device", "namespace"} => BuildAll(section) = Broken
=============================================================================
