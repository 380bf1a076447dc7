------------------------- MODULE LabLifecycleProofs -------------------------
(***************************************************************************)
(* Theorems about LabLifecycle, for every lab, topology, set of commands   *)
(* and bound: its types for any number of commands; for commands that run  *)
(* one at a time, that every bridge is accounted for and that unknown      *)
(* containers stay; and what cleanups that run at once leave behind.       *)
(***************************************************************************)
EXTENDS LabRefinement, TLAPS

-----------------------------------------------------------------------------
(* What a process may become.                                              *)

\* A process that takes well-typed local variables leaves the others alone.
LEMMA BecomeKeepsTypes ==
  ASSUME ProcsOK, NEW p \in Procs, NEW s \in Process, HoldsOK(s), Become(p, s)
  PROVE  ProcsOK'
  BY DEF ProcsOK, Become, HoldsOK

\* A command that ended has no topology, no snapshot and no index to hold.
LEMMA IdleIsProcess == Idle \in Process /\ HoldsOK(Idle)
  BY DEF Idle, Process, Steps, UpSteps, CleanupSteps, HoldsOK

LEMMA EndKeepsTypes ==
  ASSUME ProcsOK, NEW p \in Procs, End(p)
  PROVE  ProcsOK'
  BY IdleIsProcess, BecomeKeepsTypes DEF End

LEMMA GotoKeepsTypes ==
  ASSUME ProcsOK, NEW p \in Procs, NEW step \in Steps, Goto(p, step),
         HoldsOK([proc[p] EXCEPT !.pc = step])
  PROVE  ProcsOK'
  <1>1. [proc[p] EXCEPT !.pc = step] \in Process BY DEF ProcsOK, Process
  <1> QED BY <1>1, BecomeKeepsTypes DEF Goto

\* up's rollback starts from any call, with the snapshot it is given.
LEMMA RollBackKeepsTypes ==
  ASSUME ProcsOK, NEW p \in Procs, NEW s \in Inventory,
         ~At(p, "idle"), RollBack(p, s)
  PROVE  ProcsOK'
  <1> DEFINE t == [proc[p] EXCEPT !.pc = "list", !.rollback = TRUE, !.snapshot = s]
  <1>1. t \in Process BY ZenonT(60) DEF ProcsOK, Process, Steps, CleanupSteps
  <1>2. HoldsOK(t) BY DEF ProcsOK, HoldsOK, At, Process
  <1> QED BY <1>1, <1>2, BecomeKeepsTypes DEF RollBack

\* What Config.Validate guarantees of a topology.
LEMMA TopologyFacts ==
  ASSUME NEW t \in Topologies
  PROVE  /\ t.routers \in Seq(Router) /\ Len(t.routers) >= 1
         /\ t.links \in Seq(LinkDef)
         /\ \A i \in 1..Len(t.links) :
              /\ t.links[i] \in LinkDef /\ Len(t.links[i].members) \in Nat
              /\ t.links[i].type = "bridge" => Len(t.links[i].members) >= 2
              /\ t.links[i].type = "p2p" => Len(t.links[i].members) = 2
  <1>1. ValidTopology(t) BY TopologyAssumption
  <1>2. t \in Topology /\ Len(t.routers) > 0 BY <1>1 DEF ValidTopology
  <1>3. t.routers \in Seq(Router) /\ t.links \in Seq(LinkDef) BY <1>2 DEF Topology
  <1>4. Len(t.routers) >= 1 BY <1>2, <1>3
  <1>5. DOMAIN t.links = 1..Len(t.links) BY <1>3
  <1>6. \A i \in 1..Len(t.links) :
          t.links[i] \in LinkDef /\ Len(t.links[i].members) \in Nat
    <2>1. \A i \in 1..Len(t.links) : t.links[i] \in LinkDef BY <1>3
    <2>2. ASSUME NEW k \in LinkDef PROVE Len(k.members) \in Nat
      <3>1. k.members \in Seq(Port) BY DEF LinkDef
      <3> QED BY <3>1
    <2> QED BY <2>1, <2>2
  <1>7. \A i \in DOMAIN t.links :
          /\ t.links[i].type = "bridge" => Len(t.links[i].members) >= 2
          /\ t.links[i].type = "p2p" => Len(t.links[i].members) = 2
    BY <1>1 DEF ValidTopology
  <1> QED BY <1>3, <1>4, <1>5, <1>6, <1>7

LEMMA BridgeLinksFact ==
  ASSUME NEW t \in Topologies PROVE BridgeLinks(t) \subseteq LinkName
  <1>1. DOMAIN t.links = 1..Len(t.links) BY TopologyFacts
  <1>2. Links(t) \subseteq LinkDef BY <1>1, TopologyFacts DEF Links
  <1> QED BY <1>2 DEF BridgeLinks, LinkDef

\* Alive names a namespace by a number.
LEMMA AliveIsNat ==
  ASSUME containers \in SUBSET Container, NEW id, Alive(id) PROVE id \in Nat
  BY DEF Alive, Container, Host

-----------------------------------------------------------------------------
(* Each action keeps TypeOK.                                               *)

LEMMA BeginType ==
  ASSUME TypeOK, NEW p \in Procs, NEW cmd \in Commands, Begin(p, cmd)
  PROVE  TypeOK'
  <1> DEFINE t == [Idle EXCEPT !.pc = FirstStep(cmd), !.cmd = cmd, !.topo = yaml]
  <1>1. SharedTypeOK' BY DEF Begin, TypeOK, SharedTypeOK, host, disk
  <1>2. FirstStep(cmd) \in {"stat", "migrate", "read"} BY DEF FirstStep
  <1>3. t \in Process
    <2>1. FirstStep(cmd) \in Steps BY <1>2 DEF Steps, CleanupSteps
    <2>2. cmd \in AllCommands BY BoundAssumption
    <2>3. yaml \in Topologies BY DEF TypeOK, SharedTypeOK
    <2> QED BY <2>1, <2>2, <2>3, IdleIsProcess DEF Process
  <1>4. HoldsOK(t) BY <1>2 DEF TypeOK, SharedTypeOK, Idle, HoldsOK
  <1> QED BY <1>1, <1>3, <1>4, BecomeKeepsTypes DEF TypeOK, Begin

LEMMA CancelType == ASSUME TypeOK, NEW p \in Procs, Cancel(p) PROVE TypeOK'
  <1> DEFINE t == [proc[p] EXCEPT !.cancelled = TRUE]
  <1>1. SharedTypeOK' BY DEF Cancel, TypeOK, SharedTypeOK, user, host, disk, Fault
  <1>2. t \in Process /\ HoldsOK(t) BY ZenonT(60) DEF TypeOK, ProcsOK, Process, HoldsOK
  <1> QED BY <1>1, <1>2, BecomeKeepsTypes DEF TypeOK, Cancel

LEMMA ForgetType ==
  ASSUME SharedTypeOK, Forget
  PROVE  lost' \in [containers : SUBSET Container, bridges : SUBSET LinkName,
                    pairs : SUBSET (LinkName \X (Port \cup {"p2p"}))]
  <1>1. HostPairs \subseteq LinkName \X (Port \cup {"p2p"})
    BY DEF SharedTypeOK, HostPairs, InHost, Veth
  <1> QED BY <1>1 DEF Forget, SharedTypeOK

LEMMA KillType == ASSUME TypeOK, NEW p \in Procs, Kill(p) PROVE TypeOK'
  <1>1. SharedTypeOK'
    BY ForgetType DEF Kill, TypeOK, SharedTypeOK, user, host, disk, Fault
  <1> QED BY <1>1, EndKeepsTypes DEF TypeOK, Kill

LEMMA UserType ==
  ASSUME TypeOK, EditYaml \/ OperatorRemove
  PROVE  TypeOK'
  <1>1. CASE EditYaml
    BY <1>1 DEF EditYaml, TypeOK, SharedTypeOK, ProcsOK, host, disk
  <1>2. CASE OperatorRemove
    <2>1. SharedTypeOK'
      BY <1>2 DEF OperatorRemove, TypeOK, SharedTypeOK, user, disk, WithoutContainer
    <2> QED BY <1>2, <2>1 DEF OperatorRemove, TypeOK, ProcsOK
  <1> QED BY <1>1, <1>2

LEMMA StatStateType == ASSUME TypeOK, NEW p \in Procs, StatState(p) PROVE TypeOK'
  <1>1. SharedTypeOK' BY DEF StatState, TypeOK, SharedTypeOK, user, host, disk, Fault
  <1>2. CASE End(p) BY <1>1, <1>2, EndKeepsTypes DEF TypeOK
  <1>3. CASE Goto(p, "exists")
    <2>1. "exists" \in Steps /\ HoldsOK([proc[p] EXCEPT !.pc = "exists"])
      BY DEF StatState, At, TypeOK, ProcsOK, HoldsOK, Process, Steps
    <2> QED BY <1>1, <1>3, <2>1, GotoKeepsTypes DEF TypeOK
  <1> QED BY <1>2, <1>3 DEF StatState

LEMMA ListExistingType ==
  ASSUME TypeOK, NEW p \in Procs, ListExisting(p) PROVE TypeOK'
  <1>1. SharedTypeOK'
    BY DEF ListExisting, TypeOK, SharedTypeOK, user, host, disk, DockerFault, Fault
  <1>2. CASE End(p) BY <1>1, <1>2, EndKeepsTypes DEF TypeOK
  <1>3. CASE Goto(p, "mkdir")
    <2>1. "mkdir" \in Steps /\ HoldsOK([proc[p] EXCEPT !.pc = "mkdir"])
      BY DEF ListExisting, At, TypeOK, ProcsOK, HoldsOK, Process, Steps, UpSteps
    <2> QED BY <1>1, <1>3, <2>1, GotoKeepsTypes DEF TypeOK
  <1> QED BY <1>2, <1>3 DEF ListExisting

LEMMA OpenSnapshotType ==
  ASSUME TypeOK, NEW p \in Procs, OpenSnapshot(p) PROVE TypeOK'
  <1> DEFINE empty == [containers |-> {}, bridges |-> {}, legacy |-> FALSE,
                       digest |-> proc[p].topo]
             t == [proc[p] EXCEPT !.pc = "create", !.r = 1, !.l = 1, !.m = 0,
                                  !.snapshot = empty]
  <1>1. SharedTypeOK'
    <2>1. labDir' \in BOOLEAN BY DEF OpenSnapshot, TypeOK, SharedTypeOK
    <2> QED BY <2>1 DEF OpenSnapshot, TypeOK, SharedTypeOK, user, host, Fault
  <1>2. CASE End(p) BY <1>1, <1>2, EndKeepsTypes DEF TypeOK
  <1>3. CASE Become(p, t)
    <2>1. proc[p].topo \in Topologies BY DEF OpenSnapshot, At, TypeOK, ProcsOK, HoldsOK
    <2>2. empty \in Inventory BY <2>1 DEF Inventory
    <2>3. Len(proc[p].topo.routers) >= 1 BY <2>1, TopologyFacts
    <2>4. t \in Process
      <3>1. proc[p] \in Process BY DEF TypeOK, ProcsOK
      <3>2. "create" \in Steps BY DEF Steps, UpSteps
      <3> HIDE DEF empty
      <3> QED BY <2>2, <3>1, <3>2 DEF Process
    <2>5. HoldsOK(t)
      <3>1. /\ proc[p] \in Process /\ HoldsOK(proc[p]) /\ proc[p].pc = "mkdir"
        BY DEF OpenSnapshot, At, TypeOK, ProcsOK
      <3> HIDE DEF empty
      <3> QED BY <2>1, <2>2, <2>3, <3>1 DEF Process, HoldsOK
    <2> QED BY <1>1, <1>3, <2>4, <2>5, BecomeKeepsTypes DEF TypeOK
  <1> QED BY <1>2, <1>3 DEF OpenSnapshot

LEMMA CreateContainerType ==
  ASSUME TypeOK, NEW p \in Procs, CreateContainer(p) PROVE TypeOK'
  <1> DEFINE new == [id |-> nextId, router |-> proc[p].topo.routers[proc[p].r]]
             recorded == [proc[p].snapshot EXCEPT !.containers = @ \cup {new}]
             t == [proc[p] EXCEPT !.pc = "boot", !.snapshot = recorded]
  <1>1. /\ proc[p] \in Process /\ HoldsOK(proc[p]) /\ proc[p].pc = "create"
        /\ proc[p].topo \in Topologies /\ proc[p].snapshot \in Inventory
        /\ proc[p].r \in 1..Len(proc[p].topo.routers)
    BY DEF CreateContainer, At, TypeOK, ProcsOK, HoldsOK, Process
  <1>2. new \in Container
    <2>1. proc[p].topo.routers[proc[p].r] \in Router BY <1>1, TopologyFacts
    <2> QED BY <2>1 DEF TypeOK, SharedTypeOK, Container
  <1>3. SharedTypeOK'
    <2>1. /\ \/ containers' = containers \cup {new} /\ nextId' = nextId + 1
             \/ UNCHANGED <<containers, nextId>>
          /\ faults' = faults \/ faults' = faults + 1
          /\ UNCHANGED <<user, bridges, veths, disk, lost>>
      BY DEF CreateContainer, DockerFault, Fault
    <2> HIDE DEF new
    <2> QED BY <1>2, <2>1 DEF TypeOK, SharedTypeOK, user, disk
  <1>4. CASE RollBack(p, proc[p].snapshot)
    BY <1>1, <1>3, <1>4, RollBackKeepsTypes DEF TypeOK, At
  <1>5. CASE Become(p, t)
    <2>1. recorded \in Inventory BY <1>1, <1>2 DEF Inventory
    <2>2. "boot" \in Steps BY DEF Steps, UpSteps
    <2> HIDE DEF recorded
    <2>3. t \in Process BY <1>1, <2>1, <2>2 DEF Process
    <2>4. HoldsOK(t) BY <1>1, <2>1 DEF HoldsOK, Process
    <2> QED BY <1>3, <1>5, <2>3, <2>4, BecomeKeepsTypes DEF TypeOK
  <1> QED BY <1>4, <1>5 DEF CreateContainer

LEMMA BootContainerType ==
  ASSUME TypeOK, NEW p \in Procs, BootContainer(p) PROVE TypeOK'
  <1> DEFINE t == [proc[p] EXCEPT !.pc = "create", !.r = @ + 1]
             more == proc[p].r < Len(proc[p].topo.routers)
  <1>1. /\ proc[p] \in Process /\ HoldsOK(proc[p]) /\ proc[p].pc = "boot"
        /\ proc[p].topo \in Topologies
    BY DEF BootContainer, At, TypeOK, ProcsOK, HoldsOK
  <1>2. SharedTypeOK'
    BY DEF BootContainer, TypeOK, SharedTypeOK, user, host, disk, DockerFault, Fault
  <1>3. CASE RollBack(p, proc[p].snapshot)
    BY <1>1, <1>2, <1>3, RollBackKeepsTypes DEF BootContainer, TypeOK, At, HoldsOK
  <1>4. CASE more /\ Become(p, t)
    <2>1. "create" \in Steps BY DEF Steps, UpSteps
    <2>2. proc[p].r \in Nat BY <1>1 DEF Process
    <2>3. proc[p].r + 1 \in Nat BY <2>2
    <2>4. t \in Process BY <1>1, <2>1, <2>3 DEF Process
    <2>5. HoldsOK(t) BY <1>1, <1>4, TopologyFacts DEF HoldsOK, Process
    <2> QED BY <1>2, <1>4, <2>4, <2>5, BecomeKeepsTypes DEF TypeOK
  <1>5. CASE Goto(p, "links")
    <2>1. "links" \in Steps /\ HoldsOK([proc[p] EXCEPT !.pc = "links"])
      BY <1>1, TopologyFacts DEF HoldsOK, Process, Steps, UpSteps
    <2> QED BY <1>2, <1>5, <2>1, GotoKeepsTypes DEF TypeOK
  <1> QED BY <1>3, <1>4, <1>5 DEF BootContainer

\* While the links are configured, the current link is one of the topology's.
LEMMA LinksFacts ==
  ASSUME TypeOK, NEW p \in Procs, At(p, "links"), MoreLinks(p)
  PROVE  /\ proc[p] \in Process /\ HoldsOK(proc[p])
         /\ proc[p].topo \in Topologies /\ proc[p].snapshot \in Inventory
         /\ proc[p].l \in 1..Len(proc[p].topo.links)
         /\ Link(p) \in LinkDef /\ Len(Link(p).members) \in Nat
         /\ Link(p).members \in Seq(Port)
         /\ Link(p).type = "bridge" => Len(Link(p).members) >= 2
         /\ proc[p].m <= Len(Link(p).members)
  <1>1. /\ proc[p] \in Process /\ HoldsOK(proc[p])
        /\ proc[p].topo \in Topologies /\ proc[p].snapshot \in Inventory
    BY DEF TypeOK, ProcsOK, At, HoldsOK
  <1>2. proc[p].l \in Nat BY <1>1 DEF Process
  <1>3. Len(proc[p].topo.links) \in Nat BY <1>1, TopologyFacts
  <1>4. proc[p].l \in 1..Len(proc[p].topo.links)
    BY <1>1, <1>2, <1>3 DEF HoldsOK, MoreLinks
  <1>5. /\ Link(p) \in LinkDef /\ Len(Link(p).members) \in Nat
        /\ Link(p).type = "bridge" => Len(Link(p).members) >= 2
    BY <1>1, <1>4, TopologyFacts DEF Link
  <1>6. Link(p).members \in Seq(Port) BY <1>5 DEF LinkDef
  <1>7. proc[p].m <= Len(Link(p).members)
    BY <1>1 DEF HoldsOK, At, MoreLinks, Link
  <1> QED BY <1>1, <1>4, <1>5, <1>6, <1>7

LEMMA EnsureBridgeType ==
  ASSUME TypeOK, NEW p \in Procs, EnsureBridge(p) PROVE TypeOK'
  <1> DEFINE recorded == [proc[p].snapshot EXCEPT !.bridges = @ \cup {Link(p).name}]
             t == [proc[p] EXCEPT !.snapshot = recorded, !.m = 1]
  <1>1. At(p, "links") /\ MoreLinks(p) /\ Link(p).type = "bridge"
    BY DEF EnsureBridge
  <1>2. Link(p).name \in LinkName BY <1>1, LinksFacts DEF LinkDef
  <1>3. recorded \in Inventory BY <1>1, <1>2, LinksFacts DEF Inventory
  <1>4. SharedTypeOK'
    BY <1>2 DEF EnsureBridge, TypeOK, SharedTypeOK, user, disk, Fault
  <1> HIDE DEF recorded
  <1>5. CASE RollBack(p, recorded)
    BY <1>1, <1>3, <1>4, <1>5, RollBackKeepsTypes DEF TypeOK, At
  <1>6. CASE Become(p, t)
    <2>1. t \in Process BY <1>1, <1>3, LinksFacts DEF Process
    <2>2. HoldsOK(t)
      <3>1. proc[p].pc = "links" BY <1>1 DEF At
      <3> QED BY <1>1, <1>3, <3>1, LinksFacts DEF HoldsOK, Process, Link
    <2> QED BY <1>4, <1>6, <2>1, <2>2, BecomeKeepsTypes DEF TypeOK
  <1> QED BY <1>5, <1>6 DEF EnsureBridge, recorded

\* A step of the member and link loops keeps their indices in bounds.
LEMMA NextMemberType ==
  ASSUME TypeOK, NEW p \in Procs, At(p, "links"), MoreLinks(p), NextMember(p)
  PROVE  ProcsOK'
  <1> DEFINE s == [proc[p] EXCEPT !.m = @ + 1]
             t == [proc[p] EXCEPT !.m = 0, !.l = @ + 1]
             more == Link(p).type = "bridge" /\ proc[p].m < Len(Link(p).members)
  <1>1. proc[p].pc = "links" BY DEF At
  <1>2. proc[p].m \in Nat /\ proc[p].l \in Nat /\ proc[p].l >= 1
    BY LinksFacts DEF Process, HoldsOK
  <1>3. CASE more /\ Become(p, s)
    <2>1. proc[p].m + 1 \in Nat /\ proc[p].m + 1 <= Len(Link(p).members)
      BY <1>2, <1>3, LinksFacts
    <2>2. s \in Process BY <2>1, LinksFacts DEF Process
    <2>3. HoldsOK(s) BY <1>1, <2>1, LinksFacts DEF HoldsOK, Process, Link
    <2> QED BY <1>3, <2>2, <2>3, BecomeKeepsTypes DEF TypeOK
  <1>4. CASE ~more /\ Become(p, t)
    <2>1. proc[p].l + 1 \in Nat /\ proc[p].l + 1 >= 1 BY <1>2
    <2>2. t \in Process BY <2>1, LinksFacts DEF Process
    <2>3. HoldsOK(t)
      <3>1. t.topo = proc[p].topo /\ t.l = proc[p].l + 1 /\ t.m = 0 /\ t.pc = "links"
            /\ t.snapshot = proc[p].snapshot /\ t.r = proc[p].r
        BY <1>1, LinksFacts DEF Process
      <3>2. t.l <= Len(t.topo.links) => t.m <= Len(t.topo.links[t.l].members)
        BY <2>1, <3>1, LinksFacts, TopologyFacts
      <3> QED BY <2>1, <3>1, <3>2, LinksFacts DEF HoldsOK
    <2> QED BY <1>4, <2>2, <2>3, BecomeKeepsTypes DEF TypeOK
  <1> QED BY <1>3, <1>4 DEF NextMember

LEMMA AttachType ==
  ASSUME TypeOK, NEW p \in Procs, At(p, "links"), MoreLinks(p),
         NEW pair \in LinkName \X (Port \cup {"p2p"}), NEW stages, NEW ready,
         Attach(p, pair, stages, ready)
  PROVE  TypeOK'
  <1> DEFINE new(i) == [pair |-> pair, left |-> stages[i][1], right |-> stages[i][2]]
  <1>1. ASSUME NEW i, Alive(stages[i][1]), Alive(stages[i][2])
        PROVE  new(i) \in Veth
    <2>1. stages[i][1] \in Nat /\ stages[i][2] \in Nat
      BY <1>1, AliveIsNat DEF TypeOK, SharedTypeOK
    <2> QED BY <2>1 DEF Veth
  <1>2. veths' \in SUBSET Veth
    BY <1>1 DEF Attach, TypeOK, SharedTypeOK
  <1>3. lost' = lost \/ lost' = [lost EXCEPT !.pairs = @ \ {pair}]
    BY DEF Attach
  <1>4. SharedTypeOK'
    BY <1>2, <1>3 DEF Attach, TypeOK, SharedTypeOK, user, disk, Fault
  <1>5. CASE NextMember(p) BY <1>4, <1>5, NextMemberType DEF TypeOK
  <1>6. CASE RollBack(p, proc[p].snapshot)
    BY <1>4, <1>6, LinksFacts, RollBackKeepsTypes DEF TypeOK, At
  <1> QED BY <1>5, <1>6 DEF Attach

LEMMA AttachMemberType ==
  ASSUME TypeOK, NEW p \in Procs, AttachMember(p) PROVE TypeOK'
  <1>1. At(p, "links") /\ MoreLinks(p) /\ proc[p].m > 0 BY DEF AttachMember
  <1>2. proc[p].m \in 1..Len(Link(p).members)
    BY <1>1, LinksFacts DEF Process
  <1>3. <<Link(p).name, Link(p).members[proc[p].m]>> \in LinkName \X (Port \cup {"p2p"})
    <2>1. Link(p).members[proc[p].m] \in Port BY <1>1, <1>2, LinksFacts
    <2>2. Link(p).name \in LinkName BY <1>1, LinksFacts DEF LinkDef
    <2> QED BY <2>1, <2>2
  <1> QED BY <1>1, <1>3, AttachType DEF AttachMember

LEMMA AttachP2PType ==
  ASSUME TypeOK, NEW p \in Procs, AttachP2P(p) PROVE TypeOK'
  <1>1. At(p, "links") /\ MoreLinks(p) BY DEF AttachP2P
  <1>2. <<Link(p).name, "p2p">> \in LinkName \X (Port \cup {"p2p"})
    BY <1>1, LinksFacts DEF LinkDef
  <1> QED BY <1>1, <1>2, AttachType DEF AttachP2P

LEMMA ConfigureRoutersType ==
  ASSUME TypeOK, NEW p \in Procs, ConfigureRouters(p) PROVE TypeOK'
  <1>1. /\ proc[p] \in Process /\ HoldsOK(proc[p]) /\ proc[p].pc = "links"
        /\ proc[p].snapshot \in Inventory
    BY DEF ConfigureRouters, At, TypeOK, ProcsOK, HoldsOK
  <1>2. SharedTypeOK'
    BY DEF ConfigureRouters, TypeOK, SharedTypeOK, user, host, disk, DockerFault, Fault
  <1>3. CASE RollBack(p, proc[p].snapshot)
    BY <1>1, <1>2, <1>3, RollBackKeepsTypes DEF TypeOK, At
  <1>4. CASE Goto(p, "commit")
    <2>1. "commit" \in Steps BY DEF Steps, UpSteps
    <2>2. HoldsOK([proc[p] EXCEPT !.pc = "commit"]) BY <1>1 DEF HoldsOK, Process
    <2> QED BY <1>2, <1>4, <2>1, <2>2, GotoKeepsTypes DEF TypeOK
  <1> QED BY <1>3, <1>4 DEF ConfigureRouters

\* The three writes of the state file write a snapshot the command holds.
LEMMA CommitType == ASSUME TypeOK, NEW p \in Procs, Commit(p) PROVE TypeOK'
  <1>1. proc[p].pc = "commit" /\ proc[p].snapshot \in Inventory
    BY DEF Commit, At, TypeOK, ProcsOK, HoldsOK
  <1>2. labDir' \in BOOLEAN BY DEF Commit, TypeOK, SharedTypeOK, disk
  <1>3. SharedTypeOK'
    BY <1>1, <1>2 DEF Commit, TypeOK, SharedTypeOK, user, host, disk, DockerFault, Fault
  <1>4. CASE End(p) BY <1>3, <1>4, EndKeepsTypes DEF TypeOK
  <1>5. CASE RollBack(p, proc[p].snapshot)
    BY <1>1, <1>3, <1>5, RollBackKeepsTypes DEF TypeOK, At
  <1> QED BY <1>4, <1>5 DEF Commit

LEMMA SaveInventoryType ==
  ASSUME TypeOK, NEW p \in Procs, SaveInventory(p) PROVE TypeOK'
  <1>1. proc[p].pc = "save" /\ proc[p].snapshot \in Inventory
    BY DEF SaveInventory, At, TypeOK, ProcsOK, HoldsOK
  <1>2. labDir' \in BOOLEAN BY DEF SaveInventory, TypeOK, SharedTypeOK, disk
  <1>3. SharedTypeOK'
    BY <1>1, <1>2, ForgetType DEF SaveInventory, TypeOK, SharedTypeOK, user, host, disk, Fault
  <1> QED BY <1>3, EndKeepsTypes DEF SaveInventory, TypeOK

LEMMA WriteMigratedType ==
  ASSUME TypeOK, NEW p \in Procs, WriteMigrated(p) PROVE TypeOK'
  <1>1. proc[p].pc = "write" /\ proc[p].snapshot \in Inventory
    BY DEF WriteMigrated, At, TypeOK, ProcsOK, HoldsOK
  <1>2. labDir' \in BOOLEAN BY DEF WriteMigrated, TypeOK, SharedTypeOK, disk
  <1>3. SharedTypeOK'
    BY <1>1, <1>2 DEF WriteMigrated, TypeOK, SharedTypeOK, user, host, disk, DockerFault, Fault
  <1> QED BY <1>3, EndKeepsTypes DEF WriteMigrated, TypeOK

\* A snapshot read from the state file is an inventory.
LEMMA ReadStateType == ASSUME TypeOK, NEW p \in Procs, ReadState(p) PROVE TypeOK'
  <1> DEFINE t == [proc[p] EXCEPT !.pc = "list", !.snapshot = stateFile]
  <1>1. SharedTypeOK' BY DEF ReadState, TypeOK, SharedTypeOK, user, host, disk, Fault
  <1>2. CASE End(p) BY <1>1, <1>2, EndKeepsTypes DEF TypeOK
  <1>3. CASE Become(p, t)
    <2>1. proc[p] \in Process /\ HoldsOK(proc[p]) /\ proc[p].pc = "read"
      BY DEF ReadState, At, TypeOK, ProcsOK
    <2>2. "list" \in Steps BY DEF Steps, CleanupSteps
    <2>3. stateFile \in Inventory \cup {None} BY DEF TypeOK, SharedTypeOK
    <2>4. t \in Process BY <2>1, <2>2, <2>3 DEF Process
    <2>5. HoldsOK(t) BY <2>1 DEF HoldsOK, Process
    <2> QED BY <1>1, <1>3, <2>4, <2>5, BecomeKeepsTypes DEF TypeOK
  <1> QED BY <1>2, <1>3 DEF ReadState

LEMMA ListLabelledType ==
  ASSUME TypeOK, NEW p \in Procs, ListLabelled(p) PROVE TypeOK'
  <1> DEFINE recorded == IF proc[p].snapshot # None
                         THEN proc[p].snapshot.containers ELSE {}
             s == [proc[p] EXCEPT !.pc = "remove", !.todo = recorded \cup containers]
             t == [proc[p] EXCEPT !.pc = "remove", !.err = TRUE, !.todo = recorded]
  <1>1. /\ proc[p] \in Process /\ HoldsOK(proc[p]) /\ proc[p].pc = "list"
    BY DEF ListLabelled, At, TypeOK, ProcsOK
  <1>2. SharedTypeOK'
    BY DEF ListLabelled, TypeOK, SharedTypeOK, user, host, disk, DockerFault, Fault
  <1>3. recorded \in SUBSET Container /\ recorded \cup containers \in SUBSET Container
    BY <1>1 DEF Process, Inventory, TypeOK, SharedTypeOK
  <1>4. "remove" \in Steps BY DEF Steps, CleanupSteps
  <1> HIDE DEF recorded
  <1>5. CASE End(p) BY <1>2, <1>5, EndKeepsTypes DEF TypeOK
  <1>6. CASE Become(p, s)
    <2>1. s \in Process BY <1>1, <1>3, <1>4 DEF Process
    <2>2. HoldsOK(s) BY <1>1 DEF HoldsOK, Process
    <2> QED BY <1>2, <1>6, <2>1, <2>2, BecomeKeepsTypes DEF TypeOK
  <1>7. CASE Become(p, t)
    <2>1. t \in Process BY <1>1, <1>3, <1>4 DEF Process
    <2>2. HoldsOK(t) BY <1>1 DEF HoldsOK, Process
    <2> QED BY <1>2, <1>7, <2>1, <2>2, BecomeKeepsTypes DEF TypeOK
  <1> QED BY <1>5, <1>6, <1>7 DEF ListLabelled, recorded

LEMMA RemoveContainerType ==
  ASSUME TypeOK, NEW p \in Procs, RemoveContainer(p) PROVE TypeOK'
  <1>1. proc[p] \in Process /\ HoldsOK(proc[p]) /\ proc[p].pc = "remove"
    BY DEF RemoveContainer, At, TypeOK, ProcsOK
  <1>2. SharedTypeOK'
    BY DEF RemoveContainer, TypeOK, SharedTypeOK, user, disk, WithoutContainer,
           DockerFault, Fault
  <1>3. PICK c \in proc[p].todo :
          \/ Become(p, [proc[p] EXCEPT !.todo = @ \ {c}])
          \/ Become(p, [[proc[p] EXCEPT !.todo = @ \ {c}] EXCEPT !.err = TRUE])
    BY DEF RemoveContainer
  <1> DEFINE s == [proc[p] EXCEPT !.todo = @ \ {c}]
             t == [s EXCEPT !.err = TRUE]
  <1>4. s \in Process /\ t \in Process BY <1>1 DEF Process
  <1>5. HoldsOK(s) /\ HoldsOK(t) BY <1>1 DEF HoldsOK, Process
  <1> QED BY <1>2, <1>3, <1>4, <1>5, BecomeKeepsTypes DEF TypeOK

LEMMA DeleteVethsType ==
  ASSUME TypeOK, NEW p \in Procs, DeleteVeths(p) PROVE TypeOK'
  <1> DEFINE owned == IF proc[p].snapshot = None THEN {} ELSE proc[p].snapshot.bridges
             s == [proc[p] EXCEPT !.pc = "bridges", !.todoBridges = owned]
             t == [s EXCEPT !.err = TRUE]
  <1>1. proc[p] \in Process /\ HoldsOK(proc[p]) /\ proc[p].pc = "remove"
    BY DEF DeleteVeths, At, TypeOK, ProcsOK
  <1>2. SharedTypeOK'
    BY DEF DeleteVeths, TypeOK, SharedTypeOK, user, disk, Fault
  <1>3. owned \in SUBSET LinkName BY <1>1 DEF Process, Inventory
  <1>4. "bridges" \in Steps BY DEF Steps, CleanupSteps
  <1>5. Become(p, s) \/ Become(p, t) BY DEF DeleteVeths
  <1> HIDE DEF owned
  <1>6. s \in Process /\ t \in Process BY <1>1, <1>3, <1>4 DEF Process
  <1>7. HoldsOK(s) /\ HoldsOK(t) BY <1>1 DEF HoldsOK, Process
  <1> QED BY <1>2, <1>5, <1>6, <1>7, BecomeKeepsTypes DEF TypeOK

LEMMA DeleteBridgeType ==
  ASSUME TypeOK, NEW p \in Procs, DeleteBridge(p) PROVE TypeOK'
  <1>1. proc[p] \in Process /\ HoldsOK(proc[p]) /\ proc[p].pc = "bridges"
    BY DEF DeleteBridge, At, TypeOK, ProcsOK
  <1>2. SharedTypeOK'
    BY DEF DeleteBridge, TypeOK, SharedTypeOK, user, disk, Fault
  <1>3. PICK name \in proc[p].todoBridges :
          \/ Become(p, [proc[p] EXCEPT !.todoBridges = @ \ {name}])
          \/ Become(p, [[proc[p] EXCEPT !.todoBridges = @ \ {name}] EXCEPT !.err = TRUE])
    BY DEF DeleteBridge
  <1> DEFINE s == [proc[p] EXCEPT !.todoBridges = @ \ {name}]
             t == [s EXCEPT !.err = TRUE]
  <1>4. s \in Process /\ t \in Process BY <1>1 DEF Process
  <1>5. HoldsOK(s) /\ HoldsOK(t) BY <1>1 DEF HoldsOK, Process
  <1> QED BY <1>2, <1>3, <1>4, <1>5, BecomeKeepsTypes DEF TypeOK

LEMMA EraseStateType == ASSUME TypeOK, NEW p \in Procs, EraseState(p) PROVE TypeOK'
  <1>1. proc[p] \in Process /\ HoldsOK(proc[p]) /\ proc[p].pc = "bridges"
    BY DEF EraseState, At, TypeOK, ProcsOK
  <1>2. SharedTypeOK'
    BY DEF EraseState, TypeOK, SharedTypeOK, user, host, Fault
  <1>3. CASE End(p) BY <1>2, <1>3, EndKeepsTypes DEF TypeOK
  <1>4. CASE proc[p].rollback /\ Goto(p, "save")
    <2>1. "save" \in Steps BY DEF Steps
    <2>2. HoldsOK([proc[p] EXCEPT !.pc = "save"]) BY <1>1, <1>4 DEF HoldsOK, Process
    <2> QED BY <1>2, <1>4, <2>1, <2>2, GotoKeepsTypes DEF TypeOK
  <1>5. ASSUME NEW step \in {"mkdir", "purge"}, Resume(p, step) PROVE TypeOK'
    <2> DEFINE t == [Idle EXCEPT !.pc = step, !.cmd = proc[p].cmd,
                        !.topo = proc[p].topo, !.cancelled = proc[p].cancelled]
    <2>1. step \in Steps BY DEF Steps, UpSteps
    <2>2. proc[p].topo \in Topologies BY <1>1 DEF HoldsOK
    <2>3. t \in Process BY <1>1, <2>1, IdleIsProcess DEF Process
    <2>4. HoldsOK(t) BY <2>2 DEF HoldsOK, Idle
    <2> QED BY <1>2, <1>5, <2>3, <2>4, BecomeKeepsTypes DEF TypeOK, Resume
  <1>6. AfterCleanup(p) \/ KeepInventory(p) BY DEF EraseState
  <1> QED BY <1>3, <1>4, <1>5, <1>6 DEF AfterCleanup, KeepInventory

LEMMA PurgeType == ASSUME TypeOK, NEW p \in Procs, Purge(p) PROVE TypeOK'
  <1>1. labDir' \in BOOLEAN BY DEF Purge, TypeOK, SharedTypeOK, disk
  <1>2. SharedTypeOK' BY <1>1 DEF Purge, TypeOK, SharedTypeOK, user, host, disk, Fault
  <1> QED BY <1>2, EndKeepsTypes DEF Purge, TypeOK

LEMMA ReadLegacyType == ASSUME TypeOK, NEW p \in Procs, ReadLegacy(p) PROVE TypeOK'
  <1> DEFINE migrated == [stateFile EXCEPT !.legacy = FALSE,
                             !.bridges = BridgeLinks(proc[p].topo)]
             t == [proc[p] EXCEPT !.pc = "write", !.snapshot = migrated]
  <1>1. /\ proc[p] \in Process /\ HoldsOK(proc[p]) /\ proc[p].pc = "migrate"
        /\ proc[p].topo \in Topologies
    BY DEF ReadLegacy, At, TypeOK, ProcsOK, HoldsOK
  <1>2. SharedTypeOK' BY DEF ReadLegacy, TypeOK, SharedTypeOK, user, host, disk, Fault
  <1>3. CASE End(p) BY <1>2, <1>3, EndKeepsTypes DEF TypeOK
  <1>4. CASE IsLegacy(stateFile) /\ Become(p, t)
    <2>1. stateFile \in Inventory BY <1>4 DEF IsLegacy, TypeOK, SharedTypeOK
    <2>2. BridgeLinks(proc[p].topo) \subseteq LinkName BY <1>1, BridgeLinksFact
    <2>3. migrated \in Inventory BY <2>1, <2>2 DEF Inventory
    <2>4. "write" \in Steps BY DEF Steps
    <2> HIDE DEF migrated
    <2>5. t \in Process BY <1>1, <2>3, <2>4 DEF Process
    <2>6. HoldsOK(t) BY <1>1, <2>3 DEF HoldsOK, Process
    <2> QED BY <1>2, <1>4, <2>5, <2>6, BecomeKeepsTypes DEF TypeOK
  <1> QED BY <1>3, <1>4 DEF ReadLegacy

LEMMA StepType == ASSUME TypeOK, NEW p \in Procs, Step(p) PROVE TypeOK'
  BY StatStateType, ListExistingType, OpenSnapshotType, CreateContainerType,
     BootContainerType, EnsureBridgeType, AttachMemberType, AttachP2PType,
     ConfigureRoutersType, CommitType, ReadStateType, ListLabelledType,
     RemoveContainerType, DeleteVethsType, DeleteBridgeType, EraseStateType,
     SaveInventoryType, PurgeType, ReadLegacyType, WriteMigratedType
  DEF Step

-----------------------------------------------------------------------------
(* The initial states, and the theorem.                                    *)

\* In a lab that up left running, every link member has its container.
LEMMA UpContainersFacts ==
  ASSUME NEW t \in Topologies
  PROVE  /\ UpContainers(t) \subseteq Container
         /\ \A i \in 1..Len(t.links) : \A m \in 1..Len(t.links[i].members) :
              IdOf(UpContainers(t), RouterOf[t.links[i].members[m]]) \in Nat
  <1>1. DOMAIN t.routers = 1..Len(t.routers) /\ DOMAIN t.links = 1..Len(t.links)
    BY TopologyFacts
  <1>2. UpContainers(t) \subseteq Container
    BY <1>1, TopologyFacts DEF UpContainers, Container
  <1>3. ASSUME NEW i \in 1..Len(t.links), NEW m \in 1..Len(t.links[i].members)
        PROVE  IdOf(UpContainers(t), RouterOf[t.links[i].members[m]]) \in Nat
    <2>1. t.links[i] \in LinkDef BY TopologyFacts
    <2>2. t.links[i].members \in Seq(Port) BY <2>1 DEF LinkDef
    <2>3. DOMAIN t.links[i].members = 1..Len(t.links[i].members) BY <2>2
    <2>4. PICK r \in DOMAIN t.routers : t.routers[r] = RouterOf[t.links[i].members[m]]
      <3>1. \A j \in DOMAIN t.links : \A n \in DOMAIN t.links[j].members :
              \E r \in DOMAIN t.routers : t.routers[r] = RouterOf[t.links[j].members[n]]
        BY TopologyAssumption DEF ValidTopology
      <3> QED BY <1>1, <2>3, <3>1
    <2>5. \E c \in UpContainers(t) : c.router = RouterOf[t.links[i].members[m]]
      <3>1. [id |-> r, router |-> t.routers[r]] \in UpContainers(t)
        BY DEF UpContainers
      <3> QED BY <2>4, <3>1
    <2>6. (CHOOSE c \in UpContainers(t) : c.router = RouterOf[t.links[i].members[m]])
            \in UpContainers(t)
      BY <2>5
    <2> QED BY <1>2, <2>6 DEF IdOf, Container
  <1> QED BY <1>2, <1>3

LEMMA UpVethsFact ==
  ASSUME NEW t \in Topologies, NEW link \in Links(t)
  PROVE  UpVeths(link, UpContainers(t)) \subseteq Veth
  <1>1. PICK i \in 1..Len(t.links) : link = t.links[i] BY TopologyFacts DEF Links
  <1>2. link \in LinkDef BY <1>1, TopologyFacts
  <1>3. /\ link.name \in LinkName /\ link.members \in Seq(Port)
        /\ link.type \in {"bridge", "p2p"}
    BY <1>2 DEF LinkDef
  <1>4. \A m \in 1..Len(link.members) :
          IdOf(UpContainers(t), RouterOf[link.members[m]]) \in Nat
    BY <1>1, UpContainersFacts
  <1>5. CASE link.type = "bridge"
    BY <1>3, <1>4, <1>5, SMTT(30) DEF UpVeths, MemberVeth, Veth, Host
  <1>6. CASE link.type # "bridge"
    <2>1. Len(link.members) = 2 BY <1>1, <1>3, <1>6, TopologyFacts
    <2> QED BY <1>3, <1>4, <1>6, <2>1 DEF UpVeths, Veth
  <1> QED BY <1>5, <1>6

LEMMA RunningStateFile ==
  ASSUME yaml \in Topologies, NEW legacy \in BOOLEAN, Running(legacy)
  PROVE  stateFile \in Inventory
  <1>1. UpContainers(yaml) \subseteq Container BY UpContainersFacts
  <1>2. BridgeLinks(yaml) \subseteq LinkName BY BridgeLinksFact
  <1> QED BY <1>1, <1>2 DEF Running, Inventory

LEMMA InitType == Init => TypeOK
  <1> SUFFICES ASSUME Init PROVE TypeOK OBVIOUS
  <1>1. ProcsOK BY IdleIsProcess DEF Init, ProcsOK
  <1>2. yaml \in Topologies BY DEF Init
  <1>3. lost \in [containers : SUBSET Container, bridges : SUBSET LinkName,
                  pairs : SUBSET (LinkName \X (Port \cup {"p2p"}))]
    BY DEF Init
  <1>4. runs \in Nat /\ faults \in Nat /\ edits \in Nat BY DEF Init
  <1>5. CASE Fresh
    <2>1. labDir \in BOOLEAN BY <1>5 DEF Fresh
    <2>2. /\ containers \in SUBSET Container /\ nextId \in Nat \ {0}
          /\ bridges \in SUBSET LinkName /\ veths \in SUBSET Veth
          /\ stateFile = None
      BY <1>5 DEF Fresh
    <2> QED BY <1>1, <1>2, <1>3, <1>4, <2>1, <2>2 DEF TypeOK, SharedTypeOK
  <1>6. ASSUME NEW legacy \in BOOLEAN, Running(legacy) PROVE TypeOK
    <2>1. Len(yaml.routers) + 1 \in Nat \ {0} BY <1>2, TopologyFacts
    <2>2. UNION {UpVeths(l, UpContainers(yaml)) : l \in Links(yaml)} \subseteq Veth
      BY <1>2, UpVethsFact
    <2>3. UpContainers(yaml) \subseteq Container BY <1>2, UpContainersFacts
    <2>4. BridgeLinks(yaml) \subseteq LinkName BY <1>2, BridgeLinksFact
    <2>5. stateFile \in Inventory BY <1>2, <1>6, RunningStateFile
    <2>6. labDir \in BOOLEAN BY <1>6 DEF Running
    <2>7. /\ containers \in SUBSET Container /\ nextId \in Nat \ {0}
          /\ bridges \in SUBSET LinkName /\ veths \in SUBSET Veth
      BY <1>6, <2>1, <2>2, <2>3, <2>4 DEF Running
    <2> QED BY <1>1, <1>2, <1>3, <1>4, <2>5, <2>6, <2>7 DEF TypeOK, SharedTypeOK
  <1> QED BY <1>5, <1>6 DEF Init

LEMMA NextType == ASSUME TypeOK, [Next]_vars PROVE TypeOK'
  <1>1. ASSUME NEW p \in Procs, Step(p) \/ Cancel(p) \/ Kill(p) PROVE TypeOK'
    BY <1>1, StepType, CancelType, KillType
  <1>2. ASSUME NEW p \in Procs, NEW cmd \in Commands, Begin(p, cmd) PROVE TypeOK'
    BY <1>2, BeginType
  <1>3. CASE EditYaml \/ OperatorRemove BY <1>3, UserType
  <1>4. CASE UNCHANGED vars
    BY <1>4 DEF vars, TypeOK, SharedTypeOK, ProcsOK
  <1> QED BY <1>1, <1>2, <1>3, <1>4 DEF Next

\* The state, and what each command holds at each of its calls, keep their
\* types, however many commands run at once: no call of up, cleanupRuntime or
\* MigrateState uses a snapshot or an index it does not have.
THEOREM TypeCorrect == Spec => []TypeOK
  <1>1. TypeOK /\ [Next]_vars => TypeOK' BY NextType
  <1> QED BY InitType, <1>1, PTL DEF Spec

-----------------------------------------------------------------------------
(* The invariant, for the one command there is.                            *)

AccountOf(p) ==
  /\ bridges \subseteq Recorded(stateFile) \cup lost.bridges
                         \cup Recorded(proc[p].snapshot)
  /\ lost.containers \subseteq containers
  /\ stateFile # None => lost.containers = {}
  /\ CommandOK(proc[p]) /\ KnowsOK(proc[p])

LEMMA AccountOne ==
  ASSUME OneCommand, NEW p \in Procs
  PROVE  AccountInv <=> TypeOK /\ AccountOf(p)
  BY DEF OneCommand, AccountInv, AccountOf, BridgesAccounted, UnknownContainersStay

LEMMA AccountOneNext ==
  ASSUME OneCommand, NEW p \in Procs
  PROVE  AccountInv' <=> TypeOK' /\ AccountOf(p)'
  BY DEF OneCommand, AccountInv, AccountOf, BridgesAccounted, UnknownContainersStay

\* What a command holds after a step.
LEMMA BecomeFact ==
  ASSUME TypeOK, NEW p \in Procs, NEW s, Become(p, s) PROVE proc'[p] = s
  BY DEF TypeOK, ProcsOK, Become

LEMMA EndFact == ASSUME TypeOK, NEW p \in Procs, End(p) PROVE proc'[p] = Idle
  BY BecomeFact DEF End

LEMMA IdleFacts ==
  /\ Idle.pc = "idle" /\ Idle.cmd = "none" /\ Idle.snapshot = None
  /\ Idle.rollback = FALSE /\ CommandOK(Idle)
  BY DEF Idle, CommandOK, UpSteps, CleanupSteps

\* A command that ends holds no snapshot: the state file must account for the
\* bridges, or nothing does.
LEMMA EndAccount ==
  ASSUME TypeOK, NEW p \in Procs, End(p),
         bridges' \subseteq Recorded(stateFile)' \cup lost'.bridges,
         lost'.containers \subseteq containers',
         stateFile' # None => lost'.containers = {}
  PROVE  AccountOf(p)'
  <1>1. proc'[p] = Idle BY EndFact
  <1>2. CommandOK(proc[p])' BY <1>1, IdleFacts DEF CommandOK
  <1>3. KnowsOK(proc[p])' BY <1>1, IdleFacts DEF KnowsOK, UpSteps
  <1> QED BY <1>1, <1>2, <1>3 DEF AccountOf

\* Before it reads the state file or opens a snapshot, a command holds none.
LEMMA NoSnapshot ==
  ASSUME NEW p \in Procs, AccountOf(p),
         proc[p].pc \in {"idle", "stat", "exists", "mkdir", "read", "migrate", "purge"}
  PROVE  proc[p].snapshot = None /\ bridges \subseteq Recorded(stateFile) \cup lost.bridges
  <1>1. proc[p].snapshot = None BY DEF AccountOf, KnowsOK
  <1>2. Recorded(proc[p].snapshot) = {} BY <1>1 DEF Recorded, IsLegacy
  <1> QED BY <1>1, <1>2 DEF AccountOf

\* What a command holds adds nothing to a state file that exists.
LEMMA SnapshotAddsNothing ==
  ASSUME TypeOK, NEW p \in Procs, AccountOf(p), stateFile # None
  PROVE  Recorded(proc[p].snapshot) \subseteq Recorded(stateFile)
  <1>1. proc[p].pc \in Steps /\ KnowsOK(proc[p]) /\ CommandOK(proc[p])
    BY DEF TypeOK, ProcsOK, Process, AccountOf
  <1>2. \/ proc[p].snapshot = None
        \/ proc[p].snapshot = stateFile
        \/ proc[p].pc = "write"
    BY <1>1 DEF KnowsOK, Steps, UpSteps, CleanupSteps
  <1>3. CASE proc[p].snapshot = None BY <1>3 DEF Recorded, IsLegacy
  <1>4. CASE proc[p].pc = "write" /\ proc[p].snapshot # None
    <2>1. /\ ~proc[p].snapshot.legacy /\ IsLegacy(stateFile)
          /\ proc[p].snapshot.bridges = BridgeLinks(stateFile.digest)
      BY <1>1, <1>4 DEF KnowsOK
    <2> QED BY <1>4, <2>1 DEF Recorded, IsLegacy
  <1> QED BY <1>2, <1>3, <1>4

-----------------------------------------------------------------------------
(* Each action keeps it.                                                   *)

LEMMA BeginAccount ==
  ASSUME TypeOK, NEW p \in Procs, NEW cmd \in Commands, AccountOf(p), Begin(p, cmd)
  PROVE  AccountOf(p)'
  <1> DEFINE t == [Idle EXCEPT !.pc = FirstStep(cmd), !.cmd = cmd, !.topo = yaml]
  <1>1. proc'[p] = t BY BecomeFact DEF Begin
  <1>2. /\ cmd \in AllCommands
        /\ FirstStep(cmd) = IF cmd = "up" THEN "stat"
                            ELSE IF cmd = "migrate" THEN "migrate" ELSE "read"
    BY BoundAssumption DEF FirstStep, AllCommands
  <1>3. /\ t.pc = FirstStep(cmd) /\ t.cmd = cmd /\ t.snapshot = None
        /\ t.rollback = FALSE
    BY DEF Idle
  <1>4. CommandOK(proc[p])'
    BY <1>1, <1>2, <1>3 DEF CommandOK, AllCommands, UpSteps, CleanupSteps
  <1>5. KnowsOK(proc[p])' BY <1>1, <1>2, <1>3 DEF KnowsOK, UpSteps
  <1>6. bridges \subseteq Recorded(stateFile) \cup lost.bridges
    BY NoSnapshot DEF Begin, At
  <1>7. UNCHANGED <<bridges, stateFile, lost, containers>> BY DEF Begin, host, disk
  <1> QED BY <1>1, <1>3, <1>4, <1>5, <1>6, <1>7 DEF AccountOf, Recorded, IsLegacy

LEMMA CancelAccount ==
  ASSUME TypeOK, NEW p \in Procs, AccountOf(p), Cancel(p) PROVE AccountOf(p)'
  <1>1. proc'[p] = [proc[p] EXCEPT !.cancelled = TRUE] BY BecomeFact DEF Cancel
  <1>2. proc[p] \in Process BY DEF TypeOK, ProcsOK
  <1>3. /\ proc'[p].pc = proc[p].pc /\ proc'[p].cmd = proc[p].cmd
        /\ proc'[p].snapshot = proc[p].snapshot /\ proc'[p].rollback = proc[p].rollback
        /\ proc'[p].err = proc[p].err /\ proc'[p].todo = proc[p].todo
        /\ proc'[p].todoBridges = proc[p].todoBridges
    BY <1>1, <1>2 DEF Process
  <1>4. UNCHANGED <<bridges, stateFile, lost, containers>> BY DEF Cancel, host, disk
  <1> QED BY <1>3, <1>4 DEF AccountOf, CommandOK, KnowsOK, Recorded, IsLegacy

LEMMA KillAccount ==
  ASSUME TypeOK, NEW p \in Procs, AccountOf(p), Kill(p) PROVE AccountOf(p)'
  <1>1. UNCHANGED <<bridges, stateFile, containers>> BY DEF Kill, host, disk
  <1>2. CASE stateFile = None
    <2>1. lost'.bridges = bridges /\ lost'.containers = containers
      BY <1>2 DEF Kill, Forget
    <2> QED BY <1>1, <1>2, <2>1, EndAccount DEF Kill
  <1>3. CASE stateFile # None
    <2>1. UNCHANGED lost BY <1>3 DEF Kill, Forget
    <2>2. Recorded(proc[p].snapshot) \subseteq Recorded(stateFile)
      BY <1>3, SnapshotAddsNothing
    <2> QED BY <1>1, <1>3, <2>1, <2>2, EndAccount DEF Kill, AccountOf
  <1> QED BY <1>2, <1>3

LEMMA StatStateAccount ==
  ASSUME TypeOK, NEW p \in Procs, AccountOf(p), StatState(p) PROVE AccountOf(p)'
  <1>1. UNCHANGED <<bridges, stateFile, lost, containers>>
    BY DEF StatState, host, disk
  <1>2. proc[p].snapshot = None /\ bridges \subseteq Recorded(stateFile) \cup lost.bridges
    BY NoSnapshot DEF StatState, At
  <1>3. CASE End(p) BY <1>1, <1>2, <1>3, EndAccount DEF AccountOf
  <1>4. CASE stateFile = None /\ Goto(p, "exists")
    <2>1. proc'[p] = [proc[p] EXCEPT !.pc = "exists"] BY <1>4, BecomeFact DEF Goto
    <2>2. proc[p] \in Process /\ proc[p].pc = "stat" BY DEF TypeOK, ProcsOK, StatState, At
    <2>3. /\ proc'[p].pc = "exists" /\ proc'[p].cmd = "up" /\ proc'[p].snapshot = None
          /\ proc'[p].rollback = proc[p].rollback
      BY <1>2, <2>1, <2>2 DEF Process, AccountOf, CommandOK
    <2>4. CommandOK(proc[p])'
      BY <2>3 DEF CommandOK, UpSteps, CleanupSteps
    <2>5. KnowsOK(proc[p])' BY <1>1, <1>4, <2>2, <2>3 DEF KnowsOK, UpSteps, AccountOf
    <2> QED BY <1>1, <1>2, <2>3, <2>4, <2>5 DEF AccountOf, Recorded, IsLegacy
  <1> QED BY <1>3, <1>4 DEF StatState

\* A step to a call that builds the lab, or to its rollback.
LEMMA BuildAccount ==
  ASSUME NEW p \in Procs,
         \/ proc'[p].pc \in UpSteps \ {"mkdir"} /\ ~proc'[p].rollback
         \/ proc'[p].pc = "list" /\ proc'[p].rollback,
         proc'[p].cmd \in {"up", "recreate"},
         proc'[p].snapshot \in Inventory, ~proc'[p].snapshot.legacy,
         bridges' \subseteq lost'.bridges \cup proc'[p].snapshot.bridges,
         stateFile' = None, lost'.containers = {}
  PROVE  AccountOf(p)'
  <1>1. CommandOK(proc[p])' BY DEF CommandOK, UpSteps, CleanupSteps
  <1>2. KnowsOK(proc[p])' BY DEF KnowsOK, UpSteps
  <1>3. proc'[p].snapshot # None BY NoneAssumption
  <1>4. Recorded(proc[p].snapshot)' = proc'[p].snapshot.bridges
    BY <1>3 DEF Recorded, IsLegacy
  <1> QED BY <1>1, <1>2, <1>4 DEF AccountOf

\* What a command that builds the lab knows.
LEMMA BuildFacts ==
  ASSUME TypeOK, NEW p \in Procs, AccountOf(p), proc[p].pc \in UpSteps \ {"mkdir"}
  PROVE  /\ proc[p] \in Process
         /\ stateFile = None /\ lost.containers = {}
         /\ proc[p].cmd \in {"up", "recreate"}
         /\ proc[p].snapshot \in Inventory /\ ~proc[p].snapshot.legacy
         /\ ~proc[p].rollback
         /\ bridges \subseteq lost.bridges \cup proc[p].snapshot.bridges
  <1>1. /\ proc[p] \in Process /\ HoldsOK(proc[p])
        /\ CommandOK(proc[p]) /\ KnowsOK(proc[p])
    BY DEF TypeOK, ProcsOK, AccountOf
  <1>2. proc[p].snapshot \in Inventory /\ ~proc[p].rollback
    BY <1>1 DEF HoldsOK, UpSteps, Process
  <1>3. proc[p].snapshot # None /\ ~proc[p].snapshot.legacy
    BY <1>1, <1>2, NoneAssumption DEF KnowsOK
  <1>4. stateFile = None /\ lost.containers = {} /\ proc[p].cmd \in {"up", "recreate"}
    BY <1>1 DEF KnowsOK, CommandOK
  <1>5. Recorded(proc[p].snapshot) = proc[p].snapshot.bridges /\ Recorded(stateFile) = {}
    BY <1>3, <1>4 DEF Recorded, IsLegacy
  <1> QED BY <1>1, <1>2, <1>3, <1>4, <1>5 DEF AccountOf

LEMMA RollBackAccount ==
  ASSUME TypeOK, NEW p \in Procs, AccountOf(p), proc[p].pc \in UpSteps \ {"mkdir"},
         NEW s \in Inventory, RollBack(p, s), ~s.legacy,
         bridges' \subseteq lost'.bridges \cup s.bridges,
         stateFile' = None, lost'.containers = {}
  PROVE  AccountOf(p)'
  <1>1. proc'[p] = [proc[p] EXCEPT !.pc = "list", !.rollback = TRUE, !.snapshot = s]
    BY BecomeFact DEF RollBack
  <1>2. /\ proc'[p].pc = "list" /\ proc'[p].rollback /\ proc'[p].snapshot = s
        /\ proc'[p].cmd = proc[p].cmd
    BY <1>1, BuildFacts DEF Process
  <1> QED BY <1>2, BuildFacts, BuildAccount

LEMMA ListExistingAccount ==
  ASSUME TypeOK, NEW p \in Procs, AccountOf(p), ListExisting(p) PROVE AccountOf(p)'
  <1>1. UNCHANGED <<bridges, stateFile, lost, containers>>
    BY DEF ListExisting, host, disk
  <1>2. proc[p].snapshot = None /\ bridges \subseteq Recorded(stateFile) \cup lost.bridges
    BY NoSnapshot DEF ListExisting, At
  <1>3. CASE End(p) BY <1>1, <1>2, <1>3, EndAccount DEF AccountOf
  <1>4. CASE containers = {} /\ Goto(p, "mkdir")
    <2>1. proc'[p] = [proc[p] EXCEPT !.pc = "mkdir"] BY <1>4, BecomeFact DEF Goto
    <2>2. proc[p] \in Process /\ proc[p].pc = "exists"
      BY DEF TypeOK, ProcsOK, ListExisting, At
    <2>3. /\ proc[p].cmd = "up" /\ stateFile = None /\ ~proc[p].rollback
      BY <2>2 DEF Process, AccountOf, CommandOK, KnowsOK, TypeOK, ProcsOK, HoldsOK
    <2>4. /\ proc'[p].pc = "mkdir" /\ proc'[p].cmd = "up" /\ proc'[p].snapshot = None
          /\ ~proc'[p].rollback
      BY <1>2, <2>1, <2>2, <2>3 DEF Process
    <2>5. lost.containers = {} BY <1>4 DEF AccountOf
    <2>6. CommandOK(proc[p])' BY <2>4 DEF CommandOK, CleanupSteps
    <2>7. KnowsOK(proc[p])' BY <1>1, <2>3, <2>4, <2>5 DEF KnowsOK
    <2> QED BY <1>1, <1>2, <2>5, <2>6, <2>7 DEF AccountOf, Recorded, IsLegacy
  <1> QED BY <1>3, <1>4 DEF ListExisting

LEMMA OpenSnapshotAccount ==
  ASSUME TypeOK, TypeOK', NEW p \in Procs, AccountOf(p), OpenSnapshot(p)
  PROVE  AccountOf(p)'
  <1> DEFINE empty == [containers |-> {}, bridges |-> {}, legacy |-> FALSE,
                       digest |-> proc[p].topo]
  <1>1. UNCHANGED <<bridges, stateFile, lost, containers>> BY DEF OpenSnapshot, host
  <1>2. proc[p].snapshot = None /\ bridges \subseteq Recorded(stateFile) \cup lost.bridges
    BY NoSnapshot DEF OpenSnapshot, At
  <1>3. CASE End(p) BY <1>1, <1>2, <1>3, EndAccount DEF AccountOf
  <1>4. CASE Become(p, [proc[p] EXCEPT !.pc = "create", !.r = 1, !.l = 1, !.m = 0,
                                      !.snapshot = empty])
    <2>1. proc'[p] = [proc[p] EXCEPT !.pc = "create", !.r = 1, !.l = 1, !.m = 0,
                                     !.snapshot = empty]
      BY <1>4, BecomeFact
    <2>2. proc[p] \in Process /\ proc[p].pc = "mkdir"
      BY DEF TypeOK, ProcsOK, OpenSnapshot, At
    <2>3. /\ stateFile = None /\ lost.containers = {} /\ ~proc[p].rollback
          /\ proc[p].cmd \in {"up", "recreate"}
      BY <2>2 DEF Process, AccountOf, CommandOK, KnowsOK, UpSteps, TypeOK, ProcsOK, HoldsOK
    <2>4. /\ proc'[p].pc = "create" /\ proc'[p].snapshot = empty
          /\ ~proc'[p].rollback /\ proc'[p].cmd = proc[p].cmd
      BY <2>1, <2>2, <2>3 DEF Process
    <2>5. proc'[p].snapshot \in Inventory
      BY <2>4 DEF TypeOK, ProcsOK, HoldsOK
    <2>6. bridges' \subseteq lost'.bridges BY <1>1, <1>2, <2>3 DEF Recorded, IsLegacy
    <2> QED BY <1>1, <2>3, <2>4, <2>5, <2>6, BuildAccount DEF UpSteps
  <1> QED BY <1>3, <1>4 DEF OpenSnapshot

LEMMA CreateContainerAccount ==
  ASSUME TypeOK, TypeOK', NEW p \in Procs, AccountOf(p), CreateContainer(p)
  PROVE  AccountOf(p)'
  <1> DEFINE new == [id |-> nextId, router |-> proc[p].topo.routers[proc[p].r]]
             recorded == [proc[p].snapshot EXCEPT !.containers = @ \cup {new}]
  <1>1. proc[p].pc = "create" BY DEF CreateContainer, At
  <1>2. UNCHANGED <<bridges, stateFile, lost>> BY DEF CreateContainer, disk
  <1>3. CASE RollBack(p, proc[p].snapshot)
    BY <1>1, <1>2, <1>3, BuildFacts, RollBackAccount DEF UpSteps
  <1>4. CASE Become(p, [proc[p] EXCEPT !.pc = "boot", !.snapshot = recorded])
    <2>1. /\ proc'[p].pc = "boot" /\ proc'[p].snapshot = recorded
          /\ ~proc'[p].rollback /\ proc'[p].cmd = proc[p].cmd
      BY <1>1, <1>4, BecomeFact, BuildFacts, ZenonT(60) DEF Process, UpSteps
    <2>2. proc'[p].snapshot \in Inventory BY <2>1 DEF TypeOK, ProcsOK, HoldsOK
    <2>3. recorded.legacy = proc[p].snapshot.legacy
          /\ recorded.bridges = proc[p].snapshot.bridges
      BY <1>1, BuildFacts DEF Inventory, UpSteps
    <2> QED BY <1>1, <1>2, <2>1, <2>2, <2>3, BuildFacts, BuildAccount DEF UpSteps
  <1> QED BY <1>3, <1>4 DEF CreateContainer

LEMMA BootContainerAccount ==
  ASSUME TypeOK, TypeOK', NEW p \in Procs, AccountOf(p), BootContainer(p)
  PROVE  AccountOf(p)'
  <1>1. proc[p].pc = "boot" BY DEF BootContainer, At
  <1>2. UNCHANGED <<bridges, stateFile, lost>> BY DEF BootContainer, host, disk
  <1>3. CASE RollBack(p, proc[p].snapshot)
    BY <1>1, <1>2, <1>3, BuildFacts, RollBackAccount DEF UpSteps
  <1>4. ASSUME \/ Become(p, [proc[p] EXCEPT !.pc = "create", !.r = @ + 1])
               \/ Become(p, [proc[p] EXCEPT !.pc = "links"])
        PROVE  AccountOf(p)'
    <2>1. /\ proc'[p].pc \in {"create", "links"} /\ proc'[p].snapshot = proc[p].snapshot
          /\ ~proc'[p].rollback /\ proc'[p].cmd = proc[p].cmd
      BY <1>1, <1>4, BecomeFact, BuildFacts, ZenonT(60) DEF Process, UpSteps
    <2> QED BY <1>1, <1>2, <2>1, BuildFacts, BuildAccount DEF UpSteps
  <1> QED BY <1>3, <1>4 DEF BootContainer, Goto

LEMMA EnsureBridgeAccount ==
  ASSUME TypeOK, TypeOK', NEW p \in Procs, AccountOf(p), EnsureBridge(p)
  PROVE  AccountOf(p)'
  <1> DEFINE name == Link(p).name
             recorded == [proc[p].snapshot EXCEPT !.bridges = @ \cup {name}]
  <1>1. proc[p].pc = "links" BY DEF EnsureBridge, At
  <1>2. /\ UNCHANGED <<containers, stateFile>>
        /\ lost' = [lost EXCEPT !.bridges = @ \ {name}]
        /\ bridges' \subseteq bridges \cup {name}
    BY DEF EnsureBridge, disk
  <1>3. /\ proc[p].snapshot \in Inventory /\ stateFile = None /\ lost.containers = {}
        /\ bridges \subseteq lost.bridges \cup proc[p].snapshot.bridges
        /\ ~proc[p].snapshot.legacy
    BY <1>1, BuildFacts DEF UpSteps
  <1>4. /\ recorded \in [containers : SUBSET Container, bridges : SUBSET (LinkName \cup {name}),
                         legacy : BOOLEAN, digest : Topologies]
        /\ recorded.bridges = proc[p].snapshot.bridges \cup {name} /\ ~recorded.legacy
    BY <1>3 DEF Inventory
  <1>5. recorded \in Inventory
    <2>1. name \in LinkName BY LinksFacts DEF EnsureBridge, LinkDef
    <2>2. LinkName \cup {name} = LinkName BY <2>1
    <2> HIDE DEF recorded, name
    <2> QED BY <1>4, <2>2 DEF Inventory
  <1>6. lost'.bridges = lost.bridges \ {name} /\ lost'.containers = {}
    BY <1>2, <1>3 DEF TypeOK, SharedTypeOK
  <1>7. bridges' \subseteq lost'.bridges \cup recorded.bridges
    <2> HIDE DEF recorded, name
    <2> QED BY <1>2, <1>3, <1>4, <1>6
  <1>8. CASE RollBack(p, recorded)
    <2> HIDE DEF recorded
    <2> QED BY <1>1, <1>2, <1>3, <1>4, <1>5, <1>6, <1>7, <1>8, RollBackAccount DEF UpSteps
  <1>9. CASE Become(p, [proc[p] EXCEPT !.snapshot = recorded, !.m = 1])
    <2> HIDE DEF recorded
    <2>1. /\ proc'[p].pc = "links" /\ proc'[p].snapshot = recorded
          /\ ~proc'[p].rollback /\ proc'[p].cmd = proc[p].cmd
      BY <1>1, <1>9, BecomeFact, BuildFacts DEF Process, UpSteps
    <2> QED BY <1>1, <1>2, <1>3, <1>4, <1>5, <1>6, <1>7, <2>1, BuildFacts, BuildAccount
            DEF UpSteps
  <1> QED BY <1>8, <1>9 DEF EnsureBridge

LEMMA AttachAccount ==
  ASSUME TypeOK, TypeOK', NEW p \in Procs, AccountOf(p), At(p, "links"),
         NEW pair, NEW stages, NEW ready, Attach(p, pair, stages, ready)
  PROVE  AccountOf(p)'
  <1>1. proc[p].pc = "links" BY DEF At
  <1>2. /\ UNCHANGED <<bridges, stateFile, containers>>
        /\ lost' = lost \/ lost' = [lost EXCEPT !.pairs = @ \ {pair}]
    BY DEF Attach, disk
  <1>3. lost'.bridges = lost.bridges /\ lost'.containers = lost.containers
    BY <1>2 DEF TypeOK, SharedTypeOK
  <1>4. CASE RollBack(p, proc[p].snapshot)
    BY <1>1, <1>2, <1>3, <1>4, BuildFacts, RollBackAccount DEF UpSteps
  <1>5. CASE NextMember(p)
    <2>1. /\ proc'[p].pc = "links" /\ proc'[p].snapshot = proc[p].snapshot
          /\ ~proc'[p].rollback /\ proc'[p].cmd = proc[p].cmd
      BY <1>1, <1>5, BecomeFact, BuildFacts, ZenonT(60) DEF NextMember, Process, UpSteps
    <2> QED BY <1>1, <1>2, <1>3, <2>1, BuildFacts, BuildAccount DEF UpSteps
  <1> QED BY <1>4, <1>5 DEF Attach

LEMMA ConfigureRoutersAccount ==
  ASSUME TypeOK, TypeOK', NEW p \in Procs, AccountOf(p), ConfigureRouters(p)
  PROVE  AccountOf(p)'
  <1>1. proc[p].pc = "links" BY DEF ConfigureRouters, At
  <1>2. UNCHANGED <<bridges, stateFile, lost>> BY DEF ConfigureRouters, host, disk
  <1>3. CASE RollBack(p, proc[p].snapshot)
    BY <1>1, <1>2, <1>3, BuildFacts, RollBackAccount DEF UpSteps
  <1>4. CASE Become(p, [proc[p] EXCEPT !.pc = "commit"])
    <2>1. /\ proc'[p].pc = "commit" /\ proc'[p].snapshot = proc[p].snapshot
          /\ ~proc'[p].rollback /\ proc'[p].cmd = proc[p].cmd
      BY <1>1, <1>4, BecomeFact, BuildFacts DEF Process, UpSteps
    <2> QED BY <1>1, <1>2, <2>1, BuildFacts, BuildAccount DEF UpSteps
  <1> QED BY <1>3, <1>4 DEF ConfigureRouters, Goto

LEMMA CommitAccount ==
  ASSUME TypeOK, TypeOK', NEW p \in Procs, AccountOf(p), Commit(p)
  PROVE  AccountOf(p)'
  <1>1. proc[p].pc = "commit" BY DEF Commit, At
  <1>2. UNCHANGED <<bridges, containers, lost>> BY DEF Commit, host
  <1>3. CASE RollBack(p, proc[p].snapshot) /\ UNCHANGED stateFile
    BY <1>1, <1>2, <1>3, BuildFacts, RollBackAccount DEF UpSteps
  <1>4. CASE stateFile' = proc[p].snapshot /\ End(p)
    <2>1. Recorded(stateFile)' = proc[p].snapshot.bridges
      BY <1>1, <1>4, BuildFacts, NoneAssumption DEF Recorded, IsLegacy, UpSteps
    <2> QED BY <1>1, <1>2, <1>4, <2>1, BuildFacts, EndAccount DEF UpSteps
  <1> QED BY <1>3, <1>4 DEF Commit, disk

\* What a cleanup knows.
LEMMA CleanupFacts ==
  ASSUME TypeOK, NEW p \in Procs, AccountOf(p),
         proc[p].pc \in {"list", "remove", "bridges"}
  PROVE  /\ proc[p] \in Process /\ proc[p].snapshot \in Inventory \cup {None}
         /\ proc[p].snapshot # None => ~proc[p].snapshot.legacy
         /\ Recorded(proc[p].snapshot) =
              IF proc[p].snapshot = None THEN {} ELSE proc[p].snapshot.bridges
         /\ \/ /\ proc[p].rollback /\ proc[p].snapshot # None
               /\ proc[p].cmd \in {"up", "recreate"}
               /\ stateFile = None /\ lost.containers = {}
            \/ /\ ~proc[p].rollback /\ proc[p].snapshot = stateFile
               /\ proc[p].cmd \in {"recreate", "down", "purge"}
         /\ bridges \subseteq lost.bridges \cup Recorded(proc[p].snapshot)
         /\ proc[p].pc # "list" => lost.containers = {}
  <1>1. /\ proc[p] \in Process /\ HoldsOK(proc[p])
        /\ CommandOK(proc[p]) /\ KnowsOK(proc[p])
    BY DEF TypeOK, ProcsOK, AccountOf
  <1>2. /\ proc[p].snapshot \in Inventory \cup {None}
        /\ proc[p].rollback \in BOOLEAN
    BY <1>1 DEF Process
  <1>3. proc[p].snapshot # None => ~proc[p].snapshot.legacy BY <1>1 DEF KnowsOK
  <1>4. Recorded(proc[p].snapshot) =
          IF proc[p].snapshot = None THEN {} ELSE proc[p].snapshot.bridges
    BY <1>3 DEF Recorded, IsLegacy
  <1>5. CASE proc[p].rollback
    <2>1. proc[p].snapshot # None BY <1>1, <1>5, NoneAssumption DEF HoldsOK
    <2>2. /\ stateFile = None /\ lost.containers = {}
          /\ proc[p].cmd \in {"up", "recreate"}
      BY <1>1, <1>5 DEF KnowsOK, CommandOK
    <2>3. Recorded(stateFile) = {} BY <2>2 DEF Recorded, IsLegacy
    <2> QED BY <1>1, <1>2, <1>3, <1>4, <1>5, <2>1, <2>2, <2>3 DEF AccountOf
  <1>6. CASE ~proc[p].rollback
    <2>1. proc[p].snapshot = stateFile BY <1>1, <1>6 DEF KnowsOK
    <2>2. proc[p].cmd \in {"recreate", "down", "purge"}
      BY <1>1, <1>6 DEF CommandOK, CleanupSteps
    <2>3. proc[p].pc # "list" => lost.containers = {} BY <1>1 DEF KnowsOK
    <2> QED BY <1>1, <1>2, <1>3, <1>4, <1>6, <2>1, <2>2, <2>3 DEF AccountOf
  <1> QED BY <1>2, <1>5, <1>6

\* A step inside the cleanup.
LEMMA CleanupAccount ==
  ASSUME TypeOK, NEW p \in Procs, AccountOf(p),
         proc[p].pc \in {"list", "remove", "bridges"},
         \/ proc'[p].pc \in {"remove", "bridges"}
         \/ proc'[p].pc = "save" /\ proc[p].rollback,
         proc'[p].cmd = proc[p].cmd, proc'[p].rollback = proc[p].rollback,
         proc'[p].snapshot = proc[p].snapshot,
         stateFile' = stateFile, lost' = lost, bridges' \subseteq bridges,
         lost.containers = {},
         proc[p].snapshot = None => proc'[p].todo = {},
         proc'[p].pc = "bridges" /\ proc[p].snapshot # None /\ ~proc'[p].err =>
           proc[p].snapshot.bridges \cap bridges' \subseteq proc'[p].todoBridges
  PROVE  AccountOf(p)'
  <1>1. CommandOK(proc[p])' BY CleanupFacts DEF CommandOK, UpSteps, CleanupSteps
  <1>2. KnowsOK(proc[p])'
    <2>1. proc'[p].snapshot # None => ~proc'[p].snapshot.legacy BY CleanupFacts
    <2>2. proc'[p].pc \in UpSteps \cup {"save"} \/ proc'[p].rollback =>
            stateFile' = None /\ lost'.containers = {}
      BY CleanupFacts DEF UpSteps
    <2>3. proc'[p].pc \in {"list", "remove", "bridges"} /\ ~proc'[p].rollback =>
            proc'[p].snapshot = stateFile'
      BY CleanupFacts
    <2> QED BY <2>1, <2>2, <2>3 DEF KnowsOK
  <1>3. Recorded(proc[p].snapshot)' = Recorded(proc[p].snapshot)
    BY DEF Recorded, IsLegacy
  <1>4. bridges' \subseteq lost'.bridges \cup Recorded(proc[p].snapshot)'
    BY <1>3, CleanupFacts
  <1>5. lost'.containers = {} BY CleanupFacts
  <1> QED BY <1>1, <1>2, <1>4, <1>5 DEF AccountOf

LEMMA ReadStateAccount ==
  ASSUME TypeOK, TypeOK', NEW p \in Procs, AccountOf(p), ReadState(p)
  PROVE  AccountOf(p)'
  <1>1. UNCHANGED <<bridges, stateFile, lost, containers>> BY DEF ReadState, host, disk
  <1>2. proc[p].snapshot = None /\ bridges \subseteq Recorded(stateFile) \cup lost.bridges
    BY NoSnapshot DEF ReadState, At
  <1>3. CASE End(p) BY <1>1, <1>2, <1>3, EndAccount DEF AccountOf
  <1>4. CASE ~IsLegacy(stateFile)
             /\ Become(p, [proc[p] EXCEPT !.pc = "list", !.snapshot = stateFile])
    <2>1. proc[p] \in Process /\ proc[p].pc = "read" /\ ~proc[p].rollback
      BY DEF TypeOK, ProcsOK, ReadState, At, HoldsOK, Process
    <2>2. /\ proc'[p].pc = "list" /\ proc'[p].snapshot = stateFile
          /\ ~proc'[p].rollback /\ proc'[p].cmd = proc[p].cmd
      BY <1>4, <2>1, BecomeFact, ZenonT(60) DEF Process
    <2>3. proc[p].cmd \in {"recreate", "down", "purge"}
      BY <2>1 DEF AccountOf, CommandOK, CleanupSteps
    <2>4. stateFile # None => ~stateFile.legacy BY <1>4 DEF IsLegacy
    <2>5. CommandOK(proc[p])' BY <2>2, <2>3 DEF CommandOK, UpSteps, CleanupSteps
    <2>6. KnowsOK(proc[p])' BY <1>1, <2>2, <2>4 DEF KnowsOK, UpSteps
    <2>7. Recorded(stateFile)' = Recorded(stateFile) BY <1>1 DEF Recorded, IsLegacy
    <2> QED BY <1>1, <1>2, <2>5, <2>6, <2>7 DEF AccountOf
  <1> QED BY <1>3, <1>4 DEF ReadState

LEMMA ListLabelledAccount ==
  ASSUME TypeOK, TypeOK', NEW p \in Procs, AccountOf(p), ListLabelled(p)
  PROVE  AccountOf(p)'
  <1> DEFINE known == proc[p].snapshot # None
             recorded == IF known THEN proc[p].snapshot.containers ELSE {}
             s == [proc[p] EXCEPT !.pc = "remove", !.todo = recorded \cup containers]
             t == [proc[p] EXCEPT !.pc = "remove", !.err = TRUE, !.todo = recorded]
  <1>1. UNCHANGED <<bridges, stateFile, lost, containers>>
    BY DEF ListLabelled, host, disk
  <1>2. proc[p].pc = "list" BY DEF ListLabelled, At
  <1>3. proc[p] \in Process BY DEF TypeOK, ProcsOK
  <1>4. CASE ~known /\ End(p)
    <2>1. ~proc[p].rollback /\ stateFile = None /\ bridges \subseteq lost.bridges
      BY <1>2, <1>4, CleanupFacts
    <2> QED BY <1>1, <1>4, <2>1, EndAccount DEF AccountOf
  <1>5. CASE \/ (known \/ containers = {}) /\ Become(p, s)
             \/ known /\ Become(p, t)
    <2>1. \/ (known \/ containers = {}) /\ proc'[p] = s
          \/ known /\ proc'[p] = t
      BY <1>5, BecomeFact
    <2>2. /\ proc'[p].pc = "remove" /\ proc'[p].snapshot = proc[p].snapshot
          /\ proc'[p].rollback = proc[p].rollback /\ proc'[p].cmd = proc[p].cmd
      <3> HIDE DEF recorded
      <3> QED BY <1>3, <2>1 DEF Process
    <2>3. proc[p].snapshot = None => proc'[p].todo = {}
      <3>1. CASE known BY <3>1
      <3>2. CASE ~known
        <4>1. recorded \cup containers = {} BY <1>5, <3>2
        <4> QED BY <1>3, <2>1, <3>2, <4>1 DEF Process
      <3> QED BY <3>1, <3>2
    <2>4. lost.containers = {}
      <3>1. CASE known
        <4>1. proc[p].rollback \/ stateFile # None BY <1>2, <3>1, CleanupFacts
        <4> QED BY <1>2, <4>1, CleanupFacts DEF AccountOf
      <3>2. CASE ~known BY <1>5, <3>2 DEF AccountOf
      <3> QED BY <3>1, <3>2
    <2> QED BY <1>1, <1>2, <2>2, <2>3, <2>4, CleanupAccount
  <1> QED BY <1>4, <1>5 DEF ListLabelled

LEMMA RemoveContainerAccount ==
  ASSUME TypeOK, TypeOK', NEW p \in Procs, AccountOf(p), RemoveContainer(p)
  PROVE  AccountOf(p)'
  <1>1. UNCHANGED <<bridges, stateFile, lost>> BY DEF RemoveContainer, disk
  <1>2. proc[p].pc = "remove" BY DEF RemoveContainer, At
  <1>3. proc[p] \in Process BY DEF TypeOK, ProcsOK
  <1>4. PICK c \in proc[p].todo :
          \/ Become(p, [proc[p] EXCEPT !.todo = @ \ {c}])
          \/ Become(p, [[proc[p] EXCEPT !.todo = @ \ {c}] EXCEPT !.err = TRUE])
    BY DEF RemoveContainer
  <1>5. \/ proc'[p] = [proc[p] EXCEPT !.todo = @ \ {c}]
        \/ proc'[p] = [[proc[p] EXCEPT !.todo = @ \ {c}] EXCEPT !.err = TRUE]
    BY <1>4, BecomeFact
  <1>6. /\ proc'[p].pc = "remove" /\ proc'[p].snapshot = proc[p].snapshot
        /\ proc'[p].rollback = proc[p].rollback /\ proc'[p].cmd = proc[p].cmd
    BY <1>2, <1>3, <1>5 DEF Process
  <1>7. proc[p].snapshot # None BY <1>2, <1>4 DEF AccountOf, KnowsOK
  <1>8. lost.containers = {} BY <1>2, CleanupFacts
  <1> QED BY <1>1, <1>2, <1>6, <1>7, <1>8, CleanupAccount

LEMMA DeleteVethsAccount ==
  ASSUME TypeOK, TypeOK', NEW p \in Procs, AccountOf(p), DeleteVeths(p)
  PROVE  AccountOf(p)'
  <1> DEFINE owned == IF proc[p].snapshot = None THEN {} ELSE proc[p].snapshot.bridges
             s == [proc[p] EXCEPT !.pc = "bridges", !.todoBridges = owned]
             t == [s EXCEPT !.err = TRUE]
  <1>1. UNCHANGED <<bridges, stateFile, lost>> BY DEF DeleteVeths, disk
  <1>2. proc[p].pc = "remove" BY DEF DeleteVeths, At
  <1>3. proc[p] \in Process BY DEF TypeOK, ProcsOK
  <1>4. proc'[p] = s \/ proc'[p] = t BY BecomeFact DEF DeleteVeths
  <1>5. /\ proc'[p].pc = "bridges" /\ proc'[p].snapshot = proc[p].snapshot
        /\ proc'[p].rollback = proc[p].rollback /\ proc'[p].cmd = proc[p].cmd
        /\ proc'[p].todo = proc[p].todo /\ proc'[p].todoBridges = owned
    <2> HIDE DEF owned
    <2> QED BY <1>3, <1>4 DEF Process
  <1>6. proc[p].snapshot = None => proc[p].todo = {} BY <1>2 DEF AccountOf, KnowsOK
  <1>7. proc[p].snapshot # None =>
          proc[p].snapshot.bridges \cap bridges' \subseteq proc'[p].todoBridges
    BY <1>5
  <1>8. lost.containers = {} BY <1>2, CleanupFacts
  <1> QED BY <1>1, <1>2, <1>5, <1>6, <1>7, <1>8, CleanupAccount

LEMMA DeleteBridgeAccount ==
  ASSUME TypeOK, TypeOK', NEW p \in Procs, AccountOf(p), DeleteBridge(p)
  PROVE  AccountOf(p)'
  <1>1. UNCHANGED <<stateFile, lost>> BY DEF DeleteBridge, disk
  <1>2. proc[p].pc = "bridges" BY DEF DeleteBridge, At
  <1>3. proc[p] \in Process BY DEF TypeOK, ProcsOK
  <1>4. PICK name \in proc[p].todoBridges :
          \/ /\ bridges' = bridges \ {name}
             /\ Become(p, [proc[p] EXCEPT !.todoBridges = @ \ {name}])
          \/ /\ Become(p, [[proc[p] EXCEPT !.todoBridges = @ \ {name}] EXCEPT !.err = TRUE])
             /\ UNCHANGED bridges
    BY DEF DeleteBridge
  <1>5. \/ /\ bridges' = bridges \ {name}
           /\ proc'[p] = [proc[p] EXCEPT !.todoBridges = @ \ {name}]
        \/ /\ proc'[p] = [[proc[p] EXCEPT !.todoBridges = @ \ {name}] EXCEPT !.err = TRUE]
           /\ UNCHANGED bridges
    BY <1>4, BecomeFact
  <1>6. /\ proc'[p].pc = "bridges" /\ proc'[p].snapshot = proc[p].snapshot
        /\ proc'[p].rollback = proc[p].rollback /\ proc'[p].cmd = proc[p].cmd
        /\ proc'[p].todo = proc[p].todo
    BY <1>2, <1>3, <1>5 DEF Process
  <1>7. /\ proc'[p].todoBridges = proc[p].todoBridges \ {name}
        /\ \/ bridges' = bridges \ {name} /\ proc'[p].err = proc[p].err
           \/ bridges' = bridges /\ proc'[p].err = TRUE
    BY <1>3, <1>5 DEF Process
  <1>8. /\ proc[p].snapshot = None => proc[p].todo = {}
        /\ proc[p].snapshot # None /\ ~proc[p].err =>
             proc[p].snapshot.bridges \cap bridges \subseteq proc[p].todoBridges
    BY <1>2 DEF AccountOf, KnowsOK
  <1>9. lost.containers = {} BY <1>2, CleanupFacts
  <1>10. proc[p].snapshot # None /\ ~proc'[p].err =>
           proc[p].snapshot.bridges \cap bridges' \subseteq proc'[p].todoBridges
    BY <1>7, <1>8
  <1>11. bridges' \subseteq bridges BY <1>7
  <1> QED BY <1>1, <1>2, <1>6, <1>8, <1>9, <1>10, <1>11, CleanupAccount

\* A cleanup that saw no error has left no bridge that needs the state file.
LEMMA ErasedIsClean ==
  ASSUME TypeOK, NEW p \in Procs, AccountOf(p), proc[p].pc = "bridges",
         proc[p].todoBridges = {}, ~proc[p].err
  PROVE  bridges \subseteq lost.bridges
  <1>1. Recorded(proc[p].snapshot) \cap bridges = {}
    BY CleanupFacts DEF AccountOf, KnowsOK
  <1> QED BY <1>1, CleanupFacts

LEMMA EraseStateAccount ==
  ASSUME TypeOK, TypeOK', NEW p \in Procs, AccountOf(p), EraseState(p)
  PROVE  AccountOf(p)'
  <1>1. bridges' = bridges /\ lost' = lost /\ containers' = containers
    BY DEF EraseState, host
  <1>2. proc[p].pc = "bridges" /\ proc[p].todoBridges = {} BY DEF EraseState, At
  <1>3. proc[p] \in Process BY DEF TypeOK, ProcsOK
  <1>4. lost.containers = {} BY <1>2, CleanupFacts
  <1>5. CASE ~proc[p].err /\ stateFile' = None /\ AfterCleanup(p)
    <2>1. bridges' \subseteq lost'.bridges BY <1>1, <1>2, <1>5, ErasedIsClean
    <2>2. CASE End(p) BY <1>1, <1>4, <1>5, <2>1, <2>2, EndAccount
    <2>3. ASSUME NEW step \in {"mkdir", "purge"}, Resume(p, step),
                 step = "mkdir" => proc[p].cmd = "recreate",
                 step = "purge" => proc[p].cmd = "purge"
          PROVE  AccountOf(p)'
      <3>1. proc'[p] = [Idle EXCEPT !.pc = step, !.cmd = proc[p].cmd,
                          !.topo = proc[p].topo, !.cancelled = proc[p].cancelled]
        BY <2>3, BecomeFact DEF Resume
      <3>2. /\ proc'[p].pc = step /\ proc'[p].cmd = proc[p].cmd
            /\ proc'[p].snapshot = None /\ proc'[p].rollback = FALSE
        BY <3>1 DEF Idle
      <3>3. CommandOK(proc[p])' BY <2>3, <3>2 DEF CommandOK, UpSteps, CleanupSteps
      <3>4. KnowsOK(proc[p])' BY <1>1, <1>4, <1>5, <2>3, <3>2 DEF KnowsOK, UpSteps
      <3> QED BY <1>1, <1>4, <1>5, <2>1, <3>3, <3>4 DEF AccountOf
    <2> QED BY <1>5, <2>2, <2>3 DEF AfterCleanup
  <1>6. CASE KeepInventory(p) /\ stateFile' = stateFile
    <2>1. CASE proc[p].rollback
      <3>1. proc'[p] = [proc[p] EXCEPT !.pc = "save"]
        BY <1>6, <2>1, BecomeFact DEF KeepInventory, Goto
      <3>2. /\ proc'[p].pc = "save" /\ proc'[p].snapshot = proc[p].snapshot
            /\ proc'[p].rollback = proc[p].rollback /\ proc'[p].cmd = proc[p].cmd
        BY <1>3, <3>1 DEF Process
      <3>3. proc[p].snapshot # None BY <1>2, <2>1, CleanupFacts
      <3> QED BY <1>1, <1>2, <1>4, <1>6, <2>1, <3>2, <3>3, CleanupAccount
    <2>2. CASE ~proc[p].rollback
      <3>1. End(p) BY <1>6, <2>2 DEF KeepInventory
      <3>2. Recorded(proc[p].snapshot) = Recorded(stateFile)
        BY <1>2, <2>2, CleanupFacts
      <3>3. Recorded(stateFile)' = Recorded(stateFile) BY <1>6 DEF Recorded, IsLegacy
      <3>4. bridges \subseteq Recorded(stateFile) \cup lost.bridges
        BY <3>2 DEF AccountOf
      <3> QED BY <1>1, <1>4, <3>1, <3>3, <3>4, EndAccount
    <2> QED BY <2>1, <2>2
  <1> QED BY <1>5, <1>6 DEF EraseState

LEMMA SaveInventoryAccount ==
  ASSUME TypeOK, TypeOK', NEW p \in Procs, AccountOf(p), SaveInventory(p)
  PROVE  AccountOf(p)'
  <1>1. bridges' = bridges /\ containers' = containers BY DEF SaveInventory, host
  <1>2. /\ proc[p].pc = "save" /\ KnowsOK(proc[p])
        /\ proc[p].snapshot \in Inventory
    BY DEF SaveInventory, At, TypeOK, ProcsOK, HoldsOK, AccountOf
  <1>3. /\ stateFile = None /\ lost.containers = {} /\ ~proc[p].snapshot.legacy
        /\ proc[p].snapshot # None
    BY <1>2, NoneAssumption DEF KnowsOK
  <1>4. bridges \subseteq lost.bridges \cup proc[p].snapshot.bridges
    BY <1>3 DEF AccountOf, Recorded, IsLegacy
  <1>5. CASE stateFile' = proc[p].snapshot /\ UNCHANGED lost
    <2>1. Recorded(stateFile)' = proc[p].snapshot.bridges
      BY <1>3, <1>5 DEF Recorded, IsLegacy
    <2> QED BY <1>1, <1>3, <1>4, <1>5, <2>1, EndAccount DEF SaveInventory
  <1>6. CASE Forget /\ UNCHANGED disk
    <2>1. lost'.bridges = bridges /\ lost'.containers = containers
      BY <1>3, <1>6 DEF Forget
    <2> QED BY <1>1, <1>3, <1>6, <2>1, EndAccount DEF SaveInventory, disk
  <1> QED BY <1>5, <1>6 DEF SaveInventory

LEMMA PurgeAccount ==
  ASSUME TypeOK, TypeOK', NEW p \in Procs, AccountOf(p), Purge(p)
  PROVE  AccountOf(p)'
  <1>1. bridges' = bridges /\ lost' = lost /\ containers' = containers
    BY DEF Purge, host
  <1>2. proc[p].pc = "purge" BY DEF Purge, At
  <1>3. stateFile = None BY <1>2 DEF AccountOf, KnowsOK
  <1>4. stateFile' = None BY <1>3 DEF Purge, disk
  <1>5. bridges \subseteq lost.bridges BY <1>2, <1>3, NoSnapshot DEF Recorded, IsLegacy
  <1> QED BY <1>1, <1>4, <1>5, EndAccount DEF Purge, AccountOf

LEMMA ReadLegacyAccount ==
  ASSUME TypeOK, TypeOK', NEW p \in Procs, AccountOf(p), ReadLegacy(p)
  PROVE  AccountOf(p)'
  <1> DEFINE migrated == [stateFile EXCEPT !.legacy = FALSE,
                             !.bridges = BridgeLinks(proc[p].topo)]
  <1>1. /\ bridges' = bridges /\ lost' = lost /\ containers' = containers
        /\ stateFile' = stateFile
    BY DEF ReadLegacy, host, disk
  <1>2. proc[p].snapshot = None /\ bridges \subseteq Recorded(stateFile) \cup lost.bridges
    BY NoSnapshot DEF ReadLegacy, At
  <1>3. CASE End(p) BY <1>1, <1>2, <1>3, EndAccount DEF AccountOf
  <1>4. CASE /\ IsLegacy(stateFile) /\ stateFile.digest = proc[p].topo
             /\ Become(p, [proc[p] EXCEPT !.pc = "write", !.snapshot = migrated])
    <2>1. proc[p] \in Process /\ proc[p].pc = "migrate" /\ ~proc[p].rollback
      BY DEF TypeOK, ProcsOK, ReadLegacy, At, HoldsOK, Process
    <2>2. proc[p].cmd = "migrate" BY <2>1 DEF AccountOf, CommandOK
    <2>3. stateFile \in Inventory BY <1>4 DEF IsLegacy, TypeOK, SharedTypeOK
    <2>4. /\ migrated.legacy = FALSE
          /\ migrated.bridges = BridgeLinks(stateFile.digest)
      BY <1>4, <2>3 DEF Inventory
    <2> HIDE DEF migrated
    <2>5. proc'[p] = [proc[p] EXCEPT !.pc = "write", !.snapshot = migrated]
      BY <1>4, BecomeFact
    <2>6. /\ proc'[p].pc = "write" /\ proc'[p].snapshot = migrated
          /\ ~proc'[p].rollback /\ proc'[p].cmd = "migrate"
      BY <2>1, <2>2, <2>5 DEF Process
    <2>7. CommandOK(proc[p])' BY <2>6 DEF CommandOK, UpSteps, CleanupSteps
    <2>8. KnowsOK(proc[p])'
      BY <1>1, <1>4, <2>4, <2>6 DEF KnowsOK, UpSteps, IsLegacy
    <2>9. Recorded(stateFile)' = Recorded(stateFile) BY <1>1 DEF Recorded, IsLegacy
    <2> QED BY <1>1, <1>2, <2>7, <2>8, <2>9 DEF AccountOf
  <1> QED BY <1>3, <1>4 DEF ReadLegacy

LEMMA WriteMigratedAccount ==
  ASSUME TypeOK, TypeOK', NEW p \in Procs, AccountOf(p), WriteMigrated(p)
  PROVE  AccountOf(p)'
  <1>1. bridges' = bridges /\ lost' = lost /\ containers' = containers
    BY DEF WriteMigrated, host
  <1>2. /\ proc[p].pc = "write" /\ KnowsOK(proc[p])
        /\ proc[p].snapshot \in Inventory
    BY DEF WriteMigrated, At, TypeOK, ProcsOK, HoldsOK, AccountOf
  <1>3. /\ IsLegacy(stateFile) /\ stateFile # None /\ proc[p].snapshot # None
        /\ ~proc[p].snapshot.legacy
        /\ proc[p].snapshot.bridges = BridgeLinks(stateFile.digest)
    BY <1>2, NoneAssumption DEF KnowsOK, IsLegacy
  <1>4. /\ Recorded(stateFile) = BridgeLinks(stateFile.digest)
        /\ Recorded(proc[p].snapshot) = BridgeLinks(stateFile.digest)
    BY <1>3 DEF Recorded, IsLegacy
  <1>5. lost.containers = {} /\ bridges \subseteq BridgeLinks(stateFile.digest) \cup lost.bridges
    BY <1>3, <1>4 DEF AccountOf
  <1>6. Recorded(stateFile)' = BridgeLinks(stateFile.digest)
    <2>1. stateFile' = proc[p].snapshot \/ stateFile' = stateFile
      BY DEF WriteMigrated, disk
    <2> QED BY <1>3, <1>4, <2>1 DEF Recorded, IsLegacy
  <1> QED BY <1>1, <1>5, <1>6, EndAccount DEF WriteMigrated

LEMMA UserAccount ==
  ASSUME TypeOK, NEW p \in Procs, AccountOf(p), EditYaml \/ OperatorRemove
  PROVE  AccountOf(p)'
  <1>1. bridges' = bridges /\ stateFile' = stateFile /\ proc' = proc
    BY DEF EditYaml, OperatorRemove, host, disk
  <1>2. proc[p].pc = "idle" BY DEF EditYaml, OperatorRemove, Quiescent, At
  <1>3. /\ lost'.bridges = lost.bridges /\ lost'.containers \subseteq containers'
        /\ stateFile # None => lost'.containers = {}
    <2>1. CASE EditYaml BY <2>1 DEF EditYaml, host, AccountOf
    <2>2. CASE OperatorRemove
      BY <2>2 DEF OperatorRemove, AccountOf, TypeOK, SharedTypeOK
    <2> QED BY <2>1, <2>2
  <1>4. KnowsOK(proc[p])'
    <2>1. KnowsOK(proc[p]) /\ CommandOK(proc[p]) /\ HoldsOK(proc[p])
      BY DEF AccountOf, TypeOK, ProcsOK
    <2>2. ~proc[p].rollback BY <1>2, <2>1 DEF HoldsOK
    <2> QED BY <1>1, <1>2, <2>1, <2>2 DEF KnowsOK, UpSteps
  <1>5. CommandOK(proc[p])' BY <1>1 DEF AccountOf, CommandOK
  <1>6. Recorded(stateFile)' = Recorded(stateFile)
        /\ Recorded(proc[p].snapshot)' = Recorded(proc[p].snapshot)
    BY <1>1 DEF Recorded, IsLegacy
  <1> QED BY <1>1, <1>3, <1>4, <1>5, <1>6 DEF AccountOf

-----------------------------------------------------------------------------
(* The theorems.                                                           *)

LEMMA StepAccount ==
  ASSUME TypeOK, TypeOK', NEW p \in Procs, AccountOf(p), Step(p)
  PROVE  AccountOf(p)'
  <1>1. ASSUME AttachMember(p) \/ AttachP2P(p) PROVE AccountOf(p)'
    BY <1>1, AttachAccount DEF AttachMember, AttachP2P
  <1> QED
    BY <1>1, StatStateAccount, ListExistingAccount, OpenSnapshotAccount,
       CreateContainerAccount, BootContainerAccount, EnsureBridgeAccount,
       ConfigureRoutersAccount, CommitAccount, ReadStateAccount,
       ListLabelledAccount, RemoveContainerAccount, DeleteVethsAccount,
       DeleteBridgeAccount, EraseStateAccount, SaveInventoryAccount,
       PurgeAccount, ReadLegacyAccount, WriteMigratedAccount
    DEF Step

LEMMA InitAccount == ASSUME Init PROVE AccountInv
  <1>1. TypeOK BY InitType
  <1>2. \A p \in Procs : proc[p] = Idle BY DEF Init
  <1>3. lost.containers = {} /\ lost.bridges = {} BY DEF Init
  <1>4. \A p \in Procs : CommandOK(proc[p]) /\ KnowsOK(proc[p])
    BY <1>2, IdleFacts DEF KnowsOK, UpSteps
  <1>5. bridges \subseteq Recorded(stateFile)
    <2>1. CASE Fresh BY <2>1 DEF Fresh
    <2>2. ASSUME NEW legacy \in BOOLEAN, Running(legacy)
          PROVE  bridges \subseteq Recorded(stateFile)
      <3>1. stateFile # None
        BY <2>2, RunningStateFile, NoneAssumption DEF Init
      <3>2. /\ bridges = BridgeLinks(yaml)
            /\ stateFile.legacy = legacy /\ stateFile.digest = yaml
            /\ legacy = FALSE => stateFile.bridges = BridgeLinks(yaml)
        BY <2>2 DEF Running
      <3> QED BY <3>1, <3>2 DEF Recorded, IsLegacy
    <2> QED BY <2>1, <2>2 DEF Init
  <1> QED BY <1>1, <1>3, <1>4, <1>5
          DEF AccountInv, BridgesAccounted, UnknownContainersStay

LEMMA NextAccount ==
  ASSUME OneCommand, AccountInv, [Next]_vars PROVE AccountInv'
  <1>1. TypeOK BY DEF AccountInv
  <1>2. TypeOK' BY <1>1, NextType
  <1>3. ASSUME NEW p \in Procs,
               \/ Step(p) \/ Cancel(p) \/ Kill(p)
               \/ \E cmd \in Commands : Begin(p, cmd)
        PROVE  AccountInv'
    <2>1. AccountOf(p) BY AccountOne
    <2>2. AccountOf(p)'
      BY <1>1, <1>2, <1>3, <2>1, StepAccount, CancelAccount, KillAccount, BeginAccount
    <2> QED BY <1>2, <2>2, AccountOneNext
  <1>4. CASE EditYaml \/ OperatorRemove
    BY <1>1, <1>2, <1>4, UserAccount, AccountOne, AccountOneNext DEF OneCommand
  <1>5. CASE UNCHANGED vars
    BY <1>2, <1>5 DEF vars, AccountInv, BridgesAccounted, UnknownContainersStay,
                      CommandOK, KnowsOK, Recorded, IsLegacy
  <1> QED BY <1>3, <1>4, <1>5 DEF Next

\* While commands run one at a time, what each of them knows, the state file
\* and what vanished with a kill account for the lab, at every call.
THEOREM AccountHolds == OneCommand => (Spec => []AccountInv)
  <1> SUFFICES ASSUME OneCommand PROVE Spec => []AccountInv OBVIOUS
  <1>1. Init => AccountInv BY InitAccount
  <1>2. AccountInv /\ [Next]_vars => AccountInv' BY NextAccount
  <1> QED BY <1>1, <1>2, PTL DEF Spec

\* No bridge leaks, whatever call fails, is cancelled or killed: EnsureBridge
\* runs after its bridge is recorded, and the record outlives the bridge.
THEOREM NoBridgeLeaks == OneCommand => (Spec => []BridgesAccounted)
  <1>1. AccountInv => BridgesAccounted BY DEF AccountInv
  <1> QED BY <1>1, AccountHolds, PTL

\* No command removes a container that no state file ever accounted for.
THEOREM UnknownContainersAreSafe == OneCommand => (Spec => []UnknownContainersStay)
  <1>1. AccountInv => UnknownContainersStay BY DEF AccountInv
  <1> QED BY <1>1, AccountHolds, PTL

-----------------------------------------------------------------------------
(* A legacy lab: no command that builds or removes anything gets past the  *)
(* state file.                                                             *)

\* No call writes a legacy inventory.
LEMMA LegacyIsOld ==
  ASSUME OneCommand, AccountInv, [Next]_vars, IsLegacy(stateFile)'
  PROVE  stateFile' = stateFile
  <1>1. ASSUME NEW p \in Procs, Step(p) PROVE stateFile' = stateFile
    <2>1. /\ proc[p].pc \in {"commit", "save", "write"} => proc[p].snapshot # None
          /\ proc[p].snapshot # None => ~proc[p].snapshot.legacy
      BY NoneAssumption DEF AccountInv, TypeOK, ProcsOK, HoldsOK, KnowsOK
    <2>2. \/ stateFile' = stateFile \/ stateFile' = None
          \/ proc[p].pc \in {"commit", "save", "write"} /\ stateFile' = proc[p].snapshot
      <3>1. CASE Commit(p) \/ SaveInventory(p) \/ WriteMigrated(p)
        BY <3>1 DEF Commit, SaveInventory, WriteMigrated, At, disk
      <3>2. CASE EraseState(p) \/ Purge(p) BY <3>2 DEF EraseState, Purge, disk
      <3>3. CASE \/ StatState(p) \/ ListExisting(p) \/ OpenSnapshot(p)
                 \/ CreateContainer(p) \/ BootContainer(p) \/ EnsureBridge(p)
                 \/ AttachMember(p) \/ AttachP2P(p) \/ ConfigureRouters(p)
        BY <3>3 DEF StatState, ListExisting, OpenSnapshot, CreateContainer, BootContainer,
                    EnsureBridge, AttachMember, AttachP2P, Attach, ConfigureRouters, disk
      <3>4. CASE \/ ReadState(p) \/ ListLabelled(p) \/ RemoveContainer(p)
                 \/ DeleteVeths(p) \/ DeleteBridge(p) \/ ReadLegacy(p)
        <4>1. ReadState(p) \/ ReadLegacy(p) => stateFile' = stateFile
          BY DEF ReadState, ReadLegacy, disk
        <4>2. ListLabelled(p) => stateFile' = stateFile BY DEF ListLabelled, disk
        <4>3. RemoveContainer(p) => stateFile' = stateFile BY DEF RemoveContainer, disk
        <4>4. DeleteVeths(p) => stateFile' = stateFile BY DEF DeleteVeths, disk
        <4>5. DeleteBridge(p) => stateFile' = stateFile BY DEF DeleteBridge, disk
        <4> QED BY <3>4, <4>1, <4>2, <4>3, <4>4, <4>5
      <3> QED BY <1>1, <3>1, <3>2, <3>3, <3>4 DEF Step
    <2> QED BY <2>1, <2>2 DEF IsLegacy
  <1>2. ASSUME NEW p \in Procs, Cancel(p) \/ Kill(p) \/ \E cmd \in Commands : Begin(p, cmd)
        PROVE  stateFile' = stateFile
    <2>1. Cancel(p) => stateFile' = stateFile BY DEF Cancel, disk
    <2>2. Kill(p) => stateFile' = stateFile BY DEF Kill, disk
    <2>3. ASSUME NEW cmd \in Commands, Begin(p, cmd) PROVE stateFile' = stateFile
      BY <2>3 DEF Begin, disk
    <2> QED BY <1>2, <2>1, <2>2, <2>3
  <1>3. CASE EditYaml \/ OperatorRemove BY <1>3 DEF EditYaml, OperatorRemove, disk
  <1>4. CASE UNCHANGED vars BY <1>4 DEF vars
  <1> QED BY <1>1, <1>2, <1>3, <1>4 DEF Next

\* While the state file is a legacy one, a command reads or migrates it.
LEMMA LegacyStopsCommands ==
  ASSUME AccountInv, IsLegacy(stateFile), NEW p \in Procs
  PROVE  proc[p].pc \in {"idle", "stat", "read", "migrate", "write"}
  <1>1. /\ KnowsOK(proc[p]) /\ proc[p] \in Process /\ HoldsOK(proc[p])
        /\ stateFile # None
    BY DEF AccountInv, TypeOK, ProcsOK, IsLegacy
  <1>2. ~proc[p].rollback BY <1>1 DEF KnowsOK
  <1>3. proc[p].pc \notin UpSteps \cup {"save", "exists", "purge"} BY <1>1 DEF KnowsOK
  <1>4. proc[p].pc \notin {"list", "remove", "bridges"}
    BY <1>1, <1>2 DEF KnowsOK, IsLegacy
  <1> QED BY <1>1, <1>3, <1>4 DEF Process, Steps, CleanupSteps, UpSteps

LEMMA LegacyKeepsHost ==
  ASSUME OneCommand, AccountInv, IsLegacy(stateFile), [Next]_vars
  PROVE  containers' = containers /\ bridges' = bridges
  <1>1. ASSUME NEW p \in Procs, Step(p) PROVE containers' = containers /\ bridges' = bridges
    <2>1. proc[p].pc \in {"stat", "read", "migrate", "write", "idle"}
      BY LegacyStopsCommands
    <2>2. /\ ~ListExisting(p) /\ ~OpenSnapshot(p) /\ ~CreateContainer(p)
          /\ ~BootContainer(p) /\ ~EnsureBridge(p) /\ ~AttachMember(p)
          /\ ~AttachP2P(p) /\ ~ConfigureRouters(p) /\ ~Commit(p)
      BY <2>1 DEF ListExisting, OpenSnapshot, CreateContainer, BootContainer, EnsureBridge,
                  AttachMember, AttachP2P, ConfigureRouters, Commit, At
    <2>3. /\ ~ListLabelled(p) /\ ~RemoveContainer(p) /\ ~DeleteVeths(p)
          /\ ~DeleteBridge(p) /\ ~EraseState(p) /\ ~SaveInventory(p) /\ ~Purge(p)
      <3>1. ~ListLabelled(p) BY <2>1 DEF ListLabelled, At
      <3>2. ~RemoveContainer(p)
        <4>1. RemoveContainer(p) => At(p, "remove") BY Zenon DEF RemoveContainer
        <4> QED BY <2>1, <4>1 DEF At
      <3>3. ~DeleteVeths(p) BY <2>1 DEF DeleteVeths, At
      <3>4. ~DeleteBridge(p)
        <4>1. DeleteBridge(p) => At(p, "bridges") BY Zenon DEF DeleteBridge
        <4> QED BY <2>1, <4>1 DEF At
      <3>5. ~EraseState(p) /\ ~SaveInventory(p) /\ ~Purge(p)
        BY <2>1 DEF EraseState, SaveInventory, Purge, At
      <3> QED BY <3>1, <3>2, <3>3, <3>4, <3>5
    <2>4. \/ StatState(p) \/ ReadState(p) \/ ReadLegacy(p) \/ WriteMigrated(p)
      BY <1>1, <2>2, <2>3 DEF Step
    <2> QED BY <2>4 DEF StatState, ReadState, ReadLegacy, WriteMigrated, host
  <1>2. CASE OperatorRemove
    <2>1. lost.containers = {} BY DEF AccountInv, IsLegacy
    <2> QED BY <1>2, <2>1 DEF OperatorRemove
  <1>3. ASSUME NEW p \in Procs, Cancel(p) \/ Kill(p) \/ \E cmd \in Commands : Begin(p, cmd)
        PROVE  containers' = containers /\ bridges' = bridges
    <2>1. Cancel(p) => containers' = containers /\ bridges' = bridges BY DEF Cancel, host
    <2>2. Kill(p) => containers' = containers /\ bridges' = bridges BY DEF Kill, host
    <2>3. ASSUME NEW cmd \in Commands, Begin(p, cmd)
          PROVE  containers' = containers /\ bridges' = bridges
      BY <2>3 DEF Begin, host
    <2> QED BY <1>3, <2>1, <2>2, <2>3
  <1>4. CASE EditYaml BY <1>4 DEF EditYaml, host
  <1>5. CASE UNCHANGED vars BY <1>5 DEF vars
  <1> QED BY <1>1, <1>2, <1>3, <1>4, <1>5 DEF Next

\* A legacy lab keeps its containers and bridges until it is migrated:
\* cleanups refuse its state file, and up refuses to build beside it.
THEOREM LegacyLabsAreKept == OneCommand => (Spec => []LegacyIsUntouched)
  <1> SUFFICES ASSUME OneCommand PROVE Spec => []LegacyIsUntouched OBVIOUS
  <1>1. Init => LegacyIsUntouched
    <2> SUFFICES ASSUME Init, IsLegacy(stateFile)
                 PROVE  /\ stateFile.containers \subseteq containers
                        /\ BridgeLinks(stateFile.digest) \subseteq bridges
      BY DEF LegacyIsUntouched
    <2>1. ~Fresh BY DEF Fresh, IsLegacy
    <2> QED BY <2>1 DEF Init, Running
  <1>2. AccountInv /\ LegacyIsUntouched /\ [Next]_vars => LegacyIsUntouched'
    BY LegacyIsOld, LegacyKeepsHost DEF LegacyIsUntouched, IsLegacy
  <1> QED BY <1>1, <1>2, AccountHolds, PTL DEF Spec

-----------------------------------------------------------------------------
(* Cleanups and migrations that run at the same time, any number of them.  *)
(* Nothing is built then, so that what one of them has seen to be gone is  *)
(* gone for all.                                                           *)

OnlyCleanups == Commands \subseteq {"down", "purge", "migrate"}

Empty == containers = {} /\ bridges = {}

\* What a command knows at each call, whatever the others do: its snapshot lists
\* every bridge there is, and one without a snapshot has found the lab gone; a
\* cleanup has not met a legacy lab; one that saw no error has the containers on
\* its list, then the bridges, then nothing.
CleanupOf(p) ==
  /\ CommandOK(proc[p]) /\ proc[p].cmd \notin {"up", "recreate"}
  /\ proc[p].snapshot # None =>
       ~proc[p].snapshot.legacy /\ bridges \subseteq proc[p].snapshot.bridges
  /\ proc[p].pc \in {"list", "remove", "bridges"} /\ proc[p].snapshot = None => Empty
  /\ proc[p].pc \in {"list", "remove", "bridges", "purge"} => ~IsLegacy(stateFile)
  /\ proc[p].pc = "remove" /\ ~proc[p].err => containers \subseteq proc[p].todo
  /\ proc[p].pc = "bridges" /\ ~proc[p].err =>
       containers = {} /\ bridges \subseteq proc[p].todoBridges
  /\ proc[p].pc = "purge" => Empty

LabOK ==
  /\ stateFile = None => Empty
  /\ bridges \subseteq Recorded(stateFile)
  /\ lost.containers = {} /\ lost.bridges = {}
  /\ LegacyIsUntouched

TogetherInv == TypeOK /\ LabOK /\ \A p \in Procs : CleanupOf(p)

\* What the others know stays as long as nothing is built.
LEMMA OthersStay ==
  ASSUME TogetherInv, TypeOK', NEW p \in Procs, NEW s, Become(p, s),
         containers' \subseteq containers, bridges' \subseteq bridges,
         IsLegacy(stateFile)' => IsLegacy(stateFile),
         LabOK', CleanupOf(p)'
  PROVE  TogetherInv'
  <1>1. ASSUME NEW q \in Procs, q # p PROVE CleanupOf(q)'
    <2>1. proc'[q] = proc[q] BY <1>1 DEF Become, TogetherInv, TypeOK, ProcsOK
    <2>2. CleanupOf(q) BY DEF TogetherInv
    <2>3. Empty => Empty' BY DEF Empty
    <2> QED BY <2>1, <2>2, <2>3 DEF CleanupOf, CommandOK
  <1> QED BY <1>1 DEF TogetherInv

\* A step that changes nothing on the host and in the state file.
LEMMA UnseenStep ==
  ASSUME TogetherInv, TypeOK', NEW p \in Procs, NEW s, Become(p, s),
         UNCHANGED <<containers, bridges, stateFile, lost>>, CleanupOf(p)'
  PROVE  TogetherInv'
  <1>1. Recorded(stateFile)' = Recorded(stateFile) /\ IsLegacy(stateFile)' = IsLegacy(stateFile)
    BY DEF Recorded, IsLegacy
  <1>2. LabOK' BY <1>1 DEF TogetherInv, LabOK, Empty, LegacyIsUntouched
  <1> QED BY <1>1, <1>2, OthersStay

LEMMA EndIsClean ==
  ASSUME TypeOK, NEW p \in Procs, End(p) PROVE CleanupOf(p)'
  <1>1. proc'[p] = Idle BY EndFact
  <1> QED BY <1>1, IdleFacts DEF CleanupOf, CommandOK

LEMMA QuietEnd ==
  ASSUME TogetherInv, TypeOK', NEW p \in Procs, End(p),
         UNCHANGED <<containers, bridges, stateFile, lost>>
  PROVE  TogetherInv'
  <1>1. TypeOK BY DEF TogetherInv
  <1>2. CleanupOf(p)' BY <1>1, EndIsClean
  <1> QED BY <1>2, UnseenStep DEF End

\* The calls there are when nobody builds.
LEMMA CleanupCalls ==
  ASSUME TogetherInv, NEW p \in Procs
  PROVE  /\ proc[p] \in Process /\ ~proc[p].rollback /\ CleanupOf(p)
         /\ proc[p].pc \in {"idle", "read", "list", "remove", "bridges", "purge",
                            "migrate", "write"}
         /\ proc[p].pc \in {"list", "remove", "bridges"} => proc[p].cmd \in {"down", "purge"}
  <1>1. CleanupOf(p) /\ proc[p] \in Process BY DEF TogetherInv, TypeOK, ProcsOK
  <1>2. CommandOK(proc[p]) /\ proc[p].cmd \notin {"up", "recreate"} BY <1>1 DEF CleanupOf
  <1>3. proc[p].pc \in Steps /\ proc[p].rollback \in BOOLEAN BY <1>1 DEF Process
  <1>4. ~proc[p].rollback BY <1>2, <1>3 DEF CommandOK
  <1> QED BY <1>1, <1>2, <1>3, <1>4 DEF CommandOK, Steps, UpSteps, CleanupSteps

LEMMA BeginTogether ==
  ASSUME OnlyCleanups, TogetherInv, TypeOK', NEW p \in Procs, NEW cmd \in Commands, Begin(p, cmd)
  PROVE  TogetherInv'
  <1> DEFINE s == [Idle EXCEPT !.pc = FirstStep(cmd), !.cmd = cmd, !.topo = yaml]
  <1>1. Become(p, s) /\ UNCHANGED <<containers, bridges, stateFile, lost>>
    BY DEF Begin, host, disk
  <1>2. TypeOK BY DEF TogetherInv
  <1>3. cmd \in {"down", "purge", "migrate"} BY DEF OnlyCleanups
  <1>4. FirstStep(cmd) = IF cmd = "migrate" THEN "migrate" ELSE "read"
    BY <1>3 DEF FirstStep
  <1>5. proc'[p] = s BY <1>1, <1>2, BecomeFact
  <1>6. /\ proc'[p].pc = FirstStep(cmd) /\ proc'[p].cmd = cmd /\ proc'[p].snapshot = None
        /\ proc'[p].rollback = FALSE
    BY <1>5 DEF Idle
  <1> HIDE DEF s
  <1>7. CommandOK(proc[p])' BY <1>3, <1>4, <1>6 DEF CommandOK, UpSteps, CleanupSteps
  <1>8. CleanupOf(p)' BY <1>3, <1>4, <1>6, <1>7 DEF CleanupOf
  <1> QED BY <1>1, <1>8, UnseenStep

LEMMA CancelTogether ==
  ASSUME TogetherInv, TypeOK', NEW p \in Procs, Cancel(p) PROVE TogetherInv'
  <1> DEFINE s == [proc[p] EXCEPT !.cancelled = TRUE]
  <1>1. Become(p, s) /\ UNCHANGED <<containers, bridges, stateFile, lost>>
    BY DEF Cancel, host, disk
  <1>2. TypeOK /\ proc[p] \in Process /\ CleanupOf(p) BY CleanupCalls DEF TogetherInv
  <1>3. proc'[p] = s BY <1>1, <1>2, BecomeFact
  <1>4. /\ proc'[p].pc = proc[p].pc /\ proc'[p].cmd = proc[p].cmd
        /\ proc'[p].snapshot = proc[p].snapshot /\ proc'[p].rollback = proc[p].rollback
        /\ proc'[p].err = proc[p].err /\ proc'[p].todo = proc[p].todo
        /\ proc'[p].todoBridges = proc[p].todoBridges
    BY <1>2, <1>3 DEF Process
  <1> HIDE DEF s
  <1>5. CleanupOf(p)' BY <1>1, <1>2, <1>4 DEF CleanupOf, CommandOK, Empty, IsLegacy
  <1> QED BY <1>1, <1>5, UnseenStep

\* A kill forgets nothing: without a state file there is nothing left.
LEMMA KillTogether ==
  ASSUME TogetherInv, TypeOK', NEW p \in Procs, Kill(p) PROVE TogetherInv'
  <1>1. UNCHANGED <<containers, bridges, stateFile>> /\ End(p) /\ Forget
    BY DEF Kill, host, disk
  <1>2. TypeOK /\ LabOK BY DEF TogetherInv
  <1>3. CleanupOf(p)' BY <1>1, <1>2, EndIsClean
  <1>4. lost'.containers = {} /\ lost'.bridges = {}
    BY <1>1, <1>2 DEF LabOK, Forget, Empty
  <1>5. Recorded(stateFile)' = Recorded(stateFile) /\ IsLegacy(stateFile)' = IsLegacy(stateFile)
    BY <1>1 DEF Recorded, IsLegacy
  <1>6. LabOK' BY <1>1, <1>2, <1>4, <1>5 DEF LabOK, Empty, LegacyIsUntouched
  <1> QED BY <1>1, <1>3, <1>5, <1>6, OthersStay DEF End

LEMMA ReadStateTogether ==
  ASSUME TogetherInv, TypeOK', NEW p \in Procs, ReadState(p) PROVE TogetherInv'
  <1>1. UNCHANGED <<containers, bridges, stateFile, lost>> BY DEF ReadState, host, disk
  <1>2. TypeOK /\ LabOK /\ proc[p] \in Process /\ CleanupOf(p) BY CleanupCalls DEF TogetherInv
  <1>3. CASE End(p) BY <1>1, <1>3, QuietEnd
  <1>4. CASE ~End(p)
    <2> DEFINE s == [proc[p] EXCEPT !.pc = "list", !.snapshot = stateFile]
    <2>1. ~IsLegacy(stateFile) /\ Become(p, s) BY <1>4 DEF ReadState
    <2>2. proc[p].pc = "read" BY DEF ReadState, At
    <2>3. proc'[p] = s BY <1>2, <2>1, BecomeFact
    <2>4. /\ proc'[p].pc = "list" /\ proc'[p].cmd = proc[p].cmd
          /\ proc'[p].snapshot = stateFile /\ proc'[p].rollback = proc[p].rollback
      BY <1>2, <2>3 DEF Process
    <2> HIDE DEF s
    <2>5. CommandOK(proc[p])' BY <1>2, <2>2, <2>4 DEF CleanupOf, CommandOK, UpSteps, CleanupSteps
    <2>6. stateFile # None => ~stateFile.legacy /\ bridges \subseteq stateFile.bridges
      BY <1>2, <2>1 DEF LabOK, Recorded, IsLegacy
    <2>7. IsLegacy(stateFile)' = IsLegacy(stateFile) BY <1>1 DEF IsLegacy
    <2>8. CleanupOf(p)'
      BY <1>1, <1>2, <2>1, <2>4, <2>5, <2>6, <2>7 DEF CleanupOf, LabOK, Empty
    <2> QED BY <1>1, <2>1, <2>8, UnseenStep
  <1> QED BY <1>3, <1>4

LEMMA ListLabelledTogether ==
  ASSUME TogetherInv, TypeOK', NEW p \in Procs, ListLabelled(p) PROVE TogetherInv'
  <1> DEFINE known == proc[p].snapshot # None
             recorded == IF known THEN proc[p].snapshot.containers ELSE {}
             s == [proc[p] EXCEPT !.pc = "remove", !.todo = recorded \cup containers]
             t == [proc[p] EXCEPT !.pc = "remove", !.err = TRUE, !.todo = recorded]
  <1>1. UNCHANGED <<containers, bridges, stateFile, lost>> BY DEF ListLabelled, host, disk
  <1>2. TypeOK /\ proc[p] \in Process /\ CleanupOf(p) BY CleanupCalls DEF TogetherInv
  <1>3. CASE End(p) BY <1>1, <1>3, QuietEnd
  <1>4. CASE ~End(p)
    <2>1. proc[p].pc = "list" BY DEF ListLabelled, At
    <2>2. Become(p, s) \/ Become(p, t) BY <1>4 DEF ListLabelled
    <2>3. proc'[p] = s \/ proc'[p] = t BY <1>2, <2>2, BecomeFact
    <2>4. /\ proc'[p].pc = "remove" /\ proc'[p].cmd = proc[p].cmd
          /\ proc'[p].snapshot = proc[p].snapshot /\ proc'[p].rollback = proc[p].rollback
          /\ ~proc'[p].err => proc'[p].todo = recorded \cup containers
      BY <1>2, <2>3 DEF Process
    <2> HIDE DEF s, t
    <2>5. CommandOK(proc[p])' BY <1>2, <2>1, <2>4 DEF CleanupOf, CommandOK, UpSteps, CleanupSteps
    <2>6. IsLegacy(stateFile)' = IsLegacy(stateFile) BY <1>1 DEF IsLegacy
    <2>7. ~proc'[p].err => containers \subseteq proc'[p].todo BY <2>4
    <2> HIDE DEF recorded
    <2>8. CleanupOf(p)' BY <1>1, <1>2, <2>1, <2>4, <2>5, <2>6, <2>7 DEF CleanupOf, Empty
    <2> QED BY <1>1, <2>2, <2>8, UnseenStep
  <1> QED BY <1>3, <1>4

LEMMA RemoveContainerTogether ==
  ASSUME TogetherInv, TypeOK', NEW p \in Procs, RemoveContainer(p) PROVE TogetherInv'
  <1>1. proc[p].pc = "remove" /\ UNCHANGED <<bridges, stateFile, lost>>
    <2>1. RemoveContainer(p) => At(p, "remove") /\ UNCHANGED <<bridges, disk, lost>>
      BY Zenon DEF RemoveContainer
    <2> QED BY <2>1 DEF At, disk
  <1>2. TypeOK /\ LabOK /\ proc[p] \in Process /\ CleanupOf(p) BY CleanupCalls DEF TogetherInv
  <1>3. PICK c \in proc[p].todo :
          \/ /\ containers' = containers \ {c}
             /\ Become(p, [proc[p] EXCEPT !.todo = @ \ {c}])
          \/ /\ containers' = containers \ {c} \/ containers' = containers
             /\ Become(p, [[proc[p] EXCEPT !.todo = @ \ {c}] EXCEPT !.err = TRUE])
    BY DEF RemoveContainer
  <1>4. \/ /\ containers' = containers \ {c}
           /\ proc'[p] = [proc[p] EXCEPT !.todo = @ \ {c}]
        \/ /\ containers' = containers \ {c} \/ containers' = containers
           /\ proc'[p] = [[proc[p] EXCEPT !.todo = @ \ {c}] EXCEPT !.err = TRUE]
    BY <1>2, <1>3, BecomeFact
  <1>5. /\ proc'[p].pc = "remove" /\ proc'[p].cmd = proc[p].cmd
        /\ proc'[p].snapshot = proc[p].snapshot /\ proc'[p].rollback = proc[p].rollback
        /\ ~proc'[p].err => /\ ~proc[p].err /\ containers' = containers \ {c}
                            /\ proc'[p].todo = proc[p].todo \ {c}
    BY <1>1, <1>2, <1>4 DEF Process
  <1>6. containers' \subseteq containers BY <1>3
  <1>7. IsLegacy(stateFile)' = IsLegacy(stateFile) /\ Recorded(stateFile)' = Recorded(stateFile)
    BY <1>1 DEF IsLegacy, Recorded
  <1>8. ~IsLegacy(stateFile) BY <1>1, <1>2 DEF CleanupOf
  <1>9. LabOK' BY <1>1, <1>2, <1>6, <1>7, <1>8 DEF LabOK, Empty, LegacyIsUntouched
  <1>10. CommandOK(proc[p])' BY <1>1, <1>2, <1>5 DEF CleanupOf, CommandOK, UpSteps, CleanupSteps
  <1>11. ~proc'[p].err => containers' \subseteq proc'[p].todo
    BY <1>1, <1>2, <1>5 DEF CleanupOf
  <1>12. CleanupOf(p)'
    BY <1>1, <1>2, <1>5, <1>6, <1>7, <1>8, <1>10, <1>11 DEF CleanupOf, Empty
  <1> QED BY <1>1, <1>3, <1>6, <1>7, <1>9, <1>12, OthersStay

LEMMA DeleteVethsTogether ==
  ASSUME TogetherInv, TypeOK', NEW p \in Procs, DeleteVeths(p) PROVE TogetherInv'
  <1> DEFINE owned == IF proc[p].snapshot = None THEN {} ELSE proc[p].snapshot.bridges
             s == [proc[p] EXCEPT !.pc = "bridges", !.todoBridges = owned]
             t == [s EXCEPT !.err = TRUE]
  <1>1. UNCHANGED <<containers, bridges, stateFile, lost>> BY DEF DeleteVeths, disk
  <1>2. TypeOK /\ proc[p] \in Process /\ CleanupOf(p) BY CleanupCalls DEF TogetherInv
  <1>3. proc[p].pc = "remove" /\ proc[p].todo = {} BY DEF DeleteVeths, At
  <1>4. Become(p, s) \/ Become(p, t) BY DEF DeleteVeths
  <1>5. proc'[p] = s \/ proc'[p] = t BY <1>2, <1>4, BecomeFact
  <1>6. /\ proc'[p].pc = "bridges" /\ proc'[p].cmd = proc[p].cmd
        /\ proc'[p].snapshot = proc[p].snapshot /\ proc'[p].rollback = proc[p].rollback
        /\ proc'[p].todoBridges = owned
        /\ ~proc'[p].err => ~proc[p].err
    BY <1>2, <1>5 DEF Process
  <1>7. bridges \subseteq owned BY <1>2, <1>3 DEF CleanupOf, Empty
  <1> HIDE DEF s, t, owned
  <1>8. CommandOK(proc[p])' BY <1>2, <1>3, <1>6 DEF CleanupOf, CommandOK, UpSteps, CleanupSteps
  <1>9. IsLegacy(stateFile)' = IsLegacy(stateFile) BY <1>1 DEF IsLegacy
  <1>10. ~proc'[p].err => containers = {} BY <1>2, <1>3, <1>6 DEF CleanupOf
  <1>11. CleanupOf(p)'
    BY <1>1, <1>2, <1>3, <1>6, <1>7, <1>8, <1>9, <1>10 DEF CleanupOf, Empty
  <1> QED BY <1>1, <1>4, <1>11, UnseenStep

LEMMA DeleteBridgeTogether ==
  ASSUME TogetherInv, TypeOK', NEW p \in Procs, DeleteBridge(p) PROVE TogetherInv'
  <1>1. proc[p].pc = "bridges" /\ UNCHANGED <<containers, stateFile, lost>>
    BY DEF DeleteBridge, At, disk
  <1>2. TypeOK /\ LabOK /\ proc[p] \in Process /\ CleanupOf(p) BY CleanupCalls DEF TogetherInv
  <1>3. PICK name \in proc[p].todoBridges :
          \/ /\ bridges' = bridges \ {name}
             /\ Become(p, [proc[p] EXCEPT !.todoBridges = @ \ {name}])
          \/ /\ Become(p, [[proc[p] EXCEPT !.todoBridges = @ \ {name}] EXCEPT !.err = TRUE])
             /\ UNCHANGED bridges
    BY DEF DeleteBridge
  <1>4. \/ /\ bridges' = bridges \ {name}
           /\ proc'[p] = [proc[p] EXCEPT !.todoBridges = @ \ {name}]
        \/ /\ proc'[p] = [[proc[p] EXCEPT !.todoBridges = @ \ {name}] EXCEPT !.err = TRUE]
           /\ bridges' = bridges
    BY <1>2, <1>3, BecomeFact
  <1>5. /\ proc'[p].pc = "bridges" /\ proc'[p].cmd = proc[p].cmd
        /\ proc'[p].snapshot = proc[p].snapshot /\ proc'[p].rollback = proc[p].rollback
        /\ ~proc'[p].err => /\ ~proc[p].err /\ bridges' = bridges \ {name}
                            /\ proc'[p].todoBridges = proc[p].todoBridges \ {name}
    BY <1>1, <1>2, <1>4 DEF Process
  <1>6. bridges' \subseteq bridges BY <1>4
  <1>7. IsLegacy(stateFile)' = IsLegacy(stateFile) /\ Recorded(stateFile)' = Recorded(stateFile)
    BY <1>1 DEF IsLegacy, Recorded
  <1>8. ~IsLegacy(stateFile) BY <1>1, <1>2 DEF CleanupOf
  <1>9. LabOK' BY <1>1, <1>2, <1>6, <1>7, <1>8 DEF LabOK, Empty, LegacyIsUntouched
  <1>10. CommandOK(proc[p])' BY <1>1, <1>2, <1>5 DEF CleanupOf, CommandOK, UpSteps, CleanupSteps
  <1>11. ~proc'[p].err => containers = {} /\ bridges' \subseteq proc'[p].todoBridges
    BY <1>1, <1>2, <1>5 DEF CleanupOf
  <1>12. CleanupOf(p)'
    BY <1>1, <1>2, <1>5, <1>6, <1>7, <1>8, <1>10, <1>11 DEF CleanupOf, Empty
  <1> QED BY <1>1, <1>3, <1>6, <1>7, <1>9, <1>12, OthersStay

\* Without a state file, and when the lab is gone.
LEMMA EmptyIsOK ==
  ASSUME TogetherInv, Empty, UNCHANGED <<containers, bridges, lost>>,
         stateFile' = None \/ stateFile' = stateFile
  PROVE  LabOK' /\ (IsLegacy(stateFile)' => IsLegacy(stateFile))
  <1>1. Empty' /\ bridges' = {} BY DEF Empty
  <1>2. IsLegacy(stateFile)' => stateFile' = stateFile BY DEF IsLegacy
  <1>3. LegacyIsUntouched' BY <1>2 DEF TogetherInv, LabOK, LegacyIsUntouched, IsLegacy
  <1> QED BY <1>1, <1>2, <1>3 DEF TogetherInv, LabOK, IsLegacy

LEMMA EraseStateTogether ==
  ASSUME TogetherInv, TypeOK', NEW p \in Procs, EraseState(p) PROVE TogetherInv'
  <1>1. /\ proc[p].pc = "bridges" /\ proc[p].todoBridges = {}
        /\ UNCHANGED <<containers, bridges, lost>>
    BY DEF EraseState, At, host
  <1>2. /\ TypeOK /\ LabOK /\ proc[p] \in Process /\ CleanupOf(p)
        /\ ~proc[p].rollback /\ proc[p].cmd \in {"down", "purge"}
    BY <1>1, CleanupCalls DEF TogetherInv
  <1>3. CASE KeepInventory(p) /\ UNCHANGED stateFile
    <2>1. End(p) BY <1>2, <1>3 DEF KeepInventory
    <2> QED BY <1>1, <1>3, <2>1, QuietEnd
  <1>4. CASE ~proc[p].err /\ stateFile' = None /\ AfterCleanup(p)
    <2>1. Empty BY <1>1, <1>2, <1>4 DEF CleanupOf, Empty
    <2>2. LabOK' /\ (IsLegacy(stateFile)' => IsLegacy(stateFile))
      BY <1>1, <1>4, <2>1, EmptyIsOK
    <2>3. CASE End(p)
      <3>1. CleanupOf(p)' BY <1>2, <2>3, EndIsClean
      <3> QED BY <1>1, <2>2, <2>3, <3>1, OthersStay DEF End
    <2>4. CASE proc[p].cmd = "purge" /\ Resume(p, "purge")
      <3> DEFINE s == [Idle EXCEPT !.pc = "purge", !.cmd = proc[p].cmd,
                                   !.topo = proc[p].topo, !.cancelled = proc[p].cancelled]
      <3>1. Become(p, s) BY <2>4 DEF Resume
      <3>2. proc'[p] = s BY <1>2, <3>1, BecomeFact
      <3>3. /\ proc'[p].pc = "purge" /\ proc'[p].cmd = "purge"
            /\ proc'[p].snapshot = None /\ proc'[p].rollback = FALSE
        BY <2>4, <3>2 DEF Idle
      <3> HIDE DEF s
      <3>4. CommandOK(proc[p])' BY <3>3 DEF CommandOK, UpSteps, CleanupSteps
      <3>5. ~IsLegacy(stateFile)' /\ Empty' BY <1>1, <1>4, <2>1 DEF IsLegacy, Empty
      <3>6. CleanupOf(p)' BY <3>3, <3>4, <3>5 DEF CleanupOf
      <3> QED BY <1>1, <2>2, <3>1, <3>6, OthersStay
    <2> QED BY <1>2, <1>4, <2>3, <2>4 DEF AfterCleanup
  <1> QED BY <1>3, <1>4 DEF EraseState

LEMMA PurgeTogether ==
  ASSUME TogetherInv, TypeOK', NEW p \in Procs, Purge(p) PROVE TogetherInv'
  <1>1. /\ proc[p].pc = "purge" /\ End(p) /\ UNCHANGED <<containers, bridges, lost>>
        /\ stateFile' = None \/ stateFile' = stateFile
    BY DEF Purge, At, host, disk
  <1>2. TypeOK /\ CleanupOf(p) BY DEF TogetherInv
  <1>3. Empty BY <1>1, <1>2 DEF CleanupOf
  <1>4. LabOK' /\ (IsLegacy(stateFile)' => IsLegacy(stateFile)) BY <1>1, <1>3, EmptyIsOK
  <1>5. CleanupOf(p)' BY <1>1, <1>2, EndIsClean
  <1> QED BY <1>1, <1>4, <1>5, OthersStay DEF End

LEMMA ReadLegacyTogether ==
  ASSUME TogetherInv, TypeOK', NEW p \in Procs, ReadLegacy(p) PROVE TogetherInv'
  <1> DEFINE migrated == [stateFile EXCEPT !.legacy = FALSE,
                             !.bridges = BridgeLinks(proc[p].topo)]
             s == [proc[p] EXCEPT !.pc = "write", !.snapshot = migrated]
  <1>1. UNCHANGED <<containers, bridges, stateFile, lost>> /\ proc[p].pc = "migrate"
    BY DEF ReadLegacy, host, disk, At
  <1>2. TypeOK /\ LabOK /\ proc[p] \in Process /\ CleanupOf(p) BY CleanupCalls DEF TogetherInv
  <1>3. CASE End(p) BY <1>1, <1>3, QuietEnd
  <1>4. CASE ~End(p)
    <2>1. IsLegacy(stateFile) /\ stateFile.digest = proc[p].topo /\ Become(p, s)
      BY <1>4 DEF ReadLegacy
    <2>2. stateFile \in Inventory BY <1>2, <2>1 DEF IsLegacy, TypeOK, SharedTypeOK
    <2>3. migrated.legacy = FALSE /\ migrated.bridges = BridgeLinks(stateFile.digest)
      BY <2>1, <2>2 DEF Inventory
    <2>4. bridges \subseteq BridgeLinks(stateFile.digest)
      BY <1>2, <2>1 DEF LabOK, Recorded, IsLegacy
    <2> HIDE DEF migrated
    <2>5. proc'[p] = s BY <1>2, <2>1, BecomeFact
    <2>6. /\ proc'[p].pc = "write" /\ proc'[p].cmd = proc[p].cmd
          /\ proc'[p].snapshot = migrated /\ proc'[p].rollback = proc[p].rollback
      BY <1>2, <2>5 DEF Process
    <2> HIDE DEF s
    <2>7. CommandOK(proc[p])' BY <1>1, <1>2, <2>6 DEF CleanupOf, CommandOK, UpSteps, CleanupSteps
    <2>8. CleanupOf(p)' BY <1>1, <1>2, <2>3, <2>4, <2>6, <2>7 DEF CleanupOf
    <2> QED BY <1>1, <2>1, <2>8, UnseenStep
  <1> QED BY <1>3, <1>4

\* The file a migration writes lists every bridge there still is.
LEMMA WriteMigratedTogether ==
  ASSUME TogetherInv, TypeOK', NEW p \in Procs, WriteMigrated(p) PROVE TogetherInv'
  <1>1. /\ proc[p].pc = "write" /\ End(p) /\ UNCHANGED <<containers, bridges, lost>>
        /\ stateFile' = proc[p].snapshot \/ stateFile' = stateFile
    BY DEF WriteMigrated, At, host, disk
  <1>2. /\ TypeOK /\ LabOK /\ CleanupOf(p) /\ proc[p].snapshot \in Inventory
    BY <1>1 DEF TogetherInv, TypeOK, ProcsOK, HoldsOK
  <1>3. CASE stateFile' = stateFile BY <1>1, <1>3, QuietEnd
  <1>4. CASE stateFile' = proc[p].snapshot
    <2>1. /\ proc[p].snapshot # None /\ ~proc[p].snapshot.legacy
          /\ bridges \subseteq proc[p].snapshot.bridges
      BY <1>2, NoneAssumption DEF CleanupOf
    <2>2. stateFile' # None /\ ~IsLegacy(stateFile)' /\ bridges' \subseteq Recorded(stateFile)'
      BY <1>1, <1>4, <2>1 DEF IsLegacy, Recorded
    <2>3. LabOK' BY <1>1, <1>2, <2>2 DEF LabOK, LegacyIsUntouched
    <2>4. CleanupOf(p)' BY <1>1, <1>2, EndIsClean
    <2> QED BY <1>1, <2>2, <2>3, <2>4, OthersStay DEF End
  <1> QED BY <1>1, <1>3, <1>4

LEMMA StepTogether ==
  ASSUME TogetherInv, TypeOK', NEW p \in Procs, Step(p) PROVE TogetherInv'
  <1>1. proc[p].pc \in {"idle", "read", "list", "remove", "bridges", "purge", "migrate", "write"}
    BY CleanupCalls
  <1>2. /\ ~StatState(p) /\ ~ListExisting(p) /\ ~OpenSnapshot(p) /\ ~CreateContainer(p)
        /\ ~BootContainer(p) /\ ~EnsureBridge(p) /\ ~AttachMember(p) /\ ~AttachP2P(p)
        /\ ~ConfigureRouters(p) /\ ~Commit(p) /\ ~SaveInventory(p)
    BY <1>1 DEF StatState, ListExisting, OpenSnapshot, CreateContainer, BootContainer,
                EnsureBridge, AttachMember, AttachP2P, ConfigureRouters, Commit, SaveInventory, At
  <1> QED
    BY <1>2, ReadStateTogether, ListLabelledTogether, RemoveContainerTogether,
       DeleteVethsTogether, DeleteBridgeTogether, EraseStateTogether, PurgeTogether,
       ReadLegacyTogether, WriteMigratedTogether
    DEF Step

LEMMA InitTogether == ASSUME Init PROVE TogetherInv
  <1>1. TypeOK BY InitType
  <1>2. \A p \in Procs : CleanupOf(p)
    <2>1. \A p \in Procs : proc[p] = Idle BY DEF Init
    <2> QED BY <2>1, IdleFacts DEF CleanupOf
  <1>3. AccountInv BY InitAccount
  <1>4. lost.containers = {} /\ lost.bridges = {} BY DEF Init
  <1>5. bridges \subseteq Recorded(stateFile)
    <2>1. \A p \in Procs : proc[p].snapshot = None BY IdleFacts DEF Init
    <2>2. ASSUME NEW p \in Procs PROVE Recorded(proc[p].snapshot) = {}
      <3>1. proc[p].snapshot = None BY <2>1
      <3> QED BY <3>1 DEF Recorded, IsLegacy
    <2>3. UNION {Recorded(proc[p].snapshot) : p \in Procs} = {} BY <2>2
    <2>4. BridgesAccounted BY <1>3 DEF AccountInv
    <2> QED BY <1>4, <2>3, <2>4 DEF BridgesAccounted
  <1>6. stateFile = None => Empty
    <2>1. CASE Fresh BY <2>1 DEF Fresh, Empty
    <2>2. CASE \E legacy \in BOOLEAN : Running(legacy)
      BY <2>2, RunningStateFile, NoneAssumption DEF Init
    <2> QED BY <2>1, <2>2 DEF Init
  <1>7. LegacyIsUntouched
    <2> SUFFICES ASSUME IsLegacy(stateFile)
                 PROVE  /\ stateFile.containers \subseteq containers
                        /\ BridgeLinks(stateFile.digest) \subseteq bridges
      BY DEF LegacyIsUntouched
    <2>1. ~Fresh BY DEF Fresh, IsLegacy
    <2> QED BY <2>1 DEF Init, Running
  <1> QED BY <1>1, <1>2, <1>4, <1>5, <1>6, <1>7 DEF TogetherInv, LabOK

LEMMA NextTogether ==
  ASSUME OnlyCleanups, TogetherInv, [Next]_vars PROVE TogetherInv'
  <1>1. TypeOK' BY NextType DEF TogetherInv
  <1>2. ASSUME NEW p \in Procs,
               Step(p) \/ Cancel(p) \/ Kill(p) \/ \E cmd \in Commands : Begin(p, cmd)
        PROVE  TogetherInv'
    BY <1>1, <1>2, StepTogether, CancelTogether, KillTogether, BeginTogether
  <1>3. CASE EditYaml \/ OperatorRemove \/ UNCHANGED vars
    <2>1. UNCHANGED <<containers, bridges, stateFile, lost, proc>>
      BY <1>3 DEF EditYaml, OperatorRemove, vars, host, disk, TogetherInv, LabOK
    <2>2. Recorded(stateFile)' = Recorded(stateFile) /\ IsLegacy(stateFile)' = IsLegacy(stateFile)
      BY <2>1 DEF Recorded, IsLegacy
    <2>3. LabOK' BY <2>1, <2>2 DEF TogetherInv, LabOK, Empty, LegacyIsUntouched
    <2>4. \A p \in Procs : CleanupOf(p)'
      BY <2>1, <2>2 DEF TogetherInv, CleanupOf, CommandOK, Empty
    <2> QED BY <1>1, <2>3, <2>4 DEF TogetherInv
  <1> QED BY <1>2, <1>3 DEF Next

\* However many downs, purges and migrations of a lab run at once, fail or are
\* killed: what is gone for one is gone for all, and the state file, while there
\* is one, lists every bridge that is left.
THEOREM TogetherHolds == OnlyCleanups => (Spec => []TogetherInv)
  <1> SUFFICES ASSUME OnlyCleanups PROVE Spec => []TogetherInv OBVIOUS
  <1>1. Init => TogetherInv BY InitTogether
  <1>2. TogetherInv /\ [Next]_vars => TogetherInv' BY NextTogether
  <1> QED BY <1>1, <1>2, PTL DEF Spec

\* A lab of an older state file is untouched by cleanups that run at once, too,
\* and by a migration beside them (runtime.go 551-572).
THEOREM CleanupsKeepLegacy == OnlyCleanups => (Spec => []LegacyIsUntouched)
  <1>1. TogetherInv => LegacyIsUntouched BY DEF TogetherInv, LabOK
  <1> QED BY <1>1, TogetherHolds, PTL

\* No bridge leaks between cleanups that run at once.
THEOREM CleanupsLeakNothing == OnlyCleanups => (Spec => []BridgesAccounted)
  <1>1. TogetherInv => BridgesAccounted BY DEF TogetherInv, LabOK, BridgesAccounted
  <1> QED BY <1>1, TogetherHolds, PTL

\* Of cleanups that run at once, too, none erases the record of a lab that is
\* not gone, though another may have removed what this one saw.
THEOREM CleanupsEraseLast == OnlyCleanups => (Spec => StateErasedOnlyWhenClean)
  <1> SUFFICES ASSUME OnlyCleanups PROVE Spec => StateErasedOnlyWhenClean OBVIOUS
  <1>1. ASSUME TogetherInv, TogetherInv', stateFile # None, stateFile' = None
        PROVE  containers' = {} /\ Recorded(stateFile) \cap bridges' = {}
    BY <1>1 DEF TogetherInv, LabOK, Empty
  <1>2. TogetherInv /\ TogetherInv' =>
          [stateFile # None /\ stateFile' = None =>
             /\ containers' = {} /\ Recorded(stateFile) \cap bridges' = {}]_vars
    BY <1>1
  <1> QED BY <1>2, TogetherHolds, PTL DEF StateErasedOnlyWhenClean
=============================================================================
